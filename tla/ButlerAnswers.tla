---------------------------- MODULE ButlerAnswers ----------------------------
(***************************************************************************)
(* How the board butler answers coordinator questions by itself            *)
(* (tools/board-butler/board_butler.py): the resident drafts an answer,    *)
(* holds it so that an operator can veto it, checks everything again and   *)
(* answers through Central.  Beside the resident there are the one-shot    *)
(* veto and kill-switch commands, which bypass its lock, and the human     *)
(* coordinators, who may accept and answer the same questions.             *)
(*                                                                         *)
(* coordinator_findings is one bounded document.  Drafts, failures and the *)
(* commands are written to it by compare-and-swap, and merged with what    *)
(* was written meanwhile; the report of every refresh replaces it as it    *)
(* is, without its control state and without the plans (the coordinator's  *)
(* derivation, tools/coordinator/coordinator.py).  The evaluation of a     *)
(* question is written by the resident only.  Every await of the code that *)
(* reads or writes one of them, or calls Central, is a step of its own.    *)
(***************************************************************************)
EXTENDS Integers, FiniteSets

CONSTANTS
    Questions, Humans, Butler, NoOne,
    VetoLimit, FailureLimit,    \* auto_demote.veto_count and failure_count
    MaxAttempts,                \* STATE_WRITE_MAX_ATTEMPTS
    MaxControls,                \* bound: one-shot commands
    MaxFaults                   \* bound: crashes, lost replies, failed calls

ASSUME ButlerAssumption ==
    /\ Butler \notin Humans /\ NoOne \notin Humans \cup {Butler}
    /\ IsFiniteSet(Questions)
    /\ VetoLimit \in Nat \ {0} /\ FailureLimit \in Nat \ {0}
    /\ MaxAttempts \in Nat \ {0} /\ MaxControls \in Nat /\ MaxFaults \in Nat

VARIABLES
    question,   \* Central's entry of each question
    owners,     \* the coordinators of the project
    doc,        \* coordinator_findings
    current,    \* who has read it and compares with what it still is
    due,        \* questions whose hold has run out
    audit,      \* the answer_audit of each question's evaluation
    mode,       \* whether coordinator_config asks for autonomous answers
    cycle,      \* the question the resident is processing
    command,    \* the one-shot command being run
    kept,       \* history: the control state committed since the last report
    vetoed,     \* history: questions whose plan is vetoed and still there
    dropped,    \* history: questions whose row was ever dropped
    controls, faults

vars == <<question, owners, doc, current, due, audit, mode, cycle, command,
          kept, vetoed, dropped, controls, faults>>
findings == <<doc, current>>
history == <<kept, vetoed, dropped>>

Coordinators == Humans \cup {Butler}

\* The row of a question in the findings: none, a draft (with a hold that is
\* pending or in assist mode, and a release time in either case), a vetoed one,
\* a note that nothing was drafted (rate limit, invalid configuration), or a
\* capacity diagnostic, which is critical and never dropped.
Drafted == {"pending", "assist"}
Holds == Drafted \cup {"none", "vetoed", "queued", "exhausted"}
Audits == {"none", "declined", "pending", "answered", "escalated", "failed"}
Steps == {"idle", "draft", "evaluate", "save", "central", "release", "plan", "config",
          "answer", "record", "fail", "audit"}

\* The control state of the butler in the document: the kill switch, and how
\* many vetoes and failures its histories have.
Controls == [kill : BOOLEAN, vetoes : Nat, failures : Nat]
NoControls == [kill |-> FALSE, vetoes |-> 0, failures |-> 0]

\* The observations of the board, which bear the id of a question too and may
\* stand before its row, are not kept: see StartCommand.
Docs == [row : [Questions -> Holds], control : Controls]
Blank == [row |-> [x \in Questions |-> "none"], control |-> NoControls]

\* A cycle holds the control state it has read, the row or the control state it
\* is writing, the status for the audit, and whether a veto or a kill had been
\* committed when it read the plan (history).  A command holds, with the two
\* control states, what it makes of the row: "none" if the first row with the
\* question's id was an observation.
Cycles == [pc : Steps \ {"idle"}, q : Questions, read : Controls, control : Controls,
           tries : Nat, due : BOOLEAN, hold : Holds, status : Audits, stopped : BOOLEAN]
Commands == [pc : {"write"}, kind : {"veto", "kill"}, q : Questions, read : Controls,
             control : Controls, tries : Nat, hold : {"vetoed", "exhausted", "none"}]
Idle == [pc |-> "idle"]

Init ==
    \* Earlier versions of the butler accepted a question before answering it.
    /\ \E mine \in SUBSET Questions :
         question = [x \in Questions |->
                       IF x \in mine
                       THEN [state |-> "accepted", by |-> Butler, answered |-> NoOne]
                       ELSE [state |-> "open", by |-> NoOne, answered |-> NoOne]]
    /\ owners = Coordinators
    /\ doc = Blank /\ current = {}
    /\ due = {} /\ audit = [x \in Questions |-> "none"] /\ mode = TRUE
    /\ cycle = Idle /\ command = Idle
    /\ kept = NoControls /\ vetoed = {} /\ dropped = {}
    /\ controls = 0 /\ faults = 0

------------------------------------------------------------------------------
(* Central: ticket_question_answer. *)

Authorized(who) == who \in owners
\* Nobody else who still is a coordinator of the project has accepted it.
Free(e, who) == e.by \in {NoOne, who} \/ e.by \notin owners

Accepted(e, who) == [e EXCEPT !.state = "accepted", !.by = who]
Answered(e, who) ==
    [e EXCEPT !.state = "answered", !.answered = who, !.by = IF @ = NoOne THEN @ ELSE who]

\* Mutant: the question stays with the coordinator that released it.
ReleasedKept(e) == [e EXCEPT !.state = "open"]
Released(e) == [e EXCEPT !.state = "open", !.by = NoOne]

\* A human coordinator accepts, releases or answers.
HumanResponds(h, x) ==
    /\ Authorized(h) /\ question[x].state # "answered"
    /\ \/ /\ Free(question[x], h)
          /\ \E e \in {Accepted(question[x], h), Answered(question[x], h)} :
               question' = [question EXCEPT ![x] = e]
       \/ /\ question[x].state = "accepted" /\ question[x].by = h
          /\ question' = [question EXCEPT ![x] = Released(@)]
    /\ UNCHANGED <<owners, findings, due, audit, mode, cycle, command, history, controls, faults>>

OwnersChange(c) ==
    /\ owners' = IF c \in owners THEN owners \ {c} ELSE owners \cup {c}
    /\ faults < MaxFaults /\ faults' = faults + 1
    /\ UNCHANGED <<question, findings, due, audit, mode, cycle, command, history, controls>>

------------------------------------------------------------------------------
(* The findings document. *)

\* What a document may look like after it was cut to its bounds: rows that are
\* not critical are dropped, never the row that is kept.
Bounded(d, keep) ==
    {[d EXCEPT !.row = [y \in Questions |-> IF y \in gone THEN "none" ELSE d.row[y]]] :
        gone \in SUBSET {y \in Questions \ keep : d.row[y] \notin {"none", "exhausted"}}}

\* merge_finding: the row of the question is replaced, whatever it was.
merge_finding(d, x, hold) == Bounded([d EXCEPT !.row[x] = hold], {x})

\* What the commands change: veto_question marks the first row with the id of
\* the question, of whatever kind, and engage_kill_switch marks no row.  Merged
\* after a conflict, the marked row replaces every row of the question, so a
\* marked observation removes the plan, and a kill may take an observation for
\* its change and remove the plan of that question.
Commanded(d, c) ==
    IF c.kind = "kill" THEN Bounded([d EXCEPT !.control = c.control], {})
    ELSE Bounded([row |-> [d.row EXCEPT ![c.q] =
                             IF c.hold = "none" /\ c.tries = 0 THEN @ ELSE c.hold],
                  control |-> c.control],
                 {c.q})

\* _reapply_json_delta on a history: its new entry is added, but a history that
\* is gone comes back whole, and a first entry yields to a history that another
\* has begun.
Grown(now, read, next) ==
    CASE next = read -> now
      [] next # read /\ now = 0 -> next
      [] next # read /\ now # 0 -> IF read = 0 THEN now ELSE now + 1

\* The same on the control state; all of it may come back when the present
\* document has none at all.  A kill writes a new switch over an engaged one.
Reapplied(now, read, next, killing) ==
    {[kill |-> now.kill \/ (next.kill /\ (killing \/ ~read.kill)),
      vetoes |-> Grown(now.vetoes, read.vetoes, next.vetoes),
      failures |-> Grown(now.failures, read.failures, next.failures)]}
    \cup {n \in {next} : now = NoControls}

\* _record_answer_failure; merged after a conflict, it may remove a plan as a
\* kill does.
FailureNoted(d, c) ==
    Bounded([d EXCEPT !.control = c.control], IF c.tries = 0 THEN {c.q} ELSE {})

\* Who reads the document anew, or gives up what it has read.
Reads(who) == current' = current \cup {who}
GivesUp(who) == current' = current \ {who}

Dropped(d) == {y \in Questions : doc.row[y] # "none" /\ d.row[y] = "none"}
\* A write leaves every copy of the document out of date (its hash covers the
\* time of the write).
Commit(d) ==
    /\ doc' = d /\ current' = {}
    /\ dropped' = dropped \cup Dropped(d)

\* resolve_config on a control state: autonomous only if nothing stops it; the
\* counters count within a window, so a limit that was reached may have passed.
MayAnswer(c) == mode /\ ~c.kill
MayAssist(c) == ~MayAnswer(c) \/ c.vetoes >= VetoLimit \/ c.failures >= FailureLimit

------------------------------------------------------------------------------
(* The resident. *)

\* A plan goes on to a step that reads the document itself, or does not need it.
Go(pc) == cycle' = [cycle EXCEPT !.pc = pc, !.read = NoControls, !.tries = 0, !.hold = "none"]
Settle(status) ==
    cycle' = [cycle EXCEPT !.pc = "audit", !.read = NoControls, !.control = NoControls,
                           !.tries = 0, !.due = FALSE, !.status = status, !.stopped = FALSE]

\* Mutant: an answered question is not processed again.
ReplayedUnanswered(x) == question[x].state # "answered"
\* A question comes from the event stream, or from the replay of the refresh:
\* the open and accepted ones, and those it answered without noting it.
Replayed(x) ==
    \/ question[x].state # "answered"
    \/ question[x].answered = Butler /\ audit[x] = "pending"

\* process_question reads the findings and the evaluation; with a row and no
\* pending plan there is nothing to do.
Begin(x) ==
    /\ cycle.pc = "idle" /\ Authorized(Butler) /\ Replayed(x)
    /\ \/ doc.row[x] = "none" /\ Reads("resident")
       \/ doc.row[x] # "none" /\ audit[x] = "pending" /\ UNCHANGED current
    /\ cycle' = [pc |-> IF doc.row[x] = "none" THEN "draft" ELSE "central",
                 q |-> x, read |-> IF doc.row[x] = "none" THEN doc.control ELSE NoControls,
                 control |-> NoControls, tries |-> 0, due |-> x \in due /\ doc.row[x] # "none",
                 hold |-> "none", status |-> "none", stopped |-> FALSE]
    /\ UNCHANGED <<question, owners, doc, due, audit, mode, command, history, controls, faults>>

\* The configuration is read and the answer drafted: it may qualify for an
\* answer, not qualify, or be too large for the findings.  Its hold may be of
\* no time at all.
Draft ==
    /\ cycle.pc = "draft"
    /\ \E hold \in Drafted \cup {"queued", "exhausted"}, now \in BOOLEAN :
         /\ hold = "pending" => MayAnswer(cycle.read)
         /\ now => hold = "pending"
         /\ cycle' = [cycle EXCEPT !.pc = "evaluate", !.hold = hold, !.due = now]
    /\ UNCHANGED <<question, owners, findings, due, audit, mode, command, history, controls, faults>>

\* record_draft_evaluation: an earlier plan is kept, and thrown away only with
\* a capacity diagnostic.
Evaluate ==
    /\ cycle.pc = "evaluate"
    /\ audit' = [audit EXCEPT ![cycle.q] =
                   CASE cycle.hold = "exhausted" -> "declined"
                     [] cycle.hold \in {"assist", "queued"} /\ @ = "none" -> "declined"
                     [] cycle.hold = "pending" /\ @ \in {"none", "declined"} -> "pending"
                     [] OTHER -> @]
    /\ cycle' = [cycle EXCEPT !.pc = "save"]
    /\ UNCHANGED <<question, owners, findings, due, mode, command, history, controls, faults>>

\* Mutant: the finding is written with the control state that was read.
SaveFindingBlindly ==
    /\ cycle.pc = "save"
    /\ \E d \in merge_finding([doc EXCEPT !.control = cycle.read], cycle.q, cycle.hold) :
         Commit(d) /\ vetoed' = vetoed \ (Dropped(d) \cup {cycle.q})
    /\ due' = due \ {cycle.q}
    /\ IF cycle.hold = "pending" /\ audit[cycle.q] = "pending" THEN Go("central")
       ELSE cycle' = Idle
    /\ UNCHANGED <<question, owners, audit, mode, command, kept, controls, faults>>

\* write_findings: one attempt of the compare-and-swap.  A conflict reads the
\* document again and applies the row to it, up to MaxAttempts times.  The
\* question had no row when the draft began: a veto that a retrying command
\* has put there since is replaced.
SaveFinding ==
    /\ cycle.pc = "save"
    /\ \/ /\ "resident" \in current
          /\ \E d \in merge_finding(doc, cycle.q, cycle.hold) :
               Commit(d) /\ vetoed' = vetoed \ (Dropped(d) \cup {cycle.q})
          /\ due' = due \ {cycle.q}
          /\ IF cycle.hold = "pending" /\ audit[cycle.q] = "pending" THEN Go("central")
             ELSE cycle' = Idle
       \/ /\ "resident" \notin current
          /\ IF cycle.tries + 1 < MaxAttempts
             THEN Reads("resident") /\ cycle' = [cycle EXCEPT !.read = doc.control, !.tries = @ + 1]
             ELSE UNCHANGED current /\ cycle' = Idle
          /\ UNCHANGED <<doc, due, vetoed, dropped>>
    /\ UNCHANGED <<question, owners, audit, mode, command, kept, controls, faults>>

\* advance_autonomous_answer: Central's view of the question comes first.
ReadQuestion ==
    /\ cycle.pc = "central"
    /\ \/ ~Authorized(Butler) /\ (Settle("escalated") \/ cycle' = Idle)
       \/ /\ Authorized(Butler) /\ question[cycle.q].state = "answered"
          /\ Settle("answered")
       \/ /\ Authorized(Butler) /\ question[cycle.q].state = "accepted"
          /\ IF question[cycle.q].by = Butler THEN Go("release") ELSE Settle("escalated")
       \/ Authorized(Butler) /\ question[cycle.q].state = "open" /\ Go("plan")
    /\ UNCHANGED <<question, owners, findings, due, audit, mode, command, history, controls, faults>>

\* The butler gives back what it had accepted; a refusal ends the process.
Release ==
    /\ cycle.pc = "release"
    /\ IF Authorized(Butler) /\ question[cycle.q].state = "accepted"
            /\ question[cycle.q].by = Butler
       THEN /\ question' = [question EXCEPT ![cycle.q] = Released(@)]
            /\ Go("plan")
       ELSE cycle' = Idle /\ UNCHANGED question
    /\ UNCHANGED <<owners, findings, due, audit, mode, command, history, controls, faults>>

\* Mutant: a veto in the row is not looked for.
ReadPlanUnvetoed ==
    /\ cycle.pc = "plan"
    /\ \E stopped \in {kept.kill \/ cycle.q \in vetoed} :
         IF doc.row[cycle.q] = "none" THEN Settle("escalated")
         ELSE cycle' = [cycle EXCEPT !.pc = "config", !.read = doc.control, !.stopped = stopped]
    /\ UNCHANGED <<question, owners, findings, due, audit, mode, command, history, controls, faults>>

\* The durable row: without it, or with a veto in it, the plan is given up.
ReadPlan ==
    /\ cycle.pc = "plan"
    /\ \E stopped \in {kept.kill \/ cycle.q \in vetoed} :
         IF doc.row[cycle.q] \notin Drafted THEN Settle("escalated")
         ELSE cycle' = [cycle EXCEPT !.pc = "config", !.read = doc.control, !.stopped = stopped]
    /\ UNCHANGED <<question, owners, findings, due, audit, mode, command, history, controls, faults>>

\* The configuration and the evidence are read again; while the hold runs the
\* plan stays as it is.
Recheck ==
    /\ cycle.pc = "config"
    /\ \/ MayAssist(cycle.read) /\ Settle("escalated")
       \/ MayAnswer(cycle.read) /\ Settle("escalated")      \* the evidence changed
       \/ /\ MayAnswer(cycle.read)
          /\ IF cycle.due THEN Go("answer") ELSE cycle' = Idle
    /\ UNCHANGED <<question, owners, findings, due, audit, mode, command, history, controls, faults>>

\* Mutant: a call that failed is taken for a duplicate.
AnswerTrusting ==
    /\ cycle.pc = "answer"
    /\ IF Authorized(Butler) /\ (question[cycle.q].state = "answered"
                                   \/ Free(question[cycle.q], Butler))
       THEN question' = [question EXCEPT ![cycle.q] =
                           IF @.state = "answered" THEN @ ELSE Answered(@, Butler)]
       ELSE UNCHANGED question
    /\ Settle("answered")
    /\ UNCHANGED <<owners, findings, due, audit, mode, command, history, controls, faults>>

\* Central answers once; a question that is answered already is a duplicate.
\* The reply to a call that was carried out may be lost.
AnswerQuestion ==
    /\ cycle.pc = "answer"
    /\ \/ /\ Authorized(Butler)
          /\ question[cycle.q].state = "answered" \/ Free(question[cycle.q], Butler)
          /\ question' = [question EXCEPT ![cycle.q] =
                            IF @.state = "answered" THEN @ ELSE Answered(@, Butler)]
          /\ \/ Settle("answered") /\ UNCHANGED faults
             \/ Go("record") /\ faults < MaxFaults /\ faults' = faults + 1
       \/ /\ \/ ~Authorized(Butler)
             \/ question[cycle.q].state # "answered" /\ ~Free(question[cycle.q], Butler)
          /\ Go("record")
          /\ UNCHANGED <<question, faults>>
    /\ UNCHANGED <<owners, findings, due, audit, mode, command, history, controls>>

\* _record_answer_failure reads the findings and adds to the history.
ReadForFailure ==
    /\ cycle.pc = "record" /\ Reads("resident")
    /\ cycle' = [cycle EXCEPT !.pc = "fail", !.read = doc.control, !.tries = 0,
                              !.control = [doc.control EXCEPT !.failures = @ + 1]]
    /\ UNCHANGED <<question, owners, doc, due, audit, mode, command, history, controls, faults>>

RecordFailure ==
    /\ cycle.pc = "fail"
    /\ \/ /\ "resident" \in current
          /\ \E d \in FailureNoted(doc, cycle) : Commit(d) /\ vetoed' = vetoed \ Dropped(d)
          /\ kept' = [kept EXCEPT !.failures = @ + 1]
          /\ Settle("failed")
       \/ /\ "resident" \notin current
          /\ IF cycle.tries + 1 < MaxAttempts
             THEN /\ Reads("resident")
                  /\ \E n \in Reapplied(doc.control, cycle.read, cycle.control, FALSE) :
                       cycle' = [cycle EXCEPT !.read = doc.control, !.control = n, !.tries = @ + 1]
             ELSE UNCHANGED current /\ cycle' = Idle
          /\ UNCHANGED <<doc, history>>
    /\ UNCHANGED <<question, owners, due, audit, mode, command, controls, faults>>

_write_answer_audit ==
    /\ cycle.pc = "audit"
    /\ audit' = [audit EXCEPT ![cycle.q] = cycle.status]
    /\ cycle' = Idle
    /\ UNCHANGED <<question, owners, findings, due, mode, command, history, controls, faults>>

\* Between two questions the refresh writes the holds of mechanical actions and
\* the observations of the board by compare-and-swap, and may have to drop rows
\* for them.
ReconcileHolds ==
    /\ cycle.pc = "idle"
    /\ \E d \in Bounded(doc, {}) : Commit(d) /\ vetoed' = vetoed \ Dropped(d)
    /\ UNCHANGED <<question, owners, due, audit, mode, cycle, command, kept, controls, faults>>

\* The refresh runs the coordinator, whose report replaces the document whatever
\* has been written to it.  A report is built without control state, of the
\* findings read when the refresh began: capacity diagnostics are not among
\* the kinds that are carried over, and every other row of a question is cut
\* to a length that leaves neither its question_id nor its hold.
write_reports ==
    /\ cycle.pc = "idle"
    /\ Commit(Blank)
    /\ kept' = NoControls /\ vetoed' = {}
    /\ UNCHANGED <<question, owners, due, audit, mode, cycle, command, controls, faults>>

\* The resident dies, or a call of it fails, between any two steps.
Interrupted ==
    /\ cycle.pc # "idle" /\ faults < MaxFaults
    /\ cycle' = Idle /\ GivesUp("resident")
    /\ faults' = faults + 1
    /\ UNCHANGED <<question, owners, doc, due, audit, mode, command, history, controls>>

------------------------------------------------------------------------------
(* Time, the configuration and the one-shot commands. *)

HoldElapses(x) ==
    /\ doc.row[x] \in Drafted /\ x \notin due
    /\ due' = due \cup {x}
    /\ UNCHANGED <<question, owners, findings, audit, mode, cycle, command, history, controls, faults>>

Configure ==
    /\ controls < MaxControls /\ controls' = controls + 1
    /\ mode' = ~mode
    /\ UNCHANGED <<question, owners, findings, due, audit, cycle, command, history, faults>>

\* apply_control_action reads the findings and makes its change.  A veto marks
\* the first row with the question's id: its row, or an observation.
StartCommand(kind, x) ==
    /\ command.pc = "idle" /\ controls < MaxControls
    /\ controls' = controls + 1
    /\ Reads("command")
    /\ \E hold \in {"none", "vetoed", "exhausted"} :
         /\ hold = "vetoed" => doc.row[x] \notin {"none", "exhausted"}
         /\ hold = "exhausted" => doc.row[x] = "exhausted"
         /\ kind = "kill" => hold = "none"
         /\ command' = [pc |-> "write", kind |-> kind, q |-> x, read |-> doc.control,
                        control |-> IF kind = "kill" THEN [doc.control EXCEPT !.kill = TRUE]
                                    ELSE [doc.control EXCEPT !.vetoes = @ + 1],
                        tries |-> 0, hold |-> hold]
    /\ UNCHANGED <<question, owners, doc, due, audit, mode, cycle, history, faults>>

WriteCommand ==
    /\ command.pc = "write"
    /\ \/ /\ "command" \in current
          /\ \E d \in Commanded(doc, command) :
               /\ Commit(d)
               /\ vetoed' = IF command.kind = "veto" /\ command.hold = "vetoed"
                            THEN (vetoed \ Dropped(d)) \cup {command.q}
                            ELSE {x \in vetoed : d.row[x] = doc.row[x]}
          /\ kept' = IF command.kind = "kill" THEN [kept EXCEPT !.kill = TRUE]
                     ELSE [kept EXCEPT !.vetoes = @ + 1]
          /\ command' = Idle
       \/ /\ "command" \notin current
          /\ IF command.tries + 1 < MaxAttempts
             THEN /\ Reads("command")
                  /\ \E n \in Reapplied(doc.control, command.read, command.control,
                                        command.kind = "kill") :
                       command' = [command EXCEPT !.read = doc.control, !.control = n,
                                                  !.tries = @ + 1]
             ELSE UNCHANGED current /\ command' = Idle
          /\ UNCHANGED <<doc, history>>
    /\ UNCHANGED <<question, owners, due, audit, mode, cycle, controls, faults>>

Resident ==
    \/ Draft \/ Evaluate \/ SaveFinding \/ ReadQuestion \/ Release \/ ReadPlan \/ Recheck
    \/ AnswerQuestion \/ ReadForFailure \/ RecordFailure \/ _write_answer_audit

Next ==
    \/ Resident \/ ReconcileHolds \/ write_reports \/ Interrupted \/ WriteCommand \/ Configure
    \/ \E x \in Questions :
         \/ Begin(x) \/ HoldElapses(x)
         \/ \E kind \in {"veto", "kill"} : StartCommand(kind, x)
         \/ \E h \in Humans : HumanResponds(h, x)
    \/ \E c \in Coordinators : OwnersChange(c)

Spec == Init /\ [][Next]_vars

\* The resident runs on, and its refresh replays every pending question.
Fairness ==
    /\ WF_vars(Resident)
    /\ \A x \in Questions : SF_vars(Begin(x)) /\ WF_vars(HoldElapses(x))

FairSpec == Spec /\ Fairness

------------------------------------------------------------------------------
(* Properties *)

\* Everything keeps to its type; a question has an owner exactly while it is
\* accepted (or was answered by the one that had accepted it).
TypeOK ==
    /\ question \in [Questions -> [state : {"open", "accepted", "answered"},
                                   by : Coordinators \cup {NoOne},
                                   answered : Coordinators \cup {NoOne}]]
    /\ \A x \in Questions :
         /\ question[x].state = "open" => question[x].by = NoOne
         /\ question[x].state = "accepted" => question[x].by # NoOne
         /\ question[x].state = "answered" <=> question[x].answered # NoOne
    /\ owners \subseteq Coordinators
    /\ doc \in Docs /\ current \subseteq {"resident", "command"}
    /\ due \subseteq Questions /\ audit \in [Questions -> Audits] /\ mode \in BOOLEAN
    /\ cycle \in Cycles \cup {Idle} /\ command \in Commands \cup {Idle}
    /\ kept \in Controls /\ vetoed \subseteq Questions /\ dropped \subseteq Questions
    /\ controls \in 0 .. MaxControls /\ faults \in 0 .. MaxFaults

\* The butler answers no question whose plan had a veto in force, and none
\* under a kill in force, when the cycle read the durable plan.  A kill is in
\* force until a report replaces the document; a veto that reached the plan,
\* until its row is gone (a report, the bounds, a draft begun without the row).
StopsAreHonoured ==
    [][\A x \in Questions :
         question'[x].answered = Butler /\ question[x].answered = NoOne
           => ~cycle.stopped]_vars

\* However drafts, failures and commands interleave, conflict and retry, none
\* takes back what another has committed: since the last report the document
\* has the kill, every veto and every failure, and a vetoed plan stays vetoed
\* as long as its row is there.
NothingIsOverwritten ==
    /\ kept.kill => doc.control.kill
    /\ kept.vetoes <= doc.control.vetoes
    /\ kept.failures <= doc.control.failures
    /\ \A x \in vetoed : doc.row[x] = "vetoed"

\* An audit says "answered" only of a question Central has an answer for.
AuditIsTrue ==
    \A x \in Questions : audit[x] = "answered" => question[x].state = "answered"

\* A plan never stays pending for good, unless its row was dropped while it
\* was held, a human answered first, or the butler has lost the project.
PlansSettle ==
    \A x \in Questions :
      audit[x] = "pending" ~> \/ audit[x] # "pending" \/ x \in dropped
                              \/ question[x].answered \in Humans
                              \/ Butler \notin owners
==============================================================================
