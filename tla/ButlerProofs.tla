---------------------------- MODULE ButlerProofs ----------------------------
(***************************************************************************)
(* Proofs about ButlerAnswers, for any set of questions and any bounds: no *)
(* draft, failure or command takes back what another one has written since *)
(* the last report, a question that was vetoed, or asked after a kill, is  *)
(* not answered by the butler while the veto or the kill is in force, and  *)
(* an audit that says "answered" is true.                                  *)
(***************************************************************************)
EXTENDS ButlerAnswers, TLAPS

\* One control state has everything another has.
AtMost(a, b) == (a.kill => b.kill) /\ a.vetoes <= b.vetoes /\ a.failures <= b.failures

\* What the resident knows while it records a failure: the document has grown
\* at most since it was read, and what it is going to write has its failure.
FailInv ==
    cycle.pc = "fail" =>
      /\ AtMost(cycle.read, doc.control)
      /\ "resident" \in current => cycle.read = doc.control
      /\ cycle.control.kill = cycle.read.kill /\ cycle.control.vetoes = cycle.read.vetoes
      /\ kept.failures + 1 <= cycle.control.failures
      /\ cycle.control.failures <= cycle.read.failures + 1

\* A cycle that goes on after it has read a plan was stopped by a kill only, and
\* one that answers was not stopped at all.
CycleInv ==
    /\ cycle.pc = "config" /\ cycle.stopped => cycle.read.kill
    /\ cycle.pc = "answer" => ~cycle.stopped
    /\ FailInv

\* A command is going to write its kill or its veto over what it has read, and
\* nobody else vetoes meanwhile.
CommandInv ==
    command.pc = "write" =>
      /\ AtMost(command.read, command.control)
      /\ command.kind = "kill" => command.control.kill
      /\ command.kind = "veto" => command.read.vetoes + 1 <= command.control.vetoes
      /\ "command" \in current => command.read = doc.control
      /\ doc.control.vetoes <= command.read.vetoes

Inv == TypeOK /\ CycleInv /\ CommandInv /\ NothingIsOverwritten

-----------------------------------------------------------------------------
(* The findings document. *)

\* Cutting the document to its bounds changes nothing but rows, and a row only
\* by dropping it, never the one that is kept (_bound_control_state).
LEMMA BoundedFacts ==
    ASSUME NEW d \in Docs, NEW keep, NEW e \in Bounded(d, keep)
    PROVE  /\ e \in Docs /\ e.control = d.control
           /\ \A y \in Questions : e.row[y] = d.row[y] \/ e.row[y] = "none"
           /\ \A y \in Questions : y \in keep => e.row[y] = d.row[y]
<1>1. PICK gone \in SUBSET {y \in Questions \ keep : d.row[y] \notin {"none", "exhausted"}} :
        e = [d EXCEPT !.row = [y \in Questions |-> IF y \in gone THEN "none" ELSE d.row[y]]]
  BY DEF Bounded
<1>2. d.row \in [Questions -> Holds] /\ d.control \in Controls
  BY DEF Docs
<1>3. e = [row |-> [y \in Questions |-> IF y \in gone THEN "none" ELSE d.row[y]],
           control |-> d.control]
  BY <1>1 DEF Docs
<1>4. [y \in Questions |-> IF y \in gone THEN "none" ELSE d.row[y]] \in [Questions -> Holds]
  BY <1>2 DEF Holds, Drafted
<1> QED BY <1>1, <1>2, <1>3, <1>4 DEF Docs

\* merge_finding writes the row of its question.
LEMMA MergeFacts ==
    ASSUME NEW d \in Docs, NEW x \in Questions, NEW h \in Holds,
           NEW e \in merge_finding(d, x, h)
    PROVE  /\ e \in Docs /\ e.control = d.control
           /\ \A y \in Questions \ {x} : e.row[y] = d.row[y] \/ e.row[y] = "none"
<1> DEFINE m == [d EXCEPT !.row[x] = h]
<1>1. /\ m \in Docs /\ m.control = d.control
      /\ \A y \in Questions \ {x} : m.row[y] = d.row[y]
  BY DEF Docs
<1>2. e \in Bounded(m, {x})
  BY DEF merge_finding
<1> HIDE DEF m
<1> QED BY <1>1, <1>2, BoundedFacts

\* A command writes its control state, and a veto of a row marks it.
LEMMA CommandedFacts ==
    ASSUME NEW d \in Docs, NEW c \in Commands, NEW e \in Commanded(d, c)
    PROVE  /\ e \in Docs /\ e.control = c.control
           /\ c.kind = "veto" /\ c.hold = "vetoed" => e.row[c.q] = "vetoed"
           /\ \A y \in Questions \ {c.q} : e.row[y] = d.row[y] \/ e.row[y] = "none"
<1>0. c.q \in Questions /\ c.control \in Controls /\ c.hold \in Holds
  BY DEF Commands, Holds
<1>1. CASE c.kind = "kill"
  <2> DEFINE m == [d EXCEPT !.control = c.control]
  <2>1. m \in Docs /\ m.control = c.control /\ m.row = d.row
    BY <1>0 DEF Docs
  <2>2. e \in Bounded(m, {})
    BY <1>1 DEF Commanded
  <2> HIDE DEF m
  <2> QED BY <1>1, <2>1, <2>2, BoundedFacts
<1>2. CASE c.kind = "veto"
  <2> DEFINE hold == IF c.hold = "none" /\ c.tries = 0 THEN d.row[c.q] ELSE c.hold
             m == [row |-> [d.row EXCEPT ![c.q] = hold], control |-> c.control]
  <2>1. hold \in Holds
    BY <1>0 DEF Docs
  <2>2. /\ m \in Docs /\ m.control = c.control /\ m.row[c.q] = hold
        /\ \A y \in Questions \ {c.q} : m.row[y] = d.row[y]
    BY <1>0, <2>1 DEF Docs
  <2>4. e \in Bounded(m, {c.q})
    <3>1. [d.row EXCEPT ![c.q] = IF c.hold = "none" /\ c.tries = 0 THEN @ ELSE c.hold]
            = [d.row EXCEPT ![c.q] = hold]
      BY <1>0 DEF Docs
    <3> QED BY <1>2, <3>1 DEF Commanded
  <2>5. c.hold = "vetoed" => hold = "vetoed"
    OBVIOUS
  <2> HIDE DEF m, hold
  <2> QED BY <1>0, <2>2, <2>4, <2>5, BoundedFacts
<1> QED BY <1>1, <1>2 DEF Commands

\* _record_answer_failure writes its control state.
LEMMA FailureFacts ==
    ASSUME NEW d \in Docs, NEW c \in Cycles, NEW e \in FailureNoted(d, c)
    PROVE  /\ e \in Docs /\ e.control = c.control
           /\ \A y \in Questions : e.row[y] = d.row[y] \/ e.row[y] = "none"
<1> DEFINE m == [d EXCEPT !.control = c.control]
<1>1. m \in Docs /\ m.control = c.control /\ m.row = d.row
  BY DEF Docs, Cycles
<1>2. e \in Bounded(m, IF c.tries = 0 THEN {c.q} ELSE {})
  BY DEF FailureNoted
<1> HIDE DEF m
<1> QED BY <1>1, <1>2, BoundedFacts

\* A change applied again takes nothing back, and keeps a kill, and a veto that
\* no other veto came before (_reapply_json_delta).
LEMMA ReappliedFacts ==
    ASSUME NEW now \in Controls, NEW read \in Controls, NEW next \in Controls,
           NEW killing \in BOOLEAN, AtMost(read, next),
           NEW n \in Reapplied(now, read, next, killing)
    PROVE  /\ n \in Controls /\ AtMost(now, n)
           /\ killing /\ next.kill => n.kill
           /\ read.vetoes + 1 <= next.vetoes /\ now.vetoes <= read.vetoes
                => now.vetoes + 1 <= n.vetoes
<1>0. /\ now.kill \in BOOLEAN /\ now.vetoes \in Nat /\ now.failures \in Nat
      /\ read.kill \in BOOLEAN /\ read.vetoes \in Nat /\ read.failures \in Nat
      /\ next.kill \in BOOLEAN /\ next.vetoes \in Nat /\ next.failures \in Nat
  BY DEF Controls
<1>1. CASE n = [kill |-> now.kill \/ (next.kill /\ (killing \/ ~read.kill)),
                vetoes |-> Grown(now.vetoes, read.vetoes, next.vetoes),
                failures |-> Grown(now.failures, read.failures, next.failures)]
  <2>1. /\ Grown(now.vetoes, read.vetoes, next.vetoes) \in Nat
        /\ now.vetoes <= Grown(now.vetoes, read.vetoes, next.vetoes)
        /\ read.vetoes + 1 <= next.vetoes /\ now.vetoes <= read.vetoes
             => now.vetoes + 1 <= Grown(now.vetoes, read.vetoes, next.vetoes)
    BY <1>0 DEF Grown
  <2>2. /\ Grown(now.failures, read.failures, next.failures) \in Nat
        /\ now.failures <= Grown(now.failures, read.failures, next.failures)
    BY <1>0 DEF Grown
  <2>3. (now.kill \/ (next.kill /\ (killing \/ ~read.kill))) \in BOOLEAN
    OBVIOUS
  <2>4. /\ n.kill = (now.kill \/ (next.kill /\ (killing \/ ~read.kill)))
        /\ n.vetoes = Grown(now.vetoes, read.vetoes, next.vetoes)
        /\ n.failures = Grown(now.failures, read.failures, next.failures)
    BY <1>1
  <2>5. n \in Controls
    BY <1>1, <2>1, <2>2, <2>3 DEF Controls
  <2>6. AtMost(now, n) /\ (killing /\ next.kill => n.kill)
    BY <2>1, <2>2, <2>4 DEF AtMost
  <2> QED BY <2>1, <2>4, <2>5, <2>6
<1>2. CASE n = next /\ now = NoControls
  <2>1. now.kill = FALSE /\ now.vetoes = 0 /\ now.failures = 0
    BY <1>2 DEF NoControls
  <2> QED BY <1>0, <1>2, <2>1 DEF AtMost
<1> QED BY <1>1, <1>2 DEF Reapplied

\* A failure that is applied again is still counted: a first entry yields only
\* to a history that has an entry already.
LEMMA FailureReapplied ==
    ASSUME NEW now \in Controls, NEW read \in Controls, NEW next \in Controls,
           NEW k \in Nat, AtMost(read, now), k <= now.failures,
           next.kill = read.kill, next.vetoes = read.vetoes,
           k + 1 <= next.failures, next.failures <= read.failures + 1,
           NEW n \in Reapplied(now, read, next, FALSE)
    PROVE  /\ n \in Controls /\ n.kill = now.kill /\ n.vetoes = now.vetoes
           /\ k + 1 <= n.failures /\ n.failures <= now.failures + 1
<1>0. /\ now.kill \in BOOLEAN /\ now.vetoes \in Nat /\ now.failures \in Nat
      /\ read.kill \in BOOLEAN /\ read.vetoes \in Nat /\ read.failures \in Nat
      /\ next.kill \in BOOLEAN /\ next.vetoes \in Nat /\ next.failures \in Nat
  BY DEF Controls
<1>1. CASE n = [kill |-> now.kill \/ (next.kill /\ (FALSE \/ ~read.kill)),
                vetoes |-> Grown(now.vetoes, read.vetoes, next.vetoes),
                failures |-> Grown(now.failures, read.failures, next.failures)]
  <2>1. Grown(now.vetoes, read.vetoes, next.vetoes) = now.vetoes
    BY DEF Grown
  <2>2. /\ Grown(now.failures, read.failures, next.failures) \in Nat
        /\ k + 1 <= Grown(now.failures, read.failures, next.failures)
        /\ Grown(now.failures, read.failures, next.failures) <= now.failures + 1
    BY <1>0 DEF Grown, AtMost
  <2>3. (now.kill \/ (next.kill /\ (FALSE \/ ~read.kill))) = now.kill
    BY <1>0
  <2> QED BY <1>0, <1>1, <2>1, <2>2, <2>3 DEF Controls
<1>2. CASE n = next /\ now = NoControls
  <2>1. now.kill = FALSE /\ now.vetoes = 0 /\ now.failures = 0
    BY <1>2 DEF NoControls
  <2>2. read.kill = FALSE /\ read.vetoes = 0 /\ read.failures = 0
    BY <1>0, <2>1 DEF AtMost
  <2> QED BY <1>0, <1>2, <2>1, <2>2
<1> QED BY <1>1, <1>2 DEF Reapplied

-----------------------------------------------------------------------------
(* Type correctness of the resident's cycle. *)

\* The parts of the type invariant, as the steps below use them.
QuestionsOK ==
    /\ question \in [Questions -> [state : {"open", "accepted", "answered"},
                                   by : Coordinators \cup {NoOne},
                                   answered : Coordinators \cup {NoOne}]]
    /\ \A x \in Questions :
         /\ question[x].state = "open" => question[x].by = NoOne
         /\ question[x].state = "accepted" => question[x].by # NoOne
         /\ question[x].state = "answered" <=> question[x].answered # NoOne
RestOK ==
    /\ owners \subseteq Coordinators
    /\ due \subseteq Questions /\ audit \in [Questions -> Audits] /\ mode \in BOOLEAN
    /\ controls \in 0 .. MaxControls /\ faults \in 0 .. MaxFaults
DocOK ==
    /\ doc \in Docs /\ current \subseteq {"resident", "command"}
    /\ kept \in Controls /\ vetoed \subseteq Questions /\ dropped \subseteq Questions
CycleOK == cycle \in Cycles \cup {Idle}
CommandOK == command \in Commands \cup {Idle}

\* The type invariant is the conjunction of its parts.
LEMMA TypeParts == TypeOK <=> QuestionsOK /\ RestOK /\ DocOK /\ CycleOK /\ CommandOK
  BY DEF TypeOK, QuestionsOK, RestOK, DocOK, CycleOK, CommandOK

\* The empty document, which a report leaves.
LEMMA BlankFacts == Blank \in Docs /\ NoControls \in Controls /\ Blank.control = NoControls
<1>1. NoControls \in Controls
  BY DEF NoControls, Controls
<1>2. [x \in Questions |-> "none"] \in [Questions -> Holds]
  BY DEF Holds
<1> QED BY <1>1, <1>2 DEF Blank, Docs

\* The initial state.
LEMMA InitInv == Init => Inv
<1> SUFFICES ASSUME Init PROVE Inv
  OBVIOUS
<1>1. PICK mine \in SUBSET Questions :
        question = [x \in Questions |->
                      IF x \in mine
                      THEN [state |-> "accepted", by |-> Butler, answered |-> NoOne]
                      ELSE [state |-> "open", by |-> NoOne, answered |-> NoOne]]
  BY DEF Init
<1>a. QuestionsOK
  BY <1>1, ButlerAssumption DEF QuestionsOK, Coordinators
<1>b. RestOK
  BY ButlerAssumption DEF Init, RestOK, Audits
<1>c. DocOK /\ CycleOK /\ CommandOK
  BY BlankFacts DEF Init, DocOK, CycleOK, CommandOK
<1>2. TypeOK
  BY <1>a, <1>b, <1>c, TypeParts
<1>3. CycleInv /\ CommandInv
  BY DEF Init, CycleInv, FailInv, CommandInv, Idle
<1>4. NothingIsOverwritten
  BY BlankFacts DEF Init, NothingIsOverwritten, NoControls
<1> QED BY <1>2, <1>3, <1>4 DEF Inv

\* What Central makes of a question keeps its entry well formed.
LEMMA EntryStep ==
    ASSUME QuestionsOK, NEW x \in Questions, NEW who \in Coordinators,
           NEW e \in {Accepted(question[x], who), Answered(question[x], who),
                      Released(question[x])},
           question[x].state # "answered",
           question' = [question EXCEPT ![x] = e]
    PROVE  QuestionsOK'
<1>0. who # NoOne
  BY ButlerAssumption DEF Coordinators
<1>1. question[x] \in [state : {"open", "accepted", "answered"},
                       by : Coordinators \cup {NoOne}, answered : Coordinators \cup {NoOne}]
  BY DEF QuestionsOK
<1>2. question[x].answered = NoOne
  BY DEF QuestionsOK
<1>3. /\ e \in [state : {"open", "accepted", "answered"},
                by : Coordinators \cup {NoOne}, answered : Coordinators \cup {NoOne}]
      /\ e.state = "open" => e.by = NoOne
      /\ e.state = "accepted" => e.by # NoOne
      /\ e.state = "answered" <=> e.answered # NoOne
  <2>1. CASE e = Accepted(question[x], who)
    BY <2>1, <1>0, <1>1, <1>2 DEF Accepted
  <2>2. CASE e = Answered(question[x], who)
    BY <2>2, <1>0, <1>1, <1>2 DEF Answered
  <2>3. CASE e = Released(question[x])
    BY <2>3, <1>0, <1>1, <1>2 DEF Released
  <2> QED BY <2>1, <2>2, <2>3
<1> QED BY <1>1, <1>3 DEF QuestionsOK

\* A step of the resident that changes its cycle, and what it has read.
Frame ==
    /\ UNCHANGED <<question, owners, doc, due, audit, mode, command, history, controls>>
    /\ current' \subseteq {"resident", "command"}
    /\ "command" \in current' => "command" \in current

\* A step that touches only the cycle, what it has read and the fault count
\* keeps the invariant when the cycle's own part of it holds afterwards.
LEMMA FrameStep ==
    ASSUME Inv, Frame, faults' \in 0 .. MaxFaults, CycleOK', CycleInv'
    PROVE  Inv'
<1>1. QuestionsOK' /\ RestOK' /\ DocOK' /\ CommandOK'
  BY TypeParts DEF Inv, Frame, history, QuestionsOK, RestOK, DocOK, CommandOK
<1>2. TypeOK'
  BY <1>1 DEF TypeOK, QuestionsOK, RestOK, DocOK, CycleOK, CommandOK
<1>3. CommandInv'
  BY DEF Inv, Frame, CommandInv
<1>4. NothingIsOverwritten'
  BY DEF Inv, Frame, history, NothingIsOverwritten
<1> QED BY <1>2, <1>3, <1>4 DEF Inv

\* An idle resident has nothing to remember.
LEMMA IdleInv == cycle' = Idle => CycleOK' /\ CycleInv'
  BY DEF Idle, CycleOK, CycleInv, FailInv

\* The fields of a running cycle, and of its successors.
LEMMA Running == CycleOK /\ cycle.pc # "idle" => cycle \in Cycles
  BY DEF CycleOK, Idle

\* A plan that goes on to another step keeps its question and its history.
LEMMA Moved ==
    ASSUME cycle \in Cycles, NEW p \in Steps \ {"idle"}, Go(p)
    PROVE  /\ cycle' \in Cycles /\ cycle'.pc = p /\ cycle'.q = cycle.q
           /\ cycle'.status = cycle.status /\ cycle'.stopped = cycle.stopped
  BY BlankFacts DEF Go, Cycles, Holds

\* A cycle that settles its answer goes on to write the audit.
LEMMA Settled ==
    ASSUME cycle \in Cycles, NEW st \in Audits, Settle(st)
    PROVE  /\ cycle' \in Cycles /\ cycle'.pc = "audit" /\ cycle'.q = cycle.q
           /\ cycle'.status = st
  BY BlankFacts DEF Settle, Cycles, Steps

\* A cycle that reads the plan goes on to check the configuration.
LEMMA Planned ==
    ASSUME cycle \in Cycles, doc \in Docs, NEW halted \in BOOLEAN,
           cycle' = [cycle EXCEPT !.pc = "config", !.read = doc.control, !.stopped = halted]
    PROVE  /\ cycle' \in Cycles /\ cycle'.pc = "config" /\ cycle'.q = cycle.q
           /\ cycle'.read = doc.control /\ cycle'.stopped = halted
  BY DEF Cycles, Docs, Steps

\* A write that lost the compare-and-swap reads the control state again.
LEMMA Retried ==
    ASSUME cycle \in Cycles, NEW r \in Controls, NEW n \in Controls,
           \/ cycle' = [cycle EXCEPT !.read = r, !.tries = @ + 1] /\ n = cycle.control
           \/ cycle' = [cycle EXCEPT !.read = r, !.control = n, !.tries = @ + 1]
    PROVE  /\ cycle' \in Cycles /\ cycle'.pc = cycle.pc /\ cycle'.read = r
           /\ cycle'.control = n
<1>1. /\ cycle'.pc = cycle.pc /\ cycle'.q = cycle.q /\ cycle'.read = r
      /\ cycle'.control = n /\ cycle'.due = cycle.due /\ cycle'.hold = cycle.hold
      /\ cycle'.status = cycle.status /\ cycle'.stopped = cycle.stopped
  BY DEF Cycles
<1>2. cycle'.tries = cycle.tries + 1
  BY DEF Cycles
<1>3. cycle.tries + 1 \in Nat
  BY DEF Cycles
<1>4. cycle' \in Cycles
  BY <1>1, <1>2, <1>3 DEF Cycles
<1> QED BY <1>1, <1>4

\* A step after which the cycle answers nothing, reads no plan and records no
\* failure.
LEMMA QuietInv == cycle'.pc \notin {"config", "answer", "fail"} => CycleInv'
  BY DEF CycleInv, FailInv

\* Taking up a pending question (process_question).
LEMMA BeginStep ==
    ASSUME Inv, NEW x \in Questions, Begin(x)
    PROVE  Inv'
<1>0. doc.control \in Controls
  BY DEF Inv, TypeOK, Docs
<1>1. cycle' \in Cycles /\ cycle'.pc \in {"draft", "central"}
  BY <1>0, BlankFacts DEF Begin, Cycles, Steps, Holds, Audits
<1>2. CycleInv'
  BY <1>1, QuietInv
<1>3. Frame
  BY DEF Begin, Reads, Frame, Inv, TypeOK
<1> QED BY <1>1, <1>2, <1>3, FrameStep DEF Begin, CycleOK, Inv, TypeOK

\* The engine's draft, or its failure (process_question).
LEMMA DraftStep == ASSUME Inv, Draft PROVE Inv'
<1>1. cycle \in Cycles
  BY Running, TypeParts DEF Draft, Inv
<1>2. cycle' \in Cycles /\ cycle'.pc = "evaluate"
  BY <1>1 DEF Draft, Cycles, Steps, Holds
<1>3. CycleInv'
  BY <1>2, QuietInv
<1>4. Frame
  BY DEF Draft, findings, Frame, Inv, TypeOK
<1> QED BY <1>2, <1>3, <1>4, FrameStep DEF Draft, CycleOK, Inv, TypeOK

\* Reading the question before anything is answered.
LEMMA ReadQuestionStep == ASSUME Inv, ReadQuestion PROVE Inv'
<1>1. cycle \in Cycles
  BY Running, TypeParts DEF ReadQuestion, Inv
<1>2. Frame /\ faults' \in 0 .. MaxFaults
  BY DEF ReadQuestion, findings, Frame, Inv, TypeOK
<1>3. CASE cycle' = Idle
  BY <1>2, <1>3, IdleInv, FrameStep
<1>4. CASE \E st \in {"escalated", "answered"} : Settle(st)
  <2>1. cycle' \in Cycles /\ cycle'.pc = "audit"
    BY <1>1, <1>4, Settled DEF Audits
  <2> QED BY <1>2, <2>1, QuietInv, FrameStep DEF CycleOK
<1>5. CASE \E p \in {"release", "plan"} : Go(p)
  <2>1. cycle' \in Cycles /\ cycle'.pc \in {"release", "plan"}
    BY <1>1, <1>5, Moved DEF Steps
  <2> QED BY <1>2, <2>1, QuietInv, FrameStep DEF CycleOK
<1> QED BY <1>3, <1>4, <1>5 DEF ReadQuestion

\* Reading the plan of the finding back from the document: a veto that is in
\* force is in its row, so that only a kill can have been forgotten here.
LEMMA ReadPlanStep == ASSUME Inv, ReadPlan PROVE Inv'
<1>1. cycle \in Cycles /\ doc \in Docs
  BY Running, TypeParts DEF ReadPlan, Inv, DocOK
<1>2. Frame /\ faults' \in 0 .. MaxFaults
  BY DEF ReadPlan, findings, Frame, Inv, TypeOK
<1>3. CASE Settle("escalated")
  <2>1. cycle' \in Cycles /\ cycle'.pc = "audit"
    BY <1>1, <1>3, Settled DEF Audits
  <2> QED BY <1>2, <2>1, QuietInv, FrameStep DEF CycleOK
<1>4. CASE doc.row[cycle.q] \in Drafted
  <2> DEFINE halted == kept.kill \/ cycle.q \in vetoed
  <2>1. cycle' = [cycle EXCEPT !.pc = "config", !.read = doc.control, !.stopped = halted]
    BY <1>4 DEF ReadPlan
  <2>2. halted \in BOOLEAN /\ (halted => doc.control.kill)
    BY <1>4 DEF Inv, TypeOK, Controls, NothingIsOverwritten, Drafted
  <2> HIDE DEF halted
  <2>3. /\ cycle' \in Cycles /\ cycle'.pc = "config" /\ cycle'.read = doc.control
        /\ cycle'.stopped = halted
    BY <1>1, <2>1, <2>2, Planned
  <2>4. CycleInv'
    BY <2>2, <2>3 DEF CycleInv, FailInv
  <2> QED BY <1>2, <2>3, <2>4, FrameStep DEF CycleOK
<1> QED BY <1>3, <1>4 DEF ReadPlan

\* The second look at configuration and question before the answer.
LEMMA RecheckStep == ASSUME Inv, Recheck PROVE Inv'
<1>1. cycle \in Cycles
  BY Running, TypeParts DEF Recheck, Inv
<1>2. Frame /\ faults' \in 0 .. MaxFaults
  BY DEF Recheck, findings, Frame, Inv, TypeOK
<1>3. CASE cycle' = Idle
  BY <1>2, <1>3, IdleInv, FrameStep
<1>4. CASE Settle("escalated")
  <2>1. cycle' \in Cycles /\ cycle'.pc = "audit"
    BY <1>1, <1>4, Settled DEF Audits
  <2> QED BY <1>2, <2>1, QuietInv, FrameStep DEF CycleOK
<1>5. CASE MayAnswer(cycle.read) /\ Go("answer")
  <2>1. cycle' \in Cycles /\ cycle'.pc = "answer" /\ cycle'.stopped = cycle.stopped
    BY <1>1, <1>5, Moved DEF Steps
  <2>2. CycleInv'
    BY <1>5, <2>1 DEF Recheck, Inv, CycleInv, FailInv, MayAnswer
  <2> QED BY <1>2, <2>1, <2>2, FrameStep DEF CycleOK
<1> QED BY <1>3, <1>4, <1>5 DEF Recheck

\* Reading the document to note a delivery failure.
LEMMA ReadForFailureStep == ASSUME Inv, ReadForFailure PROVE Inv'
<1>1. /\ cycle \in Cycles /\ doc.control \in Controls /\ kept \in Controls
  BY Running, TypeParts DEF ReadForFailure, Inv, DocOK, Docs
<1> DEFINE next == [doc.control EXCEPT !.failures = @ + 1]
<1>2. /\ next \in Controls /\ next.kill = doc.control.kill
      /\ next.vetoes = doc.control.vetoes /\ next.failures = doc.control.failures + 1
  BY <1>1 DEF Controls
<1> HIDE DEF next
<1>3. cycle' = [cycle EXCEPT !.pc = "fail", !.read = doc.control, !.tries = 0, !.control = next]
  BY DEF ReadForFailure, next
<1>4. /\ cycle' \in Cycles /\ cycle'.pc = "fail" /\ cycle'.read = doc.control
      /\ cycle'.control = next
  BY <1>1, <1>2, <1>3 DEF Cycles, Steps
<1>5. doc' = doc /\ kept' = kept
  BY DEF ReadForFailure, history
<1>6. AtMost(doc.control, doc.control)
  BY <1>1 DEF AtMost, Controls
<1>7. kept.failures + 1 <= next.failures /\ next.failures <= doc.control.failures + 1
  BY <1>1, <1>2 DEF Inv, NothingIsOverwritten, Controls
<1>8. CycleInv'
  BY <1>2, <1>4, <1>5, <1>6, <1>7 DEF CycleInv, FailInv
<1>9. Frame
  BY DEF ReadForFailure, Reads, Frame, Inv, TypeOK
<1> QED BY <1>4, <1>8, <1>9, FrameStep DEF ReadForFailure, CycleOK, Inv, TypeOK

\* A cycle that a restart or an exception ends.
LEMMA InterruptedStep == ASSUME Inv, Interrupted PROVE Inv'
<1>1. faults' \in 0 .. MaxFaults
  BY ButlerAssumption DEF Interrupted, Inv, TypeOK
<1>2. Frame
  BY DEF Interrupted, GivesUp, Frame, Inv, TypeOK
<1> QED BY <1>1, <1>2, IdleInv, FrameStep DEF Interrupted

-----------------------------------------------------------------------------
(* Steps that write a document, the evaluation or a question. *)

\* What every write of the document does to what others have read, and to the
\* vetoed plans: each stays vetoed, or its row is gone.
LEMMA CommitFacts ==
    ASSUME DocOK, NEW d \in Docs, Commit(d)
    PROVE  /\ doc' = d /\ current' = {} /\ dropped' \subseteq Questions
           /\ \A y \in Questions : doc.row[y] # "none" /\ d.row[y] = "none" <=> y \in Dropped(d)
  BY DEF DocOK, Commit, Dropped

\* A write that leaves the control state alone, or replaces it by one that has
\* everything kept' has.
LEMMA WriteStep ==
    ASSUME Inv, NEW d \in Docs, Commit(d), QuestionsOK', RestOK', CycleOK', CommandOK',
           CycleInv', CommandInv', kept' \in Controls, AtMost(kept', d.control),
           vetoed' \subseteq Questions, \A x \in vetoed' : d.row[x] = "vetoed"
    PROVE  Inv'
<1>1. doc' = d /\ current' = {} /\ dropped' \subseteq Questions
  BY CommitFacts, TypeParts DEF Inv
<1>2. TypeOK'
  BY <1>1 DEF TypeOK, QuestionsOK, RestOK, CycleOK, CommandOK
<1>3. NothingIsOverwritten'
  BY <1>1 DEF NothingIsOverwritten, AtMost
<1> QED BY <1>2, <1>3 DEF Inv

\* The vetoed plans after a write that leaves the rows of all but x alone, or
\* drops them.
LEMMA VetoesKept ==
    ASSUME Inv, NEW d \in Docs, Commit(d), NEW X,
           \A y \in Questions \ X : d.row[y] = doc.row[y] \/ d.row[y] = "none"
    PROVE  \A y \in vetoed \ (Dropped(d) \cup X) : d.row[y] = "vetoed"
<1> SUFFICES ASSUME NEW y \in vetoed, y \notin Dropped(d), y \notin X PROVE d.row[y] = "vetoed"
  OBVIOUS
<1>1. y \in Questions /\ doc.row[y] = "vetoed"
  BY DEF Inv, TypeOK, NothingIsOverwritten
<1> QED BY <1>1 DEF Dropped

\* A command that is waiting to write is not affected by a write of somebody
\* else that adds no veto.
LEMMA CommandKept ==
    ASSUME Inv, NEW d \in Docs, Commit(d), command' = command,
           d.control.vetoes <= doc.control.vetoes
    PROVE  CommandInv' /\ CommandOK'
<1>1. doc' = d /\ current' = {}
  BY DEF Commit
<1>2. command.pc = "write" => d.control.vetoes <= command.read.vetoes
  <2> SUFFICES ASSUME command.pc = "write" PROVE d.control.vetoes <= command.read.vetoes
    OBVIOUS
  <2>1. command.read.vetoes \in Nat /\ doc.control.vetoes \in Nat /\ d.control.vetoes \in Nat
    BY TypeParts DEF Inv, CommandOK, DocOK, Commands, Idle, Docs, Controls
  <2>2. doc.control.vetoes <= command.read.vetoes
    BY DEF Inv, CommandInv
  <2> QED BY <2>1, <2>2
<1>3. CommandInv'
  BY <1>1, <1>2 DEF Inv, CommandInv
<1> QED BY <1>3, TypeParts DEF Inv, CommandOK

\* record_draft_evaluation.
LEMMA EvaluateStep == ASSUME Inv, Evaluate PROVE Inv'
<1>1. cycle \in Cycles
  BY Running, TypeParts DEF Evaluate, Inv
<1>2. cycle' \in Cycles /\ cycle'.pc = "save"
  BY <1>1 DEF Evaluate, Cycles, Steps
<1>3. audit' \in [Questions -> Audits]
  BY <1>1 DEF Evaluate, Inv, TypeOK, Audits, Cycles
<1>4. TypeOK'
  BY <1>2, <1>3 DEF Evaluate, Inv, TypeOK, history, findings
<1>5. CycleInv'
  BY <1>2, QuietInv
<1>6. CommandInv' /\ NothingIsOverwritten'
  BY DEF Evaluate, Inv, CommandInv, NothingIsOverwritten, history, findings
<1> QED BY <1>4, <1>5, <1>6 DEF Inv

\* write_findings with the draft: only the row of its question is replaced.
LEMMA SaveFindingStep == ASSUME Inv, SaveFinding PROVE Inv'
<1>1. cycle \in Cycles /\ doc \in Docs /\ cycle.q \in Questions /\ cycle.hold \in Holds
  BY Running, TypeParts DEF SaveFinding, Inv, DocOK, Cycles
<1>2. CASE "resident" \in current
  <2>1. PICK d \in merge_finding(doc, cycle.q, cycle.hold) :
          Commit(d) /\ vetoed' = vetoed \ (Dropped(d) \cup {cycle.q})
    BY <1>2 DEF SaveFinding
  <2>2. /\ d \in Docs /\ d.control = doc.control
        /\ \A y \in Questions \ {cycle.q} : d.row[y] = doc.row[y] \/ d.row[y] = "none"
    BY <1>1, <2>1, MergeFacts
  <2>3. CycleOK' /\ CycleInv'
    <3>1. CASE cycle' = Idle
      BY <3>1, IdleInv
    <3>2. CASE Go("central")
      <4>1. cycle' \in Cycles /\ cycle'.pc = "central"
        BY <1>1, <3>2, Moved DEF Steps
      <4> QED BY <4>1, QuietInv DEF CycleOK
    <3> QED BY <1>2, <3>1, <3>2 DEF SaveFinding
  <2>4. QuestionsOK' /\ RestOK'
    BY <1>2, TypeParts DEF SaveFinding, Inv, QuestionsOK, RestOK
  <2>5. CommandInv' /\ CommandOK'
    <3>1. d.control.vetoes <= doc.control.vetoes
      BY <1>1, <2>2 DEF Docs, Controls
    <3> QED BY <2>1, <2>2, <3>1, CommandKept DEF SaveFinding
  <2>6. kept' \in Controls /\ AtMost(kept', d.control)
    BY <2>2, TypeParts DEF SaveFinding, Inv, DocOK, NothingIsOverwritten, AtMost
  <2>7. vetoed' \subseteq Questions /\ \A x \in vetoed' : d.row[x] = "vetoed"
    BY <2>1, <2>2, VetoesKept, TypeParts DEF Inv, DocOK
  <2> QED BY <2>1, <2>2, <2>3, <2>4, <2>5, <2>6, <2>7, WriteStep
<1>3. CASE "resident" \notin current
  <2>0. Frame /\ faults' \in 0 .. MaxFaults
    BY <1>3 DEF SaveFinding, Reads, Frame, history, Inv, TypeOK
  <2>1. CASE cycle' = Idle
    BY <2>0, <2>1, IdleInv, FrameStep
  <2>2. CASE cycle' = [cycle EXCEPT !.read = doc.control, !.tries = @ + 1]
    <3>0. cycle.pc = "save" /\ doc.control \in Controls /\ cycle.control \in Controls
      BY <1>1 DEF SaveFinding, Cycles, Docs
    <3>1. cycle' \in Cycles /\ cycle'.pc = "save"
      BY <1>1, <2>2, <3>0, Retried
    <3> QED BY <2>0, <3>1, QuietInv, FrameStep DEF CycleOK
  <2> QED BY <1>3, <2>1, <2>2 DEF SaveFinding
<1> QED BY <1>2, <1>3

\* The butler gives a question back to Central.
LEMMA ReleaseStep == ASSUME Inv, Release PROVE Inv'
<1>1. cycle \in Cycles /\ cycle.q \in Questions
  BY Running, TypeParts DEF Release, Inv, Cycles
<1>2. CASE /\ question[cycle.q].state = "accepted"
           /\ question' = [question EXCEPT ![cycle.q] = Released(@)] /\ Go("plan")
  <2>1. cycle' \in Cycles /\ cycle'.pc = "plan"
    BY <1>1, <1>2, Moved DEF Steps
  <2>2. Butler \in Coordinators /\ question[cycle.q].state # "answered"
    BY <1>2 DEF Coordinators
  <2>3. QuestionsOK'
    BY <1>1, <1>2, <2>2, EntryStep, TypeParts DEF Inv
  <2>4. TypeOK'
    BY <2>1, <2>3 DEF Release, Inv, TypeOK, QuestionsOK, history, findings
  <2>5. CycleInv'
    BY <2>1, QuietInv
  <2>6. CommandInv' /\ NothingIsOverwritten'
    BY DEF Release, Inv, CommandInv, NothingIsOverwritten, history, findings
  <2> QED BY <2>4, <2>5, <2>6 DEF Inv
<1>3. CASE cycle' = Idle /\ UNCHANGED question
  <2>1. Frame /\ faults' \in 0 .. MaxFaults
    BY <1>3 DEF Release, Frame, history, findings, Inv, TypeOK
  <2> QED BY <1>3, <2>1, IdleInv, FrameStep
<1> QED BY <1>2, <1>3 DEF Release

\* The call of ticket_question_answer.
LEMMA AnswerQuestionStep == ASSUME Inv, AnswerQuestion PROVE Inv'
<1>1. cycle \in Cycles /\ cycle.q \in Questions /\ Butler \in Coordinators
  BY Running, TypeParts DEF AnswerQuestion, Inv, Cycles, Coordinators
<1>2. QuestionsOK'
  <2>1. CASE UNCHANGED question
    BY <2>1, TypeParts DEF Inv, QuestionsOK
  <2>2. CASE question' = [question EXCEPT ![cycle.q] =
                            IF @.state = "answered" THEN @ ELSE Answered(@, Butler)]
    <3>1. CASE question[cycle.q].state = "answered"
      BY <1>1, <2>2, <3>1, TypeParts DEF Inv, QuestionsOK
    <3>2. CASE question[cycle.q].state # "answered"
      <4>1. question' = [question EXCEPT ![cycle.q] = Answered(question[cycle.q], Butler)]
        BY <1>1, <2>2, <3>2, TypeParts DEF Inv, QuestionsOK
      <4> QED BY <1>1, <3>2, <4>1, EntryStep, TypeParts DEF Inv
    <3> QED BY <3>1, <3>2
  <2> QED BY <2>1, <2>2 DEF AnswerQuestion
<1>3. cycle' \in Cycles /\ cycle'.pc \in {"audit", "record"}
  <2>1. CASE Settle("answered")
    BY <1>1, <2>1, Settled DEF Audits
  <2>2. CASE Go("record")
    BY <1>1, <2>2, Moved DEF Steps
  <2> QED BY <2>1, <2>2 DEF AnswerQuestion
<1>4. faults' \in 0 .. MaxFaults
  BY ButlerAssumption DEF AnswerQuestion, Inv, TypeOK
<1>5. TypeOK'
  BY <1>2, <1>3, <1>4 DEF AnswerQuestion, Inv, TypeOK, QuestionsOK, history, findings
<1>6. CycleInv'
  BY <1>3, QuietInv
<1>7. CommandInv' /\ NothingIsOverwritten'
  BY DEF AnswerQuestion, Inv, CommandInv, NothingIsOverwritten, history, findings
<1> QED BY <1>5, <1>6, <1>7 DEF Inv

\* The failure is written to the control state, over what commands have written.
LEMMA RecordFailureStep == ASSUME Inv, RecordFailure PROVE Inv'
<1>1. /\ cycle \in Cycles /\ doc \in Docs /\ cycle.q \in Questions /\ kept \in Controls
      /\ cycle.control \in Controls /\ cycle.read \in Controls /\ doc.control \in Controls
      /\ cycle.pc = "fail" /\ FailInv
  BY Running, TypeParts DEF RecordFailure, Inv, CycleInv, DocOK, Cycles, Docs
<1>2. CASE "resident" \in current
  <2>1. PICK d \in FailureNoted(doc, cycle) : Commit(d) /\ vetoed' = vetoed \ Dropped(d)
    BY <1>2 DEF RecordFailure
  <2>2. /\ d \in Docs /\ d.control = cycle.control
        /\ \A y \in Questions : d.row[y] = doc.row[y] \/ d.row[y] = "none"
    BY <1>1, <2>1, FailureFacts
  <2>3. cycle' \in Cycles /\ cycle'.pc = "audit"
    BY <1>1, <1>2, Settled DEF RecordFailure, Audits
  <2>4. QuestionsOK' /\ RestOK'
    BY <1>2, TypeParts DEF RecordFailure, Inv, QuestionsOK, RestOK
  <2>5. cycle.control.kill = doc.control.kill /\ cycle.control.vetoes = doc.control.vetoes
    BY <1>1, <1>2 DEF FailInv
  <2>6. CommandInv' /\ CommandOK'
    <3>1. d.control.vetoes <= doc.control.vetoes
      BY <1>1, <2>2, <2>5 DEF Controls
    <3> QED BY <2>1, <2>2, <3>1, CommandKept DEF RecordFailure
  <2>7. kept' \in Controls /\ AtMost(kept', d.control)
    <3>1. kept' = [kept EXCEPT !.failures = @ + 1]
      BY <1>2 DEF RecordFailure
    <3>2. /\ kept' \in Controls /\ kept'.kill = kept.kill /\ kept'.vetoes = kept.vetoes
          /\ kept'.failures = kept.failures + 1
      BY <1>1, <3>1 DEF Controls
    <3>3. kept.failures + 1 <= cycle.control.failures
      BY <1>1 DEF FailInv
    <3> QED BY <2>2, <2>5, <3>2, <3>3 DEF AtMost, Inv, NothingIsOverwritten
  <2>8. vetoed' \subseteq Questions /\ \A x \in vetoed' : d.row[x] = "vetoed"
    <3>1. \A y \in vetoed \ (Dropped(d) \cup {}) : d.row[y] = "vetoed"
      BY <2>1, <2>2, VetoesKept
    <3> QED BY <2>1, <3>1, TypeParts DEF Inv, DocOK
  <2>9. CycleOK' /\ CycleInv'
    BY <2>3, QuietInv DEF CycleOK
  <2> QED BY <2>1, <2>2, <2>4, <2>6, <2>7, <2>8, <2>9, WriteStep
<1>3. CASE "resident" \notin current
  <2>0. Frame /\ faults' \in 0 .. MaxFaults
    <3>1. /\ UNCHANGED <<question, owners, doc, due, audit, mode, command, history, controls>>
          /\ UNCHANGED faults
      BY <1>3 DEF RecordFailure
    <3>2. current' = current \cup {"resident"} \/ current' = current
      BY <1>3 DEF RecordFailure, Reads
    <3> QED BY <3>1, <3>2 DEF Frame, Inv, TypeOK
  <2>1. CASE cycle' = Idle
    BY <2>0, <2>1, IdleInv, FrameStep
  <2>2. ASSUME NEW n \in Reapplied(doc.control, cycle.read, cycle.control, FALSE),
               cycle' = [cycle EXCEPT !.read = doc.control, !.control = n, !.tries = @ + 1]
        PROVE  Inv'
    <3>1. /\ n \in Controls /\ n.kill = doc.control.kill /\ n.vetoes = doc.control.vetoes
          /\ kept.failures + 1 <= n.failures /\ n.failures <= doc.control.failures + 1
      <4>1. kept.failures \in Nat /\ kept.failures <= doc.control.failures
        BY <1>1 DEF Controls, Inv, NothingIsOverwritten
      <4> QED BY <1>1, <2>2, <4>1, FailureReapplied DEF FailInv
    <3>2. /\ cycle' \in Cycles /\ cycle'.pc = "fail" /\ cycle'.read = doc.control
          /\ cycle'.control = n
      BY <1>1, <2>2, <3>1, Retried
    <3>3. doc' = doc /\ kept' = kept
      BY <2>0 DEF Frame, history
    <3>4. AtMost(doc.control, doc.control)
      BY <1>1 DEF AtMost, Controls
    <3>5. CycleInv'
      BY <3>1, <3>2, <3>3, <3>4 DEF CycleInv, FailInv
    <3> QED BY <2>0, <3>2, <3>5, FrameStep DEF CycleOK
  <2> QED BY <1>3, <2>1, <2>2 DEF RecordFailure
<1> QED BY <1>2, <1>3

\* The audit gets its status.
LEMMA WriteAuditStep == ASSUME Inv, _write_answer_audit PROVE Inv'
<1>1. cycle \in Cycles /\ cycle.status \in Audits
  BY Running, TypeParts DEF _write_answer_audit, Inv, Cycles
<1>2. CycleOK' /\ CycleInv'
  BY IdleInv DEF _write_answer_audit
<1>3. TypeOK'
  BY <1>1, <1>2 DEF _write_answer_audit, Inv, TypeOK, CycleOK, history, findings
<1>4. CommandInv' /\ NothingIsOverwritten'
  BY DEF _write_answer_audit, Inv, CommandInv, NothingIsOverwritten, history, findings
<1> QED BY <1>2, <1>3, <1>4 DEF Inv

-----------------------------------------------------------------------------
(* Humans, owners, time, the refresh and the commands. *)

\* A human coordinator's call.
LEMMA HumanStep ==
    ASSUME Inv, NEW h \in Humans, NEW x \in Questions, HumanResponds(h, x)
    PROVE  Inv'
<1>1. h \in Coordinators /\ question[x].state # "answered"
  BY DEF Coordinators, HumanResponds
<1>2. PICK e \in {Accepted(question[x], h), Answered(question[x], h), Released(question[x])} :
        question' = [question EXCEPT ![x] = e]
  BY DEF HumanResponds
<1>3. QuestionsOK'
  BY <1>1, <1>2, EntryStep, TypeParts DEF Inv
<1>4. TypeOK'
  BY <1>3 DEF HumanResponds, Inv, TypeOK, QuestionsOK, history, findings
<1>5. CycleInv' /\ CommandInv' /\ NothingIsOverwritten'
  BY DEF HumanResponds, Inv, CycleInv, FailInv, CommandInv, NothingIsOverwritten, history, findings
<1> QED BY <1>4, <1>5 DEF Inv

\* Steps that change neither a document nor a cycle nor a question.
LEMMA OutsideStep ==
    ASSUME Inv,
           \/ \E c \in Coordinators : OwnersChange(c)
           \/ \E x \in Questions : HoldElapses(x)
           \/ Configure
    PROVE  Inv'
<1>1. TypeOK'
  <2>1. CASE \E c \in Coordinators : OwnersChange(c)
    BY <2>1, ButlerAssumption DEF OwnersChange, Inv, TypeOK, history, findings
  <2>2. CASE \E x \in Questions : HoldElapses(x)
    BY <2>2 DEF HoldElapses, Inv, TypeOK, history, findings
  <2>3. CASE Configure
    BY <2>3, ButlerAssumption DEF Configure, Inv, TypeOK, history, findings
  <2> QED BY <2>1, <2>2, <2>3
<1>2. UNCHANGED <<findings, cycle, command, history>>
  BY DEF OwnersChange, HoldElapses, Configure
<1>3. CycleInv' /\ CommandInv' /\ NothingIsOverwritten'
  BY <1>2 DEF Inv, CycleInv, FailInv, CommandInv, NothingIsOverwritten, history, findings
<1> QED BY <1>1, <1>3 DEF Inv

\* The holds and observations of the refresh may drop rows.
LEMMA ReconcileStep == ASSUME Inv, ReconcileHolds PROVE Inv'
<1>1. PICK d \in Bounded(doc, {}) : Commit(d) /\ vetoed' = vetoed \ Dropped(d)
  BY DEF ReconcileHolds
<1>2. /\ d \in Docs /\ d.control = doc.control
      /\ \A y \in Questions : d.row[y] = doc.row[y] \/ d.row[y] = "none"
  BY <1>1, BoundedFacts DEF Inv, TypeOK
<1>3. QuestionsOK' /\ RestOK' /\ CycleOK'
  BY TypeParts DEF ReconcileHolds, Inv, QuestionsOK, RestOK, CycleOK
<1>4. CycleInv'
  BY QuietInv DEF ReconcileHolds
<1>5. CommandInv' /\ CommandOK'
  <2>1. d.control.vetoes <= doc.control.vetoes
    BY <1>2 DEF Docs, Controls
  <2> QED BY <1>1, <1>2, <2>1, CommandKept DEF ReconcileHolds
<1>6. kept' \in Controls /\ AtMost(kept', d.control)
  BY <1>2, TypeParts DEF ReconcileHolds, Inv, DocOK, NothingIsOverwritten, AtMost
<1>7. vetoed' \subseteq Questions /\ \A x \in vetoed' : d.row[x] = "vetoed"
  <2>1. \A y \in vetoed \ (Dropped(d) \cup {}) : d.row[y] = "vetoed"
    BY <1>1, <1>2, VetoesKept
  <2> QED BY <1>1, <2>1, TypeParts DEF Inv, DocOK
<1> QED BY <1>1, <1>2, <1>3, <1>4, <1>5, <1>6, <1>7, WriteStep

\* The report of the refresh forgets everything, and with it what was promised.
LEMMA ReportStep == ASSUME Inv, write_reports PROVE Inv'
<1>1. Commit(Blank) /\ kept' = NoControls /\ vetoed' = {}
  BY DEF write_reports
<1>2. QuestionsOK' /\ RestOK' /\ CycleOK'
  BY TypeParts DEF write_reports, Inv, QuestionsOK, RestOK, CycleOK
<1>3. CycleInv'
  BY QuietInv DEF write_reports
<1>4. CommandInv' /\ CommandOK'
  <2>1. Blank.control.vetoes <= doc.control.vetoes
    BY BlankFacts DEF NoControls, Inv, TypeOK, Docs, Controls
  <2> QED BY <1>1, <2>1, BlankFacts, CommandKept DEF write_reports
<1>5. kept' \in Controls /\ AtMost(kept', Blank.control)
  BY <1>1, BlankFacts DEF AtMost, NoControls
<1> QED BY <1>1, <1>2, <1>3, <1>4, <1>5, BlankFacts, WriteStep

\* A command reads the findings.
LEMMA StartCommandStep ==
    ASSUME Inv, NEW kind \in {"veto", "kill"}, NEW x \in Questions, StartCommand(kind, x)
    PROVE  Inv'
<1>0. doc.control \in Controls
  BY DEF Inv, TypeOK, Docs
<1> DEFINE next == IF kind = "kill" THEN [doc.control EXCEPT !.kill = TRUE]
                   ELSE [doc.control EXCEPT !.vetoes = @ + 1]
<1>1. /\ next \in Controls /\ AtMost(doc.control, next)
      /\ kind = "kill" => next.kill
      /\ kind = "veto" => doc.control.vetoes + 1 <= next.vetoes
  <2>1. CASE kind = "kill"
    <3>1. /\ next \in Controls /\ next.kill = TRUE /\ next.vetoes = doc.control.vetoes
          /\ next.failures = doc.control.failures
      BY <1>0, <2>1 DEF Controls
    <3> QED BY <1>0, <2>1, <3>1 DEF Controls, AtMost
  <2>2. CASE kind = "veto"
    <3>1. /\ next.kill = doc.control.kill /\ next.vetoes = doc.control.vetoes + 1
          /\ next.failures = doc.control.failures /\ next \in Controls
      BY <1>0, <2>2 DEF Controls
    <3> QED BY <1>0, <2>2, <3>1 DEF Controls, AtMost
  <2> QED BY <2>1, <2>2
<1> HIDE DEF next
<1>2. PICK hold \in {"none", "vetoed", "exhausted"} :
        command' = [pc |-> "write", kind |-> kind, q |-> x, read |-> doc.control,
                    control |-> next, tries |-> 0, hold |-> hold]
  BY DEF StartCommand, next
<1>3. /\ command' \in Commands /\ command'.kind = kind /\ command'.read = doc.control
      /\ command'.control = next
  BY <1>0, <1>1, <1>2 DEF Commands
<1>4. controls' \in 0 .. MaxControls
  BY ButlerAssumption DEF StartCommand, Inv, TypeOK
<1>5. TypeOK'
  BY <1>3, <1>4 DEF StartCommand, Reads, Inv, TypeOK, history
<1>6. CommandInv'
  <2>1. doc.control.vetoes <= doc.control.vetoes /\ doc' = doc
    BY <1>0 DEF Controls, StartCommand
  <2> QED BY <1>1, <1>3, <2>1 DEF CommandInv
<1>7. CycleInv' /\ NothingIsOverwritten'
  BY DEF StartCommand, Reads, Inv, CycleInv, FailInv, NothingIsOverwritten, history
<1> QED BY <1>5, <1>6, <1>7 DEF Inv

\* A command writes its veto or kill, over what the resident has written.
LEMMA WriteCommandStep == ASSUME Inv, WriteCommand PROVE Inv'
<1>1. /\ command \in Commands /\ doc \in Docs /\ command.q \in Questions /\ kept \in Controls
      /\ command.control \in Controls /\ command.read \in Controls /\ doc.control \in Controls
      /\ command.pc = "write" /\ command.kind \in {"veto", "kill"}
  <2>1. command.pc = "write" /\ CommandOK /\ DocOK
    BY TypeParts DEF WriteCommand, Inv
  <2>2. command \in Commands
    BY <2>1 DEF CommandOK, Idle
  <2> QED BY <2>1, <2>2 DEF DocOK, Commands, Docs
<1>2. /\ AtMost(command.read, command.control)
      /\ command.kind = "kill" => command.control.kill
      /\ command.kind = "veto" => command.read.vetoes + 1 <= command.control.vetoes
      /\ "command" \in current => command.read = doc.control
      /\ doc.control.vetoes <= command.read.vetoes
  BY <1>1 DEF Inv, CommandInv
<1>3. CASE "command" \in current
  <2>1. PICK d \in Commanded(doc, command) :
          /\ Commit(d)
          /\ vetoed' = IF command.kind = "veto" /\ command.hold = "vetoed"
                       THEN (vetoed \ Dropped(d)) \cup {command.q}
                       ELSE {x \in vetoed : d.row[x] = doc.row[x]}
    BY <1>3 DEF WriteCommand
  <2>2. /\ d \in Docs /\ d.control = command.control
        /\ command.kind = "veto" /\ command.hold = "vetoed" => d.row[command.q] = "vetoed"
        /\ \A y \in Questions \ {command.q} : d.row[y] = doc.row[y] \/ d.row[y] = "none"
    BY <1>1, <2>1, CommandedFacts
  <2>3. /\ kept' = IF command.kind = "kill" THEN [kept EXCEPT !.kill = TRUE]
                   ELSE [kept EXCEPT !.vetoes = @ + 1]
        /\ command' = Idle
        /\ UNCHANGED <<question, owners, due, audit, mode, cycle, controls, faults>>
    BY <1>3 DEF WriteCommand
  <2>4. QuestionsOK' /\ RestOK' /\ CycleOK' /\ CommandOK'
    BY <2>3, TypeParts DEF Inv, QuestionsOK, RestOK, CycleOK, CommandOK
  <2>5. CommandInv'
    BY <2>3 DEF CommandInv, Idle
  <2>6. AtMost(doc.control, d.control)
    BY <1>2, <1>3, <2>2
  <2>7. CycleInv'
    <3>1. cycle.pc = "config" /\ cycle.stopped => cycle.read.kill
      BY DEF Inv, CycleInv
    <3>2. ASSUME cycle.pc = "fail" PROVE FailInv'
      <4>1. cycle.read \in Controls
        BY <3>2, Running, TypeParts DEF Inv, Cycles
      <4>2. AtMost(cycle.read, d.control)
        BY <1>1, <2>2, <2>6, <3>2, <4>1 DEF Inv, CycleInv, FailInv, AtMost, Controls
      <4>3. doc' = d /\ current' = {} /\ kept'.failures = kept.failures /\ cycle' = cycle
        BY <1>1, <2>1, <2>3 DEF Commit, Controls
      <4> QED BY <3>2, <4>2, <4>3 DEF Inv, CycleInv, FailInv
    <3>3. cycle.pc # "fail" => FailInv'
      BY <2>3 DEF FailInv
    <3> QED BY <2>3, <3>1, <3>2, <3>3 DEF Inv, CycleInv
  <2>8. kept' \in Controls /\ AtMost(kept', d.control)
    <3>0. AtMost(kept, d.control)
      BY <1>1, <2>2, <2>6 DEF Inv, NothingIsOverwritten, AtMost, Controls
    <3>1. CASE command.kind = "kill"
      <4>1. /\ kept' \in Controls /\ kept'.vetoes = kept.vetoes
            /\ kept'.failures = kept.failures
        BY <1>1, <2>3, <3>1 DEF Controls
      <4> QED BY <1>2, <2>2, <3>0, <3>1, <4>1 DEF AtMost
    <3>2. CASE command.kind = "veto"
      <4>1. /\ kept' \in Controls /\ kept'.vetoes = kept.vetoes + 1
            /\ kept'.failures = kept.failures /\ kept'.kill = kept.kill
        BY <1>1, <2>3, <3>2 DEF Controls
      <4>2. kept.vetoes + 1 <= command.control.vetoes
        BY <1>1, <1>2, <1>3, <3>2 DEF Inv, NothingIsOverwritten, Controls
      <4> QED BY <2>2, <3>0, <4>1, <4>2 DEF AtMost
    <3> QED BY <1>1, <3>1, <3>2
  <2>9. vetoed' \subseteq Questions /\ \A x \in vetoed' : d.row[x] = "vetoed"
    <3>1. vetoed \subseteq Questions /\ \A x \in vetoed : doc.row[x] = "vetoed"
      BY DEF Inv, TypeOK, NothingIsOverwritten
    <3>2. CASE command.kind = "veto" /\ command.hold = "vetoed"
      <4>1. \A y \in vetoed \ (Dropped(d) \cup {command.q}) : d.row[y] = "vetoed"
        BY <2>1, <2>2, VetoesKept
      <4> QED BY <1>1, <2>1, <2>2, <3>1, <3>2, <4>1
    <3>3. CASE ~(command.kind = "veto" /\ command.hold = "vetoed")
      <4>1. vetoed' = {x \in vetoed : d.row[x] = doc.row[x]}
        BY <2>1, <3>3
      <4> QED BY <3>1, <4>1
    <3> QED BY <3>2, <3>3
  <2> QED BY <2>1, <2>2, <2>4, <2>5, <2>7, <2>8, <2>9, WriteStep
<1>4. CASE "command" \notin current
  <2>1. UNCHANGED <<question, owners, doc, due, audit, mode, cycle, history, controls, faults>>
    BY <1>4 DEF WriteCommand
  <2>2. /\ current' \subseteq {"resident", "command"}
        /\ "resident" \in current' => "resident" \in current
    <3>1. current' = current \cup {"command"} \/ current' = current
      BY <1>4 DEF WriteCommand, Reads
    <3>2. current \subseteq {"resident", "command"}
      BY DEF Inv, TypeOK
    <3> QED BY <3>1, <3>2
  <2>3. CommandOK' /\ CommandInv'
    <3>1. CASE command' = Idle
      BY <3>1 DEF Idle, CommandOK, CommandInv
    <3>2. ASSUME NEW n \in Reapplied(doc.control, command.read, command.control,
                                     command.kind = "kill"),
                 command' = [command EXCEPT !.read = doc.control, !.control = n,
                                            !.tries = @ + 1]
          PROVE  CommandOK' /\ CommandInv'
      <4>1. /\ n \in Controls /\ AtMost(doc.control, n)
            /\ command.kind = "kill" /\ command.control.kill => n.kill
            /\ command.read.vetoes + 1 <= command.control.vetoes
                 /\ doc.control.vetoes <= command.read.vetoes => doc.control.vetoes + 1 <= n.vetoes
        <5>1. (command.kind = "kill") \in BOOLEAN
          OBVIOUS
        <5>2. AtMost(command.read, command.control)
          BY <1>2
        <5> QED BY <1>1, <3>2, <5>1, <5>2, ReappliedFacts
      <4>2. /\ command'.pc = command.pc /\ command'.kind = command.kind
            /\ command'.q = command.q /\ command'.hold = command.hold
            /\ command'.read = doc.control /\ command'.control = n
        BY <1>1, <3>2 DEF Commands
      <4>3. command'.tries = command.tries + 1 /\ command.tries + 1 \in Nat
        BY <1>1, <3>2 DEF Commands
      <4>4. command' \in Commands
        BY <1>1, <3>2, <4>1, <4>2, <4>3 DEF Commands
      <4>5. doc' = doc /\ doc.control.vetoes <= doc.control.vetoes
        BY <1>1, <2>1 DEF Controls
      <4>6. CommandInv'
        BY <1>2, <4>1, <4>2, <4>5 DEF CommandInv
      <4> QED BY <4>4, <4>6 DEF CommandOK
    <3> QED BY <1>4, <3>1, <3>2 DEF WriteCommand
  <2>4. TypeOK'
    <3>1. QuestionsOK' /\ RestOK' /\ DocOK' /\ CycleOK'
      BY <2>1, <2>2, TypeParts DEF Inv, QuestionsOK, RestOK, DocOK, CycleOK, history
    <3> QED BY <2>3, <3>1 DEF TypeOK, QuestionsOK, RestOK, DocOK, CycleOK, CommandOK
  <2>5. CycleInv' /\ NothingIsOverwritten'
    BY <2>1, <2>2 DEF Inv, CycleInv, FailInv, NothingIsOverwritten, history
  <2> QED BY <2>3, <2>4, <2>5 DEF Inv
<1> QED BY <1>3, <1>4

-----------------------------------------------------------------------------
(* The theorems. *)

\* Every step keeps the inductive invariant.
LEMMA InvStep == Inv /\ [Next]_vars => Inv'
<1> SUFFICES ASSUME Inv, [Next]_vars PROVE Inv'
  OBVIOUS
<1>1. CASE Resident
  BY <1>1, DraftStep, EvaluateStep, SaveFindingStep, ReadQuestionStep, ReleaseStep,
     ReadPlanStep, RecheckStep, AnswerQuestionStep, ReadForFailureStep, RecordFailureStep,
     WriteAuditStep DEF Resident
<1>2. CASE ReconcileHolds \/ write_reports \/ Interrupted \/ WriteCommand
  BY <1>2, ReconcileStep, ReportStep, InterruptedStep, WriteCommandStep
<1>3. CASE \E x \in Questions : \/ Begin(x)
                               \/ \E kind \in {"veto", "kill"} : StartCommand(kind, x)
                               \/ \E h \in Humans : HumanResponds(h, x)
  BY <1>3, BeginStep, StartCommandStep, HumanStep
<1>4. CASE \/ Configure
           \/ \E x \in Questions : HoldElapses(x)
           \/ \E c \in Coordinators : OwnersChange(c)
  BY <1>4, OutsideStep
<1>5. CASE UNCHANGED vars
  <2>1. TypeOK'
    BY <1>5 DEF vars, Inv, TypeOK
  <2>2. CycleInv' /\ CommandInv' /\ NothingIsOverwritten'
    BY <1>5 DEF vars, Inv, CycleInv, FailInv, CommandInv, NothingIsOverwritten
  <2> QED BY <2>1, <2>2 DEF Inv
<1> QED BY <1>1, <1>2, <1>3, <1>4, <1>5 DEF Next

\* The butler's plans, the commands and the findings document stay in step,
\* whatever is interleaved, interrupted, dropped or replaced by a report.
THEOREM AlwaysInv == Spec => []Inv
<1>1. Init => Inv
  BY InitInv
<1>2. Inv /\ [Next]_vars => Inv'
  BY InvStep
<1> QED BY <1>1, <1>2, PTL DEF Spec

\* Every reachable state is well typed.
THEOREM TypeCorrect == Spec => []TypeOK
<1>1. Inv => TypeOK
  BY DEF Inv
<1> QED BY <1>1, AlwaysInv, PTL

\* Since the last report no draft, failure record or command has taken back
\* the kill, a veto or a failure that another had committed
\* (_write_state_with_retry_for_client, _reapply_findings_value).
THEOREM NothingLost == Spec => []NothingIsOverwritten
<1>1. Inv => NothingIsOverwritten
  BY DEF Inv
<1> QED BY <1>1, AlwaysInv, PTL

\* The butler gives no answer with a plan it read while a veto of it or a kill
\* was in force (advance_autonomous_answer).
THEOREM StopsAlwaysHonoured == Spec => StopsAreHonoured
<1>1. Inv /\ [Next]_vars
        => [\A x \in Questions :
              question'[x].answered = Butler /\ question[x].answered = NoOne
                => ~cycle.stopped]_vars
  <2> SUFFICES ASSUME Inv, Next, NEW x \in Questions,
                      question'[x].answered = Butler, question[x].answered = NoOne
               PROVE  ~cycle.stopped
    BY DEF vars
  <2>0. Butler # NoOne /\ Butler \notin Humans /\ QuestionsOK
    BY ButlerAssumption, TypeParts DEF Inv
  <2>1. CASE question' = question
    BY <2>0, <2>1
  <2>2. CASE AnswerQuestion
    BY <2>2 DEF AnswerQuestion, Inv, CycleInv
  <2>3. CASE Release
    <3>1. CASE question' = [question EXCEPT ![cycle.q] = Released(@)]
      <4>1. question'[x].answered = question[x].answered
        BY <2>0, <3>1 DEF Released, QuestionsOK
      <4> QED BY <2>0, <4>1
    <3> QED BY <2>1, <2>3, <3>1 DEF Release
  <2>4. ASSUME NEW h \in Humans, NEW y \in Questions, HumanResponds(h, y) PROVE FALSE
    <3>1. PICK e \in {Accepted(question[y], h), Answered(question[y], h), Released(question[y])} :
            question' = [question EXCEPT ![y] = e]
      BY <2>4 DEF HumanResponds
    <3>2. e.answered \in {question[y].answered, h}
      <4>1. PICK p \in {"open", "accepted", "answered"}, c \in Coordinators \cup {NoOne},
                 r \in Coordinators \cup {NoOne} :
               question[y] = [state |-> p, by |-> c, answered |-> r]
        BY <2>0 DEF QuestionsOK
      <4>2. /\ Accepted(question[y], h).answered = question[y].answered
            /\ Answered(question[y], h).answered = h
            /\ Released(question[y]).answered = question[y].answered
        BY <4>1 DEF Accepted, Answered, Released
      <4> QED BY <3>1, <4>2
    <3>3. question'[x].answered \in {question[x].answered, h}
      BY <2>0, <3>1, <3>2 DEF QuestionsOK
    <3> QED BY <2>0, <3>3
  <2> QED
    BY <2>1, <2>2, <2>3, <2>4
       DEF Next, Resident, Draft, Evaluate, SaveFinding, ReadQuestion, ReadPlan, Recheck,
           ReadForFailure, RecordFailure, _write_answer_audit, ReconcileHolds, write_reports, Interrupted,
           WriteCommand, Configure, Begin, HoldElapses, StartCommand, OwnersChange
<1> QED BY <1>1, AlwaysInv, PTL DEF Spec, StopsAreHonoured

-----------------------------------------------------------------------------
(* The audits. *)

\* A cycle that is about to note an answer knows that Central has one.
Audited ==
    /\ AuditIsTrue
    /\ cycle.pc = "audit" /\ cycle.status = "answered" => question[cycle.q].state = "answered"

\* Central takes no answer back (ticket_question_answer).
LEMMA AnswersStay ==
    ASSUME Inv, [Next]_vars, NEW x \in Questions, question[x].state = "answered"
    PROVE  question'[x].state = "answered"
<1>0. question \in [Questions -> [state : {"open", "accepted", "answered"},
                                  by : Coordinators \cup {NoOne},
                                  answered : Coordinators \cup {NoOne}]]
  BY DEF Inv, TypeOK
<1>1. CASE question' = question
  BY <1>1
<1>2. CASE AnswerQuestion
  BY <1>0, <1>2 DEF AnswerQuestion
<1>3. CASE Release
  BY <1>0, <1>3 DEF Release
<1>4. ASSUME NEW h \in Humans, NEW y \in Questions, HumanResponds(h, y)
      PROVE  question'[x].state = "answered"
  <2>1. y # x /\ \E e : question' = [question EXCEPT ![y] = e]
    BY <1>4 DEF HumanResponds
  <2> QED BY <1>0, <2>1
<1> QED
  BY <1>1, <1>2, <1>3, <1>4
     DEF Next, vars, Resident, Draft, Evaluate, SaveFinding, ReadQuestion, ReadPlan, Recheck,
         ReadForFailure, RecordFailure, _write_answer_audit, ReconcileHolds, write_reports, Interrupted,
         WriteCommand, Configure, Begin, HoldElapses, StartCommand, OwnersChange

\* A step that notes no answer and is not about to note one.
LEMMA NotAuditing ==
    ASSUME Inv, Audited, [Next]_vars,
           \A x \in Questions : audit'[x] = "answered" => audit[x] = "answered",
           cycle' = cycle \/ ~(cycle'.pc = "audit" /\ cycle'.status = "answered")
    PROVE  Audited'
<1>1. AuditIsTrue'
  BY AnswersStay DEF Audited, AuditIsTrue
<1>2. ASSUME cycle' = cycle, cycle.pc = "audit", cycle.status = "answered"
      PROVE  question'[cycle.q].state = "answered"
  <2>1. cycle.q \in Questions
    BY <1>2, Running, TypeParts DEF Inv, Cycles
  <2> QED BY <1>2, <2>1, AnswersStay DEF Audited
<1> QED BY <1>1, <1>2 DEF Audited

\* Every step keeps the audits true.
LEMMA AuditedStep == Inv /\ Audited /\ [Next]_vars => Audited'
<1> SUFFICES ASSUME Inv, Audited, [Next]_vars PROVE Audited'
  OBVIOUS
<1>1. CASE ReadQuestion
  <2>1. cycle \in Cycles /\ cycle.q \in Questions
    BY <1>1, Running, TypeParts DEF ReadQuestion, Inv, Cycles
  <2>2. UNCHANGED audit
    BY <1>1 DEF ReadQuestion
  <2>3. CASE Settle("answered") /\ question[cycle.q].state = "answered"
    <3>1. cycle'.q = cycle.q
      BY <2>1, <2>3, Settled DEF Audits
    <3> QED BY <2>1, <2>2, <2>3, <3>1, AnswersStay DEF Audited, AuditIsTrue
  <2>4. CASE Settle("escalated")
    <3>1. cycle'.status = "escalated"
      BY <2>1, <2>4, Settled DEF Audits
    <3> QED BY <2>2, <3>1, NotAuditing
  <2>5. CASE Go("release") \/ Go("plan") \/ cycle' = Idle
    <3>1. cycle'.pc # "audit"
      BY <2>1, <2>5, Moved DEF Steps, Idle
    <3> QED BY <2>2, <3>1, NotAuditing
  <2> QED BY <1>1, <2>3, <2>4, <2>5 DEF ReadQuestion
<1>2. CASE AnswerQuestion
  <2>1. cycle \in Cycles /\ cycle.q \in Questions
    BY <1>2, Running, TypeParts DEF AnswerQuestion, Inv, Cycles
  <2>2. UNCHANGED audit
    BY <1>2 DEF AnswerQuestion
  <2>3. CASE Settle("answered") /\ question' = [question EXCEPT ![cycle.q] =
                IF @.state = "answered" THEN @ ELSE Answered(@, Butler)]
    <3>1. cycle'.q = cycle.q
      BY <2>1, <2>3, Settled DEF Audits
    <3>2. question'[cycle.q].state = "answered"
      BY <2>1, <2>3 DEF Answered, Inv, TypeOK
    <3> QED BY <2>2, <3>1, <3>2, AnswersStay DEF Audited, AuditIsTrue
  <2>4. CASE Go("record")
    <3>1. cycle'.pc # "audit"
      BY <2>1, <2>4, Moved DEF Steps
    <3> QED BY <2>2, <3>1, NotAuditing
  <2> QED BY <1>2, <2>3, <2>4 DEF AnswerQuestion
<1>3. CASE Recheck \/ RecordFailure \/ ReadPlan
  <2>1. cycle \in Cycles /\ doc \in Docs
    BY <1>3, Running, TypeParts DEF Recheck, RecordFailure, ReadPlan, Inv, DocOK
  <2>2. UNCHANGED audit
    BY <1>3 DEF Recheck, RecordFailure, ReadPlan
  <2>3. ASSUME NEW st \in {"escalated", "failed"}, Settle(st)
        PROVE  Audited'
    <3>1. cycle'.status = st
      BY <2>1, <2>3, Settled DEF Audits
    <3> QED BY <2>2, <3>1, NotAuditing
  <2>4. CASE cycle'.pc # "audit"
    BY <2>2, <2>4, NotAuditing
  <2>5. CASE Go("answer") \/ cycle' = Idle
    BY <2>1, <2>4, <2>5, Moved DEF Steps, Idle
  <2>6. ASSUME NEW n,
               cycle' = [cycle EXCEPT !.read = doc.control, !.control = n, !.tries = @ + 1],
               cycle.pc = "fail"
        PROVE  Audited'
    BY <2>1, <2>4, <2>6 DEF Cycles
  <2>7. ASSUME NEW stopped,
               cycle' = [cycle EXCEPT !.pc = "config", !.read = doc.control, !.stopped = stopped]
        PROVE  Audited'
    BY <2>1, <2>4, <2>7 DEF Cycles
  <2> QED BY <1>3, <2>3, <2>5, <2>6, <2>7 DEF Recheck, RecordFailure, ReadPlan
<1>4. CASE _write_answer_audit
  <2>1. cycle \in Cycles /\ cycle.q \in Questions /\ audit \in [Questions -> Audits]
    BY <1>4, Running, TypeParts DEF _write_answer_audit, Inv, Cycles, RestOK
  <2>2. ASSUME NEW x \in Questions, audit'[x] = "answered" PROVE question[x].state = "answered"
    BY <1>4, <2>1, <2>2 DEF _write_answer_audit, Audited, AuditIsTrue
  <2>3. cycle'.pc # "audit"
    BY <1>4 DEF _write_answer_audit, Idle
  <2> QED BY <2>2, <2>3, AnswersStay DEF Audited, AuditIsTrue
<1>5. CASE Evaluate
  <2>1. cycle \in Cycles /\ cycle.q \in Questions /\ audit \in [Questions -> Audits]
    BY <1>5, Running, TypeParts DEF Evaluate, Inv, Cycles, RestOK
  <2>2. cycle'.pc # "audit"
    BY <1>5, <2>1 DEF Evaluate, Cycles
  <2>3. ASSUME NEW x \in Questions, audit'[x] = "answered" PROVE audit[x] = "answered"
    BY <1>5, <2>1, <2>3 DEF Evaluate
  <2> QED BY <2>2, <2>3, NotAuditing
<1>6. CASE Draft \/ SaveFinding \/ Release \/ ReadForFailure
  <2>1. cycle \in Cycles /\ doc \in Docs
    BY <1>6, Running, TypeParts DEF Draft, SaveFinding, Release, ReadForFailure, Inv, DocOK
  <2>2. UNCHANGED audit
    BY <1>6 DEF Draft, SaveFinding, Release, ReadForFailure
  <2>3. CASE cycle'.pc # "audit"
    BY <2>2, <2>3, NotAuditing
  <2>4. CASE Go("central") \/ Go("plan") \/ cycle' = Idle
    BY <2>1, <2>3, <2>4, Moved DEF Steps, Idle
  <2>5. CASE cycle' = [cycle EXCEPT !.read = doc.control, !.tries = @ + 1] /\ SaveFinding
    BY <2>1, <2>3, <2>5 DEF SaveFinding, Cycles
  <2>6. CASE Draft \/ ReadForFailure
    BY <2>1, <2>3, <2>6 DEF Draft, ReadForFailure, Cycles
  <2> QED BY <1>6, <2>4, <2>5, <2>6 DEF SaveFinding, Release
<1>7. CASE \/ ReconcileHolds \/ write_reports \/ WriteCommand \/ Configure \/ UNCHANGED vars
           \/ \E x \in Questions :
                \/ HoldElapses(x)
                \/ \E kind \in {"veto", "kill"} : StartCommand(kind, x)
                \/ \E h \in Humans : HumanResponds(h, x)
           \/ \E c \in Coordinators : OwnersChange(c)
  <2>1. UNCHANGED <<cycle, audit>>
    BY <1>7 DEF ReconcileHolds, write_reports, WriteCommand, Configure, vars, HoldElapses, StartCommand,
                HumanResponds, OwnersChange
  <2> QED BY <2>1, NotAuditing
<1>8. CASE Interrupted \/ \E x \in Questions : Begin(x)
  <2>1. UNCHANGED audit /\ cycle'.pc # "audit"
    BY <1>8 DEF Interrupted, Begin, Idle
  <2> QED BY <2>1, NotAuditing
<1> QED BY <1>1, <1>2, <1>3, <1>4, <1>5, <1>6, <1>7, <1>8 DEF Next, Resident

\* The audit of a question says "answered" only if Central has an answer for
\* it, whoever gave it (_write_answer_audit).
THEOREM AuditsAreTrue == Spec => []AuditIsTrue
<1>1. Init => Inv /\ Audited
  BY InitInv DEF Init, Audited, AuditIsTrue, Idle
<1>2. Inv /\ Audited /\ [Next]_vars => (Inv /\ Audited)'
  BY InvStep, AuditedStep
<1>3. Audited => AuditIsTrue
  BY DEF Audited
<1> QED BY <1>1, <1>2, <1>3, PTL DEF Spec
=============================================================================
