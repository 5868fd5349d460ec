---------------------------- MODULE SeatRuntime ----------------------------
(***************************************************************************)
(* The unattended worker seats of tools/worker-runtime/pursers_worker.py:  *)
(* processes that claim tickets, work in a git worktree of their own,      *)
(* submit, and sweep up at start what an earlier process left.  They share *)
(* the tickets of TicketLease with seats that are run by people or by      *)
(* other programs (OtherSeats).                                            *)
(*                                                                         *)
(* Every call to Central is one step with one of four replies: it is       *)
(* carried out ("ok") or refused, it is lost on the way ("lost"), or it is *)
(* carried out and the reply is lost ("late").  The caller cannot tell the *)
(* last three apart.  Lost and late replies, and leases that lapse although *)
(* somebody renews them, are faults; MaxFaults bounds them, MaxRestarts    *)
(* bounds crashes and stop signals.                                        *)
(***************************************************************************)
EXTENDS TicketLease

CONSTANTS
    Workers,                \* the seats these processes run as
    Reviewers,              \* the seats of the processes of ReviewerSeat
    NoTicket,
    MaxFaults, MaxRestarts

ASSUME SeatAssumption ==
    /\ Workers \subseteq Agents /\ Reviewers \subseteq Agents
    /\ NoTicket \notin Tickets
    /\ MaxFaults \in Nat /\ MaxRestarts \in Nat

VARIABLES
    worker,     \* worker[w]: the state of the process of seat w
    tree,       \* tree[w][t]: the worktree of w for t; "left" is dirty with
                \* changes that belong to a submission Central accepted
    faults, restarts

vars == <<ticket, worker, tree, faults, restarts>>

(* A worker that is not running.  todo: claims to give back at start-up;    *)
(* cand: candidates still to be tried; active: _active_claim; held: the     *)
(* claims that the wait renews; session: a worktree was prepared;           *)
(* submitted: the outcome of run_ticket.                                    *)
StoppedWorker ==
    [pc |-> "down", startup |-> FALSE, stop |-> FALSE, todo |-> {}, cand |-> {},
     task |-> NoTicket, active |-> NoTicket, held |-> {},
     session |-> FALSE, submitted |-> FALSE]

SeatInit ==
    /\ Init
    /\ worker = [w \in Workers |-> StoppedWorker]
    /\ tree = [w \in Workers |-> [t \in Tickets |-> "none"]]
    /\ faults = 0 /\ restarts = 0

-----------------------------------------------------------------------------
(* Calls.  A reply other than "ok" raises in the caller. *)

Replies == {"ok", "refused", "lost", "late"}

(* A call that would move ticket t by `moves`, an empty set if Central     *)
(* refuses, comes back with the given reply.                               *)
Call(reply, t, moves) ==
    /\ reply \in {"lost", "late"} => faults < MaxFaults
    /\ faults' = IF reply \in {"lost", "late"} THEN faults + 1 ELSE faults
    /\ CASE reply \in {"ok", "late"} -> \E y \in moves : ticket' = [ticket EXCEPT ![t] = y]
         [] reply = "refused" -> moves = {} /\ UNCHANGED ticket
         [] OTHER -> UNCHANGED ticket

(* A read comes back, or fails. *)
Read(ok) == Call(IF ok THEN "refused" ELSE "lost", NoTicket, {})

(* Mutant of OwnClaims: the claimant is compared with the wrong identity. *)
OwnClaimsByName(w) == {t \in Tickets : ticket[t].holder = NoAgent /\ ticket[t].status = "claimed"}

(* ticket_list does not reap: a claim whose lease has lapsed is still      *)
(* listed.  A join reaps first and renews the claims that are left.        *)
OwnClaims(w) == {t \in Tickets : ticket[t].holder = w /\ ticket[t].status = "claimed"}
JoinedClaims(w) == {t \in OwnClaims(w) : ticket[t].lease = "live"}

-----------------------------------------------------------------------------
(* The worker.  `Go(w, s)` moves its process to state s. *)

Go(w, s) == worker' = [worker EXCEPT ![w] = s]

WorkerStart(w) ==
    /\ worker[w].pc = "down"
    /\ Go(w, [StoppedWorker EXCEPT !.pc = "sweep", !.startup = TRUE])
    /\ UNCHANGED <<ticket, tree, faults, restarts>>

(* Mutant of _startup_sweep: claims of an earlier process are left alone. *)
SweepNothing(w) ==
    /\ worker[w].pc = "sweep"
    /\ Go(w, [worker[w] EXCEPT !.pc = "trees"])
    /\ UNCHANGED <<ticket, tree, faults, restarts>>

(* One claim left over is resumed, several are given back; if the board    *)
(* cannot be read there seem to be none, or the sweep is given up.         *)
_startup_sweep(w) ==
    LET s == worker[w]
        own == JoinedClaims(w)
    IN  /\ s.pc = "sweep"
        /\ \/ /\ Read(TRUE)
              /\ \/ own = {} /\ Go(w, [s EXCEPT !.pc = "trees"])
                 \/ \E t \in Tickets :
                      own = {t} /\ Go(w, [s EXCEPT !.pc = "setup", !.task = t])
                 \/ Cardinality(own) > 1 /\ Go(w, [s EXCEPT !.pc = "giveback", !.todo = own])
           \/ /\ Read(FALSE)
              /\ \E pc \in {"trees", "loop"} : Go(w, [s EXCEPT !.pc = pc, !.startup = pc = "trees"])
        /\ UNCHANGED <<tree, restarts>>

(* ticket_unclaim: only the holder of a live claim is heard. *)
Unclaim(w, t) == IF ticket[t].holder = w /\ ticket[t].lease = "live"
                   THEN Release(ticket[t]) ELSE {}

(* Several claims are released one by one, whatever the replies. *)
GiveBack(w) ==
    LET s == worker[w]
    IN  /\ s.pc = "giveback"
        /\ \/ /\ s.todo = {}
              /\ Go(w, [s EXCEPT !.pc = "trees"])
              /\ UNCHANGED <<ticket, faults>>
           \/ \E t \in s.todo, reply \in Replies :
                /\ Call(reply, t, Unclaim(w, t))
                /\ Go(w, [s EXCEPT !.todo = @ \ {t}])
        /\ UNCHANGED <<tree, restarts>>

(* The worktree sweep removes clean worktrees of tickets the seat does not hold. *)
_sweep(w) ==
    LET s == worker[w]
    IN  /\ s.pc = "trees"
        /\ \/ /\ Read(TRUE)
              /\ tree' = [tree EXCEPT ![w] = [t \in Tickets |->
                            IF t \notin OwnClaims(w) /\ @[t] = "clean" THEN "none" ELSE @[t]]]
           \/ Read(FALSE) /\ UNCHANGED tree
        /\ Go(w, [s EXCEPT !.pc = "loop", !.startup = FALSE])
        /\ UNCHANGED restarts

(* The loop ends on a stop signal; otherwise the wait joins the board,     *)
(* which renews every claim of the seat and makes them the held tickets.   *)
EnterWait(w) ==
    LET s == worker[w]
    IN  /\ s.pc = "loop"
        /\ \/ s.stop /\ Go(w, StoppedWorker) /\ UNCHANGED <<ticket, faults>>
           \/ ~s.stop /\ Read(TRUE) /\ Go(w, [s EXCEPT !.pc = "wait", !.held = JoinedClaims(w)])
           \/ ~s.stop /\ Read(FALSE) /\ Go(w, StoppedWorker)
        /\ UNCHANGED <<tree, restarts>>

(* The wait returns with events about some tickets, or with none; the      *)
(* candidates are those that are open when they are read.  A stop signal   *)
(* or an error ends the process.                                           *)
WaitReturns(w) ==
    LET s == worker[w]
        open == {t \in Tickets : ticket[t].status = "open"}
    IN  /\ s.pc = "wait"
        /\ \/ s.stop /\ Go(w, StoppedWorker) /\ UNCHANGED <<ticket, faults>>
           \/ /\ ~s.stop /\ Read(TRUE)
              /\ \E c \in SUBSET open :
                   Go(w, [s EXCEPT !.held = {}, !.cand = c,
                                   !.pc = IF c = {} THEN "loop" ELSE "choose"])
           \/ ~s.stop /\ Read(FALSE) /\ Go(w, StoppedWorker)
        /\ UNCHANGED <<tree, restarts>>

(* Before a claim: the ticket the process believes to be working on must   *)
(* not be claimed any more, and the board must show no claim of this seat. *)
(* A check that cannot be made passes.                                     *)
Consider(w) ==
    LET s == worker[w]
        busy == s.active # NoTicket /\ ticket[s.active].status = "claimed"
        again == [s EXCEPT !.pc = "loop", !.cand = {}, !.task = NoTicket]
    IN  /\ s.pc = "choose"
        /\ \/ /\ s.cand = {}
              /\ Go(w, again) /\ UNCHANGED <<ticket, faults>>
           \/ /\ s.cand # {} /\ Read(TRUE)
              /\ \/ busy /\ Go(w, again)
                 \/ ~busy /\ OwnClaims(w) # {} /\ Go(w, [again EXCEPT !.active = NoTicket])
                 \/ /\ ~busy /\ OwnClaims(w) = {}
                    /\ \E t \in s.cand :
                         Go(w, [s EXCEPT !.pc = "claim", !.task = t, !.active = NoTicket])
           \/ /\ s.cand # {} /\ Read(FALSE)
              /\ \E t \in s.cand :
                   Go(w, [s EXCEPT !.pc = "claim", !.task = t, !.active = NoTicket])
        /\ UNCHANGED <<tree, restarts>>

(* A claim that raises, carried out or not, moves on to the next candidate. *)
ClaimNext(w) ==
    LET s == worker[w]
        t == s.task
    IN  /\ s.pc = "claim"
        /\ \E reply \in Replies :
             /\ Call(reply, t, {y \in Claim(ticket[t]) : y.holder = w})
             /\ Go(w, IF reply = "ok"
                        THEN [s EXCEPT !.pc = "setup", !.cand = {}]
                        ELSE [s EXCEPT !.pc = "choose", !.task = NoTicket, !.cand = @ \ {t}])
        /\ UNCHANGED <<tree, restarts>>

(* The worktree of the ticket is created, or reused as it was left.  If    *)
(* that fails the claim is released; the loop, unlike the start-up sweep,  *)
(* then still takes the ticket for its active claim.                       *)
_prepare(w) ==
    LET s == worker[w]
    IN  /\ s.pc = "setup"
        /\ \/ /\ Read(TRUE)
              /\ tree' = [tree EXCEPT ![w][s.task] = IF @ = "none" THEN "clean" ELSE @]
              /\ Go(w, [s EXCEPT !.pc = "run", !.active = s.task, !.session = TRUE])
           \/ /\ Read(FALSE)
              /\ UNCHANGED tree
              /\ \E known \in BOOLEAN :
                   Go(w, [s EXCEPT !.pc = "release",
                                   !.active = IF known /\ ~s.startup THEN s.task ELSE NoTicket])
        /\ UNCHANGED restarts

(* The model edits and commits in the worktree; a commit stays on the      *)
(* branch of the seat, which is never removed.                             *)
Edit(w) ==
    /\ worker[w].pc = "run"
    /\ \E state \in {"clean", "dirty"} :
         /\ tree[w][worker[w].task] # state
         /\ tree' = [tree EXCEPT ![w][worker[w].task] = state]
    /\ UNCHANGED <<ticket, worker, faults, restarts>>

SubmitBy(w, t) == IF ticket[t].holder = w THEN Submit(ticket[t]) ELSE {}

(* Mutant of submit_work: an exception is taken for an accepted submission. *)
SubmitWorkRegardless(w) ==
    LET s == worker[w]
        t == s.task
    IN  /\ s.pc = "run"
        /\ \E reply \in Replies :
             /\ Call(reply, t, SubmitBy(w, t))
             /\ tree' = [tree EXCEPT ![w][t] = IF ticket'[t] # ticket[t] /\ @ = "dirty"
                                                  THEN "left" ELSE @]
             /\ Go(w, [s EXCEPT !.pc = "clean", !.active = NoTicket, !.submitted = TRUE])
        /\ UNCHANGED restarts

(* An exception of the submission, whatever became of it, releases the claim. *)
submit_work(w) ==
    LET s == worker[w]
        t == s.task
    IN  /\ s.pc = "run"
        /\ \E reply \in Replies :
             /\ Call(reply, t, SubmitBy(w, t))
             /\ tree' = [tree EXCEPT ![w][t] = IF ticket'[t] # ticket[t] /\ @ = "dirty"
                                                  THEN "left" ELSE @]
             /\ Go(w, IF reply = "ok"
                        THEN [s EXCEPT !.pc = "clean", !.active = NoTicket, !.submitted = TRUE]
                        ELSE [s EXCEPT !.pc = "release"])
        /\ UNCHANGED restarts

(* give_up, the last iteration, a hard failure or a stop signal. *)
StopWorking(w) ==
    /\ worker[w].pc = "run"
    /\ Go(w, [worker[w] EXCEPT !.pc = "release"])
    /\ UNCHANGED <<ticket, tree, faults, restarts>>

(* Where the process continues when it is done with its ticket. *)
DoneWithTask(s) ==
    [s EXCEPT !.pc = IF s.startup THEN "trees" ELSE "loop",
              !.task = NoTicket, !.session = FALSE, !.submitted = FALSE]

(* The claim is released once.  If that fails it is only logged: the       *)
(* boards recorded by _verify_release are forgotten before the next claim. *)
_release(w) ==
    LET s == worker[w]
    IN  /\ s.pc = "release"
        /\ \E reply \in Replies : Call(reply, s.task, Unclaim(w, s.task))
        /\ Go(w, IF s.session THEN [s EXCEPT !.pc = "clean", !.active = NoTicket]
                              ELSE DoneWithTask(s))
        /\ UNCHANGED <<tree, restarts>>

(* A dirty worktree is removed only after a submission; git may fail. *)
_cleanup(w) ==
    LET s == worker[w]
        t == s.task
    IN  /\ s.pc = "clean"
        /\ \/ /\ tree[w][t] = "clean" \/ s.submitted
              /\ tree' = [tree EXCEPT ![w][t] = "none"]
              /\ UNCHANGED faults
           \/ /\ tree[w][t] # "clean" /\ ~s.submitted
              /\ UNCHANGED <<tree, faults>>
           \/ Read(FALSE) /\ UNCHANGED tree
        /\ Go(w, DoneWithTask(s))
        /\ UNCHANGED <<ticket, restarts>>

WorkerStops(w) ==
    /\ worker[w].pc # "down" /\ restarts < MaxRestarts
    /\ restarts' = restarts + 1
    /\ \/ Go(w, StoppedWorker)                                  \* crash
       \/ ~worker[w].stop /\ Go(w, [worker[w] EXCEPT !.stop = TRUE])
    /\ UNCHANGED <<ticket, tree, faults>>

(* What the process does by itself, without model, operator and crashes. *)
WorkerProceeds(w) ==
    \/ _startup_sweep(w) \/ GiveBack(w) \/ _sweep(w) \/ EnterWait(w) \/ WaitReturns(w)
    \/ Consider(w) \/ ClaimNext(w) \/ _prepare(w) \/ StopWorking(w) \/ _release(w)
    \/ _cleanup(w)

-----------------------------------------------------------------------------
(* Central and the other seats. *)

(* Somebody keeps the work lease of t alive: the renewal task of a session, *)
(* the wait of an idle worker, or a seat elsewhere.                         *)
Renewed(t) ==
    LET h == ticket[t].holder
    IN  h \in Workers =>
          \/ worker[h].pc \in {"run", "release"} /\ worker[h].task = t /\ ~worker[h].stop
          \/ worker[h].pc = "wait" /\ t \in worker[h].held

(* A lease that nobody renews lapses; one that is renewed lapses when the  *)
(* renewals are lost.                                                      *)
LeaseLapses(t) ==
    /\ \E y \in Lapse(ticket[t]) : ticket' = [ticket EXCEPT ![t] = y]
    /\ Renewed(t) => faults < MaxFaults
    /\ faults' = IF Renewed(t) THEN faults + 1 ELSE faults
    /\ UNCHANGED <<worker, tree, restarts>>

Reaped(t) ==
    /\ ticket[t].lease = "lapsed"
    /\ ticket' = [ticket EXCEPT ![t] = Unheld("open")]
    /\ UNCHANGED <<worker, tree, faults, restarts>>

(* Calls of seats that are not run by this runtime. *)
OtherSeats(t) ==
    LET x == ticket[t]
        others == Agents \ (Workers \cup Reviewers)
    IN  /\ \E y \in Create(x) \cup {z \in Claim(x) : z.holder \in others}
                    \cup Cancel(x) \cup AskHuman(x) \cup Resolve(x)
                    \cup {z \in ReviewClaim(x) : z.reviewer \in others}
                    \cup ReviewLapse(x) \cup ReviewEnd(x)
                    \cup {z \in Approve(x) : z.approver \in others}
                    \cup (IF Judges(x) \cap others # {} THEN Reject(x) ELSE {})
                    \cup (IF x.holder \in others THEN Start(x) \cup Release(x) \cup Submit(x)
                                                 ELSE {}) :
             ticket' = [ticket EXCEPT ![t] = y]
        /\ UNCHANGED <<worker, tree, faults, restarts>>

SeatNext ==
    \/ \E w \in Workers : \/ WorkerStart(w) \/ WorkerProceeds(w) \/ Edit(w)
                           \/ submit_work(w) \/ WorkerStops(w)
    \/ \E t \in Tickets : LeaseLapses(t) \/ Reaped(t) \/ OtherSeats(t)

SeatFairness ==
    /\ \A w \in Workers : WF_vars(WorkerProceeds(w))
    /\ \A t \in Tickets : /\ WF_vars(LeaseLapses(t) /\ ~Renewed(t))
                           /\ WF_vars(Reaped(t))

SeatSpec == SeatInit /\ [][SeatNext]_vars
FairSeatSpec == SeatSpec /\ SeatFairness

-----------------------------------------------------------------------------
WorkerState ==
    [pc : {"down", "sweep", "giveback", "trees", "loop", "wait", "choose", "claim",
           "setup", "run", "release", "clean"},
     startup : BOOLEAN, stop : BOOLEAN, todo : SUBSET Tickets, cand : SUBSET Tickets,
     task : Tickets \cup {NoTicket}, active : Tickets \cup {NoTicket},
     held : SUBSET Tickets, session : BOOLEAN, submitted : BOOLEAN]

(* The tickets and the processes keep to their types; a process that is at *)
(* a step about a ticket has one.                                          *)
SeatTypeOK ==
    /\ TypeOK
    /\ worker \in [Workers -> WorkerState]
    /\ \A w \in Workers : worker[w].pc \in {"claim", "setup", "run", "release", "clean"}
                             => worker[w].task \in Tickets
    /\ tree \in [Workers -> [Tickets -> {"none", "clean", "dirty", "left"}]]
    /\ faults \in Nat /\ restarts \in Nat

(* Work is not lost: uncommitted changes leave the disk only after Central *)
(* has accepted the submission they belong to, through crashes, restarts,  *)
(* lost replies, lapsed leases and both sweeps.                            *)
UnsubmittedWorkKept ==
    [][\A w \in Workers, t \in Tickets :
         tree[w][t] = "dirty" => tree'[w][t] # "none"]_vars

(* A seat works on one ticket at a time: as long as every call gets its    *)
(* reply, a worker holds at most one claim, whatever it held when it       *)
(* crashed or was stopped.  A failed board read makes it claim a second.   *)
OneClaimPerWorker ==
    faults = 0 => \A w \in Workers : Cardinality({t \in Tickets : ticket[t].holder = w}) <= 1

(* A seat does not sit on a ticket: as long as every call gets its reply,  *)
(* each claim of a worker ends, by submission, release or lapse, also when *)
(* the process crashes, stops or restarts at any point.                    *)
ClaimsEnd ==
    \A w \in Workers, t \in Tickets :
        ticket[t].holder = w ~> (ticket[t].holder # w \/ faults > 0)

=============================================================================
