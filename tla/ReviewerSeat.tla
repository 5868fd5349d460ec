---------------------------- MODULE ReviewerSeat ----------------------------
(***************************************************************************)
(* The unattended Reviewer of tools/worker-runtime/pursers_worker.py beside *)
(* the workers of SeatRuntime and the seats run elsewhere.  It reads a     *)
(* submission, lets its model form a verdict, reads the ticket again to    *)
(* see that the submission is still the same, and calls ticket_review.     *)
(***************************************************************************)
EXTENDS SeatRuntime

CONSTANT MaxRev         \* bound on the submissions of one ticket

VARIABLES
    rev,        \* rev[t]: submissions of t so far (submission_revision)
    reviewer,   \* reviewer[r]: the state of the process of seat r
    verdict     \* verdict[t]: the revision the last verdict was formed on, and the one it met

reviewVars == <<vars, rev, reviewer, verdict>>

(* pending: submissions still to be looked at; seen: seen_submissions;      *)
(* key: the listed submission; rev: the revision that is reviewed.          *)
StoppedReviewer ==
    [pc |-> "down", pending |-> {}, seen |-> {}, key |-> <<NoTicket, 0>>, rev |-> 0]

ReviewInit ==
    /\ SeatInit
    /\ rev = [t \in Tickets |-> 0]
    /\ reviewer = [r \in Reviewers |-> StoppedReviewer]
    /\ verdict = [t \in Tickets |-> [formed |-> 0, met |-> 0]]

-----------------------------------------------------------------------------
(* The reviewer. *)

Judging(r, s) == reviewer' = [reviewer EXCEPT ![r] = s]

Submitted == {<<t, rev[t]>> : t \in {u \in Tickets : ticket[u].status = "submitted"}}

(* Start-up lists every submission; if that fails it starts with none. *)
ReviewerStart(r) ==
    /\ reviewer[r].pc = "down"
    /\ \E ok \in BOOLEAN :
         /\ Read(ok)
         /\ Judging(r, [StoppedReviewer EXCEPT !.pc = "next",
                                               !.pending = IF ok THEN Submitted ELSE {}])
    /\ UNCHANGED <<rev, verdict, worker, tree, restarts>>

Skip(s, k) == [s EXCEPT !.pc = "next", !.key = <<NoTicket, 0>>, !.rev = 0,
                        !.seen = @ \cup {k}]

(* The next pending submission is read anew; it may be a later one by now, *)
(* or one that was judged already.  An error ends the process.             *)
TakeUp(r) ==
    LET s == reviewer[r]
    IN  /\ s.pc = "next"
        /\ \E k \in s.pending :
             LET t == k[1]
                 rest == [s EXCEPT !.pending = @ \ {k}]
             IN  \/ k \in s.seen /\ Judging(r, rest) /\ UNCHANGED <<ticket, faults>>
                 \/ k \notin s.seen /\ Read(FALSE) /\ Judging(r, StoppedReviewer)
                 \/ /\ k \notin s.seen /\ Read(TRUE)
                    /\ \/ Judging(r, [rest EXCEPT !.pc = "review", !.key = k, !.rev = rev[t]])
                       \/ Judging(r, Skip(rest, k))    \* own work, tier, no worktree
        /\ UNCHANGED <<rev, verdict, worker, tree, restarts>>

(* The model answers with a verdict, or with none that counts. *)
FormVerdict(r) ==
    LET s == reviewer[r]
    IN  /\ s.pc = "review"
        /\ Judging(r, [s EXCEPT !.pc = "recheck"]) \/ Judging(r, Skip(s, s.key))
        /\ UNCHANGED <<ticket, rev, verdict, worker, tree, faults, restarts>>

(* The ticket is read again: the verdict stands only for the submission it *)
(* was formed on, by somebody else, that is still to be judged.            *)
Recheck(r) ==
    LET s == reviewer[r]
        t == s.key[1]
    IN  /\ s.pc = "recheck"
        /\ \/ /\ Read(TRUE)
              /\ Judging(r, IF rev[t] = s.rev /\ ticket[t].status = "submitted"
                                /\ ticket[t].author # r
                              THEN [s EXCEPT !.pc = "judge"] ELSE Skip(s, s.key))
           \/ Read(FALSE) /\ Judging(r, Skip(s, s.key))
        /\ UNCHANGED <<rev, verdict, worker, tree, restarts>>

(* ticket_review names the ticket and not the submission. *)
JudgeTicket(r) ==
    LET s == reviewer[r]
        t == s.key[1]
        x == ticket[t]
    IN  /\ s.pc = "judge"
        /\ \E reply \in Replies :
             /\ \/ Call(reply, t, {y \in Approve(x) : y.approver = r})
                \/ Call(reply, t, IF x.status = "submitted" /\ r \in Judges(x)
                                    THEN Reject(x) ELSE {})
             /\ verdict' = [verdict EXCEPT ![t] = IF ticket'[t] # x
                               THEN [formed |-> s.rev, met |-> rev[t]] ELSE @]
        /\ Judging(r, Skip(s, s.key))
        /\ UNCHANGED <<rev, worker, tree, restarts>>

(* With nothing pending it waits: a resync lists every submission again, a *)
(* cue names some.  A cue that cannot be read is dropped, as is a failed   *)
(* listing; an error of the wait ends the process.                         *)
AwaitSubmission(r) ==
    LET s == reviewer[r]
    IN  /\ s.pc = "next" /\ s.pending = {}
        /\ \/ Read(TRUE) /\ \E c \in SUBSET Submitted : Judging(r, [s EXCEPT !.pending = c])
           \/ Read(FALSE) /\ Judging(r, StoppedReviewer)
        /\ UNCHANGED <<rev, verdict, worker, tree, restarts>>

ReviewerStops(r) ==
    /\ reviewer[r].pc # "down" /\ restarts < MaxRestarts
    /\ restarts' = restarts + 1
    /\ Judging(r, StoppedReviewer)
    /\ UNCHANGED <<ticket, rev, worker, tree, verdict, faults>>

(* A step of the rest of the board; a submission makes a new revision. *)
BoardStep ==
    /\ SeatNext
    /\ rev' = [t \in Tickets |->
                 IF ticket[t].status \in Working /\ ticket'[t].status = "submitted"
                   THEN rev[t] + 1 ELSE rev[t]]
    /\ \A t \in Tickets : rev'[t] <= MaxRev
    /\ UNCHANGED <<reviewer, verdict>>

ReviewNext ==
    \/ BoardStep
    \/ \E r \in Reviewers : \/ ReviewerStart(r) \/ TakeUp(r) \/ FormVerdict(r)
                             \/ Recheck(r) \/ JudgeTicket(r) \/ AwaitSubmission(r)
                             \/ ReviewerStops(r)

ReviewSpec == ReviewInit /\ [][ReviewNext]_reviewVars

-----------------------------------------------------------------------------
(* A verdict meets the submission it was formed on, as the runtime's README *)
(* says: a verdict formed on a submission that was replaced is discarded.   *)
VerdictBound == \A t \in Tickets : verdict[t].formed = verdict[t].met
=============================================================================
