---------------------------- MODULE TicketLease ----------------------------
(***************************************************************************)
(* What the board promises about the ownership of a ticket, without        *)
(* offers, seats, queues or reaping: who works on it, who reviews it, and  *)
(* what a lease is worth.  Module Board implements this specification.     *)
(*                                                                         *)
(* One board call may move several tickets (it reaps before it acts), so a *)
(* step lets every ticket make one of its own moves or stay as it is.      *)
(***************************************************************************)
EXTENDS Naturals, FiniteSets

CONSTANTS
    Tickets,
    Agents,
    NoAgent,
    MayReview       \* <<reviewer, author>>: the review policy allows it

ASSUME TicketLeaseAssumption ==
    /\ NoAgent \notin Agents
    /\ MayReview \subseteq (Agents \X Agents)
    /\ \A a \in Agents : <<a, a>> \notin MayReview

VARIABLE ticket

Working == {"claimed", "in_progress"}
Terminal == {"closed", "rejected", "canceled"}
Status == {"missing", "open", "submitted", "needs_human"}
            \cup Working \cup Terminal
Lease == {"none", "live", "lapsed"}
Somebody == Agents \cup {NoAgent}

Ticket == [status : Status, holder : Somebody, lease : Lease,
           author : Somebody, reviewer : Somebody, review_lease : Lease,
           approver : Somebody]

(* A ticket that nobody holds. *)
Unheld(status) ==
    [status |-> status, holder |-> NoAgent, lease |-> "none",
     author |-> NoAgent, reviewer |-> NoAgent, review_lease |-> "none",
     approver |-> NoAgent]

Init == ticket = [t \in Tickets |-> Unheld("missing")]

-----------------------------------------------------------------------------
(* The moves of a ticket x: what it may be after one call or lapse. *)

If(guard, moves) == IF guard THEN moves ELSE {}

Create(x) == If(x.status = "missing", {Unheld("open")})

(* Mutant of Claim: a live lease does not protect the ticket. *)
ClaimWorking(x) ==
    If(x.status \in Working \cup {"open"},
       {[Unheld("claimed") EXCEPT !.holder = a, !.lease = "live"] : a \in Agents})

(* Only an open ticket, or one whose lease has lapsed, can be taken. *)
Claim(x) ==
    If(x.status = "open" \/ (x.status \in Working /\ x.lease = "lapsed"),
       {[Unheld("claimed") EXCEPT !.holder = a, !.lease = "live"] : a \in Agents})

Start(x) ==
    If(x.status = "claimed" /\ x.lease = "live",
       {[x EXCEPT !.status = "in_progress"]})

Lapse(x) == If(x.lease = "live", {[x EXCEPT !.lease = "lapsed"]})

(* A work lease ends: given back, taken back, or lapsed and reaped. *)
Release(x) == If(x.status \in Working, {Unheld("open")})

(* Mutant of Submit: the lease need not be live. *)
SubmitLapsed(x) ==
    If(x.status \in Working, {[Unheld("submitted") EXCEPT !.author = x.holder]})

(* Only work under a live lease is accepted, and it is the holder's. *)
Submit(x) ==
    If(x.status \in Working /\ x.lease = "live",
       {[Unheld("submitted") EXCEPT !.author = x.holder]})

Judges(x) == {a \in Agents : /\ <<a, x.author>> \in MayReview
                             /\ x.review_lease = "live" => a = x.reviewer}

ReviewClaim(x) ==
    If(x.status = "submitted",
       {[x EXCEPT !.reviewer = a, !.review_lease = "live"] : a \in Judges(x)})

ReviewLapse(x) ==
    If(x.review_lease = "live", {[x EXCEPT !.review_lease = "lapsed"]})

(* Mutant of ReviewEnd: both fields are cleared alike. *)
ReviewEndClearsAlike(x) ==
    If(x.status = "submitted",
       {[x EXCEPT !.reviewer = NoAgent, !.review_lease = NoAgent]})

ReviewEnd(x) ==
    If(x.status = "submitted",
       {[x EXCEPT !.reviewer = NoAgent, !.review_lease = "none"]})

(* Mutant of Approve: anybody may. *)
ApproveByAnyone(x) ==
    If(x.status = "submitted",
       {[Unheld("closed") EXCEPT !.author = x.author, !.approver = a] : a \in Agents})

(* A live review lease keeps everybody else from judging. *)
Approve(x) ==
    If(x.status = "submitted",
       {[Unheld("closed") EXCEPT !.author = x.author, !.approver = a] :
           a \in Judges(x)})

Reject(x) ==
    If(x.status = "submitted" /\ Judges(x) # {},
       {Unheld("rejected"), Unheld("open")})

Cancel(x) ==
    If(x.status \notin Terminal \cup {"missing"}, {Unheld("canceled")})

AskHuman(x) ==
    If(x.status \notin Terminal \cup {"missing"}, {Unheld("needs_human")})

Resolve(x) == If(x.status = "needs_human", {Unheld("open")})

Moves(x) ==
    {x} \cup Create(x) \cup Claim(x) \cup Start(x) \cup Lapse(x) \cup Release(x)
        \cup Submit(x) \cup ReviewClaim(x) \cup ReviewLapse(x) \cup ReviewEnd(x)
        \cup Approve(x) \cup Reject(x) \cup Cancel(x) \cup AskHuman(x)
        \cup Resolve(x)

Next ==
    /\ ticket' \in [Tickets -> UNION {Moves(ticket[t]) : t \in Tickets}]
    /\ \A t \in Tickets : ticket'[t] \in Moves(ticket[t])

Spec == Init /\ [][Next]_ticket

-----------------------------------------------------------------------------
TypeOK == ticket \in [Tickets -> Ticket]

(* A lease exists exactly while somebody works on the ticket or reviews it, *)
(* and an author only once there is work to judge.                          *)
LeasesMatchStatus ==
    \A t \in Tickets :
        /\ ticket[t].status \in Working <=> ticket[t].holder # NoAgent
        /\ ticket[t].lease # "none" <=> ticket[t].holder # NoAgent
        /\ ticket[t].review_lease # "none" <=> ticket[t].reviewer # NoAgent
        /\ ticket[t].reviewer # NoAgent => ticket[t].status = "submitted"
        /\ ticket[t].author # NoAgent => ticket[t].status \in {"submitted", "closed"}

(* Whoever reviews a ticket or has approved it may review its author, so    *)
(* it is never the author itself.                                           *)
ReviewedIndependently ==
    \A t \in Tickets :
        /\ ticket[t].status \in {"submitted", "closed"} =>
             ticket[t].author \in Agents
        /\ ticket[t].status = "closed" =>
             <<ticket[t].approver, ticket[t].author>> \in MayReview
        /\ ticket[t].reviewer # NoAgent =>
             <<ticket[t].reviewer, ticket[t].author>> \in MayReview

(* A live work lease is exclusive: as long as it has not lapsed, a call may *)
(* end it but cannot hand the ticket to another seat, and only its holder   *)
(* becomes the author of the submission.                                    *)
NoTakeover ==
    [][\A t \in Tickets :
         ticket[t].lease = "live" =>
           /\ ticket'[t].holder \in {NoAgent, ticket[t].holder}
           /\ ticket'[t].author \in {NoAgent, ticket[t].holder}]_ticket

(* A lease that has lapsed is worth nothing to its holder: it is never      *)
(* prolonged (work has to be claimed anew) and never ends in a submission.  *)
LapsedIsLost ==
    [][\A t \in Tickets :
         ticket[t].lease = "lapsed" =>
           /\ ticket'[t].status # "submitted"
           /\ ticket'[t].lease = "live" => ticket'[t].status = "claimed"]_ticket

(* A finished ticket stays as it is. *)
TerminalIsFinal ==
    [][\A t \in Tickets :
         ticket[t].status \in Terminal => ticket'[t] = ticket[t]]_ticket
=============================================================================
