------------------------- MODULE TicketLeaseProofs -------------------------
(***************************************************************************)
(* Proofs about TicketLease.  A step moves every ticket on its own, so     *)
(* each property is first shown for one move of one ticket, from x to y,   *)
(* and the theorems only lift that to the function `ticket`.               *)
(***************************************************************************)
EXTENDS TicketLease, TLAPS

(* What one ticket satisfies: the two invariants of TicketLease.  Neither   *)
(* is inductive alone: that the approver of a closed ticket may review it   *)
(* rests on the author, which rests on the holder of a worked-on ticket.    *)
Sound(x) ==
    /\ x.status \in Working <=> x.holder # NoAgent
    /\ x.lease # "none" <=> x.holder # NoAgent
    /\ x.review_lease # "none" <=> x.reviewer # NoAgent
    /\ x.reviewer # NoAgent => x.status = "submitted"
    /\ x.author # NoAgent => x.status \in {"submitted", "closed"}
    /\ x.status \in {"submitted", "closed"} => x.author \in Agents
    /\ x.status = "closed" => <<x.approver, x.author>> \in MayReview
    /\ x.reviewer # NoAgent => <<x.reviewer, x.author>> \in MayReview

IInv == TypeOK /\ \A t \in Tickets : Sound(ticket[t])

(* An untouched ticket is a ticket, and satisfies the invariant unless its  *)
(* status says that somebody holds or has submitted it.                     *)
LEMMA UnheldIsSound ==
    ASSUME NEW s \in Status
    PROVE  /\ Unheld(s) \in Ticket
           /\ s \notin Working \cup {"submitted", "closed"} => Sound(Unheld(s))
  BY TicketLeaseAssumption
     DEF Unheld, Ticket, Sound, Somebody, Lease, Status, Working, Terminal

(* Every move of a sound ticket leads to a sound ticket. *)
LEMMA MovesAreSound ==
    ASSUME NEW x \in Ticket, Sound(x), NEW y \in Moves(x)
    PROVE  y \in Ticket /\ Sound(y)
<1> USE TicketLeaseAssumption
    DEF Sound, Ticket, Status, Working, Terminal, Lease, Somebody, If
<1>1. CASE y = x
  BY <1>1
<1>2. CASE y \in Create(x) \cup Release(x) \cup Cancel(x) \cup AskHuman(x)
                  \cup Resolve(x)
  BY <1>2 DEF Create, Release, Cancel, AskHuman, Resolve, Unheld
<1>3. CASE y \in Claim(x)
  <2>1. PICK a \in Agents :
          y = [Unheld("claimed") EXCEPT !.holder = a, !.lease = "live"]
    BY <1>3 DEF Claim
  <2>2. y = [status |-> "claimed", holder |-> a, lease |-> "live",
             author |-> NoAgent, reviewer |-> NoAgent, review_lease |-> "none",
             approver |-> NoAgent]
    BY <2>1 DEF Unheld
  <2> QED
    BY <2>2
<1>4. CASE y \in Start(x) \cup Lapse(x)
  BY <1>4 DEF Start, Lapse
<1>5. CASE y \in Submit(x)
  BY <1>5 DEF Submit, Unheld
<1>6. CASE y \in ReviewClaim(x)
  <2>1. PICK a \in Judges(x) :
          y = [x EXCEPT !.reviewer = a, !.review_lease = "live"]
    BY <1>6 DEF ReviewClaim
  <2>2. x.status = "submitted"
    BY <1>6 DEF ReviewClaim
  <2>3. a \in Agents /\ <<a, x.author>> \in MayReview /\ a # NoAgent
    BY DEF Judges
  <2>4. y = [status |-> "submitted", holder |-> x.holder, lease |-> x.lease,
             author |-> x.author, reviewer |-> a, review_lease |-> "live",
             approver |-> x.approver]
    BY <2>1, <2>2
  <2>5. y \in Ticket
    BY <2>3, <2>4
  <2>6. /\ y.status = "submitted" /\ y.holder = x.holder /\ y.lease = x.lease
        /\ y.author = x.author /\ y.reviewer = a /\ y.review_lease = "live"
    BY <2>4
  <2> QED
    BY <2>2, <2>3, <2>5, <2>6
<1>7. CASE y \in ReviewLapse(x) \cup ReviewEnd(x)
  <2>1. CASE y \in ReviewLapse(x)
    BY <2>1 DEF ReviewLapse
  <2>2. CASE y \in ReviewEnd(x)
    <3>1. /\ x.status = "submitted"
          /\ y = [x EXCEPT !.reviewer = NoAgent, !.review_lease = "none"]
      BY <2>2 DEF ReviewEnd
    <3>2. y = [status |-> "submitted", holder |-> x.holder, lease |-> x.lease,
               author |-> x.author, reviewer |-> NoAgent, review_lease |-> "none",
               approver |-> x.approver]
      BY <3>1
    <3> QED BY <3>1, <3>2
  <2> QED BY <1>7, <2>1, <2>2
<1>8. CASE y \in Approve(x)
  <2>1. PICK a \in Judges(x) :
          y = [Unheld("closed") EXCEPT !.author = x.author, !.approver = a]
    BY <1>8 DEF Approve
  <2>2. x.author \in Agents
    BY <1>8 DEF Approve
  <2>3. a \in Agents /\ <<a, x.author>> \in MayReview
    BY DEF Judges
  <2>4. y = [status |-> "closed", holder |-> NoAgent, lease |-> "none",
             author |-> x.author, reviewer |-> NoAgent,
             review_lease |-> "none", approver |-> a]
    BY <2>1 DEF Unheld
  <2> QED
    BY <2>2, <2>3, <2>4
<1>9. CASE y \in Reject(x)
  BY <1>9 DEF Reject, Unheld
<1> QED
  BY <1>1, <1>2, <1>3, <1>4, <1>5, <1>6, <1>7, <1>8, <1>9 DEF Moves

(* A ticket that was not created is held by nobody. *)
LEMMA InitIsSound == Init => IInv
<1> SUFFICES ASSUME Init PROVE IInv
  OBVIOUS
<1>1. "missing" \in Status /\ "missing" \notin Working \cup {"submitted", "closed"}
  BY DEF Status, Working
<1>2. Unheld("missing") \in Ticket /\ Sound(Unheld("missing"))
  BY <1>1, UnheldIsSound
<1> QED
  BY <1>2 DEF Init, IInv, TypeOK

(* Every step leaves every ticket sound: the one it moves and the others. *)
LEMMA StepIsSound == IInv /\ [Next]_ticket => IInv'
<1> SUFFICES ASSUME IInv, [Next]_ticket PROVE IInv'
  OBVIOUS
<1>1. CASE UNCHANGED ticket
  BY <1>1 DEF IInv, TypeOK
<1>2. CASE Next
  <2>1. \A t \in Tickets : ticket[t] \in Ticket /\ Sound(ticket[t])
    BY DEF IInv, TypeOK
  <2>2. \A t \in Tickets : ticket'[t] \in Moves(ticket[t])
    BY <1>2 DEF Next
  <2>3. \A t \in Tickets : ticket'[t] \in Ticket /\ Sound(ticket'[t])
    BY <2>1, <2>2, MovesAreSound
  <2>4. ticket' = [t \in Tickets |-> ticket'[t]]
    BY <1>2 DEF Next
  <2> QED
    BY <2>3, <2>4 DEF IInv, TypeOK
<1> QED
  BY <1>1, <1>2

(* The inductive invariant of the promise. *)
THEOREM AlwaysSound == Spec => []IInv
  BY InitIsSound, StepIsSound, PTL DEF Spec

(* The lease and the holder of a ticket, its review lease and its reviewer  *)
(* and its status agree, after every sequence of board calls.               *)
THEOREM LeasesAlwaysMatch == Spec => []LeasesMatchStatus
<1>1. IInv => LeasesMatchStatus
  BY DEF IInv, Sound, LeasesMatchStatus
<1> QED
  BY <1>1, AlwaysSound, PTL

(* No author reviews or approves its own work, and under a strict policy no *)
(* seat of the author's principal does: for every set of seats and every    *)
(* irreflexive review policy.                                               *)
THEOREM AlwaysReviewedIndependently == Spec => []ReviewedIndependently
<1>1. IInv => ReviewedIndependently
  BY DEF IInv, Sound, ReviewedIndependently
<1> QED
  BY <1>1, AlwaysSound, PTL

-----------------------------------------------------------------------------
(* What a move may never do *)

(* A ticket with a live work lease can only be started, lapse, be released, *)
(* submitted, canceled or handed to a human.                                *)
LEMMA MovesUnderLiveLease ==
    ASSUME NEW x \in Ticket, Sound(x), NEW y \in Moves(x), x.lease = "live"
    PROVE  y \in {x} \cup Start(x) \cup Lapse(x) \cup Release(x) \cup Submit(x)
                    \cup Cancel(x) \cup AskHuman(x)
<1> USE DEF Sound, Ticket, If
<1>1. x.status \in Working /\ x.holder # NoAgent /\ x.review_lease = "none"
  BY DEF Working
<1>2. Create(x) = {} /\ Claim(x) = {} /\ ReviewClaim(x) = {} /\ ReviewLapse(x) = {}
  BY <1>1 DEF Create, Claim, ReviewClaim, ReviewLapse, Working
<1>3. ReviewEnd(x) = {} /\ Approve(x) = {} /\ Reject(x) = {} /\ Resolve(x) = {}
  BY <1>1 DEF ReviewEnd, Approve, Reject, Resolve, Working
<1> QED
  BY <1>2, <1>3 DEF Moves

(* No move gives the live work lease of one seat to another seat. *)
LEMMA MovesKeepLiveLease ==
    ASSUME NEW x \in Ticket, Sound(x), NEW y \in Moves(x), x.lease = "live"
    PROVE  y.holder \in {NoAgent, x.holder} /\ y.author \in {NoAgent, x.holder}
<1> USE DEF Sound, Ticket, If
<1>1. x.author = NoAgent
  BY DEF Working
<1>2. CASE y \in {x} \cup Start(x) \cup Lapse(x)
  BY <1>1, <1>2 DEF Start, Lapse
<1>3. CASE y \in Release(x) \cup Cancel(x) \cup AskHuman(x)
  BY <1>3 DEF Release, Cancel, AskHuman, Unheld
<1>4. CASE y \in Submit(x)
  BY <1>4 DEF Submit, Unheld
<1> QED
  BY <1>2, <1>3, <1>4, MovesUnderLiveLease

(* A lapsed lease is not revived by any move but a new claim, and the work  *)
(* done under it cannot be submitted.                                       *)
LEMMA MovesLoseLapsedLease ==
    ASSUME NEW x \in Ticket, Sound(x), NEW y \in Moves(x), x.lease = "lapsed"
    PROVE  /\ y.status # "submitted"
           /\ y.lease = "live" => y.status = "claimed"
<1> USE DEF Sound, Ticket, If
<1>1. x.status \in Working /\ x.review_lease = "none"
  BY DEF Working
<1>2. Create(x) = {} /\ Start(x) = {} /\ Lapse(x) = {} /\ Submit(x) = {}
  BY <1>1 DEF Create, Start, Lapse, Submit, Working
<1>3. ReviewClaim(x) = {} /\ ReviewLapse(x) = {} /\ ReviewEnd(x) = {}
        /\ Approve(x) = {} /\ Reject(x) = {} /\ Resolve(x) = {}
  BY <1>1 DEF ReviewClaim, ReviewLapse, ReviewEnd, Approve, Reject, Resolve, Working
<1>4. CASE y \in Claim(x)
  BY <1>4 DEF Claim, Unheld
<1>5. CASE y \in {x} \cup Release(x) \cup Cancel(x) \cup AskHuman(x)
  BY <1>1, <1>5 DEF Release, Cancel, AskHuman, Unheld, Working
<1> QED
  BY <1>2, <1>3, <1>4, <1>5 DEF Moves

(* No move leads out of a terminal status. *)
LEMMA MovesEnd ==
    ASSUME NEW x \in Ticket, Sound(x), NEW y \in Moves(x), x.status \in Terminal
    PROVE  y = x
<1> USE DEF Sound, Ticket, If, Working, Terminal
<1>1. x.lease = "none" /\ x.review_lease = "none"
  OBVIOUS
<1>2. Create(x) = {} /\ Claim(x) = {} /\ Start(x) = {} /\ Lapse(x) = {}
        /\ Release(x) = {} /\ Submit(x) = {}
  BY <1>1 DEF Create, Claim, Start, Lapse, Release, Submit
<1>3. ReviewClaim(x) = {} /\ ReviewLapse(x) = {} /\ ReviewEnd(x) = {}
        /\ Approve(x) = {} /\ Reject(x) = {}
  BY <1>1 DEF ReviewClaim, ReviewLapse, ReviewEnd, Approve, Reject
<1>4. Cancel(x) = {} /\ AskHuman(x) = {} /\ Resolve(x) = {}
  BY DEF Cancel, AskHuman, Resolve
<1> QED
  BY <1>2, <1>3, <1>4 DEF Moves

(* What a step does to one ticket. *)
LEMMA StepMovesEach ==
    ASSUME IInv, Next, NEW t \in Tickets
    PROVE  /\ ticket[t] \in Ticket /\ Sound(ticket[t])
           /\ ticket'[t] \in Moves(ticket[t])
  BY DEF IInv, TypeOK, Next

(* No call hands a ticket with a live lease to another seat, or takes       *)
(* another seat's submission for it: claims, reaps and releases of any      *)
(* number of seats and tickets included.                                    *)
THEOREM NeverTakenOver == Spec => NoTakeover
<1>1. IInv /\ [Next]_ticket =>
        [\A t \in Tickets :
           ticket[t].lease = "live" =>
             /\ ticket'[t].holder \in {NoAgent, ticket[t].holder}
             /\ ticket'[t].author \in {NoAgent, ticket[t].holder}]_ticket
  BY StepMovesEach, MovesKeepLiveLease
<1> QED
  BY <1>1, AlwaysSound, PTL DEF Spec, NoTakeover

(* A lapsed lease is worth nothing: no heartbeat, renewal or submission     *)
(* that arrives late brings it back.                                        *)
THEOREM LapsedStaysLost == Spec => LapsedIsLost
<1>1. IInv /\ [Next]_ticket =>
        [\A t \in Tickets :
           ticket[t].lease = "lapsed" =>
             /\ ticket'[t].status # "submitted"
             /\ ticket'[t].lease = "live" => ticket'[t].status = "claimed"]_ticket
  BY StepMovesEach, MovesLoseLapsedLease
<1> QED
  BY <1>1, AlwaysSound, PTL DEF Spec, LapsedIsLost

(* Closed, rejected and canceled tickets never change again. *)
THEOREM TerminalStaysFinal == Spec => TerminalIsFinal
<1>1. IInv /\ [Next]_ticket =>
        [\A t \in Tickets :
           ticket[t].status \in Terminal => ticket'[t] = ticket[t]]_ticket
  BY StepMovesEach, MovesEnd
<1> QED
  BY <1>1, AlwaysSound, PTL DEF Spec, TerminalIsFinal
=============================================================================
