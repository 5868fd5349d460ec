----------------------------- MODULE BoardProofs -----------------------------
(***************************************************************************)
(* Proofs about Board, for any seats, tickets, queue, policy and bounds.   *)
(* The operators of Dispatch turn good documents into good documents, each *)
(* on one ticket: a pass along the queue is an induction over the document *)
(* it has reached.  A dispatch pass leaves the ownership of every ticket   *)
(* alone, and a reap only ends lapsed leases; so each handler moves every  *)
(* ticket as TicketLease allows.  A seat is offered a ticket, or claims    *)
(* one, only when it is free, and everything else only ends jobs; so no    *)
(* seat has two.                                                           *)
(***************************************************************************)
EXTENDS Board, WellFoundedInduction, FiniteSetTheorems, TLAPS

\* A member, and a ticket, as records.
Member == [lifecycle : Lifecycles, idle : BOOLEAN, ready : BOOLEAN, live : BOOLEAN]
Record ==
    [status : Statuses, claimed_by : Someone, lease : Leases,
     submitted_by : Someone, reviewer : Someone, review_lease : Leases,
     offer : [Kinds -> Offer], expirations : [Kinds -> 0..Fallback],
     tried : [Kinds -> SUBSET Agents], broadcast : {"no", "yes", "due"},
     last_claimed_by : Someone, last_offered : [Kinds -> Someone],
     reviewed_by : Someone, last_review_released_by : Someone,
     assigned_to : Someone, pin_misses : 0..Fallback, parked : BOOLEAN,
     asked : Someone, for_human : BOOLEAN]

\* A ticket has leases only in the states that its holders work in, and its
\* reviewer may judge its author.
Owned(tk) ==
    /\ PreSubmission(tk) => tk.claimed_by # NoAgent /\ tk.lease # "none"
    /\ tk.status \in {"submitted", "closed"} => tk.submitted_by # NoAgent
    /\ tk.status \in {"missing", "submitted"} => tk.lease = "none"
    /\ tk.status \notin {"submitted", "canceled"} => tk.reviewer = NoAgent
    /\ tk.reviewer = NoAgent <=> tk.review_lease = "none"
    /\ tk.status = "submitted" /\ tk.reviewer # NoAgent => Independent(tk, tk.reviewer)

\* The seats that can do a kind of work and take part in dispatch.
Able(k) == Explicit \cap (IF k = "work" THEN Workers ELSE Reviewers)

\* An offer can still expire once more, and goes to the right seat.
Offering(tk, k) ==
    /\ Offered(tk, k) => tk.expirations[k] < Fallback /\ tk.status # "missing"
    /\ tk.offer[k].live =>
         /\ Offered(tk, k) /\ tk.offer[k].agent \in Able(k)
         /\ tk.offer[k].current => tk.offer[k].agent \notin tk.tried[k]
         /\ k = "work" => tk.assigned_to \in {NoAgent, tk.offer[k].agent}

Good(tk) ==
    /\ Owned(tk)
    /\ \A k \in Kinds : Offering(tk, k)
    /\ tk.pin_misses < Fallback

GoodTickets == {tk \in Record : Good(tk)}

Docs == [tickets : [Tickets -> GoodTickets], members : [Agents -> Member],
         marked : SUBSET Tickets]

\* The seats that take part in dispatch, and what a ticket is to one of them:
\* the ticket it works on, the one it reviews, one it is offered.
Plain == Explicit \ Operators
Working(tk, a) == PreSubmission(tk) /\ tk.claimed_by = a
Reviewing(tk, a) == tk.status = "submitted" /\ tk.reviewer = a /\ ReviewLeaseIsLive(tk)
Shows(tk, k, a) == tk.offer[k].agent = a /\ tk.offer[k].live
Job(tk, a) == Working(tk, a) \/ Reviewing(tk, a) \/ \E k \in Kinds : Shows(tk, k, a)

\* No seat has jobs on two tickets.
Apart(d) ==
    \A a \in Plain, t, u \in Tickets :
        Job(d.tickets[t], a) /\ Job(d.tickets[u], a) => t = u

\* What keeps a seat busy beside its offers: a work lease, even one that was left
\* on a canceled ticket, or a review lease.
Engages(tk, a) == Holds(tk, a) \/ (tk.reviewer = a /\ ReviewLeaseIsLive(tk))

\* If ticket u keeps the seat busy, the seat is offered no other ticket.
Clear(d, a, u) ==
    Engages(d.tickets[u], a) =>
      \A t \in Tickets \ {u}, k \in Kinds : ~Shows(d.tickets[t], k, a)

Unencumbered(d) == \A a \in Plain, u \in Tickets : Clear(d, a, u)

\* An offer stands only while the ticket waits for its kind of work, or while
\* somebody who is not bound by offers, and so not its seat, does it: then its
\* seat is not in S, the seats that are active.
Stands(tk, k, a, S) ==
    /\ ~tk.parked
    /\ IF k = "work"
         THEN tk.status = "open" \/ (PreSubmission(tk) /\ tk.claimed_by # a /\ a \notin S)
         ELSE tk.status = "submitted" /\ ~Reviewing(tk, a) /\ Independent(tk, a)

Placed(tk, k, S) == \A a \in Plain : Shows(tk, k, a) => Stands(tk, k, a, S)

Present(d) == {a \in Plain : IsActive(d, a)}

Separate(d) == Apart(d) /\ Unencumbered(d)

Seated(d) ==
    /\ Separate(d)
    /\ \A t \in Tickets, k \in Kinds : Placed(d.tickets[t], k, Present(d))

IInv == board \in Docs /\ board.marked = {} /\ Seated(board)

-----------------------------------------------------------------------------
(* Passes along a sequence *)

\* A set of naturals that is not empty has a least element.
LEMMA LeastNatural ==
    ASSUME NEW S, S \subseteq Nat, S # {}
    PROVE  \E x \in S : \A y \in S : x <= y
<1> DEFINE R == {ss \in Nat \X Nat : ss[1] < ss[2]}
<1>1. IsWellFoundedOn(R, Nat)
  BY NatLessThanWellFounded, Zenon DEF OpToRel
<1>2. \A x, y \in Nat : ~(<<y, x>> \in R) => x <= y
  OBVIOUS
<1> HIDE DEF R
<1>3. \E x \in S : \A y \in S : ~(<<y, x>> \in R)
  BY <1>1, WFMin
<1> QED
  BY <1>2, <1>3

\* A set that holds the start of a pass and is never left holds its end.
LEMMA Climb ==
    ASSUME NEW n \in Nat, NEW S, 0 \in S, \A i \in 1..n : i - 1 \in S => i \in S
    PROVE  n \in S
<1> SUFFICES ASSUME n \notin S PROVE FALSE
  OBVIOUS
<1> DEFINE Out == {i \in 0..n : i \notin S}
<1>1. PICK m \in Out : \A i \in Out : m <= i
  <2>1. Out \subseteq Nat /\ n \in Out
    OBVIOUS
  <2> HIDE DEF Out
  <2> QED BY <2>1, LeastNatural
<1>2. m \in 1..n /\ m - 1 \in 0..n /\ m - 1 \notin Out
  BY <1>1
<1> QED BY <1>1, <1>2

\* What holds at the start of a pass, and after a step if it did before, always does.
LEMMA PassStays ==
    ASSUME NEW n \in Nat, NEW X, NEW f, f[0] \in X,
           \A i \in 1..n : f[i - 1] \in X => f[i] \in X
    PROVE  \A i \in 0..n : f[i] \in X
<1> TAKE m \in 0..n
<1> DEFINE S == {i \in 0..m : f[i] \in X}
<1>1. 0 \in S
  OBVIOUS
<1>2. \A i \in 1..m : i - 1 \in S => i \in S
  OBVIOUS
<1>3. m \in S
  <2> HIDE DEF S
  <2> QED BY <1>1, <1>2, Climb
<1> QED BY <1>3

\* What f[i] is after i steps of a pass from d, where g takes the steps.
IsPass(f, n, X, d, g) ==
    f \in [0..n -> X] /\ f[0] = d /\ \A i \in 1..n : f[i] = g[<<f[i - 1], i>>]

\* A pass whose steps stay in a set exists.
LEMMA PassExists ==
    ASSUME NEW n \in Nat, NEW X, NEW d \in X, NEW g \in [X \X (1..n) -> X]
    PROVE  \E f : IsPass(f, n, X, d, g)
<1> DEFINE Passes(m) ==
             {f \in [0..m -> X] :
                f[0] = d /\ \A i \in 1..m : f[i] = g[<<f[i - 1], i>>]}
           S == {m \in 0..n : Passes(m) # {}}
<1>1. 0 \in S
  <2> DEFINE f == [i \in 0..0 |-> d]
  <2>1. f \in [0..0 -> X] /\ f[0] = d /\ 1..0 = {}
    OBVIOUS
  <2>2. f \in Passes(0)
    <3> HIDE DEF f
    <3> QED BY <2>1
  <2> HIDE DEF Passes
  <2> QED BY <2>2
<1>2. ASSUME NEW m \in 1..n, m - 1 \in S PROVE m \in S
  <2>1. PICK f \in Passes(m - 1) : TRUE
    <3> HIDE DEF Passes
    <3> QED BY <1>2
  <2> DEFINE h == [i \in 0..m |-> IF i = m THEN g[<<f[m - 1], m>>] ELSE f[i]]
  <2>2. f[m - 1] \in X /\ g[<<f[m - 1], m>>] \in X
    BY <2>1
  <2>3. h \in [0..m -> X] /\ h[0] = d
    BY <2>1, <2>2
  <2>4. ASSUME NEW i \in 1..m PROVE h[i] = g[<<h[i - 1], i>>]
    <3>1. CASE i = m
      <4>1. i \in 0..m /\ i - 1 \in 0..m /\ i - 1 # m
        BY <3>1
      <4>2. h[i] = g[<<f[m - 1], m>>] /\ h[i - 1] = f[i - 1]
        BY <3>1, <4>1
      <4> HIDE DEF h
      <4> QED BY <3>1, <4>2
    <3>2. CASE i # m
      <4>1. i \in 1..(m - 1) /\ i \in 0..m /\ i - 1 \in 0..m /\ i - 1 # m
        BY <3>2
      <4>2. f[i] = g[<<f[i - 1], i>>]
        BY <2>1, <4>1
      <4>3. h[i] = f[i] /\ h[i - 1] = f[i - 1]
        BY <3>2, <4>1
      <4> HIDE DEF h
      <4> QED BY <4>2, <4>3
    <3> QED BY <3>1, <3>2
  <2>5. h \in Passes(m)
    <3> HIDE DEF h
    <3> QED BY <2>3, <2>4
  <2> HIDE DEF Passes
  <2> QED BY <2>5
<1>3. n \in S
  <2> HIDE DEF S
  <2> QED BY <1>1, <1>2, Climb
<1>4. PICK f \in Passes(n) : TRUE
  <2> HIDE DEF Passes
  <2> QED BY <1>3
<1> QED BY <1>4 DEF IsPass

-----------------------------------------------------------------------------
(* What the dispatch engine does to one ticket *)

\* The owners of a ticket are left alone.
Kept(x, y) ==
    /\ y.status = x.status /\ y.submitted_by = x.submitted_by
    /\ y.reviewer = x.reviewer /\ y.review_lease = x.review_lease
    /\ y.reviewed_by = x.reviewed_by /\ (y.parked => x.parked)
    /\ \/ y.claimed_by = x.claimed_by /\ y.lease = x.lease
       \/ ~PreSubmission(x) /\ y.claimed_by = NoAgent /\ y.lease = "none"

\* Nobody is offered more than before.
Calm(x, y) == \A k \in Kinds, a \in Plain : Shows(y, k, a) => Shows(x, k, a)

\* What a move from x to the good ticket y is.
Tidied(x, y) == y \in GoodTickets /\ Kept(x, y) /\ Calm(x, y)

\* The seats are real ones.
LEMMA PlainFacts == Plain \subseteq Agents /\ Plain \subseteq Explicit /\ NoAgent \notin Plain
  BY DispatchAssumption DEF Plain

\* A broadcast begins or ends.
LEMMA BroadcastTidies ==
    ASSUME NEW x \in GoodTickets, NEW b \in {"no", "yes", "due"}
    PROVE  Tidied(x, [x EXCEPT !.broadcast = b])
<1> DEFINE y == [x EXCEPT !.broadcast = b]
<1>1. y \in Record
  BY DEF GoodTickets, Record
<1>2. Good(y)
  BY DEF GoodTickets, Good, Owned, Offering, Offered, Independent, PreSubmission, Record
<1>3. Kept(x, y) /\ Calm(x, y)
  BY DEF GoodTickets, Kept, Calm, Shows, Record
<1> QED BY <1>1, <1>2, <1>3 DEF Tidied, GoodTickets

\* What is left of a work lease that has ended is removed.
LEMMA ReconcileTidies ==
    ASSUME NEW x \in GoodTickets, work_ownership_needs_reconcile(x)
    PROVE  Tidied(x, WithoutWorkLease(x))
<1> DEFINE y == WithoutWorkLease(x)
<1>1. y \in Record
  <2> DEFINE last == IF x.claimed_by # NoAgent THEN x.claimed_by ELSE x.last_claimed_by
  <2>1. last \in Someone /\ NoAgent \in Someone /\ "none" \in Leases /\ x \in Record
    BY DEF GoodTickets, Record, Someone, Leases
  <2>2. y = [x EXCEPT !.last_claimed_by = last, !.claimed_by = NoAgent, !.lease = "none"]
    BY <2>1 DEF WithoutWorkLease, Record
  <2> HIDE DEF last, y
  <2> QED BY <2>1, <2>2 DEF Record
<1>2. ~PreSubmission(x)
  BY DEF work_ownership_needs_reconcile, Inactive, PreSubmission,
         PRE_SUBMISSION_STATES, TERMINAL_TICKET_STATES
<1>3. Good(y)
  <2>1. Owned(y)
    BY <1>2 DEF GoodTickets, Good, Owned, Independent, PreSubmission, Record, WithoutWorkLease
  <2>2. ASSUME NEW k \in Kinds PROVE Offering(y, k)
    BY DEF GoodTickets, Good, Offering, Offered, Record, WithoutWorkLease
  <2>3. y.pin_misses < Fallback
    BY DEF GoodTickets, Good, Record, WithoutWorkLease
  <2> QED BY <2>1, <2>2, <2>3 DEF Good
<1>4. Kept(x, y) /\ Calm(x, y)
  BY <1>2 DEF GoodTickets, Kept, Calm, Shows, Record, WithoutWorkLease
<1> QED BY <1>1, <1>3, <1>4 DEF Tidied, GoodTickets

\* An offer is taken back.
LEMMA RevokeTidies ==
    ASSUME NEW x \in GoodTickets, NEW k \in Kinds
    PROVE  Tidied(x, Revoke(x, k))
<1> DEFINE y == Revoke(x, k)
<1>1. y \in Record
  BY DEF GoodTickets, Record, Revoke, NoOffer, Offer, Someone
<1>2. Good(y)
  BY DEF GoodTickets, Good, Owned, Offering, Offered, Independent, PreSubmission,
         Record, Revoke, NoOffer
<1>3. Kept(x, y) /\ Calm(x, y)
  BY DEF GoodTickets, Kept, Calm, Shows, Record, Revoke, NoOffer
<1> QED BY <1>1, <1>2, <1>3 DEF Tidied, GoodTickets

\* A new dispatch cycle begins.
LEMMA NewCycleTidies ==
    ASSUME NEW x \in GoodTickets, NEW k \in Kinds
    PROVE  /\ Tidied(x, NewCycle(x, k))
           /\ NewCycle(x, k).expirations[k] = 0
           /\ NewCycle(x, k).pin_misses = x.pin_misses
<1> DEFINE y == NewCycle(x, k)
<1>1. y \in Record
  <2> DEFINE c == x.offer[k] = NoOffer
             o == [x.offer EXCEPT ![k].current = c]
  <2>1. x \in Record /\ c \in BOOLEAN /\ 0 \in 0..Fallback
    BY DispatchAssumption DEF GoodTickets
  <2>2. x.offer \in [Kinds -> Offer]
    BY <2>1 DEF Record
  <2>3. o \in [Kinds -> Offer]
    <3> HIDE DEF c
    <3> QED BY <2>1, <2>2 DEF Offer
  <2>4. y = [x EXCEPT !.tried[k] = {}, !.expirations[k] = 0, !.offer = o]
    BY <2>1 DEF NewCycle, Record
  <2> HIDE DEF o, y
  <2> QED BY <2>1, <2>3, <2>4 DEF Record
<1>2. Good(y)
  <2>1. Owned(y)
    BY DEF GoodTickets, Good, Owned, Independent, PreSubmission, Record, NewCycle
  <2>2. ASSUME NEW j \in Kinds PROVE Offering(y, j)
    <3>1. CASE j = k
      BY <3>1, DispatchAssumption DEF GoodTickets, Good, Offering, Offered, Record, NewCycle,
           NoOffer, Offer
    <3>2. CASE j # k
      BY <3>2 DEF GoodTickets, Good, Offering, Offered, Record, NewCycle
    <3> QED BY <3>1, <3>2
  <2>3. y.pin_misses < Fallback
    BY DEF GoodTickets, Good, Record, NewCycle
  <2> QED BY <2>1, <2>2, <2>3 DEF Good
<1>3. Kept(x, y) /\ y.expirations[k] = 0 /\ y.pin_misses = x.pin_misses
  BY DEF GoodTickets, Kept, Record, NewCycle
<1>4. Calm(x, y)
  BY DEF GoodTickets, Calm, Shows, Record, Offer, NewCycle
<1> QED BY <1>1, <1>2, <1>3, <1>4 DEF Tidied, GoodTickets

\* Moves of the same ticket compose.
LEMMA TidiedTwice ==
    ASSUME NEW x, NEW y, NEW z, Tidied(x, y), Tidied(y, z)
    PROVE  Tidied(x, z)
  BY DEF Tidied, Kept, Calm, PreSubmission

\* A ticket that nobody touches stays as it is.
LEMMA TidiedSame == ASSUME NEW x \in GoodTickets PROVE Tidied(x, x)
  BY DEF Tidied, Kept, Calm

\* A pin is released, or the misses of its seat are counted.
LEMMA PinTidies ==
    ASSUME NEW x \in GoodTickets, NEW m \in 0..Fallback, m < Fallback
    PROVE  /\ Tidied(x, [x EXCEPT !.pin_misses = m])
           /\ Tidied(x, [x EXCEPT !.assigned_to = NoAgent, !.pin_misses = m])
<1> DEFINE y == [x EXCEPT !.pin_misses = m]
           z == [x EXCEPT !.assigned_to = NoAgent, !.pin_misses = m]
<1>1. y \in Record /\ z \in Record
  <2>1. x \in Record /\ NoAgent \in Someone
    BY DEF GoodTickets, Someone
  <2>2. y \in Record
    BY <2>1 DEF Record
  <2>3. z \in Record
    BY <2>1 DEF Record
  <2> QED BY <2>2, <2>3
<1>2. Good(y)
  BY DEF GoodTickets, Good, Owned, Offering, Offered, Independent, PreSubmission, Record
<1>3. Good(z)
  BY DEF GoodTickets, Good, Owned, Offering, Offered, Independent, PreSubmission, Record
<1>4. Kept(x, y) /\ Kept(x, z) /\ Calm(x, y) /\ Calm(x, z)
  BY DEF GoodTickets, Kept, Calm, Shows, Record
<1> QED BY <1>1, <1>2, <1>3, <1>4 DEF Tidied, GoodTickets

\* A seat that was not tried and that the pin allows gets an offer.
LEMMA OfferTidies ==
    ASSUME NEW x \in GoodTickets, NEW k \in Kinds, NEW a \in Agents \ x.tried[k],
           x.expirations[k] < Fallback, x.status # "missing", a \in Able(k),
           k = "work" => x.assigned_to \in {NoAgent, a}, NEW m \in {0, x.pin_misses}
    PROVE  LET y == [x EXCEPT !.offer[k] = [agent |-> a, live |-> TRUE, current |-> TRUE],
                              !.broadcast = "no",
                              !.pin_misses = m]
           IN  /\ y \in GoodTickets /\ Kept(x, y)
               /\ \A j \in Kinds, b \in Plain :
                    Shows(y, j, b) => Shows(x, j, b) \/ (j = k /\ b = a)
<1> DEFINE new == [agent |-> a, live |-> TRUE, current |-> TRUE]
           o == [x.offer EXCEPT ![k] = new]
           y == [x EXCEPT !.offer[k] = new, !.broadcast = "no", !.pin_misses = m]
<1>1. x \in Record /\ new \in Offer /\ m \in 0..Fallback /\ m < Fallback
  BY DispatchAssumption DEF GoodTickets, Good, Record, Offer, Someone
<1>2. o \in [Kinds -> Offer]
  <2> HIDE DEF new
  <2> QED BY <1>1 DEF Record
<1>3. y = [x EXCEPT !.offer = o, !.broadcast = "no", !.pin_misses = m]
  BY <1>1 DEF Record
<1>4. y \in Record
  <2> HIDE DEF o, y
  <2> QED BY <1>1, <1>2, <1>3 DEF Record
<1>5. Good(y)
  <2>1. Owned(y)
    BY <1>1 DEF GoodTickets, Good, Owned, Independent, PreSubmission, Record
  <2>2. ASSUME NEW j \in Kinds PROVE Offering(y, j)
    <3>1. CASE j = k
      <4>1. /\ y.offer[k] = new /\ y.expirations = x.expirations /\ y.tried = x.tried
            /\ y.assigned_to = x.assigned_to /\ y.status = x.status
        BY <1>1 DEF Record
      <4>2. a # NoAgent
        BY DispatchAssumption
      <4> HIDE DEF y
      <4> QED BY <3>1, <4>1, <4>2 DEF Offering, Offered
    <3>2. CASE j # k
      BY <1>1, <3>2 DEF GoodTickets, Good, Offering, Offered, Record
    <3> QED BY <3>1, <3>2
  <2>3. y.pin_misses < Fallback
    BY <1>1 DEF Record
  <2> QED BY <2>1, <2>2, <2>3 DEF Good
<1>6. Kept(x, y)
  BY <1>1 DEF Kept, Record
<1>7. \A j \in Kinds, b \in Plain : Shows(y, j, b) => Shows(x, j, b) \/ (j = k /\ b = a)
  <2>1. y.offer = [x.offer EXCEPT ![k] = new] /\ x.offer \in [Kinds -> Offer] /\ new.agent = a
    BY <1>1 DEF Record
  <2> HIDE DEF y, new
  <2> QED BY <2>1 DEF Shows
<1>8. y \in GoodTickets
  <2> HIDE DEF y
  <2> QED BY <1>4, <1>5 DEF GoodTickets
<1> QED BY <1>6, <1>7, <1>8

\* An offer lapses and is counted.
LEMMA ExpireTidies ==
    ASSUME NEW x \in GoodTickets, NEW k \in Kinds, Offered(x, k)
    PROVE  Tidied(x, ExpireOffer(x, k))
<1> DEFINE y == ExpireOffer(x, k)
           a == x.offer[k].agent
           o == [x.offer EXCEPT ![k] = NoOffer]
           n == [x.expirations EXCEPT ![k] = x.expirations[k] + 1]
           tried == [x.tried EXCEPT ![k] =
                       IF x.offer[k].current THEN x.tried[k] \cup {a} ELSE x.tried[k]]
<1>1. x \in Record /\ a \in Agents /\ x.expirations[k] + 1 \in 0..Fallback
  BY DispatchAssumption DEF GoodTickets, Good, Offering, Offered, Record, Offer, Someone
<1>2. o \in [Kinds -> Offer]
  BY <1>1 DEF Record, NoOffer, Offer, Someone
<1>3. n \in [Kinds -> 0..Fallback] /\ [x.last_offered EXCEPT ![k] = a] \in [Kinds -> Someone]
  BY <1>1 DEF Record, Someone
<1>4. tried \in [Kinds -> SUBSET Agents]
  BY <1>1 DEF Record
<1>5. y = [x EXCEPT !.offer = o, !.last_offered = [@ EXCEPT ![k] = a],
                    !.expirations = n, !.tried = tried]
  BY <1>1 DEF ExpireOffer, Record
<1>6. y \in Record
  <2> HIDE DEF o, n, tried, y, a
  <2> QED BY <1>1, <1>2, <1>3, <1>4, <1>5 DEF Record
<1>7. Good(y)
  <2>1. Owned(y)
    BY <1>1 DEF GoodTickets, Good, Owned, Independent, PreSubmission, Record, ExpireOffer
  <2>2. ASSUME NEW j \in Kinds PROVE Offering(y, j)
    <3>1. CASE j = k
      BY <1>1, <3>1 DEF Offering, Offered, Record, ExpireOffer, NoOffer
    <3>2. CASE j # k
      BY <1>1, <3>2 DEF GoodTickets, Good, Offering, Offered, Record, ExpireOffer
    <3> QED BY <3>1, <3>2
  <2>3. y.pin_misses < Fallback
    BY <1>1 DEF GoodTickets, Good, Record, ExpireOffer
  <2> QED BY <2>1, <2>2, <2>3 DEF Good
<1>8. Kept(x, y) /\ Calm(x, y)
  BY <1>1 DEF Kept, Calm, Shows, Record, ExpireOffer, NoOffer
<1> QED BY <1>6, <1>7, <1>8 DEF Tidied, GoodTickets

-----------------------------------------------------------------------------
(* Dispatching one ticket *)

\* The ticket waits for its kind of work.
Suits(tk, k) ==
    /\ tk.status = WantedStatus(k) /\ ~tk.parked
    /\ k = "review" => ~ReviewLeaseIsLive(tk)

\* ... and the seat may do it.
Welcomes(tk, k, a) == Suits(tk, k) /\ (k = "review" => Independent(tk, a))

\* A seat that is offered the ticket now was so before, or was free for it.
Grants(d, t, e) ==
    \A k \in Kinds, a \in Plain :
        Shows(e.tickets[t], k, a) =>
          \/ Shows(d.tickets[t], k, a)
          \/ ~agent_is_busy(d, a, t) /\ Welcomes(e.tickets[t], k, a)

\* The document after a move of ticket t that keeps its owners.
Tends(d, t, e) ==
    /\ e \in Docs /\ e.members = d.members
    /\ \A u \in Tickets \ {t} : e.tickets[u] = d.tickets[u]
    /\ Kept(d.tickets[t], e.tickets[t])
    /\ Grants(d, t, e)

\* Whether a seat is free for a ticket does not depend on that ticket.
LEMMA SameBusy ==
    ASSUME NEW d, NEW e, NEW t, NEW a,
           \A u \in Tickets \ {t} : e.tickets[u] = d.tickets[u]
    PROVE  agent_is_busy(e, a, t) = agent_is_busy(d, a, t)
  BY DEF agent_is_busy

\* A good ticket put into a good document.
LEMMA SetTicket ==
    ASSUME NEW d \in Docs, NEW t \in Tickets, NEW y, Tidied(d.tickets[t], y),
           NEW e, e = [d EXCEPT !.tickets[t] = y]
    PROVE  Tends(d, t, e) /\ e.tickets[t] = y /\ e.marked = d.marked
  BY DEF Docs, Tends, Tidied, Grants, Calm

\* The tickets of a document are good.
LEMMA DocTicket == ASSUME NEW d \in Docs, NEW t \in Tickets PROVE d.tickets[t] \in GoodTickets
  BY DEF Docs

\* Moves of one ticket compose, and one that does nothing is one.
LEMMA TendsTwice ==
    ASSUME NEW d, NEW e, NEW f, NEW t, Tends(d, t, e), Tends(e, t, f)
    PROVE  Tends(d, t, f)
<1>1. Kept(d.tickets[t], f.tickets[t])
  BY DEF Tends, Kept, PreSubmission
<1>2. ASSUME NEW k \in Kinds, NEW a \in Plain, Shows(f.tickets[t], k, a)
      PROVE  \/ Shows(d.tickets[t], k, a)
             \/ ~agent_is_busy(d, a, t) /\ Welcomes(f.tickets[t], k, a)
  <2>1. agent_is_busy(e, a, t) = agent_is_busy(d, a, t)
    BY SameBusy DEF Tends
  <2>2. Welcomes(e.tickets[t], k, a) => Welcomes(f.tickets[t], k, a)
    BY DEF Tends, Kept, Welcomes, Suits, ReviewLeaseIsLive, Independent
  <2> QED BY <1>2, <2>1, <2>2 DEF Tends, Grants
<1> QED BY <1>1, <1>2 DEF Tends, Grants

LEMMA TendsSame == ASSUME NEW d \in Docs, NEW t PROVE Tends(d, t, d)
  BY DEF Tends, Kept, Grants

\* Marks are no part of a ticket.
LEMMA MarkedTends ==
    ASSUME NEW d, NEW e, NEW t, Tends(d, t, e), NEW m \in SUBSET Tickets
    PROVE  Tends(d, t, [e EXCEPT !.marked = m])
  BY DEF Tends, Docs, Grants

LEMMA ReconcileTends ==
    ASSUME NEW d \in Docs, NEW t \in Tickets
    PROVE  Tends(d, t, reconcile_inactive_work_ownership(d, t))
<1>1. CASE work_ownership_needs_reconcile(d.tickets[t])
  <2>1. reconcile_inactive_work_ownership(d, t)
          = [d EXCEPT !.tickets[t] = WithoutWorkLease(d.tickets[t])]
    BY <1>1 DEF reconcile_inactive_work_ownership, Docs
  <2>2. Tidied(d.tickets[t], WithoutWorkLease(d.tickets[t]))
    BY <1>1, DocTicket, ReconcileTidies
  <2> QED BY <2>1, <2>2, SetTicket
<1>2. CASE ~work_ownership_needs_reconcile(d.tickets[t])
  BY <1>2, TendsSame DEF reconcile_inactive_work_ownership
<1> QED BY <1>1, <1>2

LEMMA BroadcastTends ==
    ASSUME NEW d \in Docs, NEW t \in Tickets, NEW b \in {"no", "yes", "due"}
    PROVE  Tends(d, t, SetBroadcast(d, t, b))
<1>1. SetBroadcast(d, t, b) = [d EXCEPT !.tickets[t] = [d.tickets[t] EXCEPT !.broadcast = b]]
  BY DEF SetBroadcast, Docs
<1>2. Tidied(d.tickets[t], [d.tickets[t] EXCEPT !.broadcast = b])
  BY DocTicket, BroadcastTidies
<1> QED BY <1>1, <1>2, SetTicket

\* A new cycle of ticket t, with or without its pin.
LEMMA NewCycleTends ==
    ASSUME NEW d \in Docs, NEW t \in Tickets, NEW k \in Kinds
    PROVE  LET e == [d EXCEPT !.tickets[t] = NewCycle(@, k)]
           IN  Tends(d, t, e) /\ ~Spent(e, t, k)
<1> DEFINE x == d.tickets[t]
           y == NewCycle(x, k)
           e == [d EXCEPT !.tickets[t] = y]
<1>1. Tidied(x, y) /\ y.expirations[k] = 0
  BY DocTicket, NewCycleTidies
<1>2. Tends(d, t, e) /\ e.tickets[t] = y
  <2> HIDE DEF y
  <2> QED BY <1>1 DEF Docs, Tends, Tidied, Grants, Calm
<1>3. [d EXCEPT !.tickets[t] = NewCycle(@, k)] = e
  BY DEF Docs
<1>4. ~Spent(e, t, k)
  <2> HIDE DEF y, e
  <2> QED BY <1>1, <1>2, DispatchAssumption DEF Spent
<1> QED BY <1>2, <1>3, <1>4

LEMMA ReleasePinTends ==
    ASSUME NEW d \in Docs, NEW t \in Tickets
    PROVE  LET e == release_assignment_pin(d, t)
           IN  /\ Tends(d, t, e) /\ ~Spent(e, t, "work")
               /\ e.marked = d.marked
<1> DEFINE x == d.tickets[t]
           z == [x EXCEPT !.assigned_to = NoAgent, !.pin_misses = 0]
           y == NewCycle(z, "work")
           e == [d EXCEPT !.tickets[t] = y]
<1>1. x \in GoodTickets /\ Tidied(x, z) /\ "work" \in Kinds
  <2>1. x \in GoodTickets /\ "work" \in Kinds /\ 0 \in 0..Fallback /\ 0 < Fallback
    BY DocTicket, DispatchAssumption DEF Kinds
  <2> HIDE DEF x
  <2> QED BY <2>1, PinTidies
<1>2. Tidied(z, y) /\ y.expirations["work"] = 0
  <2> HIDE DEF z
  <2> QED BY <1>1, NewCycleTidies DEF Tidied
<1>3. Tends(d, t, e) /\ e.tickets[t] = y /\ e.marked = d.marked
  <2>1. Tidied(x, y)
    <3> HIDE DEF x, y, z
    <3> QED BY <1>1, <1>2, TidiedTwice
  <2> HIDE DEF y
  <2> QED BY <2>1 DEF Docs, Tends, Tidied, Grants, Calm
<1>4. release_assignment_pin(d, t) = e
  BY DEF release_assignment_pin, Docs
<1>5. ~Spent(e, t, "work")
  <2> HIDE DEF y, e, z
  <2> QED BY <1>1, <1>2, <1>3, DispatchAssumption DEF Spent
<1> QED BY <1>3, <1>4, <1>5

\* A ticket whose owners are kept suits as before.
LEMMA KeptSuits ==
    ASSUME NEW x, NEW y, Kept(x, y), NEW k, Suits(x, k)
    PROVE  Suits(y, k)
  BY DEF Kept, Suits, ReviewLeaseIsLive

\* The seats an offer may go to.
Fit(d, t, k) ==
    {a \in Agents \ d.tickets[t].tried[k] : dispatch_candidate_is_eligible(d, t, a, k)}

LEMMA CandidatesFit ==
    ASSUME NEW d, NEW t, NEW k, NEW preferred
    PROVE  Candidates(d, t, k, preferred) \subseteq Fit(d, t, k)
  BY DEF Candidates, WithoutAvoided, Fit

LEMMA SelectedFits ==
    ASSUME NEW candidates, candidates # {}, NEW preferred, NEW first
    PROVE  Selected(candidates, preferred, first) \in candidates
  BY DEF Selected

LEMMA MakeOfferTends ==
    ASSUME NEW d \in Docs, NEW t \in Tickets, NEW k \in Kinds, NEW a \in Fit(d, t, k),
           ~Spent(d, t, k), Suits(d.tickets[t], k)
    PROVE  Tends(d, t, MakeOffer(d, t, k, a))
<1> DEFINE x == d.tickets[t]
           m == IF k = "work" THEN 0 ELSE x.pin_misses
           y == [x EXCEPT !.offer[k] = [agent |-> a, live |-> TRUE, current |-> TRUE],
                          !.broadcast = "no", !.pin_misses = m]
           e == [d EXCEPT !.tickets[t] = y]
           marked == IF k = "work" THEN d.marked \ {t} ELSE d.marked
<1>1. x \in GoodTickets /\ a \in Agents \ x.tried[k] /\ x.status # "missing"
  BY DocTicket DEF Fit, Suits, WantedStatus
<1>2. x.expirations[k] < Fallback
  BY <1>1, DispatchAssumption DEF Spent, GoodTickets, Record
<1>3. k = "work" => x.assigned_to \in {NoAgent, a}
  BY DEF Fit, dispatch_candidate_is_eligible, dispatch_member_matches_requirements
<1>7. k = "review" => Independent(x, a)
  BY DEF Fit, dispatch_candidate_is_eligible, dispatch_member_matches_requirements
<1>8. a \in Able(k)
  BY DEF Fit, dispatch_candidate_is_eligible, dispatch_member_matches_requirements,
         Able, Kinds
<1>4. /\ y \in GoodTickets /\ Kept(x, y)
      /\ \A j \in Kinds, b \in Plain : Shows(y, j, b) => Shows(x, j, b) \/ (j = k /\ b = a)
  <2>1. m \in {0, x.pin_misses}
    OBVIOUS
  <2> HIDE DEF x, m
  <2> QED BY ZenonT(30), <1>1, <1>2, <1>3, <1>8, <2>1, OfferTidies
<1>5. Tends(d, t, e) /\ marked \in SUBSET Tickets
  <2>1. ~agent_is_busy(d, a, t)
    BY DEF Fit, dispatch_candidate_is_eligible
  <2>2. Welcomes(y, k, a)
    <3> HIDE DEF y
    <3> QED BY <1>7, <1>4, KeptSuits DEF Welcomes, Independent, Kept
  <2>3. e.tickets[t] = y
    BY DEF Docs
  <2>4. Grants(d, t, e)
    <3> HIDE DEF y, e
    <3> QED BY <1>4, <2>1, <2>2, <2>3 DEF Grants
  <2> HIDE DEF y
  <2> QED BY <1>4, <2>4 DEF Docs, Tends
<1>6. MakeOffer(d, t, k, a) = [e EXCEPT !.marked = marked]
  <2>1. NewOffer(x, k, a) = y
    BY <1>1 DEF NewOffer, GoodTickets, Record
  <2> HIDE DEF y
  <2> QED BY <2>1 DEF MakeOffer, Docs
<1> QED
  <2> HIDE DEF e, marked
  <2> QED BY <1>5, <1>6, MarkedTends

LEMMA OfferOrBroadcastTends ==
    ASSUME NEW d \in Docs, NEW t \in Tickets, NEW k \in Kinds,
           NEW candidates \in SUBSET Fit(d, t, k), NEW preferred, NEW first, NEW reoffer,
           ~Spent(d, t, k), Suits(d.tickets[t], k)
    PROVE  Tends(d, t, OfferOrBroadcast(candidates, d, t, k, preferred, first, reoffer))
<1>1. CASE candidates # {}
  <2> DEFINE a == Selected(candidates, preferred, first[t])
  <2>1. a \in Fit(d, t, k)
    BY <1>1, SelectedFits
  <2>2. OfferOrBroadcast(candidates, d, t, k, preferred, first, reoffer) = MakeOffer(d, t, k, a)
    BY <1>1 DEF OfferOrBroadcast
  <2> HIDE DEF a
  <2> QED BY <2>1, <2>2, MakeOfferTends
<1>2. CASE candidates = {}
  <2> DEFINE b == IF reoffer \/ d.tickets[t].expirations[k] > 0 THEN "yes" ELSE "no"
  <2>1. OfferOrBroadcast(candidates, d, t, k, preferred, first, reoffer) = SetBroadcast(d, t, b)
    BY <1>2 DEF OfferOrBroadcast
  <2>2. b \in {"no", "yes", "due"}
    OBVIOUS
  <2> HIDE DEF b
  <2> QED BY <2>1, <2>2, BroadcastTends
<1> QED BY <1>1, <1>2

\* A pin that cannot be served is counted, and released when it has missed often.
LEMMA MissedPinIs ==
    ASSUME NEW d \in Docs, NEW t \in Tickets, NEW first, NEW reoffer
    PROVE  LET c == CountPinMiss(d, t)
               s == [release_assignment_pin(d, t) EXCEPT !.marked = d.marked \cup {t}]
               e == ReleaseMissedPin(c, t, first, reoffer)
           IN  IF c.tickets[t].pin_misses < Fallback
                 THEN e = SetBroadcast(c, t, "no")
                 ELSE e = OfferUnpinned(s, t, NoAgent, first, reoffer)
<1> DEFINE x == d.tickets[t]
           c == CountPinMiss(d, t)
           m == x.pin_misses + 1
           marked == d.marked \cup {t}
           r == release_assignment_pin(d, t)
           s == [r EXCEPT !.marked = marked]
           e == ReleaseMissedPin(c, t, first, reoffer)
<1>1. x.pin_misses \in 0..Fallback /\ x.pin_misses < Fallback /\ Fallback \in Nat \ {0}
  BY DocTicket, DispatchAssumption DEF GoodTickets, Good, Record
<1>2. c.tickets[t].pin_misses \in Nat
  BY <1>1 DEF CountPinMiss, Docs, GoodTickets, Record
<1>3. CASE c.tickets[t].pin_misses < Fallback
  BY <1>1, <1>2, <1>3 DEF ReleaseMissedPin
<1>4. CASE ~(c.tickets[t].pin_misses < Fallback)
  <2>1. t \notin d.marked
    BY <1>1, <1>4 DEF CountPinMiss
  <2>2. release_assignment_pin(c, t) = s
    <3> DEFINE y == [x EXCEPT !.pin_misses = m]
               z == [x EXCEPT !.assigned_to = NoAgent, !.pin_misses = 0]
    <3>1. c = [d EXCEPT !.tickets = [d.tickets EXCEPT ![t] = y], !.marked = marked]
      BY <2>1 DEF CountPinMiss, Docs
    <3>2. [y EXCEPT !.assigned_to = NoAgent, !.pin_misses = 0] = z
      BY <1>1 DEF GoodTickets, Record
    <3>3. c.tickets[t] = y
      <4> HIDE DEF c, y
      <4> QED BY <3>1 DEF Docs
    <3>4. release_assignment_pin(c, t)
            = [d EXCEPT !.tickets = [d.tickets EXCEPT ![t] = NewCycle(z, "work")],
                        !.marked = marked]
      <4> HIDE DEF c, y, z, marked
      <4> QED BY <3>1, <3>2, <3>3 DEF release_assignment_pin, Docs
    <3>5. r = [d EXCEPT !.tickets = [d.tickets EXCEPT ![t] = NewCycle(z, "work")]]
      BY DEF release_assignment_pin, Docs
    <3> HIDE DEF c, z, r, marked
    <3> QED BY <3>4, <3>5 DEF Docs
  <2>3. e = OfferUnpinned(s, t, NoAgent, first, reoffer)
    <3> HIDE DEF c, s
    <3> QED BY <1>1, <1>2, <1>4, <2>2 DEF ReleaseMissedPin
  <2> HIDE DEF e, c, s, r, marked
  <2> QED BY <1>4, <2>3 DEF c, s, r, marked, e
<1> QED BY <1>3, <1>4

LEMMA MissedPinTends ==
    ASSUME NEW d \in Docs, NEW t \in Tickets, NEW first, NEW reoffer,
           ~Spent(d, t, "work"), Suits(d.tickets[t], "work")
    PROVE  Tends(d, t, ReleaseMissedPin(CountPinMiss(d, t), t, first, reoffer))
<1> DEFINE x == d.tickets[t]
           c == CountPinMiss(d, t)
           m == x.pin_misses + 1
           e == [d EXCEPT !.tickets[t] = [x EXCEPT !.pin_misses = m]]
           marked == d.marked \cup {t}
<1>1. x \in GoodTickets /\ x.pin_misses \in 0..Fallback /\ x.pin_misses < Fallback
      /\ Fallback \in Nat \ {0} /\ "work" \in Kinds
  BY DocTicket, DispatchAssumption DEF GoodTickets, Good, Record, Kinds
<1>2. CASE c.tickets[t].pin_misses < Fallback
  <2>1. ReleaseMissedPin(c, t, first, reoffer) = SetBroadcast(c, t, "no")
    BY <1>2, MissedPinIs
  <2>2. Tends(d, t, c)
    <3>1. CASE t \in d.marked
      BY <3>1, TendsSame DEF CountPinMiss
    <3>2. CASE t \notin d.marked
      <4>1. c = [e EXCEPT !.marked = marked]
        BY <3>2 DEF CountPinMiss, Docs
      <4>2. m \in 0..Fallback /\ m < Fallback
        BY <1>1, <1>2, <3>2 DEF CountPinMiss, Docs, GoodTickets, Record
      <4>3. Tidied(x, [x EXCEPT !.pin_misses = m])
        <5> HIDE DEF x, m
        <5> QED BY <1>1, <4>2, PinTidies
      <4>4. Tends(d, t, e) /\ marked \in SUBSET Tickets
        BY <4>3 DEF Docs, Tends, Tidied, Grants, Calm
      <4> HIDE DEF e, c, marked
      <4> QED BY <4>1, <4>4, MarkedTends
    <3> QED BY <3>1, <3>2
  <2>3. Tends(c, t, SetBroadcast(c, t, "no"))
    <3> HIDE DEF c
    <3> QED BY <2>2, BroadcastTends DEF Tends
  <2> QED BY <2>1, <2>2, <2>3, TendsTwice
<1>3. CASE ~(c.tickets[t].pin_misses < Fallback)
  <2> DEFINE r == release_assignment_pin(d, t)
             s == [r EXCEPT !.marked = marked]
             o == OfferUnpinned(s, t, NoAgent, first, reoffer)
  <2>1. ReleaseMissedPin(c, t, first, reoffer) = o
    BY <1>3, MissedPinIs
  <2>2. Tends(d, t, r) /\ ~Spent(r, t, "work")
    BY ReleasePinTends
  <2>3. Tends(d, t, s) /\ ~Spent(s, t, "work") /\ Suits(s.tickets[t], "work")
    <3>1. marked \in SUBSET Tickets
      BY DEF Docs
    <3>2. Tends(d, t, s)
      <4> HIDE DEF r, marked
      <4> QED BY <2>2, <3>1, MarkedTends
    <3>3. s.tickets = r.tickets
      <4>1. r \in Docs
        BY <2>2 DEF Tends
      <4> HIDE DEF r, marked
      <4> QED BY <4>1 DEF Docs
    <3> HIDE DEF r, s
    <3>4. Suits(s.tickets[t], "work")
      BY <3>2, KeptSuits DEF Tends
    <3> QED BY <2>2, <3>2, <3>3, <3>4 DEF Spent
  <2>4. Tends(s, t, o)
    <3> HIDE DEF s
    <3>1. s \in Docs
      BY <2>3 DEF Tends
    <3>2. Candidates(s, t, "work", NoAgent) \in SUBSET Fit(s, t, "work")
      BY CandidatesFit
    <3> QED BY <1>1, <2>3, <3>1, <3>2, OfferOrBroadcastTends DEF OfferUnpinned
  <2> HIDE DEF s, o
  <2> QED BY <2>1, <2>3, <2>4, TendsTwice
<1> QED BY <1>2, <1>3

LEMMA ServeTends ==
    ASSUME NEW d \in Docs, NEW t \in Tickets, NEW k \in Kinds,
           NEW preferred, NEW first, NEW reoffer,
           ~Spent(d, t, k), Suits(d.tickets[t], k)
    PROVE  Tends(d, t, Serve(d, t, k, preferred, first, reoffer))
<1> DEFINE candidates == Candidates(d, t, k, preferred)
<1>1. candidates \in SUBSET Fit(d, t, k)
  BY CandidatesFit
<1>2. CASE Pinned(d, t, k) /\ candidates = {}
  <2>1. k = "work"
    BY <1>2 DEF Pinned
  <2>2. Serve(d, t, k, preferred, first, reoffer)
          = ReleaseMissedPin(CountPinMiss(d, t), t, first, reoffer)
    BY <1>2 DEF Serve, ServeOrMissPin
  <2> QED BY <2>1, <2>2, MissedPinTends
<1>3. CASE ~(Pinned(d, t, k) /\ candidates = {})
  <2>1. Serve(d, t, k, preferred, first, reoffer)
          = OfferOrBroadcast(candidates, d, t, k, preferred, first, reoffer)
    BY <1>3 DEF Serve, ServeOrMissPin
  <2> HIDE DEF candidates
  <2> QED BY <1>1, <2>1, OfferOrBroadcastTends
<1> QED BY <1>2, <1>3

LEMMA FallBackTends ==
    ASSUME NEW d \in Docs, NEW t \in Tickets, NEW k \in Kinds,
           NEW preferred, NEW first, NEW reoffer,
           Suits(d.tickets[t], k)
    PROVE  Tends(d, t, ServeOrFallBack(d, t, k, preferred, first, reoffer))
<1>1. CASE Spent(d, t, k) /\ ~Pinned(d, t, k)
  <2>1. ServeOrFallBack(d, t, k, preferred, first, reoffer) = SetBroadcast(d, t, "yes")
    BY <1>1 DEF ServeOrFallBack
  <2> QED BY <2>1, BroadcastTends
<1>2. CASE Spent(d, t, k) /\ Pinned(d, t, k)
  <2> DEFINE r == release_assignment_pin(d, t)
             e == Serve(r, t, k, preferred, first, reoffer)
  <2>1. ServeOrFallBack(d, t, k, preferred, first, reoffer) = e
    BY <1>2 DEF ServeOrFallBack
  <2>2. k = "work"
    BY <1>2 DEF Pinned
  <2>3. Tends(d, t, r) /\ ~Spent(r, t, k) /\ Suits(r.tickets[t], k)
    BY <2>2, ReleasePinTends, KeptSuits DEF Tends
  <2>4. Tends(r, t, e)
    <3> HIDE DEF r
    <3> QED BY <2>3, ServeTends DEF Tends
  <2> QED BY <2>1, <2>3, <2>4, TendsTwice
<1>3. CASE ~Spent(d, t, k)
  <2>1. ServeOrFallBack(d, t, k, preferred, first, reoffer)
          = Serve(d, t, k, preferred, first, reoffer)
    BY <1>3 DEF ServeOrFallBack
  <2> QED BY <1>3, <2>1, ServeTends
<1> QED BY <1>1, <1>2, <1>3

\* Whatever dispatch does to a ticket leaves its owners alone.
LEMMA DispatchTends ==
    ASSUME NEW d \in Docs, NEW t \in Tickets, NEW k \in Kinds, NEW preferred, NEW first
    PROVE  Tends(d, t, dispatch_ticket(d, t, k, preferred, first))
<1> DEFINE r == reconcile_inactive_work_ownership(d, t)
           due == d.tickets[t].broadcast = "due"
           e == DispatchClean(r, t, k, preferred, first, due)
<1>1. Tends(d, t, r) /\ r \in Docs
  BY ReconcileTends DEF Tends
<1>2. Tends(r, t, e)
  <2> HIDE DEF r, due
  <2>1. CASE ~Dispatchable(r, t, k)
    BY <1>1, <2>1, TendsSame DEF DispatchClean
  <2>2. CASE Dispatchable(r, t, k) /\ due
    <3> DEFINE n == [r EXCEPT !.tickets[t] = NewCycle(@, k)]
               f == ServeOrFallBack(n, t, k, preferred, first, due)
    <3>1. e = f
      BY <2>2 DEF DispatchClean
    <3>2. Tends(r, t, n) /\ Suits(n.tickets[t], k)
      <4>1. Tends(r, t, n)
        BY <1>1, NewCycleTends
      <4>2. Suits(r.tickets[t], k)
        BY <2>2 DEF Dispatchable, Suits
      <4> HIDE DEF n
      <4> QED BY <4>1, <4>2, KeptSuits DEF Tends
    <3>3. Tends(n, t, f)
      <4> HIDE DEF n
      <4> QED BY <3>2, FallBackTends DEF Tends
    <3> HIDE DEF n, f, e
    <3> QED BY <3>1, <3>2, <3>3, TendsTwice
  <2>3. CASE Dispatchable(r, t, k) /\ ~due
    <3>1. e = ServeOrFallBack(r, t, k, preferred, first, due)
      BY <2>3 DEF DispatchClean
    <3> QED BY <1>1, <2>3, <3>1, FallBackTends DEF Dispatchable, Suits
  <2> QED BY <2>1, <2>2, <2>3
<1>3. dispatch_ticket(d, t, k, preferred, first) = e
  BY DEF dispatch_ticket
<1> HIDE DEF r, e
<1> QED BY <1>1, <1>2, <1>3, TendsTwice

-----------------------------------------------------------------------------
(* What dispatch leaves on one ticket *)

\* The offer is one that the reconciliation keeps, on a seat with no other job.
Granted(d, t, k) ==
    LET o == d.tickets[t].offer[k]
    IN  /\ o.agent \in Agents /\ o.live
        /\ ~invalid_dispatch_offer(d, t, k) /\ ~agent_is_busy(d, o.agent, t)

\* The owners stay, a pin at most goes, and nobody is freed who is busy.
Steadfast(x, y) ==
    /\ Kept(x, y) /\ y.assigned_to \in {x.assigned_to, NoAgent}
    /\ \A a \in Agents : Holds(x, a) => Holds(y, a)

\* The same offer, but for the cycle it belongs to.
SameOffer(x, y, k) ==
    y.offer[k].agent = x.offer[k].agent /\ y.offer[k].live = x.offer[k].live

\* Dispatch of ticket t touches no other ticket, leaves its live offers, and makes only
\* offers that are granted.
Serves(d, t, e) ==
    /\ e.members = d.members
    /\ \A u \in Tickets \ {t} : e.tickets[u] = d.tickets[u]
    /\ Steadfast(d.tickets[t], e.tickets[t])
    /\ \A k \in Kinds :
         \/ SameOffer(d.tickets[t], e.tickets[t], k)
         \/ ~d.tickets[t].offer[k].live /\ Granted(e, t, k)

\* No seat that the ticket was not tried on could take it.
Served(d, t, k) ==
    \A a \in Agents :
        Dispatchable(d, t, k) /\ ~Offered(d.tickets[t], k) /\ a \notin d.tickets[t].tried[k]
          => ~dispatch_candidate_is_eligible(d, t, a, k)

\* A seat that has a lease elsewhere is busy.
LEMMA LeaseIsBusy ==
    ASSUME NEW d, NEW t, NEW a, agent_has_live_lease_elsewhere(d, a, t)
    PROVE  agent_is_busy(d, a, t)
  BY DEF agent_has_live_lease_elsewhere, HasLiveLeaseOn, agent_is_busy

\* Owners that are kept hold no lease that they did not hold.
LEMMA KeptLeases ==
    ASSUME NEW x, NEW y, Kept(x, y), NEW a \in Agents, HasLiveLeaseOn(y, a)
    PROVE  HasLiveLeaseOn(x, a)
  BY DispatchAssumption
     DEF Kept, HasLiveLeaseOn, Holds, PreSubmission, ReviewLeaseIsLive, Inactive,
         HasLeaseFields, AmbiguousLiveLease, inactive_work_ownership_is_ambiguous

LEMMA KeptAmbiguous ==
    ASSUME NEW x, NEW y, Kept(x, y), inactive_work_ownership_is_ambiguous(y)
    PROVE  inactive_work_ownership_is_ambiguous(x)
  BY DEF Kept, Inactive, HasLeaseFields, AmbiguousLiveLease,
         inactive_work_ownership_is_ambiguous

LEMMA KeptTwice ==
    ASSUME NEW x, NEW y, NEW z, Kept(x, y), Kept(y, z)
    PROVE  Kept(x, z)
  BY DEF Kept, PreSubmission

LEMMA SteadfastTwice ==
    ASSUME NEW x, NEW y, NEW z, Steadfast(x, y), Steadfast(y, z)
    PROVE  Steadfast(x, z)
  BY KeptTwice DEF Steadfast

LEMMA SteadfastSame == ASSUME NEW x PROVE Steadfast(x, x)
  BY DEF Steadfast, Kept

\* An offer that is kept stays valid when the owners of all tickets are kept.
LEMMA StaysValid ==
    ASSUME NEW d, NEW e, NEW t \in Tickets, NEW k \in Kinds, e.members = d.members,
           \A u \in Tickets : Kept(d.tickets[u], e.tickets[u]),
           e.tickets[t].assigned_to \in {d.tickets[t].assigned_to, NoAgent},
           e.tickets[t].offer[k].agent = d.tickets[t].offer[k].agent,
           e.tickets[t].offer[k].agent \in Agents,
           ~invalid_dispatch_offer(d, t, k)
    PROVE  ~invalid_dispatch_offer(e, t, k)
<1> DEFINE x == d.tickets[t]
           y == e.tickets[t]
           a == y.offer[k].agent
<1>1. Kept(x, y) /\ a \in Agents /\ x.offer[k].agent = a
  OBVIOUS
<1>2. y.status = x.status /\ (y.parked => x.parked) /\ y.submitted_by = x.submitted_by
      /\ ReviewLeaseIsLive(y) = ReviewLeaseIsLive(x)
  BY DEF Kept, ReviewLeaseIsLive
<1>3. dispatch_member_matches_requirements(d, t, a, k)
        => dispatch_member_matches_requirements(e, t, a, k)
  BY <1>2 DEF dispatch_member_matches_requirements, Independent
<1>4. agent_has_live_lease_elsewhere(e, a, t) => agent_has_live_lease_elsewhere(d, a, t)
  BY <1>1, KeptLeases DEF agent_has_live_lease_elsewhere
<1>5. inactive_work_ownership_is_ambiguous(y) => inactive_work_ownership_is_ambiguous(x)
  BY <1>1, KeptAmbiguous
<1> QED
  <2> HIDE DEF a
  <2>1. ~invalid_dispatch_offer(d, t, k) /\ d.tickets[t].offer[k].agent = a
    BY <1>1
  <2> QED BY <1>2, <1>3, <1>4, <1>5, <2>1 DEF invalid_dispatch_offer, a

LEMMA GrantedStays ==
    ASSUME NEW d, NEW e, NEW t \in Tickets, NEW k \in Kinds, Serves(d, t, e),
           SameOffer(d.tickets[t], e.tickets[t], k), Granted(d, t, k)
    PROVE  Granted(e, t, k)
<1>1. \A u \in Tickets : Kept(d.tickets[u], e.tickets[u])
  BY DEF Serves, Steadfast, Kept
<1>2. ~invalid_dispatch_offer(e, t, k)
  BY <1>1, StaysValid DEF Serves, Steadfast, SameOffer, Granted
<1>3. \A a : agent_is_busy(e, a, t) = agent_is_busy(d, a, t)
  BY SameBusy DEF Serves
<1> QED BY <1>2, <1>3 DEF Granted, SameOffer

LEMMA ServesTwice ==
    ASSUME NEW d, NEW e, NEW f, NEW t \in Tickets, Serves(d, t, e), Serves(e, t, f)
    PROVE  Serves(d, t, f)
<1>1. Steadfast(d.tickets[t], f.tickets[t])
  BY SteadfastTwice DEF Serves
<1>2. ASSUME NEW k \in Kinds
      PROVE  \/ SameOffer(d.tickets[t], f.tickets[t], k)
             \/ ~d.tickets[t].offer[k].live /\ Granted(f, t, k)
  <2>1. CASE SameOffer(e.tickets[t], f.tickets[t], k)
    BY <2>1, GrantedStays DEF Serves, SameOffer
  <2>2. CASE ~e.tickets[t].offer[k].live /\ Granted(f, t, k)
    BY <2>2 DEF Serves, SameOffer, Granted
  <2> QED BY <2>1, <2>2 DEF Serves
<1> QED BY <1>1, <1>2 DEF Serves

LEMMA ServesSame == ASSUME NEW d, NEW t PROVE Serves(d, t, d)
  BY SteadfastSame DEF Serves, SameOffer

\* The owners are the same.
SameOwners(x, y) ==
    /\ y.status = x.status /\ y.claimed_by = x.claimed_by /\ y.lease = x.lease
    /\ y.submitted_by = x.submitted_by /\ y.reviewer = x.reviewer
    /\ y.review_lease = x.review_lease /\ y.reviewed_by = x.reviewed_by
    /\ y.parked = x.parked

LEMMA OwnersSteadfast ==
    ASSUME NEW x, NEW y, SameOwners(x, y), y.assigned_to \in {x.assigned_to, NoAgent}
    PROVE  Steadfast(x, y)
<1>1. Kept(x, y)
  BY DEF SameOwners, Kept
<1>2. \A a \in Agents : Holds(x, a) => Holds(y, a)
  BY DEF SameOwners, Holds, PreSubmission, Inactive, HasLeaseFields, AmbiguousLiveLease,
     inactive_work_ownership_is_ambiguous
<1> QED BY <1>1, <1>2 DEF Steadfast

\* A ticket that dispatch can serve: it waits for its kind of work and nobody is
\* offered it.
Waits(tk, k) ==
    /\ Suits(tk, k) /\ ~tk.offer[k].live
    /\ k = "work" => ~inactive_work_ownership_is_ambiguous(tk)

LEMMA StillWaits ==
    ASSUME NEW x, NEW y, NEW k, Waits(x, k), Steadfast(x, y), SameOffer(x, y, k)
    PROVE  Waits(y, k)
  BY KeptSuits, KeptAmbiguous DEF Waits, Steadfast, SameOffer

\* Ticket t becomes y, which is offered to the same seats.
Becomes(d, t, e, y) ==
    /\ e.members = d.members /\ e.tickets = [d.tickets EXCEPT ![t] = y]
    /\ Steadfast(d.tickets[t], y) /\ \A k \in Kinds : SameOffer(d.tickets[t], y, k)

LEMMA BecomesServes ==
    ASSUME NEW d \in Docs, NEW t \in Tickets, NEW e, NEW y, Becomes(d, t, e, y)
    PROVE  Serves(d, t, e) /\ e.tickets[t] = y
<1>1. e.tickets[t] = y /\ \A u \in Tickets \ {t} : e.tickets[u] = d.tickets[u]
  BY DEF Becomes, Docs
<1> QED BY <1>1 DEF Becomes, Serves

\* Who fits a ticket depends on its pin, its author and who was tried.
LEMMA SameFit ==
    ASSUME NEW d \in Docs, NEW t \in Tickets, NEW k \in Kinds, NEW e, NEW y,
           Becomes(d, t, e, y), y.assigned_to = d.tickets[t].assigned_to,
           y.tried = d.tickets[t].tried
    PROVE  Fit(e, t, k) = Fit(d, t, k)
<1>1. Serves(d, t, e) /\ e.tickets[t] = y
  BY BecomesServes
<1>2. \A a : agent_is_busy(e, a, t) = agent_is_busy(d, a, t)
  BY <1>1, SameBusy DEF Serves
<1>3. y.submitted_by = d.tickets[t].submitted_by /\ e.members = d.members
  BY DEF Becomes, Steadfast, Kept
<1> QED BY <1>1, <1>2, <1>3 DEF Fit, dispatch_candidate_is_eligible,
           dispatch_member_matches_requirements, Independent

\* A ticket that nobody fits is served, and so is one that is broadcast.
LEMMA NobodyFits == ASSUME NEW d, NEW t, NEW k, Fit(d, t, k) = {} PROVE Served(d, t, k)
  BY DEF Served, Fit

LEMMA BroadcastServed ==
    ASSUME NEW d, NEW t, NEW k, d.tickets[t].broadcast = "yes"
    PROVE  Served(d, t, k)
  BY DEF Served, Dispatchable

LEMMA NoCandidates ==
    ASSUME NEW d, NEW t, NEW k, NEW preferred, Candidates(d, t, k, preferred) = {}
    PROVE  Fit(d, t, k) = {}
  BY DEF Candidates, WithoutAvoided, Fit

LEMMA BroadcastServes ==
    ASSUME NEW d \in Docs, NEW t \in Tickets, NEW k \in Kinds, NEW b,
           b = "yes" \/ Fit(d, t, k) = {}
    PROVE  LET e == SetBroadcast(d, t, b) IN Serves(d, t, e) /\ Served(e, t, k)
<1> DEFINE x == d.tickets[t]
           y == [x EXCEPT !.broadcast = b]
           e == SetBroadcast(d, t, b)
<1>1. e.members = d.members /\ e.tickets = [d.tickets EXCEPT ![t] = y]
  BY DEF SetBroadcast, Docs
<1>2. /\ SameOwners(x, y) /\ y.offer = x.offer /\ y.assigned_to = x.assigned_to
      /\ y.tried = x.tried /\ y.broadcast = b
  BY DocTicket DEF GoodTickets, Record, SameOwners
<1> HIDE DEF y, e
<1>3. Becomes(d, t, e, y)
  BY <1>1, <1>2, OwnersSteadfast DEF Becomes, SameOffer
<1>4. Serves(d, t, e) /\ e.tickets[t] = y
  BY <1>3, BecomesServes
<1>5. Served(e, t, k)
  BY <1>2, <1>3, <1>4, SameFit, NobodyFits, BroadcastServed
<1> QED BY <1>4, <1>5 DEF e

LEMMA ReconcileServes ==
    ASSUME NEW d \in Docs, NEW t \in Tickets
    PROVE  LET e == reconcile_inactive_work_ownership(d, t)
           IN  Serves(d, t, e) /\ \A k \in Kinds : SameOffer(d.tickets[t], e.tickets[t], k)
<1> DEFINE x == d.tickets[t]
           y == WithoutWorkLease(x)
           e == reconcile_inactive_work_ownership(d, t)
<1>1. CASE work_ownership_needs_reconcile(x)
  <2>1. e.members = d.members /\ e.tickets = [d.tickets EXCEPT ![t] = y]
    BY <1>1 DEF reconcile_inactive_work_ownership, Docs
  <2>2. y.offer = x.offer /\ y.assigned_to = x.assigned_to
    BY DocTicket DEF GoodTickets, Record, WithoutWorkLease
  <2>3. Kept(x, y)
    BY <1>1, DocTicket, ReconcileTidies DEF Tidied
  <2>4. \A a \in Agents : ~Holds(x, a)
    BY <1>1 DEF Holds, work_ownership_needs_reconcile, Inactive, PreSubmission,
       PRE_SUBMISSION_STATES, TERMINAL_TICKET_STATES,
       inactive_work_ownership_is_ambiguous
  <2> HIDE DEF y, e
  <2>5. Becomes(d, t, e, y)
    BY <2>1, <2>2, <2>3, <2>4 DEF Becomes, Steadfast, SameOffer
  <2> QED BY <2>5, BecomesServes DEF Becomes, e
<1>2. CASE ~work_ownership_needs_reconcile(x)
  BY <1>2, ServesSame DEF reconcile_inactive_work_ownership, SameOffer
<1> QED BY <1>1, <1>2

LEMMA NewCycleAlike ==
    ASSUME NEW x \in Record, NEW k \in Kinds
    PROVE  LET y == NewCycle(x, k)
           IN  /\ SameOwners(x, y) /\ y.assigned_to = x.assigned_to
               /\ \A j \in Kinds : SameOffer(x, y, j)
<1> DEFINE y == NewCycle(x, k)
           o == [x.offer[k] EXCEPT !.current = (x.offer[k] = NoOffer)]
<1>1. SameOwners(x, y) /\ y.assigned_to = x.assigned_to
  BY DEF NewCycle, Record, SameOwners
<1>2. y.offer = [x.offer EXCEPT ![k] = o]
  BY DEF NewCycle, Record
<1>3. o.agent = x.offer[k].agent /\ o.live = x.offer[k].live
  BY DEF Record, Offer
<1>4. \A j \in Kinds : y.offer[j] = IF j = k THEN o ELSE x.offer[j]
  <2> HIDE DEF o, y
  <2> QED BY <1>2 DEF Record
<1> HIDE DEF o, y
<1>5. \A j \in Kinds : SameOffer(x, y, j)
  BY <1>3, <1>4 DEF SameOffer
<1> QED BY <1>1, <1>5 DEF y

LEMMA NewCycleServes ==
    ASSUME NEW d \in Docs, NEW t \in Tickets, NEW k \in Kinds
    PROVE  LET e == [d EXCEPT !.tickets[t] = NewCycle(@, k)]
           IN  Serves(d, t, e) /\ \A j \in Kinds : SameOffer(d.tickets[t], e.tickets[t], j)
<1> DEFINE x == d.tickets[t]
           y == NewCycle(x, k)
           e == [d EXCEPT !.tickets[t] = NewCycle(@, k)]
<1>1. e.members = d.members /\ e.tickets = [d.tickets EXCEPT ![t] = y]
  BY DEF Docs
<1>2. x \in Record
  BY DocTicket DEF GoodTickets
<1>3. SameOwners(x, y) /\ y.assigned_to = x.assigned_to /\ \A j \in Kinds : SameOffer(x, y, j)
  <2> HIDE DEF x
  <2> QED BY <1>2, NewCycleAlike
<1> HIDE DEF y, e
<1>4. Becomes(d, t, e, y)
  BY <1>1, <1>3, OwnersSteadfast DEF Becomes
<1>5. Serves(d, t, e) /\ \A j \in Kinds : SameOffer(x, e.tickets[t], j)
  BY <1>4, BecomesServes DEF Becomes
<1> QED BY <1>5 DEF e

LEMMA ReleasePinServes ==
    ASSUME NEW d \in Docs, NEW t \in Tickets, NEW m
    PROVE  LET e == [release_assignment_pin(d, t) EXCEPT !.marked = m]
           IN  Serves(d, t, e) /\ \A j \in Kinds : SameOffer(d.tickets[t], e.tickets[t], j)
<1> DEFINE x == d.tickets[t]
           z == [x EXCEPT !.assigned_to = NoAgent, !.pin_misses = 0]
           y == NewCycle(z, "work")
           e == [release_assignment_pin(d, t) EXCEPT !.marked = m]
<1>1. e.members = d.members /\ e.tickets = [d.tickets EXCEPT ![t] = y]
  BY DEF release_assignment_pin, Docs
<1>2. z \in Record /\ SameOwners(x, z) /\ z.offer = x.offer /\ z.assigned_to = NoAgent
  <2>1. x \in Record /\ NoAgent \in Someone /\ 0 \in 0..Fallback
    BY DocTicket, DispatchAssumption DEF GoodTickets, Someone
  <2>2. z \in Record
    <3> HIDE DEF x
    <3> QED BY <2>1 DEF Record
  <2>3. SameOwners(x, z) /\ z.offer = x.offer /\ z.assigned_to = NoAgent
    <3> HIDE DEF x
    <3> QED BY <2>1 DEF Record, SameOwners
  <2> QED BY <2>2, <2>3
<1>3. SameOwners(z, y) /\ y.assigned_to = z.assigned_to /\ \A j \in Kinds : SameOffer(z, y, j)
  <2> HIDE DEF z
  <2> QED BY <1>2, NewCycleAlike DEF Kinds
<1> HIDE DEF z, y, e
<1>4. SameOwners(x, y) /\ \A j \in Kinds : SameOffer(x, y, j)
  BY <1>2, <1>3 DEF SameOwners, SameOffer
<1>5. Becomes(d, t, e, y)
  BY <1>1, <1>2, <1>3, <1>4, OwnersSteadfast DEF Becomes
<1>6. Serves(d, t, e) /\ \A j \in Kinds : SameOffer(x, e.tickets[t], j)
  BY <1>5, BecomesServes DEF Becomes
<1> QED BY <1>6 DEF e

\* An offer to a seat that fits is one that the reconciliation keeps.
LEMMA MakeOfferServes ==
    ASSUME NEW d \in Docs, NEW t \in Tickets, NEW k \in Kinds, NEW a \in Fit(d, t, k),
           Waits(d.tickets[t], k)
    PROVE  LET e == MakeOffer(d, t, k, a) IN Serves(d, t, e) /\ Served(e, t, k)
<1> DEFINE x == d.tickets[t]
           o == [agent |-> a, live |-> TRUE, current |-> TRUE]
           y == NewOffer(x, k, a)
           e == MakeOffer(d, t, k, a)
<1>1. e.members = d.members /\ e.tickets = [d.tickets EXCEPT ![t] = y]
  BY DEF MakeOffer, Docs
<1>2. SameOwners(x, y) /\ y.assigned_to = x.assigned_to /\ y.offer = [x.offer EXCEPT ![k] = o]
  BY DocTicket DEF GoodTickets, Record, SameOwners, NewOffer
<1>3. \A j \in Kinds : y.offer[j] = IF j = k THEN o ELSE x.offer[j]
  <2> HIDE DEF y, o
  <2> QED BY <1>2, DocTicket DEF GoodTickets, Record
<1>4. y.offer[k].agent = a /\ y.offer[k].live
  <2> HIDE DEF y
  <2> QED BY <1>3
<1> HIDE DEF y, e, o
<1>5. Steadfast(x, y)
  BY <1>2, OwnersSteadfast
<1>6. e.tickets[t] = y /\ \A u \in Tickets \ {t} : e.tickets[u] = d.tickets[u]
  BY <1>1 DEF Docs
<1>7. Granted(e, t, k)
  <2>1. a \in Agents /\ dispatch_candidate_is_eligible(d, t, a, k)
    BY DEF Fit
  <2>2. ~agent_is_busy(d, a, t) /\ ~agent_is_busy(e, a, t)
    BY <1>6, <2>1, SameBusy DEF dispatch_candidate_is_eligible
  <2>3. ~agent_has_live_lease_elsewhere(e, a, t)
    BY <2>2, LeaseIsBusy
  <2>4. dispatch_member_matches_requirements(e, t, a, k) /\ e.members[a].ready
    BY <1>1, <1>2, <1>6, <2>1
       DEF dispatch_candidate_is_eligible, dispatch_member_matches_requirements,
           Independent, SameOwners
  <2>5. Suits(y, k) /\ (k = "work" => ~inactive_work_ownership_is_ambiguous(y))
    BY <1>5, KeptSuits, KeptAmbiguous DEF Waits, Steadfast
  <2>6. ~invalid_dispatch_offer(e, t, k)
    BY <1>4, <1>6, <2>3, <2>4, <2>5 DEF invalid_dispatch_offer, Suits
  <2> QED BY <1>4, <1>6, <2>1, <2>2, <2>6 DEF Granted
<1>8. Serves(d, t, e)
  <2>1. \A j \in Kinds : j # k => SameOffer(x, y, j)
    BY <1>3 DEF SameOffer
  <2> QED BY <1>1, <1>5, <1>6, <1>7, <2>1 DEF Serves, Waits
<1>9. Served(e, t, k)
  BY <1>4, <1>6 DEF Served, Dispatchable
<1> QED BY <1>8, <1>9 DEF e

LEMMA OfferOrBroadcastServes ==
    ASSUME NEW d \in Docs, NEW t \in Tickets, NEW k \in Kinds, Waits(d.tickets[t], k),
           NEW preferred, NEW first, NEW reoffer
    PROVE  LET e == OfferOrBroadcast(Candidates(d, t, k, preferred), d, t, k,
                                     preferred, first, reoffer)
           IN  Serves(d, t, e) /\ Served(e, t, k)
<1> DEFINE candidates == Candidates(d, t, k, preferred)
           e == OfferOrBroadcast(candidates, d, t, k, preferred, first, reoffer)
<1>1. CASE candidates # {}
  <2> DEFINE a == Selected(candidates, preferred, first[t])
  <2>1. a \in Fit(d, t, k)
    BY <1>1, SelectedFits, CandidatesFit
  <2>2. e = MakeOffer(d, t, k, a)
    BY <1>1 DEF OfferOrBroadcast
  <2> HIDE DEF a
  <2> QED BY <2>1, <2>2, MakeOfferServes
<1>2. CASE candidates = {}
  <2> DEFINE b == IF reoffer \/ d.tickets[t].expirations[k] > 0 THEN "yes" ELSE "no"
  <2>1. e = SetBroadcast(d, t, b) /\ Fit(d, t, k) = {}
    BY <1>2, NoCandidates DEF OfferOrBroadcast
  <2> HIDE DEF b
  <2> QED BY <2>1, BroadcastServes
<1> QED BY <1>1, <1>2

LEMMA MissedPinServes ==
    ASSUME NEW d \in Docs, NEW t \in Tickets, NEW first, NEW reoffer,
           Waits(d.tickets[t], "work"), Fit(d, t, "work") = {}
    PROVE  LET e == ReleaseMissedPin(CountPinMiss(d, t), t, first, reoffer)
           IN  Serves(d, t, e) /\ Served(e, t, "work")
<1> DEFINE x == d.tickets[t]
           c == CountPinMiss(d, t)
           marked == d.marked \cup {t}
           e == ReleaseMissedPin(c, t, first, reoffer)
<1>1. "work" \in Kinds
  BY DEF Kinds
<1>2. CASE c.tickets[t].pin_misses < Fallback
  <2> DEFINE y == [c.tickets[t] EXCEPT !.broadcast = "no"]
  <2>1. e = SetBroadcast(c, t, "no")
    BY <1>2, MissedPinIs
  <2>2. e.members = d.members /\ e.tickets = [d.tickets EXCEPT ![t] = y]
    <3>1. c.members = d.members /\ [c.tickets EXCEPT ![t] = y] = [d.tickets EXCEPT ![t] = y]
          /\ DOMAIN c = DOMAIN d /\ c = [c EXCEPT !.tickets = c.tickets]
      BY DEF CountPinMiss, Docs
    <3>2. e = [c EXCEPT !.tickets = [c.tickets EXCEPT ![t] = y]]
      <4> HIDE DEF c
      <4> QED BY <2>1 DEF SetBroadcast
    <3>3. e.members = c.members /\ e.tickets = [c.tickets EXCEPT ![t] = y]
      <4>1. "tickets" \in DOMAIN c /\ "members" \in DOMAIN c
        BY <3>1 DEF Docs
      <4> HIDE DEF c, y
      <4> QED BY <3>2, <4>1
    <3> QED BY <3>1, <3>3
  <2>3. /\ SameOwners(x, y) /\ y.offer = x.offer /\ y.assigned_to = x.assigned_to
        /\ y.tried = x.tried
    BY DocTicket DEF CountPinMiss, Docs, GoodTickets, Record, SameOwners
  <2> HIDE DEF y, e
  <2>4. Becomes(d, t, e, y)
    BY <2>2, <2>3, OwnersSteadfast DEF Becomes, SameOffer
  <2>5. Served(e, t, "work")
    BY <1>1, <2>3, <2>4, SameFit, NobodyFits
  <2> QED BY <2>4, <2>5, BecomesServes DEF e
<1>3. CASE ~(c.tickets[t].pin_misses < Fallback)
  <2> DEFINE s == [release_assignment_pin(d, t) EXCEPT !.marked = marked]
  <2>1. e = OfferUnpinned(s, t, NoAgent, first, reoffer)
    BY <1>3, MissedPinIs
  <2>2. Serves(d, t, s) /\ SameOffer(x, s.tickets[t], "work")
    BY <1>1, ReleasePinServes
  <2>3. s \in Docs
    <3>1. Tends(d, t, release_assignment_pin(d, t)) /\ marked \in SUBSET Tickets
      BY ReleasePinTends DEF Docs
    <3> HIDE DEF marked
    <3> QED BY <3>1, MarkedTends DEF Tends
  <2> HIDE DEF s, e
  <2>4. Waits(s.tickets[t], "work")
    BY <2>2, StillWaits DEF Serves
  <2>5. Serves(s, t, e) /\ Served(e, t, "work")
    BY <1>1, <2>1, <2>3, <2>4, OfferOrBroadcastServes DEF OfferUnpinned
  <2> QED BY <2>2, <2>5, ServesTwice DEF e
<1> QED BY <1>2, <1>3

LEMMA ServeServes ==
    ASSUME NEW d \in Docs, NEW t \in Tickets, NEW k \in Kinds, Waits(d.tickets[t], k),
           NEW preferred, NEW first, NEW reoffer
    PROVE  LET e == Serve(d, t, k, preferred, first, reoffer)
           IN  Serves(d, t, e) /\ Served(e, t, k)
<1> DEFINE candidates == Candidates(d, t, k, preferred)
<1>1. CASE Pinned(d, t, k) /\ candidates = {}
  <2>1. k = "work" /\ Fit(d, t, k) = {}
    BY <1>1, NoCandidates DEF Pinned
  <2>2. Serve(d, t, k, preferred, first, reoffer)
          = ReleaseMissedPin(CountPinMiss(d, t), t, first, reoffer)
    BY <1>1 DEF Serve, ServeOrMissPin
  <2> QED BY <2>1, <2>2, MissedPinServes
<1>2. CASE ~(Pinned(d, t, k) /\ candidates = {})
  <2>1. Serve(d, t, k, preferred, first, reoffer)
          = OfferOrBroadcast(candidates, d, t, k, preferred, first, reoffer)
    BY <1>2 DEF Serve, ServeOrMissPin
  <2> QED BY <2>1, OfferOrBroadcastServes
<1> QED BY <1>1, <1>2

LEMMA FallBackServes ==
    ASSUME NEW d \in Docs, NEW t \in Tickets, NEW k \in Kinds, Waits(d.tickets[t], k),
           NEW preferred, NEW first, NEW reoffer
    PROVE  LET e == ServeOrFallBack(d, t, k, preferred, first, reoffer)
           IN  Serves(d, t, e) /\ Served(e, t, k)
<1>1. CASE Spent(d, t, k) /\ ~Pinned(d, t, k)
  <2>1. ServeOrFallBack(d, t, k, preferred, first, reoffer) = SetBroadcast(d, t, "yes")
    BY <1>1 DEF ServeOrFallBack
  <2> QED BY <2>1, BroadcastServes
<1>2. CASE Spent(d, t, k) /\ Pinned(d, t, k)
  <2> DEFINE r == release_assignment_pin(d, t)
             e == Serve(r, t, k, preferred, first, reoffer)
  <2>1. ServeOrFallBack(d, t, k, preferred, first, reoffer) = e
    BY <1>2 DEF ServeOrFallBack
  <2>2. r \in Docs /\ r = [r EXCEPT !.marked = r.marked]
    BY ReleasePinTends DEF Tends, Docs
  <2>3. Serves(d, t, r) /\ SameOffer(d.tickets[t], r.tickets[t], k)
    BY <2>2, ReleasePinServes
  <2> HIDE DEF r
  <2>4. Waits(r.tickets[t], k)
    BY <2>3, StillWaits DEF Serves
  <2>5. Serves(r, t, e) /\ Served(e, t, k)
    BY <2>2, <2>4, ServeServes
  <2> QED BY <2>1, <2>3, <2>5, ServesTwice
<1>3. CASE ~Spent(d, t, k)
  <2>1. ServeOrFallBack(d, t, k, preferred, first, reoffer)
          = Serve(d, t, k, preferred, first, reoffer)
    BY <1>3 DEF ServeOrFallBack
  <2> QED BY <2>1, ServeServes
<1> QED BY <1>1, <1>2, <1>3

\* Whatever dispatch does, it leaves no seat idle that the ticket could go to.
LEMMA DispatchServes ==
    ASSUME NEW d \in Docs, NEW t \in Tickets, NEW k \in Kinds, NEW preferred, NEW first
    PROVE  LET e == dispatch_ticket(d, t, k, preferred, first)
           IN  Serves(d, t, e) /\ Served(e, t, k)
<1> DEFINE r == reconcile_inactive_work_ownership(d, t)
           due == d.tickets[t].broadcast = "due"
           e == DispatchClean(r, t, k, preferred, first, due)
<1>1. Serves(d, t, r) /\ r \in Docs
  BY ReconcileTends, ReconcileServes DEF Tends
<1>2. Serves(r, t, e) /\ Served(e, t, k)
  <2> HIDE DEF r, due
  <2>1. CASE ~Dispatchable(r, t, k)
    BY <2>1, ServesSame DEF DispatchClean, Served
  <2>2. CASE Dispatchable(r, t, k) /\ due
    <3> DEFINE n == [r EXCEPT !.tickets[t] = NewCycle(@, k)]
               f == ServeOrFallBack(n, t, k, preferred, first, due)
    <3>1. e = f
      BY <2>2 DEF DispatchClean
    <3>2. n \in Docs /\ Serves(r, t, n) /\ SameOffer(r.tickets[t], n.tickets[t], k)
      BY <1>1, NewCycleTends, NewCycleServes DEF Tends
    <3>3. Waits(r.tickets[t], k)
      BY <2>2 DEF Dispatchable, Suits, Waits
    <3> HIDE DEF n
    <3>4. Waits(n.tickets[t], k)
      BY <3>2, <3>3, StillWaits DEF Serves
    <3>5. Serves(n, t, f) /\ Served(f, t, k)
      BY <3>2, <3>4, FallBackServes
    <3> HIDE DEF f, e
    <3> QED BY <3>1, <3>2, <3>5, ServesTwice
  <2>3. CASE Dispatchable(r, t, k) /\ ~due
    <3>1. e = ServeOrFallBack(r, t, k, preferred, first, due)
      BY <2>3 DEF DispatchClean
    <3>2. Waits(r.tickets[t], k)
      BY <2>3 DEF Dispatchable, Suits, Waits
    <3> QED BY <1>1, <3>1, <3>2, FallBackServes
  <2> QED BY <2>1, <2>2, <2>3
<1>3. dispatch_ticket(d, t, k, preferred, first) = e
  BY DEF dispatch_ticket
<1> HIDE DEF r, e
<1> QED BY <1>1, <1>2, <1>3, ServesTwice

-----------------------------------------------------------------------------
(* Dispatching along the queue *)

\* A ticket is nobody's new job, is offered to nobody else, and keeps nobody else
\* busy; its offers are as well placed.
Easier(x, y) ==
    /\ Calm(x, y)
    /\ \A a \in Plain : /\ Job(y, a) => Job(x, a)
                        /\ Engages(y, a) => Engages(x, a)

Lighter(x, y) ==
    /\ Easier(x, y)
    /\ \A k \in Kinds : \A S : Placed(x, k, S) => Placed(y, k, S)

\* Where no seat had two jobs none has, a seat that was clear of a ticket still
\* is, and every offer is as well placed.
Orderly(d, e) ==
    /\ Apart(d) => Apart(e)
    /\ \A a \in Plain, t \in Tickets : Clear(d, a, t) => Clear(e, a, t)
    /\ \A t \in Tickets, k \in Kinds :
         \A S : Placed(d.tickets[t], k, S) => Placed(e.tickets[t], k, S)

\* The seat that is offered the ticket has no lease elsewhere that is not lapsed.
Unleased(d, t, k) ==
    \A a \in Plain :
        Shows(d.tickets[t], k, a) => ~agent_has_live_lease_elsewhere(d, a, t)

\* The document after moves that keep the owners of every ticket and make no
\* seat active.
Keeps(d, e) ==
    /\ e \in Docs /\ Present(e) \subseteq Present(d)
    /\ \A t \in Tickets : Kept(d.tickets[t], e.tickets[t])
    /\ \A t \in Tickets, k \in Kinds : Unleased(d, t, k) => Unleased(e, t, k)
    /\ Orderly(d, e)

\* Owners that are kept are on their jobs as before.
LEMMA KeptJobs ==
    ASSUME NEW x, NEW y, Kept(x, y), NEW a
    PROVE  /\ Working(y, a) = Working(x, a) /\ Reviewing(y, a) = Reviewing(x, a)
           /\ PreSubmission(y) = PreSubmission(x) /\ y.status = x.status
  BY DEF Kept, Working, Reviewing, PreSubmission, ReviewLeaseIsLive

\* ... and have no other leases than before.
LEMMA KeptEngages ==
    ASSUME NEW x, NEW y, Kept(x, y), NEW a \in Plain
    PROVE  /\ Engages(y, a) => Engages(x, a)
           /\ HasLiveLeaseOn(y, a) => HasLiveLeaseOn(x, a)
<1>1. a # NoAgent
  BY PlainFacts
<1>2. CASE y.claimed_by = NoAgent
  BY <1>1, <1>2 DEF Kept, Engages, HasLiveLeaseOn, Holds, ReviewLeaseIsLive
<1>3. CASE y.claimed_by = x.claimed_by /\ y.lease = x.lease
  BY <1>3 DEF Kept, Engages, HasLiveLeaseOn, Holds, ReviewLeaseIsLive, PreSubmission,
     inactive_work_ownership_is_ambiguous, Inactive, HasLeaseFields, AmbiguousLiveLease
<1> QED BY <1>2, <1>3 DEF Kept

\* An offer stands as it did.
LEMMA KeptStands ==
    ASSUME NEW x, NEW y, Kept(x, y), NEW k, NEW a, NEW S, Stands(x, k, a, S)
    PROVE  Stands(y, k, a, S)
<1>1. PreSubmission(x) => y.claimed_by = x.claimed_by
  BY DEF Kept
<1> QED BY <1>1, KeptJobs DEF Kept, Stands, Independent

\* ... so a ticket whose offers are no more than before is no more of a job.
LEMMA CalmLighter ==
    ASSUME NEW x, NEW y, Kept(x, y), Calm(x, y)
    PROVE  Lighter(x, y)
<1>1. ASSUME NEW a \in Plain, Job(y, a) PROVE Job(x, a)
  BY <1>1, KeptJobs DEF Job, Calm
<1>2. ASSUME NEW k \in Kinds, NEW S, Placed(x, k, S) PROVE Placed(y, k, S)
  BY <1>2, KeptStands DEF Placed, Calm
<1> QED BY <1>1, <1>2, KeptEngages DEF Lighter, Easier

\* Jobs that only go leave no seat with two.
LEMMA LighterApart ==
    ASSUME NEW d, NEW e, Apart(d),
           \A t \in Tickets, a \in Plain : Job(e.tickets[t], a) => Job(d.tickets[t], a)
    PROVE  Apart(e)
  BY DEF Apart

LEMMA LighterOrderly ==
    ASSUME NEW d, NEW e, \A t \in Tickets : Lighter(d.tickets[t], e.tickets[t])
    PROVE  Orderly(d, e)
<1>1. Apart(d) => Apart(e)
  BY LighterApart DEF Lighter, Easier
<1>2. \A a \in Plain, t \in Tickets : Clear(d, a, t) => Clear(e, a, t)
  BY DEF Clear, Lighter, Easier, Calm
<1>3. \A t \in Tickets, k \in Kinds :
        \A S : Placed(d.tickets[t], k, S) => Placed(e.tickets[t], k, S)
  BY DEF Lighter
<1> QED BY <1>1, <1>2, <1>3 DEF Orderly

\* A seat that has a job or a lease elsewhere is busy.
LEMMA JobIsBusy ==
    ASSUME NEW d, NEW t, NEW u \in Tickets \ {t}, NEW a,
           Job(d.tickets[u], a) \/ Engages(d.tickets[u], a)
    PROVE  agent_is_busy(d, a, t)
  BY DEF Job, Engages, Working, Reviewing, Shows, agent_is_busy, Holds

\* A ticket that welcomes the seat is a place for an offer.
LEMMA WelcomeStands ==
    ASSUME NEW tk, NEW k \in Kinds, NEW a, Welcomes(tk, k, a), NEW S
    PROVE  Stands(tk, k, a, S)
  BY DEF Welcomes, Suits, WantedStatus, Stands, Reviewing, Kinds

\* An offer to a free seat gives nobody a second job.
LEMMA TendsOrderly ==
    ASSUME NEW d, NEW t \in Tickets, NEW e, Tends(d, t, e)
    PROVE  Orderly(d, e)
<1> DEFINE x == d.tickets[t]
           y == e.tickets[t]
<1>1. ASSUME NEW a \in Plain, Job(y, a) PROVE Job(x, a) \/ ~agent_is_busy(d, a, t)
  <2>1. Working(y, a) = Working(x, a) /\ Reviewing(y, a) = Reviewing(x, a)
    BY KeptJobs DEF Tends
  <2> QED BY <1>1, <2>1 DEF Job, Tends, Grants
<1>2. ASSUME Apart(d), NEW a \in Plain, NEW u \in Tickets, u # t,
             Job(y, a), Job(e.tickets[u], a)
      PROVE  FALSE
  <2>1. Job(d.tickets[u], a)
    BY <1>2 DEF Tends
  <2> QED BY <1>1, <1>2, <2>1, JobIsBusy DEF Apart
<1>3. Apart(d) => Apart(e)
  <2> SUFFICES ASSUME Apart(d), NEW a \in Plain, NEW u \in Tickets, NEW v \in Tickets,
                      Job(e.tickets[u], a), Job(e.tickets[v], a), u # v
               PROVE  FALSE
    BY DEF Apart
  <2>1. CASE u # t /\ v # t
    BY <2>1 DEF Apart, Tends
  <2> QED BY <1>2, <2>1
<1>4. ASSUME NEW a \in Plain, NEW u \in Tickets, Clear(d, a, u), Engages(e.tickets[u], a),
             NEW v \in Tickets \ {u}, NEW k \in Kinds, Shows(e.tickets[v], k, a)
      PROVE  FALSE
  <2>1. Engages(d.tickets[u], a)
    BY <1>4, KeptEngages DEF Tends
  <2>2. ~Shows(d.tickets[v], k, a)
    BY <1>4, <2>1 DEF Clear
  <2>3. v = t /\ ~agent_is_busy(d, a, t)
    BY <1>4, <2>2 DEF Tends, Grants
  <2> QED BY <2>1, <2>3, JobIsBusy
<1>5. ASSUME NEW k \in Kinds, NEW S, Placed(x, k, S) PROVE Placed(y, k, S)
  <2> SUFFICES ASSUME NEW a \in Plain, Shows(y, k, a) PROVE Stands(y, k, a, S)
    BY DEF Placed
  <2>1. CASE Shows(x, k, a)
    BY <1>5, <2>1, KeptStands DEF Placed, Tends
  <2>2. CASE Welcomes(y, k, a)
    BY <2>2, WelcomeStands
  <2> QED BY <2>1, <2>2 DEF Tends, Grants
<1>6. ASSUME NEW u \in Tickets, NEW k \in Kinds, NEW S, Placed(d.tickets[u], k, S)
      PROVE  Placed(e.tickets[u], k, S)
  <2>1. CASE u = t
    BY <1>5, <1>6, <2>1
  <2>2. CASE u # t
    BY <1>6, <2>2 DEF Tends
  <2> QED BY <2>1, <2>2
<1> QED BY <1>3, <1>4, <1>6 DEF Orderly, Clear

LEMMA TendsKeeps ==
    ASSUME NEW d, NEW t \in Tickets, NEW e, Tends(d, t, e)
    PROVE  Keeps(d, e)
<1>1. Orderly(d, e)
  BY TendsOrderly
<1>2. Present(e) = Present(d)
  BY DEF Tends, Present, IsActive
<1>3. \A u \in Tickets : Kept(d.tickets[u], e.tickets[u])
  BY DEF Tends, Kept
<1>4. ASSUME NEW u \in Tickets, NEW k \in Kinds, Unleased(d, u, k), NEW a \in Plain,
             Shows(e.tickets[u], k, a)
      PROVE  ~agent_has_live_lease_elsewhere(e, a, u)
  <2>1. ~agent_has_live_lease_elsewhere(d, a, u)
    BY <1>4, LeaseIsBusy DEF Unleased, Tends, Grants
  <2> QED BY <1>3, <2>1, KeptEngages DEF agent_has_live_lease_elsewhere
<1> QED BY <1>1, <1>2, <1>3, <1>4 DEF Tends, Keeps, Unleased

LEMMA SetTidied ==
    ASSUME NEW d \in Docs, NEW t \in Tickets, NEW y, Tidied(d.tickets[t], y)
    PROVE  Keeps(d, [d EXCEPT !.tickets[t] = y])
  BY SetTicket, TendsKeeps

LEMMA KeepsTwice ==
    ASSUME NEW d, NEW e, NEW f, Keeps(d, e), Keeps(e, f)
    PROVE  Keeps(d, f)
<1>1. Orderly(d, f)
  BY DEF Keeps, Orderly
<1>2. \A t \in Tickets : Kept(d.tickets[t], f.tickets[t])
  BY DEF Keeps, Kept, PreSubmission
<1> QED BY <1>1, <1>2 DEF Keeps

LEMMA KeepsSame == ASSUME NEW d \in Docs PROVE Keeps(d, d)
  BY DEF Keeps, Kept, Orderly

\* Marks are no part of it, and members only when they become active.
LEMMA SameTicketsKeep ==
    ASSUME NEW d, NEW e \in Docs, e.tickets = d.tickets, Present(e) \subseteq Present(d)
    PROVE  Keeps(d, e)
  BY DEF Keeps, Kept, Orderly, Apart, Clear, Unleased, agent_has_live_lease_elsewhere

\* The queue, the tickets as created and the offers of each are sequences.
LEMMA QueueFacts ==
    /\ Queue \in Seq(Tickets) /\ Created \in Seq(Tickets)
    /\ Len(Queue) \in Nat /\ Len(Created) \in Nat
    /\ Tickets = {Created[i] : i \in 1..Len(Created)}
<1>1. Queue \in Seq(Tickets) /\ Created \in Seq(Tickets)
  BY DispatchAssumption
<1>2. Tickets = {Created[i] : i \in 1..Len(Created)}
  BY <1>1 DEF Tickets, SeqRange
<1> QED BY <1>1, <1>2

LEMMA QueueCovers == Tickets = {Queue[i] : i \in 1..Len(Queue)}
<1>1. Tickets = {Queue[i] : i \in DOMAIN Queue}
  BY DispatchAssumption DEF SeqRange
<1>2. DOMAIN Queue = 1..Len(Queue)
  BY QueueFacts
<1> QED BY <1>1, <1>2, QueueFacts

LEMMA SlotsOf ==
    ASSUME NEW s \in Seq(Tickets)
    PROVE  /\ Slots(s) \in Seq(Tickets \X Kinds) /\ Len(Slots(s)) \in Nat
           /\ \A i \in 1..Len(Slots(s)) : Slots(s)[i] \in Tickets \X Kinds
<1> DEFINE n == 2 * Len(s)
<1>1. n \in Nat
  OBVIOUS
<1>2. ASSUME NEW i \in 1..n
      PROVE  <<s[(i + 1) \div 2], IF i % 2 = 1 THEN "work" ELSE "review">> \in Tickets \X Kinds
  <2>1. (i + 1) \div 2 \in 1..Len(s)
    OBVIOUS
  <2> QED BY <2>1 DEF Kinds
<1>3. Slots(s) = [i \in 1..n |-> <<s[(i + 1) \div 2], IF i % 2 = 1 THEN "work" ELSE "review">>]
  BY DEF Slots
<1>4. Slots(s) \in Seq(Tickets \X Kinds)
  BY <1>1, <1>2, <1>3
<1> HIDE DEF n
<1> QED BY <1>4

\* A dispatch along the queue, ticket by ticket.
InOrderStep(e, t, first) ==
    IF e.tickets[t].status \in {"open", "submitted"}
      THEN Dispatch(e, t, KindOf(e.tickets[t]), first) ELSE e

LEMMA InOrderStepTends ==
    ASSUME NEW e \in Docs, NEW t \in Tickets, NEW first
    PROVE  Tends(e, t, InOrderStep(e, t, first))
<1> DEFINE k == KindOf(e.tickets[t])
<1>1. k \in Kinds
  BY DEF KindOf, Kinds
<1> HIDE DEF k
<1>2. Tends(e, t, dispatch_ticket(e, t, k, NoAgent, first))
  BY <1>1, DispatchTends
<1> QED BY <1>2, TendsSame DEF InOrderStep, Dispatch, k

LEMMA InOrderPass ==
    ASSUME NEW d \in Docs, NEW first
    PROVE  \E f : /\ f[0] = d /\ \A i \in 0..Len(Queue) : f[i] \in Docs
                  /\ \A i \in 1..Len(Queue) : f[i] = InOrderStep(f[i - 1], Queue[i], first)
                  /\ dispatch_enabled(d) => DispatchInOrder(d, first) = f[Len(Queue)]
<1> DEFINE n == Len(Queue)
           Step(e, t) == IF e.tickets[t].status \in {"open", "submitted"}
                           THEN Dispatch(e, t, KindOf(e.tickets[t]), first) ELSE e
           g == [p \in Docs \X (1..n) |-> Step(p[1], Queue[p[2]])]
<1>1. ASSUME NEW e \in Docs, NEW i \in 1..n PROVE Step(e, Queue[i]) \in Docs
  <2>1. Queue[i] \in Tickets
    BY SMTT(30), QueueFacts
  <2>2. InOrderStep(e, Queue[i], first) \in Docs
    BY <2>1, InOrderStepTends DEF Tends
  <2> QED BY <2>2 DEF InOrderStep
<1>2. n \in Nat
  BY QueueFacts
<1>3. g \in [Docs \X (1..n) -> Docs]
  <2> HIDE DEF Step, n
  <2> QED BY <1>1
<1>4. PICK h : IsPass(h, n, Docs, d, g)
  <2> HIDE DEF g, n
  <2> QED BY <1>2, <1>3, PassExists
<1> DEFINE f == CHOOSE f : f = [i \in 0..n |-> IF i = 0 THEN d ELSE Step(f[i - 1], Queue[i])]
<1>5. h = [i \in 0..n |-> IF i = 0 THEN d ELSE Step(h[i - 1], Queue[i])]
  <2> HIDE DEF Step, n
  <2>1. ASSUME NEW i \in 1..n PROVE h[i] = Step(h[i - 1], Queue[i])
    <3>1. i - 1 \in 0..n
      BY <1>2
    <3>2. h[i - 1] \in Docs /\ h[i] = g[<<h[i - 1], i>>]
      BY <1>4, <3>1 DEF IsPass
    <3> QED BY <3>2
  <2> HIDE DEF g
  <2> QED BY <1>2, <1>4, <2>1 DEF IsPass
<1>6. f = [i \in 0..n |-> IF i = 0 THEN d ELSE Step(f[i - 1], Queue[i])]
  <2> HIDE DEF Step, n
  <2> QED BY <1>5
<1>7. f[0] = d /\ \A i \in 1..n : f[i] = Step(f[i - 1], Queue[i])
  <2> HIDE DEF Step, n, f
  <2> QED BY <1>2, <1>6
<1>8. \A i \in 0..n : f[i] \in Docs
  <2> HIDE DEF Step, n, f
  <2> QED BY <1>1, <1>2, <1>7, PassStays
<1>9. dispatch_enabled(d) => DispatchInOrder(d, first) = f[n]
  BY DEF DispatchInOrder, Along
<1>10. \A e, t : Step(e, t) = InOrderStep(e, t, first)
  BY DEF InOrderStep
<1> HIDE DEF f, Step
<1> QED BY <1>7, <1>8, <1>9, <1>10

LEMMA InOrderKeeps ==
    ASSUME NEW d \in Docs, NEW first
    PROVE  Keeps(d, DispatchInOrder(d, first))
<1> DEFINE n == Len(Queue)
           X == {e \in Docs : Keeps(d, e)}
<1>1. PICK f : /\ f[0] = d /\ \A i \in 0..n : f[i] \in Docs
               /\ \A i \in 1..n : f[i] = InOrderStep(f[i - 1], Queue[i], first)
               /\ dispatch_enabled(d) => DispatchInOrder(d, first) = f[n]
  BY InOrderPass
<1>2. n \in Nat /\ \A i \in 1..n : Queue[i] \in Tickets
  BY SMTT(30), QueueFacts
<1> HIDE DEF n
<1>3. ASSUME NEW i \in 1..n, f[i - 1] \in X PROVE f[i] \in X
  <2>1. Keeps(f[i - 1], f[i])
    BY <1>1, <1>2, <1>3, InOrderStepTends, TendsKeeps
  <2> QED BY <1>3, <2>1, KeepsTwice DEF Keeps
<1>4. f[n] \in X
  <2>1. f[0] \in X
    BY <1>1, KeepsSame
  <2> HIDE DEF X
  <2> QED BY <1>2, <1>3, <2>1, PassStays
<1>5. CASE dispatch_enabled(d)
  BY <1>1, <1>4, <1>5
<1>6. CASE ~dispatch_enabled(d)
  BY <1>6, KeepsSame DEF DispatchInOrder
<1> QED BY <1>5, <1>6

\* A dispatch of the given offers, in the order of the tickets.
LEMMA SlotsKeep ==
    ASSUME NEW d \in Docs, NEW slots, NEW first
    PROVE  Keeps(d, DispatchSlots(d, slots, first))
<1> DEFINE n == Len(Slots(Created))
           X == {e \in Docs : Keeps(d, e)}
           seq == Slots(Created)
           Step(e, slot) == IF slot \in slots THEN Dispatch(e, slot[1], slot[2], first)
                                              ELSE e
           g == [p \in X \X (1..n) |-> Step(p[1], seq[p[2]])]
<1>1. ASSUME NEW e \in X, NEW i \in 1..n PROVE Step(e, seq[i]) \in X
  <2> DEFINE slot == seq[i]
  <2>1. slot[1] \in Tickets /\ slot[2] \in Kinds
    BY QueueFacts, SlotsOf
  <2>2. CASE slot \in slots
    <3>1. Tends(e, slot[1], dispatch_ticket(e, slot[1], slot[2], NoAgent, first))
      <4> HIDE DEF slot
      <4> QED BY <2>1, DispatchTends
    <3>2. Step(e, slot) = dispatch_ticket(e, slot[1], slot[2], NoAgent, first)
      BY <2>2 DEF Dispatch
    <3>3. Keeps(e, Step(e, slot))
      <4> HIDE DEF slot, Step
      <4> QED BY <2>1, <3>1, <3>2, TendsKeeps
    <3> QED BY <3>3, KeepsTwice DEF Keeps
  <2>3. CASE slot \notin slots
    BY <2>3
  <2> QED BY <2>2, <2>3
<1>2. d \in X /\ n \in Nat
  BY KeepsSame, QueueFacts, SlotsOf
<1>3. g \in [X \X (1..n) -> X]
  <2> HIDE DEF Step, X, n
  <2> QED BY <1>1
<1>4. PICK h : IsPass(h, n, X, d, g)
  <2> HIDE DEF g, X, n
  <2> QED BY <1>2, <1>3, PassExists
<1> DEFINE f == CHOOSE f : f = [i \in 0..n |-> IF i = 0 THEN d ELSE Step(f[i - 1], seq[i])]
<1>5. h = [i \in 0..n |-> IF i = 0 THEN d ELSE Step(h[i - 1], seq[i])]
  <2> HIDE DEF Step, X, n
  <2>1. ASSUME NEW i \in 1..n PROVE h[i] = Step(h[i - 1], seq[i])
    <3>1. i - 1 \in 0..n
      BY <1>2
    <3>2. h[i - 1] \in X /\ h[i] = g[<<h[i - 1], i>>]
      BY <1>4, <3>1 DEF IsPass
    <3> QED BY <3>2
  <2> HIDE DEF g
  <2> QED BY <1>2, <1>4, <2>1 DEF IsPass
<1>6. f = [i \in 0..n |-> IF i = 0 THEN d ELSE Step(f[i - 1], seq[i])]
  <2> HIDE DEF Step, X, n
  <2> QED BY <1>5
<1>7. f[n] \in X
  <2> DEFINE S == {i \in 0..n : f[i] \in X}
  <2> HIDE DEF Step, X, n, f
  <2>1. 0 \in S
    BY <1>2, <1>6
  <2>2. ASSUME NEW i \in 1..n, i - 1 \in S PROVE i \in S
    <3>1. i \in 0..n /\ i # 0 /\ f[i - 1] \in X
      BY <1>2, <2>2
    <3>2. f[i] = Step(f[i - 1], seq[i])
      BY <1>6, <3>1
    <3> QED BY <1>1, <3>1, <3>2
  <2>3. n \in S
    <3> HIDE DEF S
    <3> QED BY <1>2, <2>1, <2>2, Climb
  <2> QED BY <2>3
<1>8. DispatchSlots(d, slots, first) = f[n]
  BY DEF DispatchSlots, Along
<1> HIDE DEF f, n
<1> QED BY <1>7, <1>8

-----------------------------------------------------------------------------
(* The passes that take offers back *)

\* Tabulating a function gives the function.
LEMMA TabulatedIs == ASSUME NEW f PROVE Tabulated(f) = f
  BY DEF Tabulated

\* Every ticket is tidied at once.
LEMMA EachTidied ==
    ASSUME NEW d \in Docs, NEW h,
           h = [t \in Tickets |-> h[t]], \A t \in Tickets : Tidied(d.tickets[t], h[t])
    PROVE  LET e == [d EXCEPT !.tickets = h]
           IN  Keeps(d, e) /\ e.members = d.members /\ e.tickets = h
<1> DEFINE e == [d EXCEPT !.tickets = h]
<1>1. h \in [Tickets -> GoodTickets]
  BY DEF Tidied
<1>2. e \in Docs /\ e.members = d.members /\ e.tickets = h
  BY <1>1 DEF Docs
<1> HIDE DEF e
<1>3. \A t \in Tickets : Lighter(d.tickets[t], e.tickets[t])
  BY <1>2, CalmLighter DEF Tidied
<1>4. Present(e) = Present(d)
  BY <1>2 DEF Present, IsActive
<1>5. \A t \in Tickets : Kept(d.tickets[t], e.tickets[t])
  BY <1>2 DEF Tidied
<1>6. \A t \in Tickets, k \in Kinds : Unleased(d, t, k) => Unleased(e, t, k)
  BY <1>3, <1>5, KeptEngages DEF Unleased, agent_has_live_lease_elsewhere, Lighter, Easier, Calm
<1> QED BY <1>2, <1>3, <1>4, <1>5, <1>6, LighterOrderly DEF Keeps, e

LEMMA RevokeTends ==
    ASSUME NEW d \in Docs, NEW t \in Tickets, NEW k \in Kinds
    PROVE  Tends(d, t, [d EXCEPT !.tickets[t] = Revoke(@, k)])
<1> DEFINE y == Revoke(d.tickets[t], k)
<1>1. Tidied(d.tickets[t], y)
  BY DocTicket, RevokeTidies
<1>2. [d EXCEPT !.tickets[t] = Revoke(@, k)] = [d EXCEPT !.tickets[t] = y]
  BY DEF Docs
<1> HIDE DEF y
<1> QED BY <1>1, <1>2 DEF Docs, Tends, Tidied, Grants, Calm

\* How far the pass is.
Progress == [doc : Docs, reserved : SUBSET Someone, revoked : BOOLEAN]

\* The offer of the ticket is to a seat that may be active and has no lease elsewhere.
InPlace(d, t, k) == Placed(d.tickets[t], k, Plain) /\ Unleased(d, t, k)

LEMMA KeepsInPlace ==
    ASSUME NEW d, NEW e, Keeps(d, e), NEW t \in Tickets, NEW k \in Kinds, InPlace(d, t, k)
    PROVE  InPlace(e, t, k)
  BY DEF Keeps, Orderly, InPlace

\* One offer is looked at: it is kept and reserves its seat, or it is revoked.
LEMMA KeepOrRevokeKeeps ==
    ASSUME NEW s \in Progress,
           NEW slot, slot[1] \in Tickets, slot[2] \in Kinds
    PROVE  LET f == KeepOrRevoke(s, slot)
           IN  /\ f \in Progress /\ Keeps(s.doc, f.doc)
               /\ InPlace(f.doc, slot[1], slot[2])
<1> DEFINE t == slot[1]
           k == slot[2]
           d == reconcile_inactive_work_ownership(s.doc, t)
           a == s.doc.tickets[t].offer[k].agent
           e == [d EXCEPT !.tickets[t] = Revoke(@, k)]
           f == KeepOrRevokeOffer(s, d, t, k, a)
<1>1. a \in Someone
  BY DEF Progress, Docs, GoodTickets, Record, Offer
<1>2. Keeps(s.doc, d)
  BY ReconcileTends, TendsKeeps DEF Progress
<1>3. Keeps(s.doc, e)
  <2>1. d \in Docs /\ t \in Tickets /\ k \in Kinds
    BY <1>2 DEF Keeps
  <2> HIDE DEF d, t, k
  <2>2. Keeps(d, e)
    BY <2>1, RevokeTends, TendsKeeps
  <2> QED BY <1>2, <2>2, KeepsTwice
<1>4. f \in {[s EXCEPT !.doc = d], [s EXCEPT !.doc = d, !.reserved = s.reserved \cup {a}],
             [doc |-> e, reserved |-> s.reserved, revoked |-> TRUE]}
  <2> HIDE DEF d, e, a, t, k
  <2> QED BY DEF KeepOrRevokeOffer, e
<1>5. KeepOrRevoke(s, slot) = f
  BY DEF KeepOrRevoke
<1>6. d \in Docs /\ e \in Docs
  BY <1>2, <1>3 DEF Keeps
<1>7. f \in Progress /\ Keeps(s.doc, f.doc)
  <2> HIDE DEF d, e, f, a
  <2>1. CASE f = [s EXCEPT !.doc = d]
    BY <1>2, <1>6, <2>1 DEF Progress
  <2>2. CASE f = [s EXCEPT !.doc = d, !.reserved = s.reserved \cup {a}]
    BY <1>1, <1>2, <1>6, <2>2 DEF Progress
  <2>3. CASE f = [doc |-> e, reserved |-> s.reserved, revoked |-> TRUE]
    BY <1>3, <1>6, <2>3 DEF Progress
  <2> QED BY <1>4, <2>1, <2>2, <2>3
<1>8. InPlace(f.doc, t, k)
  <2>1. t \in Tickets /\ k \in Kinds /\ d \in Docs /\ s \in Progress
    BY <1>6
  <2>2. d.tickets[t].offer = s.doc.tickets[t].offer
    BY DEF reconcile_inactive_work_ownership, WithoutWorkLease, Progress, Docs, GoodTickets, Record
  <2>3. e.tickets[t].offer[k] = NoOffer
    <3> HIDE DEF d
    <3> QED BY <2>1 DEF Revoke, Docs, GoodTickets, Record
  <2> HIDE DEF d, e, t, k
  <2>4. CASE a = NoAgent
    <3>1. f.doc = d
      BY <2>1, <2>4 DEF KeepOrRevokeOffer, Progress
    <3> QED BY <2>2, <2>4, <3>1, PlainFacts DEF InPlace, Placed, Unleased, Shows
  <2>5. CASE a # NoAgent /\ (invalid_dispatch_offer(d, t, k) \/ a \in s.reserved)
    <3>1. f.doc = e
      BY <2>5 DEF KeepOrRevokeOffer, e
    <3> QED BY <2>3, <3>1 DEF InPlace, Placed, Unleased, Shows, NoOffer
  <2>6. CASE a # NoAgent /\ ~invalid_dispatch_offer(d, t, k) /\ a \notin s.reserved
    <3>1. f.doc = d
      BY <2>1, <2>6 DEF KeepOrRevokeOffer, Progress
    <3>2. d.tickets[t].offer[k].agent = a
      BY <2>2
    <3>3. Welcomes(d.tickets[t], k, a) /\ ~agent_has_live_lease_elsewhere(d, a, t)
      BY <2>6, <3>2 DEF invalid_dispatch_offer, dispatch_member_matches_requirements,
         Suits, Welcomes
    <3> HIDE DEF f, a
    <3> QED BY <2>1, <3>1, <3>2, <3>3, WelcomeStands DEF InPlace, Placed, Unleased, Shows
  <2> QED BY <2>4, <2>5, <2>6
<1> HIDE DEF f
<1> QED BY <1>5, <1>7, <1>8

\* Both offers of every ticket are looked at.
LEMMA SlotsCover ==
    ASSUME NEW t \in Tickets, NEW k \in Kinds
    PROVE  \E i \in 1..Len(OfferSlots) : OfferSlots[i] = <<t, k>>
<1>1. Tickets = {Queue[m] : m \in 1..Len(Queue)} /\ Len(Queue) \in Nat
  BY QueueFacts, QueueCovers
<1>2. PICK m \in 1..Len(Queue) : t = Queue[m]
  BY <1>1
<1> DEFINE n == 2 * Len(Queue)
           i == IF k = "work" THEN 2 * m - 1 ELSE 2 * m
<1>3. i \in 1..n /\ (i + 1) \div 2 = m /\ (k = "work" <=> i % 2 = 1)
  BY <1>1
<1>4. OfferSlots = [j \in 1..n |-> <<Queue[(j + 1) \div 2], IF j % 2 = 1 THEN "work" ELSE "review">>]
  BY DEF OfferSlots, Slots
<1>5. Len(OfferSlots) = n
  BY <1>1, <1>4
<1> HIDE DEF n, i
<1> QED BY <1>2, <1>3, <1>4, <1>5 DEF Kinds

\* The pass that drops invalid and doubled offers, offer by offer.
LEMMA ReconcilePass ==
    ASSUME NEW d \in Docs
    PROVE  \E f : /\ f[0] = [doc |-> d, reserved |-> {}, revoked |-> FALSE]
                  /\ \A i \in 0..Len(OfferSlots) : f[i] \in Progress
                  /\ \A i \in 1..Len(OfferSlots) : f[i] = KeepOrRevoke(f[i - 1], OfferSlots[i])
                  /\ reconcile_invalid_dispatch_offers(d) = EndBroadcasts(f[Len(OfferSlots)])
<1> DEFINE n == Len(OfferSlots)
           seq == OfferSlots
           start == [doc |-> d, reserved |-> {}, revoked |-> FALSE]
           g == [p \in Progress \X (1..n) |-> KeepOrRevoke(p[1], seq[p[2]])]
<1>1. ASSUME NEW e \in Progress, NEW i \in 1..n PROVE KeepOrRevoke(e, seq[i]) \in Progress
  <2>1. seq[i][1] \in Tickets /\ seq[i][2] \in Kinds
    BY QueueFacts, SlotsOf DEF OfferSlots
  <2> HIDE DEF seq
  <2> QED BY <2>1, KeepOrRevokeKeeps
<1>2. start \in Progress /\ n \in Nat
  BY QueueFacts, SlotsOf DEF OfferSlots, Progress
<1> HIDE DEF start
<1>3. g \in [Progress \X (1..n) -> Progress]
  <2> HIDE DEF n
  <2> QED BY <1>1
<1>4. PICK h : IsPass(h, n, Progress, start, g)
  <2> HIDE DEF g, n
  <2> QED BY <1>2, <1>3, PassExists
<1> DEFINE f == CHOOSE f : f = [i \in 0..n |-> IF i = 0 THEN start ELSE KeepOrRevoke(f[i - 1], seq[i])]
<1>5. h = [i \in 0..n |-> IF i = 0 THEN start ELSE KeepOrRevoke(h[i - 1], seq[i])]
  <2> HIDE DEF n
  <2>1. ASSUME NEW i \in 1..n PROVE h[i] = KeepOrRevoke(h[i - 1], seq[i])
    <3>1. i - 1 \in 0..n
      BY <1>2
    <3>2. h[i - 1] \in Progress /\ h[i] = g[<<h[i - 1], i>>]
      BY <1>4, <3>1 DEF IsPass
    <3> QED BY <3>2
  <2> HIDE DEF g
  <2> QED BY <1>2, <1>4, <2>1 DEF IsPass
<1>6. f = [i \in 0..n |-> IF i = 0 THEN start ELSE KeepOrRevoke(f[i - 1], seq[i])]
  <2> HIDE DEF n
  <2> QED BY <1>5
<1>7. f[0] = start /\ \A i \in 1..n : f[i] = KeepOrRevoke(f[i - 1], seq[i])
  <2> HIDE DEF n, f
  <2> QED BY <1>2, <1>6
<1>8. \A i \in 0..n : f[i] \in Progress
  <2> HIDE DEF n, f
  <2> QED BY <1>1, <1>2, <1>7, PassStays
<1>9. reconcile_invalid_dispatch_offers(d) = EndBroadcasts(f[n])
  BY DEF reconcile_invalid_dispatch_offers, Along, start
<1> HIDE DEF f
<1> QED BY <1>7, <1>8, <1>9 DEF start

\* A revoked offer ends broadcasts and changes nothing else.
LEMMA EndBroadcastsIs ==
    ASSUME NEW s \in Progress
    PROVE  LET e == EndBroadcasts(s)
           IN  /\ Keeps(s.doc, e) /\ e.members = s.doc.members
               /\ \A t \in Tickets : e.tickets[t] \in {s.doc.tickets[t],
                                                       EndBroadcast(s.doc.tickets[t])}
<1> DEFINE given == {t \in Tickets : /\ ~s.doc.tickets[t].parked
                                     /\ s.doc.tickets[t].status \in {"open", "submitted"}}
           ended == [t \in Tickets |-> IF t \in given THEN EndBroadcast(s.doc.tickets[t])
                                                      ELSE s.doc.tickets[t]]
           e == [s.doc EXCEPT !.tickets = ended]
<1>1. s.doc \in Docs
  BY DEF Progress
<1>2. Keeps(s.doc, e) /\ e.members = s.doc.members /\ e.tickets = ended
  <2>1. ASSUME NEW t \in Tickets PROVE Tidied(s.doc.tickets[t], ended[t])
    <3>1. Tidied(s.doc.tickets[t], EndBroadcast(s.doc.tickets[t]))
      BY <1>1, DocTicket, BroadcastTidies DEF EndBroadcast
    <3>2. Tidied(s.doc.tickets[t], s.doc.tickets[t])
      BY <1>1, DocTicket, TidiedSame
    <3> HIDE DEF given
    <3> QED BY <3>1, <3>2
  <2> HIDE DEF given
  <2>2. ended = [t \in Tickets |-> ended[t]]
    OBVIOUS
  <2> HIDE DEF ended
  <2> QED BY <1>1, <2>1, <2>2, EachTidied
<1>3. EndBroadcasts(s) \in {s.doc, e}
  <2>1. UpdateEach(s.doc, given, EndBroadcast) = [s.doc EXCEPT !.tickets = Tabulated(ended)]
    BY <1>1 DEF UpdateEach, Docs
  <2> HIDE DEF ended
  <2>2. UpdateEach(s.doc, given, EndBroadcast) = e
    BY <2>1, TabulatedIs
  <2> QED BY <2>2 DEF EndBroadcasts
<1>4. \A t \in Tickets : ended[t] \in {s.doc.tickets[t], EndBroadcast(s.doc.tickets[t])}
  <2> HIDE DEF given
  <2> QED OBVIOUS
<1> HIDE DEF e, ended
<1> QED BY <1>1, <1>2, <1>3, <1>4, KeepsSame

LEMMA ReconcileKeeps ==
    ASSUME NEW d \in Docs
    PROVE  LET e == reconcile_invalid_dispatch_offers(d)
           IN  Keeps(d, e) /\ \A t \in Tickets, k \in Kinds : InPlace(e, t, k)
<1> DEFINE n == Len(OfferSlots)
           seq == OfferSlots
<1>1. PICK f : /\ f[0] = [doc |-> d, reserved |-> {}, revoked |-> FALSE]
               /\ \A i \in 0..n : f[i] \in Progress
               /\ \A i \in 1..n : f[i] = KeepOrRevoke(f[i - 1], seq[i])
               /\ reconcile_invalid_dispatch_offers(d) = EndBroadcasts(f[n])
  BY ReconcilePass
<1>2. n \in Nat /\ \A j \in 1..n : seq[j][1] \in Tickets /\ seq[j][2] \in Kinds
  BY QueueFacts, SlotsOf DEF OfferSlots
<1> HIDE DEF n, seq
<1> DEFINE S == {i \in 0..n : /\ Keeps(d, f[i].doc)
                              /\ \A j \in 1..i : InPlace(f[i].doc, seq[j][1], seq[j][2])}
<1>3. 0 \in S
  BY <1>1, <1>2, KeepsSame
<1>4. ASSUME NEW i \in 1..n, i - 1 \in S PROVE i \in S
  <2>1. /\ i \in 0..n /\ i - 1 \in 0..n /\ Keeps(d, f[i - 1].doc)
        /\ \A j \in 1..(i - 1) : InPlace(f[i - 1].doc, seq[j][1], seq[j][2])
    BY <1>2, <1>4
  <2>2. Keeps(f[i - 1].doc, f[i].doc) /\ InPlace(f[i].doc, seq[i][1], seq[i][2])
    BY <1>1, <1>2, <2>1, KeepOrRevokeKeeps
  <2>3. Keeps(d, f[i].doc)
    BY <2>1, <2>2, KeepsTwice
  <2>4. ASSUME NEW j \in 1..i PROVE InPlace(f[i].doc, seq[j][1], seq[j][2])
    <3>1. CASE j = i
      BY <2>2, <3>1
    <3>2. CASE j # i
      <4>1. j \in 1..(i - 1) /\ j \in 1..n
        BY <1>2, <3>2
      <4> QED BY <1>2, <2>1, <2>2, <4>1, KeepsInPlace
    <3> QED BY <3>1, <3>2
  <2> QED BY <2>1, <2>3, <2>4
<1>5. n \in S
  <2> HIDE DEF S
  <2> QED BY <1>2, <1>3, <1>4, Climb
<1> DEFINE s == f[n]
           e == EndBroadcasts(s)
<1>6. s \in Progress /\ Keeps(d, s.doc) /\ \A j \in 1..n : InPlace(s.doc, seq[j][1], seq[j][2])
  BY <1>1, <1>2, <1>5
<1> HIDE DEF s
<1>7. \A t \in Tickets, k \in Kinds : InPlace(s.doc, t, k)
  <2> TAKE t \in Tickets, k \in Kinds
  <2>1. PICK i \in 1..n : seq[i] = <<t, k>>
    BY SlotsCover DEF n, seq
  <2> QED BY <1>6, <2>1
<1>8. Keeps(s.doc, e)
  BY <1>6, EndBroadcastsIs
<1> HIDE DEF e
<1> QED BY <1>1, <1>6, <1>7, <1>8, KeepsTwice, KeepsInPlace DEF e, s

LEMMA RedispatchKeeps ==
    ASSUME NEW d \in Docs, NEW first
    PROVE  LET f == redispatch_queue(d, first)
           IN  Keeps(d, f) /\ \A t \in Tickets, k \in Kinds : InPlace(f, t, k)
<1> DEFINE e == reconcile_invalid_dispatch_offers(d)
           f == DispatchInOrder(e, first)
<1>1. Keeps(d, e) /\ e \in Docs /\ \A t \in Tickets, k \in Kinds : InPlace(e, t, k)
  BY ReconcileKeeps DEF Keeps
<1>2. Keeps(e, f)
  <2> HIDE DEF e
  <2> QED BY <1>1, InOrderKeeps
<1>3. redispatch_queue(d, first) = f
  BY DEF redispatch_queue
<1> HIDE DEF e, f
<1>4. Keeps(d, f)
  BY <1>1, <1>2, KeepsTwice
<1> QED BY <1>1, <1>2, <1>3, <1>4, KeepsInPlace

LEMMA RetireKeeps ==
    ASSUME NEW d \in Docs
    PROVE  Keeps(d, retire_nonreviewable_review_offers(d))
<1> DEFINE given == {t \in Tickets : d.tickets[t].status # "submitted"}
           h == [t \in Tickets |-> IF t \in given THEN RevokeReview(d.tickets[t])
                                                  ELSE d.tickets[t]]
<1>1. ASSUME NEW t \in Tickets PROVE Tidied(d.tickets[t], h[t])
  BY DocTicket, RevokeTidies, TidiedSame DEF RevokeReview, Kinds
<1>2. h = [t \in Tickets |-> h[t]]
  OBVIOUS
<1>3. retire_nonreviewable_review_offers(d) = [d EXCEPT !.tickets = Tabulated(h)]
  BY DEF retire_nonreviewable_review_offers, UpdateEach, Docs
<1> HIDE DEF h
<1> QED BY <1>1, <1>2, <1>3, TabulatedIs, EachTidied

\* The offers of some seats are taken back.
LEMMA RevokeSeatsKeep ==
    ASSUME NEW d \in Docs, NEW seats
    PROVE  LET e == revoke_agent_offers(d, seats)
           IN  Keeps(d, e) /\ e.members = d.members /\ e.marked = d.marked
<1> DEFINE F(tk) == [tk EXCEPT !.offer["work"]   = RevokeFrom(@, seats),
                               !.offer["review"] = RevokeFrom(@, seats)]
           h == [t \in Tickets |-> IF t \in Tickets THEN F(d.tickets[t]) ELSE d.tickets[t]]
<1>1. ASSUME NEW x \in GoodTickets PROVE Tidied(x, F(x))
  <2> DEFINE w == Revoke(x, "work")
             r == Revoke(x, "review")
             b == Revoke(w, "review")
  <2>1. x \in Record /\ "work" \in Kinds /\ "review" \in Kinds
    BY DEF GoodTickets, Kinds
  <2>2. F(x) \in {x, w, r, b}
    <3>1. x.offer \in [Kinds -> Offer] /\ x = [x EXCEPT !.offer = x.offer]
      BY <2>1 DEF Record
    <3>2. [x.offer EXCEPT !["work"] = x.offer["work"]] = x.offer
          /\ [x.offer EXCEPT !["review"] = x.offer["review"]] = x.offer
      BY <3>1
    <3>3. F(x) = [x EXCEPT !.offer = [[x.offer EXCEPT !["work"] = RevokeFrom(x.offer["work"], seats)]
                                        EXCEPT !["review"] = RevokeFrom(x.offer["review"], seats)]]
      BY <2>1, <3>1
    <3>4. /\ w = [x EXCEPT !.offer = [x.offer EXCEPT !["work"] = NoOffer]]
          /\ r = [x EXCEPT !.offer = [x.offer EXCEPT !["review"] = NoOffer]]
          /\ b = [x EXCEPT !.offer = [[x.offer EXCEPT !["work"] = NoOffer]
                                        EXCEPT !["review"] = NoOffer]]
      BY <2>1 DEF Revoke, Record
    <3>5. [[x.offer EXCEPT !["work"] = NoOffer] EXCEPT !["review"] = x.offer["review"]]
            = [x.offer EXCEPT !["work"] = NoOffer]
      BY <3>1
    <3> HIDE DEF F, w, r, b
    <3> QED BY <3>1, <3>2, <3>3, <3>4, <3>5 DEF RevokeFrom
  <2>3. Tidied(x, x) /\ Tidied(x, w) /\ Tidied(x, r)
    BY <2>1, TidiedSame, RevokeTidies
  <2>4. Tidied(x, b)
    <3> HIDE DEF w
    <3>1. Tidied(w, Revoke(w, "review"))
      BY <2>1, <2>3, RevokeTidies DEF Tidied
    <3> QED BY <2>3, <3>1, TidiedTwice
  <2> HIDE DEF F, w, r, b
  <2> QED BY <2>2, <2>3, <2>4
<1>2. h = [t \in Tickets |-> h[t]] /\ \A t \in Tickets : Tidied(d.tickets[t], h[t])
  <2> HIDE DEF F
  <2> QED BY <1>1, DocTicket
<1>3. revoke_agent_offers(d, seats) = [d EXCEPT !.tickets = Tabulated(h)]
  BY DEF revoke_agent_offers, UpdateEach, Docs
<1>4. [d EXCEPT !.tickets = h].marked = d.marked
  BY DEF Docs
<1> HIDE DEF h
<1> QED BY <1>2, <1>3, <1>4, TabulatedIs, EachTidied

LEMMA MakeStaleKeeps ==
    ASSUME NEW d \in Docs, NEW stale
    PROVE  Keeps(d, MakeStale(d, stale))
<1> DEFINE e == revoke_agent_offers(d, stale)
           m == [a \in Agents |-> IF a \in stale THEN [e.members[a] EXCEPT !.lifecycle = "stale"]
                                                 ELSE e.members[a]]
<1>1. Keeps(d, e) /\ e \in Docs
  BY RevokeSeatsKeep DEF Keeps
<1>2. m \in [Agents -> Member]
  <2> HIDE DEF e
  <2> QED BY <1>1 DEF Docs, Member, Lifecycles
<1>3. MakeStale(d, stale) = [e EXCEPT !.members = Tabulated(m)]
  <2>1. e = [tickets |-> e.tickets, members |-> e.members, marked |-> e.marked]
    <3> HIDE DEF e
    <3> QED BY <1>1 DEF Docs
  <2> QED BY <2>1 DEF MakeStale
<1>4. /\ MakeStale(d, stale) \in Docs /\ MakeStale(d, stale).tickets = e.tickets
      /\ MakeStale(d, stale).members = m
  <2> HIDE DEF e, m
  <2> QED BY <1>1, <1>2, <1>3, TabulatedIs DEF Docs
<1>5. Present(MakeStale(d, stale)) \subseteq Present(e)
  <2>1. ASSUME NEW a \in Agents, m[a].lifecycle = "active" PROVE e.members[a].lifecycle = "active"
    <3> HIDE DEF e
    <3> QED BY <1>1, <2>1 DEF Docs, Member
  <2> HIDE DEF e, m
  <2> QED BY <1>4, <2>1, PlainFacts DEF Present, IsActive
<1> HIDE DEF e, m
<1> QED BY <1>1, <1>4, <1>5, SameTicketsKeep, KeepsTwice

LEMMA AutoStaleKeeps ==
    ASSUME NEW d \in Docs, NEW redispatch, NEW first
    PROVE  Keeps(d, auto_stale_members(d, redispatch, first))
<1>1. ASSUME NEW stale PROVE Keeps(d, MakeStaleAndDispatch(d, stale, redispatch, first))
  <2> DEFINE e == MakeStale(d, stale)
  <2>1. Keeps(d, e) /\ e \in Docs
    BY MakeStaleKeeps DEF Keeps
  <2> HIDE DEF e
  <2>2. Keeps(d, redispatch_queue(e, first))
    BY <2>1, RedispatchKeeps, KeepsTwice
  <2> QED BY <2>1, <2>2 DEF MakeStaleAndDispatch, e
<1> QED BY <1>1 DEF auto_stale_members

-----------------------------------------------------------------------------
(* Reaping *)

LEMMA ExpireTends ==
    ASSUME NEW d \in Docs, NEW t \in Tickets, NEW k \in Kinds, Offered(d.tickets[t], k)
    PROVE  Tends(d, t, [d EXCEPT !.tickets[t] = ExpireOffer(@, k)])
<1> DEFINE y == ExpireOffer(d.tickets[t], k)
<1>1. Tidied(d.tickets[t], y)
  BY DocTicket, ExpireTidies
<1>2. [d EXCEPT !.tickets[t] = ExpireOffer(@, k)] = [d EXCEPT !.tickets[t] = y]
  BY DEF Docs
<1> HIDE DEF y
<1> QED BY <1>1, <1>2 DEF Docs, Tends, Tidied, Grants, Calm

\* The offer of one kind expires if it has lapsed.
ExpireStep(e, t, k, redispatch, first) ==
    IF ~Offered(e.tickets[t], k) \/ e.tickets[t].offer[k].live THEN e
    ELSE Redispatched(redispatch, [e EXCEPT !.tickets[t] = ExpireOffer(@, k)], t, k, first)

LEMMA ExpireOffersAre ==
    ASSUME NEW d, NEW t, NEW redispatch, NEW first
    PROVE  expire_dispatch_offers(d, t, redispatch, first)
             = ExpireStep(ExpireStep(d, t, "work", redispatch, first), t, "review",
                          redispatch, first)
<1> DEFINE Step(e, k) ==
             IF ~Offered(e.tickets[t], k) \/ e.tickets[t].offer[k].live THEN e
             ELSE Redispatched(redispatch, [e EXCEPT !.tickets[t] = ExpireOffer(@, k)],
                               t, k, first)
           seq == <<"work", "review">>
           n == Len(seq)
           f == CHOOSE f : f = [i \in 0..n |-> IF i = 0 THEN d ELSE Step(f[i - 1], seq[i])]
           w == Step(d, "work")
           h == [i \in 0..n |-> IF i = 0 THEN d ELSE IF i = 1 THEN w ELSE Step(w, "review")]
<1>1. n = 2 /\ seq[1] = "work" /\ seq[2] = "review"
  OBVIOUS
<1>2. expire_dispatch_offers(d, t, redispatch, first) = f[n]
  BY DEF expire_dispatch_offers, Along
<1>3. Step(w, "review") = ExpireStep(ExpireStep(d, t, "work", redispatch, first), t, "review",
                                     redispatch, first)
  BY DEF ExpireStep
<1> HIDE DEF Step, n, seq
<1>4. h = [i \in 0..n |-> IF i = 0 THEN d ELSE Step(h[i - 1], seq[i])]
  <2>1. \A i \in 0..n : i = 0 \/ i = 1 \/ i = 2
    BY <1>1
  <2>2. 0 \in 0..n /\ 1 \in 0..n
    BY <1>1
  <2>3. h[0] = d /\ h[1] = w
    BY <2>2
  <2>4. \A i \in 0..n : (IF i = 0 THEN d ELSE Step(h[i - 1], seq[i]))
          = (IF i = 0 THEN d ELSE IF i = 1 THEN w ELSE Step(w, "review"))
    BY <1>1, <2>1, <2>3
  <2> QED BY <2>4
<1>5. f = [i \in 0..n |-> IF i = 0 THEN d ELSE Step(f[i - 1], seq[i])]
  BY <1>4
<1>6. f[n] = Step(w, "review")
  <2> HIDE DEF f
  <2> QED BY <1>1, <1>5
<1> HIDE DEF f, w
<1> QED BY <1>2, <1>3, <1>6

LEMMA ExpireStepTends ==
    ASSUME NEW d \in Docs, NEW t \in Tickets, NEW k \in Kinds, NEW redispatch, NEW first
    PROVE  Tends(d, t, ExpireStep(d, t, k, redispatch, first))
<1> DEFINE x == [d EXCEPT !.tickets[t] = ExpireOffer(@, k)]
           y == Redispatched(redispatch, x, t, k, first)
<1>1. CASE ~Offered(d.tickets[t], k) \/ d.tickets[t].offer[k].live
  BY <1>1, TendsSame DEF ExpireStep
<1>2. CASE ~(~Offered(d.tickets[t], k) \/ d.tickets[t].offer[k].live)
  <2>1. Tends(d, t, x) /\ x \in Docs
    BY <1>2, ExpireTends DEF Tends
  <2>2. Tends(d, t, y)
    <3> HIDE DEF x
    <3> QED BY <2>1, DispatchTends, TendsTwice DEF Redispatched, Dispatch
  <2> QED BY <1>2, <2>2 DEF ExpireStep
<1> QED BY <1>1, <1>2

\* The lapsed offers of a ticket expire.
LEMMA ExpireOffersTend ==
    ASSUME NEW d \in Docs, NEW t \in Tickets, NEW redispatch, NEW first
    PROVE  Tends(d, t, expire_dispatch_offers(d, t, redispatch, first))
<1> DEFINE w == ExpireStep(d, t, "work", redispatch, first)
           r == ExpireStep(w, t, "review", redispatch, first)
<1>1. Tends(d, t, w) /\ w \in Docs
  BY ExpireStepTends DEF Tends, Kinds
<1>2. Tends(w, t, r)
  <2> HIDE DEF w
  <2> QED BY <1>1, ExpireStepTends DEF Kinds
<1>3. expire_dispatch_offers(d, t, redispatch, first) = r
  BY ExpireOffersAre
<1> HIDE DEF w, r
<1> QED BY <1>1, <1>2, <1>3, TendsTwice

\* The lapsed leases of a ticket that have ended, at most: the owners are kept,
\* the work is open again, or the review is free.
Ended(x, y) ==
    \/ Kept(x, y)
    \/ PreSubmission(x) /\ x.lease = "lapsed" /\ y.status = "open"
    \/ /\ x.review_lease = "lapsed"
       /\ Kept([x EXCEPT !.reviewer = NoAgent, !.review_lease = "none"], y)

Reaps(d, e) ==
    /\ e \in Docs /\ Present(e) \subseteq Present(d)
    /\ \A t \in Tickets : Ended(d.tickets[t], e.tickets[t])
    /\ Orderly(d, e)

\* Ticket t alone was reaped.
ReapsOne(d, t, e) ==
    /\ e \in Docs /\ e.members = d.members
    /\ \A u \in Tickets \ {t} : e.tickets[u] = d.tickets[u]
    /\ Ended(d.tickets[t], e.tickets[t])
    /\ ~HasLapsedLease(e.tickets[t])
    /\ Orderly(d, e)

Fresh(d) == \A t \in Tickets : ~HasLapsedLease(d.tickets[t])

\* A lease that has ended stays so, and no ticket has two.
LEMMA EndedTwice ==
    ASSUME NEW x \in GoodTickets, NEW y \in GoodTickets, NEW z, Ended(x, y), Ended(y, z)
    PROVE  Ended(x, z)
<1> DEFINE Free(u) == [u EXCEPT !.reviewer = NoAgent, !.review_lease = "none"]
<1>1. x \in Record /\ y \in Record /\ Owned(x) /\ Owned(y)
  BY DEF GoodTickets, Good
<1>2. CASE Kept(x, y)
  <2>1. CASE Kept(y, z) \/ (PreSubmission(y) /\ y.lease = "lapsed" /\ z.status = "open")
    BY <1>2, <2>1 DEF Ended, Kept, PreSubmission
  <2>2. CASE y.review_lease = "lapsed" /\ Kept(Free(y), z)
    <3>1. Kept(Free(x), Free(y))
      BY <1>1, <1>2 DEF Kept, PreSubmission, Record
    <3>2. x.review_lease = "lapsed"
      BY <1>2, <2>2 DEF Kept
    <3>3. Kept(Free(x), z)
      <4> HIDE DEF Free
      <4> QED BY <2>2, <3>1 DEF Kept, PreSubmission
    <3> QED BY <3>2, <3>3 DEF Ended
  <2> QED BY <2>1, <2>2, Ended(y, z) DEF Ended
<1>3. CASE PreSubmission(x) /\ x.lease = "lapsed" /\ y.status = "open"
  <2>1. y.review_lease = "none" /\ ~PreSubmission(y)
    BY <1>1, <1>3 DEF Owned, PreSubmission, PRE_SUBMISSION_STATES
  <2> QED BY <1>3, <2>1 DEF Ended, Kept
<1>4. CASE x.review_lease = "lapsed" /\ Kept(Free(x), y)
  <2>1. x.status \in {"submitted", "canceled"}
    BY <1>1, <1>4 DEF Owned
  <2>2. y.status = x.status /\ y.review_lease = "none"
    BY <1>1, <1>4 DEF Kept, Record
  <2>3. Kept(y, z)
    BY <2>1, <2>2 DEF Ended, PreSubmission, PRE_SUBMISSION_STATES
  <2>4. Kept(Free(x), z)
    <3> HIDE DEF Free
    <3> QED BY <1>4, <2>3 DEF Kept, PreSubmission
  <2> QED BY <1>4, <2>4 DEF Ended
<1> QED BY <1>2, <1>3, <1>4 DEF Ended

LEMMA ReapsTwice ==
    ASSUME NEW d \in Docs, NEW e, NEW f, Reaps(d, e), Reaps(e, f)
    PROVE  Reaps(d, f)
<1>1. \A t \in Tickets : Ended(d.tickets[t], f.tickets[t])
  BY EndedTwice, DocTicket DEF Reaps
<1>2. Orderly(d, f)
  BY DEF Reaps, Orderly
<1> QED BY <1>1, <1>2 DEF Reaps

LEMMA KeepsReaps == ASSUME NEW d, NEW e, Keeps(d, e) PROVE Reaps(d, e)
  BY DEF Keeps, Reaps, Ended

LEMMA OneReaped ==
    ASSUME NEW d \in Docs, NEW t \in Tickets, NEW e, ReapsOne(d, t, e)
    PROVE  Reaps(d, e)
<1>1. Present(e) = Present(d)
  BY DEF ReapsOne, Present, IsActive
<1>2. \A u \in Tickets : Ended(d.tickets[u], e.tickets[u])
  <2>1. \A u \in Tickets : Ended(d.tickets[u], d.tickets[u])
    BY DEF Ended, Kept
  <2> QED BY <2>1 DEF ReapsOne
<1> QED BY <1>1, <1>2 DEF ReapsOne, Reaps

\* Tickets without a lapsed lease stay so.
LEMMA KeptFresh ==
    ASSUME NEW x, NEW y, Kept(x, y), ~HasLapsedLease(x)
    PROVE  ~HasLapsedLease(y)
  BY DEF Kept, HasLapsedLease, PreSubmission

LEMMA KeepsFresh ==
    ASSUME NEW d, NEW e, Keeps(d, e), Fresh(d)
    PROVE  Fresh(e)
  BY KeptFresh DEF Keeps, Fresh

\* What is no new job for anybody twice is none, and a ticket that was only tidied
\* is none either.
LEMMA EasierTwice ==
    ASSUME NEW x, NEW y, NEW z, Easier(x, y), Easier(y, z)
    PROVE  Easier(x, z)
  BY DEF Easier, Calm

LEMMA LighterTwice ==
    ASSUME NEW x, NEW y, NEW z, Lighter(x, y), Lighter(y, z)
    PROVE  Lighter(x, z)
  BY EasierTwice DEF Lighter

LEMMA TidiedLighter ==
    ASSUME NEW x, NEW y, NEW z, Tidied(x, y), Lighter(y, z)
    PROVE  Lighter(x, z)
  BY CalmLighter, LighterTwice DEF Tidied

LEMMA LighterSame == ASSUME NEW x PROVE Lighter(x, x)
  BY DEF Lighter, Easier, Calm

\* A ticket with the same offers is no new job if its owners are none.
LEMMA LighterIs ==
    ASSUME NEW x, NEW y, y.offer = x.offer,
           \A a \in Plain : Working(y, a) \/ Reviewing(y, a) => Job(x, a),
           \A a \in Plain : Engages(y, a) => Engages(x, a),
           \A k \in Kinds, a \in Plain :
             \A S : Shows(x, k, a) /\ Stands(x, k, a, S) => Stands(y, k, a, S)
    PROVE  Lighter(x, y)
<1>1. \A k \in Kinds, a \in Plain : Shows(y, k, a) = Shows(x, k, a)
  BY DEF Shows
<1>2. \A a \in Plain : Job(y, a) => Job(x, a)
  BY <1>1 DEF Job
<1> QED BY <1>1, <1>2 DEF Lighter, Easier, Calm, Placed

\* One ticket is changed to no new job.
LEMMA ActedOrderly ==
    ASSUME NEW d, NEW e, NEW t \in Tickets,
           \A u \in Tickets \ {t} : e.tickets[u] = d.tickets[u],
           Lighter(d.tickets[t], e.tickets[t])
    PROVE  Orderly(d, e)
<1>1. ASSUME NEW u \in Tickets PROVE Lighter(d.tickets[u], e.tickets[u])
  BY LighterSame
<1> QED BY <1>1, LighterOrderly

LEMMA ActedSeparate ==
    ASSUME NEW d, NEW e, NEW t \in Tickets, Separate(d),
           \A u \in Tickets \ {t} : e.tickets[u] = d.tickets[u],
           Easier(d.tickets[t], e.tickets[t])
    PROVE  Separate(e)
<1>1. ASSUME NEW u \in Tickets PROVE Easier(d.tickets[u], e.tickets[u])
  BY DEF Easier, Calm
<1>2. Apart(e)
  BY <1>1, LighterApart DEF Easier, Separate
<1>3. Unencumbered(e)
  BY <1>1 DEF Easier, Calm, Separate, Unencumbered, Clear
<1> QED BY <1>2, <1>3 DEF Separate

\* A ticket whose review lease is gone is no new job.
LEMMA FreedLighter ==
    ASSUME NEW x, NEW y, y.offer = x.offer, y.status = x.status,
           y.claimed_by = x.claimed_by, y.lease = x.lease, y.parked = x.parked,
           y.submitted_by = x.submitted_by, y.reviewer = NoAgent, y.review_lease = "none"
    PROVE  Lighter(x, y)
<1>1. PreSubmission(y) = PreSubmission(x) /\ ~ReviewLeaseIsLive(y)
  BY DEF PreSubmission, ReviewLeaseIsLive
<1>2. \A a \in Plain : Working(y, a) \/ Reviewing(y, a) => Job(x, a)
  BY <1>1 DEF Working, Reviewing, Job
<1>3. \A a \in Plain : Engages(y, a) => Engages(x, a)
  BY <1>1 DEF Engages, Holds, inactive_work_ownership_is_ambiguous, Inactive,
     HasLeaseFields, AmbiguousLiveLease
<1>4. \A k \in Kinds, a \in Plain : \A S : Stands(x, k, a, S) => Stands(y, k, a, S)
  BY <1>1 DEF Stands, Reviewing, Independent
<1> QED BY <1>2, <1>3, <1>4, LighterIs

\* A ticket whose review is given up.
LEMMA FreedGood ==
    ASSUME NEW x \in GoodTickets
    PROVE  LET y == [x EXCEPT !.reviewer = NoAgent, !.review_lease = "none"]
           IN  y \in GoodTickets /\ y.offer = x.offer
<1> DEFINE y == [x EXCEPT !.reviewer = NoAgent, !.review_lease = "none"]
<1>1. x \in Record
  BY DEF GoodTickets
<1>2. y \in Record /\ y.offer = x.offer
  BY ZenonT(30), <1>1 DEF Record, Someone, Leases
<1>3. Good(y)
  BY <1>1 DEF GoodTickets, Good, Owned, Offering, Offered, PreSubmission, Record
<1> QED BY <1>2, <1>3 DEF GoodTickets

\* What is done to one ticket when its leases end.
LEMMA ReviewReaped ==
    ASSUME NEW d \in Docs, NEW t \in Tickets, NEW redispatch, NEW first
    PROVE  LET e == ReapReviewLease(d, t, redispatch, first)
           IN  /\ e \in Docs /\ e.members = d.members
               /\ \A u \in Tickets \ {t} : e.tickets[u] = d.tickets[u]
               /\ Ended(d.tickets[t], e.tickets[t])
               /\ e.tickets[t].review_lease # "lapsed"
               /\ Orderly(d, e)
<1> DEFINE x == d.tickets[t]
           y == [x EXCEPT !.reviewer = NoAgent, !.review_lease = "none"]
           m == [d EXCEPT !.tickets[t] = y]
           e == Redispatched(redispatch, m, t, "review", first)
<1>1. CASE x.review_lease # "lapsed"
  BY <1>1 DEF ReapReviewLease, Ended, Kept, Orderly
<1>2. CASE x.review_lease = "lapsed"
  <2>1. ReapReviewLease(d, t, redispatch, first) = e
    <3>1. [d EXCEPT !.tickets[t].reviewer = NoAgent, !.tickets[t].review_lease = "none"] = m
      BY DEF Docs
    <3> HIDE DEF m
    <3> QED BY <1>2, <3>1 DEF ReapReviewLease
  <2>2. x \in GoodTickets /\ x \in Record
    BY DocTicket DEF GoodTickets
  <2>3. y \in GoodTickets
    <3> HIDE DEF x
    <3> QED BY <2>2, FreedGood
  <2>4. /\ m \in Docs /\ m.members = d.members
        /\ m.tickets[t] = y /\ \A u \in Tickets \ {t} : m.tickets[u] = d.tickets[u]
    <3> HIDE DEF y
    <3> QED BY <2>3 DEF Docs
  <2>5. Tends(m, t, e)
    <3> HIDE DEF m
    <3> QED BY <2>4, DispatchTends, TendsSame DEF Redispatched, Dispatch, Kinds
  <2>6. y.review_lease = "none"
    BY <2>2 DEF Record
  <2>7. Ended(x, e.tickets[t]) /\ e.tickets[t].review_lease # "lapsed"
    <3>1. Kept(y, e.tickets[t])
      BY <2>4, <2>5 DEF Tends
    <3>2. e.tickets[t].review_lease = "none"
      <4> HIDE DEF e, y
      <4> QED BY <2>6, <3>1 DEF Kept
    <3> HIDE DEF e
    <3> QED BY <1>2, <3>1, <3>2 DEF Ended
  <2>8. Orderly(d, m)
    <3>1. /\ y.offer = x.offer /\ y.status = x.status /\ y.claimed_by = x.claimed_by
          /\ y.lease = x.lease /\ y.reviewer = NoAgent /\ y.review_lease = "none"
          /\ y.parked = x.parked /\ y.submitted_by = x.submitted_by
      BY <2>2 DEF Record
    <3> HIDE DEF m, y
    <3>2. Lighter(x, y)
      BY <3>1, FreedLighter
    <3> QED BY <2>4, <3>2, ActedOrderly
  <2>9. Orderly(d, e)
    <3> HIDE DEF m, e
    <3> QED BY <2>5, <2>8, TendsOrderly DEF Orderly
  <2> HIDE DEF e, m, x
  <2> QED BY <2>1, <2>4, <2>5, <2>7, <2>9 DEF Tends, x
<1> QED BY <1>1, <1>2

\* A ticket whose work lease is dropped and that is open again.
LEMMA ReopenGood ==
    ASSUME NEW x \in GoodTickets, PreSubmission(x)
    PROVE  LET y == [WithoutWorkLease(x) EXCEPT !.status = "open", !.for_human = FALSE]
           IN  y \in GoodTickets /\ y.status = "open" /\ y.review_lease = x.review_lease
<1> DEFINE last == IF x.claimed_by # NoAgent THEN x.claimed_by ELSE x.last_claimed_by
           z == [x EXCEPT !.last_claimed_by = last, !.claimed_by = NoAgent, !.lease = "none",
                          !.status = "open", !.for_human = FALSE]
<1>1. last \in Someone /\ NoAgent \in Someone /\ "none" \in Leases /\ x \in Record
      /\ "open" \in Statuses
  BY DEF GoodTickets, Record, Someone, Leases, Statuses
<1>2. [WithoutWorkLease(x) EXCEPT !.status = "open", !.for_human = FALSE] = z
  BY <1>1 DEF WithoutWorkLease, Record
<1>3. z \in Record
  <2> HIDE DEF last
  <2> QED BY <1>1 DEF Record
<1>4. Owned(z) /\ z.status = "open" /\ z.review_lease = x.review_lease
  <2>1. x.reviewer = NoAgent
    BY DEF GoodTickets, Good, Owned, PreSubmission, PRE_SUBMISSION_STATES
  <2> HIDE DEF last
  <2> QED BY <1>1, <2>1 DEF GoodTickets, Good, Owned, PreSubmission, PRE_SUBMISSION_STATES, Record
<1>5. ASSUME NEW k \in Kinds PROVE Offering(z, k)
  <2> HIDE DEF last
  <2> QED BY <1>1 DEF GoodTickets, Good, Offering, Offered, Record
<1>6. z.pin_misses < Fallback
  <2> HIDE DEF last
  <2> QED BY <1>1 DEF GoodTickets, Good, Record
<1> HIDE DEF z
<1> QED BY <1>2, <1>3, <1>4, <1>5, <1>6 DEF GoodTickets, Good

LEMMA ReopenLighter ==
    ASSUME NEW x \in GoodTickets, PreSubmission(x)
    PROVE  Lighter(x, [WithoutWorkLease(x) EXCEPT !.status = "open", !.for_human = FALSE])
<1> DEFINE y == [WithoutWorkLease(x) EXCEPT !.status = "open", !.for_human = FALSE]
<1>1. /\ y.offer = x.offer /\ y.status = "open" /\ y.reviewer = x.reviewer
      /\ y.review_lease = x.review_lease /\ y.claimed_by = NoAgent /\ y.parked = x.parked
  BY DEF WithoutWorkLease, GoodTickets, Record
<1>2. ~PreSubmission(y) /\ x.status # "submitted"
  BY <1>1 DEF PreSubmission, PRE_SUBMISSION_STATES
<1> HIDE DEF y
<1>3. \A a \in Plain : Working(y, a) \/ Reviewing(y, a) => Job(x, a)
  BY <1>1, <1>2 DEF Working, Reviewing
<1>4. \A a \in Plain : Engages(y, a) => Engages(x, a)
  BY <1>1, PlainFacts DEF Engages, Holds, ReviewLeaseIsLive
<1>5. \A k \in Kinds, a \in Plain : \A S : Stands(x, k, a, S) => Stands(y, k, a, S)
  BY <1>1, <1>2 DEF Stands, Kinds
<1> QED BY <1>1, <1>3, <1>4, <1>5, LighterIs DEF y

LEMMA WorkReaped ==
    ASSUME NEW d \in Docs, NEW t \in Tickets, NEW redispatch, NEW first,
           d.tickets[t].review_lease # "lapsed"
    PROVE  ReapsOne(d, t, ReapWorkLease(d, t, redispatch, first))
<1> DEFINE x == d.tickets[t]
           y == [WithoutWorkLease(x) EXCEPT !.status = "open", !.for_human = FALSE]
           m == [d EXCEPT !.tickets[t] = y]
           e == Redispatched(redispatch, m, t, "work", first)
<1>1. CASE ~(PreSubmission(x) /\ x.lease = "lapsed")
  BY <1>1 DEF ReapWorkLease, ReapsOne, Ended, Kept, HasLapsedLease, Orderly
<1>2. CASE PreSubmission(x) /\ x.lease = "lapsed"
  <2>1. ReapWorkLease(d, t, redispatch, first) = e
    <3>1. [d EXCEPT !.tickets[t] =
             [WithoutWorkLease(@) EXCEPT !.status = "open", !.for_human = FALSE]] = m
      BY DEF Docs
    <3> HIDE DEF m
    <3> QED BY <1>2, <3>1 DEF ReapWorkLease
  <2>2. x \in GoodTickets
    BY DocTicket
  <2>3. y \in GoodTickets /\ y.status = "open" /\ y.review_lease = x.review_lease
    <3> HIDE DEF x
    <3> QED BY <1>2, <2>2, ReopenGood
  <2>4. /\ m \in Docs /\ m.members = d.members
        /\ m.tickets[t] = y /\ \A u \in Tickets \ {t} : m.tickets[u] = d.tickets[u]
    <3> HIDE DEF y
    <3> QED BY <2>3 DEF Docs
  <2>5. Tends(m, t, e)
    <3> HIDE DEF m
    <3> QED BY <2>4, DispatchTends, TendsSame DEF Redispatched, Dispatch, Kinds
  <2>6. Ended(x, e.tickets[t]) /\ ~HasLapsedLease(e.tickets[t])
    <3>1. Kept(y, e.tickets[t])
      BY <2>4, <2>5 DEF Tends
    <3> HIDE DEF e, y
    <3> QED BY <1>2, <2>3, <3>1
            DEF Ended, HasLapsedLease, Kept, PreSubmission, PRE_SUBMISSION_STATES
  <2>7. Orderly(d, m)
    <3>1. Lighter(x, y)
      <4> HIDE DEF x
      <4> QED BY <1>2, <2>2, ReopenLighter
    <3> HIDE DEF m, y
    <3> QED BY <2>4, <3>1, ActedOrderly
  <2>8. Orderly(d, e)
    <3> HIDE DEF m, e
    <3> QED BY <2>5, <2>7, TendsOrderly DEF Orderly
  <2> HIDE DEF e, m, x
  <2> QED BY <2>1, <2>4, <2>5, <2>6, <2>8 DEF Tends, ReapsOne, x
<1> QED BY <1>1, <1>2

\* What reap_expired does to one ticket.
LEMMA TicketReaped ==
    ASSUME NEW d \in Docs, NEW t \in Tickets, NEW redispatch, NEW first
    PROVE  ReapsOne(d, t, ReapTicket(d, t, redispatch, first))
<1> DEFINE r == reconcile_inactive_work_ownership(d, t)
           o == expire_dispatch_offers(r, t, redispatch, first)
           v == ReapReviewLease(o, t, redispatch, first)
           w == ReapWorkLease(v, t, redispatch, first)
<1>1. Tends(d, t, r) /\ r \in Docs
  BY ReconcileTends DEF Tends
<1>2. Tends(r, t, o) /\ o \in Docs
  <2> HIDE DEF r
  <2> QED BY <1>1, ExpireOffersTend DEF Tends
<1>3. /\ v \in Docs /\ v.members = o.members
      /\ \A u \in Tickets \ {t} : v.tickets[u] = o.tickets[u]
      /\ Ended(o.tickets[t], v.tickets[t]) /\ v.tickets[t].review_lease # "lapsed"
      /\ Orderly(o, v)
  <2> HIDE DEF o
  <2> QED BY <1>2, ReviewReaped
<1>4. ReapsOne(v, t, w)
  <2> HIDE DEF v
  <2> QED BY <1>3, WorkReaped
<1>5. ReapTicket(d, t, redispatch, first) = w
  BY DEF ReapTicket
<1>6. Ended(d.tickets[t], w.tickets[t])
  <2> HIDE DEF r, o, v, w
  <2>1. Tends(d, t, o)
    BY <1>1, <1>2, TendsTwice
  <2>2. Ended(d.tickets[t], o.tickets[t])
    BY <2>1 DEF Tends, Ended
  <2>3. Ended(d.tickets[t], v.tickets[t])
    BY <1>2, <1>3, <2>2, DocTicket, EndedTwice
  <2> QED BY <1>3, <1>4, <2>3, DocTicket, EndedTwice DEF ReapsOne
<1>7. Orderly(d, w)
  <2> HIDE DEF r, o, v, w
  <2>1. Orderly(d, r) /\ Orderly(r, o)
    BY <1>1, <1>2, TendsOrderly
  <2> QED BY <1>3, <1>4, <2>1 DEF ReapsOne, Orderly
<1> HIDE DEF r, o, v, w
<1> QED BY <1>1, <1>2, <1>3, <1>4, <1>5, <1>6, <1>7 DEF Tends, ReapsOne

\* A reap pass, ticket by ticket.
LEMMA ReapPass ==
    ASSUME NEW d \in Docs, NEW redispatch, NEW first
    PROVE  \E f : /\ f[0] = auto_stale_members(d, redispatch, first)
                  /\ \A i \in 0..Len(Created) : f[i] \in Docs
                  /\ \A i \in 1..Len(Created) :
                       f[i] = ReapTicket(f[i - 1], Created[i], redispatch, first)
                  /\ reap_expired(d, redispatch, first)
                       = RedispatchedQueue(redispatch, f[Len(Created)], first)
<1> DEFINE d0 == auto_stale_members(d, redispatch, first)
           n == Len(Created)
           seq == Created
           Step(e, t) == ReapTicket(e, t, redispatch, first)
           g == [p \in Docs \X (1..n) |-> Step(p[1], seq[p[2]])]
<1>1. ASSUME NEW e \in Docs, NEW i \in 1..n PROVE Step(e, seq[i]) \in Docs
  <2>1. seq[i] \in Tickets
    BY QueueFacts
  <2> QED BY <2>1, TicketReaped DEF ReapsOne
<1>2. d0 \in Docs /\ n \in Nat
  BY AutoStaleKeeps, QueueFacts DEF Keeps
<1> HIDE DEF d0
<1>3. g \in [Docs \X (1..n) -> Docs]
  <2> HIDE DEF Step, n
  <2> QED BY <1>1
<1>4. PICK h : IsPass(h, n, Docs, d0, g)
  <2> HIDE DEF g, n
  <2> QED BY <1>2, <1>3, PassExists
<1> DEFINE f == CHOOSE f : f = [i \in 0..n |-> IF i = 0 THEN d0 ELSE Step(f[i - 1], seq[i])]
<1>5. h = [i \in 0..n |-> IF i = 0 THEN d0 ELSE Step(h[i - 1], seq[i])]
  <2> HIDE DEF Step, n
  <2>1. ASSUME NEW i \in 1..n PROVE h[i] = Step(h[i - 1], seq[i])
    <3>1. i - 1 \in 0..n
      BY <1>2
    <3>2. h[i - 1] \in Docs /\ h[i] = g[<<h[i - 1], i>>]
      BY <1>4, <3>1 DEF IsPass
    <3> QED BY <3>2
  <2> HIDE DEF g
  <2> QED BY <1>2, <1>4, <2>1 DEF IsPass
<1>6. f = [i \in 0..n |-> IF i = 0 THEN d0 ELSE Step(f[i - 1], seq[i])]
  <2> HIDE DEF Step, n
  <2> QED BY <1>5
<1>7. f[0] = d0 /\ \A i \in 1..n : f[i] = Step(f[i - 1], seq[i])
  <2> HIDE DEF Step, n, f
  <2> QED BY <1>2, <1>6
<1>8. \A i \in 0..n : f[i] \in Docs
  <2> HIDE DEF Step, n, f
  <2> QED BY <1>1, <1>2, <1>7, PassStays
<1>9. reap_expired(d, redispatch, first) = RedispatchedQueue(redispatch, f[n], first)
  BY DEF reap_expired, Along, d0
<1> HIDE DEF f
<1> QED BY <1>7, <1>8, <1>9 DEF d0

\* A reap ends lapsed leases and nothing else, and leaves none.
LEMMA ReapEnds ==
    ASSUME NEW d \in Docs, NEW redispatch, NEW first
    PROVE  LET e == reap_expired(d, redispatch, first)
           IN  Reaps(d, e) /\ Fresh(e)
<1> DEFINE n == Len(Created)
           seq == Created
           d0 == auto_stale_members(d, redispatch, first)
<1>1. PICK f : /\ f[0] = d0
               /\ \A i \in 0..n : f[i] \in Docs
               /\ \A i \in 1..n : f[i] = ReapTicket(f[i - 1], seq[i], redispatch, first)
               /\ reap_expired(d, redispatch, first) = RedispatchedQueue(redispatch, f[n], first)
  BY ReapPass
<1>2. n \in Nat /\ \A i \in 1..n : seq[i] \in Tickets
  BY QueueFacts
<1>3. Reaps(d, d0)
  BY AutoStaleKeeps, KeepsReaps
<1>4. Tickets = {seq[i] : i \in 1..n}
  BY QueueFacts
<1> HIDE DEF n, seq, d0
<1> DEFINE S == {i \in 0..n : /\ Reaps(d, f[i])
                              /\ \A j \in 1..i : ~HasLapsedLease(f[i].tickets[seq[j]])}
<1>5. 0 \in S
  BY <1>1, <1>2, <1>3
<1>6. ASSUME NEW i \in 1..n, i - 1 \in S PROVE i \in S
  <2> DEFINE e == f[i - 1]
             t == seq[i]
             y == f[i]
  <2>1. /\ i \in 0..n /\ i - 1 \in 0..n /\ Reaps(d, e) /\ e \in Docs /\ t \in Tickets
        /\ \A j \in 1..(i - 1) : ~HasLapsedLease(e.tickets[seq[j]])
    BY <1>1, <1>2, <1>6
  <2>2. ReapsOne(e, t, y)
    BY <1>1, <2>1, TicketReaped
  <2>3. Reaps(d, y)
    <3> HIDE DEF e, t, y
    <3> QED BY <2>1, <2>2, OneReaped, ReapsTwice
  <2>4. ASSUME NEW j \in 1..i PROVE ~HasLapsedLease(y.tickets[seq[j]])
    <3>1. CASE seq[j] = t
      BY <2>2, <3>1 DEF ReapsOne
    <3>2. CASE seq[j] # t
      <4>1. j \in 1..(i - 1) /\ j \in 1..n
        BY <1>2, <3>2
      <4> HIDE DEF e, t, y
      <4> QED BY <1>2, <2>1, <2>2, <3>2, <4>1 DEF ReapsOne
    <3> QED BY <3>1, <3>2
  <2> QED BY <2>1, <2>3, <2>4
<1>7. n \in S
  <2> HIDE DEF S
  <2> QED BY <1>2, <1>5, <1>6, Climb
<1> DEFINE s == f[n]
           e == RedispatchedQueue(redispatch, s, first)
<1>8. s \in Docs /\ Reaps(d, s) /\ Fresh(s)
  BY <1>4, <1>7 DEF Fresh, Reaps
<1> HIDE DEF s
<1>9. Keeps(s, e)
  BY <1>8, RedispatchKeeps, KeepsSame DEF RedispatchedQueue
<1> HIDE DEF e
<1> QED BY <1>1, <1>8, <1>9, KeepsReaps, KeepsFresh, ReapsTwice DEF e, s

-----------------------------------------------------------------------------
(* What every call does before and after it acts *)

\* Every lease of a fresh document that a call renews is live already.
LEMMA RenewHeldKeeps ==
    ASSUME NEW d \in Docs, Fresh(d), NEW seats
    PROVE  LET e == RenewHeld(d, seats)
           IN  Keeps(d, e) /\ e.members = d.members /\ e.tickets = d.tickets
<1> DEFINE given == {t \in Tickets : PreSubmission(d.tickets[t]) /\ d.tickets[t].claimed_by \in seats}
           h == [t \in Tickets |-> IF t \in given THEN RenewLease(d.tickets[t])
                                                  ELSE d.tickets[t]]
<1>1. ASSUME NEW t \in Tickets PROVE Tidied(d.tickets[t], h[t]) /\ h[t] = d.tickets[t]
  <2>1. CASE t \in given
    <3>1. d.tickets[t] \in Record /\ d.tickets[t].lease = "live"
      BY <2>1, DocTicket DEF Fresh, HasLapsedLease, GoodTickets, Good, Owned, Record, Leases
    <3>2. RenewLease(d.tickets[t]) = d.tickets[t]
      BY <3>1 DEF RenewLease, Record
    <3> QED BY <3>2, DocTicket, TidiedSame
  <2>2. CASE t \notin given
    BY <2>2, DocTicket, TidiedSame
  <2> QED BY <2>1, <2>2
<1>2. h = [t \in Tickets |-> h[t]]
  OBVIOUS
<1>4. h = d.tickets
  <2> HIDE DEF given
  <2> QED BY <1>1 DEF Docs
<1>3. RenewHeld(d, seats) = [d EXCEPT !.tickets = Tabulated(h)]
  BY DEF RenewHeld, UpdateEach, Docs
<1> HIDE DEF h
<1> QED BY <1>1, <1>2, <1>3, <1>4, TabulatedIs, EachTidied

LEMMA RenewReviewsKeep ==
    ASSUME NEW d \in Docs, Fresh(d), NEW a \in Agents
    PROVE  Keeps(d, RenewReviews(d, a))
<1> DEFINE given == {t \in Tickets : d.tickets[t].status = "submitted" /\ d.tickets[t].reviewer = a}
           h == [t \in Tickets |-> IF t \in given THEN RenewReview(d.tickets[t])
                                                  ELSE d.tickets[t]]
<1>1. ASSUME NEW t \in Tickets PROVE Tidied(d.tickets[t], h[t])
  <2>1. CASE t \in given
    <3>1. d.tickets[t] \in Record /\ d.tickets[t].review_lease = "live"
      BY <2>1, DocTicket, DispatchAssumption
         DEF Fresh, HasLapsedLease, GoodTickets, Good, Owned, Record, Leases
    <3>2. RenewReview(d.tickets[t]) = d.tickets[t]
      BY <3>1 DEF RenewReview, Record
    <3> QED BY <3>2, DocTicket, TidiedSame
  <2>2. CASE t \notin given
    BY <2>2, DocTicket, TidiedSame
  <2> QED BY <2>1, <2>2
<1>2. h = [t \in Tickets |-> h[t]]
  OBVIOUS
<1>3. RenewReviews(d, a) = [d EXCEPT !.tickets = Tabulated(h)]
  BY DEF RenewReviews, UpdateEach, Docs
<1> HIDE DEF h
<1> QED BY <1>1, <1>2, <1>3, TabulatedIs, EachTidied

\* A member that changes is no change of any ticket.
LEMMA MemberKeeps ==
    ASSUME NEW d \in Docs, NEW a \in Agents, NEW m \in Member,
           m.lifecycle = "active" /\ a \in Plain => IsActive(d, a)
    PROVE  Keeps(d, [d EXCEPT !.members[a] = m])
<1> DEFINE e == [d EXCEPT !.members[a] = m]
<1>1. e \in Docs /\ e.tickets = d.tickets
  BY DEF Docs
<1>2. \A b \in Agents : e.members[b] = IF b = a THEN m ELSE d.members[b]
  BY DEF Docs
<1> HIDE DEF e
<1>3. Present(e) \subseteq Present(d)
  BY <1>2, PlainFacts DEF Present, IsActive
<1> QED BY <1>1, <1>3, SameTicketsKeep DEF e

LEMMA TouchKeeps ==
    ASSUME NEW d \in Docs, Fresh(d), NEW a \in Agents
    PROVE  Keeps(d, touch_actor(d, a)) /\ touch_actor(d, a).tickets = d.tickets
<1> DEFINE m == [d.members[a] EXCEPT !.idle = FALSE, !.live = TRUE]
           e == [d EXCEPT !.members[a] = m]
<1>1. [d EXCEPT !.members[a].idle = FALSE, !.members[a].live = TRUE] = e
  BY DEF Docs, Member
<1>2. Keeps(d, e)
  <2>1. m \in Member /\ m.lifecycle = d.members[a].lifecycle
    BY DEF Docs, Member
  <2> HIDE DEF m
  <2> QED BY <2>1, MemberKeeps DEF IsActive
<1>5. e.tickets = d.tickets
  BY DEF Docs
<1>3. Keeps(e, RenewHeld(e, {a})) /\ RenewHeld(e, {a}).tickets = d.tickets
  <2> HIDE DEF e
  <2> QED BY <1>2, <1>5, KeepsFresh, RenewHeldKeeps DEF Keeps
<1>4. touch_actor(d, a) = RenewHeld(e, {a})
  BY <1>1 DEF touch_actor
<1> HIDE DEF e
<1> QED BY <1>2, <1>3, <1>4, KeepsTwice

\* What a call sees of the board once it is prepared, or has reaped.
View(d) == Reaps(board, d) /\ Fresh(d)

LEMMA ReapedView == ASSUME IInv, NEW first PROVE View(Reaped(first)) /\ View(ClaimView(first))
  BY ReapEnds DEF View, Reaped, ClaimView, IInv

LEMMA KeepsView ==
    ASSUME IInv, NEW d, NEW e, View(d), Keeps(d, e)
    PROVE  View(e)
  BY KeepsReaps, ReapsTwice, KeepsFresh DEF View, IInv

LEMMA PreparedView == ASSUME IInv, NEW first, NEW a \in Agents PROVE View(Prepared(a, first))
<1> DEFINE d == Reaped(first)
<1>1. View(d) /\ d \in Docs /\ Fresh(d)
  BY ReapedView DEF View, Reaps
<1>2. Prepared(a, first) = touch_actor(d, a)
  BY DEF Prepared, prepare_board_call, Reaped
<1> HIDE DEF d
<1> QED BY <1>1, <1>2, TouchKeeps, KeepsView

LEMMA ClaimerView ==
    ASSUME IInv, NEW d, View(d), NEW a \in Agents
    PROVE  View(TouchClaimer(d, a)) /\ Keeps(d, TouchClaimer(d, a))
           /\ TouchClaimer(d, a).tickets = d.tickets
<1>1. d \in Docs /\ Fresh(d)
  BY DEF View, Reaps
<1>2. Keeps(d, TouchClaimer(d, a)) /\ TouchClaimer(d, a).tickets = d.tickets
  BY <1>1, TouchKeeps, KeepsSame DEF TouchClaimer
<1> QED BY <1>2, KeepsView

\* A ticket moves as TicketLease allows.
Moved(x, y) == Ownership(y) \in Promise!Moves(Ownership(x))

Goes(e) == e \in Docs /\ \A t \in Tickets : Moved(board.tickets[t], e.tickets[t])

Advances(e) == Goes(e) /\ Seated(e)

\* Nobody holds a ticket in a state that nobody works in.
LEMMA UnheldIs ==
    ASSUME NEW y, y.status \in {"missing", "open", "rejected", "canceled", "needs_human"}
    PROVE  Ownership(y) = Promise!Unheld(y.status)
  BY DEF Ownership, Promise!Unheld, PreSubmission, PRE_SUBMISSION_STATES

\* A ticket under review belongs to its author and to its reviewer.
LEMMA SubmittedIs ==
    ASSUME NEW y, y.status = "submitted"
    PROVE  Ownership(y) =
             [status |-> "submitted", holder |-> NoAgent, lease |-> "none",
              author |-> y.submitted_by, reviewer |-> y.reviewer,
              review_lease |-> y.review_lease, approver |-> NoAgent]
  BY DEF Ownership, PreSubmission, PRE_SUBMISSION_STATES

\* A ticket that is worked on belongs to its holder.
LEMMA WorkingIs ==
    ASSUME NEW y, PreSubmission(y)
    PROVE  Ownership(y) =
             [status |-> y.status, holder |-> y.claimed_by, lease |-> y.lease,
              author |-> NoAgent, reviewer |-> NoAgent,
              review_lease |-> "none", approver |-> NoAgent]
  BY DEF Ownership, PreSubmission, PRE_SUBMISSION_STATES

\* What TicketLease sees of a good ticket is well typed, and equal field by field.
LEMMA OwnershipType ==
    ASSUME NEW x \in GoodTickets
    PROVE  Ownership(x) \in Promise!Ticket
<1>1. x \in Record /\ NoAgent \in Someone /\ "none" \in Leases
  BY DEF GoodTickets, Someone, Leases
<1>2. Promise!Ticket =
        [status : Statuses, holder : Someone, lease : Leases, author : Someone,
         reviewer : Someone, review_lease : Leases, approver : Someone]
  BY DEF Promise!Ticket, Promise!Status, Promise!Somebody, Promise!Lease, Promise!Working,
         Promise!Terminal, Statuses, Someone, Leases, PRE_SUBMISSION_STATES,
         TERMINAL_TICKET_STATES
<1> QED BY <1>1, <1>2 DEF Ownership, Record

LEMMA SameOwnership ==
    ASSUME NEW p \in Promise!Ticket, NEW q \in Promise!Ticket,
           p.status = q.status, p.holder = q.holder, p.lease = q.lease,
           p.author = q.author, p.reviewer = q.reviewer,
           p.review_lease = q.review_lease, p.approver = q.approver
    PROVE  p = q
  BY DEF Promise!Ticket

\* A review begins, goes on or ends.
LEMMA ReviewIs ==
    ASSUME NEW x \in GoodTickets, NEW y \in GoodTickets, x.status = "submitted",
           y.status = "submitted", y.submitted_by = x.submitted_by
    PROVE  Ownership(y) = [Ownership(x) EXCEPT !.reviewer = y.reviewer,
                                               !.review_lease = y.review_lease]
<1> DEFINE o == Ownership(x)
           q == Ownership(y)
           p == [o EXCEPT !.reviewer = y.reviewer, !.review_lease = y.review_lease]
<1>1. o \in Promise!Ticket /\ q \in Promise!Ticket
  BY OwnershipType
<1>2. q.reviewer = y.reviewer /\ q.review_lease = y.review_lease
  BY SubmittedIs
<1>3. p \in Promise!Ticket
  BY <1>1, <1>2 DEF Promise!Ticket
<1>4. /\ p.reviewer = y.reviewer /\ p.review_lease = y.review_lease
      /\ p.author = o.author /\ p.status = o.status /\ p.holder = o.holder
      /\ p.lease = o.lease /\ p.approver = o.approver
  BY <1>1 DEF Promise!Ticket
<1>5. /\ o.author = q.author /\ o.status = q.status /\ o.holder = q.holder
      /\ o.lease = q.lease /\ o.approver = q.approver
  BY SubmittedIs
<1> HIDE DEF p, o, q
<1>6. p = q
  BY <1>1, <1>2, <1>3, <1>4, <1>5, SameOwnership
<1> QED BY <1>6 DEF p, o, q

\* A ticket that was just claimed, submitted or approved, and one that is started.
LEMMA ClaimedIs ==
    ASSUME NEW y \in GoodTickets, y.status = "claimed", y.lease = "live", y.claimed_by \in Agents
    PROVE  Ownership(y) = [Promise!Unheld("claimed") EXCEPT !.holder = y.claimed_by, !.lease = "live"]
<1> DEFINE q == Ownership(y)
           p == [Promise!Unheld("claimed") EXCEPT !.holder = y.claimed_by, !.lease = "live"]
<1>1. q \in Promise!Ticket
  BY OwnershipType
<1>2. /\ q.status = "claimed" /\ q.holder = y.claimed_by /\ q.lease = "live"
      /\ q.author = NoAgent /\ q.reviewer = NoAgent /\ q.review_lease = "none"
      /\ q.approver = NoAgent
  BY WorkingIs DEF PreSubmission, PRE_SUBMISSION_STATES
<1>3. p \in Promise!Ticket
  BY <1>1, <1>2 DEF Promise!Ticket, Promise!Unheld
<1>4. /\ p.status = "claimed" /\ p.holder = y.claimed_by /\ p.lease = "live"
      /\ p.author = NoAgent /\ p.reviewer = NoAgent /\ p.review_lease = "none"
      /\ p.approver = NoAgent
  BY DEF Promise!Unheld
<1> HIDE DEF p, q
<1>5. p = q
  BY <1>1, <1>2, <1>3, <1>4, SameOwnership
<1> QED BY <1>5 DEF p, q

LEMMA HandedInIs ==
    ASSUME NEW y \in GoodTickets, y.status = "submitted", y.reviewer = NoAgent,
           y.review_lease = "none"
    PROVE  Ownership(y) = [Promise!Unheld("submitted") EXCEPT !.author = y.submitted_by]
<1> DEFINE q == Ownership(y)
           p == [Promise!Unheld("submitted") EXCEPT !.author = y.submitted_by]
<1>1. q \in Promise!Ticket
  BY OwnershipType
<1>2. /\ q.status = "submitted" /\ q.holder = NoAgent /\ q.lease = "none"
      /\ q.author = y.submitted_by /\ q.reviewer = NoAgent /\ q.review_lease = "none"
      /\ q.approver = NoAgent
  BY SubmittedIs
<1>3. p \in Promise!Ticket
  BY <1>1, <1>2 DEF Promise!Ticket, Promise!Unheld
<1>4. /\ p.status = "submitted" /\ p.holder = NoAgent /\ p.lease = "none"
      /\ p.author = y.submitted_by /\ p.reviewer = NoAgent /\ p.review_lease = "none"
      /\ p.approver = NoAgent
  BY DEF Promise!Unheld
<1> HIDE DEF p, q
<1>5. p = q
  BY <1>1, <1>2, <1>3, <1>4, SameOwnership
<1> QED BY <1>5 DEF p, q

LEMMA ClosedIs ==
    ASSUME NEW y \in GoodTickets, y.status = "closed"
    PROVE  Ownership(y) = [Promise!Unheld("closed") EXCEPT !.author = y.submitted_by,
                                                           !.approver = y.reviewed_by]
<1> DEFINE q == Ownership(y)
           p == [Promise!Unheld("closed") EXCEPT !.author = y.submitted_by,
                                                 !.approver = y.reviewed_by]
<1>1. q \in Promise!Ticket
  BY OwnershipType
<1>2. /\ q.status = "closed" /\ q.holder = NoAgent /\ q.lease = "none"
      /\ q.author = y.submitted_by /\ q.reviewer = NoAgent /\ q.review_lease = "none"
      /\ q.approver = y.reviewed_by
  BY DEF Ownership, PreSubmission, PRE_SUBMISSION_STATES
<1>3. p \in Promise!Ticket
  BY <1>1, <1>2 DEF Promise!Ticket, Promise!Unheld
<1>4. /\ p.status = "closed" /\ p.holder = NoAgent /\ p.lease = "none"
      /\ p.author = y.submitted_by /\ p.reviewer = NoAgent /\ p.review_lease = "none"
      /\ p.approver = y.reviewed_by
  BY DEF Promise!Unheld
<1> HIDE DEF p, q
<1>5. p = q
  BY <1>1, <1>2, <1>3, <1>4, SameOwnership
<1> QED BY <1>5 DEF p, q

LEMMA StartedIs ==
    ASSUME NEW x \in GoodTickets, NEW y \in GoodTickets, x.status = "claimed",
           y.status = "in_progress", y.lease = x.lease, y.claimed_by = x.claimed_by
    PROVE  Ownership(y) = [Ownership(x) EXCEPT !.status = "in_progress"]
<1> DEFINE o == Ownership(x)
           q == Ownership(y)
           p == [o EXCEPT !.status = "in_progress"]
<1>1. o \in Promise!Ticket /\ q \in Promise!Ticket
  BY OwnershipType
<1>2. q.status = "in_progress"
  BY DEF Ownership
<1>3. p \in Promise!Ticket
  BY <1>1, <1>2 DEF Promise!Ticket
<1>4. /\ p.status = "in_progress" /\ p.reviewer = o.reviewer
      /\ p.review_lease = o.review_lease /\ p.author = o.author /\ p.holder = o.holder
      /\ p.lease = o.lease /\ p.approver = o.approver
  BY <1>1 DEF Promise!Ticket
<1>5. /\ o.author = q.author /\ o.holder = q.holder /\ o.lease = q.lease
      /\ o.approver = q.approver /\ o.reviewer = q.reviewer /\ o.review_lease = q.review_lease
  BY WorkingIs DEF PreSubmission, PRE_SUBMISSION_STATES
<1> HIDE DEF p, o, q
<1>6. p = q
  BY <1>1, <1>2, <1>3, <1>4, <1>5, SameOwnership
<1> QED BY <1>6 DEF p, o, q

\* A lease lapses.
LEMMA LapsedIs ==
    ASSUME NEW x \in GoodTickets, NEW y \in GoodTickets, PreSubmission(x),
           y.status = x.status, y.claimed_by = x.claimed_by, y.lease = "lapsed"
    PROVE  Ownership(y) = [Ownership(x) EXCEPT !.lease = "lapsed"]
<1> DEFINE o == Ownership(x)
           q == Ownership(y)
           p == [o EXCEPT !.lease = "lapsed"]
<1>1. o \in Promise!Ticket /\ q \in Promise!Ticket
  BY OwnershipType
<1>2. q.lease = "lapsed"
  BY WorkingIs DEF PreSubmission
<1>3. p \in Promise!Ticket
  BY <1>1, <1>2 DEF Promise!Ticket
<1>4. /\ p.lease = "lapsed" /\ p.reviewer = o.reviewer /\ p.status = o.status
      /\ p.review_lease = o.review_lease /\ p.author = o.author /\ p.holder = o.holder
      /\ p.approver = o.approver
  BY <1>1 DEF Promise!Ticket
<1>5. /\ o.author = q.author /\ o.holder = q.holder /\ o.status = q.status
      /\ o.approver = q.approver /\ o.reviewer = q.reviewer /\ o.review_lease = q.review_lease
  BY WorkingIs DEF PreSubmission
<1> HIDE DEF p, o, q
<1>6. p = q
  BY <1>1, <1>2, <1>3, <1>4, <1>5, SameOwnership
<1> QED BY <1>6 DEF p, o, q

LEMMA ReviewLapsedIs ==
    ASSUME NEW x \in GoodTickets, NEW y \in GoodTickets, x.status = "submitted",
           y.status = "submitted", y.submitted_by = x.submitted_by,
           y.reviewer = x.reviewer, y.review_lease = "lapsed"
    PROVE  Ownership(y) = [Ownership(x) EXCEPT !.review_lease = "lapsed"]
<1> DEFINE o == Ownership(x)
           q == Ownership(y)
           p == [o EXCEPT !.review_lease = "lapsed"]
<1>1. o \in Promise!Ticket /\ q \in Promise!Ticket
  BY OwnershipType
<1>2. q.review_lease = "lapsed"
  BY SubmittedIs
<1>3. p \in Promise!Ticket
  BY <1>1, <1>2 DEF Promise!Ticket
<1>4. /\ p.review_lease = "lapsed" /\ p.reviewer = o.reviewer /\ p.status = o.status
      /\ p.lease = o.lease /\ p.author = o.author /\ p.holder = o.holder
      /\ p.approver = o.approver
  BY <1>1 DEF Promise!Ticket
<1>5. /\ o.author = q.author /\ o.holder = q.holder /\ o.status = q.status
      /\ o.approver = q.approver /\ o.reviewer = q.reviewer /\ o.lease = q.lease
  BY SubmittedIs
<1> HIDE DEF p, o, q
<1>6. p = q
  BY <1>1, <1>2, <1>3, <1>4, <1>5, SameOwnership
<1> QED BY <1>6 DEF p, o, q

LEMMA KeptOwnership ==
    ASSUME NEW x, NEW y, Kept(x, y)
    PROVE  Ownership(y) = Ownership(x)
  BY DEF Kept, Ownership, PreSubmission

LEMMA KeptMoved == ASSUME NEW x, NEW y, Kept(x, y) PROVE Moved(x, y)
  BY KeptOwnership DEF Moved, Promise!Moves

LEMMA EndedMoved ==
    ASSUME NEW x \in GoodTickets, NEW y \in GoodTickets, Ended(x, y)
    PROVE  Moved(x, y)
<1> DEFINE f == [x EXCEPT !.reviewer = NoAgent, !.review_lease = "none"]
<1>0. x \in Record /\ Owned(x)
  BY DEF GoodTickets, Good
<1>1. CASE Kept(x, y)
  BY <1>1, KeptMoved
<1>2. CASE PreSubmission(x) /\ x.lease = "lapsed" /\ y.status = "open"
  <2>1. Ownership(y) = Promise!Unheld("open")
    BY <1>2, UnheldIs
  <2>2. Ownership(y) \in Promise!Release(Ownership(x))
    BY <1>2, <2>1 DEF Promise!Release, Promise!If, Promise!Working, Ownership, PreSubmission,
       PRE_SUBMISSION_STATES
  <2> QED BY <2>2 DEF Moved, Promise!Moves
<1>3. CASE x.review_lease = "lapsed" /\ Kept(f, y)
  <2>1. Ownership(y) = Ownership(f)
    BY <1>3, KeptOwnership
  <2>2. CASE x.status = "submitted"
    <3>1. Ownership(f) = [Ownership(x) EXCEPT !.reviewer = NoAgent, !.review_lease = "none"]
      <4>1. Ownership(y) = [Ownership(x) EXCEPT !.reviewer = y.reviewer,
                                                !.review_lease = y.review_lease]
        <5>1. y.status = "submitted" /\ y.submitted_by = x.submitted_by
          BY <1>0, <1>3, <2>2 DEF Kept, Record
        <5> QED BY <2>2, <5>1, ReviewIs
      <4>2. y.reviewer = NoAgent /\ y.review_lease = "none"
        BY <1>0, <1>3 DEF Kept, Record
      <4> HIDE DEF f
      <4> QED BY <2>1, <4>1, <4>2
    <3>2. Ownership(x).status = "submitted"
      BY <2>2 DEF Ownership
    <3> HIDE DEF f
    <3> QED BY <2>1, <3>1, <3>2 DEF Moved, Promise!Moves, Promise!ReviewEnd, Promise!If
  <2>3. CASE x.status # "submitted"
    <3>1. Ownership(f) = Ownership(x)
      BY <1>0, <2>3 DEF Ownership, Record, PreSubmission
    <3> QED BY <2>1, <3>1 DEF Moved, Promise!Moves
  <2> QED BY <2>2, <2>3
<1> QED BY <1>1, <1>2, <1>3 DEF Ended

\* An offer stands as well when fewer seats are active.
LEMMA FewerPlaced ==
    ASSUME NEW tk, NEW k, NEW S, NEW R, R \subseteq S, Placed(tk, k, S)
    PROVE  Placed(tk, k, R)
  BY DEF Placed, Stands

LEMMA OrderlySeparate ==
    ASSUME NEW d, NEW e, Separate(d), Orderly(d, e)
    PROVE  Separate(e)
  BY DEF Separate, Orderly, Unencumbered

LEMMA OrderlySeated ==
    ASSUME NEW d, NEW e, Seated(d), Orderly(d, e), Present(e) \subseteq Present(d)
    PROVE  Seated(e)
<1>1. ASSUME NEW t \in Tickets, NEW k \in Kinds
      PROVE  Placed(e.tickets[t], k, Present(e))
  BY FewerPlaced DEF Seated, Orderly
<1> QED BY <1>1, OrderlySeparate DEF Seated

LEMMA ReapsAdvance == ASSUME IInv, NEW e, Reaps(board, e) PROVE Advances(e)
<1>1. Goes(e)
  BY EndedMoved, DocTicket DEF IInv, Reaps, Goes
<1> QED BY <1>1, OrderlySeated DEF IInv, Reaps, Advances

LEMMA GoesKeeps ==
    ASSUME NEW d, NEW e, Goes(d), Keeps(d, e)
    PROVE  Goes(e)
  BY KeptOwnership DEF Goes, Keeps, Moved

LEMMA AdvancesKeeps ==
    ASSUME NEW d, NEW e, Advances(d), Keeps(d, e)
    PROVE  Advances(e)
  BY GoesKeeps, OrderlySeated DEF Advances, Keeps

\* After its reap a call changes one ticket, ...
LEMMA ActedGoes ==
    ASSUME IInv, NEW d, View(d), NEW t \in Tickets, NEW y \in GoodTickets,
           Moved(board.tickets[t], y)
    PROVE  LET e == [d EXCEPT !.tickets[t] = y]
           IN  /\ Goes(e) /\ e \in Docs /\ e.tickets[t] = y /\ e.members = d.members
               /\ \A u \in Tickets \ {t} : e.tickets[u] = d.tickets[u]
               /\ Seated(d)
<1>1. Goes(d) /\ d \in Docs /\ Seated(d)
  BY ReapsAdvance DEF View, Advances, Goes
<1> QED BY <1>1 DEF Goes, Docs

\* ... which is a new job for nobody.
LEMMA ActedAdvances ==
    ASSUME IInv, NEW d, View(d), NEW t \in Tickets, NEW y \in GoodTickets,
           Moved(board.tickets[t], y), Lighter(d.tickets[t], y)
    PROVE  LET e == [d EXCEPT !.tickets[t] = y]
           IN  Advances(e) /\ e.tickets[t] = y /\ e.members = d.members
<1> DEFINE e == [d EXCEPT !.tickets[t] = y]
<1>1. /\ Goes(e) /\ e.tickets[t] = y /\ e.members = d.members
      /\ \A u \in Tickets \ {t} : e.tickets[u] = d.tickets[u]
      /\ Seated(d)
  BY ActedGoes
<1>2. Orderly(d, e)
  <2> HIDE DEF e
  <2>1. Lighter(d.tickets[t], e.tickets[t])
    BY <1>1
  <2>2. \A u \in Tickets \ {t} : e.tickets[u] = d.tickets[u]
    BY <1>1
  <2> QED BY <2>1, <2>2, ActedOrderly
<1>3. Present(e) \subseteq Present(d)
  BY <1>1 DEF Present, IsActive
<1> HIDE DEF e
<1> QED BY <1>1, <1>2, <1>3, OrderlySeated DEF Advances, e

\* The seats on which the queue is redispatched are free of other jobs.
LEMMA QueueAdvances ==
    ASSUME NEW d, NEW e \in Docs, NEW first, Goes(d), Separate(d), Keeps(d, e)
    PROVE  Advances(redispatch_queue(e, first))
<1> DEFINE f == redispatch_queue(e, first)
<1>1. Keeps(e, f) /\ \A t \in Tickets, k \in Kinds : InPlace(f, t, k)
  BY RedispatchKeeps
<1> HIDE DEF f
<1>2. Goes(f) /\ Separate(f)
  BY <1>1, GoesKeeps, KeepsTwice, OrderlySeparate DEF Keeps
<1>3. Present(f) \subseteq Plain
  BY DEF Present
<1>4. \A t \in Tickets, k \in Kinds : Placed(f.tickets[t], k, Present(f))
  BY <1>1, <1>3, FewerPlaced DEF InPlace
<1> QED BY <1>2, <1>4 DEF Advances, Seated, f

\* A call that ends well is a good step.
Steps == board' \in Docs /\ board'.marked = {} /\ Seated(board')
         /\ \A t \in Tickets : Moved(board.tickets[t], board'.tickets[t])

LEMMA CommitSteps == ASSUME NEW d, Advances(d), Commit(d) PROVE Steps
<1>1. d \in Docs /\ Seated(d) /\ Goes(d)
  BY DEF Advances, Goes
<1>2. /\ board' \in Docs /\ board'.marked = {}
      /\ board'.tickets = d.tickets /\ board'.members = d.members
  BY <1>1 DEF Commit, Docs
<1>3. Seated(board')
  BY <1>1, <1>2 DEF Seated, Separate, Apart, Unencumbered, Clear, Present, IsActive
<1> QED BY <1>1, <1>2, <1>3 DEF Steps, Goes

LEMMA ViewSteps == ASSUME IInv, NEW d, View(d), Commit(d) PROVE Steps
  BY ReapsAdvance, CommitSteps DEF View

\* A commit after further passes that keep all owners.
LEMMA CommitKept ==
    ASSUME NEW d, NEW e, Advances(d), Keeps(d, e), Commit(e)
    PROVE  Steps
  BY AdvancesKeeps, CommitSteps

\* What the owners of a ticket were before the reap pass.
LEMMA Before ==
    ASSUME IInv, NEW d, View(d), NEW t \in Tickets
    PROVE  LET x == board.tickets[t]
               w == d.tickets[t]
           IN  /\ x \in GoodTickets /\ w \in GoodTickets /\ ~HasLapsedLease(w)
               /\ w.status = "missing" => x.status = "missing"
               /\ w.status = "needs_human" => x.status = "needs_human"
               /\ w.status = "open" =>
                    x.status = "open" \/ (PreSubmission(x) /\ x.lease = "lapsed")
               /\ PreSubmission(w) => Kept(x, w) /\ w.lease = "live" /\ w.claimed_by # NoAgent
               /\ w.status \notin TERMINAL_TICKET_STATES \cup {"missing"} =>
                    x.status \notin TERMINAL_TICKET_STATES \cup {"missing"}
               /\ w.status = "submitted" =>
                    /\ x.status = "submitted" /\ x.submitted_by = w.submitted_by
                    /\ x.review_lease = "live" =>
                         w.review_lease = "live" /\ w.reviewer = x.reviewer
<1> DEFINE x == board.tickets[t]
           w == d.tickets[t]
           f == [x EXCEPT !.reviewer = NoAgent, !.review_lease = "none"]
<1>1. x \in GoodTickets /\ w \in GoodTickets /\ ~HasLapsedLease(w) /\ Ended(x, w)
  BY DocTicket DEF IInv, View, Reaps, Fresh
<1>2. x \in Record /\ w \in Record /\ Owned(x) /\ Owned(w)
  BY <1>1 DEF GoodTickets, Good
<1>3. PreSubmission(w) => w.lease = "live" /\ w.claimed_by # NoAgent
  BY <1>1, <1>2 DEF Owned, HasLapsedLease, Record, Leases
<1> HIDE DEF w
<1>4. CASE Kept(x, w)
  BY <1>1, <1>3, <1>4 DEF Kept, PreSubmission, PRE_SUBMISSION_STATES, w
<1>5. CASE PreSubmission(x) /\ x.lease = "lapsed" /\ w.status = "open"
  BY <1>1, <1>3, <1>5 DEF PreSubmission, PRE_SUBMISSION_STATES, TERMINAL_TICKET_STATES, w
<1>6. CASE x.review_lease = "lapsed" /\ Kept(f, w)
  <2>1. x.status \in {"submitted", "canceled"} /\ w.status = x.status
        /\ w.submitted_by = x.submitted_by
    BY <1>2, <1>6 DEF Owned, Kept, Record
  <2> QED BY <1>1, <1>3, <1>6, <2>1
          DEF PreSubmission, PRE_SUBMISSION_STATES, TERMINAL_TICKET_STATES, w
<1> QED BY <1>1, <1>4, <1>5, <1>6 DEF Ended

-----------------------------------------------------------------------------
(* The tickets that the handlers make *)

\* The values that the handlers write.
LEMMA Values ==
    /\ {"open", "claimed", "in_progress", "submitted", "needs_human", "closed", "rejected",
        "canceled"} \subseteq Statuses
    /\ {"none", "live", "lapsed"} \subseteq Leases
    /\ Agents \subseteq Someone /\ NoAgent \in Someone
  BY DEF Statuses, Leases, Someone, PRE_SUBMISSION_STATES, TERMINAL_TICKET_STATES

\* A ticket is created, perhaps for one seat.
LEMMA GoodCreated ==
    ASSUME NEW x \in GoodTickets, x.status = "missing", NEW pin \in Someone
    PROVE  LET y == [x EXCEPT !.status = "open", !.assigned_to = pin]
           IN  y \in GoodTickets /\ y.status = "open" /\ Lighter(x, y)
<1> DEFINE y == [x EXCEPT !.status = "open", !.assigned_to = pin]
<1>1. y \in Record
  BY Values DEF GoodTickets, Record
<1>2. Owned(y)
  BY DispatchAssumption DEF GoodTickets, Good, Owned, Independent, PreSubmission,
     PRE_SUBMISSION_STATES, TERMINAL_TICKET_STATES, Record
<1>3. ASSUME NEW k \in Kinds PROVE Offering(y, k)
  BY DEF GoodTickets, Good, Offering, Offered, Record
<1>4. y.pin_misses < Fallback
  BY DispatchAssumption DEF GoodTickets, Good, Record
<1>5. y.status = "open"
  BY DEF GoodTickets, Record
<1>6. y \in GoodTickets
  <2> HIDE DEF y
  <2> QED BY <1>1, <1>2, <1>3, <1>4 DEF GoodTickets, Good
<1>7. Lighter(x, y)
  <2>1. /\ y.offer = x.offer /\ y.status = "open" /\ y.lease = "none"
        /\ y.reviewer = NoAgent /\ y.review_lease = "none"
    BY DEF GoodTickets, Good, Owned, Record
  <2>5. \A k \in Kinds, a \in Plain : ~Shows(x, k, a)
    BY PlainFacts DEF GoodTickets, Good, Offering, Offered, Shows
  <2> HIDE DEF y
  <2>2. \A a \in Plain : Working(y, a) \/ Reviewing(y, a) => Job(x, a)
    BY <2>1, <2>5, PlainFacts DEF Job, Working, Reviewing, ReviewLeaseIsLive, PreSubmission, PRE_SUBMISSION_STATES
  <2>3. \A a \in Plain : Engages(y, a) => Engages(x, a)
    BY <2>1, <2>5, PlainFacts DEF Engages, Holds, inactive_work_ownership_is_ambiguous, Inactive,
         AmbiguousLiveLease, ReviewLeaseIsLive, PreSubmission, PRE_SUBMISSION_STATES,
         TERMINAL_TICKET_STATES
  <2>4. \A k \in Kinds, a \in Plain :
          \A S : Shows(x, k, a) /\ Stands(x, k, a, S) => Stands(y, k, a, S)
    BY <2>1, <2>5, PlainFacts DEF Stands, PreSubmission, PRE_SUBMISSION_STATES, Kinds
  <2> QED BY <2>1, <2>2, <2>3, <2>4, LighterIs
<1> QED BY <1>5, <1>6, <1>7

\* A ticket is claimed.
LEMMA GoodClaimed ==
    ASSUME NEW x \in GoodTickets, x.status = "open", NEW a \in Agents
    PROVE  LET y == [x EXCEPT !.status = "claimed", !.claimed_by = a, !.lease = "live"]
           IN  y \in GoodTickets /\ y.status = "claimed" /\ y.claimed_by = a /\ y.lease = "live"
               /\ y.offer = x.offer /\ y.reviewer = NoAgent
<1> DEFINE y == [x EXCEPT !.status = "claimed", !.claimed_by = a, !.lease = "live"]
<1>1. y \in Record
  BY Values DEF GoodTickets, Record
<1>2. Owned(y)
  BY DispatchAssumption DEF GoodTickets, Good, Owned, Independent, PreSubmission,
     PRE_SUBMISSION_STATES, TERMINAL_TICKET_STATES, Record
<1>3. ASSUME NEW k \in Kinds PROVE Offering(y, k)
  BY DEF GoodTickets, Good, Offering, Offered, Record
<1>4. y.pin_misses < Fallback
  BY DispatchAssumption DEF GoodTickets, Good, Record
<1>5. y.status = "claimed" /\ y.claimed_by = a /\ y.lease = "live"
      /\ y.offer = x.offer /\ y.reviewer = NoAgent
  BY DEF GoodTickets, Good, Owned, Record
<1>6. y \in GoodTickets
  <2> HIDE DEF y
  <2> QED BY <1>1, <1>2, <1>3, <1>4 DEF GoodTickets, Good
<1> QED BY <1>5, <1>6

\* Work on a claimed ticket starts.
LEMMA GoodStarted ==
    ASSUME NEW x \in GoodTickets, x.status = "claimed"
    PROVE  LET y == [x EXCEPT !.status = "in_progress", !.lease = "live"]
           IN  y \in GoodTickets /\ y.status = "in_progress" /\ y.claimed_by = x.claimed_by /\ y.lease = "live"
               /\ Lighter(x, y)
<1> DEFINE y == [x EXCEPT !.status = "in_progress", !.lease = "live"]
<1>1. y \in Record
  BY Values DEF GoodTickets, Record
<1>2. Owned(y)
  BY DispatchAssumption DEF GoodTickets, Good, Owned, Independent, PreSubmission,
     PRE_SUBMISSION_STATES, TERMINAL_TICKET_STATES, Record
<1>3. ASSUME NEW k \in Kinds PROVE Offering(y, k)
  BY DEF GoodTickets, Good, Offering, Offered, Record
<1>4. y.pin_misses < Fallback
  BY DispatchAssumption DEF GoodTickets, Good, Record
<1>5. y.status = "in_progress" /\ y.claimed_by = x.claimed_by /\ y.lease = "live"
  BY DEF GoodTickets, Record
<1>6. y \in GoodTickets
  <2> HIDE DEF y
  <2> QED BY <1>1, <1>2, <1>3, <1>4 DEF GoodTickets, Good
<1>7. Lighter(x, y)
  <2>1. /\ y.offer = x.offer /\ y.status = "in_progress" /\ y.claimed_by = x.claimed_by
        /\ y.reviewer = NoAgent /\ y.parked = x.parked
    BY DEF GoodTickets, Good, Owned, Record
  <2> HIDE DEF y
  <2>2. \A a \in Plain : Working(y, a) \/ Reviewing(y, a) => Job(x, a)
    BY <2>1, PlainFacts DEF Job, Working, Reviewing, ReviewLeaseIsLive, PreSubmission, PRE_SUBMISSION_STATES
  <2>3. \A a \in Plain : Engages(y, a) => Engages(x, a)
    BY <2>1, PlainFacts DEF Engages, Holds, inactive_work_ownership_is_ambiguous, Inactive,
         AmbiguousLiveLease, ReviewLeaseIsLive, PreSubmission, PRE_SUBMISSION_STATES,
         TERMINAL_TICKET_STATES
  <2>4. \A k \in Kinds, a \in Plain :
          \A S : Shows(x, k, a) /\ Stands(x, k, a, S) => Stands(y, k, a, S)
    BY <2>1, PlainFacts DEF Stands, PreSubmission, PRE_SUBMISSION_STATES, Kinds
  <2> QED BY <2>1, <2>2, <2>3, <2>4, LighterIs
<1> QED BY <1>5, <1>6, <1>7

\* Work is handed in.
LEMMA GoodSubmitted ==
    ASSUME NEW x \in GoodTickets, PreSubmission(x), NEW a \in Agents
    PROVE  LET y == [x EXCEPT !.status = "submitted", !.submitted_by = a, !.lease = "none"]
           IN  y \in GoodTickets
               /\ y.status = "submitted" /\ y.submitted_by = a /\ y.reviewer = x.reviewer
               /\ y.review_lease = x.review_lease
               /\ Easier(x, y)
<1> DEFINE y == [x EXCEPT !.status = "submitted", !.submitted_by = a, !.lease = "none"]
<1>1. y \in Record
  BY Values DEF GoodTickets, Record
<1>2. Owned(y)
  BY DispatchAssumption DEF GoodTickets, Good, Owned, Independent, PreSubmission,
     PRE_SUBMISSION_STATES, TERMINAL_TICKET_STATES, Record
<1>3. ASSUME NEW k \in Kinds PROVE Offering(y, k)
  BY DEF GoodTickets, Good, Offering, Offered, Record
<1>4. y.pin_misses < Fallback
  BY DispatchAssumption DEF GoodTickets, Good, Record
<1>5. y.status = "submitted" /\ y.submitted_by = a /\ y.reviewer = x.reviewer
               /\ y.review_lease = x.review_lease
  BY DEF GoodTickets, Record
<1>6. y \in GoodTickets
  <2> HIDE DEF y
  <2> QED BY <1>1, <1>2, <1>3, <1>4 DEF GoodTickets, Good
<1>7. Easier(x, y)
  <2>1. y.offer = x.offer /\ y.status = "submitted" /\ y.reviewer = NoAgent
    BY DEF GoodTickets, Good, Owned, Record, PreSubmission, PRE_SUBMISSION_STATES
  <2>2. ~PreSubmission(y) /\ ~Inactive(y)
    BY <2>1 DEF PreSubmission, PRE_SUBMISSION_STATES, Inactive, TERMINAL_TICKET_STATES
  <2> HIDE DEF y
  <2>3. \A b \in Plain : Job(y, b) => Job(x, b)
    BY <2>1, <2>2, PlainFacts DEF Job, Shows, Working, Reviewing
  <2>4. \A b \in Plain : ~Engages(y, b)
    BY <2>1, <2>2, PlainFacts DEF Engages, Holds, inactive_work_ownership_is_ambiguous
  <2> QED BY <2>1, <2>3, <2>4 DEF Easier, Calm, Shows
<1> QED BY <1>5, <1>6, <1>7

\* A review is claimed.
LEMMA GoodReviewed ==
    ASSUME NEW x \in GoodTickets, x.status = "submitted", NEW a \in Agents,
           Independent(x, a)
    PROVE  LET y == [x EXCEPT !.reviewer = a, !.review_lease = "live"]
           IN  y \in GoodTickets
               /\ y.status = "submitted" /\ y.submitted_by = x.submitted_by /\ y.reviewer = a
               /\ y.review_lease = "live" /\ y.offer = x.offer /\ y.parked = x.parked
<1> DEFINE y == [x EXCEPT !.reviewer = a, !.review_lease = "live"]
<1>1. y \in Record
  BY Values DEF GoodTickets, Record
<1>2. Owned(y)
  BY DispatchAssumption DEF GoodTickets, Good, Owned, Independent, PreSubmission,
     PRE_SUBMISSION_STATES, TERMINAL_TICKET_STATES, Record
<1>3. ASSUME NEW k \in Kinds PROVE Offering(y, k)
  BY DEF GoodTickets, Good, Offering, Offered, Record
<1>4. y.pin_misses < Fallback
  BY DispatchAssumption DEF GoodTickets, Good, Record
<1>5. y.status = "submitted" /\ y.submitted_by = x.submitted_by /\ y.reviewer = a
               /\ y.review_lease = "live" /\ y.offer = x.offer /\ y.parked = x.parked
  BY DEF GoodTickets, Record
<1>6. y \in GoodTickets
  <2> HIDE DEF y
  <2> QED BY <1>1, <1>2, <1>3, <1>4 DEF GoodTickets, Good
<1> QED BY <1>5, <1>6

\* A review is given back.
LEMMA GoodFreed ==
    ASSUME NEW x \in GoodTickets, NEW a \in Agents
    PROVE  LET y == [WithoutReviewLease(x) EXCEPT !.last_review_released_by = a]
           IN  y \in GoodTickets
               /\ y.status = x.status /\ y.submitted_by = x.submitted_by /\ y.reviewer = NoAgent
               /\ y.review_lease = "none" /\ Lighter(x, y)
<1> DEFINE y == [WithoutReviewLease(x) EXCEPT !.last_review_released_by = a]
<1>1. y \in Record
  BY Values DEF GoodTickets, Record, WithoutReviewLease
<1>2. Owned(y)
  BY DispatchAssumption DEF GoodTickets, Good, Owned, Independent, PreSubmission,
     PRE_SUBMISSION_STATES, TERMINAL_TICKET_STATES, Record, WithoutReviewLease
<1>3. ASSUME NEW k \in Kinds PROVE Offering(y, k)
  BY DEF GoodTickets, Good, Offering, Offered, Record, WithoutReviewLease
<1>4. y.pin_misses < Fallback
  BY DispatchAssumption DEF GoodTickets, Good, Record, WithoutReviewLease
<1>5. y.status = x.status /\ y.submitted_by = x.submitted_by /\ y.reviewer = NoAgent
               /\ y.review_lease = "none"
  BY DEF GoodTickets, Record, WithoutReviewLease
<1>6. y \in GoodTickets
  <2> HIDE DEF y
  <2> QED BY <1>1, <1>2, <1>3, <1>4 DEF GoodTickets, Good
<1>7. Lighter(x, y)
  <2>1. /\ y.offer = x.offer /\ y.status = x.status /\ y.claimed_by = x.claimed_by
        /\ y.lease = x.lease /\ y.parked = x.parked /\ y.submitted_by = x.submitted_by
        /\ y.reviewer = NoAgent /\ y.review_lease = "none"
    BY DEF GoodTickets, Record, WithoutReviewLease
  <2> HIDE DEF y
  <2> QED BY <2>1, FreedLighter
<1> QED BY <1>5, <1>6, <1>7

\* A verdict is given, for good or for another try; the offer was taken back before.
Judged(x, status, a, parked, b) ==
    [WithoutReviewLease(x) EXCEPT !.status = status, !.reviewed_by = a,
                                  !.parked = parked, !.broadcast = b]

LEMMA GoodJudged ==
    ASSUME NEW x \in GoodTickets, x.status = "submitted", NEW a \in Agents,
           Independent(x, a), NEW status \in {"closed", "rejected"}, NEW parked \in BOOLEAN,
           NEW b \in {"no", "yes", "due"}
    PROVE  LET y == Judged(x, status, a, parked, b)
           IN  y \in GoodTickets
               /\ y.status = status /\ y.submitted_by = x.submitted_by /\ y.reviewed_by = a
               /\ (x.offer["review"] = NoOffer => Lighter(x, y))
<1> USE DEF Judged
<1> DEFINE y == [WithoutReviewLease(x) EXCEPT !.status = status, !.reviewed_by = a,
                                             !.parked = parked, !.broadcast = b]
<1>1. y \in Record
  BY Values DEF GoodTickets, Record, WithoutReviewLease
<1>2. Owned(y)
  BY DispatchAssumption DEF GoodTickets, Good, Owned, Independent, PreSubmission,
     PRE_SUBMISSION_STATES, TERMINAL_TICKET_STATES, Record, WithoutReviewLease
<1>3. ASSUME NEW k \in Kinds PROVE Offering(y, k)
  BY DEF GoodTickets, Good, Offering, Offered, Record, WithoutReviewLease
<1>4. y.pin_misses < Fallback
  BY DispatchAssumption DEF GoodTickets, Good, Record, WithoutReviewLease
<1>5. y.status = status /\ y.submitted_by = x.submitted_by /\ y.reviewed_by = a
  BY DEF GoodTickets, Record, WithoutReviewLease
<1>6. y \in GoodTickets
  <2> HIDE DEF y
  <2> QED BY <1>1, <1>2, <1>3, <1>4 DEF GoodTickets, Good
<1>7. ASSUME x.offer["review"] = NoOffer PROVE Lighter(x, y)
  <2>1. /\ y.offer = x.offer /\ y.status \in {"closed", "rejected"} /\ y.lease = "none"
        /\ y.reviewer = NoAgent /\ y.review_lease = "none"
    BY DEF GoodTickets, Good, Owned, Record, WithoutReviewLease
  <2>5. \A c \in Plain : ~Shows(x, "review", c)
    BY <1>7, PlainFacts DEF Shows, NoOffer
  <2> HIDE DEF y
  <2>2. \A c \in Plain : Working(y, c) \/ Reviewing(y, c) => Job(x, c)
    BY <2>1, <2>5, PlainFacts DEF Job, Working, Reviewing, ReviewLeaseIsLive, PreSubmission, PRE_SUBMISSION_STATES
  <2>3. \A c \in Plain : Engages(y, c) => Engages(x, c)
    BY <2>1, <2>5, PlainFacts DEF Engages, Holds, inactive_work_ownership_is_ambiguous, Inactive,
         AmbiguousLiveLease, ReviewLeaseIsLive, PreSubmission, PRE_SUBMISSION_STATES,
         TERMINAL_TICKET_STATES
  <2>4. \A k \in Kinds, c \in Plain :
          \A S : Shows(x, k, c) /\ Stands(x, k, c, S) => Stands(y, k, c, S)
    BY <2>1, <2>5, PlainFacts DEF Stands, PreSubmission, PRE_SUBMISSION_STATES, Kinds
  <2> QED BY <2>1, <2>2, <2>3, <2>4, LighterIs
<1> QED BY <1>5, <1>6, <1>7

\* A verdict sends the ticket back to be done again.
LEMMA GoodRedone ==
    ASSUME NEW x \in GoodTickets, x.status = "submitted", NEW a \in Agents,
           NEW parked \in BOOLEAN
    PROVE  LET y == [WithoutWorkLease([WithoutReviewLease(x) EXCEPT
                                    !.status = "open", !.reviewed_by = a, !.parked = parked])
                     EXCEPT !.submitted_by = NoAgent, !.for_human = FALSE]
           IN  y \in GoodTickets /\ y.status = "open"
               /\ (x.offer["review"] = NoOffer => Lighter(x, y))
<1> DEFINE y == [WithoutWorkLease([WithoutReviewLease(x) EXCEPT
                                    !.status = "open", !.reviewed_by = a, !.parked = parked])
                     EXCEPT !.submitted_by = NoAgent, !.for_human = FALSE]
<1>1. y \in Record
  <2> DEFINE r == [WithoutReviewLease(x) EXCEPT !.status = "open", !.reviewed_by = a,
                                                !.parked = parked]
             w == WithoutWorkLease(r)
  <2>1. r \in Record
    BY Values DEF GoodTickets, Record, WithoutReviewLease
  <2>2. w \in Record
    <3> HIDE DEF r
    <3> QED BY <2>1, Values DEF Record, WithoutWorkLease
  <2>3. [w EXCEPT !.submitted_by = NoAgent, !.for_human = FALSE] \in Record
    <3> HIDE DEF w
    <3> QED BY <2>2, Values DEF Record
  <2> HIDE DEF r, w
  <2> QED BY <2>3 DEF r, w
<1>2. Owned(y)
  BY DispatchAssumption DEF GoodTickets, Good, Owned, Independent, PreSubmission,
     PRE_SUBMISSION_STATES, TERMINAL_TICKET_STATES, Record, WithoutReviewLease, WithoutWorkLease
<1>3. ASSUME NEW k \in Kinds PROVE Offering(y, k)
  BY DEF GoodTickets, Good, Offering, Offered, Record, WithoutReviewLease, WithoutWorkLease
<1>4. y.pin_misses < Fallback
  BY DispatchAssumption DEF GoodTickets, Good, Record, WithoutReviewLease, WithoutWorkLease
<1>5. y.status = "open"
  BY DEF GoodTickets, Record, WithoutReviewLease, WithoutWorkLease
<1>6. y \in GoodTickets
  <2> HIDE DEF y
  <2> QED BY <1>1, <1>2, <1>3, <1>4 DEF GoodTickets, Good
<1>7. ASSUME x.offer["review"] = NoOffer PROVE Lighter(x, y)
  <2>1. /\ y.offer = x.offer /\ y.status = "open" /\ y.claimed_by = NoAgent
        /\ y.reviewer = NoAgent /\ y.review_lease = "none"
    BY DEF GoodTickets, Record, WithoutReviewLease, WithoutWorkLease
  <2>5. \A c \in Plain : ~Shows(x, "review", c)
    BY <1>7, PlainFacts DEF Shows, NoOffer
  <2> HIDE DEF y
  <2>2. \A c \in Plain : Working(y, c) \/ Reviewing(y, c) => Job(x, c)
    BY <2>1, <2>5, PlainFacts DEF Job, Working, Reviewing, ReviewLeaseIsLive, PreSubmission, PRE_SUBMISSION_STATES
  <2>3. \A c \in Plain : Engages(y, c) => Engages(x, c)
    BY <2>1, <2>5, PlainFacts DEF Engages, Holds, inactive_work_ownership_is_ambiguous, Inactive,
         AmbiguousLiveLease, ReviewLeaseIsLive, PreSubmission, PRE_SUBMISSION_STATES,
         TERMINAL_TICKET_STATES
  <2>4. \A k \in Kinds, c \in Plain :
          \A S : Shows(x, k, c) /\ Stands(x, k, c, S) => Stands(y, k, c, S)
    BY <2>1, <2>5, PlainFacts DEF Stands, PreSubmission, PRE_SUBMISSION_STATES, Kinds
  <2> QED BY <2>1, <2>2, <2>3, <2>4, LighterIs
<1> QED BY <1>5, <1>6, <1>7

\* A ticket is canceled; its review lease stays.
Canceled(x, b) == [x EXCEPT !.status = "canceled", !.broadcast = b]

\* A seat has nothing on the canceled ticket but what it had, or a work lease that
\* keeps it from any offer until the lease is dropped.
Spares(x, y) ==
    /\ Calm(x, y)
    /\ \A a \in Plain :
         /\ ~Job(y, a)
         /\ y.reviewer = a /\ ReviewLeaseIsLive(y) => Engages(x, a)
         /\ Holds(y, a) => Engages(x, a) \/ y.lease # "lapsed"

LEMMA GoodCanceled ==
    ASSUME NEW x \in GoodTickets, NEW b \in {"no", "yes", "due"}
    PROVE  LET y == Canceled(x, b)
           IN  y \in GoodTickets /\ y.status = "canceled"
               /\ ((\A k \in Kinds : x.offer[k] = NoOffer) => Spares(x, y))
<1> USE DEF Canceled
<1> DEFINE y == [x EXCEPT !.status = "canceled", !.broadcast = b]
<1>1. y \in Record
  BY Values DEF GoodTickets, Record
<1>2. Owned(y)
  BY DispatchAssumption DEF GoodTickets, Good, Owned, Independent, PreSubmission,
     PRE_SUBMISSION_STATES, TERMINAL_TICKET_STATES, Record
<1>3. ASSUME NEW k \in Kinds PROVE Offering(y, k)
  BY DEF GoodTickets, Good, Offering, Offered, Record
<1>4. y.pin_misses < Fallback
  BY DispatchAssumption DEF GoodTickets, Good, Record
<1>5. y.status = "canceled"
  BY DEF GoodTickets, Record
<1>6. y \in GoodTickets
  <2> HIDE DEF y
  <2> QED BY <1>1, <1>2, <1>3, <1>4 DEF GoodTickets, Good
<1>7. ASSUME \A k \in Kinds : x.offer[k] = NoOffer PROVE Spares(x, y)
  <2>1. /\ y.offer = x.offer /\ y.status = "canceled" /\ ~PreSubmission(y)
        /\ y.claimed_by = x.claimed_by /\ y.lease = x.lease
        /\ y.reviewer = x.reviewer /\ y.review_lease = x.review_lease
    BY DEF GoodTickets, Record, PreSubmission, PRE_SUBMISSION_STATES
  <2>2. x.status \in {"missing", "submitted"} => x.lease # "lapsed"
    BY DEF GoodTickets, Good, Owned
  <2>3. PreSubmission(x) \/ Inactive(x) \/ x.status \in {"missing", "submitted"}
    BY DEF GoodTickets, Record, Statuses, PreSubmission, Inactive, TERMINAL_TICKET_STATES
  <2> HIDE DEF y
  <2>4. \A a \in Plain : ~Job(y, a)
    BY <1>7, <2>1 DEF Job, Shows, NoOffer, Working, Reviewing
  <2>5. ASSUME NEW a \in Plain, Holds(y, a), y.lease = "lapsed" PROVE Engages(x, a)
    BY <2>1, <2>2, <2>3, <2>5
       DEF Holds, Engages, inactive_work_ownership_is_ambiguous, AmbiguousLiveLease, HasLeaseFields
  <2>6. \A a \in Plain : y.reviewer = a /\ ReviewLeaseIsLive(y) => Engages(x, a)
    BY <2>1 DEF Engages, ReviewLeaseIsLive
  <2> QED BY <2>1, <2>4, <2>5, <2>6 DEF Spares, Calm, Shows
<1> QED BY <1>5, <1>6, <1>7

\* A ticket is parked, or no longer; then its offers may expire anew.
Parked(x) == [x EXCEPT !.parked = TRUE, !.broadcast = "no"]
Unparked(x, k) ==
    [x EXCEPT !.parked = FALSE, !.broadcast = "no", !.expirations[k] = 0]

LEMMA GoodParked ==
    ASSUME NEW x \in GoodTickets, \A k \in Kinds : x.offer[k] = NoOffer
    PROVE  Parked(x) \in GoodTickets /\ Lighter(x, Parked(x))
           /\ Ownership(Parked(x)) = Ownership(x)
<1> DEFINE y == Parked(x)
<1>1. y \in Record
  BY DEF GoodTickets, Record, Parked
<1>2. Owned(y)
  BY DEF GoodTickets, Good, Owned, Independent, PreSubmission, Record, Parked
<1>3. ASSUME NEW k \in Kinds PROVE Offering(y, k)
  BY DEF GoodTickets, Good, Offering, Offered, Record, Parked
<1>4. y.pin_misses < Fallback
  BY DEF GoodTickets, Good, Record, Parked
<1>5. /\ y.offer = x.offer /\ y.status = x.status /\ y.claimed_by = x.claimed_by
      /\ y.lease = x.lease /\ y.submitted_by = x.submitted_by /\ y.reviewer = x.reviewer
      /\ y.review_lease = x.review_lease /\ y.reviewed_by = x.reviewed_by
  BY DEF GoodTickets, Record, Parked
<1> HIDE DEF y
<1>6. Lighter(x, y)
  <2>1. PreSubmission(y) = PreSubmission(x) /\ ReviewLeaseIsLive(y) = ReviewLeaseIsLive(x)
    BY <1>5 DEF PreSubmission, ReviewLeaseIsLive
  <2>2. \A a \in Plain : Working(y, a) \/ Reviewing(y, a) => Job(x, a)
    BY <1>5, <2>1 DEF Working, Reviewing, Job
  <2>3. \A a \in Plain : Engages(y, a) => Engages(x, a)
    BY <1>5, <2>1 DEF Engages, Holds, inactive_work_ownership_is_ambiguous, Inactive,
       HasLeaseFields, AmbiguousLiveLease
  <2>4. \A k \in Kinds, a \in Plain : ~Shows(x, k, a)
    BY DEF Shows, NoOffer
  <2> QED BY <1>5, <2>2, <2>3, <2>4, LighterIs
<1>7. Ownership(y) = Ownership(x)
  BY <1>5 DEF Ownership, PreSubmission
<1> QED BY <1>1, <1>2, <1>3, <1>4, <1>6, <1>7 DEF GoodTickets, Good, y

LEMMA UnparkTidies ==
    ASSUME NEW x \in GoodTickets, NEW k \in Kinds
    PROVE  Tidied(x, Unparked(x, k))
<1> DEFINE y == Unparked(x, k)
<1>0. 0 \in 0..Fallback /\ 0 < Fallback
  BY DispatchAssumption
<1>1. y \in Record
  BY <1>0 DEF GoodTickets, Record, Unparked
<1>2. Owned(y)
  BY DEF GoodTickets, Good, Owned, Independent, PreSubmission, Record, Unparked
<1>3. ASSUME NEW j \in Kinds PROVE Offering(y, j)
  BY DispatchAssumption DEF GoodTickets, Good, Offering, Offered, Record, Unparked
<1>4. y.pin_misses < Fallback /\ Kept(x, y) /\ Calm(x, y)
  BY DEF GoodTickets, Good, Record, Kept, Calm, Shows, Unparked
<1> QED BY <1>1, <1>2, <1>3, <1>4 DEF Tidied, GoodTickets, Good

\* A canceled ticket loses its work lease.
Dropped(x) == [x EXCEPT !.lease = "none"]

LEMMA GoodDropped ==
    ASSUME NEW x \in GoodTickets, x.status = "canceled"
    PROVE  Dropped(x) \in GoodTickets /\ Lighter(x, Dropped(x))
           /\ Ownership(Dropped(x)) = Ownership(x)
<1> DEFINE y == Dropped(x)
<1>1. y \in Record
  BY Values DEF GoodTickets, Record, Dropped
<1>2. ~PreSubmission(x)
  BY DEF PreSubmission, PRE_SUBMISSION_STATES
<1>3. Owned(y)
  BY <1>2 DEF GoodTickets, Good, Owned, Independent, PreSubmission, Record, Dropped
<1>4. ASSUME NEW k \in Kinds PROVE Offering(y, k)
  BY DEF GoodTickets, Good, Offering, Offered, Record, Dropped
<1>5. y.pin_misses < Fallback
  BY DEF GoodTickets, Good, Record, Dropped
<1>6. /\ y.offer = x.offer /\ y.status = "canceled" /\ y.claimed_by = x.claimed_by
      /\ y.lease = "none" /\ y.reviewer = x.reviewer /\ y.review_lease = x.review_lease
  BY DEF GoodTickets, Record, Dropped
<1> HIDE DEF y
<1>7. ~PreSubmission(y) /\ Inactive(x)
  BY <1>6 DEF PreSubmission, PRE_SUBMISSION_STATES, Inactive, TERMINAL_TICKET_STATES
<1>8. Lighter(x, y)
  <2>1. \A a \in Plain : Working(y, a) \/ Reviewing(y, a) => Job(x, a)
    BY <1>6, <1>7 DEF Working, Reviewing
  <2>2. \A a \in Plain : Engages(y, a) => Engages(x, a)
    BY <1>6, <1>7, PlainFacts
       DEF Engages, Holds, inactive_work_ownership_is_ambiguous, HasLeaseFields,
           AmbiguousLiveLease, ReviewLeaseIsLive
  <2>3. \A k \in Kinds, a \in Plain : \A S : ~Stands(x, k, a, S)
    BY <1>2 DEF Stands, Kinds
  <2> QED BY <1>6, <2>1, <2>2, <2>3, LighterIs
<1>9. Ownership(y) = Ownership(x)
  BY <1>6, UnheldIs
<1> QED BY <1>1, <1>3, <1>4, <1>5, <1>8, <1>9 DEF GoodTickets, Good, y

\* A ticket without an offer of its work is pinned, or no longer.
Repinned(x, pin) ==
    [x EXCEPT !.assigned_to = pin, !.pin_misses = 0, !.broadcast = "no"]

LEMMA RepinTidies ==
    ASSUME NEW x \in GoodTickets, ~x.offer["work"].live, NEW pin \in Someone
    PROVE  Tidied(x, Repinned(x, pin))
<1> DEFINE y == Repinned(x, pin)
<1>0. 0 \in 0..Fallback /\ 0 < Fallback
  BY DispatchAssumption
<1>1. y \in Record
  BY <1>0 DEF GoodTickets, Record, Repinned
<1>2. Owned(y)
  BY DEF GoodTickets, Good, Owned, Independent, PreSubmission, Record, Repinned
<1>3. ASSUME NEW k \in Kinds PROVE Offering(y, k)
  BY DEF GoodTickets, Good, Offering, Offered, Record, Repinned
<1>4. y.pin_misses < Fallback /\ Kept(x, y) /\ Calm(x, y)
  BY DispatchAssumption DEF GoodTickets, Good, Record, Kept, Calm, Shows, Repinned
<1> QED BY <1>1, <1>2, <1>3, <1>4 DEF Tidied, GoodTickets, Good

\* A human is asked, with or without a work lease that has ended: good but for
\* its owners is enough of the ticket before.
Asked(x, a) ==
    [WithoutReviewLease(x) EXCEPT !.status = "needs_human", !.asked = a,
                                  !.broadcast = "no"]

Loose(x) == x \in Record /\ (\A k \in Kinds : Offering(x, k)) /\ x.pin_misses < Fallback

LEMMA LooseRevoked ==
    ASSUME NEW x, Loose(x), NEW k \in Kinds
    PROVE  Loose(Revoke(x, k))
<1> DEFINE y == Revoke(x, k)
<1>1. y \in Record
  BY DEF Loose, Record, Revoke, NoOffer, Offer, Someone
<1>2. ASSUME NEW j \in Kinds PROVE Offering(y, j)
  BY DEF Loose, Offering, Offered, Record, Revoke, NoOffer
<1>3. y.pin_misses < Fallback
  BY DEF Loose, Record, Revoke
<1> QED BY <1>1, <1>2, <1>3 DEF Loose

LEMMA LooseReleased ==
    ASSUME NEW x \in GoodTickets
    PROVE  Loose(x) /\ Loose([WithoutWorkLease(x) EXCEPT !.for_human = TRUE])
<1> DEFINE last == IF x.claimed_by # NoAgent THEN x.claimed_by ELSE x.last_claimed_by
           y == [WithoutWorkLease(x) EXCEPT !.for_human = TRUE]
<1>1. Loose(x) /\ x \in Record
  BY DEF GoodTickets, Good, Loose
<1>2. last \in Someone
  BY <1>1 DEF Record
<1>3. y = [x EXCEPT !.last_claimed_by = last, !.claimed_by = NoAgent, !.lease = "none",
                    !.for_human = TRUE]
  BY <1>1 DEF WithoutWorkLease, Record
<1> HIDE DEF last, y
<1>4. y \in Record
  BY <1>1, <1>2, <1>3, Values DEF Record
<1>5. ASSUME NEW k \in Kinds PROVE Offering(y, k)
  BY <1>1, <1>3 DEF Loose, Offering, Offered, Record
<1>6. y.pin_misses < Fallback
  BY <1>1, <1>3 DEF Loose, Record
<1> QED BY <1>1, <1>4, <1>5, <1>6 DEF Loose, y

LEMMA GoodAsked ==
    ASSUME NEW x, Loose(x), NEW a \in Agents
    PROVE  LET y == Asked(x, a)
           IN  /\ y \in GoodTickets /\ y.status = "needs_human"
               /\ Calm(x, y)
               /\ \A b \in Plain : Job(y, b) => \E k \in Kinds : Shows(x, k, b)
               /\ \A b \in Plain : Engages(y, b) => x.claimed_by = b /\ x.lease = "live"
<1> USE DEF Asked
<1> DEFINE y == Asked(x, a)
<1>1. y \in Record
  BY Values DEF Loose, Record, WithoutReviewLease
<1>2. Owned(y)
  BY DispatchAssumption DEF Loose, Owned, Independent, PreSubmission,
     PRE_SUBMISSION_STATES, TERMINAL_TICKET_STATES, Record, WithoutReviewLease
<1>3. ASSUME NEW k \in Kinds PROVE Offering(y, k)
  BY DEF Loose, Offering, Offered, Record, WithoutReviewLease
<1>4. y.pin_misses < Fallback /\ y.status = "needs_human"
  BY DEF Loose, Record, WithoutReviewLease
<1>5. /\ Calm(x, y)
      /\ \A b \in Plain : Job(y, b) => \E k \in Kinds : Shows(x, k, b)
      /\ \A b \in Plain : Engages(y, b) => x.claimed_by = b /\ x.lease = "live"
  <2>1. /\ y.offer = x.offer /\ y.status = "needs_human" /\ ~PreSubmission(y)
        /\ y.claimed_by = x.claimed_by /\ y.lease = x.lease /\ y.review_lease = "none"
    BY DEF Loose, Record, WithoutReviewLease, PreSubmission, PRE_SUBMISSION_STATES
  <2> HIDE DEF y
  <2> QED BY <2>1 DEF Job, Shows, Working, Reviewing, Calm, Engages, Holds, ReviewLeaseIsLive,
             inactive_work_ownership_is_ambiguous, AmbiguousLiveLease
<1> HIDE DEF y
<1> QED BY <1>1, <1>2, <1>3, <1>4, <1>5 DEF GoodTickets, Good, y

\* The human has answered.
Resolved(x, status, b, pin) ==
    [x EXCEPT !.status = status, !.asked = NoAgent, !.broadcast = b, !.assigned_to = pin]

LEMMA GoodResolved ==
    ASSUME NEW x \in GoodTickets, x.status = "needs_human",
           NEW status \in {"open", "canceled", "needs_human"},
           NEW b \in {"no", "yes", "due"}, NEW pin, pin = x.assigned_to \/ pin = NoAgent
    PROVE  LET y == Resolved(x, status, b, pin)
           IN  y \in GoodTickets /\ y.status = status /\ Lighter(x, y)
<1> USE DEF Resolved
<1> DEFINE y == [x EXCEPT !.status = status, !.asked = NoAgent, !.broadcast = b,
                              !.assigned_to = pin]
<1>1. y \in Record
  BY Values DEF GoodTickets, Record
<1>2. Owned(y)
  BY DispatchAssumption DEF GoodTickets, Good, Owned, Independent, PreSubmission,
     PRE_SUBMISSION_STATES, TERMINAL_TICKET_STATES, Record
<1>3. ASSUME NEW k \in Kinds PROVE Offering(y, k)
  BY DEF GoodTickets, Good, Offering, Offered, Record
<1>4. y.pin_misses < Fallback
  BY DispatchAssumption DEF GoodTickets, Good, Record
<1>5. y.status = status
  BY DEF GoodTickets, Record
<1>6. y \in GoodTickets
  <2> HIDE DEF y
  <2> QED BY <1>1, <1>2, <1>3, <1>4 DEF GoodTickets, Good
<1>7. Lighter(x, y)
  <2>1. /\ y.offer = x.offer /\ y.status = status /\ ~PreSubmission(y) /\ ~PreSubmission(x)
        /\ y.claimed_by = x.claimed_by /\ y.lease = x.lease /\ y.reviewer = NoAgent
        /\ y.review_lease = "none" /\ x.review_lease = "none"
    BY DEF GoodTickets, Good, Owned, Record, PreSubmission, PRE_SUBMISSION_STATES
  <2> HIDE DEF y
  <2>2. \A a \in Plain : Working(y, a) \/ Reviewing(y, a) => Job(x, a)
    BY <2>1, PlainFacts DEF Job, Working, Reviewing, ReviewLeaseIsLive, PreSubmission, PRE_SUBMISSION_STATES
  <2>3. \A a \in Plain : Engages(y, a) => Engages(x, a)
    BY <2>1, PlainFacts DEF Engages, Holds, HasLeaseFields, inactive_work_ownership_is_ambiguous, Inactive,
         AmbiguousLiveLease, ReviewLeaseIsLive, PreSubmission, PRE_SUBMISSION_STATES,
         TERMINAL_TICKET_STATES
  <2>4. \A k \in Kinds, a \in Plain :
          \A S : Shows(x, k, a) /\ Stands(x, k, a, S) => Stands(y, k, a, S)
    BY <2>1, PlainFacts DEF Stands, PreSubmission, PRE_SUBMISSION_STATES, Kinds
  <2> QED BY <2>1, <2>2, <2>3, <2>4, LighterIs
<1> QED BY <1>5, <1>6, <1>7

-----------------------------------------------------------------------------
(* The handlers *)

LEMMA DispatchKeeps ==
    ASSUME NEW d \in Docs, NEW t \in Tickets, NEW k \in Kinds, NEW first
    PROVE  Keeps(d, Dispatch(d, t, k, first))
  BY DispatchTends, TendsKeeps DEF Dispatch

\* The end of most calls: the ticket is dispatched, then the queue.
LEMMA DispatchedQueueKeeps ==
    ASSUME NEW d \in Docs, NEW t \in Tickets, NEW k \in Kinds, NEW first
    PROVE  Keeps(d, redispatch_queue(Dispatch(d, t, k, first), first))
<1> DEFINE e == Dispatch(d, t, k, first)
<1>1. Keeps(d, e) /\ e \in Docs
  BY DispatchKeeps DEF Keeps
<1> HIDE DEF e
<1>2. Keeps(e, redispatch_queue(e, first))
  BY <1>1, RedispatchKeeps
<1> QED BY <1>1, <1>2, KeepsTwice DEF e

LEMMA CreateSteps ==
    ASSUME IInv, NEW a \in Agents, NEW t \in Tickets, NEW pin \in Someone, NEW first,
           ticket_create(a, t, pin, first)
    PROVE  Steps
<1> DEFINE d == Prepared(a, first)
           x == board.tickets[t]
           w == d.tickets[t]
           y == [w EXCEPT !.status = "open", !.assigned_to = pin]
           e == [d EXCEPT !.tickets[t] = y]
           f == Dispatch(e, t, "work", first)
<1>1. View(d) /\ d \in Docs
  BY PreparedView DEF View, Reaps
<1>2. w.status = "missing" /\ Commit(f)
  <2>1. [d EXCEPT !.tickets[t].status = "open", !.tickets[t].assigned_to = pin] = e
    <3> HIDE DEF d
    <3> QED BY <1>1 DEF Docs
  <2>2. w.status = "missing"
        /\ Commit(Dispatch([d EXCEPT !.tickets[t].status = "open",
                                     !.tickets[t].assigned_to = pin], t, "work", first))
    BY DEF ticket_create
  <2> HIDE DEF d, e
  <2> QED BY <2>1, <2>2
<1> HIDE DEF d
<1>3. w \in GoodTickets /\ x.status = "missing"
  BY <1>1, <1>2, Before
<1>4. y \in GoodTickets /\ y.status = "open" /\ Lighter(w, y)
  <2> HIDE DEF w
  <2> QED BY <1>2, <1>3, GoodCreated
<1>5. Moved(x, y)
  <2>1. Ownership(x) = Promise!Unheld("missing") /\ Ownership(y) = Promise!Unheld("open")
    <3> HIDE DEF y
    <3> QED BY <1>3, <1>4, UnheldIs
  <2>2. Promise!Unheld("open") \in Promise!Create(Promise!Unheld("missing"))
    BY DEF Promise!Create, Promise!If, Promise!Unheld
  <2> QED BY <2>1, <2>2 DEF Moved, Promise!Moves
<1>6. Advances(e) /\ e \in Docs
  <2> HIDE DEF y
  <2> QED BY <1>1, <1>4, <1>5, ActedAdvances DEF Advances, Goes
<1>7. Keeps(e, f)
  <2> HIDE DEF e
  <2> QED BY <1>6, DispatchKeeps DEF Kinds
<1> HIDE DEF e, f
<1> QED BY <1>2, <1>6, <1>7, CommitKept

LEMMA StartSteps ==
    ASSUME IInv, NEW a \in Agents, NEW t \in Tickets, NEW first, ticket_start(a, t, first)
    PROVE  Steps
<1> DEFINE d == ClaimView(first)
           v == TouchClaimer(d, a)
           x == board.tickets[t]
           w == v.tickets[t]
           y == [w EXCEPT !.status = "in_progress", !.lease = "live"]
           e == [v EXCEPT !.tickets[t] = y]
<1>1. View(v) /\ v \in Docs /\ Keeps(d, v)
  BY ReapedView, ClaimerView DEF View, Reaps
<1>2. d.tickets[t].status = "claimed" /\ Commit(e)
  <2>1. [v EXCEPT !.tickets[t].status = "in_progress", !.tickets[t].lease = "live"] = e
    <3> HIDE DEF v
    <3> QED BY <1>1 DEF Docs
  <2>2. d.tickets[t].status = "claimed"
        /\ Commit([v EXCEPT !.tickets[t].status = "in_progress", !.tickets[t].lease = "live"])
    BY DEF ticket_start
  <2> HIDE DEF d, v, e
  <2> QED BY <2>1, <2>2
<1> HIDE DEF d, v
<1>3. w \in GoodTickets /\ w.status = "claimed" /\ PreSubmission(w)
  BY <1>1, <1>2, DocTicket DEF Keeps, Kept, PreSubmission, PRE_SUBMISSION_STATES
<1>4. x \in GoodTickets /\ Kept(x, w) /\ w.lease = "live"
  BY <1>1, <1>3, Before
<1>5. /\ y \in GoodTickets /\ y.status = "in_progress" /\ y.claimed_by = w.claimed_by
      /\ y.lease = "live" /\ Lighter(w, y)
  <2> HIDE DEF w
  <2> QED BY <1>3, GoodStarted
<1>6. Moved(x, y)
  <2>1. x.status = "claimed" /\ x.lease = "live" /\ x.claimed_by = w.claimed_by
    BY <1>3, <1>4 DEF Kept, PreSubmission
  <2>2. Ownership(y) = [Ownership(x) EXCEPT !.status = "in_progress"]
    <3> HIDE DEF x, y, w
    <3> QED BY <1>4, <1>5, <2>1, StartedIs
  <2>3. Ownership(x).status = "claimed" /\ Ownership(x).lease = "live"
    BY <2>1 DEF Ownership, PreSubmission, PRE_SUBMISSION_STATES
  <2>4. Ownership(y) \in Promise!Start(Ownership(x))
    <3> HIDE DEF x, y
    <3> QED BY <2>2, <2>3 DEF Promise!Start, Promise!If
  <2> QED BY <2>4 DEF Moved, Promise!Moves
<1>7. Advances(e)
  <2> HIDE DEF y
  <2> QED BY <1>1, <1>5, <1>6, ActedAdvances
<1> HIDE DEF e
<1> QED BY <1>2, <1>7, CommitSteps

\* A ticket that was open, or whose lease had lapsed, is claimed.
LEMMA ClaimedMoved ==
    ASSUME IInv, NEW d, View(d), NEW t \in Tickets, d.tickets[t].status = "open",
           NEW y \in GoodTickets, y.status = "claimed", y.lease = "live", y.claimed_by \in Agents
    PROVE  Moved(board.tickets[t], y)
<1> DEFINE x == board.tickets[t]
           o == Ownership(x)
<1>1. x.status = "open" \/ (PreSubmission(x) /\ x.lease = "lapsed")
  BY Before
<1>2. o.status = "open" \/ (o.status \in Promise!Working /\ o.lease = "lapsed")
  BY <1>1 DEF Ownership, PreSubmission, PRE_SUBMISSION_STATES, Promise!Working
<1>3. Ownership(y) = [Promise!Unheld("claimed") EXCEPT !.holder = y.claimed_by, !.lease = "live"]
  BY ClaimedIs
<1>4. Ownership(y) \in Promise!Claim(o)
  <2> HIDE DEF o
  <2> QED BY <1>2, <1>3 DEF Promise!Claim, Promise!If
<1> QED BY <1>4 DEF Moved, Promise!Moves

\* A ticket that becomes a job only of seats that are free, and is offered to nobody
\* else, leaves the seats apart.
LEMMA JoinedSeparate ==
    ASSUME NEW d, NEW e, NEW t \in Tickets, Separate(d),
           \A u \in Tickets \ {t} : e.tickets[u] = d.tickets[u],
           e.tickets[t].offer = d.tickets[t].offer,
           \A a \in Plain : Job(e.tickets[t], a) =>
             Job(d.tickets[t], a) \/ ~agent_is_busy(d, a, t),
           \A a \in Plain : Engages(e.tickets[t], a) =>
             Engages(d.tickets[t], a) \/ ~agent_is_busy(d, a, t)
    PROVE  Separate(e)
<1>1. Apart(e)
  <2> SUFFICES ASSUME NEW b \in Plain, NEW u \in Tickets, NEW v \in Tickets,
                      Job(e.tickets[u], b), Job(e.tickets[v], b), u # v
               PROVE  FALSE
    BY DEF Apart
  <2>1. CASE u # t /\ v # t
    BY <2>1 DEF Apart, Separate
  <2>2. ASSUME NEW w \in Tickets \ {t}, Job(e.tickets[w], b), Job(e.tickets[t], b) PROVE FALSE
    <3>1. Job(d.tickets[w], b)
      BY <2>2
    <3> QED BY <2>2, <3>1, JobIsBusy DEF Apart, Separate
  <2> QED BY <2>1, <2>2
<1>2. ASSUME NEW b \in Plain, NEW u \in Tickets PROVE Clear(e, b, u)
  <2> SUFFICES ASSUME Engages(e.tickets[u], b), NEW v \in Tickets \ {u}, NEW k \in Kinds
               PROVE  ~Shows(e.tickets[v], k, b)
    BY DEF Clear
  <2>1. Shows(e.tickets[v], k, b) = Shows(d.tickets[v], k, b)
    BY DEF Shows
  <2>2. CASE Engages(d.tickets[u], b)
    BY <2>1, <2>2 DEF Separate, Unencumbered, Clear
  <2>3. CASE u = t /\ ~agent_is_busy(d, b, t)
    BY <2>1, <2>3, JobIsBusy DEF Job
  <2> QED BY <2>2, <2>3
<1> QED BY <1>1, <1>2 DEF Separate, Unencumbered

\* ... by a seat that is free, or is not bound by offers.
LEMMA ClaimedSeated ==
    ASSUME NEW d, NEW e, NEW t \in Tickets, NEW a, Seated(d), d.tickets[t].status = "open",
           \A u \in Tickets \ {t} : e.tickets[u] = d.tickets[u],
           Present(e) \subseteq Present(d),
           e.tickets[t].status = "claimed", e.tickets[t].claimed_by = a,
           e.tickets[t].offer = d.tickets[t].offer, e.tickets[t].reviewer = NoAgent,
           e.tickets[t].parked = d.tickets[t].parked,
           a \in Plain => ~agent_is_busy(d, a, t) /\ ~Shows(d.tickets[t], "work", a),
           \A b \in Present(d) : ~Shows(d.tickets[t], "work", b)
    PROVE  Seated(e)
<1> DEFINE x == d.tickets[t]
           y == e.tickets[t]
<1>1. PreSubmission(y) /\ ~PreSubmission(x)
  BY DEF PreSubmission, PRE_SUBMISSION_STATES
<1>2. \A b \in Plain : Job(y, b) => Job(x, b) \/ ~agent_is_busy(d, b, t)
  BY <1>1 DEF Job, Working, Reviewing, Shows
<1>3. \A b \in Plain : Engages(y, b) => ~agent_is_busy(d, b, t)
  BY <1>1, PlainFacts DEF Engages, Holds
<1>4. Separate(e)
  BY <1>2, <1>3, JoinedSeparate DEF Seated
<1>5. ASSUME NEW k \in Kinds PROVE Placed(y, k, Present(e))
  <2>1. Placed(x, k, Present(d))
    BY DEF Seated
  <2> QED BY <1>1, <2>1 DEF Placed, Shows, Stands, Kinds
<1>6. ASSUME NEW u \in Tickets, NEW k \in Kinds PROVE Placed(e.tickets[u], k, Present(e))
  <2>1. CASE u = t
    BY <1>5, <2>1
  <2>2. CASE u # t
    BY <2>2, FewerPlaced DEF Seated
  <2> QED BY <2>1, <2>2
<1> QED BY <1>4, <1>6 DEF Seated

LEMMA ClaimSteps ==
    ASSUME IInv, NEW a \in Agents, NEW t \in Tickets, NEW first, ticket_claim(a, t, first)
    PROVE  Steps
<1> DEFINE d == ClaimView(first)
           r == [d.tickets[t] EXCEPT !.offer["work"] = NoOffer]
           b == [r EXCEPT !.broadcast = "no"]
           e == IF dispatch_enabled(d) THEN [d EXCEPT !.tickets[t] = b] ELSE d
           v == TouchClaimer(e, a)
           x == board.tickets[t]
           w == v.tickets[t]
           y == [w EXCEPT !.status = "claimed", !.claimed_by = a, !.lease = "live"]
           f == [v EXCEPT !.tickets[t] = y]
<1>1. View(d) /\ d \in Docs
  BY ReapedView DEF View, Reaps
<1>2. Keeps(d, e) /\ View(e) /\ e \in Docs
  <2> HIDE DEF d
  <2>1. Tidied(d.tickets[t], r)
    BY <1>1, DocTicket, RevokeTidies DEF Revoke, Kinds
  <2>2. Tidied(r, b)
    <3> HIDE DEF r
    <3> QED BY <2>1, BroadcastTidies DEF Tidied
  <2>3. Tidied(d.tickets[t], b)
    <3> HIDE DEF r, b
    <3> QED BY <2>1, <2>2, TidiedTwice
  <2>4. Keeps(d, [d EXCEPT !.tickets[t] = b])
    <3> HIDE DEF b
    <3> QED BY <1>1, <2>3, SetTidied
  <2>5. Keeps(d, e)
    BY <1>1, <2>4, KeepsSame
  <2> HIDE DEF e
  <2> QED BY <1>1, <2>5, KeepsView DEF Keeps
<1>3. View(v) /\ v \in Docs /\ Keeps(e, v) /\ v.tickets = e.tickets
  <2> HIDE DEF e
  <2> QED BY <1>2, ClaimerView DEF View, Reaps
<1>4. /\ d.tickets[t].status = "open"
      /\ \/ Commit(f) /\ (a \in Plain => dispatch_enabled(d) /\ ~agent_is_busy(d, a, t))
         \/ Commit(d)
  <2>1. [v EXCEPT !.tickets[t].status = "claimed", !.tickets[t].claimed_by = a,
                  !.tickets[t].lease = "live"] = f
    <3> HIDE DEF v
    <3> QED BY <1>3 DEF Docs
  <2> DEFINE c == IF dispatch_enabled(d)
                    THEN [d EXCEPT !.tickets[t] = Revoke(@, "work"),
                                   !.tickets[t].broadcast = "no"]
                    ELSE d
  <2>2. c = e
    <3> HIDE DEF d
    <3>1. [d EXCEPT !.tickets[t] = Revoke(@, "work"), !.tickets[t].broadcast = "no"]
            = [d EXCEPT !.tickets[t] = b]
      BY <1>1 DEF Docs, Revoke
    <3> QED BY <3>1
  <2>3. /\ d.tickets[t].status = "open" /\ IsActive(d, a)
        /\ \/ /\ a \in Operators \/ MayClaim(d, a, t)
              /\ Commit([TouchClaimer(c, a) EXCEPT
                           !.tickets[t].status = "claimed", !.tickets[t].claimed_by = a,
                           !.tickets[t].lease = "live"])
           \/ Commit(d)
    BY SMTT(60) DEF ticket_claim
  <2>4. IsActive(d, a) /\ (a \in Operators \/ MayClaim(d, a, t)) =>
          (a \in Plain => dispatch_enabled(d) /\ ~agent_is_busy(d, a, t))
    <3> HIDE DEF d
    <3> QED BY DEF Plain, IsActive, dispatch_enabled, MayClaim, dispatch_candidate_is_eligible
  <2> HIDE DEF d, c, e, f
  <2> QED BY <2>1, <2>2, <2>3, <2>4
<1>5. CASE Commit(d)
  <2> HIDE DEF d
  <2> QED BY <1>1, <1>5, ViewSteps
<1>6. CASE Commit(f) /\ (a \in Plain => dispatch_enabled(d) /\ ~agent_is_busy(d, a, t))
  <2>5. a \in Plain => ~agent_is_busy(v, a, t) /\ ~Shows(w, "work", a)
    <3> SUFFICES ASSUME a \in Plain PROVE ~agent_is_busy(v, a, t) /\ ~Shows(w, "work", a)
      OBVIOUS
    <3>1. w = b /\ \A u \in Tickets \ {t} : v.tickets[u] = d.tickets[u]
      <4> HIDE DEF d, b, v
      <4> QED BY <1>1, <1>3, <1>6 DEF Docs
    <3>2. agent_is_busy(v, a, t) = agent_is_busy(d, a, t)
      <4> HIDE DEF d, b, v
      <4> QED BY <3>1, SameBusy
    <3>3. w = b /\ b.offer["work"] = NoOffer
      <4>1. d.tickets[t] \in Record
        <5> HIDE DEF d
        <5> QED BY <1>1, DocTicket DEF GoodTickets
      <4> HIDE DEF d, v
      <4> QED BY <3>1, <4>1 DEF Record, Kinds
    <3> HIDE DEF d, b, v, w
    <3> QED BY <1>6, <3>2, <3>3 DEF Shows, NoOffer
  <2>6. \A c \in Present(v) : ~Shows(w, "work", c)
    <3>1. CASE dispatch_enabled(d)
      <4>1. d.tickets[t] \in Record
        <5> HIDE DEF d
        <5> QED BY <1>1, DocTicket DEF GoodTickets
      <4>2. w.offer["work"] = NoOffer
        <5> HIDE DEF d, v
        <5> QED BY <1>1, <1>3, <3>1, <4>1 DEF Docs, Record, Kinds
      <4> HIDE DEF d, v, w
      <4> QED BY <4>2, PlainFacts DEF Shows, NoOffer, Present
    <3>2. CASE ~dispatch_enabled(d)
      <4> HIDE DEF d, e, v
      <4>1. Present(d) = {}
        BY <3>2 DEF Present, Plain, IsActive, dispatch_enabled
      <4> QED BY <1>2, <1>3, <4>1 DEF Keeps
    <3> QED BY <3>1, <3>2
  <2> HIDE DEF d, e, v
  <2>1. w \in GoodTickets /\ w.status = "open"
    BY <1>2, <1>3, <1>4, DocTicket DEF Keeps, Kept
  <2>2. /\ y \in GoodTickets /\ y.status = "claimed" /\ y.claimed_by = a /\ y.lease = "live"
        /\ y.offer = w.offer /\ y.reviewer = NoAgent
    <3> HIDE DEF w
    <3> QED BY <2>1, GoodClaimed
  <2>3. Moved(x, y)
    <3> HIDE DEF y
    <3> QED BY <1>3, <2>1, <2>2, ClaimedMoved
  <2>4. Advances(f)
    <3>1. /\ Goes(f) /\ f.tickets[t] = y /\ Seated(v) /\ f.members = v.members
          /\ \A u \in Tickets \ {t} : f.tickets[u] = v.tickets[u]
      <4> HIDE DEF y
      <4> QED BY <1>3, <2>2, <2>3, ActedGoes
    <3>2. y.parked = w.parked
      <4> HIDE DEF w
      <4> QED BY <2>1 DEF GoodTickets, Record
    <3>3. Present(f) \subseteq Present(v)
      BY <3>1 DEF Present, IsActive
    <3>4. Seated(f)
      <4> HIDE DEF f, y
      <4> QED BY <2>1, <2>2, <2>5, <2>6, <3>1, <3>2, <3>3, ClaimedSeated
    <3> QED BY <3>1, <3>4 DEF Advances
  <2> HIDE DEF f
  <2> QED BY <1>6, <2>4, CommitSteps
<1> QED BY <1>4, <1>5, <1>6

LEMMA UnclaimSteps ==
    ASSUME IInv, NEW a \in Agents, NEW t \in Tickets, NEW first, ticket_unclaim(a, t, first)
    PROVE  Steps
<1> DEFINE d == Prepared(a, first)
           x == board.tickets[t]
           w == d.tickets[t]
           y == [WithoutWorkLease(w) EXCEPT !.status = "open", !.for_human = FALSE]
           e == [d EXCEPT !.tickets[t] = y]
           f == redispatch_queue(Dispatch(e, t, "work", first), first)
<1>1. View(d) /\ d \in Docs
  BY PreparedView DEF View, Reaps
<1>2. PreSubmission(w) /\ Commit(f)
  <2>1. [d EXCEPT !.tickets[t] =
           [WithoutWorkLease(@) EXCEPT !.status = "open", !.for_human = FALSE]] = e
    <3> HIDE DEF d
    <3> QED BY <1>1 DEF Docs
  <2>2. PreSubmission(w) /\ Commit(Reopened(d, t, first))
    BY DEF ticket_unclaim
  <2> HIDE DEF d, e
  <2> QED BY <2>1, <2>2 DEF Reopened
<1> HIDE DEF d
<1>3. w \in GoodTickets /\ Kept(x, w)
  BY <1>1, <1>2, Before
<1>4. y \in GoodTickets /\ y.status = "open" /\ Lighter(w, y)
  <2> HIDE DEF w
  <2> QED BY <1>2, <1>3, ReopenGood, ReopenLighter
<1>5. Moved(x, y)
  <2>1. Ownership(y) = Promise!Unheld("open")
    <3> HIDE DEF y
    <3> QED BY <1>4, UnheldIs
  <2>2. Ownership(x).status \in Promise!Working
    BY <1>2, <1>3 DEF Kept, Ownership, PreSubmission, PRE_SUBMISSION_STATES, Promise!Working
  <2>3. Ownership(y) \in Promise!Release(Ownership(x))
    <3> HIDE DEF x, y
    <3> QED BY <2>1, <2>2 DEF Promise!Release, Promise!If
  <2> QED BY <2>3 DEF Moved, Promise!Moves
<1>6. Advances(e) /\ e \in Docs
  <2> HIDE DEF y
  <2> QED BY <1>1, <1>4, <1>5, ActedAdvances DEF Advances, Goes
<1>7. Keeps(e, f)
  <2> HIDE DEF e
  <2> QED BY <1>6, DispatchedQueueKeeps DEF Kinds
<1> HIDE DEF e, f
<1> QED BY <1>2, <1>6, <1>7, CommitKept

LEMMA SubmitSteps ==
    ASSUME IInv, NEW a \in Agents, NEW t \in Tickets, NEW stay_active \in BOOLEAN, NEW first,
           ticket_submit(a, t, stay_active, first)
    PROVE  Steps
<1> DEFINE d == Prepared(a, first)
           m == [d.members[a] EXCEPT !.lifecycle = IF stay_active THEN @ ELSE "handed_off"]
           v == [d EXCEPT !.members[a] = m]
           x == board.tickets[t]
           w == v.tickets[t]
           y == [w EXCEPT !.status = "submitted", !.submitted_by = a, !.lease = "none"]
           e == [v EXCEPT !.tickets[t] = y]
           f == redispatch_queue(Dispatch(e, t, "review", first), first)
<1>1. View(d) /\ d \in Docs
  BY PreparedView DEF View, Reaps
<1>2. \/ d.tickets[t].claimed_by = a /\ PreSubmission(d.tickets[t]) /\ Commit(f)
      \/ Commit(d)
  <2> DEFINE c == [d EXCEPT !.tickets[t].status = "submitted",
                            !.tickets[t].submitted_by = a,
                            !.tickets[t].lease = "none",
                            !.members[a].lifecycle =
                              IF stay_active THEN @ ELSE "handed_off"]
  <2>1. c = e
    <3>1. v = [d EXCEPT !.members[a].lifecycle = IF stay_active THEN @ ELSE "handed_off"]
      <4> HIDE DEF d
      <4> QED BY <1>1 DEF Docs
    <3>2. e = [v EXCEPT !.tickets[t].status = "submitted", !.tickets[t].submitted_by = a,
                        !.tickets[t].lease = "none"]
      <4>1. v.tickets = d.tickets
        <5> HIDE DEF d
        <5> QED BY <1>1 DEF Docs
      <4> HIDE DEF v, d
      <4> QED BY <1>1, <4>1 DEF Docs
    <3> HIDE DEF d, e
    <3> QED BY <1>1, <3>1, <3>2 DEF Docs
  <2>2. \/ /\ d.tickets[t].claimed_by = a /\ PreSubmission(d.tickets[t])
           /\ Commit(redispatch_queue(Dispatch(c, t, "review", first), first))
        \/ Commit(d)
    BY DEF ticket_submit
  <2> HIDE DEF d, c, e
  <2> QED BY <2>1, <2>2
<1> HIDE DEF d
<1>3. CASE Commit(d)
  BY <1>1, <1>3, ViewSteps
<1>4. CASE d.tickets[t].claimed_by = a /\ PreSubmission(d.tickets[t]) /\ Commit(f)
  <2>1. Keeps(d, v) /\ View(v) /\ v \in Docs /\ w = d.tickets[t]
    <3>1. m \in Member /\ m.lifecycle \in {d.members[a].lifecycle, "handed_off"}
      BY <1>1 DEF Docs, Member, Lifecycles
    <3>2. v.tickets = d.tickets
      BY <1>1 DEF Docs
    <3> HIDE DEF m
    <3>3. Keeps(d, v)
      BY <1>1, <3>1, MemberKeeps DEF IsActive
    <3> HIDE DEF v
    <3> QED BY <1>1, <3>2, <3>3, KeepsView DEF Keeps
  <2> HIDE DEF v
  <2>2. /\ w \in GoodTickets /\ Kept(x, w) /\ w.lease = "live" /\ w.claimed_by = a
        /\ PreSubmission(w) /\ x \in GoodTickets
    BY <1>4, <2>1, Before
  <2>3. /\ y \in GoodTickets /\ y.status = "submitted" /\ y.submitted_by = a
        /\ y.reviewer = w.reviewer /\ y.review_lease = w.review_lease
        /\ Easier(w, y)
    <3> HIDE DEF w
    <3> QED BY <2>2, GoodSubmitted
  <2>4. Moved(x, y)
    <3>1. y.reviewer = NoAgent /\ y.review_lease = "none"
      <4> HIDE DEF y, w
      <4> QED BY <2>2, <2>3 DEF GoodTickets, Good, Owned, PreSubmission, PRE_SUBMISSION_STATES
    <3>2. Ownership(y) = [Promise!Unheld("submitted") EXCEPT !.author = a]
      <4> HIDE DEF y
      <4> QED BY <2>3, <3>1, HandedInIs
    <3>3. /\ Ownership(x).status \in Promise!Working /\ Ownership(x).lease = "live"
          /\ Ownership(x).holder = a
      <4> HIDE DEF w
      <4> QED BY <2>2 DEF Kept, Ownership, PreSubmission, PRE_SUBMISSION_STATES, Promise!Working
    <3>4. Ownership(y) \in Promise!Submit(Ownership(x))
      <4> HIDE DEF x, y
      <4> QED BY <3>2, <3>3 DEF Promise!Submit, Promise!If
    <3> QED BY <3>4 DEF Moved, Promise!Moves
  <2>5. Goes(e) /\ e \in Docs /\ Separate(e)
    <3>1. /\ Goes(e) /\ e \in Docs /\ e.tickets[t] = y /\ Seated(v)
          /\ \A u \in Tickets \ {t} : e.tickets[u] = v.tickets[u]
      <4> HIDE DEF y
      <4> QED BY <2>1, <2>3, <2>4, ActedGoes
    <3>2. Separate(e)
      <4> HIDE DEF e, y
      <4> QED BY <2>3, <3>1, ActedSeparate DEF Seated
    <3> QED BY <3>1, <3>2
  <2>6. Advances(f)
    <3> HIDE DEF e
    <3> QED BY <2>5, DispatchKeeps, QueueAdvances DEF Kinds, Keeps
  <2> HIDE DEF e, f
  <2> QED BY <1>4, <2>6, CommitSteps
<1> QED BY <1>2, <1>3, <1>4

\* A renewal finds a live lease, as the reap pass has ended the others.
LEMMA RenewSteps ==
    ASSUME IInv, NEW a \in Agents, NEW t \in Tickets, NEW first, lease_renew(a, t, first)
    PROVE  Steps
<1> DEFINE d == Reaped(first)
           w == d.tickets[t]
           r == [d EXCEPT !.tickets[t].review_lease = "live"]
           l == [d EXCEPT !.tickets[t].lease = "live"]
<1>1. View(d) /\ d \in Docs
  BY ReapedView DEF View, Reaps
<1>2. \/ w.status = "submitted" /\ w.reviewer # NoAgent /\ Commit(r)
      \/ PreSubmission(w) /\ Commit(l)
      \/ Commit(d)
  BY DEF lease_renew, SamePrincipal
<1> HIDE DEF d
<1>3. w \in GoodTickets /\ w \in Record /\ ~HasLapsedLease(w)
  BY <1>1, DocTicket DEF View, Fresh, GoodTickets
<1>4. CASE w.status = "submitted" /\ w.reviewer # NoAgent /\ Commit(r)
  <2>1. w.review_lease = "live"
    BY <1>3, <1>4 DEF GoodTickets, Good, Owned, HasLapsedLease, Record, Leases
  <2>2. [w EXCEPT !.review_lease = "live"] = w
    BY <1>3, <2>1 DEF Record
  <2>3. r = [d EXCEPT !.tickets[t] = [w EXCEPT !.review_lease = "live"]]
    BY <1>1 DEF Docs
  <2>4. r = d
    BY <1>1, <2>2, <2>3 DEF Docs
  <2> QED BY <1>1, <1>4, <2>4, ViewSteps
<1>5. CASE PreSubmission(w) /\ Commit(l)
  <2>1. w.lease = "live"
    BY <1>1, <1>5, Before
  <2>2. [w EXCEPT !.lease = "live"] = w
    BY <1>3, <2>1 DEF Record
  <2>3. l = [d EXCEPT !.tickets[t] = [w EXCEPT !.lease = "live"]]
    BY <1>1 DEF Docs
  <2>4. l = d
    BY <1>1, <2>2, <2>3 DEF Docs
  <2> QED BY <1>1, <1>5, <2>4, ViewSteps
<1>6. CASE Commit(d)
  BY <1>1, <1>6, ViewSteps
<1> QED BY <1>2, <1>4, <1>5, <1>6

LEMMA BoardReapSteps ==
    ASSUME IInv, NEW a \in Agents, NEW first, board_reap(a, first)
    PROVE  Steps
<1> DEFINE d == Reaped(first)
           seats == {b \in Agents : SamePrincipal(a, b)}
           e == RenewHeld(d, seats)
<1>1. View(d) /\ d \in Docs /\ Fresh(d)
  BY ReapedView DEF View, Reaps
<1>2. Commit(e)
  BY DEF board_reap
<1> HIDE DEF d, seats
<1>3. Keeps(d, e)
  BY <1>1, RenewHeldKeeps
<1> HIDE DEF e
<1>4. View(e)
  BY <1>1, <1>3, KeepsView
<1> QED BY <1>2, <1>4, ViewSteps

\* Who may judge a ticket may do so after the reap pass as well.
LEMMA JudgesIs ==
    ASSUME IInv, NEW d, View(d), NEW t \in Tickets, d.tickets[t].status = "submitted",
           NEW a \in Agents, Independent(d.tickets[t], a),
           ReviewLeaseIsLive(d.tickets[t]) => d.tickets[t].reviewer = a
    PROVE  LET o == Ownership(board.tickets[t])
           IN  a \in Promise!Judges(o) /\ o.status = "submitted"
               /\ o.author = d.tickets[t].submitted_by
<1> DEFINE x == board.tickets[t]
           w == d.tickets[t]
           o == Ownership(x)
<1>1. /\ x.status = "submitted" /\ x.submitted_by = w.submitted_by
      /\ x.review_lease = "live" => w.review_lease = "live" /\ w.reviewer = x.reviewer
      /\ w \in Record
  BY Before DEF GoodTickets
<1>2. /\ o.status = "submitted" /\ o.author = w.submitted_by
      /\ o.review_lease = "live" => a = o.reviewer
  BY <1>1, SubmittedIs DEF ReviewLeaseIsLive
<1>3. <<a, w.submitted_by>> \in ReviewPolicy
  BY <1>1 DEF ReviewPolicy, Independent, Record, Someone
<1> HIDE DEF o
<1> QED BY <1>2, <1>3 DEF Promise!Judges, o

LEMMA TakeReviewKeeps ==
    ASSUME NEW d \in Docs, NEW t \in Tickets
    PROVE  LET e == TakeReviewOffer(d, t)
           IN  /\ Keeps(d, e) /\ e.tickets[t].offer["review"] = NoOffer
               /\ \A u \in Tickets \ {t} : e.tickets[u] = d.tickets[u]
<1> DEFINE r == Revoke(d.tickets[t], "review")
           b == [r EXCEPT !.broadcast = "no"]
<1>1. Tidied(d.tickets[t], r)
  BY DocTicket, RevokeTidies DEF Kinds
<1>2. Tidied(r, b)
  <2> HIDE DEF r
  <2> QED BY <1>1, BroadcastTidies DEF Tidied
<1>3. Tidied(d.tickets[t], b)
  <2> HIDE DEF r, b
  <2> QED BY <1>1, <1>2, TidiedTwice
<1>4. TakeReviewOffer(d, t) = [d EXCEPT !.tickets[t] = b]
  BY DEF TakeReviewOffer, Docs
<1>5. b.offer["review"] = NoOffer
  BY DocTicket DEF GoodTickets, Record, Kinds, Revoke
<1> HIDE DEF b
<1>6. LET e == [d EXCEPT !.tickets[t] = b]
      IN  e.tickets[t] = b /\ \A u \in Tickets \ {t} : e.tickets[u] = d.tickets[u]
  BY DEF Docs
<1> QED BY <1>3, <1>4, <1>5, <1>6, SetTidied

\* A review is claimed, or claimed again, by a seat that is free or not bound by offers.
LEMMA ReviewSeated ==
    ASSUME NEW d, NEW e, NEW t \in Tickets, NEW a, Seated(d), d.tickets[t].status = "submitted",
           \A u \in Tickets \ {t} : e.tickets[u] = d.tickets[u],
           Present(e) \subseteq Present(d),
           e.tickets[t].status = "submitted", e.tickets[t].reviewer = a,
           e.tickets[t].offer = d.tickets[t].offer, e.tickets[t].parked = d.tickets[t].parked,
           e.tickets[t].submitted_by = d.tickets[t].submitted_by,
           a \in Plain => \/ Reviewing(d.tickets[t], a)
                          \/ ~agent_is_busy(d, a, t) /\ ~Shows(d.tickets[t], "review", a)
    PROVE  Seated(e)
<1> DEFINE x == d.tickets[t]
           y == e.tickets[t]
<1>1. ~PreSubmission(y) /\ ~PreSubmission(x) /\ ~Inactive(y)
  BY DEF PreSubmission, PRE_SUBMISSION_STATES, Inactive, TERMINAL_TICKET_STATES
<1>2. \A b \in Plain : Job(y, b) => Job(x, b) \/ ~agent_is_busy(d, b, t)
  BY <1>1 DEF Job, Working, Reviewing, Shows
<1>3. \A b \in Plain : Engages(y, b) => Engages(x, b) \/ ~agent_is_busy(d, b, t)
  BY <1>1 DEF Engages, Holds, inactive_work_ownership_is_ambiguous, Reviewing
<1>4. Separate(e)
  BY <1>2, <1>3, JoinedSeparate DEF Seated
<1>5. ASSUME NEW k \in Kinds PROVE Placed(y, k, Present(e))
  <2>1. Placed(x, k, Present(d))
    BY DEF Seated
  <2> QED BY <1>1, <2>1 DEF Placed, Shows, Stands, Kinds, Reviewing, Independent
<1>6. ASSUME NEW u \in Tickets, NEW k \in Kinds PROVE Placed(e.tickets[u], k, Present(e))
  <2>1. CASE u = t
    BY <1>5, <2>1
  <2>2. CASE u # t
    BY <2>2, FewerPlaced DEF Seated
  <2> QED BY <2>1, <2>2
<1> QED BY <1>4, <1>6 DEF Seated

LEMMA ReviewClaimSteps ==
    ASSUME IInv, NEW a \in Agents, NEW t \in Tickets, NEW first,
           ticket_review_claim(a, t, first)
    PROVE  Steps
<1> DEFINE c == ClaimView(first)
           d == retire_nonreviewable_review_offers(c)
           b == [Revoke(d.tickets[t], "review") EXCEPT !.broadcast = "no"]
           e == IF NeedsOffer(d, t) THEN TakeReviewOffer(d, t) ELSE d
           v == TouchClaimer(e, a)
           x == board.tickets[t]
           w == v.tickets[t]
           y == [w EXCEPT !.reviewer = a, !.review_lease = "live"]
           f == [v EXCEPT !.tickets[t] = y]
<1>1. View(d) /\ d \in Docs
  <2>1. View(c) /\ c \in Docs
    BY ReapedView DEF View, Reaps
  <2> HIDE DEF c
  <2>2. Keeps(c, d)
    BY <2>1, RetireKeeps
  <2> HIDE DEF d
  <2> QED BY <2>1, <2>2, KeepsView DEF Keeps
<1>2. /\ d.tickets[t].status = "submitted" /\ Independent(d.tickets[t], a)
      /\ \/ Commit(d)
         \/ /\ ReviewLeaseIsLive(d.tickets[t]) => d.tickets[t].reviewer = a
            /\ a \in Plain => (NeedsOffer(d, t) => ~agent_is_busy(d, a, t))
            /\ a \in Plain => dispatch_enabled(d)
            /\ Commit([v EXCEPT !.tickets[t].reviewer = a, !.tickets[t].review_lease = "live"])
  <2>1. /\ d.tickets[t].status = "submitted" /\ Independent(d.tickets[t], a) /\ IsActive(d, a)
        /\ \/ Commit(d)
           \/ /\ ReviewLeaseIsLive(d.tickets[t]) => d.tickets[t].reviewer = a
              /\ MayReviewClaim(d, a, t)
              /\ Commit([v EXCEPT !.tickets[t].reviewer = a, !.tickets[t].review_lease = "live"])
    BY DEF ticket_review_claim
  <2> HIDE DEF d, v
  <2>2. IsActive(d, a) /\ MayReviewClaim(d, a, t) /\ a \in Plain =>
          dispatch_enabled(d) /\ (NeedsOffer(d, t) => ~agent_is_busy(d, a, t))
    BY DEF Plain, IsActive, dispatch_enabled, MayReviewClaim, dispatch_candidate_is_eligible
  <2> QED BY <2>1, <2>2
<1> HIDE DEF d
<1>3. Keeps(d, e) /\ View(e) /\ e \in Docs /\ Independent(e.tickets[t], a)
  <2>1. Keeps(d, TakeReviewOffer(d, t))
    BY <1>1, TakeReviewKeeps
  <2>2. Keeps(d, e)
    BY <1>1, <2>1, KeepsSame
  <2> HIDE DEF e
  <2> QED BY <1>1, <1>2, <2>2, KeepsView DEF Keeps, Kept, Independent
<1>4. View(v) /\ v \in Docs /\ Keeps(e, v) /\ Keeps(d, v) /\ v.tickets = e.tickets
  <2> HIDE DEF e
  <2> QED BY <1>3, ClaimerView, KeepsTwice DEF View, Reaps
<1>5. CASE Commit(d)
  BY <1>1, <1>5, ViewSteps
<1>6. CASE /\ ReviewLeaseIsLive(d.tickets[t]) => d.tickets[t].reviewer = a
           /\ a \in Plain => (NeedsOffer(d, t) => ~agent_is_busy(d, a, t))
           /\ a \in Plain => dispatch_enabled(d)
           /\ Commit([v EXCEPT !.tickets[t].reviewer = a, !.tickets[t].review_lease = "live"])
  <2>6. a \in Plain => \/ Reviewing(w, a)
                       \/ ~agent_is_busy(v, a, t) /\ ~Shows(w, "review", a)
    <3> SUFFICES ASSUME a \in Plain PROVE \/ Reviewing(w, a)
                                          \/ ~agent_is_busy(v, a, t) /\ ~Shows(w, "review", a)
      OBVIOUS
    <3>1. CASE ReviewLeaseIsLive(d.tickets[t])
      <4> HIDE DEF e, v
      <4>1. Reviewing(d.tickets[t], a)
        BY <1>2, <1>6, <3>1 DEF Reviewing
      <4> QED BY <1>4, <4>1, KeptJobs DEF Keeps
    <3>2. CASE ~ReviewLeaseIsLive(d.tickets[t])
      <4>1. NeedsOffer(d, t) /\ ~agent_is_busy(d, a, t)
        BY <1>6, <3>2 DEF NeedsOffer
      <4>2. w.offer["review"] = NoOffer /\ \A u \in Tickets \ {t} : v.tickets[u] = d.tickets[u]
        <5>1. e = TakeReviewOffer(d, t)
          BY <4>1
        <5> HIDE DEF e, v
        <5> QED BY <1>1, <1>4, <5>1, TakeReviewKeeps
      <4> HIDE DEF e, v
      <4>3. agent_is_busy(v, a, t) = agent_is_busy(d, a, t)
        BY <4>2, SameBusy
      <4> QED BY <4>1, <4>2, <4>3 DEF Shows, NoOffer
    <3> QED BY <3>1, <3>2
  <2> HIDE DEF e, v
  <2>1. Commit(f)
    <3>1. [v EXCEPT !.tickets[t].reviewer = a, !.tickets[t].review_lease = "live"] = f
      BY <1>4 DEF Docs
    <3> HIDE DEF f
    <3> QED BY <1>6, <3>1
  <2>2. /\ w \in GoodTickets /\ w.status = "submitted" /\ Independent(w, a)
        /\ ReviewLeaseIsLive(w) => w.reviewer = a
    BY <1>2, <1>4, <1>6, DocTicket DEF Keeps, Kept, Independent, ReviewLeaseIsLive
  <2>3. /\ y \in GoodTickets /\ y.status = "submitted" /\ y.submitted_by = w.submitted_by
        /\ y.reviewer = a /\ y.review_lease = "live" /\ y.offer = w.offer /\ y.parked = w.parked
    <3> HIDE DEF w
    <3> QED BY <2>2, GoodReviewed
  <2>4. Moved(x, y)
    <3> HIDE DEF y
    <3>1. /\ x \in GoodTickets /\ x.status = "submitted" /\ x.submitted_by = w.submitted_by
      BY <1>4, <2>2, Before
    <3>2. a \in Promise!Judges(Ownership(x)) /\ Ownership(x).status = "submitted"
      BY <1>4, <2>2, JudgesIs
    <3>3. Ownership(y) = [Ownership(x) EXCEPT !.reviewer = a, !.review_lease = "live"]
      <4>1. Ownership(y) = [Ownership(x) EXCEPT !.reviewer = y.reviewer,
                                                !.review_lease = y.review_lease]
        <5> HIDE DEF x, w
        <5> QED BY <2>3, <3>1, ReviewIs
      <4> QED BY <2>3, <4>1
    <3>4. Ownership(y) \in Promise!ReviewClaim(Ownership(x))
      <4> HIDE DEF x
      <4> QED BY <3>2, <3>3 DEF Promise!ReviewClaim, Promise!If
    <3> QED BY <3>4 DEF Moved, Promise!Moves
  <2>5. Advances(f)
    <3>1. /\ Goes(f) /\ f.tickets[t] = y /\ Seated(v) /\ f.members = v.members
          /\ \A u \in Tickets \ {t} : f.tickets[u] = v.tickets[u]
      <4> HIDE DEF y
      <4> QED BY <1>4, <2>3, <2>4, ActedGoes
    <3>2. Present(f) \subseteq Present(v)
      BY <3>1 DEF Present, IsActive
    <3>3. Seated(f)
      <4> HIDE DEF f, y
      <4> QED BY <2>2, <2>3, <2>6, <3>1, <3>2, ReviewSeated
    <3> QED BY <3>1, <3>3 DEF Advances
  <2> HIDE DEF f
  <2> QED BY <2>1, <2>5, CommitSteps
<1> QED BY <1>2, <1>5, <1>6

LEMMA ReviewReleaseSteps ==
    ASSUME IInv, NEW a \in Agents, NEW t \in Tickets, NEW first,
           ticket_review_release(a, t, first)
    PROVE  Steps
<1> DEFINE d == Prepared(a, first)
           x == board.tickets[t]
           w == d.tickets[t]
           y == [WithoutReviewLease(w) EXCEPT !.last_review_released_by = a]
           e == [d EXCEPT !.tickets[t] = y]
           f == redispatch_queue(Dispatch(e, t, "review", first), first)
<1>1. View(d) /\ d \in Docs
  BY PreparedView DEF View, Reaps
<1>2. w.review_lease = "live" /\ Commit(f)
  <2>1. [d EXCEPT !.tickets[t] =
           [WithoutReviewLease(@) EXCEPT !.last_review_released_by = a]] = e
    <3> HIDE DEF d
    <3> QED BY <1>1 DEF Docs
  <2>2. /\ w.review_lease = "live"
        /\ Commit(redispatch_queue(Dispatch(
             [d EXCEPT !.tickets[t] =
                [WithoutReviewLease(@) EXCEPT !.last_review_released_by = a]],
             t, "review", first), first))
    BY DEF ticket_review_release, ReviewLeaseIsLive
  <2> HIDE DEF d, e
  <2> QED BY <2>1, <2>2
<1> HIDE DEF d
<1>3. /\ x \in GoodTickets /\ w \in GoodTickets /\ Ended(x, w)
      /\ w.status \in {"submitted", "canceled"}
  <2>1. x \in GoodTickets /\ w \in GoodTickets /\ Ended(x, w)
    BY <1>1, DocTicket DEF IInv, View, Reaps
  <2> HIDE DEF w
  <2> QED BY <1>2, <2>1 DEF GoodTickets, Good, Owned
<1>4. Kept(x, w)
  <2>1. ~Kept([x EXCEPT !.reviewer = NoAgent, !.review_lease = "none"], w)
    BY <1>2, <1>3 DEF Kept, GoodTickets, Record
  <2> HIDE DEF x, w
  <2> QED BY <1>3, <2>1 DEF Ended
<1>5. /\ y \in GoodTickets /\ y.status = w.status /\ y.submitted_by = w.submitted_by
      /\ y.reviewer = NoAgent /\ y.review_lease = "none" /\ Lighter(w, y)
  <2> HIDE DEF w
  <2> QED BY <1>3, GoodFreed
<1>6. Moved(x, y)
  <2> HIDE DEF x, w, y
  <2>1. CASE w.status = "submitted"
    <3>1. x.status = "submitted" /\ y.submitted_by = x.submitted_by /\ y.status = "submitted"
      BY <1>4, <1>5, <2>1 DEF Kept
    <3>2. Ownership(y) = [Ownership(x) EXCEPT !.reviewer = y.reviewer,
                                              !.review_lease = y.review_lease]
      BY <1>3, <1>5, <3>1, ReviewIs
    <3>3. Ownership(x).status = "submitted"
      BY <3>1 DEF Ownership
    <3>4. Ownership(y) = [Ownership(x) EXCEPT !.reviewer = NoAgent, !.review_lease = "none"]
      BY <1>5, <3>2
    <3> QED BY <3>3, <3>4 DEF Moved, Promise!Moves, Promise!ReviewEnd, Promise!If
  <2>2. CASE w.status = "canceled"
    <3>1. x.status = "canceled" /\ y.status = "canceled"
      BY <1>4, <1>5, <2>2 DEF Kept
    <3>2. Ownership(x) = Promise!Unheld("canceled") /\ Ownership(y) = Promise!Unheld("canceled")
      BY <3>1, UnheldIs
    <3> QED BY <3>2 DEF Moved, Promise!Moves
  <2> QED BY <1>3, <2>1, <2>2
<1>7. Advances(e) /\ e \in Docs
  <2> HIDE DEF y
  <2> QED BY <1>1, <1>5, <1>6, ActedAdvances DEF Advances, Goes
<1>8. Keeps(e, f)
  <2> HIDE DEF e
  <2> QED BY <1>7, DispatchedQueueKeeps DEF Kinds
<1> HIDE DEF e, f
<1> QED BY <1>2, <1>7, <1>8, CommitKept

\* A verdict of a seat that may judge is an approval, a rejection or another try.
LEMMA JudgedMoved ==
    ASSUME IInv, NEW d, View(d), NEW t \in Tickets, d.tickets[t].status = "submitted",
           NEW a \in Agents, Independent(d.tickets[t], a),
           ReviewLeaseIsLive(d.tickets[t]) => d.tickets[t].reviewer = a,
           NEW y \in GoodTickets,
           \/ y.status \in {"open", "rejected"}
           \/ /\ y.status = "closed" /\ y.submitted_by = d.tickets[t].submitted_by
              /\ y.reviewed_by = a
    PROVE  Moved(board.tickets[t], y)
<1> DEFINE x == board.tickets[t]
           o == Ownership(x)
<1>1. a \in Promise!Judges(o) /\ o.status = "submitted" /\ o.author = d.tickets[t].submitted_by
  BY JudgesIs
<1>2. CASE y.status \in {"open", "rejected"}
  <2>1. Ownership(y) = Promise!Unheld(y.status)
    BY <1>2, UnheldIs
  <2>2. Ownership(y) \in Promise!Reject(o)
    <3> HIDE DEF o
    <3> QED BY <1>1, <1>2, <2>1 DEF Promise!Reject, Promise!If
  <2> QED BY <2>2 DEF Moved, Promise!Moves
<1>3. CASE /\ y.status = "closed" /\ y.submitted_by = d.tickets[t].submitted_by
           /\ y.reviewed_by = a
  <2>1. Ownership(y) = [Promise!Unheld("closed") EXCEPT !.author = y.submitted_by,
                                                        !.approver = y.reviewed_by]
    BY <1>3, ClosedIs
  <2>2. Ownership(y) \in Promise!Approve(o)
    <3> HIDE DEF o
    <3>1. Ownership(y) = [Promise!Unheld("closed") EXCEPT !.author = o.author, !.approver = a]
      BY <1>1, <1>3, <2>1
    <3> QED BY <1>1, <3>1 DEF Promise!Approve, Promise!If
  <2> QED BY <2>2 DEF Moved, Promise!Moves
<1> QED BY <1>2, <1>3

LEMMA ReviewOfferView ==
    ASSUME IInv, NEW d, View(d), NEW t \in Tickets, NEW first
    PROVE  View(WithReviewOffer(d, t, first))
<1>1. d \in Docs
  BY DEF View, Reaps
<1>2. Keeps(d, WithReviewOffer(d, t, first))
  BY <1>1, DispatchKeeps, KeepsSame DEF WithReviewOffer, Kinds
<1> QED BY <1>2, KeepsView

LEMMA VerdictAdvances ==
    ASSUME IInv, NEW d, View(d), NEW t \in Tickets, d.tickets[t].status = "submitted",
           NEW a \in Agents, Independent(d.tickets[t], a),
           ReviewLeaseIsLive(d.tickets[t]) => d.tickets[t].reviewer = a,
           NEW status \in {"closed", "rejected", "open"}, NEW parked \in BOOLEAN, NEW first
    PROVE  Advances(Verdict(d, a, t, status, parked, first))
<1> DEFINE taken == IF NeedsOffer(d, t) THEN TakeReviewOffer(d, t) ELSE d
           z == taken.tickets[t]
           r == Revoke(z, "review")
           p == r.parked \/ parked
           done == [WithoutReviewLease(r) EXCEPT !.status = status, !.reviewed_by = a,
                                                 !.parked = @ \/ parked]
           again == [WithoutWorkLease(done) EXCEPT !.submitted_by = NoAgent, !.for_human = FALSE]
           final == [done EXCEPT !.broadcast = IF dispatch_enabled(d) THEN "no" ELSE @]
           y == IF status = "open" THEN again ELSE final
           e == [taken EXCEPT !.tickets[t] = y]
           f == IF status = "open" THEN Dispatch(e, t, "work", first) ELSE e
           q == redispatch_queue(f, first)
<1>1. View(taken) /\ taken \in Docs /\ Keeps(d, taken)
  <2>1. d \in Docs
    BY DEF View, Reaps
  <2>2. Keeps(d, TakeReviewOffer(d, t))
    BY <2>1, TakeReviewKeeps
  <2>3. Keeps(d, taken)
    BY <2>1, <2>2, KeepsSame
  <2> HIDE DEF taken
  <2> QED BY <2>3, KeepsView DEF Keeps
<1>2. Verdict(d, a, t, status, parked, first) = q
  BY DEF Verdict
<1> HIDE DEF taken
<1>3. /\ z \in GoodTickets /\ z.status = "submitted" /\ Independent(z, a)
      /\ ReviewLeaseIsLive(z) => z.reviewer = a
  BY <1>1, DocTicket DEF Keeps, Kept, Independent, ReviewLeaseIsLive
<1>4. r \in GoodTickets /\ Kept(z, r) /\ r.status = "submitted" /\ Independent(r, a)
      /\ Tidied(z, r) /\ r.offer["review"] = NoOffer
  <2>1. Tidied(z, r)
    <3> HIDE DEF z
    <3> QED BY <1>3, RevokeTidies DEF Kinds
  <2>2. r.offer["review"] = NoOffer
    <3> HIDE DEF z
    <3> QED BY <1>3 DEF GoodTickets, Record, Kinds, Revoke
  <2> HIDE DEF z, r
  <2> QED BY <1>3, <2>1, <2>2 DEF Tidied, Kept, Independent
<1>5. p \in BOOLEAN /\ r.broadcast \in {"no", "yes", "due"} /\ r \in Record
  <2> HIDE DEF r
  <2> QED BY <1>4 DEF GoodTickets, Record
<1>6. /\ y \in GoodTickets /\ Lighter(r, y)
      /\ \/ y.status \in {"open", "rejected"}
         \/ y.status = "closed" /\ y.submitted_by = z.submitted_by /\ y.reviewed_by = a
  <2>1. CASE status = "open"
    <3> DEFINE g == [WithoutWorkLease([WithoutReviewLease(r) EXCEPT
                                         !.status = "open", !.reviewed_by = a, !.parked = p])
                       EXCEPT !.submitted_by = NoAgent, !.for_human = FALSE]
    <3>1. g \in GoodTickets /\ g.status = "open" /\ Lighter(r, g)
      <4> HIDE DEF r, p
      <4> QED BY <1>4, <1>5, GoodRedone
    <3>2. [WithoutReviewLease(r) EXCEPT !.status = "open", !.reviewed_by = a, !.parked = p]
            = [WithoutReviewLease(r) EXCEPT !.status = status, !.reviewed_by = a,
                                            !.parked = @ \/ parked]
      <4> HIDE DEF r
      <4> QED BY <1>5, <2>1 DEF WithoutReviewLease, Record
    <3>3. y = g
      <4> HIDE DEF r
      <4> QED BY <2>1, <3>2
    <3> HIDE DEF g, y, r
    <3> QED BY <3>1, <3>3
  <2>2. CASE status \in {"closed", "rejected"}
    <3> DEFINE b == IF dispatch_enabled(d) THEN "no" ELSE r.broadcast
               g == [WithoutReviewLease(r) EXCEPT !.status = status, !.reviewed_by = a,
                                                  !.parked = p, !.broadcast = b]
    <3>1. g \in GoodTickets /\ g.status = status /\ g.submitted_by = r.submitted_by
          /\ g.reviewed_by = a /\ Lighter(r, g)
      <4>1. b \in {"no", "yes", "due"}
        <5> HIDE DEF r
        <5> QED BY <1>5
      <4> HIDE DEF r, p, b
      <4>2. LET h == Judged(r, status, a, p, b)
            IN  h \in GoodTickets /\ h.status = status /\ h.submitted_by = r.submitted_by
                /\ h.reviewed_by = a /\ Lighter(r, h)
        BY <1>4, <1>5, <2>2, <4>1, GoodJudged
      <4> QED BY <4>2 DEF Judged
    <3>2. y = g
      <4> HIDE DEF r
      <4>1. y = final
        <5> HIDE DEF again, final
        <5> QED BY <2>2
      <4> DEFINE u == WithoutReviewLease(r)
                 c == IF dispatch_enabled(d) THEN "no" ELSE done.broadcast
                 v == [u EXCEPT !.status = status, !.reviewed_by = a, !.parked = p]
      <4>2. u \in Record /\ u.broadcast = r.broadcast /\ u.parked = r.parked
        BY <1>5, Values DEF WithoutReviewLease, Record
      <4>3. final = [done EXCEPT !.broadcast = c]
        BY DEF WithoutReviewLease
      <4>4. done = v
        <5>1. done = [u EXCEPT !.status = status, !.reviewed_by = a,
                               !.parked = u.parked \/ parked]
          <6> HIDE DEF u
          <6> QED BY <4>2 DEF u, Record
        <5> HIDE DEF u, done, r
        <5> QED BY <4>2, <5>1
      <4>5. c = b
        <5>1. v.broadcast = r.broadcast
          <6> HIDE DEF u, p
          <6> QED BY <4>2 DEF Record
        <5> HIDE DEF v, r, done
        <5> QED BY <4>4, <5>1
      <4>6. g = [v EXCEPT !.broadcast = b]
        <5>1. g = [u EXCEPT !.status = status, !.reviewed_by = a, !.parked = p,
                            !.broadcast = b]
          OBVIOUS
        <5>2. u \in Record /\ v = [u EXCEPT !.status = status, !.reviewed_by = a, !.parked = p]
          BY <4>2
        <5> HIDE DEF u, p, b, g, v
        <5> QED BY <5>1, <5>2 DEF Record
      <4> HIDE DEF y, final, done, v, c, b, g
      <4> QED BY <4>1, <4>3, <4>4, <4>5, <4>6
    <3>3. r.submitted_by = z.submitted_by
      <4> HIDE DEF r, z
      <4> QED BY <1>4 DEF Kept
    <3> HIDE DEF g, y, r, z
    <3> QED BY <2>2, <3>1, <3>2, <3>3
  <2> QED BY <2>1, <2>2
<1>7. Moved(board.tickets[t], y)
  <2> HIDE DEF y, done
  <2> QED BY <1>1, <1>3, <1>6, JudgedMoved
<1>8. Advances(e) /\ e \in Docs
  <2> HIDE DEF y, done, r
  <2>1. Lighter(z, y)
    BY <1>4, <1>6, TidiedLighter
  <2> QED BY <1>1, <1>6, <1>7, <2>1, ActedAdvances DEF Advances, Goes
<1>9. Keeps(e, f) /\ f \in Docs
  <2>1. Keeps(e, f)
    <3> HIDE DEF e
    <3> QED BY <1>8, DispatchKeeps, KeepsSame DEF Kinds
  <2> HIDE DEF f, e
  <2> QED BY <2>1 DEF Keeps
<1>10. Keeps(f, q)
  <2> HIDE DEF f
  <2> QED BY <1>9, RedispatchKeeps
<1> HIDE DEF e, f, q
<1> QED BY <1>2, <1>8, <1>9, <1>10, AdvancesKeeps

LEMMA ReviewSteps ==
    ASSUME IInv, NEW a \in Agents, NEW t \in Tickets,
           NEW status \in {"closed", "rejected", "open"}, NEW parked \in BOOLEAN, NEW first,
           ticket_review(a, t, status, parked, first)
    PROVE  Steps
<1> DEFINE d == WithReviewOffer(Prepared(a, first), t, first)
<1>1. View(d)
  BY PreparedView, ReviewOfferView
<1>2. /\ d.tickets[t].status = "submitted" /\ Independent(d.tickets[t], a)
      /\ \/ /\ ReviewLeaseIsLive(d.tickets[t]) => d.tickets[t].reviewer = a
            /\ Commit(Verdict(d, a, t, status, parked, first))
         \/ Commit(d)
  BY DEF ticket_review, MayJudge
<1> HIDE DEF d
<1>3. CASE Commit(d)
  BY <1>1, <1>3, ViewSteps
<1>4. CASE /\ ReviewLeaseIsLive(d.tickets[t]) => d.tickets[t].reviewer = a
           /\ Commit(Verdict(d, a, t, status, parked, first))
  <2>1. Advances(Verdict(d, a, t, status, parked, first))
    BY <1>1, <1>2, <1>4, VerdictAdvances
  <2> QED BY <1>4, <2>1, CommitSteps
<1> QED BY <1>2, <1>3, <1>4

-----------------------------------------------------------------------------
(* Leaving the flow *)

\* A call that does not reap finds the board as it is.
LEMMA BoardAdvances == ASSUME IInv PROVE Advances(board) /\ board \in Docs
  BY DocTicket, KeptMoved DEF IInv, Advances, Goes, Kept

\* A ticket that keeps its owners is put into the document.
LEMMA OwnedAdvances ==
    ASSUME NEW d, Advances(d), NEW t \in Tickets, NEW y \in GoodTickets,
           Lighter(d.tickets[t], y), Ownership(y) = Ownership(d.tickets[t])
    PROVE  LET e == [d EXCEPT !.tickets[t] = y]
           IN  Advances(e) /\ e \in Docs /\ e.tickets[t] = y
<1> DEFINE e == [d EXCEPT !.tickets[t] = y]
<1>1. d \in Docs /\ Goes(d) /\ Seated(d)
  BY DEF Advances, Goes
<1>2. /\ e \in Docs /\ e.tickets[t] = y /\ e.members = d.members
      /\ \A u \in Tickets \ {t} : e.tickets[u] = d.tickets[u]
  BY <1>1 DEF Docs
<1> HIDE DEF e
<1>3. Goes(e)
  BY <1>1, <1>2 DEF Goes, Moved
<1>4. Orderly(d, e)
  <2>1. Lighter(d.tickets[t], e.tickets[t])
    BY <1>2
  <2> QED BY <1>2, <2>1, ActedOrderly
<1>5. Present(e) \subseteq Present(d)
  BY <1>2 DEF Present, IsActive
<1> QED BY <1>1, <1>2, <1>3, <1>4, <1>5, OrderlySeated DEF Advances, e

LEMMA TidiedAdvances ==
    ASSUME NEW d, Advances(d), NEW t \in Tickets, NEW y, Tidied(d.tickets[t], y)
    PROVE  LET e == [d EXCEPT !.tickets[t] = y]
           IN  Advances(e) /\ e \in Docs /\ e.tickets[t] = y
  BY CalmLighter, KeptOwnership, OwnedAdvances DEF Tidied

\* A ticket that is not finished is canceled, or left to a human.
LEMMA LeftMoved ==
    ASSUME IInv, NEW d, View(d), NEW t \in Tickets,
           d.tickets[t].status \notin TERMINAL_TICKET_STATES \cup {"missing"},
           NEW y, y.status \in {"canceled", "needs_human"}
    PROVE  Moved(board.tickets[t], y)
<1> DEFINE x == board.tickets[t]
<1>1. x.status \notin TERMINAL_TICKET_STATES \cup {"missing"}
  BY Before
<1>2. Ownership(y) = Promise!Unheld(y.status)
  BY UnheldIs
<1>3. Ownership(x).status = x.status
  BY DEF Ownership
<1>4. Ownership(y) \in Promise!Cancel(Ownership(x)) \cup Promise!AskHuman(Ownership(x))
  <2> HIDE DEF x
  <2> QED BY <1>1, <1>2, <1>3
          DEF Promise!Cancel, Promise!AskHuman, Promise!If, Promise!Terminal,
              TERMINAL_TICKET_STATES
<1> QED BY <1>4 DEF Moved, Promise!Moves

\* Both offers of a ticket are taken back.
LEMMA RevokeBothTidies ==
    ASSUME NEW x \in GoodTickets
    PROVE  Tidied(x, RevokeBoth(x)) /\ \A k \in Kinds : RevokeBoth(x).offer[k] = NoOffer
<1> DEFINE w == Revoke(x, "work")
<1>1. Tidied(x, w) /\ w \in GoodTickets /\ w.offer["work"] = NoOffer
  <2>1. Tidied(x, w)
    BY RevokeTidies DEF Kinds
  <2>2. w.offer["work"] = NoOffer
    BY DEF GoodTickets, Record, Kinds, Revoke, NoOffer
  <2> HIDE DEF w
  <2> QED BY <2>1, <2>2 DEF Tidied
<1> HIDE DEF w
<1>2. Tidied(w, Revoke(w, "review"))
  BY <1>1, RevokeTidies DEF Kinds
<1>3. \A k \in Kinds : Revoke(w, "review").offer[k] = NoOffer
  BY <1>1 DEF GoodTickets, Record, Kinds, Revoke
<1>4. RevokeBoth(x) = Revoke(w, "review")
  BY DEF RevokeBoth, w
<1> QED BY <1>1, <1>2, <1>3, <1>4, TidiedTwice

\* A redispatch offers nothing to the seat whose work lease is on the canceled ticket.
LEMMA CanceledAdvances ==
    ASSUME NEW d, NEW e \in Docs, NEW t \in Tickets, NEW first, Separate(d), Goes(e),
           \A u \in Tickets \ {t} : e.tickets[u] = d.tickets[u],
           Spares(d.tickets[t], e.tickets[t])
    PROVE  LET q == redispatch_queue(e, first)
           IN  Advances(q) /\ Keeps(e, q)
<1> DEFINE x == d.tickets[t]
           y == e.tickets[t]
           q == redispatch_queue(e, first)
           z == q.tickets[t]
<1>1. Keeps(e, q) /\ \A u \in Tickets, k \in Kinds : InPlace(q, u, k)
  BY RedispatchKeeps
<1> HIDE DEF q
<1>2. Goes(q) /\ Present(q) \subseteq Plain
  BY <1>1, GoesKeeps DEF Present
<1>3. Apart(q)
  <2>1. \A u \in Tickets, a \in Plain : Job(e.tickets[u], a) => Job(d.tickets[u], a)
    BY DEF Spares
  <2>2. Apart(e)
    BY <2>1, LighterApart DEF Separate
  <2> QED BY <1>1, <2>2 DEF Keeps, Orderly
<1>4. ASSUME NEW a \in Plain, NEW u \in Tickets PROVE Clear(q, a, u)
  <2>1. CASE Clear(e, a, u)
    BY <1>1, <2>1 DEF Keeps, Orderly
  <2>2. CASE ~Clear(e, a, u)
    <3>1. Clear(d, a, u)
      BY DEF Separate, Unencumbered
    <3>2. \A v \in Tickets, k \in Kinds : Shows(e.tickets[v], k, a) => Shows(d.tickets[v], k, a)
      BY DEF Spares, Calm
    <3>3. u = t /\ Engages(y, a) /\ ~Engages(x, a)
      BY <2>2, <3>1, <3>2 DEF Clear
    <3>4. Holds(y, a) /\ y.lease # "lapsed" /\ ~(y.reviewer = a /\ ReviewLeaseIsLive(y))
      BY <3>3 DEF Spares, Engages
    <3>5. Kept(y, z)
      BY <1>1 DEF Keeps
    <3>6. Engages(z, a) => HasLiveLeaseOn(z, a)
      <4> HIDE DEF y, z
      <4> QED BY <3>4, <3>5, PlainFacts
              DEF Kept, Engages, HasLiveLeaseOn, Holds, PreSubmission, ReviewLeaseIsLive,
                  inactive_work_ownership_is_ambiguous
    <3>7. ASSUME HasLiveLeaseOn(z, a), NEW v \in Tickets \ {t}, NEW k \in Kinds
          PROVE  ~Shows(q.tickets[v], k, a)
      <4>1. agent_has_live_lease_elsewhere(q, a, v)
        BY <3>7 DEF agent_has_live_lease_elsewhere
      <4> QED BY <1>1, <4>1 DEF InPlace, Unleased
    <3> QED BY <3>3, <3>6, <3>7 DEF Clear
  <2> QED BY <2>1, <2>2
<1>5. \A u \in Tickets, k \in Kinds : Placed(q.tickets[u], k, Present(q))
  BY <1>1, <1>2, FewerPlaced DEF InPlace
<1> QED BY <1>1, <1>2, <1>3, <1>4, <1>5 DEF Advances, Seated, Separate, Unencumbered, q

LEMMA CancelSteps ==
    ASSUME IInv, NEW a \in Agents, NEW t \in Tickets, NEW first, ticket_cancel(a, t, first)
    PROVE  Steps
<1> DEFINE d == Prepared(a, first)
           w == d.tickets[t]
           r == RevokeBoth(w)
           b == IF dispatch_enabled(d) THEN "no" ELSE r.broadcast
           y == Canceled(r, b)
           e == [d EXCEPT !.tickets[t] = y]
           q == redispatch_queue(e, first)
           f == [q EXCEPT !.tickets[t] = Dropped(q.tickets[t])]
<1>1. View(d) /\ d \in Docs
  BY PreparedView DEF View, Reaps
<1>2. /\ w.status \notin TERMINAL_TICKET_STATES \cup {"missing"}
      /\ Commit([q EXCEPT !.tickets[t].lease = "none"])
  <2> DEFINE c == [d EXCEPT !.tickets[t] =
                     [r EXCEPT !.status = "canceled",
                               !.broadcast = IF dispatch_enabled(d) THEN "no" ELSE @]]
  <2>1. c = e
    BY DEF Canceled
  <2>2. /\ w.status \notin TERMINAL_TICKET_STATES \cup {"missing"}
        /\ Commit([redispatch_queue(c, first) EXCEPT !.tickets[t].lease = "none"])
    BY DEF ticket_cancel
  <2> HIDE DEF d, c, e
  <2> QED BY <2>1, <2>2
<1> HIDE DEF d
<1>3. w \in GoodTickets
  BY <1>1, DocTicket
<1>4. /\ r \in GoodTickets /\ b \in {"no", "yes", "due"} /\ Tidied(w, r)
      /\ \A k \in Kinds : r.offer[k] = NoOffer
  <2> HIDE DEF w
  <2>1. r \in GoodTickets /\ Tidied(w, r) /\ \A k \in Kinds : r.offer[k] = NoOffer
    BY <1>3, RevokeBothTidies DEF Tidied
  <2> HIDE DEF r
  <2> QED BY <2>1 DEF GoodTickets, Record
<1>5. y \in GoodTickets /\ y.status = "canceled" /\ Spares(r, y)
  <2> HIDE DEF r, b
  <2> QED BY <1>4, GoodCanceled
<1>6. Moved(board.tickets[t], y)
  <2> HIDE DEF y
  <2> QED BY <1>1, <1>2, <1>5, LeftMoved
<1>7. /\ Goes(e) /\ e \in Docs /\ e.tickets[t] = y /\ Separate(d)
      /\ \A u \in Tickets \ {t} : e.tickets[u] = d.tickets[u]
  <2> HIDE DEF y
  <2> QED BY <1>1, <1>5, <1>6, ActedGoes DEF Seated
<1>8. Advances(q) /\ q \in Docs /\ q.tickets[t] \in GoodTickets /\ q.tickets[t].status = "canceled"
  <2>1. Spares(w, y)
    <3> HIDE DEF w, r, y
    <3> QED BY <1>4, <1>5, KeptEngages DEF Spares, Tidied, Calm
  <2> HIDE DEF e, y
  <2>2. Advances(q) /\ Keeps(e, q)
    BY <1>7, <2>1, CanceledAdvances
  <2> HIDE DEF q
  <2> QED BY <1>5, <1>7, <2>2, DocTicket DEF Keeps, Kept
<1>9. Advances(f)
  <2> HIDE DEF q
  <2>1. LET z == Dropped(q.tickets[t])
        IN  z \in GoodTickets /\ Lighter(q.tickets[t], z)
            /\ Ownership(z) = Ownership(q.tickets[t])
    BY <1>8, GoodDropped
  <2> QED BY <1>8, <2>1, OwnedAdvances
<1>10. [q EXCEPT !.tickets[t].lease = "none"] = f
  <2> HIDE DEF q
  <2> QED BY <1>8 DEF Docs, Dropped
<1> HIDE DEF q, f
<1> QED BY <1>2, <1>9, <1>10, CommitSteps

LEMMA OperatorAdvances ==
    ASSUME IInv, NEW a \in Agents, NEW first
    PROVE  Advances(OperatorView(a, first)) /\ OperatorView(a, first) \in Docs
<1>1. CASE a \in Coordinators
  BY <1>1, BoardAdvances DEF OperatorView
<1>2. CASE a \notin Coordinators
  <2>1. View(Prepared(a, first)) /\ OperatorView(a, first) = Prepared(a, first)
    BY <1>2, PreparedView DEF OperatorView
  <2> QED BY <2>1, ReapsAdvance DEF View, Reaps
<1> QED BY <1>1, <1>2

LEMMA ParkSteps ==
    ASSUME IInv, NEW a \in Agents, NEW t \in Tickets, NEW first, ticket_park(a, t, first)
    PROVE  Steps
<1> DEFINE d == OperatorView(a, first)
           w == d.tickets[t]
           r == RevokeBoth(w)
           y == Parked(r)
           e == [d EXCEPT !.tickets[t] = y]
           q == redispatch_queue(e, first)
<1>1. Advances(d) /\ d \in Docs
  BY OperatorAdvances
<1>2. Commit(q)
  <2> DEFINE c == [d EXCEPT !.tickets[t] =
                     [RevokeBoth(@) EXCEPT !.parked = TRUE, !.broadcast = "no"]]
  <2>1. c = e
    <3> HIDE DEF d
    <3> QED BY <1>1 DEF Docs, Parked
  <2>2. Commit(redispatch_queue(c, first))
    BY DEF ticket_park
  <2> HIDE DEF d, c, e
  <2> QED BY <2>1, <2>2
<1> HIDE DEF d
<1>3. y \in GoodTickets /\ Lighter(w, y) /\ Ownership(y) = Ownership(w)
  <2>1. Tidied(w, r) /\ r \in GoodTickets /\ \A k \in Kinds : r.offer[k] = NoOffer
    <3>1. w \in GoodTickets
      BY <1>1, DocTicket
    <3> HIDE DEF w
    <3> QED BY <3>1, RevokeBothTidies DEF Tidied
  <2> HIDE DEF r, w
  <2>2. y \in GoodTickets /\ Lighter(r, y) /\ Ownership(y) = Ownership(r)
    BY <2>1, GoodParked
  <2> QED BY <2>1, <2>2, TidiedLighter, KeptOwnership DEF Tidied
<1>4. Advances(e) /\ e \in Docs
  <2> HIDE DEF y
  <2> QED BY <1>1, <1>3, OwnedAdvances
<1>5. Keeps(e, q)
  <2> HIDE DEF e
  <2> QED BY <1>4, RedispatchKeeps
<1> HIDE DEF e, q
<1> QED BY <1>2, <1>4, <1>5, CommitKept

LEMMA UnparkSteps ==
    ASSUME IInv, NEW a \in Agents, NEW t \in Tickets, NEW first, ticket_unpark(a, t, first)
    PROVE  Steps
<1> DEFINE d == OperatorView(a, first)
           w == d.tickets[t]
           k == KindOf(w)
           r == Revoke(w, k)
           y == Unparked(r, k)
           e == [d EXCEPT !.tickets[t] = y]
           f == Dispatch(e, t, k, first)
<1>1. Advances(d) /\ d \in Docs
  BY OperatorAdvances
<1>2. Commit(f)
  <2> DEFINE c == [d EXCEPT !.tickets[t] =
                     [Revoke(@, k) EXCEPT !.parked = FALSE, !.broadcast = "no",
                                          !.expirations[k] = 0]]
  <2>1. c = e
    <3> HIDE DEF d, k
    <3> QED BY <1>1 DEF Docs, Unparked
  <2>2. Commit(Dispatch(c, t, k, first))
    BY DEF ticket_unpark
  <2> HIDE DEF d, c, e
  <2> QED BY <2>1, <2>2
<1> HIDE DEF d
<1>3. k \in Kinds
  BY DEF KindOf, Kinds
<1> HIDE DEF k
<1>4. Tidied(w, y)
  <2>1. Tidied(w, r) /\ r \in GoodTickets
    <3>1. w \in GoodTickets
      BY <1>1, DocTicket
    <3> HIDE DEF w
    <3> QED BY <1>3, <3>1, RevokeTidies DEF Tidied
  <2> HIDE DEF r, w
  <2> QED BY <1>3, <2>1, UnparkTidies, TidiedTwice
<1>5. Advances(e) /\ e \in Docs
  <2> HIDE DEF y
  <2> QED BY <1>1, <1>4, TidiedAdvances
<1>6. Keeps(e, f)
  <2> HIDE DEF e
  <2> QED BY <1>3, <1>5, DispatchKeeps
<1> HIDE DEF e, f
<1> QED BY <1>2, <1>5, <1>6, CommitKept

LEMMA AssignSteps ==
    ASSUME IInv, NEW a \in Agents, NEW t \in Tickets, NEW target \in Pins, NEW first,
           ticket_assign(a, t, target, first)
    PROVE  Steps
<1> DEFINE d == revoke_agent_offers(board, {target} \ {NoAgent})
           w == d.tickets[t]
           r == RevokeBoth(w)
           p == Repinned(r, target)
           y == NewCycle(p, "work")
           e == [d EXCEPT !.tickets[t] = y]
           f == Dispatch(e, t, "work", first)
           s == DispatchSlots(f, Displaced(target, t), first)
<1>1. Advances(d) /\ d \in Docs
  <2>1. Keeps(board, d)
    BY BoardAdvances, RevokeSeatsKeep
  <2> HIDE DEF d
  <2> QED BY <2>1, BoardAdvances, AdvancesKeeps DEF Keeps
<1>2. Reassigned(t, target) = e
  <2> DEFINE c == [d EXCEPT !.tickets[t] =
                     NewCycle([RevokeBoth(@) EXCEPT !.assigned_to = target,
                                                    !.pin_misses = 0, !.broadcast = "no"],
                              "work")]
  <2>1. c = e
    <3> HIDE DEF d
    <3> QED BY <1>1 DEF Docs, Repinned
  <2>2. Reassigned(t, target) = c
    BY DEF Reassigned
  <2> HIDE DEF c, e
  <2> QED BY <2>1, <2>2
<1>3. Commit(e) \/ Commit(s)
  <2>1. Commit(IF e.tickets[t].parked THEN e ELSE s)
    <3>1. LET n == Reassigned(t, target)
          IN  Commit(IF n.tickets[t].parked THEN n
                     ELSE DispatchSlots(Dispatch(n, t, "work", first),
                                        Displaced(target, t), first))
      BY DEF ticket_assign
    <3> HIDE DEF e
    <3> QED BY <1>2, <3>1
  <2> HIDE DEF e, s
  <2> QED BY <2>1
<1> HIDE DEF d
<1>4. Tidied(w, y)
  <2>1. Tidied(w, r) /\ r \in GoodTickets /\ ~r.offer["work"].live
    <3>1. w \in GoodTickets
      BY <1>1, DocTicket
    <3> HIDE DEF w
    <3> QED BY <3>1, RevokeBothTidies DEF Tidied, Kinds, NoOffer
  <2> HIDE DEF r, w
  <2>2. Tidied(w, p) /\ p \in GoodTickets
    <3>1. Tidied(r, p)
      BY <2>1, BoardAssumption, RepinTidies
    <3> HIDE DEF p
    <3> QED BY <2>1, <3>1, TidiedTwice DEF Tidied
  <2> HIDE DEF p
  <2>3. Tidied(p, y)
    BY <2>2, NewCycleTidies DEF Kinds
  <2> QED BY <2>2, <2>3, TidiedTwice
<1>5. Advances(e) /\ e \in Docs
  <2> HIDE DEF y
  <2> QED BY <1>1, <1>4, TidiedAdvances
<1>6. Keeps(e, f) /\ f \in Docs
  <2>1. Keeps(e, f)
    <3> HIDE DEF e
    <3> QED BY <1>5, DispatchKeeps DEF Kinds
  <2> HIDE DEF e, f
  <2> QED BY <2>1 DEF Keeps
<1>7. Keeps(f, s)
  <2> HIDE DEF f
  <2> QED BY <1>6, SlotsKeep
<1> HIDE DEF e, f, s
<1>8. Keeps(e, s)
  BY <1>6, <1>7, KeepsTwice
<1> QED BY <1>3, <1>5, <1>8, CommitKept, CommitSteps

-----------------------------------------------------------------------------
(* A human is asked *)

LEMMA AskSteps ==
    ASSUME IInv, NEW a \in Agents, NEW t \in Tickets, NEW first,
           ticket_request_human(a, t, first)
    PROVE  Steps
<1> DEFINE d == Prepared(a, first)
           w == d.tickets[t]
           l == IF PreSubmission(w) THEN [WithoutWorkLease(w) EXCEPT !.for_human = TRUE] ELSE w
           r == Revoke(l, "work")
           y == Asked(r, a)
           e == [d EXCEPT !.tickets[t] = y]
           q == redispatch_queue(e, first)
<1>1. View(d) /\ d \in Docs
  BY PreparedView DEF View, Reaps
<1>2. w.status \notin TERMINAL_TICKET_STATES \cup {"missing"} /\ Commit(q)
  BY DEF ticket_request_human, Asked
<1> HIDE DEF d
<1>3. Loose(l) /\ l.offer = w.offer
  <2>1. w \in GoodTickets
    BY <1>1, DocTicket
  <2>2. l.offer = w.offer
    <3> HIDE DEF w
    <3> QED BY <2>1 DEF WithoutWorkLease, GoodTickets, Record
  <2> HIDE DEF w
  <2> QED BY <2>1, <2>2, LooseReleased
<1>4. Loose(r) /\ \A k \in Kinds, b \in Plain : Shows(r, k, b) => Shows(w, k, b)
  <2> HIDE DEF l
  <2>1. Loose(r)
    BY <1>3, LooseRevoked DEF Kinds
  <2>2. \A k \in Kinds, b \in Plain : Shows(r, k, b) => Shows(w, k, b)
    <3> HIDE DEF w
    <3> QED BY <1>3 DEF Loose, Record, Shows, Revoke, NoOffer
  <2> QED BY <2>1, <2>2
<1>5. y \in GoodTickets /\ y.status = "needs_human" /\ Easier(w, y)
  <2>1. \A b \in Plain : r.claimed_by = b /\ r.lease = "live" => Engages(w, b)
    <3> SUFFICES ASSUME NEW b \in Plain, r.claimed_by = b, r.lease = "live"
                 PROVE  Engages(w, b)
      OBVIOUS
    <3>1. l.claimed_by = b /\ l.lease = "live"
      BY DEF Revoke
    <3>2. w \in GoodTickets
      BY <1>1, DocTicket
    <3> HIDE DEF r
    <3>3. ~PreSubmission(w)
      <4> HIDE DEF w
      <4> QED BY <3>1, <3>2, PlainFacts DEF WithoutWorkLease, GoodTickets, Record
    <3>4. w.claimed_by = b /\ w.lease = "live"
      BY <3>1, <3>3
    <3>5. w.status # "submitted"
      BY <3>2, <3>4 DEF GoodTickets, Good, Owned
    <3>6. Inactive(w)
      BY <1>2, <3>2, <3>3, <3>5
         DEF GoodTickets, Record, Statuses, Inactive, PreSubmission
    <3> QED BY <3>4, <3>6, PlainFacts
         DEF Engages, Holds, inactive_work_ownership_is_ambiguous, HasLeaseFields,
             AmbiguousLiveLease
  <2> HIDE DEF r, w
  <2>2. LET z == Asked(r, a)
        IN  /\ z \in GoodTickets /\ z.status = "needs_human" /\ Calm(r, z)
            /\ \A b \in Plain : Job(z, b) => \E k \in Kinds : Shows(r, k, b)
            /\ \A b \in Plain : Engages(z, b) => r.claimed_by = b /\ r.lease = "live"
    BY <1>4, GoodAsked
  <2> HIDE DEF y
  <2> QED BY <1>4, <2>1, <2>2 DEF Job, Easier, Calm, y
<1>6. Moved(board.tickets[t], y)
  <2> HIDE DEF y
  <2> QED BY <1>1, <1>2, <1>5, LeftMoved
<1>7. Goes(e) /\ e \in Docs /\ Separate(e)
  <2>1. /\ Goes(e) /\ e \in Docs /\ e.tickets[t] = y /\ Seated(d)
        /\ \A u \in Tickets \ {t} : e.tickets[u] = d.tickets[u]
    <3> HIDE DEF y
    <3> QED BY <1>1, <1>5, <1>6, ActedGoes
  <2>2. Separate(e)
    <3> HIDE DEF e, y
    <3> QED BY <1>5, <2>1, ActedSeparate DEF Seated
  <2> QED BY <2>1, <2>2
<1>8. Advances(q)
  <2> HIDE DEF e
  <2> QED BY <1>7, KeepsSame, QueueAdvances
<1> HIDE DEF e, q
<1> QED BY <1>2, <1>8, CommitSteps

LEMMA ResolveSteps ==
    ASSUME IInv, NEW a \in Agents, NEW t \in Tickets,
           NEW status \in {"open", "canceled", "needs_human"}, NEW first,
           ticket_human_resolve(a, t, status, first)
    PROVE  Steps
<1> DEFINE d == Prepared(a, first)
           x == board.tickets[t]
           w == d.tickets[t]
           b == IF status = "needs_human" THEN w.broadcast ELSE "no"
           pin == IF status = "open" /\ w.assigned_to = w.asked THEN NoAgent ELSE w.assigned_to
           preferred == IF w.for_human THEN w.asked ELSE NoAgent
           y == Resolved(w, status, b, pin)
           e == [d EXCEPT !.tickets[t] = y]
           f == IF status = "open" THEN dispatch_ticket(e, t, "work", preferred, first) ELSE e
           q == redispatch_queue(f, first)
<1>1. View(d) /\ d \in Docs
  BY PreparedView DEF View, Reaps
<1>2. w.status = "needs_human" /\ Commit(q)
  BY DEF ticket_human_resolve, Resolved
<1> HIDE DEF d
<1>3. /\ w \in GoodTickets /\ b \in {"no", "yes", "due"} /\ (pin = w.assigned_to \/ pin = NoAgent)
      /\ x.status = "needs_human"
  <2>1. w \in GoodTickets /\ x.status = "needs_human"
    BY <1>1, <1>2, Before
  <2> HIDE DEF w
  <2> QED BY <2>1 DEF GoodTickets, Record
<1>4. y \in GoodTickets /\ y.status = status /\ Lighter(w, y)
  <2>1. w.status = "needs_human"
    BY <1>2
  <2> HIDE DEF w, b, pin, y
  <2>2. LET h == Resolved(w, status, b, pin)
        IN  h \in GoodTickets /\ h.status = status /\ Lighter(w, h)
    BY <1>3, <2>1, GoodResolved
  <2> QED BY <2>2 DEF y
<1>5. Moved(x, y)
  <2>1. CASE status = "open"
    <3>1. Ownership(y) = Promise!Unheld("open") /\ Ownership(x).status = "needs_human"
      <4>1. Ownership(x).status = "needs_human"
        BY <1>3 DEF Ownership
      <4> HIDE DEF y
      <4> QED BY <1>4, <2>1, <4>1, UnheldIs
    <3>2. Ownership(y) \in Promise!Resolve(Ownership(x))
      <4> HIDE DEF x, y
      <4> QED BY <3>1 DEF Promise!Resolve, Promise!If
    <3> QED BY <3>2 DEF Moved, Promise!Moves
  <2>2. CASE status # "open"
    <3> HIDE DEF y
    <3> QED BY <1>1, <1>2, <1>4, <2>2, LeftMoved DEF TERMINAL_TICKET_STATES
  <2> QED BY <2>1, <2>2
<1>6. Advances(e) /\ e \in Docs
  <2> HIDE DEF y
  <2> QED BY <1>1, <1>4, <1>5, ActedAdvances DEF Advances, Goes
<1>7. Keeps(e, f) /\ f \in Docs
  <2>1. Keeps(e, f)
    <3> HIDE DEF e, preferred
    <3>1. Keeps(e, dispatch_ticket(e, t, "work", preferred, first))
      BY <1>6, DispatchTends, TendsKeeps DEF Kinds
    <3> QED BY <1>6, <3>1, KeepsSame
  <2> HIDE DEF e, f
  <2> QED BY <2>1 DEF Keeps
<1>8. Keeps(f, q)
  <2> HIDE DEF f
  <2> QED BY <1>7, RedispatchKeeps
<1> HIDE DEF e, f, q
<1>9. Keeps(e, q)
  BY <1>7, <1>8, KeepsTwice
<1> QED BY <1>2, <1>6, <1>9, CommitKept

-----------------------------------------------------------------------------
(* Seats and the reaper *)

LEMMA KeptView ==
    ASSUME IInv, NEW d, NEW e, View(d), Keeps(d, e)
    PROVE  View(e) /\ e \in Docs /\ Fresh(e)
  BY KeepsView DEF View, Reaps

LEMMA RedispatchIfEnabledKeeps ==
    ASSUME NEW d \in Docs, NEW first
    PROVE  Keeps(d, RedispatchIfEnabled(d, first))
  BY RedispatchKeeps, KeepsSame DEF RedispatchIfEnabled

LEMMA JoinSteps ==
    ASSUME IInv, NEW a \in Agents, NEW ready \in BOOLEAN, NEW first,
           board_join(a, ready, first)
    PROVE  Steps
<1> DEFINE d == Reaped(first)
           m == [lifecycle |-> "active", idle |-> FALSE, ready |-> ready, live |-> TRUE]
           e == [d EXCEPT !.members[a] = m]
           f == RedispatchIfEnabled(e, first)
           g == RenewHeld(f, {a})
           h == RenewReviews(g, a)
<1>1. View(d) /\ d \in Docs
  BY ReapedView DEF View, Reaps
<1>2. Commit(h)
  BY DEF board_join, Rejoined
<1> HIDE DEF d
<1>3. e \in Docs /\ e.tickets = d.tickets /\ e.members[a] = m
  <2>1. m \in Member
    BY DEF Member, Lifecycles
  <2> HIDE DEF m
  <2> QED BY <1>1, <2>1 DEF Docs
<1>4. Advances(f) /\ f \in Docs /\ Fresh(f)
  <2>1. Advances(d) /\ Goes(e) /\ Separate(e) /\ Fresh(e)
    <3> HIDE DEF e
    <3> QED BY <1>1, <1>3, ReapsAdvance
            DEF View, Advances, Goes, Fresh, Seated, Separate, Apart, Unencumbered, Clear
  <2>2. CASE dispatch_enabled(e)
    <3> HIDE DEF e
    <3>1. Advances(redispatch_queue(e, first))
      BY <1>3, <2>1, KeepsSame, QueueAdvances
    <3>2. Keeps(e, redispatch_queue(e, first))
      BY <1>3, RedispatchKeeps
    <3> QED BY <2>1, <2>2, <3>1, <3>2, KeepsFresh DEF RedispatchIfEnabled, Keeps
  <2>3. CASE ~dispatch_enabled(e)
    <3>1. a \notin Plain
      <4> HIDE DEF e
      <4> QED BY <1>3, <2>3 DEF dispatch_enabled, Plain
    <3>2. Keeps(d, e)
      <4>1. m \in Member
        BY DEF Member, Lifecycles
      <4> HIDE DEF m
      <4> QED BY <1>1, <3>1, <4>1, MemberKeeps
    <3> HIDE DEF e
    <3> QED BY <1>3, <2>1, <2>3, <3>2, AdvancesKeeps DEF RedispatchIfEnabled
  <2> QED BY <2>2, <2>3
<1> HIDE DEF f
<1>5. Keeps(f, g) /\ g \in Docs /\ Fresh(g)
  <2>1. Keeps(f, g)
    BY <1>4, RenewHeldKeeps
  <2> HIDE DEF g
  <2> QED BY <1>4, <2>1, KeepsFresh DEF Keeps
<1> HIDE DEF g
<1>6. Keeps(f, h)
  <2>1. Keeps(g, h)
    BY <1>5, RenewReviewsKeep
  <2> HIDE DEF h
  <2> QED BY <1>5, <2>1, KeepsTwice
<1> HIDE DEF h
<1> QED BY <1>2, <1>4, <1>6, CommitKept

\* A seat that is not ready gives its offers back.
LEMMA GiveBackKeeps ==
    ASSUME NEW d \in Docs, NEW a
    PROVE  Keeps(d, UpdateEach(d, OfferedTo(d, a), GiveBack))
<1> DEFINE given == OfferedTo(d, a)
           h == [t \in Tickets |-> IF t \in given THEN GiveBack(d.tickets[t])
                                                  ELSE d.tickets[t]]
<1>1. ASSUME NEW x \in GoodTickets PROVE Tidied(x, GiveBack(x))
  <2> DEFINE r == Revoke(x, KindOf(x))
  <2>1. Tidied(x, r) /\ r \in GoodTickets
    BY RevokeTidies DEF KindOf, Kinds, Tidied
  <2> HIDE DEF r
  <2>2. Tidied(r, EndBroadcast(r))
    BY <2>1, BroadcastTidies DEF EndBroadcast
  <2>3. GiveBack(x) = EndBroadcast(r)
    BY DEF GiveBack, r
  <2> QED BY <2>1, <2>2, <2>3, TidiedTwice
<1>2. ASSUME NEW t \in Tickets PROVE Tidied(d.tickets[t], h[t])
  <2> HIDE DEF given
  <2> QED BY <1>1, DocTicket, TidiedSame
<1>3. h = [t \in Tickets |-> h[t]]
  OBVIOUS
<1>4. UpdateEach(d, OfferedTo(d, a), GiveBack) = [d EXCEPT !.tickets = Tabulated(h)]
  BY DEF UpdateEach, Docs
<1> HIDE DEF h
<1> QED BY <1>2, <1>3, <1>4, TabulatedIs, EachTidied

LEMMA ReadinessSteps ==
    ASSUME IInv, NEW a \in Agents, NEW ready \in BOOLEAN, NEW first,
           agent_readiness_set(a, ready, first)
    PROVE  Steps
<1> DEFINE b == touch_actor(Reaped(first), a)
           m == [b.members[a] EXCEPT !.ready = ready]
           d == [b EXCEPT !.members[a] = m]
           e == IF ready THEN d ELSE UpdateEach(d, OfferedTo(d, a), GiveBack)
           q == redispatch_queue(e, first)
<1>1. View(b) /\ b \in Docs
  <2> DEFINE c == Reaped(first)
  <2>1. View(c) /\ c \in Docs /\ Fresh(c)
    BY ReapedView DEF View, Reaps
  <2>2. b = touch_actor(c, a)
    OBVIOUS
  <2> HIDE DEF c, b
  <2> QED BY <2>1, <2>2, TouchKeeps, KeptView
<1>2. Commit(q)
  <2>1. [b EXCEPT !.members[a].ready = ready] = d
    <3> HIDE DEF b
    <3> QED BY <1>1 DEF Docs
  <2>2. LET c == [b EXCEPT !.members[a].ready = ready]
        IN  Commit(redispatch_queue(IF ready THEN c ELSE UpdateEach(c, OfferedTo(c, a), GiveBack),
                                    first))
    BY DEF agent_readiness_set
  <2> HIDE DEF b, d
  <2> QED BY <2>1, <2>2
<1> HIDE DEF b
<1>3. View(d) /\ d \in Docs
  <2>1. m \in Member /\ m.lifecycle = b.members[a].lifecycle
    BY <1>1 DEF Docs, Member
  <2> HIDE DEF m
  <2>2. Keeps(b, d)
    BY <1>1, <2>1, MemberKeeps DEF IsActive
  <2> HIDE DEF d
  <2> QED BY <1>1, <2>2, KeptView
<1> HIDE DEF d
<1>4. View(e) /\ e \in Docs
  <2>1. Keeps(d, e)
    BY <1>3, GiveBackKeeps, KeepsSame
  <2> HIDE DEF e
  <2> QED BY <1>3, <2>1, KeptView
<1> HIDE DEF e
<1>5. View(q)
  <2>1. Keeps(e, q)
    BY <1>4, RedispatchKeeps
  <2> HIDE DEF q
  <2> QED BY <1>4, <2>1, KeptView
<1> HIDE DEF q
<1> QED BY <1>2, <1>5, ViewSteps

LEMMA RetireSteps ==
    ASSUME IInv, NEW a \in Agents, NEW target \in Agents, NEW first,
           agent_retire(a, target, first)
    PROVE  Steps
<1> DEFINE d == Prepared(a, first)
           r == revoke_agent_offers(d, {target})
           m == [r.members[target] EXCEPT !.lifecycle = "retired"]
           e == [r EXCEPT !.members[target] = m]
           q == redispatch_queue(e, first)
<1>1. View(d) /\ d \in Docs
  BY PreparedView DEF View, Reaps
<1> HIDE DEF d
<1>2. View(r) /\ r \in Docs
  <2>1. Keeps(d, r)
    BY <1>1, RevokeSeatsKeep
  <2> HIDE DEF r
  <2> QED BY <1>1, <2>1, KeptView
<1>3. Commit(r) \/ Commit(q)
  <2>1. [r EXCEPT !.members[target].lifecycle = "retired"] = e
    <3> HIDE DEF r
    <3> QED BY <1>2 DEF Docs
  <2>2. LET c == [r EXCEPT !.members[target].lifecycle = "retired"]
        IN  Commit(r) \/ Commit(redispatch_queue(c, first))
    BY DEF agent_retire, d
  <2> HIDE DEF r, e
  <2> QED BY <2>1, <2>2
<1> HIDE DEF r
<1>4. View(e) /\ e \in Docs
  <2>1. m \in Member /\ m.lifecycle = "retired"
    BY <1>2 DEF Docs, Member, Lifecycles
  <2> HIDE DEF m
  <2>2. Keeps(r, e)
    BY <1>2, <2>1, MemberKeeps
  <2> HIDE DEF e
  <2> QED BY <1>2, <2>2, KeptView
<1> HIDE DEF e
<1>5. View(q)
  <2>1. Keeps(e, q)
    BY <1>4, RedispatchKeeps
  <2> HIDE DEF q
  <2> QED BY <1>4, <2>1, KeptView
<1> HIDE DEF q
<1> QED BY <1>2, <1>3, <1>5, ViewSteps

LEMMA HandoffSteps ==
    ASSUME IInv, NEW a \in Agents, NEW first, memory_handoff(a, first)
    PROVE  Steps
<1> DEFINE d == Reaped(first)
           m == [d.members[a] EXCEPT !.lifecycle = "handed_off", !.idle = FALSE, !.live = TRUE]
           e == [d EXCEPT !.members[a] = m]
<1>1. View(d) /\ d \in Docs
  BY ReapedView DEF View, Reaps
<1>2. Commit(e)
  <2>1. [d EXCEPT !.members[a].lifecycle = "handed_off",
                  !.members[a].idle = FALSE, !.members[a].live = TRUE] = e
    <3> HIDE DEF d
    <3> QED BY <1>1 DEF Docs, Member
  <2>2. Commit([d EXCEPT !.members[a].lifecycle = "handed_off",
                         !.members[a].idle = FALSE, !.members[a].live = TRUE])
    BY DEF memory_handoff
  <2> HIDE DEF d, e
  <2> QED BY <2>1, <2>2
<1> HIDE DEF d
<1>3. View(e)
  <2>1. m \in Member /\ m.lifecycle = "handed_off"
    <3>1. d.members[a] \in Member /\ "handed_off" \in Lifecycles
      BY <1>1 DEF Docs, Lifecycles
    <3> QED BY <3>1 DEF Member
  <2> HIDE DEF m
  <2>2. Keeps(d, e)
    BY <1>1, <2>1, MemberKeeps
  <2> HIDE DEF e
  <2> QED BY <1>1, <2>2, KeptView
<1> HIDE DEF e
<1> QED BY <1>2, <1>3, ViewSteps

LEMMA ReaperSteps ==
    ASSUME IInv, NEW first, check_and_reap_expired(first)
    PROVE  Steps
<1> DEFINE d == Reaped(first)
           q == RedispatchIfEnabled(d, first)
<1>1. View(d) /\ d \in Docs
  BY ReapedView DEF View, Reaps
<1>2. Commit(q)
  BY DEF check_and_reap_expired, ReaperPass
<1> HIDE DEF d
<1>3. View(q)
  <2>1. Keeps(d, q)
    BY <1>1, RedispatchIfEnabledKeeps
  <2> HIDE DEF q
  <2> QED BY <1>1, <2>1, KeptView
<1> HIDE DEF q
<1> QED BY <1>2, <1>3, ViewSteps

-----------------------------------------------------------------------------
(* Time *)

\* Time changes one ticket, or one seat.
LEMMA TickSteps ==
    ASSUME IInv, NEW t \in Tickets, NEW y \in GoodTickets, Moved(board.tickets[t], y),
           Lighter(board.tickets[t], y), board' = [board EXCEPT !.tickets[t] = y]
    PROVE  Steps
<1>1. Advances(board) /\ board \in Docs /\ board.marked = {}
  BY BoardAdvances DEF IInv
<1> DEFINE e == [board EXCEPT !.tickets[t] = y]
<1>2. /\ e \in Docs /\ e.marked = {} /\ e.tickets[t] = y
      /\ \A u \in Tickets \ {t} : e.tickets[u] = board.tickets[u]
      /\ e.members = board.members
  BY <1>1 DEF Docs
<1>3. board' = e
  OBVIOUS
<1> HIDE DEF e
<1>4. Orderly(board, e)
  <2>1. ASSUME NEW u \in Tickets PROVE Lighter(board.tickets[u], e.tickets[u])
    BY <1>2, LighterSame
  <2> QED BY <2>1, LighterOrderly
<1>5. Seated(e)
  <2>1. Present(e) \subseteq Present(board)
    BY <1>2 DEF Present, IsActive
  <2> QED BY <1>1, <1>4, <2>1, OrderlySeated DEF Advances
<1>6. \A u \in Tickets : Moved(board.tickets[u], e.tickets[u])
  BY <1>1, <1>2 DEF Advances, Goes
<1> QED BY <1>2, <1>3, <1>5, <1>6 DEF Steps

LEMMA SeatSteps ==
    ASSUME IInv, NEW a \in Agents, NEW m \in Member, m.lifecycle = board.members[a].lifecycle,
           board' = [board EXCEPT !.members[a] = m]
    PROVE  Steps
<1>1. Advances(board) /\ board \in Docs /\ board.marked = {}
  BY BoardAdvances DEF IInv
<1> DEFINE e == [board EXCEPT !.members[a] = m]
<1>2. Keeps(board, e)
  BY <1>1, MemberKeeps DEF IsActive
<1>3. e.marked = {} /\ board' = e
  BY <1>1 DEF Docs
<1> HIDE DEF e
<1>4. Advances(e)
  BY <1>1, <1>2, AdvancesKeeps
<1> QED BY <1>3, <1>4 DEF Advances, Goes, Steps

Lapsed(x) == [x EXCEPT !.lease = "lapsed"]

LEMMA LapseSteps == ASSUME IInv, NEW t \in Tickets, LapseLease(t) PROVE Steps
<1> DEFINE x == board.tickets[t]
           y == Lapsed(x)
<1>1. x \in GoodTickets /\ x \in Record /\ x.lease = "live" /\ Good(x)
  BY DocTicket DEF IInv, LapseLease, GoodTickets
<1>2. board' = [board EXCEPT !.tickets[t] = y]
  BY DEF LapseLease, Lapsed, IInv, Docs
<1> HIDE DEF x
<1>3. y \in GoodTickets
  <2>1. y \in Record
    BY <1>1, Values DEF Record, Lapsed
  <2>2. Owned(y)
    BY <1>1 DEF Good, Owned, Independent, PreSubmission, Record, Lapsed
  <2>3. ASSUME NEW k \in Kinds PROVE Offering(y, k)
    BY <1>1 DEF Good, Offering, Offered, Record, Lapsed
  <2>4. y.pin_misses < Fallback
    BY <1>1 DEF Good, Record, Lapsed
  <2> HIDE DEF y
  <2> QED BY <2>1, <2>2, <2>3, <2>4 DEF GoodTickets, Good
<1>4. /\ y.status = x.status /\ y.claimed_by = x.claimed_by /\ y.lease = "lapsed"
      /\ y.submitted_by = x.submitted_by /\ y.reviewer = x.reviewer
      /\ y.review_lease = x.review_lease /\ y.reviewed_by = x.reviewed_by
      /\ y.offer = x.offer /\ y.parked = x.parked
  BY <1>1 DEF Record, Lapsed
<1> HIDE DEF y
<1>5. Moved(x, y)
  <2>1. CASE PreSubmission(x)
    <3>1. Ownership(y) = [Ownership(x) EXCEPT !.lease = "lapsed"]
      BY <1>1, <1>3, <1>4, <2>1, LapsedIs
    <3>2. Ownership(x).lease = "live"
      BY <1>1, <2>1, WorkingIs
    <3> QED BY <3>1, <3>2 DEF Moved, Promise!Moves, Promise!Lapse, Promise!If
  <2>2. CASE ~PreSubmission(x)
    <3>1. Ownership(y) = Ownership(x)
      BY <1>4, <2>2 DEF Ownership, PreSubmission
    <3> QED BY <3>1 DEF Moved, Promise!Moves
  <2> QED BY <2>1, <2>2
<1>6. Lighter(x, y)
  <2>1. \A a \in Plain : Working(y, a) \/ Reviewing(y, a) => Job(x, a)
    BY <1>4 DEF Working, Reviewing, Job, PreSubmission, ReviewLeaseIsLive
  <2>2. \A a \in Plain : Engages(y, a) => Engages(x, a)
    BY <1>1, <1>4 DEF Engages, Holds, PreSubmission, ReviewLeaseIsLive, Inactive,
       inactive_work_ownership_is_ambiguous, HasLeaseFields, AmbiguousLiveLease
  <2>3. \A k \in Kinds, a \in Plain : \A S : Stands(x, k, a, S) => Stands(y, k, a, S)
    BY <1>4 DEF Stands, Reviewing, Independent, PreSubmission, ReviewLeaseIsLive
  <2> QED BY <1>4, <2>1, <2>2, <2>3, LighterIs
<1> QED BY <1>2, <1>3, <1>5, <1>6, TickSteps DEF x

ReviewLapsed(x) == [x EXCEPT !.review_lease = "lapsed"]

LEMMA ReviewLapseSteps == ASSUME IInv, NEW t \in Tickets, LapseReviewLease(t) PROVE Steps
<1> DEFINE x == board.tickets[t]
           y == ReviewLapsed(x)
<1>1. x \in GoodTickets /\ x \in Record /\ x.review_lease = "live" /\ Good(x)
  BY DocTicket DEF IInv, LapseReviewLease, GoodTickets
<1>2. board' = [board EXCEPT !.tickets[t] = y]
  BY DEF LapseReviewLease, ReviewLapsed, IInv, Docs
<1> HIDE DEF x
<1>3. y \in GoodTickets
  <2>1. y \in Record
    BY <1>1, Values DEF Record, ReviewLapsed
  <2>2. Owned(y)
    BY <1>1 DEF Good, Owned, Independent, PreSubmission, Record, ReviewLapsed
  <2>3. ASSUME NEW k \in Kinds PROVE Offering(y, k)
    BY <1>1 DEF Good, Offering, Offered, Record, ReviewLapsed
  <2>4. y.pin_misses < Fallback
    BY <1>1 DEF Good, Record, ReviewLapsed
  <2> HIDE DEF y
  <2> QED BY <2>1, <2>2, <2>3, <2>4 DEF GoodTickets, Good
<1>4. /\ y.status = x.status /\ y.submitted_by = x.submitted_by /\ y.reviewer = x.reviewer
      /\ y.review_lease = "lapsed" /\ y.claimed_by = x.claimed_by /\ y.lease = x.lease
      /\ y.offer = x.offer /\ y.parked = x.parked /\ x.status \in {"submitted", "canceled"}
  BY <1>1 DEF Record, ReviewLapsed, Good, Owned
<1> HIDE DEF y
<1>5. Moved(x, y)
  <2>1. CASE x.status = "submitted"
    <3>1. Ownership(y) = [Ownership(x) EXCEPT !.review_lease = "lapsed"]
      BY <1>1, <1>3, <1>4, <2>1, ReviewLapsedIs
    <3>2. Ownership(x).review_lease = "live"
      BY <1>1, <2>1, SubmittedIs
    <3> QED BY <3>1, <3>2 DEF Moved, Promise!Moves, Promise!ReviewLapse, Promise!If
  <2>2. CASE x.status = "canceled"
    <3>1. Ownership(y) = Ownership(x)
      BY <1>4, <2>2, UnheldIs
    <3> QED BY <3>1 DEF Moved, Promise!Moves
  <2> QED BY <1>4, <2>1, <2>2
<1>6. Lighter(x, y)
  <2>1. \A a \in Plain : Working(y, a) \/ Reviewing(y, a) => Job(x, a)
    BY <1>4 DEF Working, Reviewing, Job, PreSubmission, ReviewLeaseIsLive
  <2>2. \A a \in Plain : Engages(y, a) => Engages(x, a)
    BY <1>1, <1>4 DEF Engages, Holds, PreSubmission, ReviewLeaseIsLive, Inactive,
       inactive_work_ownership_is_ambiguous, HasLeaseFields, AmbiguousLiveLease
  <2>3. \A k \in Kinds, a \in Plain : \A S : Stands(x, k, a, S) => Stands(y, k, a, S)
    BY <1>4 DEF Stands, Reviewing, Independent, PreSubmission, ReviewLeaseIsLive
  <2> QED BY <1>4, <2>1, <2>2, <2>3, LighterIs
<1> QED BY <1>2, <1>3, <1>5, <1>6, TickSteps DEF x

OfferLapsed(x, k) == [x EXCEPT !.offer[k].live = FALSE]

LEMMA OfferLapseSteps ==
    ASSUME IInv, NEW t \in Tickets, NEW k \in Kinds, LapseOffer(t, k)
    PROVE  Steps
<1> DEFINE x == board.tickets[t]
           y == OfferLapsed(x, k)
<1>1. x \in GoodTickets /\ x \in Record /\ Good(x)
  BY DocTicket DEF IInv, GoodTickets
<1>2. board' = [board EXCEPT !.tickets[t] = y]
  BY DEF LapseOffer, OfferLapsed, IInv, Docs
<1> HIDE DEF x
<1>3. y \in GoodTickets /\ Kept(x, y)
  <2>1. y \in Record
    <3> DEFINE o == [x.offer EXCEPT ![k].live = FALSE]
    <3>1. o \in [Kinds -> Offer]
      BY <1>1 DEF Record, Offer
    <3>2. y = [x EXCEPT !.offer = o]
      BY <1>1 DEF OfferLapsed, Record
    <3> HIDE DEF o, y
    <3> QED BY <1>1, <3>1, <3>2 DEF Record
  <2>2. Owned(y)
    BY <1>1 DEF Good, Owned, Independent, PreSubmission, Record, OfferLapsed
  <2>3. ASSUME NEW j \in Kinds PROVE Offering(y, j)
    <3>1. CASE j = k
      BY <1>1, <3>1 DEF Good, Offering, Offered, Record, Offer, OfferLapsed
    <3>2. CASE j # k
      BY <1>1, <3>2 DEF Good, Offering, Offered, Record, OfferLapsed
    <3> QED BY <3>1, <3>2
  <2>4. y.pin_misses < Fallback /\ Kept(x, y)
    BY <1>1 DEF Good, Record, OfferLapsed, Kept
  <2> HIDE DEF y
  <2> QED BY <2>1, <2>2, <2>3, <2>4 DEF GoodTickets, Good
<1> HIDE DEF y
<1>4. Moved(x, y)
  BY <1>3, KeptMoved
<1>5. Calm(x, y)
  BY <1>1 DEF Record, Offer, OfferLapsed, Calm, Shows, y
<1>6. Lighter(x, y)
  BY <1>3, <1>5, CalmLighter
<1> QED BY <1>2, <1>3, <1>4, <1>6, TickSteps DEF x

LEMMA DueSteps == ASSUME IInv, NEW t \in Tickets, BroadcastDue(t) PROVE Steps
<1> DEFINE x == board.tickets[t]
           y == [x EXCEPT !.broadcast = "due"]
<1>1. x \in GoodTickets
  BY DocTicket DEF IInv
<1>2. board' = [board EXCEPT !.tickets[t] = y]
  BY DEF BroadcastDue, IInv, Docs
<1> HIDE DEF x
<1>3. Tidied(x, y)
  BY <1>1, BroadcastTidies
<1> HIDE DEF y
<1>4. y \in GoodTickets /\ Moved(x, y) /\ Lighter(x, y)
  BY <1>3, KeptMoved, CalmLighter DEF Tidied
<1> QED BY <1>2, <1>4, TickSteps DEF x

LEMMA SeatTimeSteps ==
    ASSUME IInv, NEW a \in Agents, GoDark(a) \/ GoIdle(a) \/ ReadinessExpires(a)
    PROVE  Steps
<1>1. board \in Docs /\ board.members[a] \in Member
  BY DEF IInv, Docs
<1>2. CASE GoDark(a)
  <2> DEFINE m == [board.members[a] EXCEPT !.live = FALSE]
  <2>1. /\ m \in Member /\ m.lifecycle = board.members[a].lifecycle
        /\ board' = [board EXCEPT !.members[a] = m]
    BY <1>1, <1>2 DEF GoDark, Docs, Member
  <2> HIDE DEF m
  <2> QED BY <2>1, SeatSteps
<1>3. CASE GoIdle(a)
  <2> DEFINE m == [board.members[a] EXCEPT !.idle = TRUE]
  <2>1. /\ m \in Member /\ m.lifecycle = board.members[a].lifecycle
        /\ board' = [board EXCEPT !.members[a] = m]
    BY <1>1, <1>3 DEF GoIdle, Docs, Member
  <2> HIDE DEF m
  <2> QED BY <2>1, SeatSteps
<1>4. CASE ReadinessExpires(a)
  <2> DEFINE m == [board.members[a] EXCEPT !.ready = FALSE]
  <2>1. /\ m \in Member /\ m.lifecycle = board.members[a].lifecycle
        /\ board' = [board EXCEPT !.members[a] = m]
    BY <1>1, <1>4 DEF ReadinessExpires, Docs, Member
  <2> HIDE DEF m
  <2> QED BY <2>1, SeatSteps
<1> QED BY <1>2, <1>3, <1>4

-----------------------------------------------------------------------------
(* Every step *)

LEMMA InitGood == Init => IInv
<1>1. NoTicket \in GoodTickets
  <2> DEFINE x == NoTicket
  <2>0. 0 \in 0..Fallback /\ 0 < Fallback
    BY DispatchAssumption
  <2>1. x \in Record
    <3>1. "missing" \in Statuses /\ NoOffer \in Offer
      BY DEF Statuses, NoOffer, Offer, Someone
    <3> QED BY <2>0, <3>1, Values DEF NoTicket, Record
  <2>2. Good(x)
    <3>1. Owned(x)
      BY DEF NoTicket, Owned, PreSubmission, PRE_SUBMISSION_STATES
    <3>2. ASSUME NEW k \in Kinds PROVE Offering(x, k)
      BY DEF NoTicket, NoOffer, Offering, Offered
    <3>3. x.pin_misses < Fallback
      BY <2>0 DEF NoTicket
    <3> QED BY <3>1, <3>2, <3>3 DEF Good
  <2> QED BY <2>1, <2>2 DEF GoodTickets
<1>2. EmptyBoard \in Docs
  BY <1>1 DEF EmptyBoard, Docs, Member, Lifecycles
<1>3. \A a \in Plain : ~Job(NoTicket, a) /\ ~Engages(NoTicket, a)
  BY PlainFacts DEF NoTicket, NoOffer, Job, Working, Reviewing, Shows, ReviewLeaseIsLive,
     Engages, Holds
<1>4. \A k \in Kinds : \A S : Placed(NoTicket, k, S)
  BY DEF NoTicket, NoOffer, Placed, Shows
<1>5. Seated(EmptyBoard)
  <2>1. \A t \in Tickets : EmptyBoard.tickets[t] = NoTicket
    BY DEF EmptyBoard
  <2> QED BY <1>3, <1>4, <2>1 DEF Seated, Separate, Apart, Unencumbered, Clear
<1> QED BY <1>2, <1>5 DEF Init, IInv, EmptyBoard

LEMMA TicketCallSteps ==
    ASSUME IInv, NEW a \in Agents, NEW t \in Tickets, NEW first,
           TicketCalls(a, t, first) \/ ReviewCalls(a, t, first)
    PROVE  Steps
<1>1. ASSUME NEW pin \in Pins, ticket_create(a, t, pin, first) PROVE Steps
  BY <1>1, BoardAssumption, CreateSteps
<1>2. CASE ticket_claim(a, t, first) \/ ticket_start(a, t, first)
  BY <1>2, ClaimSteps, StartSteps
<1>3. CASE ticket_unclaim(a, t, first)
  BY <1>3, UnclaimSteps
<1>4. ASSUME NEW stay \in BOOLEAN, ticket_submit(a, t, stay, first) PROVE Steps
  BY <1>4, SubmitSteps
<1>5. CASE lease_renew(a, t, first)
  BY <1>5, RenewSteps
<1>6. CASE ticket_cancel(a, t, first)
  BY <1>6, CancelSteps
<1>7. CASE ticket_park(a, t, first) \/ ticket_unpark(a, t, first)
  BY <1>7, ParkSteps, UnparkSteps
<1>8. ASSUME NEW target \in Pins, ticket_assign(a, t, target, first) PROVE Steps
  BY <1>8, AssignSteps
<1>9. CASE ticket_request_human(a, t, first)
  BY <1>9, AskSteps
<1>10. ASSUME NEW status \in {"open", "canceled", "needs_human"},
              ticket_human_resolve(a, t, status, first)
       PROVE  Steps
  BY <1>10, ResolveSteps
<1>11. CASE ticket_review_claim(a, t, first) \/ ticket_review_release(a, t, first)
  BY <1>11, ReviewClaimSteps, ReviewReleaseSteps
<1>12. ASSUME NEW status \in {"closed", "rejected", "open"}, NEW parked \in BOOLEAN,
              ticket_review(a, t, status, parked, first)
       PROVE  Steps
  BY <1>12, ReviewSteps
<1>13. CASE TicketCalls(a, t, first)
  BY <1>1, <1>2, <1>3, <1>4, <1>5, <1>6, <1>7, <1>8, <1>9, <1>10, <1>13 DEF TicketCalls
<1>14. CASE ReviewCalls(a, t, first)
  BY <1>11, <1>12, <1>14 DEF ReviewCalls
<1> QED BY <1>13, <1>14

LEMMA SeatCallSteps ==
    ASSUME IInv, NEW a \in Agents, NEW first, SeatCalls(a, first)
    PROVE  Steps
<1>1. CASE board_reap(a, first)
  BY <1>1, BoardReapSteps
<1>2. ASSUME NEW ready \in BOOLEAN, board_join(a, ready, first) PROVE Steps
  BY <1>2, JoinSteps
<1>3. ASSUME NEW ready \in BOOLEAN, agent_readiness_set(a, ready, first) PROVE Steps
  BY <1>3, ReadinessSteps
<1>4. ASSUME NEW target \in Agents, agent_retire(a, target, first) PROVE Steps
  BY <1>4, RetireSteps
<1>5. CASE memory_handoff(a, first)
  BY <1>5, HandoffSteps
<1>6. CASE Heartbeat(a, first)
  BY <1>6, PreparedView, ViewSteps DEF Heartbeat
<1> QED BY <1>1, <1>2, <1>3, <1>4, <1>5, <1>6 DEF SeatCalls

LEMMA TimeSteps == ASSUME IInv, Time PROVE Steps
<1>1. ASSUME NEW t \in Tickets, LapseLease(t) \/ LapseReviewLease(t) \/ BroadcastDue(t)
      PROVE  Steps
  BY <1>1, LapseSteps, ReviewLapseSteps, DueSteps
<1>2. ASSUME NEW t \in Tickets, NEW k \in Kinds, LapseOffer(t, k) PROVE Steps
  BY <1>2, OfferLapseSteps
<1>3. ASSUME NEW a \in Agents, GoDark(a) \/ GoIdle(a) \/ ReadinessExpires(a) PROVE Steps
  BY <1>3, SeatTimeSteps
<1> QED BY <1>1, <1>2, <1>3 DEF Time

\* Every step keeps the invariant and moves each ticket as TicketLease allows.
LEMMA NextSteps == ASSUME IInv, Next PROVE Steps
<1>1. CASE Calls
  BY <1>1, SeatCallSteps, TicketCallSteps DEF Calls
<1>2. CASE Time
  BY <1>2, TimeSteps
<1>3. CASE Reaper
  BY <1>3, ReaperSteps DEF Reaper
<1> QED BY <1>1, <1>2, <1>3 DEF Next

LEMMA Inductive == IInv /\ [Next]_vars => IInv'
<1> SUFFICES ASSUME IInv, [Next]_vars PROVE IInv'
  OBVIOUS
<1>1. CASE Next
  BY <1>1, NextSteps DEF Steps, IInv
<1>2. CASE UNCHANGED vars
  BY <1>2 DEF vars, IInv
<1> QED BY <1>1, <1>2

LEMMA Invariant == Spec => []IInv
  BY InitGood, Inductive, PTL DEF Spec

-----------------------------------------------------------------------------
(* What the reaper leaves *)

\* An offer has not lapsed.
Upright(tk, k) == Offered(tk, k) => tk.offer[k].live

Lively(d) == \A t \in Tickets, k \in Kinds : Upright(d.tickets[t], k)

\* No offer has lapsed or is invalid, and no seat has two.
Sound(d) ==
    /\ Lively(d)
    /\ \A t \in Tickets, k \in Kinds :
         Offered(d.tickets[t], k) => ~invalid_dispatch_offer(d, t, k)
    /\ \A t, u \in Tickets, j, k \in Kinds :
         Offered(d.tickets[t], j) /\ d.tickets[u].offer[k].agent = d.tickets[t].offer[j].agent
           => t = u /\ j = k

\* A ticket waits for one kind of work at a time.
LEMMA OneKind ==
    ASSUME NEW d, NEW t, NEW j \in Kinds, NEW k \in Kinds,
           ~invalid_dispatch_offer(d, t, j), ~invalid_dispatch_offer(d, t, k)
    PROVE  j = k
  BY DEF invalid_dispatch_offer, WantedStatus, Kinds

\* The offers of a document are to seats.
LEMMA OfferedSeat ==
    ASSUME NEW d \in Docs, NEW t \in Tickets, NEW k \in Kinds, Offered(d.tickets[t], k)
    PROVE  d.tickets[t].offer[k].agent \in Agents
  BY DocTicket DEF GoodTickets, Record, Offer, Someone, Offered

\* Dispatch makes an offer only to a seat that has none.
LEMMA ServesUpright ==
    ASSUME NEW d, NEW e, NEW t \in Tickets, Serves(d, t, e), NEW k \in Kinds,
           Upright(d.tickets[t], k)
    PROVE  Upright(e.tickets[t], k)
  BY DEF Serves, Upright, Offered, SameOffer, Granted

LEMMA ServesSound ==
    ASSUME NEW d \in Docs, NEW e \in Docs, NEW t \in Tickets, Serves(d, t, e), Sound(d)
    PROVE  Sound(e)
<1> DEFINE Old(u, k) == u # t \/ SameOffer(d.tickets[u], e.tickets[u], k)
<1>1. \A u \in Tickets : Kept(d.tickets[u], e.tickets[u])
                         /\ e.tickets[u].assigned_to \in {d.tickets[u].assigned_to, NoAgent}
  BY DEF Serves, Steadfast, Kept
<1>2. \A u \in Tickets, k \in Kinds : Old(u, k) => SameOffer(d.tickets[u], e.tickets[u], k)
  BY DEF Serves, SameOffer
<1>3. \A u \in Tickets, k \in Kinds : ~Old(u, k) => u = t /\ Granted(e, t, k)
  BY DEF Serves
<1> HIDE DEF Old
<1>4. Lively(e)
  <2> SUFFICES ASSUME NEW u \in Tickets, NEW k \in Kinds PROVE Upright(e.tickets[u], k)
    BY DEF Lively
  <2>1. CASE Old(u, k)
    BY <1>2, <2>1 DEF Sound, Lively, Upright, Offered, SameOffer
  <2>2. CASE ~Old(u, k)
    BY <1>3, <2>2 DEF Granted, Upright
  <2> QED BY <2>1, <2>2
<1>5. ASSUME NEW u \in Tickets, NEW k \in Kinds, Offered(e.tickets[u], k)
      PROVE  ~invalid_dispatch_offer(e, u, k)
  <2>1. CASE Old(u, k)
    <3>1. SameOffer(d.tickets[u], e.tickets[u], k) /\ e.tickets[u].offer[k].agent \in Agents
      BY <1>2, <1>5, <2>1, OfferedSeat
    <3>2. ~invalid_dispatch_offer(d, u, k)
      BY <1>5, <3>1 DEF Sound, Offered, SameOffer
    <3>3. e.members = d.members
      BY DEF Serves
    <3> QED BY <1>1, <3>1, <3>2, <3>3, StaysValid DEF SameOffer
  <2>2. CASE ~Old(u, k)
    BY <1>3, <2>2 DEF Granted
  <2> QED BY <2>1, <2>2
<1>6. ASSUME NEW u \in Tickets, NEW v \in Tickets, NEW j \in Kinds, NEW k \in Kinds,
             Offered(e.tickets[u], j), Offered(e.tickets[v], k),
             e.tickets[v].offer[k].agent = e.tickets[u].offer[j].agent, ~Old(u, j)
      PROVE  u = v /\ j = k
  <2>1. u = t /\ Granted(e, t, j)
    BY <1>3, <1>6
  <2>2. v = t
    <3> SUFFICES ASSUME v # t PROVE FALSE
      OBVIOUS
    <3>1. e.tickets[v].offer[k].live
      BY <1>4, <1>6 DEF Lively, Upright
    <3>2. agent_is_busy(e, e.tickets[t].offer[j].agent, t)
      BY <1>6, <2>1, <3>1 DEF agent_is_busy
    <3> QED BY <2>1, <3>2 DEF Granted
  <2> QED BY <1>5, <1>6, <2>1, <2>2, OneKind
<1>7. ASSUME NEW u \in Tickets, NEW v \in Tickets, NEW j \in Kinds, NEW k \in Kinds,
             Offered(e.tickets[u], j),
             e.tickets[v].offer[k].agent = e.tickets[u].offer[j].agent
      PROVE  u = v /\ j = k
  <2>1. Offered(e.tickets[v], k)
    BY <1>7 DEF Offered
  <2>2. CASE Old(u, j) /\ Old(v, k)
    BY <1>2, <1>7, <2>2 DEF Sound, SameOffer, Offered
  <2>3. CASE ~Old(u, j)
    BY <1>6, <1>7, <2>1, <2>3
  <2>4. CASE ~Old(v, k)
    BY <1>6, <1>7, <2>1, <2>4
  <2> QED BY <2>2, <2>3, <2>4
<1> QED BY <1>4, <1>5, <1>7 DEF Sound

\* Dispatch of one ticket makes no seat free for another.
LEMMA ServedStays ==
    ASSUME NEW d, NEW e, NEW t \in Tickets, Serves(d, t, e),
           NEW u \in Tickets \ {t}, NEW k \in Kinds, Served(d, u, k)
    PROVE  Served(e, u, k)
<1> DEFINE x == d.tickets[t]
           y == e.tickets[t]
<1>1. e.members = d.members /\ e.tickets[u] = d.tickets[u]
  BY DEF Serves
<1>2. ASSUME NEW a \in Agents, agent_is_busy(d, a, u) PROVE agent_is_busy(e, a, u)
  <2>1. PICK v \in Tickets \ {u} :
          \/ Holds(d.tickets[v], a)
          \/ d.tickets[v].reviewer = a /\ ReviewLeaseIsLive(d.tickets[v])
          \/ \E j \in Kinds : d.tickets[v].offer[j].agent = a /\ d.tickets[v].offer[j].live
    BY <1>2 DEF agent_is_busy
  <2>2. CASE v # t
    BY <2>1, <2>2 DEF Serves, agent_is_busy
  <2>3. CASE v = t
    <3>1. Holds(x, a) => Holds(y, a)
      BY DEF Serves, Steadfast
    <3>2. y.reviewer = x.reviewer /\ ReviewLeaseIsLive(y) = ReviewLeaseIsLive(x)
      BY DEF Serves, Steadfast, Kept, ReviewLeaseIsLive
    <3>3. \A j \in Kinds : x.offer[j].live =>
            y.offer[j].agent = x.offer[j].agent /\ y.offer[j].live
      BY DEF Serves, SameOffer
    <3> QED BY <2>1, <2>3, <3>1, <3>2, <3>3 DEF agent_is_busy
  <2> QED BY <2>2, <2>3
<1>3. Dispatchable(e, u, k) = Dispatchable(d, u, k)
  BY <1>1 DEF Dispatchable, dispatch_enabled
<1>4. ASSUME NEW a \in Agents, dispatch_candidate_is_eligible(e, u, a, k)
      PROVE  dispatch_candidate_is_eligible(d, u, a, k)
  BY <1>1, <1>2, <1>4 DEF dispatch_candidate_is_eligible, dispatch_member_matches_requirements
<1> QED BY <1>1, <1>3, <1>4 DEF Served

LEMMA InOrderStepServes ==
    ASSUME NEW e \in Docs, NEW t \in Tickets, NEW first
    PROVE  LET y == InOrderStep(e, t, first)
           IN  Serves(e, t, y) /\ \A k \in Kinds : Served(y, t, k)
<1> DEFINE y == InOrderStep(e, t, first)
           j == KindOf(e.tickets[t])
<1>1. Serves(e, t, y)
  <2>1. j \in Kinds
    BY DEF KindOf, Kinds
  <2> HIDE DEF j
  <2> QED BY <2>1, DispatchServes, ServesSame DEF InOrderStep, Dispatch, j
<1>2. ASSUME NEW k \in Kinds PROVE Served(y, t, k)
  <2>1. y.tickets[t].status = e.tickets[t].status
    <3> HIDE DEF y
    <3> QED BY <1>1 DEF Serves, Steadfast, Kept
  <2>2. CASE e.tickets[t].status = WantedStatus(k)
    <3>1. k = j /\ y = dispatch_ticket(e, t, k, NoAgent, first)
      BY <2>2 DEF KindOf, WantedStatus, Kinds, InOrderStep, Dispatch
    <3> HIDE DEF y, j
    <3> QED BY <3>1, DispatchServes
  <2>3. CASE e.tickets[t].status # WantedStatus(k)
    <3> HIDE DEF y
    <3> QED BY <2>1, <2>3 DEF Served, Dispatchable
  <2> QED BY <2>2, <2>3
<1> QED BY <1>1, <1>2

\* A dispatch along the queue serves every ticket.
LEMMA InOrderSettles ==
    ASSUME NEW d \in Docs, NEW first, Sound(d)
    PROVE  LET e == DispatchInOrder(d, first)
           IN  Sound(e) /\ \A t \in Tickets, k \in Kinds : Served(e, t, k)
<1> DEFINE n == Len(Queue)
<1>1. PICK f : /\ f[0] = d /\ \A i \in 0..n : f[i] \in Docs
               /\ \A i \in 1..n : f[i] = InOrderStep(f[i - 1], Queue[i], first)
               /\ dispatch_enabled(d) => DispatchInOrder(d, first) = f[n]
  BY ZenonT(30), InOrderPass
<1>2. n \in Nat /\ \A i \in 1..n : Queue[i] \in Tickets
  BY SMTT(30), QueueFacts
<1>3. Tickets = {Queue[i] : i \in 1..n}
  BY QueueCovers
<1> HIDE DEF n
<1> DEFINE S == {i \in 0..n : /\ Sound(f[i])
                              /\ \A j \in 1..i, k \in Kinds : Served(f[i], Queue[j], k)}
<1>4. 0 \in S
  BY <1>1, <1>2
<1>5. ASSUME NEW i \in 1..n, i - 1 \in S PROVE i \in S
  <2> DEFINE e == f[i - 1]
             y == f[i]
             t == Queue[i]
  <2>1. /\ i \in 0..n /\ i - 1 \in 0..n /\ Sound(e) /\ e \in Docs /\ y \in Docs /\ t \in Tickets
        /\ \A j \in 1..(i - 1), k \in Kinds : Served(e, Queue[j], k)
    BY <1>1, <1>2, <1>5
  <2>2. Serves(e, t, y) /\ \A k \in Kinds : Served(y, t, k)
    BY <1>1, <2>1, InOrderStepServes
  <2>3. Sound(y)
    <3> HIDE DEF e, y, t
    <3> QED BY <2>1, <2>2, ServesSound
  <2>4. ASSUME NEW j \in 1..i, NEW k \in Kinds PROVE Served(y, Queue[j], k)
    <3>1. CASE Queue[j] = t
      BY <2>2, <3>1
    <3>2. CASE Queue[j] # t
      <4>1. j \in 1..(i - 1) /\ Queue[j] \in Tickets \ {t}
        BY <1>2, <3>2
      <4> HIDE DEF e, y, t
      <4> QED BY <2>1, <2>2, <4>1, ServedStays
    <3> QED BY <3>1, <3>2
  <2> QED BY <2>1, <2>3, <2>4
<1>6. n \in S
  <2> HIDE DEF S
  <2> QED BY <1>2, <1>4, <1>5, Climb
<1>7. CASE dispatch_enabled(d)
  BY <1>1, <1>3, <1>6, <1>7
<1>8. CASE ~dispatch_enabled(d)
  BY <1>8 DEF DispatchInOrder, Served, Dispatchable
<1> QED BY <1>7, <1>8

\* What looking at one offer does to the documents of the pass.
LEMMA KeepOrRevokeIs ==
    ASSUME NEW s \in Progress, NEW t \in Tickets, NEW k \in Kinds
    PROVE  LET f == KeepOrRevoke(s, <<t, k>>)
               o == f.doc.tickets[t].offer[k]
           IN  /\ f.doc.members = s.doc.members /\ s.reserved \subseteq f.reserved
               /\ \A u \in Tickets : /\ Kept(s.doc.tickets[u], f.doc.tickets[u])
                                     /\ f.doc.tickets[u].assigned_to = s.doc.tickets[u].assigned_to
               /\ \A u \in Tickets, j \in Kinds :
                    \/ f.doc.tickets[u].offer[j] = s.doc.tickets[u].offer[j]
                    \/ u = t /\ j = k /\ o = NoOffer
               /\ o.agent # NoAgent =>
                    /\ o.agent \in f.reserved /\ o.agent \notin s.reserved
                    /\ ~invalid_dispatch_offer(f.doc, t, k)
<1> DEFINE x == s.doc.tickets[t]
           d == reconcile_inactive_work_ownership(s.doc, t)
           y == d.tickets[t]
           a == x.offer[k].agent
           e == [d EXCEPT !.tickets[t] = Revoke(@, k)]
           f == KeepOrRevokeOffer(s, d, t, k, a)
           z == Revoke(y, k)
<1>1. KeepOrRevoke(s, <<t, k>>) = f
  BY DEF KeepOrRevoke
<1>2. s.doc \in Docs /\ d \in Docs /\ d.members = s.doc.members
      /\ Kept(x, y)
      /\ \A u \in Tickets \ {t} : d.tickets[u] = s.doc.tickets[u]
  BY ReconcileTends DEF Progress, Tends
<1>3. y.offer = x.offer /\ y.assigned_to = x.assigned_to
  <2>1. x \in Record
    BY <1>2, DocTicket DEF GoodTickets
  <2>2. y \in {x, WithoutWorkLease(x)}
    BY <1>2 DEF reconcile_inactive_work_ownership, Docs
  <2> HIDE DEF x, y
  <2> QED BY <2>1, <2>2 DEF WithoutWorkLease, Record
<1> HIDE DEF d
<1>4. y \in GoodTickets
  BY <1>2, DocTicket
<1>5. /\ Kept(y, z) /\ z.assigned_to = y.assigned_to /\ z.offer[k] = NoOffer
      /\ \A j \in Kinds : j # k => z.offer[j] = y.offer[j]
  <2>1. Kept(y, z)
    BY <1>4, RevokeTidies DEF Tidied
  <2>2. /\ z.assigned_to = y.assigned_to /\ z.offer[k] = NoOffer
        /\ \A j \in Kinds : j # k => z.offer[j] = y.offer[j]
    <3> HIDE DEF y
    <3> QED BY <1>4 DEF Revoke, GoodTickets, Record
  <2> QED BY <2>1, <2>2
<1> HIDE DEF z
<1>6. e.members = d.members /\ e.tickets = [d.tickets EXCEPT ![t] = z]
  BY <1>2 DEF Docs, z
<1>7. e.tickets[t] = z /\ \A u \in Tickets \ {t} : e.tickets[u] = d.tickets[u]
  BY <1>2, <1>6 DEF Docs
<1> HIDE DEF e
<1>8. Kept(x, z)
  <2> HIDE DEF x, y
  <2> QED BY <1>2, <1>5, KeptTwice
<1>12. \A u \in Tickets : Kept(s.doc.tickets[u], s.doc.tickets[u])
  BY DEF Kept
<1>9. CASE a = NoAgent
  <2>1. f.doc = d /\ f.reserved = s.reserved
    BY <1>9 DEF KeepOrRevokeOffer, Progress
  <2> HIDE DEF f
  <2>2. \A u \in Tickets : Kept(s.doc.tickets[u], d.tickets[u])
    BY <1>2, <1>12
  <2>3. \A u \in Tickets : /\ d.tickets[u].assigned_to = s.doc.tickets[u].assigned_to
                           /\ d.tickets[u].offer = s.doc.tickets[u].offer
    BY <1>2, <1>3
  <2>4. d.tickets[t].offer[k].agent = NoAgent
    BY <1>9, <2>3
  <2> QED BY <1>1, <1>2, <2>1, <2>2, <2>3, <2>4
<1>10. CASE a # NoAgent /\ (invalid_dispatch_offer(d, t, k) \/ a \in s.reserved)
  <2>1. f.doc = e /\ f.reserved = s.reserved
    BY <1>10 DEF KeepOrRevokeOffer, e
  <2> HIDE DEF f
  <2>2. \A u \in Tickets : Kept(s.doc.tickets[u], e.tickets[u])
    BY <1>2, <1>7, <1>8, <1>12
  <2>3. \A u \in Tickets : e.tickets[u].assigned_to = s.doc.tickets[u].assigned_to
    BY <1>2, <1>3, <1>5, <1>7
  <2>4. e.tickets[t].offer[k] = NoOffer
    BY <1>5, <1>7
  <2>5. \A u \in Tickets, j \in Kinds :
          (u # t \/ j # k) => e.tickets[u].offer[j] = s.doc.tickets[u].offer[j]
    BY <1>2, <1>3, <1>5, <1>7
  <2>6. NoOffer.agent = NoAgent
    BY DEF NoOffer
  <2> QED BY <1>1, <1>2, <1>6, <2>1, <2>2, <2>3, <2>4, <2>5, <2>6
<1>11. CASE a # NoAgent /\ ~invalid_dispatch_offer(d, t, k) /\ a \notin s.reserved
  <2>1. f.doc = d /\ f.reserved = s.reserved \cup {a}
    BY <1>11 DEF KeepOrRevokeOffer, Progress
  <2> HIDE DEF f
  <2>2. \A u \in Tickets : Kept(s.doc.tickets[u], d.tickets[u])
    BY <1>2, <1>12
  <2>3. \A u \in Tickets : /\ d.tickets[u].assigned_to = s.doc.tickets[u].assigned_to
                           /\ d.tickets[u].offer = s.doc.tickets[u].offer
    BY <1>2, <1>3
  <2>4. d.tickets[t].offer[k].agent = a
    BY <2>3
  <2> QED BY <1>1, <1>2, <1>11, <2>1, <2>2, <2>3, <2>4
<1> QED BY <1>9, <1>10, <1>11

\* The offers in V were looked at: they are valid, and their seats are reserved.
Checked(s, V) ==
    /\ \A t \in Tickets, k \in Kinds :
         <<t, k>> \in V /\ Offered(s.doc.tickets[t], k) =>
           /\ s.doc.tickets[t].offer[k].agent \in s.reserved
           /\ ~invalid_dispatch_offer(s.doc, t, k)
    /\ \A t, u \in Tickets, j, k \in Kinds :
         /\ <<t, j>> \in V /\ <<u, k>> \in V /\ Offered(s.doc.tickets[t], j)
         /\ s.doc.tickets[u].offer[k].agent = s.doc.tickets[t].offer[j].agent
         => t = u /\ j = k

LEMMA KeepOrRevokeChecks ==
    ASSUME NEW s \in Progress, NEW t \in Tickets, NEW k \in Kinds, NEW V,
           Lively(s.doc), Checked(s, V)
    PROVE  LET f == KeepOrRevoke(s, <<t, k>>)
           IN  Lively(f.doc) /\ Checked(f, V \cup {<<t, k>>})
<1> DEFINE f == KeepOrRevoke(s, <<t, k>>)
           W == V \cup {<<t, k>>}
<1>1. /\ f.doc.members = s.doc.members /\ s.reserved \subseteq f.reserved
      /\ \A u \in Tickets : /\ Kept(s.doc.tickets[u], f.doc.tickets[u])
                            /\ f.doc.tickets[u].assigned_to = s.doc.tickets[u].assigned_to
      /\ \A u \in Tickets, j \in Kinds :
           \/ f.doc.tickets[u].offer[j] = s.doc.tickets[u].offer[j]
           \/ u = t /\ j = k /\ f.doc.tickets[t].offer[k] = NoOffer
      /\ Offered(f.doc.tickets[t], k) =>
           /\ f.doc.tickets[t].offer[k].agent \in f.reserved
           /\ f.doc.tickets[t].offer[k].agent \notin s.reserved
           /\ ~invalid_dispatch_offer(f.doc, t, k)
  BY KeepOrRevokeIs DEF Offered
<1>2. f.doc \in Docs
  BY KeepOrRevokeKeeps DEF Progress
<1> HIDE DEF f
<1>3. \A u \in Tickets, j \in Kinds :
        Offered(f.doc.tickets[u], j) => f.doc.tickets[u].offer[j] = s.doc.tickets[u].offer[j]
  BY <1>1 DEF Offered, NoOffer
<1>4. Lively(f.doc)
  BY <1>3 DEF Lively, Upright, Offered
<1>5. ASSUME NEW u \in Tickets, NEW j \in Kinds, <<u, j>> \in W, Offered(f.doc.tickets[u], j)
      PROVE  /\ f.doc.tickets[u].offer[j].agent \in f.reserved
             /\ ~invalid_dispatch_offer(f.doc, u, j)
  <2>1. CASE u = t /\ j = k
    BY <1>1, <1>5, <2>1
  <2>2. CASE u # t \/ j # k
    <3>1. <<u, j>> \in V
      BY <1>5, <2>2
    <3>2. f.doc.tickets[u].offer[j] = s.doc.tickets[u].offer[j]
      BY <1>3, <1>5
    <3>3. Offered(s.doc.tickets[u], j)
      BY <1>5, <3>2 DEF Offered
    <3>4. s.doc.tickets[u].offer[j].agent \in s.reserved /\ ~invalid_dispatch_offer(s.doc, u, j)
      BY <3>1, <3>3 DEF Checked
    <3>5. f.doc.tickets[u].offer[j].agent \in Agents
      BY <1>2, <1>5, OfferedSeat
    <3> QED BY <1>1, <3>2, <3>4, <3>5, StaysValid
  <2> QED BY <2>1, <2>2
<1>6. ASSUME NEW u \in Tickets, NEW j \in Kinds, <<u, j>> \in W, u # t \/ j # k,
             Offered(f.doc.tickets[u], j)
      PROVE  f.doc.tickets[u].offer[j].agent \in s.reserved
  <2>1. <<u, j>> \in V
    BY <1>6
  <2>2. f.doc.tickets[u].offer[j] = s.doc.tickets[u].offer[j]
    BY <1>3, <1>6
  <2> QED BY <1>6, <2>1, <2>2 DEF Checked, Offered
<1>7. ASSUME NEW u \in Tickets, NEW v \in Tickets, NEW i \in Kinds, NEW j \in Kinds,
             <<u, i>> \in W, <<v, j>> \in W, Offered(f.doc.tickets[u], i),
             f.doc.tickets[v].offer[j].agent = f.doc.tickets[u].offer[i].agent
      PROVE  u = v /\ i = j
  <2>1. Offered(f.doc.tickets[v], j)
    BY <1>7 DEF Offered
  <2>2. CASE u = t /\ i = k
    BY <1>1, <1>6, <1>7, <2>1, <2>2
  <2>3. CASE v = t /\ j = k
    BY <1>1, <1>6, <1>7, <2>1, <2>3
  <2>4. CASE (u # t \/ i # k) /\ (v # t \/ j # k)
    <3>1. <<u, i>> \in V /\ <<v, j>> \in V
      BY <1>7, <2>4
    <3>2. f.doc.tickets[u].offer[i] = s.doc.tickets[u].offer[i]
          /\ f.doc.tickets[v].offer[j] = s.doc.tickets[v].offer[j]
      BY <1>3, <1>7, <2>1
    <3>3. Offered(s.doc.tickets[u], i)
      BY <1>7, <3>2 DEF Offered
    <3> QED BY <1>7, <3>1, <3>2, <3>3 DEF Checked
  <2> QED BY <2>2, <2>3, <2>4
<1>8. Checked(f, W)
  BY <1>5, <1>7 DEF Checked
<1> QED BY <1>4, <1>8 DEF f

\* The pass leaves only offers that are valid, one for a seat.
LEMMA ReconcileSound ==
    ASSUME NEW d \in Docs, Lively(d)
    PROVE  Sound(reconcile_invalid_dispatch_offers(d))
<1> DEFINE n == Len(OfferSlots)
           seq == OfferSlots
<1>1. PICK f : /\ f[0] = [doc |-> d, reserved |-> {}, revoked |-> FALSE]
               /\ \A i \in 0..n : f[i] \in Progress
               /\ \A i \in 1..n : f[i] = KeepOrRevoke(f[i - 1], seq[i])
               /\ reconcile_invalid_dispatch_offers(d) = EndBroadcasts(f[n])
  BY ReconcilePass
<1>2. n \in Nat /\ \A j \in 1..n : seq[j] \in Tickets \X Kinds
  BY QueueFacts, SlotsOf DEF OfferSlots
<1>3. \A t \in Tickets, k \in Kinds : \E i \in 1..n : seq[i] = <<t, k>>
  BY SlotsCover
<1> HIDE DEF n, seq
<1> DEFINE V(i) == {seq[j] : j \in 1..i}
           S == {i \in 0..n : Lively(f[i].doc) /\ Checked(f[i], V(i))}
<1>4. 0 \in S
  <2>1. V(0) = {} /\ f[0].doc = d /\ 0 \in 0..n
    BY <1>1, <1>2
  <2> QED BY <2>1 DEF Checked
<1>5. ASSUME NEW i \in 1..n, i - 1 \in S PROVE i \in S
  <2>1. i \in 0..n /\ i - 1 \in 0..n /\ Lively(f[i - 1].doc) /\ Checked(f[i - 1], V(i - 1))
    BY <1>2, <1>5
  <2>2. PICK t \in Tickets, k \in Kinds : seq[i] = <<t, k>>
    BY <1>2
  <2>3. V(i) = V(i - 1) \cup {seq[i]}
    <3>1. \A j : j \in 1..i <=> j \in 1..(i - 1) \/ j = i
      BY <1>2, <1>5
    <3> QED BY <3>1
  <2> HIDE DEF V
  <2> DEFINE r == f[i - 1]
             W == V(i - 1)
  <2>5. r \in Progress /\ f[i] = KeepOrRevoke(r, <<t, k>>)
    BY <1>1, <2>1, <2>2
  <2>6. V(i) = W \cup {<<t, k>>} /\ Lively(r.doc) /\ Checked(r, W)
    BY <2>1, <2>2, <2>3
  <2> HIDE DEF r, W
  <2>4. Lively(f[i].doc) /\ Checked(f[i], V(i))
    BY <2>5, <2>6, KeepOrRevokeChecks
  <2> QED BY <2>1, <2>4
<1>6. n \in S
  <2> HIDE DEF S
  <2> QED BY <1>2, <1>4, <1>5, Climb
<1> DEFINE s == f[n]
           e == EndBroadcasts(s)
<1>7. s \in Progress /\ Lively(s.doc) /\ Checked(s, V(n))
  BY <1>1, <1>2, <1>6
<1>8. \A t \in Tickets, k \in Kinds : <<t, k>> \in V(n)
  BY <1>3
<1> HIDE DEF V
<1>9. Sound(s.doc)
  BY <1>7, <1>8 DEF Sound, Checked
<1> HIDE DEF s
<1>10. /\ Keeps(s.doc, e) /\ e.members = s.doc.members
       /\ \A t \in Tickets : e.tickets[t] \in {s.doc.tickets[t],
                                               EndBroadcast(s.doc.tickets[t])}
  BY <1>7, EndBroadcastsIs
<1>11. \A t \in Tickets : /\ e.tickets[t].offer = s.doc.tickets[t].offer
                          /\ e.tickets[t].assigned_to = s.doc.tickets[t].assigned_to
                          /\ Kept(s.doc.tickets[t], e.tickets[t])
  <2> TAKE t \in Tickets
  <2>1. s.doc.tickets[t] \in Record
    BY <1>7, DocTicket DEF Progress, GoodTickets
  <2> QED BY <1>10, <2>1 DEF EndBroadcast, Record, Kept
<1> HIDE DEF e
<1>12. ASSUME NEW t \in Tickets, NEW k \in Kinds, Offered(e.tickets[t], k)
       PROVE  ~invalid_dispatch_offer(e, t, k)
  <2>1. Offered(s.doc.tickets[t], k) /\ e.tickets[t].offer[k] = s.doc.tickets[t].offer[k]
    BY <1>11, <1>12 DEF Offered
  <2>2. ~invalid_dispatch_offer(s.doc, t, k) /\ e.tickets[t].offer[k].agent \in Agents
    BY <1>7, <1>9, <2>1, OfferedSeat DEF Sound, Progress
  <2> QED BY <1>10, <1>11, <2>1, <2>2, StaysValid
<1>13. Sound(e)
  <2>1. \A t \in Tickets, k \in Kinds : e.tickets[t].offer[k] = s.doc.tickets[t].offer[k]
    BY <1>11
  <2>2. Lively(e)
    BY <1>9, <2>1 DEF Sound, Lively, Upright, Offered
  <2>3. ASSUME NEW t \in Tickets, NEW u \in Tickets, NEW j \in Kinds, NEW k \in Kinds,
               Offered(e.tickets[t], j),
               e.tickets[u].offer[k].agent = e.tickets[t].offer[j].agent
        PROVE  t = u /\ j = k
    <3>1. /\ Offered(s.doc.tickets[t], j)
          /\ s.doc.tickets[u].offer[k].agent = s.doc.tickets[t].offer[j].agent
      BY <2>1, <2>3 DEF Offered
    <3> QED BY <1>9, <3>1 DEF Sound
  <2> QED BY <1>12, <2>2, <2>3 DEF Sound
<1> QED BY <1>1, <1>13 DEF e, s

LEMMA RedispatchSettles ==
    ASSUME NEW d \in Docs, NEW first, Lively(d)
    PROVE  LET e == redispatch_queue(d, first)
           IN  e \in Docs /\ Lively(e) /\ Settled(e)
<1> DEFINE r == reconcile_invalid_dispatch_offers(d)
           e == DispatchInOrder(r, first)
<1>1. r \in Docs /\ Sound(r)
  BY ReconcileKeeps, ReconcileSound DEF Keeps
<1>2. Sound(e) /\ \A t \in Tickets, k \in Kinds : Served(e, t, k)
  <2> HIDE DEF r
  <2> QED BY <1>1, InOrderSettles
<1>3. redispatch_queue(d, first) = e
  BY DEF redispatch_queue
<1> HIDE DEF e
<1>4. e \in Docs
  BY <1>3, RedispatchKeeps DEF Keeps
<1>5. ASSUME NEW a \in Agents
      PROVE  Cardinality({slot \in Tickets \X Kinds :
                            e.tickets[slot[1]].offer[slot[2]].agent = a}) <= 1
  <2> DEFINE slots == {slot \in Tickets \X Kinds :
                         e.tickets[slot[1]].offer[slot[2]].agent = a}
  <2>1. ASSUME NEW i \in slots, NEW j \in slots PROVE i = j
    <3>1. /\ i = <<i[1], i[2]>> /\ i[1] \in Tickets /\ i[2] \in Kinds
          /\ j = <<j[1], j[2]>> /\ j[1] \in Tickets /\ j[2] \in Kinds
          /\ e.tickets[i[1]].offer[i[2]].agent = a /\ e.tickets[j[1]].offer[j[2]].agent = a
      OBVIOUS
    <3>2. Offered(e.tickets[i[1]], i[2])
      BY <3>1, DispatchAssumption DEF Offered
    <3>3. i[1] = j[1] /\ i[2] = j[2]
      BY <1>2, <3>1, <3>2 DEF Sound
    <3> QED BY <3>1, <3>3
  <2> HIDE DEF slots
  <2>2. Cardinality(slots) <= 1
    <3>1. CASE slots = {}
      BY <3>1, FS_EmptySet
    <3>2. CASE slots # {}
      <4>1. PICK j \in slots : slots = {j}
        BY <2>1, <3>2
      <4> QED BY <4>1, FS_Singleton
    <3> QED BY <3>1, <3>2
  <2> QED BY <2>2 DEF slots
<1> QED BY <1>2, <1>3, <1>4, <1>5 DEF Sound, Served, Settled

\* Nothing that is done to a ticket in a reap pass makes an offer that has lapsed.
LEMMA RedispatchedUpright ==
    ASSUME NEW d \in Docs, NEW t \in Tickets, NEW j \in Kinds, NEW redispatch, NEW first,
           NEW k \in Kinds, Upright(d.tickets[t], k)
    PROVE  Upright(Redispatched(redispatch, d, t, j, first).tickets[t], k)
<1> DEFINE e == dispatch_ticket(d, t, j, NoAgent, first)
<1>1. Serves(d, t, e)
  BY DispatchServes
<1> HIDE DEF e
<1>2. Upright(e.tickets[t], k)
  BY <1>1, ServesUpright
<1> QED BY <1>2 DEF Redispatched, Dispatch, e

LEMMA ExpireStepUpright ==
    ASSUME NEW d \in Docs, NEW t \in Tickets, NEW j \in Kinds, NEW redispatch, NEW first,
           NEW k \in Kinds, Upright(d.tickets[t], k) \/ k = j
    PROVE  Upright(ExpireStep(d, t, j, redispatch, first).tickets[t], k)
<1> DEFINE x == d.tickets[t]
           m == [d EXCEPT !.tickets[t] = ExpireOffer(@, j)]
           y == ExpireOffer(x, j)
<1>1. CASE ~Offered(x, j) \/ x.offer[j].live
  BY <1>1 DEF ExpireStep, Upright
<1>2. CASE Offered(x, j) /\ ~x.offer[j].live
  <2>1. m \in Docs
    BY <1>2, ExpireTends DEF Tends
  <2>2. m.tickets[t] = y
    BY DEF Docs
  <2>3. y.offer = [x.offer EXCEPT ![j] = NoOffer] /\ x.offer \in [Kinds -> Offer]
    <3>1. x \in Record
      BY DocTicket DEF GoodTickets
    <3> HIDE DEF x
    <3> QED BY <3>1 DEF ExpireOffer, Record
  <2> HIDE DEF m, y
  <2>4. Upright(m.tickets[t], k)
    BY <2>2, <2>3 DEF Upright, Offered, NoOffer
  <2>5. Upright(Redispatched(redispatch, m, t, j, first).tickets[t], k)
    BY <2>1, <2>4, RedispatchedUpright
  <2> QED BY <1>2, <2>5 DEF ExpireStep, m
<1> QED BY <1>1, <1>2

LEMMA ReapTicketUpright ==
    ASSUME NEW d \in Docs, NEW t \in Tickets, NEW redispatch, NEW first, NEW k \in Kinds
    PROVE  Upright(ReapTicket(d, t, redispatch, first).tickets[t], k)
<1> DEFINE r == reconcile_inactive_work_ownership(d, t)
           c == ExpireStep(r, t, "work", redispatch, first)
           o == ExpireStep(c, t, "review", redispatch, first)
           v == ReapReviewLease(o, t, redispatch, first)
           w == ReapWorkLease(v, t, redispatch, first)
<1>1. r \in Docs
  BY ReconcileTends DEF Tends
<1>2. c \in Docs /\ (k = "work" => Upright(c.tickets[t], k))
  <2> HIDE DEF r
  <2> QED BY <1>1, ExpireStepTends, ExpireStepUpright DEF Tends, Kinds
<1>3. o \in Docs /\ Upright(o.tickets[t], k)
  <2> HIDE DEF c
  <2> QED BY <1>2, ExpireStepTends, ExpireStepUpright DEF Tends, Kinds
<1>4. ReapTicket(d, t, redispatch, first) = w
  BY ExpireOffersAre DEF ReapTicket
<1> HIDE DEF o
<1>5. v \in Docs /\ Upright(v.tickets[t], k)
  <2> DEFINE x == o.tickets[t]
             y == [x EXCEPT !.reviewer = NoAgent, !.review_lease = "none"]
             m == [o EXCEPT !.tickets[t] = y]
             e == Redispatched(redispatch, m, t, "review", first)
  <2>1. [o EXCEPT !.tickets[t].reviewer = NoAgent, !.tickets[t].review_lease = "none"] = m
    BY <1>3 DEF Docs
  <2>2. y \in GoodTickets /\ y.offer = x.offer
    <3>1. x \in GoodTickets
      BY <1>3, DocTicket
    <3> HIDE DEF x
    <3> QED BY <3>1, FreedGood
  <2> HIDE DEF y
  <2>3. m \in Docs /\ m.tickets[t] = y
    BY <1>3, <2>2 DEF Docs
  <2> HIDE DEF m
  <2>4. Upright(m.tickets[t], k)
    BY <1>3, <2>2, <2>3 DEF Upright, Offered
  <2>5. Upright(e.tickets[t], k)
    BY <2>3, <2>4, RedispatchedUpright DEF Kinds
  <2>6. v \in {o, e}
    BY <2>1 DEF ReapReviewLease
  <2> HIDE DEF v, e
  <2>7. v \in Docs
    BY <1>3, ReviewReaped DEF v
  <2> QED BY <1>3, <2>5, <2>6, <2>7
<1> HIDE DEF v
<1>6. Upright(w.tickets[t], k)
  <2> DEFINE x == v.tickets[t]
             y == [WithoutWorkLease(x) EXCEPT !.status = "open", !.for_human = FALSE]
             m == [v EXCEPT !.tickets[t] = y]
             e == Redispatched(redispatch, m, t, "work", first)
  <2>1. CASE ~(PreSubmission(x) /\ x.lease = "lapsed")
    BY <1>5, <2>1 DEF ReapWorkLease
  <2>2. CASE PreSubmission(x) /\ x.lease = "lapsed"
    <3>1. [v EXCEPT !.tickets[t] =
             [WithoutWorkLease(@) EXCEPT !.status = "open", !.for_human = FALSE]] = m
      BY <1>5 DEF Docs
    <3>2. x \in GoodTickets
      BY <1>5, DocTicket
    <3>3. y \in GoodTickets /\ y.offer = x.offer
      <4>1. y \in GoodTickets
        <5> HIDE DEF x
        <5> QED BY <2>2, <3>2, ReopenGood
      <4>2. y.offer = x.offer
        <5> HIDE DEF x
        <5> QED BY <3>2 DEF WithoutWorkLease, GoodTickets, Record
      <4> QED BY <4>1, <4>2
    <3> HIDE DEF y
    <3>4. m \in Docs /\ m.tickets[t] = y
      BY <1>5, <3>3 DEF Docs
    <3> HIDE DEF m
    <3>5. Upright(m.tickets[t], k)
      BY <1>5, <3>3, <3>4 DEF Upright, Offered
    <3>6. Upright(e.tickets[t], k)
      BY <3>4, <3>5, RedispatchedUpright DEF Kinds
    <3> HIDE DEF e
    <3>7. w = e
      BY <2>2, <3>1 DEF ReapWorkLease, e
    <3> QED BY <3>6, <3>7
  <2> QED BY <2>1, <2>2
<1> QED BY <1>4, <1>6

\* A reap pass that redispatches leaves the board settled.
LEMMA ReapSettles ==
    ASSUME NEW d \in Docs, NEW first
    PROVE  LET e == reap_expired(d, TRUE, first)
           IN  e \in Docs /\ Lively(e) /\ Settled(e)
<1> DEFINE n == Len(Created)
           seq == Created
<1>1. PICK f : /\ f[0] = auto_stale_members(d, TRUE, first)
               /\ \A i \in 0..n : f[i] \in Docs
               /\ \A i \in 1..n : f[i] = ReapTicket(f[i - 1], seq[i], TRUE, first)
               /\ reap_expired(d, TRUE, first) = RedispatchedQueue(TRUE, f[n], first)
  BY ZenonT(30), ReapPass
<1>2. n \in Nat /\ (\A i \in 1..n : seq[i] \in Tickets) /\ Tickets = {seq[i] : i \in 1..n}
  BY QueueFacts
<1> HIDE DEF n, seq
<1> DEFINE S == {i \in 0..n : \A j \in 1..i, k \in Kinds : Upright(f[i].tickets[seq[j]], k)}
<1>3. 0 \in S
  BY <1>2
<1>4. ASSUME NEW i \in 1..n, i - 1 \in S PROVE i \in S
  <2> DEFINE e == f[i - 1]
             t == seq[i]
             y == f[i]
  <2>1. /\ i \in 0..n /\ i - 1 \in 0..n /\ e \in Docs /\ t \in Tickets
        /\ \A j \in 1..(i - 1), k \in Kinds : Upright(e.tickets[seq[j]], k)
    BY <1>1, <1>2, <1>4
  <2>2. y = ReapTicket(e, t, TRUE, first)
    BY <1>1
  <2>3. ReapsOne(e, t, y) /\ \A k \in Kinds : Upright(y.tickets[t], k)
    <3> HIDE DEF e, t, y
    <3> QED BY <2>1, <2>2, TicketReaped, ReapTicketUpright
  <2>4. ASSUME NEW j \in 1..i, NEW k \in Kinds PROVE Upright(y.tickets[seq[j]], k)
    <3>1. CASE seq[j] = t
      BY <2>3, <3>1
    <3>2. CASE seq[j] # t
      <4>1. j \in 1..(i - 1) /\ j \in 1..n
        BY <1>2, <3>2
      <4> HIDE DEF e, t, y
      <4> QED BY <1>2, <2>1, <2>3, <3>2, <4>1 DEF ReapsOne
    <3> QED BY <3>1, <3>2
  <2> QED BY <2>1, <2>4
<1>5. n \in S
  <2> HIDE DEF S
  <2> QED BY <1>2, <1>3, <1>4, Climb
<1> DEFINE s == f[n]
<1>6. s \in Docs /\ Lively(s)
  BY <1>1, <1>2, <1>5 DEF Lively
<1>7. reap_expired(d, TRUE, first) = redispatch_queue(s, first)
  BY <1>1 DEF RedispatchedQueue
<1> HIDE DEF s
<1> QED BY <1>6, <1>7, RedispatchSettles

-----------------------------------------------------------------------------
(* What a claim's reap pass leaves alone *)

\* The seats in S are members as before, and are offered what they were.
Lasts(d, e, S) ==
    /\ \A a \in S : e.members[a] = d.members[a]
    /\ \A a \in S, t \in Tickets, k \in Kinds :
         Shows(d.tickets[t], k, a) => Shows(e.tickets[t], k, a)

LEMMA LastsTwice ==
    ASSUME NEW d, NEW e, NEW f, NEW S, Lasts(d, e, S), Lasts(e, f, S)
    PROVE  Lasts(d, f, S)
  BY DEF Lasts

\* One ticket is changed, and its live offers are left.
LEMMA TicketLasts ==
    ASSUME NEW d \in Docs, NEW t \in Tickets, NEW y, NEW S,
           \A k \in Kinds : d.tickets[t].offer[k].live => y.offer[k] = d.tickets[t].offer[k]
    PROVE  Lasts(d, [d EXCEPT !.tickets[t] = y], S)
<1> DEFINE e == [d EXCEPT !.tickets[t] = y]
<1>1. e.members = d.members /\ e.tickets = [d.tickets EXCEPT ![t] = y]
  BY DEF Docs
<1>2. \A u \in Tickets : e.tickets[u] = IF u = t THEN y ELSE d.tickets[u]
  BY <1>1 DEF Docs
<1> HIDE DEF e
<1> QED BY <1>1, <1>2 DEF Lasts, Shows, e

\* Only the seats that go stale lose their offers.
LEMMA RevokeLasts ==
    ASSUME NEW d \in Docs, NEW seats
    PROVE  Lasts(d, revoke_agent_offers(d, seats), Agents \ seats)
<1> DEFINE F(tk) == [tk EXCEPT !.offer["work"]   = RevokeFrom(@, seats),
                               !.offer["review"] = RevokeFrom(@, seats)]
           h == [t \in Tickets |-> IF t \in Tickets THEN F(d.tickets[t]) ELSE d.tickets[t]]
           e == [d EXCEPT !.tickets = h]
<1>1. revoke_agent_offers(d, seats) = e
  <2>1. revoke_agent_offers(d, seats) = [d EXCEPT !.tickets = Tabulated(h)]
    BY DEF revoke_agent_offers, UpdateEach, Docs
  <2> HIDE DEF h
  <2> QED BY <2>1, TabulatedIs
<1>2. ASSUME NEW x \in GoodTickets, NEW k \in Kinds, NEW a \in Agents \ seats, Shows(x, k, a)
      PROVE  Shows(F(x), k, a)
  <2>1. x \in Record /\ x.offer \in [Kinds -> Offer]
    BY DEF GoodTickets, Record
  <2>2. F(x).offer = [[x.offer EXCEPT !["work"] = RevokeFrom(x.offer["work"], seats)]
                        EXCEPT !["review"] = RevokeFrom(x.offer["review"], seats)]
    BY <2>1 DEF Record, Kinds
  <2>3. F(x).offer[k] = RevokeFrom(x.offer[k], seats)
    <3> HIDE DEF F
    <3> QED BY <2>1, <2>2 DEF Kinds
  <2>4. RevokeFrom(x.offer[k], seats) = x.offer[k]
    BY <1>2 DEF RevokeFrom, Shows
  <2> HIDE DEF F
  <2> QED BY <1>2, <2>3, <2>4 DEF Shows
<1>3. e.members = d.members /\ \A t \in Tickets : e.tickets[t] = F(d.tickets[t])
  <2> HIDE DEF F
  <2> QED BY DEF Docs
<1> HIDE DEF F, e
<1> QED BY <1>1, <1>2, <1>3, DocTicket DEF Lasts

LEMMA MakeStaleLasts ==
    ASSUME NEW d \in Docs, NEW stale
    PROVE  Lasts(d, MakeStale(d, stale), Agents \ stale)
<1> DEFINE e == revoke_agent_offers(d, stale)
           m == [a \in Agents |-> IF a \in stale THEN [e.members[a] EXCEPT !.lifecycle = "stale"]
                                                 ELSE e.members[a]]
<1>1. e \in Docs
  BY RevokeSeatsKeep DEF Keeps
<1>2. MakeStale(d, stale) = [e EXCEPT !.members = Tabulated(m)]
  <2>1. e = [tickets |-> e.tickets, members |-> e.members, marked |-> e.marked]
    <3> HIDE DEF e
    <3> QED BY <1>1 DEF Docs
  <2> QED BY <2>1 DEF MakeStale
<1>3. MakeStale(d, stale).members = m /\ MakeStale(d, stale).tickets = e.tickets
  <2> HIDE DEF e, m
  <2> QED BY <1>1, <1>2, TabulatedIs DEF Docs
<1>4. \A a \in Agents \ stale : m[a] = e.members[a]
  <2> HIDE DEF e
  <2> QED OBVIOUS
<1> HIDE DEF e, m
<1>5. Lasts(e, MakeStale(d, stale), Agents \ stale)
  BY <1>3, <1>4 DEF Lasts
<1> QED BY <1>5, RevokeLasts, LastsTwice DEF e

\* An offer that expires is no live one.
LEMMA ExpireLasts ==
    ASSUME NEW d \in Docs, NEW t \in Tickets, NEW k \in Kinds, NEW S,
           ~d.tickets[t].offer[k].live
    PROVE  Lasts(d, [d EXCEPT !.tickets[t] = ExpireOffer(@, k)], S)
<1> DEFINE x == d.tickets[t]
           y == ExpireOffer(x, k)
<1>1. x \in Record /\ x.offer \in [Kinds -> Offer]
  BY DocTicket DEF GoodTickets, Record
<1>2. y.offer = [x.offer EXCEPT ![k] = NoOffer]
  <2> HIDE DEF x
  <2> QED BY <1>1 DEF ExpireOffer, Record
<1>3. [d EXCEPT !.tickets[t] = ExpireOffer(@, k)] = [d EXCEPT !.tickets[t] = y]
  BY DEF Docs
<1>4. \A j \in Kinds : x.offer[j].live => y.offer[j] = x.offer[j]
  <2> HIDE DEF x, y
  <2> QED BY <1>1, <1>2 DEF x
<1> HIDE DEF y
<1> QED BY <1>3, <1>4, TicketLasts

LEMMA ExpireStepLasts ==
    ASSUME NEW d \in Docs, NEW t \in Tickets, NEW k \in Kinds, NEW first, NEW S
    PROVE  Lasts(d, ExpireStep(d, t, k, FALSE, first), S)
  BY ExpireLasts DEF ExpireStep, Redispatched, Lasts

LEMMA ExpireOffersLast ==
    ASSUME NEW d \in Docs, NEW t \in Tickets, NEW first, NEW S
    PROVE  Lasts(d, expire_dispatch_offers(d, t, FALSE, first), S)
<1> DEFINE w == ExpireStep(d, t, "work", FALSE, first)
           r == ExpireStep(w, t, "review", FALSE, first)
<1>1. Lasts(d, w, S) /\ w \in Docs
  BY ExpireStepTends, ExpireStepLasts DEF Tends, Kinds
<1>2. Lasts(w, r, S)
  <2> HIDE DEF w
  <2> QED BY <1>1, ExpireStepLasts DEF Kinds
<1>3. expire_dispatch_offers(d, t, FALSE, first) = r
  BY ExpireOffersAre
<1> HIDE DEF w, r
<1> QED BY <1>1, <1>2, <1>3, LastsTwice

\* A ticket that loses a lease keeps its offers.
LEMMA ReapTicketLasts ==
    ASSUME NEW d \in Docs, NEW t \in Tickets, NEW first, NEW S
    PROVE  Lasts(d, ReapTicket(d, t, FALSE, first), S)
<1> DEFINE r == reconcile_inactive_work_ownership(d, t)
           o == expire_dispatch_offers(r, t, FALSE, first)
           v == ReapReviewLease(o, t, FALSE, first)
           w == ReapWorkLease(v, t, FALSE, first)
<1>1. r \in Docs
  BY ReconcileTends DEF Tends
<1>2. o \in Docs
  <2> HIDE DEF r
  <2> QED BY <1>1, ExpireOffersTend DEF Tends
<1>3. v \in Docs
  <2> HIDE DEF o
  <2> QED BY <1>2, ReviewReaped
<1>4. Lasts(d, r, S)
  <2> DEFINE x == d.tickets[t]
  <2>1. [d EXCEPT !.tickets[t] = WithoutWorkLease(@)] = [d EXCEPT !.tickets[t] = WithoutWorkLease(x)]
    BY DEF Docs
  <2>2. WithoutWorkLease(x).offer = x.offer
    BY DocTicket DEF WithoutWorkLease, GoodTickets, Record
  <2>3. Lasts(d, [d EXCEPT !.tickets[t] = WithoutWorkLease(x)], S)
    BY <2>2, TicketLasts
  <2> QED BY <2>1, <2>3 DEF reconcile_inactive_work_ownership, Lasts
<1>5. Lasts(r, o, S)
  <2> HIDE DEF r
  <2> QED BY <1>1, ExpireOffersLast
<1>6. Lasts(o, v, S)
  <2> HIDE DEF o
  <2> DEFINE x == o.tickets[t]
             y == [x EXCEPT !.reviewer = NoAgent, !.review_lease = "none"]
  <2>1. [o EXCEPT !.tickets[t].reviewer = NoAgent, !.tickets[t].review_lease = "none"]
          = [o EXCEPT !.tickets[t] = y]
    BY <1>2 DEF Docs
  <2>2. y.offer = x.offer
    BY <1>2, DocTicket DEF GoodTickets, Record
  <2> HIDE DEF y
  <2>3. Lasts(o, [o EXCEPT !.tickets[t] = y], S)
    BY <1>2, <2>2, TicketLasts
  <2> QED BY <2>1, <2>3 DEF ReapReviewLease, Redispatched, Lasts
<1>7. Lasts(v, w, S)
  <2> HIDE DEF v
  <2> DEFINE x == v.tickets[t]
             y == [WithoutWorkLease(x) EXCEPT !.status = "open", !.for_human = FALSE]
  <2>1. [v EXCEPT !.tickets[t] =
           [WithoutWorkLease(@) EXCEPT !.status = "open", !.for_human = FALSE]]
          = [v EXCEPT !.tickets[t] = y]
    BY <1>3 DEF Docs
  <2>2. y.offer = x.offer
    BY <1>3, DocTicket DEF WithoutWorkLease, GoodTickets, Record
  <2> HIDE DEF y
  <2>3. Lasts(v, [v EXCEPT !.tickets[t] = y], S)
    BY <1>3, <2>2, TicketLasts
  <2> QED BY <2>1, <2>3 DEF ReapWorkLease, Redispatched, Lasts
<1>8. ReapTicket(d, t, FALSE, first) = w
  BY DEF ReapTicket
<1> HIDE DEF r, o, v, w
<1> QED BY <1>4, <1>5, <1>6, <1>7, <1>8, LastsTwice

\* A claim's reap pass redispatches nothing: a seat that does not go stale keeps
\* its offers.
LEMMA ReapLasts ==
    ASSUME NEW d \in Docs, NEW first
    PROVE  Lasts(d, reap_expired(d, FALSE, first), {a \in Agents : ~d.members[a].idle})
<1> DEFINE stale == {a \in Agents : /\ d.members[a].lifecycle = "active"
                                    /\ d.members[a].idle
                                    /\ ~member_has_live_lease(d, a)}
           S == {a \in Agents : ~d.members[a].idle}
           d0 == MakeStale(d, stale)
<1>1. auto_stale_members(d, FALSE, first) = d0
  BY DEF auto_stale_members, MakeStaleAndDispatch
<1>2. d0 \in Docs /\ Lasts(d, d0, S)
  <2>1. S \subseteq Agents \ stale
    OBVIOUS
  <2> HIDE DEF S, stale
  <2> QED BY <2>1, MakeStaleKeeps, MakeStaleLasts DEF Keeps, Lasts
<1> HIDE DEF d0, S
<1> DEFINE n == Len(Created)
           X == {e \in Docs : Lasts(d, e, S)}
<1>3. PICK f : /\ f[0] = auto_stale_members(d, FALSE, first)
               /\ \A i \in 0..n : f[i] \in Docs
               /\ \A i \in 1..n : f[i] = ReapTicket(f[i - 1], Created[i], FALSE, first)
               /\ reap_expired(d, FALSE, first) = RedispatchedQueue(FALSE, f[n], first)
  BY ZenonT(30), ReapPass
<1>4. n \in Nat /\ \A i \in 1..n : Created[i] \in Tickets
  BY QueueFacts
<1> HIDE DEF n
<1>5. ASSUME NEW i \in 1..n, f[i - 1] \in X PROVE f[i] \in X
  <2>1. i - 1 \in 0..n /\ i \in 0..n /\ f[i - 1] \in Docs /\ Lasts(d, f[i - 1], S)
    BY <1>4, <1>5
  <2>2. Lasts(f[i - 1], f[i], S) /\ f[i] \in Docs
    BY <1>3, <1>4, <2>1, ReapTicketLasts
  <2> QED BY <2>1, <2>2, LastsTwice
<1>6. f[n] \in X
  <2>1. f[0] \in X
    BY <1>1, <1>2, <1>3
  <2> HIDE DEF X
  <2> QED BY <1>4, <1>5, <2>1, PassStays
<1> QED BY <1>3, <1>6 DEF RedispatchedQueue, S

-----------------------------------------------------------------------------
(* The theorems *)

\* Every document that the calls leave behind is well typed: no ticket has
\* counted more than Fallback expired offers or missed pins, and no mark of a
\* call is saved.
THEOREM TypeCorrect == Spec => []TypeOK
<1>1. ASSUME IInv, NEW t \in Tickets PROVE TicketType(board.tickets[t])
  <2> DEFINE x == board.tickets[t]
  <2>1. x \in Record
    BY <1>1, DocTicket DEF IInv, GoodTickets
  <2> HIDE DEF x
  <2>2. TicketType(x)
    BY <2>1 DEF TicketType, Record
  <2> QED BY <2>2 DEF x
<1>2. IInv => TypeOK
  BY <1>1 DEF TypeOK, IInv, Docs, Member
<1> QED BY <1>2, Invariant, PTL

\* An offer that its seat can still see was never refused by that seat in the
\* same cycle, and goes to the seat the ticket is pinned to.
THEOREM OffersAreRight == Spec => []OffersGoToTheRightSeat
<1>1. ASSUME IInv, NEW t \in Tickets, NEW k \in Kinds PROVE Offering(board.tickets[t], k)
  BY <1>1, DocTicket DEF IInv, GoodTickets, Good
<1>2. IInv => OffersGoToTheRightSeat
  BY <1>1 DEF OffersGoToTheRightSeat, Offering
<1> QED BY <1>2, Invariant, PTL

\* A seat that takes part in dispatch never has two jobs: not two leases, nor an
\* offer beside a lease or another offer, on one ticket or on two.
THEOREM OneJob == Spec => []OneJobPerSeat
<1>1. ASSUME IInv, NEW a \in Plain, NEW i \in JobsOf(a), NEW j \in JobsOf(a)
      PROVE  i = j
  <2>1. ASSUME NEW q \in JobsOf(a)
        PROVE  /\ q \in Tickets \X Kinds \X {"lease", "offer"} /\ Job(board.tickets[q[1]], a)
               /\ \/ q[2] = "work" /\ q[3] = "lease" /\ Working(board.tickets[q[1]], a)
                  \/ q[2] = "review" /\ q[3] = "lease" /\ Reviewing(board.tickets[q[1]], a)
                  \/ q[3] = "offer" /\ Shows(board.tickets[q[1]], q[2], a)
    BY <2>1 DEF JobsOf, Occupies, Job, Working, Reviewing, Shows
  <2>2. /\ i \in Tickets \X Kinds \X {"lease", "offer"}
        /\ j \in Tickets \X Kinds \X {"lease", "offer"}
        /\ i[1] = j[1]
    BY <1>1, <2>1 DEF IInv, Seated, Separate, Apart
  <2> DEFINE x == board.tickets[i[1]]
  <2>3. /\ Shows(x, "work", a) => x.status = "open" \/ (PreSubmission(x) /\ x.claimed_by # a)
        /\ Shows(x, "review", a) => x.status = "submitted" /\ ~Reviewing(x, a)
    BY <1>1, <2>2 DEF IInv, Seated, Placed, Stands, Kinds
  <2>4. i[2] = j[2] /\ i[3] = j[3]
    <3>1. /\ \/ i[2] = "work" /\ i[3] = "lease" /\ Working(x, a)
             \/ i[2] = "review" /\ i[3] = "lease" /\ Reviewing(x, a)
             \/ i[3] = "offer" /\ Shows(x, i[2], a)
          /\ \/ j[2] = "work" /\ j[3] = "lease" /\ Working(x, a)
             \/ j[2] = "review" /\ j[3] = "lease" /\ Reviewing(x, a)
             \/ j[3] = "offer" /\ Shows(x, j[2], a)
      BY <1>1, <2>1, <2>2
    <3>2. i[2] \in {"work", "review"} /\ j[2] \in {"work", "review"}
      BY <2>2 DEF Kinds
    <3> HIDE DEF x
    <3> QED BY <2>3, <3>1, <3>2
            DEF Working, Reviewing, PreSubmission, PRE_SUBMISSION_STATES
  <2> QED BY <2>2, <2>4
<1>2. ASSUME IInv, NEW a \in Plain PROVE Cardinality(JobsOf(a)) <= 1
  <2>1. CASE JobsOf(a) = {}
    BY <2>1, FS_EmptySet
  <2>2. CASE JobsOf(a) # {}
    <3>1. PICK j \in JobsOf(a) : TRUE
      BY <2>2
    <3>2. JobsOf(a) = {j}
      BY <1>1, <1>2
    <3> QED BY <3>2, FS_Singleton
  <2> QED BY <2>1, <2>2
<1>3. IInv => OneJobPerSeat
  BY <1>2 DEF OneJobPerSeat, Plain
<1> QED BY <1>3, Invariant, PTL

\* One pass of the reaper heals whatever the calls, the hand-offs and the passing of
\* time left behind: afterwards no offer is invalid, no seat has two, and no ticket
\* that could be offered waits beside a seat that it was not tried on and that could
\* take it.
THEOREM ReaperAlwaysSettles == Spec => ReaperSettles
<1>1. ASSUME IInv, NEW first, check_and_reap_expired(first) PROVE Settled(board')
  <2> DEFINE d == Reaped(first)
             q == RedispatchIfEnabled(d, first)
             p == [q EXCEPT !.marked = {}]
  <2>1. d \in Docs /\ Lively(d) /\ Settled(d)
    BY <1>1, ReapSettles DEF Reaped, IInv
  <2>2. board' = p
    BY <1>1 DEF check_and_reap_expired, ReaperPass, Commit
  <2> HIDE DEF d
  <2>3. q \in Docs /\ Settled(q)
    BY <2>1, RedispatchSettles DEF RedispatchIfEnabled
  <2> HIDE DEF q
  <2>4. p.tickets = q.tickets /\ p.members = q.members
    BY <2>3 DEF Docs
  <2> HIDE DEF p
  <2>5. ASSUME NEW t \in Tickets, NEW k \in Kinds
        PROVE  /\ invalid_dispatch_offer(p, t, k) = invalid_dispatch_offer(q, t, k)
               /\ Dispatchable(p, t, k) = Dispatchable(q, t, k)
    BY <2>4 DEF invalid_dispatch_offer, dispatch_member_matches_requirements,
                agent_has_live_lease_elsewhere, Dispatchable, dispatch_enabled
  <2>6. ASSUME NEW t \in Tickets, NEW k \in Kinds, NEW a \in Agents
        PROVE  dispatch_candidate_is_eligible(p, t, a, k)
                 = dispatch_candidate_is_eligible(q, t, a, k)
    BY <2>4 DEF dispatch_candidate_is_eligible, dispatch_member_matches_requirements,
                agent_is_busy
  <2>7. Settled(p)
    BY <2>3, <2>4, <2>5, <2>6 DEF Settled
  <2> QED BY <2>2, <2>7
<1>2. IInv /\ [Next]_vars => [Reaper => Settled(board')]_vars
  BY <1>1 DEF Reaper
<1> QED BY <1>2, Invariant, PTL DEF Spec, ReaperSettles

\* A claim of the offer passes the claim gate.
Takeable(d, t, k, a) ==
    /\ d.tickets[t].status = WantedStatus(k) /\ ~d.tickets[t].parked
    /\ dispatch_candidate_is_eligible(d, t, a, k)
    /\ d.tickets[t].offer[k].agent = a

\* An offer that its seat can still see is worth something: while the seat is active,
\* ready and reachable, the claim gate, after its own reap pass, finds the ticket
\* waiting for that kind of work and the seat eligible for it.
THEOREM OffersCanBeTaken == Spec => []OfferCanBeTaken
<1>1. ASSUME IInv, NEW t \in Tickets, NEW k \in Kinds, NEW a \in Agents \ Operators,
             Shows(board.tickets[t], k, a), IsActive(board, a),
             ~board.members[a].idle, board.members[a].ready, board.members[a].live,
             NEW first
      PROVE  Takeable(reap_expired(board, FALSE, first), t, k, a)
  <2> DEFINE d == reap_expired(board, FALSE, first)
             x == d.tickets[t]
  <2>1. Reaps(board, d) /\ Lasts(board, d, {b \in Agents : ~board.members[b].idle})
    BY <1>1, ReapEnds, ReapLasts DEF IInv
  <2> HIDE DEF d
  <2>2. d \in Docs /\ Seated(d)
    BY <1>1, <2>1, ReapsAdvance DEF Reaps, Advances
  <2>3. Shows(x, k, a) /\ d.members[a] = board.members[a] /\ a \in Agents
    BY <1>1, <2>1 DEF Lasts
  <2>4. Offering(x, k)
    BY <2>2, DocTicket DEF GoodTickets, Good
  <2>5. a \in Able(k) /\ (k = "work" => x.assigned_to \in {NoAgent, a})
    <3> HIDE DEF x
    <3> QED BY <2>3, <2>4 DEF Offering, Shows
  <2>6. a \in Plain /\ a \in Present(d)
    BY <1>1, <2>3, <2>5 DEF Able, Plain, Present, IsActive
  <2>7. Stands(x, k, a, Present(d))
    BY <2>2, <2>3, <2>6 DEF Seated, Placed
  <2>8. x.status = WantedStatus(k) /\ ~x.parked /\ (k = "review" => Independent(x, a))
    <3> HIDE DEF x
    <3> QED BY <2>6, <2>7 DEF Stands, WantedStatus, Kinds
  <2>9. ~agent_is_busy(d, a, t)
    <3> SUFFICES ASSUME NEW u \in Tickets \ {t},
                        Engages(d.tickets[u], a) \/ \E j \in Kinds : Shows(d.tickets[u], j, a)
                 PROVE  FALSE
      BY DEF agent_is_busy, Engages, Shows
    <3>1. ~Engages(d.tickets[u], a)
      BY <2>2, <2>3, <2>6 DEF Seated, Separate, Unencumbered, Clear
    <3>2. Job(d.tickets[u], a) /\ Job(d.tickets[t], a)
      BY <2>3, <3>1 DEF Job
    <3> QED BY <2>2, <2>6, <3>2 DEF Seated, Separate, Apart
  <2>10. dispatch_member_matches_requirements(d, t, a, k)
    BY <1>1, <2>3, <2>5, <2>8
       DEF dispatch_member_matches_requirements, Able, IsActive, Kinds
  <2> QED BY <1>1, <2>3, <2>8, <2>9, <2>10 DEF dispatch_candidate_is_eligible, Shows, Takeable, d
<1>2. ASSUME IInv, NEW t \in Tickets, NEW k \in Kinds, NEW a \in Agents \ Operators,
             Shows(board.tickets[t], k, a), IsActive(board, a),
             ~board.members[a].idle, board.members[a].ready, board.members[a].live
      PROVE  Takeable(reap_expired(board, FALSE, [u \in Tickets |-> a]), t, k, a)
  BY <1>1, <1>2
<1>3. ASSUME IInv PROVE OfferCanBeTaken
  <2> DEFINE d(a) == reap_expired(board, FALSE, [u \in Tickets |-> a])
  <2>1. ASSUME NEW t \in Tickets, NEW k \in Kinds, NEW a \in Agents \ Operators,
               board.tickets[t].offer[k].agent = a, board.tickets[t].offer[k].live,
               IsActive(board, a), ~board.members[a].idle, board.members[a].ready,
               board.members[a].live
        PROVE  /\ d(a).tickets[t].status = WantedStatus(k)
               /\ ~d(a).tickets[t].parked
               /\ dispatch_candidate_is_eligible(d(a), t, a, k)
               /\ d(a).tickets[t].offer[k].agent = a
    <3>1. Shows(board.tickets[t], k, a)
      BY <2>1 DEF Shows
    <3>2. Takeable(d(a), t, k, a)
      BY <1>2, <1>3, <2>1, <3>1
    <3> HIDE DEF d
    <3> QED BY <3>2 DEF Takeable
  <2> HIDE DEF d
  <2> QED BY ZenonT(30), <2>1 DEF OfferCanBeTaken, d
<1> QED BY <1>3, Invariant, PTL

\* Every handler, with its reap pass, early returns and redispatches, implements
\* the promise of TicketLease: no call passes a live lease on, renews or accepts
\* work under a lapsed one, or lets an author judge.
THEOREM Implements == Spec => ImplementsTicketLease
<1> DEFINE owners == [t \in Tickets |-> Ownership(board.tickets[t])]
<1>1. Init => Promise!Init
  <2>1. Ownership(NoTicket) = Promise!Unheld("missing")
    BY UnheldIs DEF NoTicket
  <2> QED BY <2>1 DEF Init, EmptyBoard, Promise!Init
<1>2. IInv /\ [Next]_vars => [Promise!Next]_owners
  <2> SUFFICES ASSUME IInv, [Next]_vars PROVE [Promise!Next]_owners
    OBVIOUS
  <2>1. CASE Next
    <3>1. \A t \in Tickets : owners'[t] \in Promise!Moves(owners[t])
      BY <2>1, NextSteps DEF Steps, Moved
    <3>2. owners' \in [Tickets -> UNION {Promise!Moves(owners[t]) : t \in Tickets}]
      BY <3>1
    <3> QED BY <3>1, <3>2 DEF Promise!Next
  <2>2. CASE UNCHANGED vars
    BY <2>2 DEF vars
  <2> QED BY <2>1, <2>2
<1> QED BY <1>1, <1>2, Invariant, PTL DEF Spec, ImplementsTicketLease, Promise!Spec

-----------------------------------------------------------------------------
(* What the promise is worth on the board *)

Owners == INSTANCE TicketLeaseProofs
            WITH MayReview <- ReviewPolicy,
                 ticket <- [t \in Tickets |-> Ownership(board.tickets[t])]

\* The policy of the board is one that TicketLease is proved for: nobody may
\* review itself.
LEMMA PolicyFacts ==
    /\ NoAgent \notin Agents
    /\ ReviewPolicy \subseteq (Agents \X Agents)
    /\ \A a \in Agents : <<a, a>> \notin ReviewPolicy
  BY DispatchAssumption DEF ReviewPolicy

\* The promise is the specification that TicketLeaseProofs is about.
LEMMA SameMoves == ASSUME NEW x PROVE Promise!Moves(x) = Owners!Moves(x)
  BY DEF Promise!Moves, Promise!Create, Promise!Claim, Promise!Start, Promise!Lapse,
     Promise!Release, Promise!Submit, Promise!Judges, Promise!ReviewClaim,
     Promise!ReviewLapse, Promise!ReviewEnd, Promise!Approve, Promise!Reject,
     Promise!Cancel, Promise!AskHuman, Promise!Resolve, Promise!Working,
     Promise!Terminal, Promise!Unheld, Promise!If,
     Owners!Moves, Owners!Create, Owners!Claim, Owners!Start, Owners!Lapse,
     Owners!Release, Owners!Submit, Owners!Judges, Owners!ReviewClaim,
     Owners!ReviewLapse, Owners!ReviewEnd, Owners!Approve, Owners!Reject,
     Owners!Cancel, Owners!AskHuman, Owners!Resolve, Owners!Working,
     Owners!Terminal, Owners!Unheld, Owners!If

LEMMA OwnersFollow == Spec => Owners!Spec
<1>1. Promise!Init => Owners!Init
  BY DEF Promise!Init, Owners!Init, Promise!Unheld, Owners!Unheld
<1>2. Promise!Next => Owners!Next
  BY SameMoves DEF Promise!Next, Owners!Next
<1> QED
  BY <1>1, <1>2, Implements, PTL DEF ImplementsTicketLease, Owners!Spec, Promise!Spec

\* On the board, with its reaps and redispatches, the holder of a live lease
\* keeps the ticket until it ends the lease, and only the holder becomes the
\* author of what is submitted.
THEOREM BoardNeverTakesOver == Spec => Owners!NoTakeover
  BY OwnersFollow, Owners!NeverTakenOver, PolicyFacts, PTL

\* A lapsed lease is never renewed and never ends in a submission, whichever of
\* the holder's call and the reaper comes first.
THEOREM BoardLapsedStaysLost == Spec => Owners!LapsedIsLost
  BY OwnersFollow, Owners!LapsedStaysLost, PolicyFacts, PTL

\* Nobody reviews or approves its own work, however claims, verdicts, expiries
\* and reassignments interleave.
THEOREM BoardReviewsIndependently == Spec => []Owners!ReviewedIndependently
  BY OwnersFollow, Owners!AlwaysReviewedIndependently, PolicyFacts, PTL

=============================================================================
