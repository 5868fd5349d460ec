------------------------------ MODULE Dispatch ------------------------------
(***************************************************************************)
(* The dispatch engine of Central (central.py): what the board document    *)
(* says of tickets, leases, offers and seats, which seat may be offered a  *)
(* ticket, and the passes that every board call makes over the document    *)
(* (reconcile, expire, reap, redispatch).                                  *)
(*                                                                         *)
(* The code mutates one document inside a store transaction, so the        *)
(* engine is written here as operators from documents to documents; the    *)
(* handlers of module Board compose them.                                  *)
(*                                                                         *)
(* Clocks are abstracted to what the code asks of them: a lease or an      *)
(* offer is live or lapsed, a broadcast is due for a new round or not.     *)
(* The candidate sort (listener, preference, tier, least recently offered, *)
(* ...) is abstracted to its result: `first` names, for each ticket, the   *)
(* seat the sort puts first.                                               *)
(***************************************************************************)
EXTENDS Naturals, Sequences, FiniteSets

CONSTANTS
    Agents,         \* the seats of the board
    NoAgent,        \* no seat
    Principal,      \* the principal each seat authenticates as
    Admins,         \* seats whose principal is a board admin
    Coordinators,   \* seats with board:coordinate and without board:write
    Workers,        \* seats with can_work
    Reviewers,      \* seats that may review (capability, role and scope)
    Explicit,       \* seats that declared their capabilities
    Strict,         \* the review policy is "strict"
    Fallback,       \* DEFAULT_FALLBACK_AFTER_OFFERS
    Created,        \* the tickets, in the order they are created
    Queue           \* the same tickets, in priority order

SeqRange(s) == {s[i] : i \in DOMAIN s}
Tickets == SeqRange(Created)

ASSUME DispatchAssumption ==
    /\ NoAgent \notin Agents
    /\ DOMAIN Principal = Agents
    /\ Admins \cup Coordinators \cup Workers \cup Reviewers \cup Explicit
         \subseteq Agents
    /\ Strict \in BOOLEAN
    /\ Fallback \in Nat \ {0}
    /\ {Created, Queue} \subseteq Seq(Tickets)
    /\ SeqRange(Queue) = Tickets
    /\ Len(Queue) = Len(Created)
    /\ Cardinality(Tickets) = Len(Created)

-----------------------------------------------------------------------------
(* The document *)

Kinds == {"work", "review"}
(* "creating_report" and "terminated" are never set by any call. *)
PRE_SUBMISSION_STATES == {"claimed", "in_progress"}
TERMINAL_TICKET_STATES == {"closed", "rejected", "canceled"}
Statuses == {"missing", "open", "submitted", "needs_human"}
              \cup PRE_SUBMISSION_STATES \cup TERMINAL_TICKET_STATES
Lifecycles == {"active", "stale", "retired", "handed_off"}
Leases == {"none", "live", "lapsed"}
Someone == Agents \cup {NoAgent}

(* `current` is FALSE once a new dispatch cycle has begun under the offer. *)
NoOffer == [agent |-> NoAgent, live |-> FALSE, current |-> TRUE]

(* What the handlers read of a ticket.  `tried` are the seats whose offer   *)
(* expired in the current dispatch cycle (from dispatch_history), `parked`  *)
(* the owner's hold, `asked` who waits for a human, `for_human` whether the *)
(* last release was for a human's answer.                                   *)
NoTicket ==
    [status |-> "missing", claimed_by |-> NoAgent, lease |-> "none",
     submitted_by |-> NoAgent, reviewer |-> NoAgent, review_lease |-> "none",
     offer |-> [k \in Kinds |-> NoOffer], expirations |-> [k \in Kinds |-> 0],
     tried |-> [k \in Kinds |-> {}], broadcast |-> "no",
     last_claimed_by |-> NoAgent, last_offered |-> [k \in Kinds |-> NoAgent],
     reviewed_by |-> NoAgent, last_review_released_by |-> NoAgent,
     assigned_to |-> NoAgent, pin_misses |-> 0, parked |-> FALSE,
     asked |-> NoAgent, for_human |-> FALSE]

(* `marked` are the tickets whose pinned seat was already counted as        *)
(* unavailable at this call's time; it is empty between calls.              *)
EmptyBoard ==
    [tickets |-> [t \in Tickets |-> NoTicket],
     members |-> [a \in Agents |->
                    [lifecycle |-> "active", idle |-> FALSE,
                     ready |-> TRUE, live |-> TRUE]],
     marked |-> {}]

(* The function f itself; the comparison makes TLC tabulate it. *)
Tabulated(f) == CHOOSE g \in {f} : g = f

(* The document after F was applied to each of the given tickets. *)
UpdateEach(d, given, F(_)) ==
    [d EXCEPT !.tickets =
       Tabulated([t \in Tickets |-> IF t \in given THEN F(@[t]) ELSE @[t]])]

(* The document after Step was taken for each element of a sequence. *)
Along(Step(_, _), d, seq) ==
    LET after[i \in 0..Len(seq)] ==
          IF i = 0 THEN d ELSE Step(after[i - 1], seq[i])
    IN  after[Len(seq)]

WantedStatus(k) == IF k = "work" THEN "open" ELSE "submitted"
KindOf(tk) == IF tk.status = "open" THEN "work" ELSE "review"

PreSubmission(tk) == tk.status \in PRE_SUBMISSION_STATES
Offered(tk, k) == tk.offer[k].agent # NoAgent
ReviewLeaseIsLive(tk) == tk.review_lease = "live"

-----------------------------------------------------------------------------
(* Ownership left on a ticket that is not being worked on *)

Inactive(tk) == tk.status \in TERMINAL_TICKET_STATES \cup {"needs_human", "open"}
HasLeaseFields(tk) == tk.claimed_by # NoAgent \/ tk.lease # "none"

(* inactive_lifecycle_has_ambiguous_live_lease, with the expiry of a review *)
(* lease (review_lease_expiration_is_ambiguous) that is well formed.        *)
AmbiguousLiveLease(tk) == tk.lease = "live" \/ tk.review_lease = "live"

work_ownership_needs_reconcile(tk) ==
    Inactive(tk) /\ HasLeaseFields(tk) /\ ~AmbiguousLiveLease(tk)

inactive_work_ownership_is_ambiguous(tk) ==
    Inactive(tk) /\ HasLeaseFields(tk) /\ AmbiguousLiveLease(tk)

(* The ticket without its work lease; a holder becomes the last claimer. *)
WithoutWorkLease(tk) ==
    [tk EXCEPT !.last_claimed_by = IF tk.claimed_by # NoAgent
                                     THEN tk.claimed_by ELSE @,
               !.claimed_by = NoAgent,
               !.lease = "none"]

reconcile_inactive_work_ownership(d, t) ==
    IF work_ownership_needs_reconcile(d.tickets[t])
      THEN [d EXCEPT !.tickets[t] = WithoutWorkLease(@)]
      ELSE d

(* Who holds a work lease on the ticket, as the busy checks see it. *)
Holds(tk, a) ==
    /\ tk.claimed_by = a
    /\ PreSubmission(tk) \/ inactive_work_ownership_is_ambiguous(tk)

(* The leases that keep a seat from going stale or being offered work: a    *)
(* work lease that has not lapsed, or a live review lease under review.     *)
HasLiveLeaseOn(tk, a) ==
    \/ Holds(tk, a) /\ tk.lease # "lapsed"
    \/ tk.status = "submitted" /\ tk.reviewer = a /\ ReviewLeaseIsLive(tk)

member_has_live_lease(d, a) ==
    \E t \in Tickets : HasLiveLeaseOn(d.tickets[t], a)

agent_has_live_lease_elsewhere(d, a, t) ==
    \E u \in Tickets \ {t} : HasLiveLeaseOn(d.tickets[u], a)

(* Mutant of agent_is_busy: offers do not count. *)
BusyWithLeases(d, a, t) ==
    \E u \in Tickets \ {t} :
        \/ Holds(d.tickets[u], a)
        \/ d.tickets[u].reviewer = a /\ ReviewLeaseIsLive(d.tickets[u])

(* agent_is_busy is stricter: a lapsed work lease that nobody has reaped,   *)
(* a review lease whatever the status, and an offer all count.              *)
agent_is_busy(d, a, t) ==
    \E u \in Tickets \ {t} :
        LET tk == d.tickets[u]
        IN  \/ Holds(tk, a)
            \/ tk.reviewer = a /\ ReviewLeaseIsLive(tk)
            \/ \E k \in Kinds : tk.offer[k].agent = a /\ tk.offer[k].live

-----------------------------------------------------------------------------
(* Who may be offered a ticket *)

dispatch_enabled(d) ==
    \E a \in Explicit : d.members[a].lifecycle = "active"

(* claim_gate_bypass *)
Operators == Admins \cup Coordinators

(* Mutant of Independent: only the author itself is excluded. *)
IndependentByName(tk, a) == tk.submitted_by # NoAgent /\ a # tk.submitted_by

(* validate_review_independence *)
Independent(tk, a) ==
    /\ tk.submitted_by # NoAgent
    /\ a # tk.submitted_by
    /\ Strict => Principal[a] # Principal[tk.submitted_by]

dispatch_member_matches_requirements(d, t, a, k) ==
    /\ d.members[a].lifecycle = "active"
    /\ k = "work" => d.tickets[t].assigned_to \in {NoAgent, a}
    /\ a \in Explicit
    /\ k = "work" => a \in Workers
    /\ k = "review" => a \in Reviewers /\ Independent(d.tickets[t], a)

dispatch_candidate_is_eligible(d, t, a, k) ==
    /\ dispatch_member_matches_requirements(d, t, a, k)
    /\ d.members[a].ready
    /\ ~agent_is_busy(d, a, t)
    /\ d.members[a].live

-----------------------------------------------------------------------------
(* Revoking offers *)

Revoke(tk, k) == [tk EXCEPT !.offer[k] = NoOffer]

invalid_dispatch_offer(d, t, k) ==
    LET tk == d.tickets[t]
        a  == tk.offer[k].agent
    IN  \/ tk.status # WantedStatus(k)
        \/ tk.parked
        \/ ~dispatch_member_matches_requirements(d, t, a, k)
        \/ ~d.members[a].ready
        \/ k = "work" /\ inactive_work_ownership_is_ambiguous(tk)
        \/ k = "review" /\ ReviewLeaseIsLive(tk)
        \/ agent_has_live_lease_elsewhere(d, a, t)

(* Both offers of each ticket, in the order of the tickets. *)
Slots(tickets) ==
    [i \in 1..2 * Len(tickets) |->
       <<tickets[(i + 1) \div 2], IF i % 2 = 1 THEN "work" ELSE "review">>]

OfferSlots == Slots(Queue)

(* The first pass: each offer is dropped when it is invalid or when an      *)
(* earlier ticket of the queue has already reserved its seat.               *)
KeepOrRevokeOffer(s, d, t, k, a) ==
    IF a = NoAgent
      THEN [s EXCEPT !.doc = d]
      ELSE IF invalid_dispatch_offer(d, t, k) \/ a \in s.reserved
             THEN [doc |-> [d EXCEPT !.tickets[t] = Revoke(@, k)],
                   reserved |-> s.reserved, revoked |-> TRUE]
             ELSE [s EXCEPT !.doc = d, !.reserved = @ \cup {a}]

KeepOrRevoke(s, slot) ==
    KeepOrRevokeOffer(s, reconcile_inactive_work_ownership(s.doc, slot[1]),
                      slot[1], slot[2],
                      s.doc.tickets[slot[1]].offer[slot[2]].agent)

EndBroadcast(tk) == [tk EXCEPT !.broadcast = "no"]

(* A revoked offer ends every broadcast, so that the freed seat is used. *)
EndBroadcasts(s) ==
    IF ~s.revoked THEN s.doc
    ELSE UpdateEach(s.doc,
                    {t \in Tickets : /\ ~s.doc.tickets[t].parked
                                     /\ s.doc.tickets[t].status
                                          \in {"open", "submitted"}},
                    EndBroadcast)

(* Mutant of reconcile_invalid_dispatch_offers: nothing is revoked. *)
ReconcileNothing(d) == d

reconcile_invalid_dispatch_offers(d) ==
    EndBroadcasts(Along(KeepOrRevoke,
                        [doc |-> d, reserved |-> {}, revoked |-> FALSE],
                        OfferSlots))

(* The reaper's question: would the pass above change anything? *)
invalid_dispatch_offers_exist(d) ==
    \/ \E t \in Tickets :
         \/ work_ownership_needs_reconcile(d.tickets[t])
         \/ inactive_work_ownership_is_ambiguous(d.tickets[t])
         \/ \E k \in Kinds : Offered(d.tickets[t], k)
                               /\ invalid_dispatch_offer(d, t, k)
    \/ \E i, j \in DOMAIN OfferSlots :
         /\ i # j
         /\ LET x == d.tickets[OfferSlots[i][1]].offer[OfferSlots[i][2]].agent
                y == d.tickets[OfferSlots[j][1]].offer[OfferSlots[j][2]].agent
            IN  x = y /\ x # NoAgent

RevokeReview(tk) == Revoke(tk, "review")

retire_nonreviewable_review_offers(d) ==
    UpdateEach(d, {t \in Tickets : d.tickets[t].status # "submitted"}, RevokeReview)

RevokeFrom(o, seats) == IF o.agent \in seats THEN NoOffer ELSE o

revoke_agent_offers(d, seats) ==
    LET WithoutTheirs(tk) ==
          [tk EXCEPT !.offer["work"]   = RevokeFrom(@, seats),
                     !.offer["review"] = RevokeFrom(@, seats)]
    IN  UpdateEach(d, Tickets, WithoutTheirs)

-----------------------------------------------------------------------------
(* Offering a ticket *)

SetBroadcast(d, t, b) == [d EXCEPT !.tickets[t].broadcast = b]

(* A new dispatch cycle: every seat may be tried again. *)
NewCycle(tk, k) ==
    [tk EXCEPT !.tried[k] = {}, !.expirations[k] = 0,
               !.offer[k].current = (tk.offer[k] = NoOffer)]

(* release_assignment_pin, and the reset of the expirations at its callers. *)
release_assignment_pin(d, t) ==
    [d EXCEPT !.tickets[t] =
       NewCycle([@ EXCEPT !.assigned_to = NoAgent, !.pin_misses = 0], "work")]

(* The seat a new offer should not go to when there is another one. *)
Or(a, b) == IF a # NoAgent THEN a ELSE b
Avoid(tk, k) ==
    IF k = "work"
      THEN Or(tk.last_claimed_by, tk.last_offered["work"])
      ELSE Or(tk.reviewed_by,
              Or(tk.last_review_released_by, tk.last_offered["review"]))

(* ... unless it is the seat the caller prefers. *)
WithoutAvoided(all, avoid, preferred) ==
    IF all \ {avoid} # {} /\ preferred \notin all THEN all \ {avoid} ELSE all

Candidates(d, t, k, preferred) ==
    WithoutAvoided({a \in Agents \ d.tickets[t].tried[k] :
                      dispatch_candidate_is_eligible(d, t, a, k)},
                   Avoid(d.tickets[t], k), preferred)

(* The head of the sorted candidates. *)
Selected(candidates, preferred, first) ==
    IF preferred \in candidates
      THEN preferred
      ELSE IF first \in candidates THEN first
             ELSE CHOOSE a \in candidates : TRUE

NewOffer(tk, k, a) ==
    [tk EXCEPT !.offer[k] = [agent |-> a, live |-> TRUE, current |-> TRUE],
               !.broadcast = "no",
               !.pin_misses = IF k = "work" THEN 0 ELSE @]

MakeOffer(d, t, k, a) ==
    [d EXCEPT !.tickets[t] = NewOffer(@, k, a),
              !.marked = IF k = "work" THEN @ \ {t} ELSE @]

(* The end of dispatch_ticket: an offer to the first candidate or, if there *)
(* is none, a broadcast once some seat has let an offer expire or a round   *)
(* is due.                                                                  *)
OfferOrBroadcast(candidates, d, t, k, preferred, first, reoffer) ==
    IF candidates # {}
      THEN MakeOffer(d, t, k, Selected(candidates, preferred, first[t]))
      ELSE SetBroadcast(d, t, IF reoffer \/ d.tickets[t].expirations[k] > 0
                                THEN "yes" ELSE "no")

(* A pinned seat that cannot be offered the ticket is counted once per call *)
(* and loses its pin when that has happened Fallback times.                 *)
CountPinMiss(d, t) ==
    IF t \in d.marked THEN d
    ELSE [d EXCEPT !.tickets[t].pin_misses = @ + 1, !.marked = @ \cup {t}]

OfferUnpinned(d, t, preferred, first, reoffer) ==
    OfferOrBroadcast(Candidates(d, t, "work", preferred), d, t, "work",
                     preferred, first, reoffer)

ReleaseMissedPin(d, t, first, reoffer) ==
    IF d.tickets[t].pin_misses >= Fallback
      THEN OfferUnpinned(release_assignment_pin(d, t), t, NoAgent, first, reoffer)
      ELSE SetBroadcast(d, t, "no")

Pinned(d, t, k) == k = "work" /\ d.tickets[t].assigned_to # NoAgent

(* The early returns of dispatch_ticket. *)
Dispatchable(d, t, k) ==
    LET tk == d.tickets[t]
    IN  /\ tk.status = WantedStatus(k)
        /\ ~tk.parked
        /\ k = "work" => ~inactive_work_ownership_is_ambiguous(tk)
        /\ k = "review" => ~ReviewLeaseIsLive(tk)
        /\ dispatch_enabled(d)
        /\ ~tk.offer[k].live
        /\ tk.broadcast # "yes"

(* With the candidates at hand: the pin that cannot be served, or the rest. *)
ServeOrMissPin(candidates, d, t, k, preferred, first, reoffer) ==
    IF Pinned(d, t, k) /\ candidates = {}
      THEN ReleaseMissedPin(CountPinMiss(d, t), t, first, reoffer)
      ELSE OfferOrBroadcast(candidates, d, t, k, preferred, first, reoffer)

Serve(d, t, k, preferred, first, reoffer) ==
    ServeOrMissPin(Candidates(d, t, k, preferred), d, t, k, preferred, first,
                   reoffer)

(* Fallback expired offers release the pin, or end in a broadcast. *)
Spent(d, t, k) == d.tickets[t].expirations[k] >= Fallback

ServeOrFallBack(d, t, k, preferred, first, reoffer) ==
    IF Spent(d, t, k) /\ ~Pinned(d, t, k)
      THEN SetBroadcast(d, t, "yes")
      ELSE Serve(IF Spent(d, t, k) THEN release_assignment_pin(d, t) ELSE d,
                 t, k, preferred, first, reoffer)

(* A broadcast whose round is over starts a new dispatch cycle. *)
DispatchClean(d, t, k, preferred, first, reoffer) ==
    IF ~Dispatchable(d, t, k)
      THEN d
      ELSE ServeOrFallBack(
             IF reoffer THEN [d EXCEPT !.tickets[t] = NewCycle(@, k)] ELSE d,
             t, k, preferred, first, reoffer)

dispatch_ticket(d, t, k, preferred, first) ==
    DispatchClean(reconcile_inactive_work_ownership(d, t), t, k, preferred,
                  first, d.tickets[t].broadcast = "due")

Dispatch(d, t, k, first) == dispatch_ticket(d, t, k, NoAgent, first)

-----------------------------------------------------------------------------
(* The passes over the document *)

DispatchInOrder(d, first) ==
    LET Step(e, t) ==
          IF e.tickets[t].status \in {"open", "submitted"}
            THEN Dispatch(e, t, KindOf(e.tickets[t]), first) ELSE e
    IN  IF dispatch_enabled(d) THEN Along(Step, d, Queue) ELSE d

redispatch_queue(d, first) ==
    DispatchInOrder(reconcile_invalid_dispatch_offers(d), first)

(* Dispatch the given <<ticket, kind>> pairs, in document order. *)
DispatchSlots(d, slots, first) ==
    LET Step(e, slot) ==
          IF slot \in slots THEN Dispatch(e, slot[1], slot[2], first) ELSE e
    IN  Along(Step, d, Slots(Created))

(* Mutant of ExpireOffer: the expiry is not counted. *)
ExpireUncounted(tk, k) ==
    [tk EXCEPT !.offer[k] = NoOffer, !.last_offered[k] = tk.offer[k].agent]

(* One lapsed offer is taken back and counted. *)
ExpireOffer(tk, k) ==
    LET o == tk.offer[k]
    IN  [tk EXCEPT !.offer[k] = NoOffer,
                   !.last_offered[k] = o.agent,
                   !.expirations[k] = @ + 1,
                   !.tried[k] = IF o.current THEN @ \cup {o.agent} ELSE @]

(* A claim's reap pass does not dispatch what it has freed. *)
Redispatched(redispatch, d, t, k, first) ==
    IF redispatch THEN Dispatch(d, t, k, first) ELSE d

expire_dispatch_offers(d, t, redispatch, first) ==
    LET Step(e, k) ==
          IF ~Offered(e.tickets[t], k) \/ e.tickets[t].offer[k].live THEN e
          ELSE Redispatched(redispatch,
                            [e EXCEPT !.tickets[t] = ExpireOffer(@, k)],
                            t, k, first)
    IN  Along(Step, d, <<"work", "review">>)

MakeStale(d, stale) ==
    [revoke_agent_offers(d, stale) EXCEPT !.members =
       Tabulated([a \in Agents |-> IF a \in stale
                                     THEN [@[a] EXCEPT !.lifecycle = "stale"]
                                     ELSE @[a]])]

MakeStaleAndDispatch(d, stale, redispatch, first) ==
    IF stale # {} /\ redispatch THEN redispatch_queue(MakeStale(d, stale), first)
                                ELSE MakeStale(d, stale)

auto_stale_members(d, redispatch, first) ==
    MakeStaleAndDispatch(d, {a \in Agents : /\ d.members[a].lifecycle = "active"
                                            /\ d.members[a].idle
                                            /\ ~member_has_live_lease(d, a)},
                         redispatch, first)

(* Mutant of ReapReviewLease: review leases are not reaped. *)
ReapNoReview(d, t, redispatch, first) == d

(* reap_expired, for one ticket: its review lease, then its work lease. *)
ReapReviewLease(d, t, redispatch, first) ==
    IF d.tickets[t].review_lease # "lapsed" THEN d
    ELSE Redispatched(redispatch,
                      [d EXCEPT !.tickets[t].reviewer = NoAgent,
                                !.tickets[t].review_lease = "none"],
                      t, "review", first)

ReapWorkLease(d, t, redispatch, first) ==
    IF ~(PreSubmission(d.tickets[t]) /\ d.tickets[t].lease = "lapsed") THEN d
    ELSE Redispatched(redispatch,
                      [d EXCEPT !.tickets[t] =
                         [WithoutWorkLease(@) EXCEPT !.status = "open",
                                                     !.for_human = FALSE]],
                      t, "work", first)

ReapTicket(d, t, redispatch, first) ==
    LET r == reconcile_inactive_work_ownership(d, t)
        o == expire_dispatch_offers(r, t, redispatch, first)
        v == ReapReviewLease(o, t, redispatch, first)
    IN  ReapWorkLease(v, t, redispatch, first)

(* ... and the queue at the end, when the call redispatches. *)
RedispatchedQueue(redispatch, d, first) ==
    IF redispatch THEN redispatch_queue(d, first) ELSE d

reap_expired(d, redispatch, first) ==
    LET Step(e, t) == ReapTicket(e, t, redispatch, first)
    IN  RedispatchedQueue(redispatch,
                          Along(Step, auto_stale_members(d, redispatch, first),
                                Created),
                          first)

(* renew_claim, for every ticket the given seats hold *)
RenewLease(tk) == [tk EXCEPT !.lease = "live"]

RenewHeld(d, seats) ==
    UpdateEach(d, {t \in Tickets : /\ PreSubmission(d.tickets[t])
                                   /\ d.tickets[t].claimed_by \in seats},
               RenewLease)

touch_actor(d, a) ==
    RenewHeld([d EXCEPT !.members[a].idle = FALSE, !.members[a].live = TRUE], {a})

IsActive(d, a) == d.members[a].lifecycle = "active"

(* prepare_board_call; its caller goes on only if the actor IsActive. *)
prepare_board_call(d, a, first) == touch_actor(reap_expired(d, TRUE, first), a)
=============================================================================
