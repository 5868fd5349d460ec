------------------------------- MODULE Board -------------------------------
(***************************************************************************)
(* The ticket board of Central: one action per board tool that changes     *)
(* tickets, leases, offers or seats, the background reaper, and the        *)
(* passing of time.                                                        *)
(*                                                                         *)
(* A tool call holds the tool lock and runs in one store transaction, so   *)
(* it is one step.  A call that raises rolls back and is no step; a call   *)
(* that returns an error after its reap pass keeps what that pass did      *)
(* (the "refused" disjuncts).                                              *)
(***************************************************************************)
EXTENDS Dispatch

CONSTANTS
    CreatedBy,      \* the seat that creates each ticket
    Managed,        \* seats with a readiness record (ACP runtimes)
    Pins,           \* bound: the seats tickets are created for or assigned to
    Firsts,         \* bound: the outcomes of the candidate sort considered
    Ops             \* bound: the operations the clients of a run call

ASSUME BoardAssumption ==
    /\ CreatedBy \in [Tickets -> Agents]
    /\ Managed \subseteq Agents
    /\ Pins \subseteq Someone
    /\ Firsts \subseteq [Tickets -> Agents]

VARIABLE board      \* the board document

vars == board

Offer == [agent : Someone, live : BOOLEAN, current : BOOLEAN]

TicketType(tk) ==
    /\ tk.status \in Statuses
    /\ {tk.claimed_by, tk.submitted_by, tk.reviewer, tk.last_claimed_by,
        tk.reviewed_by, tk.last_review_released_by, tk.assigned_to, tk.asked}
         \subseteq Someone
    /\ {tk.lease, tk.review_lease} \subseteq Leases
    /\ tk.offer \in [Kinds -> Offer]
    /\ tk.expirations \in [Kinds -> 0..Fallback]
    /\ tk.tried \in [Kinds -> SUBSET Agents]
    /\ tk.broadcast \in {"no", "yes", "due"}
    /\ tk.last_offered \in [Kinds -> Someone]
    /\ tk.pin_misses \in 0..Fallback
    /\ {tk.parked, tk.for_human} \subseteq BOOLEAN

TypeOK ==
    /\ \A t \in Tickets : TicketType(board.tickets[t])
    /\ board.members \in [Agents -> [lifecycle : Lifecycles, idle : BOOLEAN,
                                     ready : BOOLEAN, live : BOOLEAN]]
    /\ board.marked = {}

Init == board = EmptyBoard

(* Mutant of Commit: the marks of the call are saved. *)
CommitKeepsMarks(d) == board' = d

Commit(d) == board' = [d EXCEPT !.marked = {}]

Reaped(first) == reap_expired(board, TRUE, first)
Prepared(a, first) == prepare_board_call(board, a, first)

-----------------------------------------------------------------------------
(* Tickets *)

(* ticket_create; the order of creation names the tickets. *)
ticket_create(a, t, pin, first) ==
    \E d \in {Prepared(a, first)} :
    LET i == CHOOSE i \in DOMAIN Created : Created[i] = t
    IN  /\ a = CreatedBy[t]
        /\ IsActive(d, a)
        /\ d.tickets[t].status = "missing"
        /\ \A j \in 1..(i - 1) : d.tickets[Created[j]].status # "missing"
        /\ Commit(Dispatch([d EXCEPT !.tickets[t].status = "open",
                                     !.tickets[t].assigned_to = pin],
                           t, "work", first))

(* ticket_claim and ticket_review_claim do not redispatch in their reap,    *)
(* and a coordinator-only caller is not touched.                            *)
ClaimView(first) == reap_expired(board, FALSE, first)
TouchClaimer(d, a) == IF a \in Coordinators THEN d ELSE touch_actor(d, a)

ticket_start(a, t, first) ==
    \E d \in {ClaimView(first)} :
        /\ IsActive(d, a)
        /\ d.tickets[t].status = "claimed"
        /\ d.tickets[t].claimed_by = a
        /\ Commit([TouchClaimer(d, a) EXCEPT !.tickets[t].status = "in_progress",
                                             !.tickets[t].lease = "live"])

(* The dispatch gate of ticket_claim for a seat that is not an operator. *)
OfferedOrBroadcast(tk, k, a) ==
    \/ tk.offer[k].agent = a
    \/ ~Offered(tk, k) /\ tk.broadcast # "no"

MayClaim(d, a, t) ==
    LET tk == d.tickets[t]
    IN  /\ ~tk.parked
        /\ dispatch_enabled(d) =>
             /\ dispatch_candidate_is_eligible(d, t, a, "work")
             /\ OfferedOrBroadcast(tk, "work", a)

(* Mutant of ticket_claim: the offer that was taken is not removed. *)
ClaimKeepsOffer(a, t, first) ==
    \E d \in {ClaimView(first)} :
        /\ IsActive(d, a)
        /\ d.tickets[t].status = "open"
        /\ a \in Operators \/ MayClaim(d, a, t)
        /\ Commit([TouchClaimer(d, a) EXCEPT !.tickets[t].status = "claimed",
                                             !.tickets[t].claimed_by = a,
                                             !.tickets[t].lease = "live"])

ticket_claim(a, t, first) ==
    \E d \in {ClaimView(first)} :
    LET e == IF dispatch_enabled(d)
               THEN [d EXCEPT !.tickets[t] = Revoke(@, "work"),
                              !.tickets[t].broadcast = "no"]
               ELSE d
    IN  /\ IsActive(d, a)
        /\ d.tickets[t].status = "open"
        /\ ~dispatch_enabled(d) /\ a \notin Operators =>
             d.tickets[t].assigned_to \in {NoAgent, a}
        /\ \/ /\ a \in Operators \/ MayClaim(d, a, t)
              /\ Commit([TouchClaimer(e, a) EXCEPT
                           !.tickets[t].status = "claimed",
                           !.tickets[t].claimed_by = a,
                           !.tickets[t].lease = "live"])
           \/ /\ ~(a \in Operators \/ MayClaim(d, a, t))     \* refused
              /\ Commit(d)

(* The work lease ends and the ticket returns to the queue. *)
Reopened(d, t, first) ==
    redispatch_queue(
        Dispatch([d EXCEPT !.tickets[t] =
                    [WithoutWorkLease(@) EXCEPT !.status = "open",
                                                !.for_human = FALSE]],
                 t, "work", first),
        first)

ticket_unclaim(a, t, first) ==
    \E d \in {Prepared(a, first)} :
        /\ IsActive(d, a)
        /\ PreSubmission(d.tickets[t])
        /\ d.tickets[t].claimed_by = a \/ a \in Admins
        /\ Commit(Reopened(d, t, first))

ticket_submit(a, t, stay_active, first) ==
    \E d \in {Prepared(a, first)} :
    LET e == [d EXCEPT !.tickets[t].status = "submitted",
                       !.tickets[t].submitted_by = a,
                       !.tickets[t].lease = "none",
                       !.members[a].lifecycle =
                         IF stay_active THEN @ ELSE "handed_off"]
    IN  /\ IsActive(d, a)
        /\ d.tickets[t].status # "missing"
        /\ \/ /\ d.tickets[t].claimed_by = a
              /\ PreSubmission(d.tickets[t])
              /\ Commit(redispatch_queue(Dispatch(e, t, "review", first), first))
           \/ /\ ~(d.tickets[t].claimed_by = a /\ PreSubmission(d.tickets[t]))
              /\ Commit(d)                                   \* refused

(* lease_renew is decided by the principal; naming the seat is optional. *)
SamePrincipal(a, b) == b # NoAgent /\ Principal[a] = Principal[b]

lease_renew(a, t, first) ==
    \E d \in {Reaped(first)} :
    LET tk == d.tickets[t]
        reviewing == tk.status = "submitted" /\ SamePrincipal(a, tk.reviewer)
        working   == PreSubmission(tk) /\ SamePrincipal(a, tk.claimed_by)
    IN  /\ tk.status # "missing"
        /\ \/ /\ reviewing
              /\ Strict => Principal[a] # Principal[tk.submitted_by]
              /\ Commit([d EXCEPT !.tickets[t].review_lease = "live"])
           \/ working /\ Commit([d EXCEPT !.tickets[t].lease = "live"])
           \/ /\ ~working /\ (reviewing => a # tk.reviewer)  \* refused
              /\ Commit(d)

board_reap(a, first) ==
    Commit(RenewHeld(Reaped(first), {b \in Agents : SamePrincipal(a, b)}))

-----------------------------------------------------------------------------
(* Reviews *)

NeedsOffer(d, t) == dispatch_enabled(d) /\ ~ReviewLeaseIsLive(d.tickets[t])

(* The review offer is taken: it is gone and the broadcast ends. *)
TakeReviewOffer(d, t) ==
    [d EXCEPT !.tickets[t] = [Revoke(@, "review") EXCEPT !.broadcast = "no"]]

MayReviewClaim(d, a, t) ==
    \/ a \in Operators
    \/ /\ ~d.tickets[t].parked
       /\ NeedsOffer(d, t) =>
            /\ dispatch_candidate_is_eligible(d, t, a, "review")
            /\ OfferedOrBroadcast(d.tickets[t], "review", a)

ticket_review_claim(a, t, first) ==
    \E d \in {retire_nonreviewable_review_offers(ClaimView(first))} :
    LET e  == IF NeedsOffer(d, t) THEN TakeReviewOffer(d, t) ELSE d
        tk == d.tickets[t]
    IN  /\ IsActive(d, a)
        /\ tk.status = "submitted"
        /\ a \in Operators \cup Reviewers
        /\ Independent(tk, a)
        /\ \/ /\ MayReviewClaim(d, a, t)
              /\ ReviewLeaseIsLive(tk) => tk.reviewer = a
              /\ Commit([TouchClaimer(e, a) EXCEPT
                           !.tickets[t].reviewer = a,
                           !.tickets[t].review_lease = "live"])
           \/ /\ MayReviewClaim(d, a, t)                     \* already claimed
              /\ ReviewLeaseIsLive(tk) /\ tk.reviewer # a
              /\ Commit(d)
           \/ ~MayReviewClaim(d, a, t) /\ Commit(d)          \* refused

WithoutReviewLease(tk) == [tk EXCEPT !.reviewer = NoAgent, !.review_lease = "none"]

ticket_review_release(a, t, first) ==
    \E d \in {Prepared(a, first)} :
    LET e == [d EXCEPT !.tickets[t] =
                [WithoutReviewLease(@) EXCEPT !.last_review_released_by = a]]
    IN  /\ IsActive(d, a)
        /\ ReviewLeaseIsLive(d.tickets[t])
        /\ d.tickets[t].reviewer = a
        /\ Commit(redispatch_queue(Dispatch(e, t, "review", first), first))

(* ticket_review: the offer is looked for, and made if it is missing. *)
WithReviewOffer(d, t, first) ==
    IF /\ NeedsOffer(d, t)
       /\ ~Offered(d.tickets[t], "review")
       /\ d.tickets[t].broadcast = "no"
      THEN Dispatch(d, t, "review", first) ELSE d

MayJudge(d, a, t) ==
    /\ NeedsOffer(d, t) => OfferedOrBroadcast(d.tickets[t], "review", a)
    /\ ReviewLeaseIsLive(d.tickets[t]) => d.tickets[t].reviewer = a

(* A verdict: "closed", "rejected" (for good) or "open" (to be done again).  *)
(* A rejection that repeats the previous one without a new commit parks it. *)
Verdict(d, a, t, status, parked, first) ==
    LET taken == IF NeedsOffer(d, t) THEN TakeReviewOffer(d, t) ELSE d
        done  == [WithoutReviewLease(Revoke(taken.tickets[t], "review"))
                    EXCEPT !.status = status, !.reviewed_by = a,
                           !.parked = @ \/ parked]
        again == [WithoutWorkLease(done) EXCEPT !.submitted_by = NoAgent,
                                                !.for_human = FALSE]
        final == [done EXCEPT !.broadcast =
                    IF dispatch_enabled(d) THEN "no" ELSE @]
        e     == [taken EXCEPT !.tickets[t] =
                    IF status = "open" THEN again ELSE final]
    IN  redispatch_queue(IF status = "open" THEN Dispatch(e, t, "work", first)
                                            ELSE e, first)

ticket_review(a, t, status, parked, first) ==
    \E d \in {WithReviewOffer(Prepared(a, first), t, first)} :
    LET tk == d.tickets[t]
    IN  /\ IsActive(d, a)
        /\ tk.status = "submitted"
        /\ Independent(tk, a)
        /\ a \in Reviewers
        /\ parked => status = "open" /\ tk.reviewed_by # NoAgent
        /\ \/ MayJudge(d, a, t) /\ Commit(Verdict(d, a, t, status, parked, first))
           \/ ~MayJudge(d, a, t) /\ Commit(d)               \* refused

-----------------------------------------------------------------------------
(* Leaving the flow *)

RevokeBoth(tk) == Revoke(Revoke(tk, "work"), "review")

(* ticket_cancel: the queue is redispatched while the canceled ticket still *)
(* has its lease, which is dropped afterwards; a review lease stays.        *)
ticket_cancel(a, t, first) ==
    \E d \in {Prepared(a, first)} :
    LET tk == RevokeBoth(d.tickets[t])
        e  == [d EXCEPT !.tickets[t] =
                 [tk EXCEPT !.status = "canceled",
                            !.broadcast = IF dispatch_enabled(d) THEN "no" ELSE @]]
    IN  /\ IsActive(d, a)
        /\ d.tickets[t].status \notin TERMINAL_TICKET_STATES \cup {"missing"}
        /\ \/ SamePrincipal(a, CreatedBy[t])
           \/ d.tickets[t].claimed_by = a
           \/ a \in Reviewers
        /\ Commit([redispatch_queue(e, first) EXCEPT !.tickets[t].lease = "none"])

(* ticket_update(parked=...): a coordinator-only caller skips the reap. *)
OperatorView(a, first) ==
    IF a \in Coordinators THEN board ELSE Prepared(a, first)

ticket_park(a, t, first) ==
    \E d \in {OperatorView(a, first)} :
        /\ a \in Operators /\ IsActive(d, a)
        /\ d.tickets[t].status \in {"open", "submitted"}
        /\ ~d.tickets[t].parked
        /\ Commit(redispatch_queue(
             [d EXCEPT !.tickets[t] =
                [RevokeBoth(@) EXCEPT !.parked = TRUE, !.broadcast = "no"]],
             first))

ticket_unpark(a, t, first) ==
    \E d \in {OperatorView(a, first)} :
    LET k == KindOf(d.tickets[t])
    IN  /\ a \in Operators /\ IsActive(d, a)
        /\ d.tickets[t].status \in {"open", "submitted"}
        /\ d.tickets[t].parked
        /\ Commit(Dispatch(
             [d EXCEPT !.tickets[t] =
                [Revoke(@, k) EXCEPT !.parked = FALSE, !.broadcast = "no",
                                     !.expirations[k] = 0]], t, k, first))

(* ticket_assign: no reap; the target's offers go, the ticket starts a new  *)
(* dispatch cycle, and the tickets the target was offered are redispatched. *)
Displaced(a, t) ==
    {slot \in (Tickets \ {t}) \X Kinds :
       a # NoAgent /\ board.tickets[slot[1]].offer[slot[2]].agent = a}

(* Mutant of Reassigned: the ticket's own offer survives. *)
ReassignedKeepsOffer(t, target) ==
    [revoke_agent_offers(board, {target} \ {NoAgent}) EXCEPT !.tickets[t] =
       NewCycle([@ EXCEPT !.assigned_to = target, !.pin_misses = 0,
                          !.broadcast = "no"], "work")]

Reassigned(t, target) ==
    [revoke_agent_offers(board, {target} \ {NoAgent}) EXCEPT !.tickets[t] =
       NewCycle([RevokeBoth(@) EXCEPT
                   !.assigned_to = target, !.pin_misses = 0, !.broadcast = "no"],
                "work")]

ticket_assign(a, t, target, first) ==
    LET d == Reassigned(t, target)
    IN  /\ a \in Admins \cap Coordinators /\ IsActive(board, a)
        /\ board.tickets[t].status = "open"
        /\ board.tickets[t].claimed_by = NoAgent
        /\ target # board.tickets[t].assigned_to
        /\ target # NoAgent =>
             /\ target \in Workers \ {a} /\ IsActive(board, target)
             /\ ~agent_has_live_lease_elsewhere(board, target, t)
        /\ Commit(IF d.tickets[t].parked THEN d
                  ELSE DispatchSlots(Dispatch(d, t, "work", first),
                                     Displaced(target, t), first))

-----------------------------------------------------------------------------
(* A human is asked *)

ticket_request_human(a, t, first) ==
    \E d \in {Prepared(a, first)} :
    LET tk == d.tickets[t]
        released == IF PreSubmission(tk)
                      THEN [WithoutWorkLease(tk) EXCEPT !.for_human = TRUE]
                      ELSE tk
    IN  /\ IsActive(d, a)
        /\ \/ PreSubmission(tk) /\ tk.claimed_by = a
           \/ a \in Operators
           \/ tk.status = "submitted" /\ ReviewLeaseIsLive(tk) /\ tk.reviewer = a
        /\ tk.status \notin TERMINAL_TICKET_STATES \cup {"missing"}
        /\ ~(tk.status = "needs_human" /\ tk.asked # NoAgent)
        /\ Commit(redispatch_queue(
             [d EXCEPT !.tickets[t] =
                [WithoutReviewLease(Revoke(released, "work")) EXCEPT
                   !.status = "needs_human", !.asked = a, !.broadcast = "no"]],
             first))

(* ticket_human_resolve: "open" again, "canceled", or left as it is. *)
ticket_human_resolve(a, t, status, first) ==
    \E d \in {Prepared(a, first)} :
    LET tk == d.tickets[t]
        e  == [d EXCEPT !.tickets[t] =
                 [tk EXCEPT !.status = status, !.asked = NoAgent,
                            !.broadcast = IF status = "needs_human" THEN @ ELSE "no",
                            !.assigned_to = IF status = "open" /\ @ = tk.asked
                                              THEN NoAgent ELSE @]]
        preferred == IF tk.for_human THEN tk.asked ELSE NoAgent
    IN  /\ IsActive(d, a) /\ a \in Operators
        /\ tk.status = "needs_human" /\ tk.asked # NoAgent
        /\ Commit(redispatch_queue(
             IF status = "open" THEN dispatch_ticket(e, t, "work", preferred, first)
                                ELSE e, first))

-----------------------------------------------------------------------------
(* Seats *)

RedispatchIfEnabled(d, first) ==
    IF dispatch_enabled(d) THEN redispatch_queue(d, first) ELSE d

(* board_join, board_onboard: the seat is active again, whatever it was. *)
Rejoined(a, ready, first) ==
    [Reaped(first) EXCEPT !.members[a] =
       [lifecycle |-> "active", idle |-> FALSE, ready |-> ready, live |-> TRUE]]

RenewReview(tk) == [tk EXCEPT !.review_lease = "live"]

RenewReviews(d, a) ==
    UpdateEach(d, {t \in Tickets : /\ d.tickets[t].status = "submitted"
                                   /\ d.tickets[t].reviewer = a},
               RenewReview)

board_join(a, ready, first) ==
    /\ a \notin Managed => ready = board.members[a].ready
    /\ Commit(RenewReviews(RenewHeld(RedispatchIfEnabled(Rejoined(a, ready, first),
                                                         first), {a}), a))

(* A seat that is not ready gives its offers back, and the tickets' *)
(* broadcasts end.                                                   *)
GiveBack(tk) == EndBroadcast(Revoke(tk, KindOf(tk)))

OfferedTo(d, a) ==
    {t \in Tickets : /\ d.tickets[t].status \in {"open", "submitted"}
                     /\ d.tickets[t].offer[KindOf(d.tickets[t])].agent = a}

agent_readiness_set(a, ready, first) ==
    \E d \in {[touch_actor(Reaped(first), a) EXCEPT !.members[a].ready = ready]} :
        /\ a \in Managed
        /\ IsActive(board, a)
        /\ Commit(redispatch_queue(
             IF ready THEN d ELSE UpdateEach(d, OfferedTo(d, a), GiveBack), first))

(* agent_retire, of the caller itself or by an operator *)
agent_retire(a, target, first) ==
    \E d \in {Prepared(a, first)} :
    LET e == [revoke_agent_offers(d, {target}) EXCEPT
                !.members[target].lifecycle = "retired"]
    IN  /\ a = target \/ a \in Operators
        /\ IsActive(d, a)
        /\ ~member_has_live_lease(d, target)
        /\ Commit(IF d.members[target].lifecycle = "retired"
                    THEN revoke_agent_offers(d, {target})
                    ELSE redispatch_queue(e, first))

(* memory_handoff neither revokes the seat's offers nor redispatches. *)
memory_handoff(a, first) ==
    \E d \in {Reaped(first)} :
        /\ d.members[a].lifecycle # "handed_off"
        /\ Commit([d EXCEPT !.members[a].lifecycle = "handed_off",
                            !.members[a].idle = FALSE, !.members[a].live = TRUE])

(* Every other board call of an active seat: it prepares and changes        *)
(* nothing else here (board_catchup, memory_write, ticket_list, ...).       *)
Heartbeat(a, first) ==
    /\ IsActive(Reaped(first), a)
    /\ Commit(Prepared(a, first))

(* check_and_reap_expired, of the recurring reaper and of offer deadlines:  *)
(* it acts only when an offer has lapsed or is invalid.                     *)
ReaperIsDue ==
    \/ \E t \in Tickets, k \in Kinds :
         Offered(board.tickets[t], k) /\ ~board.tickets[t].offer[k].live
    \/ invalid_dispatch_offers_exist(board)

ReaperPass(first) == RedispatchIfEnabled(Reaped(first), first)

check_and_reap_expired(first) == ReaperIsDue /\ Commit(ReaperPass(first))

-----------------------------------------------------------------------------
(* Time *)

LapseLease(t) ==
    /\ board.tickets[t].lease = "live"
    /\ board' = [board EXCEPT !.tickets[t].lease = "lapsed"]

LapseReviewLease(t) ==
    /\ board.tickets[t].review_lease = "live"
    /\ board' = [board EXCEPT !.tickets[t].review_lease = "lapsed"]

LapseOffer(t, k) ==
    /\ board.tickets[t].offer[k].live
    /\ board' = [board EXCEPT !.tickets[t].offer[k].live = FALSE]

(* broadcast_reoffer_s have passed since the broadcast. *)
BroadcastDue(t) ==
    /\ board.tickets[t].broadcast = "yes"
    /\ board' = [board EXCEPT !.tickets[t].broadcast = "due"]

(* A seat without a listener has not called for a while, ... *)
GoDark(a) ==
    /\ board.members[a].live
    /\ board' = [board EXCEPT !.members[a].live = FALSE]

(* ... and for stale_after_days. *)
GoIdle(a) ==
    /\ ~board.members[a].live /\ ~board.members[a].idle
    /\ board' = [board EXCEPT !.members[a].idle = TRUE]

(* The readiness record of a managed seat expires. *)
ReadinessExpires(a) ==
    /\ a \in Managed /\ board.members[a].ready
    /\ board' = [board EXCEPT !.members[a].ready = FALSE]

-----------------------------------------------------------------------------
On(op) == op \in Ops

TicketCalls(a, t, first) ==
    \/ On("create") /\ \E pin \in Pins : ticket_create(a, t, pin, first)
    \/ On("claim") /\ (ticket_claim(a, t, first) \/ ticket_start(a, t, first))
    \/ On("unclaim") /\ ticket_unclaim(a, t, first)
    \/ On("submit") /\ \E stay \in BOOLEAN : ticket_submit(a, t, stay, first)
    \/ On("renew") /\ lease_renew(a, t, first)
    \/ On("cancel") /\ ticket_cancel(a, t, first)
    \/ On("park") /\ (ticket_park(a, t, first) \/ ticket_unpark(a, t, first))
    \/ On("assign") /\ \E target \in Pins : ticket_assign(a, t, target, first)
    \/ On("human") /\ (\/ ticket_request_human(a, t, first)
                      \/ \E status \in {"open", "canceled", "needs_human"} :
                           ticket_human_resolve(a, t, status, first))

ReviewCalls(a, t, first) ==
    \/ On("review_claim") /\ (\/ ticket_review_claim(a, t, first)
                             \/ ticket_review_release(a, t, first))
    \/ On("review") /\ \E status \in {"closed", "rejected", "open"},
                           parked \in BOOLEAN :
                        ticket_review(a, t, status, parked, first)

SeatCalls(a, first) ==
    \/ On("reap") /\ board_reap(a, first)
    \/ On("join") /\ \E ready \in BOOLEAN : board_join(a, ready, first)
    \/ On("readiness") /\ \E ready \in BOOLEAN : agent_readiness_set(a, ready, first)
    \/ On("retire") /\ \E target \in Agents : agent_retire(a, target, first)
    \/ On("handoff") /\ memory_handoff(a, first)
    \/ On("heartbeat") /\ Heartbeat(a, first)

Reaper == \E first \in Firsts : check_and_reap_expired(first)

Calls ==
    \E first \in Firsts, a \in Agents :
        \/ SeatCalls(a, first)
        \/ \E t \in Tickets : TicketCalls(a, t, first) \/ ReviewCalls(a, t, first)

Time ==
    \/ \E t \in Tickets :
         \/ On("lapse") /\ (LapseLease(t) \/ LapseReviewLease(t))
         \/ On("lapse_offer") /\ \E k \in Kinds : LapseOffer(t, k)
         \/ On("due") /\ BroadcastDue(t)
    \/ \E a \in Agents :
         \/ On("dark") /\ GoDark(a)
         \/ On("idle") /\ GoIdle(a)
         \/ On("unready") /\ ReadinessExpires(a)

Next == Calls \/ Time \/ (On("reaper") /\ Reaper)

Spec == Init /\ [][Next]_vars

(* Weak fairness of the reaper and of heartbeats, with ENABLED <<A>>_vars   *)
(* written out: the call is possible and would change the board.            *)
Changes(d) == [d EXCEPT !.marked = {}] # board

ReaperIsFair ==
    \/ []<>~(ReaperIsDue /\ \E first \in Firsts : Changes(ReaperPass(first)))
    \/ []<><<Reaper>>_vars

SomeHeartbeat == \E a \in Agents, first \in Firsts : Heartbeat(a, first)

HeartbeatsAreFair ==
    \/ []<>~(\E a \in Agents, first \in Firsts :
               IsActive(Reaped(first), a) /\ Changes(Prepared(a, first)))
    \/ []<><<SomeHeartbeat>>_vars

(* Time passes for every offer, and the reaper's loop and the deadline      *)
(* tasks of offers go on: no client has to call for this.                   *)
ReaperSpec ==
    /\ Spec
    /\ \A t \in Tickets, k \in Kinds : WF_vars(LapseOffer(t, k))
    /\ ReaperIsFair

(* ... and some seat keeps calling the board, as a waiting client does. *)
FairSpec == ReaperSpec /\ HeartbeatsAreFair

-----------------------------------------------------------------------------
(* The promise of the board about the ownership of tickets *)

(* A ticket as TicketLease sees it: a holder only while it is worked on, a  *)
(* reviewer only while it is under review, what is left over is forgotten.  *)
Ownership(tk) ==
    LET working   == PreSubmission(tk)
        reviewing == tk.status = "submitted"
    IN  [status       |-> tk.status,
         holder       |-> IF working THEN tk.claimed_by ELSE NoAgent,
         lease        |-> IF working THEN tk.lease ELSE "none",
         author       |-> IF tk.status \in {"submitted", "closed"}
                            THEN tk.submitted_by ELSE NoAgent,
         reviewer     |-> IF reviewing THEN tk.reviewer ELSE NoAgent,
         review_lease |-> IF reviewing THEN tk.review_lease ELSE "none",
         approver     |-> IF tk.status = "closed" THEN tk.reviewed_by ELSE NoAgent]

ReviewPolicy ==
    {p \in Agents \X Agents :
       p[1] # p[2] /\ (Strict => Principal[p[1]] # Principal[p[2]])}

Promise == INSTANCE TicketLease
             WITH MayReview <- ReviewPolicy,
                  ticket <- [t \in Tickets |-> Ownership(board.tickets[t])]

(* The handlers, with their reap passes, early returns and redispatches,    *)
(* implement the promise: in particular no call passes a live lease on,     *)
(* renews or accepts work under a lapsed one, or lets an author judge.      *)
ImplementsTicketLease == Promise!Spec

-----------------------------------------------------------------------------
(* Properties *)

(* What occupies a seat: a ticket it works on, one it reviews, an offer. *)
Occupies(a, t, k, what) ==
    LET tk == board.tickets[t]
    IN  \/ /\ what = "lease" /\ k = "work"
           /\ PreSubmission(tk) /\ tk.claimed_by = a
        \/ /\ what = "lease" /\ k = "review"
           /\ tk.status = "submitted" /\ tk.reviewer = a /\ ReviewLeaseIsLive(tk)
        \/ what = "offer" /\ tk.offer[k].agent = a /\ tk.offer[k].live

JobsOf(a) == {j \in Tickets \X Kinds \X {"lease", "offer"} :
                Occupies(a, j[1], j[2], j[3])}

(* A seat that takes part in dispatch has at most one job: it never holds   *)
(* two work or review leases, nor an offer beside a lease or another offer, *)
(* whatever claims, expiries, reaps and redispatches interleave.  This is   *)
(* what agent_is_busy, the capacity check and the claim gate are for.       *)
OneJobPerSeat ==
    \A a \in Explicit \ Operators : Cardinality(JobsOf(a)) <= 1

(* An offer the seat can still see is worth something: while the seat is    *)
(* active, ready and reachable, a claim of it passes the claim gate.  Not   *)
(* for an operator: claim_gate_bypass lets it take another ticket while it  *)
(* has the offer, and the offer then waits for it to run out.               *)
OfferCanBeTaken ==
    \A t \in Tickets, k \in Kinds, a \in Agents \ Operators :
        LET o == board.tickets[t].offer[k]
            m == board.members[a]
            d == reap_expired(board, FALSE, [u \in Tickets |-> a])
        IN  o.agent = a /\ o.live /\ IsActive(board, a)
              /\ ~m.idle /\ m.ready /\ m.live
            => /\ d.tickets[t].status = WantedStatus(k)
               /\ ~d.tickets[t].parked
               /\ dispatch_candidate_is_eligible(d, t, a, k)
               /\ d.tickets[t].offer[k].agent = a

(* A seat that let an offer of a ticket expire is not offered the ticket    *)
(* again in the same dispatch cycle, and a pinned ticket is offered to      *)
(* nobody but the seat it is pinned to.                                     *)
OffersGoToTheRightSeat ==
    \A t \in Tickets, k \in Kinds :
        LET tk == board.tickets[t]
        IN  tk.offer[k].live =>
              /\ tk.offer[k].current => tk.offer[k].agent \notin tk.tried[k]
              /\ k = "work" => tk.assigned_to \in {NoAgent, tk.offer[k].agent}

(* No offer is invalid or doubled, and no dispatchable ticket waits without *)
(* an offer or a broadcast while a seat it was not tried on could take it.  *)
Settled(d) ==
    /\ \A t \in Tickets, k \in Kinds :
         Offered(d.tickets[t], k) => ~invalid_dispatch_offer(d, t, k)
    /\ \A a \in Agents :
         Cardinality({slot \in Tickets \X Kinds :
                        d.tickets[slot[1]].offer[slot[2]].agent = a}) <= 1
    /\ \A t \in Tickets, k \in Kinds, a \in Agents :
         Dispatchable(d, t, k) /\ ~Offered(d.tickets[t], k)
           /\ a \notin d.tickets[t].tried[k]
         => ~dispatch_candidate_is_eligible(d, t, a, k)

(* One pass of the reaper heals whatever the calls, the hand-offs and the   *)
(* passing of time left behind.                                             *)
ReaperSettles == [][Reaper => Settled(board')]_vars

(* A lease that nobody renews does not keep a ticket for ever: the work is  *)
(* open again, or renewed by its holder's reclaim, the review is free.      *)
HasLapsedLease(tk) == \/ PreSubmission(tk) /\ tk.lease = "lapsed"
                      \/ tk.review_lease = "lapsed"
LapsedLeasesEnd ==
    \A t \in Tickets :
        HasLapsedLease(board.tickets[t]) ~> ~HasLapsedLease(board.tickets[t])

(* A ticket that is offered and that nobody takes goes from seat to seat    *)
(* until it is broadcast and any eligible seat can claim it: unanswered     *)
(* offers end in Fallback expirations or in a shortage of seats to try.     *)
UnansweredFallsBack ==
    \A t \in Tickets, k \in Kinds :
        Offered(board.tickets[t], k)
          ~> \/ board.tickets[t].status # WantedStatus(k)
             \/ board.tickets[t].broadcast # "no"
             \/ ReviewLeaseIsLive(board.tickets[t])

=============================================================================
