# Pursers: a TLA+ verification of the board, its seats and its tools

Pursers coordinates a fleet of agent seats through one server, *Central*. Seats
join a board, are offered tickets, claim them under a lease, submit work, and
review each other's work. They learn what happened from a journal they read with
cursors, through a wait bridge that blocks until there is something to do.
Around Central run unattended programs: workers and reviewers, an executor that
starts and stops seats on a host, and a butler that answers questions and delivers
approved work to the customer. This
directory models these parts in TLA+, checks them with TLC on small instances
and proves the most important safety properties with TLAPS.

`central.py` is `packages/central/src/pursers_central/central.py`, `client.py` is
`packages/client/src/pursers_client/client.py`; line numbers without a file name
refer to `central.py`. `PROJECT.json` maps every definition to its lines.

## 1. Inventory

| component | state | operations | interacts with | what is hard |
|---|---|---|---|---|
| event journal (`journal.py`, `CentralJournal`) | rows, `next_seq`, `compacted_through`, idempotency entries | append, append_once, compact, sweep, read_after | every tool appends in its own transaction; read by catch-up | compaction under readers, dedupe that must survive compaction, the row cap |
| cursors and catch-up (`cursor.py`, `board_catchup`) | acknowledged cursor per (principal, seat) | get, ack, oldest_live_cursor, board_catchup | journal, client loop | byte-bounded pages, visibility that changes, acknowledgements out of order, resync |
| ticket lifecycle | ticket document: status, holder, work lease, author, review lease | create, claim, start, unclaim, submit, renew, review claim/release/verdict, cancel, park, assign, human request/answer | dispatch engine, journal | lapsed leases, late calls, self-review, several tickets moved by one call |
| dispatch engine | offers, expirations, cycles, broadcast state, pins | dispatch_ticket, redispatch_queue, reconcile, expire, reap | called inside every tool, seats' liveness | capacity of a seat, stale offers, pins, fallback |
| seats | lifecycle, readiness, liveness | join, readiness_set, retire, hand-off, stale | dispatch engine | offers pointing to seats that changed |
| reaper | none | recurring loop, offer deadlines, `check_and_reap_expired` | dispatch engine, journal sweep, archive | what it notices and what it does not |
| call transaction, notifications (`SubscriptionAuthorization`) | SQLite transaction, pending notifications | lock, begin, commit, notify | everything | crash between commit and notification |
| client event stream (`client.py`) | `seen`, cursors, queue of one | events(), `_drain` | board_catchup, subscriptions | reconnects, lost cues, cancellation |
| wait bridge (`pursers_wait_server.py`) | cursors of a call, guard of immediate returns | `_wait_for_work_many`, `_reconcile_offers`, `_push_cues` | event stream, seats | events in flight when a call returns, partial catch-up, push and poll |
| worker runtime (`pursers_worker.py`, `Worker`) | active claim, worktrees | start-up sweep, claim, run, submit, release, clean up | ticket tools, git | crashes with a claim and uncommitted work, lost replies |
| reviewer runtime (`Reviewer`) | seen submissions | discover, review, re-read, judge | ticket tools | a submission replaced under the verdict |
| fleet executor (`fleet_executor.py`, `fleet_observation.py`) | seats and operations tables, unit files | start, drain, stop, re_role, adopt, inspect; observer | systemd/launchd, butler | crash between commits, repeated requests, two writers of one row |
| board butler, answers (`board_butler.py`) | findings document, evaluations, configuration | process_question, advance_autonomous_answer, veto, kill switch, the report of a refresh (`coordinator.py`) | question tools of Central, humans | compare-and-swap with several writers beside one that replaces, stale plans, lost replies |
| batch delivery (`integration_delivery.py`, `board_butler.py`) | private ledger: batches, members, reservations; integration and snapshot branches, pull requests | collect_approved_ticket, release, snapshot, publish, reconcile_unknown, observe_customer_completion | git hosting, customer, others who push | crash between a reservation and its call or its result, unknown outcomes, pushes of outsiders, work that joins late |
| butler commands, archive, membership, proxy, coordinator, dashboard, importers, release tools | | | | not modelled, see section 6 |

What makes the modelled components correct:

* the journal has no holes, and a reader is never moved past an event that was
  not shown to it without being told of a resync;
* an acknowledgement is never taken back; the sweep respects the cap and the
  readers; a warning is not repeated while it is remembered or retained;
* a live lease is exclusive, a lapsed one is worthless, work is judged by an
  independent seat, finished tickets stay finished;
* a seat has one job at a time; an offer it sees can be taken; an offer goes to
  the right seat; unanswered offers fall back to a broadcast; lapsed leases end;
* a seat that waits misses nothing that lies behind its cursor, is told nothing
  twice, and every offer reaches it;
* a worker loses no uncommitted work, holds one claim, and its claims end;
* the executor never exceeds its caps, never runs two seats of one principal,
  and never acts twice on one request;
* from one report to the next the butler's document loses no veto, kill or failure,
  and a stop is honoured; an audit is true and no plan stays pending;
* what the delivery ledger calls integrated is on the branch, a pull request lists only
  work that it contains, and a snapshot shown to the customer stays as it is.

## 2. Modules

| module | models | state |
|---|---|---|
| `Journal` | journal, idempotency entries, sweep, cursors, `board_catchup`, the client's drain round | rows, `next_seq`, `compacted_through`, `dedupe`, `cursors`, `acked`, and the consumer's `position`, `page` and `ended`; `shown`, `resynced`, `warned` are history |
| `TicketLease` | the abstract promise: who holds, submits, reviews and finishes a ticket | `ticket` |
| `Dispatch` | the dispatch engine as operators from board documents to board documents | none |
| `Board` | one action per board tool, the reaper, the passing of time | `board`, the document |
| `WaitBridge` | Central's cues, the event stream, one call of the wait bridge after the other | journal, offers, stream, queues, call, cursor; `told`, `repeated`, `surfaced`, `dropped`, `misread` are history |
| `SeatRuntime` | workers as processes over the tickets of `TicketLease` | tickets, process state, worktrees |
| `ReviewerSeat` | reviewers beside the workers of `SeatRuntime` | the same, revisions, reviewer state |
| `FleetExecutor` | executor, its store, the services, the observer | rows, operations, request, unit files, processes |
| `ButlerAnswers` | the resident butler, one-shot commands, Central's questions | questions, findings and who has read them last, audits, the cycle, the command; `kept`, `vetoed`, `dropped` are history |
| `BatchDelivery` | the butler's batches, their ledger, the remote branches and pull requests, customer and outsiders | policy, ledger, remote, the butler's step, pushes of outsiders |
| `JournalProofs`, `TicketLeaseProofs`, `BoardProofs`, `SeatProofs`, `WaitProofs`, `FleetProofs`, `ButlerProofs`, `DeliveryProofs` | TLAPS proofs | |
| `MCJournal`, `MCBoard`, `MCWait`, `MCSeats`, `MCReviewer`, `MCFleet`, `MCButler`, `MCDelivery` | instances for TLC | |

`TicketLease` is the abstract specification two detailed ones implement. `Board`
extends `Dispatch` and implements it, checked by TLC and proved (`Implements`),
through `Promise == INSTANCE TicketLease WITH ticket <- ...`, where the mapping
(`Ownership`) forgets offers, seats and what is left on a ticket that nobody
works on. `SeatRuntime` extends it with processes that call Central, and is
proved to implement it (`SeatsKeepThePromise`). `ReviewerSeat` composes
reviewers with the workers of `SeatRuntime`: each of its steps is a step of a
reviewer or a step `BoardStep` of everybody else.

### How the modules correspond to the code

**Central (`Board`, `Dispatch`, `Journal`).**

* *A call is a step.* The middleware (3145-3300) takes the tool lock, opens
  the store transaction and runs the handler; the reaper does the same. A call
  that raises inside `service.mutate` leaves the document unchanged and is no
  step. A call that *returns* an error from its mutation (refused claims,
  refused submissions and reviews, refused renewals) keeps what its reap pass
  did: those are the disjuncts marked `refused`.
* *The handler is the whole handler.* An action contains the reap, the touch
  of the caller, the redispatch of the queue and everything else the handler
  calls, in the code's order. `Prepared` is `prepare_board_call`, `ClaimView`
  the claim's reap without redispatch, `OperatorView` the coordinator's call
  without any reap. `Commit` drops `marked`, the per-call memory of the
  `work_pin_unavailable_last_at` comparison.
* *Clocks* become facts: a lease is `"none"`, `"live"` or `"lapsed"`, an offer
  is live or not, a broadcast is `"due"` when `broadcast_reoffer_s` have passed,
  a seat is `live` (recent activity or a listener) and `idle` (past
  `stale_after_days`). Each passes by an action of its own at any moment.
* *The candidate sort* (4990-5004) becomes an arbitrary choice of the seat
  that comes first (`first`, one choice per call); `preferred` comes from the
  code. Tiers, skills, exclusions and worker models decide who is in `Workers`
  or `Reviewers`.
* *Dispatch cycles* become `tried`, the seats whose offer expired in the
  current cycle, and the flag `current` of an offer made in an older cycle.
* `submitted_by` is kept apart from `claimed_by`, as in the document; fields
  left behind by cancellation or by `ticket_request_human` stay until
  `reconcile_inactive_work_ownership` removes them.
* *Passes over the queue* are `Along`: a recursive function from an index to the
  document reached there, so that no recursive operator stands in the way of a proof.
  `Tabulated(f)` is f; it only makes TLC compute a document once.
* *The journal* follows one ticket, so that `ticket_created` and
  `ticket_status_changed` to open (`append_opened`, visible to everybody while the
  ticket is open) differ from events addressed to recipients. `ticket_human_resolve`
  opens the ticket too, with an event that is for its recipients only
  (`append_resolved`). The byte bound of a page is the free choice of the last event
  that fits.
* *A round of `_drain`* is a page (`drain_read`, or `drain_resync`), whose events are
  out before anything is acknowledged, and then the acknowledging call
  (`drain_acknowledge`) or none (`drain_unacknowledged`). That call asks for
  `scan_count` events from `next_cursor - scan_count` on (client.py:2260, 2274):
  `scan_count` is the length of the raw page (16327), also when the byte bound cut
  the page, so that the start may lie before the page. When it is negative,
  `read_after` refuses it (journal.py:154-155), the error is none that `events()` retries,
  and the stream ends (`drain_fails`). The round of a consumer may be interrupted by a
  restart, by other reads of the same seat (`board_catchup`), by compaction and appends.

**Waiting (`WaitBridge`).** One board is followed. Central commits an event and
sends its cue in a later step, or crashes in between. `Connect` to
`ConnectionLost` are the producer task of `events()` with its subscription, the
pages of `_drain`, the queue of one (`inner`) and the reconnect that starts again
at the cursor of the first drain; `_push_cues` moves items to the queue of the
call (`outer`), and `EndPage` puts the cursor there directly, as the cursor
callback does. A call enters, looks at the journal and the offers, waits, and
returns for one of the reasons the code has. Cancelling the stream when a call
returns loses what it holds; `dropped` remembers it. An event is an `offer`
(which the ticket also shows), a `note` (which only the journal tells) or
irrelevant to the seat. The stream is asked with `only_mine=False`, so that
filtering an event in the stream needs no further call (6478, client.py:2296). The
bridge's own `_is_relevant` calls `ticket_get`, after the cursor of the call has moved to the event
(pursers_wait_server.py:7004-7012): when the board refuses, the event counts as not
relevant (5453-5470) and lies behind the cursor (`TicketReadFails`; `misread` remembers
it); another error ends the call without an answer (`CallRaises`).

**Unattended seats (`SeatRuntime`, `ReviewerSeat`).** Every call to Central is a
step with one of four replies: carried out, refused, lost on the way, carried
out with the reply lost. A worker's program counter follows `Worker.run`,
`_startup_sweep`, `run_ticket` and the worktree manager; a crash or a stop signal may
come between any two steps. `Renewed` says who keeps a lease alive: the renewal
task of a session, and the wait, which renews every claim its join reported. The
other seats move tickets as `TicketLease` allows.

**Fleet executor (`FleetExecutor`).** The executor handles one request at a time,
and each commit of the store and each call of the adapter that changes something is a
step, so that services may die, the executor may crash and the observer of the butler's
process may write the row in between; a re-role is `Stop`, `Replace`, `Restart`,
`InspectChanged` and `SaveChanged`. Merged are `instantiate` with `start` (`Launch`), and a rollback's
stop with its row (`Rollback`): the row names no process then, so that the observer leaves it
alone. An inspection may fail (`Blind`): it then
reports a service that exists and does not run. Leases and registry readiness are
files of other processes, so each reading is a free choice. Authentication and
rosters decide which requests are made at all.

**Butler (`ButlerAnswers`).** The findings document has two kinds of writers. The
cycle of a question, the one-shot commands and the holds of mechanical actions compare
and swap: `current` says who holds the document as it is now, and after a conflict a draft is
merged by `merge_finding`, a failure or a command by `_reapply_findings_value`
(`Grown`, `Reapplied`, with its corner cases: a history that is gone comes back whole,
the first entry of a history yields to another's first entry, a marked observation replaces the plan). The
report of each refresh (`write_reports`) does not: `coordinator["run"]` builds it from
what was read when the refresh began, without the `board_butler` part of the document, and writes
it unconditionally. The cycle's program counter follows `process_question` and
`advance_autonomous_answer`; each read and write is a step. The hold, the
counting window of vetoes and failures, the draft and the evidence are free
choices within what the code allows. Cutting the document to its bounds may drop
any row that is not critical and not the one written. Observations of the board, which may
bear a question's id, are not kept: whether a veto meets one first is a free choice of
`StartCommand`.

**Batch delivery (`BatchDelivery`).** One route under one policy. The ledger in the
model is the saved one: an action goes from one save, or one call of the adapter, to
the next, and `Crash` may come after each. A reservation is saved before its call and
carries the call's payload, so that a replay finds it; a call is carried out or not, and
answers `confirmed`, `unknown` or `conflict`. `Collect`, `Join` and `AfterMerge` are
`collect_approved_ticket`; `Release` to `SettleUpdate` are the release with `Validate`
(`validate_cumulative`), the snapshot and the pull request; `ReadBack`, `Derive` and
`observe_customer_completion` the reconciliation. A commit is what it contains: the tickets merged into it
and the edits of outsiders. The customer answers pull requests, the target moves
between validation and release (`TargetMoves`), and outsiders push to the integration and snapshot branches.

## 3. Runs

| run | instance | shows |
|---|---|---|
| `journal_delivery` | 1 consumer, 3 events of every kind, pages up to 2, cap 2, floor 1 | nothing is skipped silently whatever the page limit, byte bound, acknowledgement that counts back too far, ended stream, restart, compaction and sweep |
| `journal_live` | 1 consumer, 3 events, pages up to 2, cap 3, 2 warnings for 1 idempotency entry, fair | every event reaches a consumer that drains, unless its stream ended on a cut page at the start of the journal; below the cap a sweep forces no resync on a live consumer; a warning is repeated only when its entry was evicted and its row is gone |
| `board_seats` | 2 seats, one with readiness, 2 tickets | offers that can be seen can be taken; one reaper pass settles the board |
| `board_review` | 3 seats, two of one principal, an admin, 1 ticket, strict policy | implements `TicketLease`, with releases, renewals, verdicts, human requests and cancellation |
| `board_assign` | 2 workers, an admin coordinator, 2 tickets, pins | one job per seat, no offer twice in a cycle, pins and offers agree, counters bounded |
| `board_live` | 3 seats, 1 ticket, fair | lapsed leases end, unanswered offers reach the broadcast |
| `seats` | 1 worker, 1 other seat, 2 tickets, 2 faults, 1 crash or stop, fair | no work is lost, one claim at a time, claims end; exclusive leases, independent reviews |
| `waits` | 2 events, pages of 1, 2 faults, fair | no note falls behind the cursor unseen but those a cancelled stream held and those whose ticket could not be read, nothing is repeated, offers surface and notes arrive or are lost in these two ways |
| `fleet` | 2 seats that share a principal, 2 requests, 1 fault | caps and principals respected, a seat recorded as stopped has no process of its template, no request acts twice |
| `butler` | 1 question, 1 human, 2 controls, 1 fault, 2 attempts, fair | between two reports nothing is overwritten and stops are honoured; audits are true, plans settle or were dropped |
| `delivery` | 2 tickets (symmetric), 2 batches, 1 push of outsiders, 2 pull requests (1 under `rolling` and `branch_only`), every policy | the ledger is true, open pull requests list only what they contain, snapshots that are not rolling ones stay |
| `reviewer_race` | 1 worker, 1 reviewer, 1 other seat, 1 ticket, 2 submissions, no faults | finds a verdict that meets another submission than the one it was formed on |

Bounds. `MaxSeq`, `MaxPage` and `Inputs` bound the journal; `Ops`, `Pins` and
`Firsts` bound the board: each run enables the operations that its question is
about, since all of them at once exceed what TLC explores in minutes. Every
operation is enabled in at least one run. Two tickets are needed for every
conflict over a seat, and are enough because each check of the engine compares
one ticket with one other; a third seat is needed for independent reviews. Three
to five events with a cap of two or three let a consumer be behind, at, and
ahead of compaction, and let the sweep be cut by floor, cursor, window and cap in
turn. In `delivery` two tickets make a batch that is released, gains a late member and
is released again, or two batches that follow one another; the pushes of an outsider
may fall between any two steps. Symmetry is used there only, over tickets nothing tells
apart, with safety properties. In `waits` two events and pages of one give a page that is not
the last, an event in each queue at once, and a note overtaken by a cursor; two
faults let a failed `ticket_get` follow a lost cue or a broken connection. In `seats` two faults
(a claim whose reply is lost, then a board that cannot be read) give a worker two
claims, which a restart has to give back; one restart also resumes a worktree.
In `fleet` two seats hardly reach the host and board caps but always
compete for the principal; generations up to 2 let a stop, a recovery and an
adoption outdate each other's view. In `butler` one question is enough for the
races over its row; other questions only take place in the document, which is
what `Bounded` does. What a bound leaves open is covered by the proofs of section 4, but for liveness.

`CHECK_DEADLOCK FALSE` is used where everything may stop: tickets all finished
and faults used up (`seats`), requests used up (`fleet`), questions answered
(`butler`), everything delivered or blocked (`delivery`).

### A disagreement between the code and its documentation

`reviewer_race` (`VerdictBound`): tools/worker-runtime/README.md:115-118 says that
every verdict is bound to the submission it was formed on and is discarded if a
worker resubmits. `run_review` reads the ticket again and compares the revision
(pursers_worker.py:2373-2401), but the `ticket_review` call that follows names
only the ticket. If another reviewer rejects and the worker submits anew between
the two, the verdict on the old submission judges the new one.

### Fairness

* `Journal!FairSpec`: an event loop that can take a step of its round takes it
  (`events()` loops over cues and reconnects), and a consumer restarts finitely often: one that dies
  in every round is never done. That a round completes is not assumed. A stream that ended has no step
  to take, which `EventReachesConsumer` excepts by name (`EndedAtTheStart`).
* `Board!ReaperSpec`: time passes for offers and the reaper runs;
  `_recurring_reaper_loop` (3508) wakes every interval, and
  `schedule_offer_deadline` (5446) sets a task per offer. `Board!FairSpec` adds that
  some seat keeps calling the board, which waiting clients do. Fairness is written
  out (`ReaperIsFair`, `HeartbeatsAreFair`) because evaluating `ENABLED` of these actions
  is expensive. No fairness is assumed of claims, submissions or reviews.
* `SeatRuntime!SeatFairness`: a process that runs proceeds (its loop has no other
  way to stay at a step; `StopWorking` is part of it because the iterations of a session
  are bounded), a lease that nobody renews lapses, and a lapsed lease is reaped by
  some call. Starting a process is not assumed.
* `WaitBridge!Fairness`: the seat calls again, the entry checks and the deadline of
  a call (`clamp_timeout`) are reached. Nothing is assumed of the stream.
* `ButlerAnswers!Fairness`: the resident finishes what it began; each refresh replays
  every pending question (17838-17853), hence strong fairness of `Begin`, which other
  questions' cycles interrupt; holds elapse.

## 4. Proofs

**`JournalProofs`**, for any set of consumers, events, page sizes, floor and
cap that satisfy `JournalAssumption`:

* `AlwaysGood`: `IInv`, the conjunction of `TypeOK`, `RowsAreContiguous`,
  `CursorsNeverAhead`, `CaughtUpMeansShown` and `OpenTicketIsShown`, is inductive. None of
  the last two is inductive alone: that a page is an interval of sequence
  numbers (`PageIsInterval`) needs contiguity, and that an appended row is
  beyond every cursor needs `CursorsNeverAhead`. All speak of every cursor a consumer
  may go on from: the acknowledged one, that of its event loop, and that of a page which is out but not
  acknowledged (`StartCursors`); the acknowledging call acknowledges no more than a page's
  own cursor (`AcknowledgeFacts`). `EffectiveCursorSkipsNothing` is the heart: the cursor of a
  page, cut or not, covers only returned or invisible rows.
* `TypeCorrect`, `AlwaysContiguous`, `NeverAhead`, `NeverSkipsSilently`, `OpenTicketAlwaysShown`: its parts.
* `AckNeverBack`, `SweepUnderCap`, `SweepNeverDropsUnread`: action properties. The first two
  and `NeverAhead` need no run: they hold for every value of the constants.
* `AlwaysWarnedOnce`: every key that was warned about still has its idempotency entry,
  or its row in the journal, or was forgotten when both had gone; the trimming of the
  entries drops the oldest ones only, so a key whose entry is evicted is the one to blame.

**`TicketLeaseProofs`**, for any seats, tickets and irreflexive review policy:
the inductive invariant `AlwaysSound` and from it `LeasesAlwaysMatch`,
`AlwaysReviewedIndependently`, `NeverTakenOver`, `LapsedStaysLost` and
`TerminalStaysFinal`. Whatever implements `TicketLease` inherits them: `Board` and
`SeatRuntime` by the next theorems.

**`BoardProofs`**, for any seats, principals, roles, tickets, queue order, policy and
`Fallback`:

* The inductive invariant `IInv`: the document is one of `Docs` and nothing is `marked`
  between calls. A ticket of `Docs` is well typed and `Good`: leases, holders and the
  author agree with the status, and the reviewer under review may judge the author
  (`Owned`); an offer that stands can be counted once more without passing `Fallback`; one
  that its seat can see goes to an explicit seat able to do that kind of work that did not
  refuse it in this cycle, and respects the pin (`Offering`); missed pins are below `Fallback`
  because the miss that reaches it releases the pin. Type correctness alone is
  not inductive: that the counters stop at `Fallback` rests on what the dispatch engine
  offers, and that on the cycles. Its third part, `Seated`, is about the seats: no seat has
  jobs (a work lease, a review, an offer it can see) on two tickets (`Apart`); a seat that a
  ticket still keeps busy without being a job, such as a canceled one with its live work
  lease, is offered no other (`Unencumbered`); and an offer
  stands only on a ticket that is not parked and waits for its kind of work, with an
  author its seat may review, or, if the seat is no longer active, on one that somebody
  else works on (`Placed`; `Present` are the active seats).
* Every operator of `Dispatch` has a lemma saying that it leads from `Docs` to `Docs` and
  what it does to the ownership of a ticket: nothing (dispatch, revocation,
  redispatch), or it ends lapsed leases (`Ended`, the reap). A pass along the queue is
  `Along`; `IsPass` and `Climb` turn it into an induction over the documents
  it reaches. That induction is on one fixed relation at a time, with the least-element
  argument of `LeastNatural` in place of the library's rule with an operator parameter.
* `TypeCorrect` and `OffersAreRight`: consequences of `IInv`.
* `OneJob`: `Spec => []OneJobPerSeat`, from `Seated`. A dispatch offers a ticket only to a
  seat that is not busy elsewhere (`Grants`), and so do the claim gates (`ClaimedSeated`,
  `ReviewSeated`); everything else only ends jobs (`Lighter`). A
  submission and a question to a human may leave an offer standing on a ticket that no longer waits for
  its kind of work (a ticket claimed while no seat took part in dispatch keeps its offer); the
  redispatch at the end of these calls takes back every offer that is not well placed
  (`ReconcileKeeps`), so these two handlers keep `Placed` only as a whole.
* `OffersCanBeTaken`: `Spec => []OfferCanBeTaken`. The claim gate judges the board after a reap
  of its own that does not redispatch. That reap keeps the invariant (`ReapsAdvance`), so that
  the offer is still well placed and its seat free; and it leaves the members and the
  live offers of the seats that do not go stale alone (`ReapLasts`), so that the seat still has
  the offer. `Unencumbered` is there for this theorem: a lease left on a finished ticket
  is no job, yet it makes its seat ineligible. Where `ticket_cancel` leaves
  one, the redispatch at its end takes back every offer of its holder (`CanceledAdvances`).
* `ReaperAlwaysSettles`: `Spec => ReaperSettles`. A reap leaves every ticket that it has
  visited without a lapsed offer (`ReapTicketUpright`, `ReapSettles`): what it dispatches is live, and
  it never touches another ticket. The pass over the offers then leaves a `Sound` document
  (`ReconcileSound`): an offer that is kept is valid and its seat becomes reserved, and
  later steps of the pass revoke but never spoil an offer already looked at (`Checked`).
  The dispatch of one ticket keeps it `Sound`, because a new offer is `Granted`: valid, and to
  a seat that is not busy elsewhere; and it serves that ticket (`Served`: no eligible
  seat is left untried, or the ticket is offered or broadcast) without unserving those before it
  in the queue (`ServedStays`): dispatch frees no seat. Liveness of the earlier offers is needed
  here, as a lapsed offer does not make its seat busy.
* `Implements`: `Spec => ImplementsTicketLease`. For each handler, each ticket moves
  as one disjunct of `TicketLease!Moves` allows: the reap that a handler begins with and what
  the handler then does to its own ticket make one move: `TicketLease` lets a ticket be
  claimed, and its review be taken over, while the lapsed lease has not been reaped yet.
* `BoardNeverTakesOver`, `BoardLapsedStaysLost`, `BoardReviewsIndependently`: the theorems
  of `TicketLeaseProofs`, instantiated as `Owners` over the board's tickets.

**`SeatProofs`**, for any workers, seats, tickets, faults and crashes:

* `SeatsKeepThePromise`: `SeatSpec => Spec`, every step of a process is a move of
  `TicketLease` or leaves the tickets alone.
* `SeatsTypeCorrect`, and from it `WorkNeverLost`: uncommitted changes disappear
  only after their submission. The invariant ties `submitted` to the step
  `clean`, and says that a process that is at a step of a session has a ticket.
* `OneClaimAlways`: needs that, as long as no call was lost, what the board shows
  as the seat's claims is what the process believes: none while it looks for one,
  its task while it works on it, the claims to give back after a restart.

**`WaitProofs`**, for any number of events, page size and faults:

* `AlwaysInv`: the inductive invariant. What was told lies behind the cursor and
  what is on its way lies after it (`Fresh`); every position that may become a
  cursor (the call's, the stream's, those in the queue, the end of a page) is
  *covered*: each note before it was told, dropped, misread, or has been seen by the
  stream (`Cover`); what the stream has seen is in one of the queues or behind the
  cursor (`StreamOK`); the next event of a page is the least one not seen.
* `TypeCorrect`, `NothingSkipped`, `NothingRepeated`: its consequences.

**`FleetProofs`**, for any finite set of seats, any templates, principals, caps
and bounds: all four properties of `FleetExecutor`.

* `TypeCorrect`: needs that a retried start is below the limit of attempts until
  the attempt is counted, and that a re_role has a generation left.
* `ActsAtMostOnce`: an operation that has acted is pending or has a lasting
  result, so it cannot be reserved again.
* `StoppedStaysStopped`: process references are never reused, so the observer's
  compare-and-swap cannot mistake a new process for the one it saw dead; the row
  of a start under way names no process; and from the first step of a re-role to its save the
  unit is either still that of a stopped service or the target's (`Observed`).
* `CapsAlwaysHold`: a request past its checks has a place beside the active seats
  under every template it may record (`Placed`). Nothing else makes a seat active,
  so the place is still there when the row is saved in a later commit. That drain
  and stop find an active seat rests on `StoppedStaysStopped`.

**`ButlerProofs`**, for any questions, humans, limits, attempts, commands and reports:

* `AlwaysInv`: `NothingIsOverwritten` is not inductive, because what a command or a
  failure is about to write was computed from an earlier document. `CommandInv` says that a
  command writes at least what it has read (`AtMost`) and its own veto or kill, that
  what it has read is the present control state as long as its copy is current, and that nobody else
  has vetoed since; `FailInv` says the same of a failure. A merge after a conflict keeps both, because
  it adds to the histories of the document read anew.
* `TypeCorrect`, `NothingLost`: its consequences.
* `StopsAlwaysHonoured`: the remaining part, `CycleInv`: a cycle that goes on past its plan was
  stopped by a kill at most, which it has read and obeys, and one that answers was not stopped.
* `AuditsAreTrue` needs more: a cycle that is about to note an answer as its own knows that
  Central has it, whoever answered meanwhile.

**`DeliveryProofs`**, for any tickets, policies and bounds:

* `TypeCorrect`: `TypeInv`, with what the butler's step is about (`OpInv`) and how the parts
  of a batch refer to one another and to the remote (`BatchInv`).
* `LedgerStaysTrue`: `Ledger`. The head of a batch is on the integration branch; a
  merge under way starts from it; what a merge is read back to have left holds all
  that the ledger keeps. Others only push on top, so that what is included stays so.
* `ManifestStaysTrue`: `Manifest`. Whatever is pushed or offered was validated to hold
  every member at the time, an open pull request follows its snapshot (`FollowInv`), and snapshots lose nothing.
* `SnapshotsStay`: needs that at most one unsettled merge of a batch is on the
  branch and not in its head (`MergeInv`), so that a batch released in full is `Closed`: its
  head cannot move, and a second release finds the snapshot it would push.

Only model-checked: liveness and fairness (`LapsedLeasesEnd`, `UnansweredFallsBack`,
`ClaimsEnd`, `OffersSurface`, `NotesArrive`, `EventReachesConsumer`, `PlansSettle`: out of TLAPS's
reach here). Every other property of a passing run is a theorem.

## 5. Observations

Cases met while modelling that the code leaves as they are. No run depends on
them unless said.

* The recurring sweep ends no lapsed lease by itself: `check_and_reap_expired`
  (5426-5436) returns unless an offer has expired or is invalid;
  docs/reference/environment.md:17 speaks of "automatic expired-lease sweeps".
  `LapsedLeasesEnd` therefore assumes that some seat calls the board.
* A refused `ticket_claim` reaps with `redispatch=False` (11171), so an expired
  offer it takes back waits for another call; docs/guides/running-a-fleet.md:82-83
  says it is redispatched.
* The row cap of the journal sweep wins over unread rows (2963-2966), unlike the
  docstring at 2910-2911; `SweepKeepsUnread` is stated below the cap.
* README.md:69 draws rejected work going "back to the same worker", while dispatch
  avoids the last claimer whenever another worker is a candidate (4921-4936).
* A release that fails is only logged (pursers_worker.py:1745), and the seat's
  joins and waits renew every claim it has (7527-7560): such a claim stays with
  the seat for as long as its process runs and finds no reason to claim, although
  nobody works on it. `ClaimsEnd` is stated for calls that get their reply.
* `_drain` counts back from the cursor of its page by `scan_count` (client.py:2260). When the byte
  bound cut a page near the start of a board's journal, the start is negative, the call raises, and
  `events()` ends; a client that starts again meets the same page. `EventReachesConsumer` names the case.
* A ticket that a human sends back to the queue (11794) has no event that everybody sees: only the
  recipients of `HUMAN_INPUT_RESOLVED`, and whoever is offered the ticket, learn of it. `OpenTicketIsShown`
  is stated for the other openings and for these recipients.
* A call of the wait bridge may return a cursor whose last event still sits in the
  stream's queue, or go on past an event whose ticket it could not read
  (pursers_wait_server.py:5453-5470). Offers are found again on the board; a note (a change of a ticket
  the seat holds) is not (`SkippedOnlyInFlight` names both cases).
* `FleetExecutor`: what is recorded after a stop asks only whether the service
  was seen running (1859-1862, 1891), while the rollback also asks that it was
  identified; a failed inspection thus records a running service as stopped. An
  executor that crashes leaves its operation pending, answered as unknown for
  good, and a seat recorded as starting, which keeps its place under the caps.
  `save_seat` writes unconditionally, so that a start or a drain that races the
  observer can put an older generation back. While a seat is re-roled its row still names the
  process that was stopped: an observer that saw it gone may record the seat as stopped
  (fleet_executor.py:797-822) after the target's process has started and before it is saved (1864-1885), for
  good if the executor crashes in between, although the docstring at 808-809 says that matching
  generation and process reference prevents the retirement of a newer process. `StoppedHasNoProcess`
  speaks of processes of the recorded template for this reason; the caps count rows, not processes. Seats that ran behind the
  executor's back (`astray`) are left out of the properties.
* `ButlerAnswers`, the report: each refresh (board_butler.py:17117) ends with a report that has no
  `board_butler` part, so that the kill switch and the histories of vetoes and failures are gone, and that
  carries the rows of questions over only after cutting them to `MAX_FINDING_CHARS`
  (coordinator.py:2095-2151), which takes their `question_id` and `hold`. A plan that
  spans a refresh is therefore escalated or drafted anew with a new hold, a vetoed question too, and
  the butler answers again after a kill. It is also written without `expected_sha256`
  (coordinator.py:4060-4063, 4133-4136), over whatever was committed since the refresh began. This is unlike
  tools/board-butler/README.md:591-593 and 599-601 and the comment at coordinator.py:3334-3336 ("Preserve
  their durable holds across refreshes"). `NothingIsOverwritten` and `StopsAreHonoured` hold from one report
  to the next, and no run or theorem says more.
* `ButlerAnswers`, the rest: a veto may mark an observation that bears the question's id instead of its
  plan (board_butler.py:12959-12964), which then goes on. A vetoed question whose row was dropped from the bounded document
  while its audit is pending is drafted anew (docs/design/autonomous-board-butler.md:448-450
  speaks of a durable veto). Redrafting restarts the hold; a veto or a kill
  committed after a cycle read the plan is not seen by it; a human who answers
  during the hold may leave the audit pending; an answer whose reply is lost is
  audited as failed. Left out of the merge after a conflict are two rows of one question
  after a plain merge of lists, and a capacity diagnostic removed by a kill that took an observation for its change.

* `BatchDelivery`, all of `integration_delivery.py` unless said:
  a crash between a reservation and its result leaves the batch collecting with the
  reservation pending; nothing in the resident calls `reconcile_unknown` for batches that are not drafts, or
  `observe_customer_completion`. A crash between the save of a membership and the
  reservation of its merge leaves the ticket approved for ever, and one ticket whose merge conflicts
  strands its batch. A ticket that joins a frozen batch after its snapshot was
  pushed is marked in delivery, or merged by the customer, together with the others although the snapshot lacks
  it; after a failed release such a member makes every further release refused. A push that landed
  but whose call raised is taken for an external edit; a new batch accepts the edited head. A crash
  after the confirmed creation of a pull request (1097) and before the batch is
  saved lets the next release create a second one once the customer has answered the first, where
  docs/batch-delivery-runtime.md:18 says "creates or reuses one correlated customer pull
  request". The runtimes that the butler keeps per revision of the policy (board_butler.py:7788-7806) share one
  ledger file. When base and target differ, the check of the target compares the heads of different branches.

## 6. Not modelled

* Central: `agent_retire_inert`, `board_stale_after_set`, `agent_capabilities_set`,
  `board_dispatch_policy_set` (the models use the default policy: fallback
  broadcast and second opinion on), `ticket_progress_update`, annotations,
  memory text, state documents other than the butler's; the archive tier;
  admission, membership and invites; butler commands. Malformed documents: the
  code treats unparsable expiry times as ambiguous; the models start from
  documents the tools wrote. Read-only tools, formatting, scrubbing, diagnostics.
* Wait bridge: the lease keeper other than as a reason to return, the compaction of
  long replays (`_compact_events`), resync within a wait (`Journal` has it), doors, and
  the single-board variant `_wait_for_work`, which has the same shape.
* Runtime: several boards of one worker, the sandbox, model usage.
* Executor: authentication, rosters, uniqueness of bindings, receipts. The
  planner of the butler that sends its requests: composed with the executor it
  exceeds three million states for two seats.
* Batch delivery: drafts held by a report, conflict repair, triggers other than `ready`, the per-ticket mode.
* The coordinator, the dashboard, importers, migration and release scripts,
  proxies and connectors: presentation, file handling, or clients of the tools
  that are modelled here.

## 7. Plan

Done: the modules, runs and proofs above. Next, in this order:

1. `ButlerCommands`: `transition_allowed`, submission, acknowledgement, cancellation, results.
2. `Membership`: invites, members, roles, generation checks, and the seats of `Board` from it.
