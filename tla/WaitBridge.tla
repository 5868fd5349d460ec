----------------------------- MODULE WaitBridge -----------------------------
(***************************************************************************)
(* How a seat that waits for work learns of it: Central commits an event   *)
(* and only then sends a cue to its subscribers; the client's event stream *)
(* (BoardClient.events) drains the journal on every connection and cue and *)
(* relays through a queue of one; _wait_for_work_many of the wait bridge   *)
(* collects events and cursors from the stream, or polls, and returns both *)
(* to its caller, which calls again with the returned cursor.              *)
(*                                                                         *)
(* One board is followed; what happens on the others is a reason to return *)
(* (OtherBoardReturns).  An event announces an offer, which is also kept   *)
(* on the ticket ("offer"), or something only the journal tells ("note"),  *)
(* or is not relevant to the seat ("other").                               *)
(***************************************************************************)
EXTENDS Naturals, Sequences, FiniteSets

CONSTANTS
    MaxEvents,      \* bound on the journal
    PageSize,       \* events of one board_catchup page
    MaxFaults       \* bound on lost connections, failed streams and reads, restarts

ASSUME WaitAssumption ==
    MaxEvents \in Nat /\ PageSize \in Nat \ {0} /\ MaxFaults \in Nat

VARIABLES
    journal,    \* the kinds of the events, by sequence number
    offers,     \* the offers that are still made
    unsent,     \* an event is committed and its cue not sent yet
    stream,     \* the event stream of the call
    cue,        \* a cue waits in the subscription
    inner,      \* the queue of events(), at most one item; 0 is a failure
    outer,      \* the queue of the call; it is emptied at once, so a set
    call,       \* the call in progress
    since,      \* the cursor the seat passes to its next call
    told,       \* events that were returned to the seat
    repeated,   \* events that were returned to it again
    surfaced,   \* offers that were returned from the board's state
    dropped,    \* events the stream held when its call returned
    misread,    \* events taken from the stream whose ticket could not be read
    guard,      \* the cursor of the last immediate return of offers
    faults

board == <<journal, offers, unsent>>
pipe == <<stream, cue, inner, outer>>
seat == <<since, told, repeated, surfaced, dropped, misread, guard>>
vars == <<board, pipe, call, seat, faults>>

Kinds == {"offer", "note", "other"}
Smaller(a, b) == IF a <= b THEN a ELSE b

NoStream == [pc |-> "off", first |-> FALSE, reading |-> FALSE, initial |-> 0,
             position |-> 0, at |-> 0, page |-> {}, end |-> 0, more |-> FALSE,
             seen |-> {}]
NoCall == [pc |-> "idle", cursor |-> 0, push |-> FALSE, fallback |-> FALSE]

Init ==
    /\ journal = <<>> /\ offers = {} /\ unsent = FALSE
    /\ stream = NoStream /\ cue = FALSE /\ inner = {} /\ outer = {}
    /\ call = NoCall
    /\ since = 0 /\ told = {} /\ repeated = {} /\ surfaced = {}
    /\ dropped = {} /\ misread = {} /\ guard = MaxEvents + 1
    /\ faults = 0

Fault == faults < MaxFaults /\ faults' = faults + 1

-----------------------------------------------------------------------------
(* Central. *)

(* The transaction of a call commits an event; the cue is sent afterwards. *)
Commit(kind) ==
    /\ Len(journal) < MaxEvents
    /\ journal' = Append(journal, kind)
    /\ offers' = IF kind = "offer" THEN offers \cup {Len(journal) + 1} ELSE offers
    /\ unsent' = TRUE
    /\ UNCHANGED <<pipe, call, seat, faults>>

(* Cues reach the subscriptions that are open; they carry no content. *)
Notify ==
    /\ unsent
    /\ unsent' = FALSE
    /\ cue' = (cue \/ stream.pc \in {"drain", "listen"})
    /\ UNCHANGED <<journal, offers, stream, inner, outer, call, seat, faults>>

(* An offer is taken, revoked or expires. *)
OfferEnds ==
    /\ \E o \in offers : offers' = offers \ {o}
    /\ UNCHANGED <<journal, unsent, pipe, call, seat, faults>>

(* A crash of Central between the commit and the cue loses the cue, and    *)
(* every connection with it.                                               *)
CentralRestarts ==
    /\ unsent /\ Fault
    /\ unsent' = FALSE /\ cue' = FALSE
    /\ stream' = IF stream.pc \in {"drain", "listen"}
                   THEN [stream EXCEPT !.pc = "connect", !.reading = FALSE, !.page = {}]
                   ELSE stream
    /\ UNCHANGED <<journal, offers, inner, outer, call, seat>>

-----------------------------------------------------------------------------
(* The event stream of the client. *)

(* Live first: the subscription is open before the first drain, which      *)
(* starts at the initial cursor of the stream.                             *)
Connect ==
    /\ stream.pc = "connect"
    /\ stream' = [stream EXCEPT !.pc = "drain", !.first = TRUE, !.at = stream.initial]
    /\ UNCHANGED <<board, cue, inner, outer, call, seat, faults>>

(* A page; own events and kinds that were not asked for never show up, and *)
(* what this stream has yielded before is left out.                        *)
ReadPage ==
    LET last == Smaller(stream.at + PageSize, Len(journal))
    IN  /\ stream.pc = "drain" /\ ~stream.reading
        /\ stream' = [stream EXCEPT
             !.reading = TRUE, !.end = last, !.more = last < Len(journal),
             !.page = ((stream.at + 1)..last) \ stream.seen]
        /\ UNCHANGED <<board, cue, inner, outer, call, seat, faults>>

(* The event of the page that comes next. *)
IsNext(n) == n \in stream.page /\ \A m \in stream.page : n <= m

(* Mutant of Yield: the queue is not bounded. *)
YieldUnbounded ==
    /\ stream.reading
    /\ \E n \in stream.page :
         /\ IsNext(n)
         /\ inner' = inner \cup {n}
         /\ stream' = [stream EXCEPT !.page = @ \ {n}, !.seen = @ \cup {n}]
    /\ UNCHANGED <<board, cue, outer, call, seat, faults>>

(* The next event of the page enters the queue of one when it has room. *)
Yield ==
    /\ stream.reading /\ inner = {}
    /\ \E n \in stream.page :
         /\ IsNext(n)
         /\ inner' = {n}
         /\ stream' = [stream EXCEPT !.page = @ \ {n}, !.seen = @ \cup {n}]
    /\ UNCHANGED <<board, cue, outer, call, seat, faults>>

(* After the last event of a page entered that queue, the cursor goes      *)
(* straight to the queue of the call.                                      *)
EndPage ==
    /\ stream.reading /\ stream.page = {}
    /\ outer' = outer \cup {<<"cursor", stream.end>>}
    /\ stream' = [stream EXCEPT
         !.reading = FALSE, !.position = stream.end, !.at = stream.end,
         !.initial = IF ~stream.more /\ stream.first THEN stream.end ELSE @,
         !.first = stream.more /\ @,
         !.pc = IF stream.more THEN "drain" ELSE "listen"]
    /\ UNCHANGED <<board, cue, inner, call, seat, faults>>

(* A cue starts a drain from the cursor of the last page. *)
TakeCue ==
    /\ stream.pc = "listen" /\ cue
    /\ cue' = FALSE
    /\ stream' = [stream EXCEPT !.pc = "drain", !.at = stream.position]
    /\ UNCHANGED <<board, inner, outer, call, seat, faults>>

(* A lost connection is noticed by a read or by the subscription; the      *)
(* stream connects anew, or gives up if the error is not retryable.        *)
ConnectionLost ==
    /\ stream.pc = "listen" \/ (stream.pc = "drain" /\ ~stream.reading)
    /\ Fault
    /\ cue' = FALSE
    /\ \/ stream' = [stream EXCEPT !.pc = "connect"] /\ UNCHANGED inner
       \/ inner = {} /\ inner' = {0} /\ stream' = [stream EXCEPT !.pc = "failed"]
    /\ UNCHANGED <<board, outer, call, seat>>

(* _push_cues moves the item to the queue of the call. *)
_push_cues ==
    /\ \E n \in inner :
         outer' = outer \cup {IF n = 0 THEN <<"failed", 0>> ELSE <<"event", n>>}
    /\ inner' = {}
    /\ UNCHANGED <<board, stream, cue, call, seat, faults>>

-----------------------------------------------------------------------------
(* The call. *)

_is_relevant(n) == journal[n] = "note" \/ n \in offers

(* The relevant events after the cursor, up to sequence number `last`. *)
Relevant(cursor, last) == {n \in (cursor + 1)..last : _is_relevant(n)}

(* Mutant of _reconciled_offer_events: offers behind the cursor count as told. *)
OffersAfterCursor == {o \in offers : o > since}

(* The offers that the state of the board shows. *)
_reconciled_offer_events == offers

(* They are added to what is returned, unless an offer is among it already. *)
_reconcile_offers(found) == IF found \cap offers # {} THEN {} ELSE _reconciled_offer_events

(* The state cannot be read: that is only logged, and no offer is added. *)
ReadOffers(shown, made) ==
    \/ made = shown /\ UNCHANGED faults
    \/ made = {} /\ Fault

EventsIn(items) == {x[2] : x \in {y \in items : y[1] = "event"}}

(* The call returns the events found, the offers on the board and its      *)
(* cursor.  What the stream still holds, `left` of it in the queue of the  *)
(* call, is cancelled with it.                                             *)
Return(found, cursor, made, left) ==
    /\ told' = told \cup found
    /\ repeated' = repeated \cup (told \cap found)
    /\ surfaced' = surfaced \cup made
    /\ since' = cursor
    /\ dropped' = dropped \cup (inner \ {0}) \cup EventsIn(left)
    /\ call' = NoCall
    /\ stream' = NoStream /\ cue' = FALSE /\ inner' = {} /\ outer' = {}
    /\ UNCHANGED misread

respond(found, cursor, left) ==
    /\ \E made \in {_reconcile_offers(found), {}} :
         ReadOffers(_reconcile_offers(found), made) /\ Return(found, cursor, made, left)
    /\ UNCHANGED <<guard, board>>

(* A return before blocking: offers from the state of the board are part   *)
(* of it once per cursor (_guard_immediate_synthetic_events).              *)
Immediate(found, cursor, made) ==
    /\ Return(found, cursor, IF guard = cursor THEN {} ELSE made, {})
    /\ guard' = IF made # {} THEN cursor ELSE guard
    /\ UNCHANGED board

Enter ==
    /\ call.pc = "idle"
    /\ \E push \in BOOLEAN : call' = [NoCall EXCEPT !.pc = "entry", !.cursor = since, !.push = push]
    /\ UNCHANGED <<board, pipe, seat, faults>>

(* The loop after the entry checks: the stream starts at the cursor. *)
Wait(cursor) ==
    /\ call' = [call EXCEPT !.pc = "wait", !.cursor = cursor]
    /\ stream' = IF call.push
                   THEN [NoStream EXCEPT !.pc = "connect", !.initial = cursor, !.position = cursor]
                   ELSE NoStream
    /\ UNCHANGED <<cue, inner, outer>>

(* A cue of the lease keeper is returned before anything is read; it is    *)
(* sent when a lease could not be renewed.                                 *)
KeeperReturns ==
    /\ call.pc = "entry" /\ Fault
    /\ Immediate({}, call.cursor, _reconcile_offers({}))

(* Mutant of EntryCheck: a partial catch-up returns the end of the journal. *)
EntryCheckToEnd ==
    /\ call.pc = "entry"
    /\ \E last \in (call.cursor + 1)..Len(journal) :
         respond(Relevant(call.cursor, last), Len(journal), {})

(* Mutant of EntryCheck: the stream is trusted to replay the journal. *)
EntryCheckTrusting ==
    /\ call.pc = "entry"
    /\ Wait(call.cursor)
    /\ UNCHANGED <<board, seat, faults>>

(* Before blocking: the journal from the cursor on, and the offers of      *)
(* tickets that are not in it.  If time runs out the catch-up is partial   *)
(* and the call returns with what it has; it is taken to have read at      *)
(* least one page.                                                         *)
EntryCheck ==
    LET end == Len(journal)
        found == Relevant(call.cursor, end)
        others == _reconciled_offer_events \ found
    IN  /\ call.pc = "entry"
        /\ \/ \E last \in (call.cursor + 1)..end :
                LET part == Relevant(call.cursor, last)
                IN  /\ last < end
                    /\ \E made \in {_reconcile_offers(part), {}} :
                         ReadOffers(_reconcile_offers(part), made) /\ Immediate(part, last, made)
           \/ \E made \in {others, {}} :
                /\ ReadOffers(others, made)
                /\ \/ (found # {} \/ (made # {} /\ guard # end)) /\ Immediate(found, end, made)
                   \/ /\ found = {} /\ (made = {} \/ guard = end)
                      /\ Wait(end)
                      /\ UNCHANGED <<board, seat>>

Largest(numbers) == CHOOSE c \in numbers : \A d \in numbers : d <= c

(* Mutant of Reached: an event does not move the cursor. *)
ReachedByCursors(items) ==
    Largest({call.cursor} \cup {x[2] : x \in {y \in items : y[1] = "cursor"}})

(* The cursor after the items: both cursors and events advance it. *)
Reached(items) == Largest({call.cursor} \cup {x[2] : x \in items})

(* Everything that is in the queue is taken at once.  Relevant events end  *)
(* the call, and a failed stream is replaced by polling.                   *)
TakeItems ==
    LET items == outer
        found == {n \in EventsIn(items) : _is_relevant(n)}
    IN  /\ call.pc = "wait" /\ outer # {}
        /\ \/ found # {} /\ respond(found, Reached(items), {})
           \/ /\ found = {} /\ outer' = {}
              /\ call' = [call EXCEPT !.cursor = Reached(items),
                                      !.fallback = @ \/ <<"failed", 0>> \in items]
              /\ UNCHANGED <<board, stream, cue, inner, seat, faults>>

(* The ticket of the next event cannot be read.  The cursor has advanced   *)
(* to the event already; what the board refused makes the event one that   *)
(* is not relevant, and the call goes on.                                  *)
TicketReadFails ==
    /\ call.pc = "wait" /\ Fault
    /\ \E n \in EventsIn(outer) :
         /\ \A m \in EventsIn(outer) : n <= m
         /\ outer' = outer \ {<<"event", n>>}
         /\ call' = [call EXCEPT !.cursor = Reached({<<"event", n>>})]
         /\ misread' = misread \cup {n}
    /\ UNCHANGED <<board, stream, cue, inner, since, told, repeated, surfaced, dropped, guard>>

(* Any other error is raised: the call ends without an answer, and the     *)
(* seat keeps its cursor.                                                  *)
CallRaises ==
    /\ call.pc = "wait" /\ EventsIn(outer) # {} /\ Fault
    /\ call' = NoCall
    /\ stream' = NoStream /\ cue' = FALSE /\ inner' = {} /\ outer' = {}
    /\ UNCHANGED <<board, seat>>

Polling == ~call.push \/ call.fallback

(* A poll, of a bridge that polls or whose stream failed. *)
poll_board ==
    LET found == Relevant(call.cursor, Len(journal))
    IN  /\ call.pc = "wait" /\ Polling
        /\ IF found # {} THEN respond(found, Len(journal), outer)
                         ELSE /\ call' = [call EXCEPT !.cursor = Len(journal)]
                              /\ UNCHANGED <<board, pipe, seat, faults>>

(* At the deadline a polling call polls once more; a healthy stream is     *)
(* trusted, and only the offers on the board are looked at.                *)
Timeout ==
    /\ call.pc = "wait"
    /\ IF Polling THEN respond(Relevant(call.cursor, Len(journal)), Len(journal), outer)
                  ELSE respond({}, call.cursor, outer)

(* The periodic scan of the board, a cue of the lease keeper or an event   *)
(* of another board ends the call.                                         *)
OtherBoardReturns ==
    /\ call.pc = "wait"
    /\ respond({}, call.cursor, outer)

-----------------------------------------------------------------------------
Central == (\E k \in Kinds : Commit(k)) \/ Notify \/ OfferEnds \/ CentralRestarts
Stream == Connect \/ ReadPage \/ Yield \/ EndPage \/ TakeCue \/ ConnectionLost \/ _push_cues
Bridge ==
    \/ Enter \/ KeeperReturns \/ EntryCheck \/ TakeItems \/ TicketReadFails \/ CallRaises
    \/ poll_board \/ Timeout \/ OtherBoardReturns

Next == Central \/ Stream \/ Bridge

(* A seat calls again after each return, and a call ends at its deadline. *)
Fairness == WF_vars(Enter) /\ WF_vars(EntryCheck) /\ WF_vars(Timeout)

Spec == Init /\ [][Next]_vars
FairSpec == Spec /\ Fairness

-----------------------------------------------------------------------------
Seqs == 1..MaxEvents

(* The journal, the queues, the cursors and the history keep to their types; *)
(* the queue of events() holds one item, and no cursor is ahead.             *)
TypeOK ==
    /\ journal \in Seq(Kinds) /\ Len(journal) <= MaxEvents
    /\ offers \subseteq 1..Len(journal) /\ unsent \in BOOLEAN
    /\ stream.pc \in {"off", "connect", "drain", "listen", "failed"}
    /\ stream.seen \subseteq Seqs /\ stream.page \subseteq Seqs
    /\ cue \in BOOLEAN
    /\ inner \subseteq Seqs \cup {0} /\ \A m, n \in inner : m = n
    /\ outer \subseteq {"cursor", "event", "failed"} \X (Seqs \cup {0})
    /\ call.pc \in {"idle", "entry", "wait"} /\ call.cursor <= Len(journal)
    /\ since <= Len(journal)
    /\ told \subseteq Seqs /\ repeated \subseteq Seqs /\ surfaced \subseteq Seqs
    /\ dropped \subseteq Seqs /\ misread \subseteq Seqs
    /\ guard \in 0..(MaxEvents + 1) /\ faults \in 0..MaxFaults

(* Nothing falls behind the cursor unseen: whatever polls, streams, lost   *)
(* cues, reconnects, partial catch-ups and restarts interleave, an event   *)
(* that only the journal tells and that lies behind the seat's cursor was  *)
(* returned to it, or was lost in one of the two ways the push path has: it *)
(* sat in the stream's queue when its call returned, or its ticket could    *)
(* not be read when it was taken from there.  What is polled is never lost. *)
SkippedOnlyInFlight ==
    \A n \in 1..since : journal[n] = "note" => n \in told \cup dropped \cup misread

(* The journal repeats nothing: a seat that passes the returned cursor to  *)
(* its next call is never handed an event a second time.                   *)
ReturnedOnce == repeated = {}

(* Every offer reaches the seat, from the journal or from the board's      *)
(* state, as long as it is made: no lost cue, skipped event or suppressed  *)
(* repetition keeps it from a seat that keeps calling.                     *)
OffersSurface ==
    \A n \in Seqs : n \in offers ~> (n \notin offers \/ n \in told \cup surfaced)

(* Every event that only the journal tells reaches the seat, or is lost on *)
(* the push path as above: none is held up for good, also when Central     *)
(* stops between the commit and the cue or the connection breaks.          *)
NotesArrive ==
    \A n \in Seqs : (n <= Len(journal) /\ journal[n] = "note") ~> n \in told \cup dropped \cup misread
=============================================================================
