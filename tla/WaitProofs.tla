------------------------------ MODULE WaitProofs ------------------------------
(***************************************************************************)
(* Proofs about WaitBridge, for a journal of any length, pages of any size *)
(* and any number of faults: nothing falls behind the seat's cursor except *)
(* what the stream of a finished call held and what was taken from it      *)
(* while its ticket could not be read, and nothing is told twice.          *)
(***************************************************************************)
EXTENDS WaitBridge, WellFoundedInduction, TLAPS

Last == Len(journal)

Streams ==
    [pc : {"off", "connect", "drain", "listen", "failed"}, first : BOOLEAN,
     reading : BOOLEAN, initial : Nat, position : Nat, at : Nat, page : SUBSET Nat,
     end : Nat, more : BOOLEAN, seen : SUBSET Nat]
Calls == [pc : {"idle", "entry", "wait"}, cursor : Nat, push : BOOLEAN, fallback : BOOLEAN]
ItemKinds == {"cursor", "event", "failed"}

BoardOK ==
    /\ journal \in Seq(Kinds) /\ Last \in 0..MaxEvents
    /\ offers \subseteq 1..Last /\ unsent \in BOOLEAN /\ faults \in 0..MaxFaults

PipeOK ==
    /\ stream \in Streams /\ cue \in BOOLEAN
    /\ inner \subseteq 0..Last /\ (\A m, n \in inner : m = n)
    /\ outer \subseteq ItemKinds \X (0..Last)

SeatOK ==
    /\ call \in Calls /\ call.cursor <= Last /\ since \in 0..Last
    /\ told \subseteq 1..Last /\ surfaced \subseteq 1..Last /\ dropped \subseteq 1..Last
    /\ misread \subseteq 1..Last
    /\ guard \in 0..(MaxEvents + 1)

(* The stream lives as long as the waiting call; it has read and remembers  *)
(* nothing that is not after the seat's cursor, nor beyond the journal.     *)
StreamOK ==
    /\ call.pc # "wait" => stream = NoStream /\ inner = {} /\ outer = {}
    /\ stream.initial <= Last /\ stream.position <= Last /\ stream.at <= Last
    /\ stream.seen \subseteq 1..Last /\ stream.page \subseteq 1..Last
    /\ stream.reading => /\ stream.pc = "drain" /\ stream.end <= Last /\ stream.at <= stream.end
                         /\ stream.page = ((stream.at + 1)..stream.end) \ stream.seen

(* What makes ReturnedOnce inductive: what was told lies behind the cursor, *)
(* what is on its way lies after it.                                        *)
Fresh ==
    /\ repeated = {} /\ told \subseteq 1..since
    /\ call.pc # "idle" => since <= call.cursor
    /\ stream.pc # "off" => since <= stream.initial /\ since <= stream.position
    /\ stream.pc = "drain" => since <= stream.at
    /\ \A n \in stream.seen \cup (inner \ {0}) \cup EventsIn(outer) : since < n

(* What makes SkippedOnlyInFlight inductive: every position that may become *)
(* a cursor has all notes before it told, lost or seen by the stream, and   *)
(* the notes the stream has seen are in one of the two queues or misread.   *)
Covered(v) ==
    \A n \in 1..v : journal[n] = "note" => n \in told \cup dropped \cup misread \cup stream.seen

Cover ==
    /\ Covered(since) /\ (call.pc # "idle" => Covered(call.cursor))
    /\ stream.pc # "off" => Covered(stream.initial) /\ Covered(stream.position)
    /\ stream.pc = "drain" => Covered(stream.at)
    /\ \A n \in inner : Covered(n)
    /\ \A x \in outer : Covered(x[2])
    /\ \A n \in stream.seen : journal[n] = "note" => n \in inner \cup EventsIn(outer) \cup misread

Inv == BoardOK /\ PipeOK /\ SeatOK /\ StreamOK /\ Fresh /\ Cover

(* The events in a queue. *)
LEMMA EventsAre ==
    ASSUME NEW items, NEW numbers, items \subseteq ItemKinds \X numbers, NEW m
    PROVE  m \in EventsIn(items) <=> <<"event", m>> \in items
<1>1. m \in EventsIn(items) => <<"event", m>> \in items
  BY DEF EventsIn
<1>2. <<"event", m>> \in items => m \in EventsIn(items)
  <2> SUFFICES ASSUME <<"event", m>> \in items PROVE \E x \in items : x[1] = "event" /\ m = x[2]
    BY DEF EventsIn
  <2> QED OBVIOUS
<1> QED BY <1>1, <1>2

(* The initial state. *)
LEMMA InitInv == Init => Inv
<1> SUFFICES ASSUME Init PROVE Inv
  OBVIOUS
<1>1. BoardOK
  <2>1. journal \in Seq(Kinds) /\ Last \in 0..MaxEvents /\ offers \subseteq 1..Last
        /\ faults \in 0..MaxFaults
    BY WaitAssumption DEF Init, Last
  <2>2. unsent \in BOOLEAN
    BY Zenon DEF Init
  <2> QED BY <2>1, <2>2 DEF BoardOK
<1>2. PipeOK
  BY DEF Init, PipeOK, NoStream, Streams
<1>3. SeatOK
  <2>1. call \in Calls /\ call.cursor = 0
    BY DEF Init, NoCall, Calls
  <2>2. Last = 0 /\ guard \in 0..(MaxEvents + 1)
    BY WaitAssumption DEF Init, Last
  <2> QED BY <2>1, <2>2 DEF Init, SeatOK
<1>4. StreamOK
  BY DEF Init, StreamOK, NoStream, Last
<1>5. Fresh
  BY DEF Init, Fresh, NoStream, NoCall, EventsIn
<1>6. Cover
  BY DEF Init, Cover, Covered, NoStream, NoCall
<1> QED BY <1>1, <1>2, <1>3, <1>4, <1>5, <1>6 DEF Inv

(* The invariant says what the properties say. *)
LEMMA InvImplies == Inv => TypeOK /\ SkippedOnlyInFlight /\ ReturnedOnce
<1> SUFFICES ASSUME Inv PROVE TypeOK /\ SkippedOnlyInFlight /\ ReturnedOnce
  OBVIOUS
<1>1. TypeOK
  <2>1. Last \in Nat /\ Last <= MaxEvents /\ 0..Last \subseteq Seqs \cup {0}
        /\ 1..Last \subseteq Seqs
    BY WaitAssumption DEF Inv, BoardOK, Seqs
  <2> QED BY <2>1 DEF Inv, BoardOK, PipeOK, SeatOK, StreamOK, Fresh, TypeOK, Last,
             Streams, Calls, ItemKinds
<1>2. SkippedOnlyInFlight
  <2> SUFFICES ASSUME NEW n \in 1..since, journal[n] = "note" PROVE n \in told \cup dropped \cup misread
    BY DEF SkippedOnlyInFlight
  <2>1. n \in told \cup dropped \cup misread \cup stream.seen
    BY DEF Inv, Cover, Covered
  <2>2. n \notin stream.seen
    BY DEF Inv, Fresh, SeatOK
  <2> QED BY <2>1, <2>2
<1>3. ReturnedOnce
  BY DEF Inv, Fresh, ReturnedOnce
<1> QED BY <1>1, <1>2, <1>3

-----------------------------------------------------------------------------
(* Central. *)

(* An event is appended: what lies before it stays. *)
LEMMA CommitStep ==
    ASSUME Inv, NEW kind \in Kinds, Commit(kind)
    PROVE  Inv'
<1>0. /\ journal \in Seq(Kinds) /\ Last \in Nat /\ Last < MaxEvents
      /\ journal' = Append(journal, kind)
      /\ UNCHANGED <<stream, cue, inner, outer, call, since, told, repeated, surfaced, dropped,
                     misread, guard, faults>>
  BY DEF Inv, BoardOK, Commit, Last, pipe, seat
<1>1. Last' = Last + 1 /\ \A n \in 1..Last : journal'[n] = journal[n]
  BY <1>0 DEF Last
<1>2. BoardOK'
  <2>1. journal' \in Seq(Kinds)
    BY <1>0
  <2>2. offers' \subseteq offers \cup {Last + 1} /\ offers \subseteq 1..Last
    BY DEF Commit, Inv, BoardOK, Last
  <2>3. offers' \subseteq 1..Last'
    BY <1>0, <1>1, <2>2
  <2>4. unsent' \in BOOLEAN
    BY Zenon DEF Commit
  <2> QED BY <1>0, <1>1, <2>1, <2>3, <2>4, WaitAssumption DEF BoardOK, Inv
<1>3. 0..Last \subseteq 0..Last' /\ 1..Last \subseteq 1..Last'
  BY <1>0, <1>1
<1>4. PipeOK'
  BY <1>0, <1>3 DEF Inv, PipeOK
<1>5. SeatOK'
  BY <1>0, <1>1, <1>3 DEF Inv, SeatOK, Calls
<1>6. StreamOK'
  <2>1. /\ stream.initial \in Nat /\ stream.position \in Nat /\ stream.at \in Nat
        /\ stream.end \in Nat
    BY DEF Inv, PipeOK, Streams
  <2> QED BY <1>0, <1>1, <1>3, <2>1 DEF Inv, StreamOK
<1>7. Fresh'
  BY <1>0 DEF Inv, Fresh, EventsIn
<1>8. ASSUME NEW v \in 0..Last, Covered(v)
      PROVE  Covered(v)'
  <2>0. Last \in Nat
    BY <1>0
  <2>1. 1..v \subseteq 1..Last
    BY <2>0
  <2>2. \A n \in 1..v : journal'[n] = journal[n]
    BY <1>1, <2>1
  <2> QED BY <1>0, <1>8, <2>2 DEF Covered
<1>9. Cover'
  <2>1. /\ since \in 0..Last /\ call.cursor \in 0..Last /\ stream.initial \in 0..Last
        /\ stream.position \in 0..Last /\ stream.at \in 0..Last /\ inner \subseteq 0..Last
        /\ (\A x \in outer : x[2] \in 0..Last) /\ stream.seen \subseteq 1..Last
    BY DEF Inv, SeatOK, PipeOK, StreamOK, Streams, Calls, BoardOK
  <2>2. /\ Covered(since)' /\ (call'.pc # "idle" => Covered(call.cursor)')
        /\ (stream'.pc # "off" => Covered(stream.initial)' /\ Covered(stream.position)')
        /\ (stream'.pc = "drain" => Covered(stream.at)')
    BY <1>0, <1>8, <2>1 DEF Inv, Cover
  <2>3. (\A n \in inner : Covered(n)') /\ (\A x \in outer : Covered(x[2])')
    BY <1>8, <2>1 DEF Inv, Cover
  <2>4. \A n \in stream.seen : journal'[n] = "note" => n \in inner \cup EventsIn(outer) \cup misread
    BY <1>1, <2>1 DEF Inv, Cover
  <2> QED BY <1>0, <2>2, <2>3, <2>4 DEF Cover, Covered, EventsIn
<1> QED BY <1>2, <1>4, <1>5, <1>6, <1>7, <1>9 DEF Inv

(* Steps that leave the journal, the queues, the call and what the stream   *)
(* has seen alone; a drain they start begins at a cursor of the stream.     *)
LEMMA QuietStep ==
    ASSUME Inv,
           UNCHANGED <<journal, inner, outer, call, since, told, repeated, surfaced, dropped, misread, guard>>,
           offers' \subseteq offers, unsent' \in BOOLEAN, cue' \in BOOLEAN,
           faults' \in 0..MaxFaults, stream' \in Streams,
           stream'.seen = stream.seen, stream'.initial = stream.initial,
           stream'.position = stream.position,
           stream'.pc # "off" => stream.pc # "off",
           call.pc # "wait" => stream' = stream,
           stream'.at \in {stream.at, stream.initial, stream.position},
           stream'.page \subseteq 1..Last,
           stream'.reading => stream' = stream,
           stream'.pc = "drain" =>
               stream' = stream \/ stream'.at \in {stream.initial, stream.position}
    PROVE  Inv'
<1>1. Last' = Last
  BY DEF Last
<1>2. BoardOK'
  BY <1>1 DEF Inv, BoardOK
<1>3. PipeOK'
  BY <1>1 DEF Inv, PipeOK
<1>4. SeatOK'
  BY <1>1 DEF Inv, SeatOK
<1>5. StreamOK'
  BY <1>1 DEF Inv, StreamOK
<1>6. Fresh'
  BY DEF Inv, Fresh, EventsIn
<1>7. Cover'
  <2>1. ASSUME NEW v PROVE Covered(v)' <=> Covered(v)
    BY DEF Covered
  <2>2. Covered(since)' /\ (call'.pc # "idle" => Covered(call.cursor)')
    BY <2>1 DEF Inv, Cover
  <2>3. (stream'.pc # "off" => Covered(stream.initial)' /\ Covered(stream.position)')
    BY <2>1 DEF Inv, Cover
  <2>4. stream'.pc = "drain" => Covered(stream.at)'
    BY <2>1 DEF Inv, Cover
  <2>5. (\A n \in inner : Covered(n)') /\ (\A x \in outer : Covered(x[2])')
    BY <2>1 DEF Inv, Cover
  <2> QED BY <2>2, <2>3, <2>4, <2>5 DEF Inv, Cover, Covered, EventsIn
<1> QED BY <1>2, <1>3, <1>4, <1>5, <1>6, <1>7 DEF Inv

(* A cue is sent. *)
LEMMA NotifyStep == Inv /\ Notify => Inv'
<1> SUFFICES ASSUME Inv, Notify PROVE Inv'
  OBVIOUS
<1>1. unsent' \in BOOLEAN
  BY Zenon DEF Notify
<1>2. cue' \in BOOLEAN
  <2>1. cue' = (cue \/ stream.pc \in {"drain", "listen"})
    BY DEF Notify
  <2> QED BY <2>1, Zenon
<1>3. UNCHANGED <<journal, offers, stream, inner, outer, call, since, told, repeated, surfaced,
                  dropped, misread, guard, faults>>
  BY DEF Notify, seat
<1> QED BY <1>1, <1>2, <1>3, QuietStep DEF Inv, BoardOK, PipeOK, StreamOK

(* An offer ends. *)
LEMMA OfferEndsStep == Inv /\ OfferEnds => Inv'
<1> SUFFICES ASSUME Inv, OfferEnds PROVE Inv'
  OBVIOUS
<1>1. UNCHANGED <<journal, unsent, stream, cue, inner, outer, call, since, told, repeated,
                  surfaced, dropped, misread, guard, faults>> /\ offers' \subseteq offers
  BY DEF OfferEnds, seat, pipe
<1>2. unsent' \in BOOLEAN
  <2>1. unsent \in BOOLEAN /\ unsent' = unsent
    BY <1>1 DEF Inv, BoardOK
  <2> QED BY <2>1, Zenon
<1> QED BY <1>1, <1>2, QuietStep DEF Inv, BoardOK, PipeOK, StreamOK

(* The counter of faults stays in its bound. *)
LEMMA FaultBound == Inv /\ Fault => faults' \in 0..MaxFaults
  BY WaitAssumption DEF Inv, BoardOK, Fault

(* Central restarts: the stream connects anew. *)
LEMMA CentralRestartsStep == Inv /\ CentralRestarts => Inv'
<1> SUFFICES ASSUME Inv, CentralRestarts PROVE Inv'
  OBVIOUS
<1>1. unsent' \in BOOLEAN /\ cue' \in BOOLEAN
  BY Zenon DEF CentralRestarts
<1>2. UNCHANGED <<journal, offers, inner, outer, call, since, told, repeated, surfaced,
                  dropped, misread, guard>> /\ faults' \in 0..MaxFaults
  BY FaultBound DEF CentralRestarts, seat
<1>3. CASE stream.pc \in {"drain", "listen"}
  <2>1. stream' = [stream EXCEPT !.pc = "connect", !.reading = FALSE, !.page = {}]
    BY <1>3 DEF CentralRestarts
  <2>2. stream \in Streams
    BY DEF Inv, PipeOK
  <2>3. /\ stream' \in Streams /\ stream'.pc = "connect" /\ stream'.page = {}
        /\ stream'.seen = stream.seen /\ stream'.initial = stream.initial
        /\ stream'.position = stream.position /\ stream'.at = stream.at
    BY <2>1, <2>2 DEF Streams
  <2>4. ~stream'.reading
    BY <2>1, <2>2 DEF Streams
  <2>5. call.pc = "wait"
    BY <1>3 DEF Inv, StreamOK, NoStream
  <2> QED BY <1>1, <1>2, <1>3, <2>3, <2>4, <2>5, QuietStep
<1>4. CASE stream.pc \notin {"drain", "listen"}
  <2>1. stream' = stream
    BY <1>4 DEF CentralRestarts
  <2> QED BY <1>1, <1>2, <2>1, QuietStep DEF Inv, PipeOK, StreamOK
<1> QED BY <1>3, <1>4

-----------------------------------------------------------------------------
(* The stream. *)

(* A connection is made, or a cue is taken, or a connection is lost. *)
LEMMA ConnectStep == Inv /\ Connect => Inv'
<1> SUFFICES ASSUME Inv, Connect PROVE Inv'
  OBVIOUS
<1>1. stream \in Streams /\ stream.pc = "connect" /\ call.pc = "wait" /\ ~stream.reading
      /\ stream.page \subseteq 1..Last
  BY DEF Inv, PipeOK, StreamOK, NoStream, Connect
<1>2. stream' = [stream EXCEPT !.pc = "drain", !.first = TRUE, !.at = stream.initial]
  BY DEF Connect
<1>3. /\ stream' \in Streams /\ stream'.page = stream.page /\ stream'.seen = stream.seen
      /\ stream'.initial = stream.initial /\ stream'.position = stream.position
      /\ stream'.at = stream.initial
  BY <1>1, <1>2 DEF Streams
<1>4. ~stream'.reading
  BY <1>1, <1>2 DEF Streams
<1>5. UNCHANGED <<journal, offers, unsent, cue, inner, outer, call, since, told, repeated,
                  surfaced, dropped, misread, guard, faults>>
  BY DEF Connect, board, seat
<1>6. unsent' \in BOOLEAN /\ cue' \in BOOLEAN
  <2>1. unsent \in BOOLEAN /\ cue \in BOOLEAN /\ unsent' = unsent /\ cue' = cue
    BY <1>5 DEF Inv, BoardOK, PipeOK
  <2> QED BY <2>1, Zenon
<1>7. faults' \in 0..MaxFaults
  BY <1>5 DEF Inv, BoardOK
<1> QED BY <1>1, <1>3, <1>4, <1>5, <1>6, <1>7, QuietStep

(* A cue is taken. *)
LEMMA TakeCueStep == Inv /\ TakeCue => Inv'
<1> SUFFICES ASSUME Inv, TakeCue PROVE Inv'
  OBVIOUS
<1>1. stream \in Streams /\ stream.pc = "listen" /\ call.pc = "wait" /\ ~stream.reading
      /\ stream.page \subseteq 1..Last
  BY DEF Inv, PipeOK, StreamOK, NoStream, TakeCue
<1>2. stream' = [stream EXCEPT !.pc = "drain", !.at = stream.position]
  BY DEF TakeCue
<1>3. /\ stream' \in Streams /\ stream'.page = stream.page /\ stream'.seen = stream.seen
      /\ stream'.initial = stream.initial /\ stream'.position = stream.position
      /\ stream'.at = stream.position
  BY <1>1, <1>2 DEF Streams
<1>4. ~stream'.reading
  BY <1>1, <1>2 DEF Streams
<1>5. UNCHANGED <<journal, offers, unsent, inner, outer, call, since, told, repeated,
                  surfaced, dropped, misread, guard, faults>>
  BY DEF TakeCue, board, seat
<1>6. unsent' \in BOOLEAN /\ cue' \in BOOLEAN
  <2>1. unsent \in BOOLEAN /\ unsent' = unsent /\ cue' = FALSE
    BY <1>5 DEF Inv, BoardOK, TakeCue
  <2> QED BY <2>1, Zenon
<1>7. faults' \in 0..MaxFaults
  BY <1>5 DEF Inv, BoardOK
<1> QED BY <1>1, <1>3, <1>4, <1>5, <1>6, <1>7, QuietStep

(* What a step of the stream leaves alone. *)
Elsewhere ==
    UNCHANGED <<journal, offers, unsent, call, since, told, repeated, surfaced, dropped, misread, guard>>

(* A step of the stream or its queues keeps what is said of the rest. *)
LEMMA ElsewhereKept ==
    ASSUME Inv, Elsewhere, faults' \in 0..MaxFaults
    PROVE  BoardOK' /\ SeatOK' /\ Last' = Last
<1>1. Last' = Last
  BY DEF Last, Elsewhere
<1>2. BoardOK'
  <2>1. unsent' \in BOOLEAN
    <3>1. unsent \in BOOLEAN /\ unsent' = unsent
      BY DEF Inv, BoardOK, Elsewhere
    <3> QED BY <3>1, Zenon
  <2> QED BY <1>1, <2>1 DEF Inv, BoardOK, Elsewhere
<1>3. SeatOK'
  BY <1>1 DEF Inv, SeatOK, Elsewhere
<1> QED BY <1>1, <1>2, <1>3

(* The connection is lost: the stream connects anew or fails. *)
LEMMA ConnectionLostStep == Inv /\ ConnectionLost => Inv'
<1> SUFFICES ASSUME Inv, ConnectionLost PROVE Inv'
  OBVIOUS
<1>1. /\ stream \in Streams /\ stream.pc \in {"listen", "drain"} /\ call.pc = "wait"
      /\ ~stream.reading /\ stream.page \subseteq 1..Last
  BY DEF Inv, PipeOK, StreamOK, NoStream, ConnectionLost
<1>2. Elsewhere /\ outer' = outer
  BY DEF ConnectionLost, board, seat, Elsewhere
<1>3. cue' \in BOOLEAN
  BY Zenon DEF ConnectionLost
<1>4. faults' \in 0..MaxFaults
  BY FaultBound DEF ConnectionLost
<1>5. BoardOK' /\ SeatOK' /\ Last' = Last
  BY <1>2, <1>4, ElsewhereKept
<1>6. ASSUME NEW c \in {"connect", "failed"}, stream' = [stream EXCEPT !.pc = c]
      PROVE  /\ stream' \in Streams /\ stream'.pc = c /\ stream'.page = stream.page
             /\ stream'.seen = stream.seen /\ stream'.initial = stream.initial
             /\ stream'.position = stream.position /\ stream'.at = stream.at
             /\ ~stream'.reading
  BY <1>1, <1>6 DEF Streams
<1>7. CASE stream' = [stream EXCEPT !.pc = "connect"] /\ UNCHANGED inner
  BY <1>1, <1>2, <1>3, <1>4, <1>5, <1>6, <1>7, QuietStep DEF BoardOK, Elsewhere
<1>8. CASE inner = {} /\ inner' = {0} /\ stream' = [stream EXCEPT !.pc = "failed"]
  <2>1. /\ stream' \in Streams /\ stream'.pc = "failed" /\ stream'.page = stream.page
        /\ stream'.seen = stream.seen /\ stream'.initial = stream.initial
        /\ stream'.position = stream.position /\ stream'.at = stream.at
        /\ ~stream'.reading
    BY <1>6, <1>8
  <2>2. PipeOK'
    BY <1>2, <1>3, <1>5, <1>8, <2>1 DEF Inv, PipeOK, BoardOK
  <2>3. StreamOK'
    BY <1>1, <1>2, <1>5, <2>1 DEF Inv, StreamOK, Elsewhere
  <2>4. Fresh'
    BY <1>1, <1>2, <1>8, <2>1 DEF Inv, Fresh, Elsewhere, EventsIn
  <2>5. Cover'
    <3>1. ASSUME NEW v PROVE Covered(v)' <=> Covered(v)
      BY <1>2, <2>1 DEF Covered, Elsewhere
    <3>2. Covered(0)'
      BY DEF Covered
    <3>3. Covered(since)' /\ Covered(call.cursor)'
      BY <1>1, <1>2, <3>1 DEF Inv, Cover, Elsewhere
    <3>4. Covered(stream.initial)' /\ Covered(stream.position)'
      BY <1>1, <2>1, <3>1 DEF Inv, Cover
    <3>5. (\A n \in inner' : Covered(n)') /\ (\A x \in outer : Covered(x[2])')
      BY <1>8, <3>1, <3>2 DEF Inv, Cover
    <3>6. \A n \in stream.seen : journal[n] = "note" => n \in EventsIn(outer) \cup misread
      BY <1>8 DEF Inv, Cover
    <3>7. EventsIn(outer)' = EventsIn(outer)
      BY <1>2 DEF EventsIn
    <3> QED BY <1>2, <2>1, <3>3, <3>4, <3>5, <3>6, <3>7 DEF Cover, Covered, Elsewhere
  <2> QED BY <1>5, <2>2, <2>3, <2>4, <2>5 DEF Inv
<1> QED BY <1>7, <1>8 DEF ConnectionLost

(* A page is read: nothing it leaves out after the cursor is new. *)
LEMMA ReadPageStep == Inv /\ ReadPage => Inv'
<1> SUFFICES ASSUME Inv, ReadPage PROVE Inv'
  OBVIOUS
<1> DEFINE last == Smaller(stream.at + PageSize, Len(journal))
<1>1. /\ stream \in Streams /\ stream.pc = "drain" /\ call.pc = "wait" /\ stream.at \in 0..Last
      /\ Last \in Nat
  BY DEF Inv, BoardOK, PipeOK, StreamOK, NoStream, ReadPage, Streams
<1>2. last \in 0..Last /\ stream.at <= last
  BY <1>1, WaitAssumption DEF Smaller, Last
<1>3. Elsewhere /\ UNCHANGED <<cue, inner, outer, faults>>
  BY DEF ReadPage, board, seat, Elsewhere
<1>4. BoardOK' /\ SeatOK' /\ Last' = Last
  BY <1>3, ElsewhereKept DEF Inv, BoardOK
<1>5. stream' = [stream EXCEPT !.reading = TRUE, !.end = last, !.more = last < Len(journal),
                               !.page = ((stream.at + 1)..last) \ stream.seen]
  BY DEF ReadPage
<1> HIDE DEF last
<1>6. ((stream.at + 1)..last) \subseteq 1..Last /\ last \in Nat
  BY <1>1, <1>2
<1>7. /\ stream' \in Streams /\ stream'.pc = "drain" /\ stream'.end = last
      /\ stream'.page = ((stream.at + 1)..last) \ stream.seen
      /\ stream'.seen = stream.seen /\ stream'.initial = stream.initial
      /\ stream'.position = stream.position /\ stream'.at = stream.at
  <2>1. (last < Len(journal)) \in BOOLEAN
    BY <1>1, <1>6 DEF Last
  <2>2. ((stream.at + 1)..last) \ stream.seen \in SUBSET Nat
    BY <1>1, <1>6
  <2> QED BY <1>1, <1>5, <1>6, <2>1, <2>2 DEF Streams
<1>8. PipeOK'
  BY <1>3, <1>4, <1>7 DEF Inv, PipeOK
<1>9. StreamOK'
  BY <1>1, <1>2, <1>3, <1>4, <1>6, <1>7 DEF Inv, StreamOK, Elsewhere
<1>10. Fresh'
  BY <1>1, <1>3, <1>7 DEF Inv, Fresh, Elsewhere, EventsIn
<1>11. Cover'
  <2>1. ASSUME NEW v PROVE Covered(v)' <=> Covered(v)
    BY <1>3, <1>7 DEF Covered, Elsewhere
  <2>2. Covered(since)' /\ Covered(call.cursor)'
    BY <1>1, <1>3, <2>1 DEF Inv, Cover, Elsewhere
  <2>3. Covered(stream.initial)' /\ Covered(stream.position)' /\ Covered(stream.at)'
    BY <1>1, <1>7, <2>1 DEF Inv, Cover
  <2>4. (\A n \in inner : Covered(n)') /\ (\A x \in outer : Covered(x[2])')
    BY <2>1 DEF Inv, Cover
  <2> QED BY <1>3, <1>7, <2>2, <2>3, <2>4 DEF Inv, Cover, Covered, Elsewhere, EventsIn
<1> QED BY <1>4, <1>8, <1>9, <1>10, <1>11 DEF Inv

(* The next event of the page is queued: it is the least one the stream has *)
(* not seen, so that everything up to it is known.                          *)
LEMMA YieldStep == Inv /\ Yield => Inv'
<1> SUFFICES ASSUME Inv, NEW k \in stream.page, IsNext(k), inner = {}, inner' = {k},
                    stream.reading,
                    stream' = [stream EXCEPT !.page = @ \ {k}, !.seen = @ \cup {k}],
                    Elsewhere, UNCHANGED <<cue, outer, faults>>
             PROVE  Inv'
  BY DEF Yield, board, seat, Elsewhere
<1>1. /\ stream \in Streams /\ stream.pc = "drain" /\ call.pc = "wait" /\ stream.at \in 0..Last
      /\ Last \in Nat /\ stream.end \in 0..Last /\ stream.at <= stream.end
      /\ stream.page = ((stream.at + 1)..stream.end) \ stream.seen
      /\ stream.page \subseteq 1..Last /\ stream.seen \subseteq 1..Last /\ k \in 1..Last
  BY DEF Inv, BoardOK, PipeOK, StreamOK, NoStream, Streams
<1>2. BoardOK' /\ SeatOK' /\ Last' = Last
  BY ElsewhereKept DEF Inv, BoardOK
<1>3. /\ stream' \in Streams /\ stream'.pc = "drain" /\ stream'.end = stream.end
      /\ stream'.page = stream.page \ {k} /\ stream'.seen = stream.seen \cup {k}
      /\ stream'.initial = stream.initial
      /\ stream'.position = stream.position /\ stream'.at = stream.at
  BY <1>1 DEF Streams
<1>4. PipeOK'
  BY <1>1, <1>2, <1>3 DEF Inv, PipeOK
<1>5. StreamOK'
  BY <1>1, <1>2, <1>3 DEF Inv, StreamOK, Elsewhere
<1>6. Fresh'
  <2>1. since < k
    <3>1. since <= stream.at /\ since \in Nat /\ stream.at < k /\ k \in Nat
      BY <1>1 DEF Inv, Fresh, SeatOK
    <3> QED BY <1>1, <3>1
  <2> QED BY <1>1, <1>3, <2>1 DEF Inv, Fresh, Elsewhere, EventsIn
<1>7. Cover'
  <2>1. ASSUME NEW v, Covered(v) PROVE Covered(v)'
    BY <1>3, <2>1 DEF Covered, Elsewhere
  <2>2. Covered(k)'
    <3> SUFFICES ASSUME NEW n \in 1..k, journal[n] = "note"
                 PROVE  n \in told \cup dropped \cup misread \cup stream.seen \cup {k}
      BY <1>3 DEF Covered, Elsewhere
    <3>1. CASE n <= stream.at
      <4>1. n \in 1..stream.at
        BY <1>1, <3>1
      <4> QED BY <1>1, <4>1 DEF Inv, Cover, Covered
    <3>2. CASE n > stream.at /\ n # k
      <4>1. n \in (stream.at + 1)..stream.end /\ n < k
        BY <1>1, <3>2
      <4>2. n \notin stream.page
        BY <1>1, <4>1 DEF IsNext
      <4> QED BY <1>1, <4>1, <4>2
    <3> QED BY <1>1, <3>1, <3>2
  <2>3. Covered(since)' /\ Covered(call.cursor)'
    BY <1>1, <2>1 DEF Inv, Cover, Elsewhere
  <2>4. Covered(stream.initial)' /\ Covered(stream.position)' /\ Covered(stream.at)'
    BY <1>1, <1>3, <2>1 DEF Inv, Cover
  <2>5. (\A n \in inner' : Covered(n)') /\ (\A x \in outer : Covered(x[2])')
    BY <2>1, <2>2 DEF Inv, Cover
  <2>6. \A n \in stream'.seen : journal[n] = "note" => n \in inner' \cup EventsIn(outer) \cup misread
    BY <1>3 DEF Inv, Cover
  <2> QED BY <1>3, <2>3, <2>4, <2>5, <2>6 DEF Cover, Covered, Elsewhere, EventsIn
<1> QED BY <1>2, <1>4, <1>5, <1>6, <1>7 DEF Inv

(* The page ends: all of it is known, and its last position is a cursor. *)
LEMMA EndPageStep == Inv /\ EndPage => Inv'
<1> SUFFICES ASSUME Inv, EndPage PROVE Inv'
  OBVIOUS
<1>1. /\ stream \in Streams /\ stream.pc = "drain" /\ call.pc = "wait" /\ stream.at \in 0..Last
      /\ Last \in Nat /\ stream.end \in 0..Last /\ stream.at <= stream.end
      /\ stream.page = {} /\ (stream.at + 1)..stream.end \subseteq stream.seen
  BY DEF Inv, BoardOK, PipeOK, StreamOK, NoStream, Streams, EndPage
<1>2. Elsewhere /\ UNCHANGED <<cue, inner, faults>>
      /\ outer' = outer \cup {<<"cursor", stream.end>>}
  BY DEF EndPage, board, seat, Elsewhere
<1>3. BoardOK' /\ SeatOK' /\ Last' = Last
  BY <1>2, ElsewhereKept DEF Inv, BoardOK
<1>4. stream' = [stream EXCEPT
         !.reading = FALSE, !.position = stream.end, !.at = stream.end,
         !.initial = IF ~stream.more /\ stream.first THEN stream.end ELSE @,
         !.first = stream.more /\ @,
         !.pc = IF stream.more THEN "drain" ELSE "listen"]
  BY DEF EndPage
<1>5. (stream.more /\ stream.first) \in BOOLEAN
  BY Zenon
<1>6. /\ stream' \in Streams /\ stream'.pc \in {"drain", "listen"}
      /\ stream'.page = {} /\ stream'.seen = stream.seen
      /\ stream'.initial \in {stream.initial, stream.end}
      /\ stream'.position = stream.end /\ stream'.at = stream.end
  BY <1>1, <1>4, <1>5 DEF Streams
<1>7. ~stream'.reading
  BY <1>1, <1>4 DEF Streams
<1>8. PipeOK'
  <2>1. outer' \subseteq ItemKinds \X (0..Last)
    BY <1>1, <1>2 DEF Inv, PipeOK, ItemKinds
  <2> QED BY <1>2, <1>3, <1>6, <2>1 DEF Inv, PipeOK
<1>9. StreamOK'
  BY <1>1, <1>2, <1>3, <1>6, <1>7 DEF Inv, StreamOK, Elsewhere
<1>10. EventsIn(outer)' = EventsIn(outer)
  BY <1>2 DEF EventsIn
<1>11. Fresh'
  <2>1. since <= stream.end /\ since <= stream.initial
    BY <1>1 DEF Inv, Fresh, SeatOK
  <2> QED BY <1>1, <1>2, <1>6, <1>10, <2>1 DEF Inv, Fresh, Elsewhere
<1>12. Cover'
  <2>1. ASSUME NEW v, Covered(v) PROVE Covered(v)'
    BY <1>2, <1>6, <2>1 DEF Covered, Elsewhere
  <2>2. Covered(stream.end)
    <3> SUFFICES ASSUME NEW n \in 1..stream.end, journal[n] = "note"
                 PROVE  n \in told \cup dropped \cup misread \cup stream.seen
      BY DEF Covered
    <3>1. n \in 1..stream.at \/ n \in (stream.at + 1)..stream.end
      BY <1>1
    <3> QED BY <1>1, <3>1 DEF Inv, Cover, Covered
  <2>3. Covered(since)' /\ Covered(call.cursor)'
    BY <1>1, <1>2, <2>1 DEF Inv, Cover, Elsewhere
  <2>4. Covered(stream.initial)' /\ Covered(stream.position)' /\ Covered(stream.at)'
    BY <1>1, <1>6, <2>1, <2>2 DEF Inv, Cover
  <2>5. (\A n \in inner : Covered(n)') /\ (\A x \in outer' : Covered(x[2])')
    BY <1>2, <2>1, <2>2 DEF Inv, Cover
  <2>6. \A n \in stream.seen : journal[n] = "note" => n \in inner \cup EventsIn(outer) \cup misread
    BY DEF Inv, Cover
  <2> QED BY <1>2, <1>6, <1>10, <2>3, <2>4, <2>5, <2>6 DEF Cover, Covered, Elsewhere
<1> QED BY <1>3, <1>8, <1>9, <1>11, <1>12 DEF Inv

(* The item moves from one queue to the other. *)
LEMMA PushCuesStep == Inv /\ _push_cues => Inv'
<1> SUFFICES ASSUME Inv, NEW k \in inner, inner' = {}, Elsewhere, UNCHANGED <<stream, cue, faults>>,
                    outer' = outer \cup {IF k = 0 THEN <<"failed", 0>> ELSE <<"event", k>>}
             PROVE  Inv'
  BY DEF _push_cues, board, seat, Elsewhere
<1>1. inner = {k} /\ k \in 0..Last /\ call.pc = "wait" /\ Last \in Nat
  <2>1. inner = {k} /\ k \in 0..Last
    BY DEF Inv, PipeOK
  <2>2. call.pc = "wait"
    BY DEF Inv, StreamOK
  <2> QED BY <2>1, <2>2 DEF Inv, BoardOK
<1>2. BoardOK' /\ SeatOK' /\ Last' = Last
  BY ElsewhereKept DEF Inv, BoardOK
<1>3. EventsIn(outer)' = EventsIn(outer) \cup (inner \ {0})
  <2>1. CASE k = 0
    BY <1>1, <2>1 DEF EventsIn
  <2>2. CASE k # 0
    <3>1. outer' = outer \cup {<<"event", k>>}
      BY <2>2
    <3>2. outer \subseteq ItemKinds \X (0..Last) /\ outer' \subseteq ItemKinds \X (0..Last)
      BY <1>1, <3>1 DEF Inv, PipeOK, ItemKinds
    <3>3. \A m : m \in EventsIn(outer') <=> m \in EventsIn(outer) \/ m = k
      BY <3>1, <3>2, EventsAre
    <3>4. EventsIn(outer)' = EventsIn(outer')
      BY DEF EventsIn
    <3> QED BY <1>1, <2>2, <3>3, <3>4
  <2> QED BY <2>1, <2>2
<1>4. PipeOK'
  <2>1. outer' \subseteq ItemKinds \X (0..Last)
    BY <1>1 DEF Inv, PipeOK, ItemKinds
  <2> QED BY <1>2, <2>1 DEF Inv, PipeOK
<1>5. StreamOK'
  BY <1>1, <1>2 DEF Inv, StreamOK, Elsewhere
<1>6. Fresh'
  BY <1>3 DEF Inv, Fresh, Elsewhere
<1>7. Cover'
  <2>1. ASSUME NEW v PROVE Covered(v)' <=> Covered(v)
    BY DEF Covered, Elsewhere
  <2>2. Covered(since)' /\ Covered(call.cursor)'
    BY <1>1, <2>1 DEF Inv, Cover, Elsewhere
  <2>3. /\ (stream'.pc # "off" => Covered(stream.initial)' /\ Covered(stream.position)')
        /\ (stream'.pc = "drain" => Covered(stream.at)')
    BY <2>1 DEF Inv, Cover
  <2>4. \A x \in outer' : Covered(x[2])'
    <3>1. Covered(k)' /\ \A x \in outer : Covered(x[2])'
      BY <2>1 DEF Inv, Cover
    <3> QED BY <3>1
  <2>5. \A n \in stream.seen : journal[n] = "note" => n \in EventsIn(outer)' \cup misread
    <3>1. 0 \notin stream.seen
      BY <1>1 DEF Inv, StreamOK
    <3> QED BY <1>3, <3>1 DEF Inv, Cover
  <2> QED BY <2>2, <2>3, <2>4, <2>5 DEF Cover, Covered, Elsewhere
<1> QED BY <1>2, <1>4, <1>5, <1>6, <1>7 DEF Inv

-----------------------------------------------------------------------------
(* The call. *)

(* A call returns: its cursor moves forward over events that are known. *)
LEMMA ReturnStep ==
    ASSUME Inv, NEW found, NEW cursor \in 0..Last, NEW made, NEW left,
           Return(found, cursor, made, left), UNCHANGED <<journal, offers, unsent>>,
           guard' \in 0..(MaxEvents + 1), faults' \in 0..MaxFaults,
           since <= cursor, found \subseteq (since + 1)..cursor, made \subseteq 1..Last,
           left \subseteq outer,
           \A n \in 1..cursor : journal[n] = "note" =>
               n \in told \cup dropped \cup misread \cup found \cup inner \cup EventsIn(left)
    PROVE  Inv'
<1>1. /\ told' = told \cup found /\ repeated' = repeated \cup (told \cap found)
      /\ surfaced' = surfaced \cup made /\ since' = cursor
      /\ dropped' = dropped \cup (inner \ {0}) \cup EventsIn(left)
      /\ call' = NoCall /\ stream' = NoStream /\ inner' = {} /\ outer' = {}
      /\ misread' = misread
  BY DEF Return
<1>2. Last' = Last /\ Last \in Nat /\ since \in 0..Last
  BY DEF Last, Inv, BoardOK, SeatOK
<1>3. BoardOK'
  <2>1. unsent' \in BOOLEAN
    <3>1. unsent \in BOOLEAN /\ unsent' = unsent
      BY DEF Inv, BoardOK
    <3> QED BY <3>1, Zenon
  <2> QED BY <1>2, <2>1 DEF Inv, BoardOK
<1>4. PipeOK'
  <2>1. cue' \in BOOLEAN
    BY Zenon DEF Return
  <2>2. NoStream \in Streams
    BY DEF NoStream, Streams
  <2> QED BY <1>1, <2>1, <2>2 DEF PipeOK
<1>5. SeatOK'
  <2>1. EventsIn(left) \subseteq EventsIn(outer)
    BY DEF EventsIn
  <2>2. EventsIn(outer) \subseteq 0..Last
    BY DEF EventsIn, Inv, PipeOK
  <2>3. \A n \in EventsIn(outer) : since < n
    BY DEF Inv, Fresh
  <2>4. EventsIn(left) \subseteq 1..Last /\ inner \ {0} \subseteq 1..Last
    BY <1>2, <2>1, <2>2, <2>3 DEF Inv, PipeOK
  <2>5. dropped' \subseteq 1..Last
    BY <1>1, <2>4 DEF Inv, SeatOK
  <2>6. told' \subseteq 1..Last
    BY <1>1, <1>2 DEF Inv, SeatOK
  <2>7. NoCall \in Calls /\ NoCall.cursor = 0
    BY DEF NoCall, Calls
  <2> QED BY <1>1, <1>2, <2>5, <2>6, <2>7 DEF Inv, SeatOK
<1>6. StreamOK'
  BY <1>1, <1>2 DEF StreamOK, NoStream
<1>7. Fresh'
  <2>1. told \cap found = {}
    BY <1>2 DEF Inv, Fresh
  <2>2. told' \subseteq 1..cursor
    BY <1>1, <1>2 DEF Inv, Fresh
  <2>3. repeated' = {}
    BY <1>1, <2>1 DEF Inv, Fresh
  <2> QED BY <1>1, <2>2, <2>3 DEF Fresh, NoCall, NoStream, EventsIn
<1>8. Cover'
  <2>1. Covered(since)'
    BY <1>1 DEF Covered
  <2> QED BY <1>1, <2>1 DEF Cover, NoCall, NoStream
<1> QED BY <1>3, <1>4, <1>5, <1>6, <1>7, <1>8 DEF Inv

(* What a reading of the offers yields. *)
LEMMA ReadFacts ==
    ASSUME Inv, NEW shown, NEW made, shown \subseteq 1..Last, ReadOffers(shown, made)
    PROVE  made \subseteq 1..Last /\ faults' \in 0..MaxFaults
<1>1. CASE made = shown /\ UNCHANGED faults
  BY <1>1 DEF Inv, BoardOK
<1>2. CASE made = {} /\ Fault
  BY <1>2, FaultBound
<1> QED BY <1>1, <1>2 DEF ReadOffers

(* The offers on the board are events of the journal. *)
LEMMA OffersInJournal ==
    ASSUME Inv, NEW found
    PROVE  _reconcile_offers(found) \subseteq 1..Last /\ _reconciled_offer_events \subseteq 1..Last
  BY DEF Inv, BoardOK, _reconcile_offers, _reconciled_offer_events

(* The same for respond. *)
LEMMA RespondStep ==
    ASSUME Inv, NEW found, NEW cursor \in 0..Last, NEW left,
           respond(found, cursor, left),
           since <= cursor, found \subseteq (since + 1)..cursor, left \subseteq outer,
           \A n \in 1..cursor : journal[n] = "note" =>
               n \in told \cup dropped \cup misread \cup found \cup inner \cup EventsIn(left)
    PROVE  Inv'
<1>1. UNCHANGED <<journal, offers, unsent>> /\ guard' \in 0..(MaxEvents + 1)
  BY DEF respond, board, Inv, SeatOK
<1>2. PICK made : /\ made \in {_reconcile_offers(found), {}}
                   /\ ReadOffers(_reconcile_offers(found), made)
                   /\ Return(found, cursor, made, left)
  BY DEF respond
<1>3. made \subseteq 1..Last /\ faults' \in 0..MaxFaults
  BY <1>2, ReadFacts, OffersInJournal
<1> QED BY <1>1, <1>2, <1>3, ReturnStep

(* The same for a return before blocking. *)
LEMMA ImmediateStep ==
    ASSUME Inv, NEW found, NEW cursor \in 0..Last, NEW made,
           Immediate(found, cursor, made), made \subseteq 1..Last, faults' \in 0..MaxFaults,
           since <= cursor, found \subseteq (since + 1)..cursor, stream.seen = {},
           \A n \in 1..cursor : journal[n] = "note" => n \in told \cup dropped \cup misread \cup found
    PROVE  Inv'
<1> DEFINE returned == IF guard = cursor THEN {} ELSE made
           nothing == {}
<1>1. Return(found, cursor, returned, nothing) /\ returned \subseteq 1..Last
      /\ nothing \subseteq outer
  BY DEF Immediate
<1>2. UNCHANGED <<journal, offers, unsent>>
  BY DEF Immediate, board
<1>3. guard' \in 0..(MaxEvents + 1)
  <2>1. Last \in Nat /\ Last <= MaxEvents /\ guard \in 0..(MaxEvents + 1)
    BY DEF Inv, BoardOK, SeatOK
  <2>2. guard' \in {cursor, guard}
    BY DEF Immediate
  <2> QED BY <2>1, <2>2, WaitAssumption
<1>4. \A n \in 1..cursor : journal[n] = "note" =>
        n \in told \cup dropped \cup misread \cup found \cup inner \cup EventsIn(nothing)
  OBVIOUS
<1> HIDE DEF returned, nothing
<1> QED BY <1>1, <1>2, <1>3, <1>4, ReturnStep

(* A call starts. *)
LEMMA EnterStep == Inv /\ Enter => Inv'
<1> SUFFICES ASSUME Inv, NEW push \in BOOLEAN, call.pc = "idle",
                    call' = [NoCall EXCEPT !.pc = "entry", !.cursor = since, !.push = push],
                    UNCHANGED <<board, pipe, seat, faults>>
             PROVE  Inv'
  BY DEF Enter
<1>1. UNCHANGED <<journal, offers, unsent, stream, cue, inner, outer, since, told, repeated,
                  surfaced, dropped, misread, guard, faults>>
  BY DEF board, pipe, seat
<1>2. since \in 0..Last /\ Last \in Nat
  BY DEF Inv, BoardOK, SeatOK
<1>3. call' \in Calls /\ call'.pc = "entry" /\ call'.cursor = since
  <2>1. NoCall \in Calls
    BY DEF NoCall, Calls
  <2>2. since \in Nat
    BY <1>2
  <2> QED BY <2>1, <2>2 DEF Calls
<1>4. stream = NoStream /\ inner = {} /\ outer = {}
  BY DEF Inv, StreamOK
<1>5. BoardOK'
  <2>1. unsent' \in BOOLEAN
    <3>1. unsent \in BOOLEAN /\ unsent' = unsent
      BY <1>1 DEF Inv, BoardOK
    <3> QED BY <3>1, Zenon
  <2> QED BY <1>1, <2>1 DEF Inv, BoardOK, Last
<1>6. PipeOK' /\ SeatOK' /\ StreamOK'
  BY <1>1, <1>2, <1>3, <1>4 DEF Inv, PipeOK, SeatOK, StreamOK, Last
<1>7. Fresh'
  BY <1>1, <1>2, <1>3, <1>4 DEF Inv, Fresh, NoStream, EventsIn
<1>8. Cover'
  <2>1. Covered(since)
    BY DEF Inv, Cover
  <2> QED BY <1>1, <1>3, <1>4, <2>1 DEF Cover, Covered, NoStream
<1> QED BY <1>5, <1>6, <1>7, <1>8 DEF Inv

(* The call waits: the stream starts at a cursor before which all is known. *)
LEMMA WaitStep ==
    ASSUME Inv, NEW cursor \in 0..Last, Wait(cursor), call.pc = "entry", since <= cursor,
           Covered(cursor), UNCHANGED <<board, seat>>, faults' \in 0..MaxFaults
    PROVE  Inv'
<1>1. UNCHANGED <<journal, offers, unsent, cue, inner, outer, since, told, repeated,
                  surfaced, dropped, misread, guard>>
  BY DEF Wait, board, seat
<1>2. Last \in Nat /\ stream = NoStream /\ inner = {} /\ outer = {} /\ call \in Calls
  BY DEF Inv, BoardOK, StreamOK, SeatOK
<1>0. cursor \in Nat /\ cursor <= Last /\ 0 <= Last
  BY <1>2
<1>3. call' \in Calls /\ call'.pc = "wait" /\ call'.cursor = cursor
  <2>1. call' = [call EXCEPT !.pc = "wait", !.cursor = cursor]
    BY DEF Wait
  <2> QED BY <1>0, <1>2, <2>1 DEF Calls
<1>4. /\ stream' \in Streams /\ stream'.seen = {} /\ stream'.page = {} /\ stream'.at = 0
      /\ stream'.pc # "drain"
      /\ (stream'.pc # "off" => stream'.initial = cursor /\ stream'.position = cursor)
      /\ stream'.initial <= Last /\ stream'.position <= Last
  <2>1. CASE call.push
    <3>1. stream' = [NoStream EXCEPT !.pc = "connect", !.initial = cursor, !.position = cursor]
      BY <2>1 DEF Wait
    <3>2. NoStream \in Streams /\ NoStream.seen = {} /\ NoStream.page = {} /\ NoStream.at = 0
      BY DEF NoStream, Streams
    <3> QED BY <1>0, <3>1, <3>2 DEF Streams
  <2>2. CASE ~call.push
    BY <1>0, <2>2 DEF Wait, NoStream, Streams
  <2> QED BY <2>1, <2>2
<1>5. ~stream'.reading
  <2>1. CASE call.push
    BY <2>1 DEF Wait, NoStream
  <2>2. CASE ~call.push
    BY <2>2 DEF Wait, NoStream
  <2> QED BY <2>1, <2>2
<1>6. BoardOK'
  <2>1. unsent' \in BOOLEAN
    <3>1. unsent \in BOOLEAN /\ unsent' = unsent
      BY <1>1 DEF Inv, BoardOK
    <3> QED BY <3>1, Zenon
  <2> QED BY <1>1, <2>1 DEF Inv, BoardOK, Last
<1>7. PipeOK' /\ SeatOK' /\ StreamOK'
  <2>1. Last' = Last
    BY <1>1 DEF Last
  <2> QED BY <1>1, <1>2, <1>3, <1>4, <1>5, <2>1 DEF Inv, PipeOK, SeatOK, StreamOK
<1>8. Fresh'
  BY <1>1, <1>2, <1>3, <1>4 DEF Inv, Fresh, EventsIn
<1>9. Cover'
  <2>1. Covered(since) /\ stream.seen = {}
    BY <1>2 DEF Inv, Cover, NoStream
  <2> QED BY <1>1, <1>2, <1>3, <1>4, <2>1 DEF Cover, Covered
<1> QED BY <1>6, <1>7, <1>8, <1>9 DEF Inv

(* What a scan of the journal from the call's cursor finds is new, and with *)
(* it all is known up to where it ends.                                     *)
LEMMA ScanFinds ==
    ASSUME Inv, call.pc # "idle", NEW last \in 0..Last, call.cursor <= last
    PROVE  /\ since <= last /\ Relevant(call.cursor, last) \subseteq (since + 1)..last
           /\ \A n \in 1..last : journal[n] = "note" =>
                n \in told \cup dropped \cup misread \cup Relevant(call.cursor, last) \cup stream.seen
<1>1. /\ Last \in Nat /\ since \in 0..Last /\ call.cursor \in 0..Last /\ since <= call.cursor
      /\ Covered(call.cursor)
  BY DEF Inv, BoardOK, SeatOK, Fresh, Cover, Calls
<1>2. since <= last /\ Relevant(call.cursor, last) \subseteq (since + 1)..last
  BY <1>1 DEF Relevant
<1>3. ASSUME NEW n \in 1..last, journal[n] = "note"
      PROVE  n \in told \cup dropped \cup misread \cup Relevant(call.cursor, last) \cup stream.seen
  <2>1. CASE n \in 1..call.cursor
    BY <1>1, <1>3, <2>1 DEF Covered
  <2>2. CASE n \notin 1..call.cursor
    <3>1. n \in (call.cursor + 1)..last
      BY <1>1, <2>2
    <3> QED BY <1>3, <3>1 DEF Relevant, _is_relevant
  <2> QED BY <2>1, <2>2
<1> QED BY <1>2, <1>3

(* The entry checks: the call returns or starts to wait. *)
LEMMA EntryCheckStep == Inv /\ EntryCheck => Inv'
<1> SUFFICES ASSUME Inv, EntryCheck PROVE Inv'
  OBVIOUS
<1> DEFINE found == Relevant(call.cursor, Last)
           others == _reconciled_offer_events \ found
<1>1. /\ Last \in Nat /\ call.pc = "entry" /\ stream.seen = {} /\ call.cursor \in 0..Last
  BY DEF EntryCheck, Inv, BoardOK, StreamOK, SeatOK, Calls, NoStream
<1>2. ASSUME NEW last \in (call.cursor + 1)..Last, NEW made,
             ReadOffers(_reconcile_offers(Relevant(call.cursor, last)), made),
             Immediate(Relevant(call.cursor, last), last, made)
      PROVE  Inv'
  <2>1. last \in 0..Last /\ call.cursor <= last
    BY <1>1
  <2>2. made \subseteq 1..Last /\ faults' \in 0..MaxFaults
    BY <1>2, ReadFacts, OffersInJournal
  <2> DEFINE part == Relevant(call.cursor, last)
  <2>3. /\ since <= last /\ part \subseteq (since + 1)..last
        /\ \A n \in 1..last : journal[n] = "note" => n \in told \cup dropped \cup misread \cup part
    BY <1>1, <2>1, ScanFinds
  <2>4. Immediate(part, last, made)
    BY <1>2
  <2> HIDE DEF part
  <2> QED BY <1>1, <2>1, <2>2, <2>3, <2>4, ImmediateStep
<1>3. Last \in 0..Last /\ call.cursor <= Last
  BY <1>1
<1>4. /\ since <= Last /\ found \subseteq (since + 1)..Last
      /\ \A n \in 1..Last : journal[n] = "note" => n \in told \cup dropped \cup misread \cup found
  BY <1>1, <1>3, ScanFinds
<1>5. ASSUME NEW made, ReadOffers(others, made), Immediate(found, Last, made)
      PROVE  Inv'
  <2>1. others \subseteq 1..Last
    BY OffersInJournal
  <2> HIDE DEF found, others
  <2>2. made \subseteq 1..Last /\ faults' \in 0..MaxFaults
    BY <1>5, <2>1, ReadFacts
  <2> QED BY <1>1, <1>3, <1>4, <1>5, <2>2, ImmediateStep
<1>6. ASSUME NEW made, ReadOffers(others, made), found = {}, Wait(Last), UNCHANGED <<board, seat>>
      PROVE  Inv'
  <2>1. others \subseteq 1..Last
    BY OffersInJournal
  <2>2. faults' \in 0..MaxFaults
    <3> HIDE DEF others
    <3> QED BY <1>6, <2>1, ReadFacts
  <2>3. Covered(Last)
    BY <1>4, <1>6 DEF Covered
  <2> QED BY <1>1, <1>3, <1>4, <1>6, <2>2, <2>3, WaitStep
<1> QED
  <2>1. \/ \E last \in (call.cursor + 1)..Last : \E made :
            /\ ReadOffers(_reconcile_offers(Relevant(call.cursor, last)), made)
            /\ Immediate(Relevant(call.cursor, last), last, made)
        \/ \E made : /\ ReadOffers(others, made)
                     /\ \/ Immediate(found, Last, made)
                        \/ found = {} /\ Wait(Last) /\ UNCHANGED <<board, seat>>
    BY DEF EntryCheck, Last
  <2> HIDE DEF found, others
  <2> QED BY <1>2, <1>5, <1>6, <2>1

(* A cue of the lease keeper. *)
LEMMA KeeperStep == Inv /\ KeeperReturns => Inv'
<1> SUFFICES ASSUME Inv, KeeperReturns PROVE Inv'
  OBVIOUS
<1> DEFINE none == {}
           made == _reconcile_offers({})
<1>1. /\ stream.seen = {} /\ call.cursor \in 0..Last /\ since <= call.cursor
      /\ Covered(call.cursor) /\ Immediate(none, call.cursor, made)
  BY DEF KeeperReturns, Inv, BoardOK, StreamOK, SeatOK, Calls, NoStream, Fresh, Cover
<1>2. made \subseteq 1..Last /\ faults' \in 0..MaxFaults
  BY OffersInJournal, FaultBound DEF KeeperReturns
<1>3. /\ none \subseteq (since + 1)..call.cursor
      /\ \A n \in 1..call.cursor : journal[n] = "note" => n \in told \cup dropped \cup misread \cup none
  BY <1>1 DEF Covered
<1> HIDE DEF none, made
<1> QED BY <1>1, <1>2, <1>3, ImmediateStep

(* A poll, the deadline, and a reason to return that is not this board's.   *)
LEMMA PollStep == Inv /\ poll_board => Inv'
<1> SUFFICES ASSUME Inv, poll_board PROVE Inv'
  OBVIOUS
<1> DEFINE found == Relevant(call.cursor, Last)
<1>1. Last \in Nat /\ call.pc = "wait" /\ call.cursor \in 0..Last /\ Last \in 0..Last
      /\ call \in Calls
  BY DEF poll_board, Inv, BoardOK, SeatOK, Calls
<1>2. /\ since <= Last /\ found \subseteq (since + 1)..Last
      /\ \A n \in 1..Last : journal[n] = "note" =>
           n \in told \cup dropped \cup misread \cup found \cup stream.seen
  BY <1>1, ScanFinds
<1>3. \A n \in stream.seen : journal[n] = "note" => n \in inner \cup EventsIn(outer) \cup misread
  BY DEF Inv, Cover
<1>4. CASE respond(found, Last, outer)
  <2> HIDE DEF found
  <2> QED BY <1>1, <1>2, <1>3, <1>4, RespondStep
<1>5. CASE /\ found = {} /\ call' = [call EXCEPT !.cursor = Last]
           /\ UNCHANGED <<board, pipe, seat, faults>>
  <2>1. UNCHANGED <<journal, offers, unsent, stream, cue, inner, outer, since, told, repeated,
                    surfaced, dropped, misread, guard, faults>>
    BY <1>5 DEF board, pipe, seat
  <2>2. call' \in Calls /\ call'.pc = "wait" /\ call'.cursor = Last
    BY <1>1, <1>5 DEF Calls
  <2>3. BoardOK'
    <3>1. unsent' \in BOOLEAN
      <4>1. unsent \in BOOLEAN /\ unsent' = unsent
        BY <2>1 DEF Inv, BoardOK
      <4> QED BY <4>1, Zenon
    <3> QED BY <2>1, <3>1 DEF Inv, BoardOK, Last
  <2>4. PipeOK' /\ SeatOK' /\ StreamOK'
    <3>1. Last' = Last
      BY <2>1 DEF Last
    <3> QED BY <1>1, <2>1, <2>2, <3>1 DEF Inv, PipeOK, SeatOK, StreamOK
  <2>5. Fresh'
    BY <1>2, <2>1, <2>2 DEF Inv, Fresh, EventsIn
  <2>6. Cover'
    <3>1. Covered(Last)
      BY <1>2, <1>5 DEF Covered
    <3> QED BY <1>1, <2>1, <2>2, <3>1 DEF Inv, Cover, Covered, EventsIn
  <2> QED BY <2>3, <2>4, <2>5, <2>6 DEF Inv
<1> QED BY <1>4, <1>5 DEF poll_board, Last

(* The call returns what it has, without a look at the journal. *)
LEMMA GiveUpStep ==
    ASSUME Inv, call.pc = "wait", respond({}, call.cursor, outer)
    PROVE  Inv'
<1>1. /\ call.cursor \in 0..Last /\ since <= call.cursor
      /\ \A n \in 1..call.cursor : journal[n] = "note" =>
           n \in told \cup dropped \cup misread \cup inner \cup EventsIn(outer)
  BY DEF Inv, SeatOK, Fresh, Cover, Covered, Calls
<1> QED BY <1>1, RespondStep

(* The deadline. *)
LEMMA TimeoutStep == Inv /\ Timeout => Inv'
<1> SUFFICES ASSUME Inv, Timeout PROVE Inv'
  OBVIOUS
<1> DEFINE found == Relevant(call.cursor, Last)
<1>1. Last \in Nat /\ call.pc = "wait" /\ call.cursor \in 0..Last /\ Last \in 0..Last
  BY DEF Timeout, Inv, BoardOK, SeatOK, Calls
<1>2. CASE respond(found, Last, outer)
  <2>1. /\ since <= Last /\ found \subseteq (since + 1)..Last
        /\ \A n \in 1..Last : journal[n] = "note" =>
             n \in told \cup dropped \cup misread \cup found \cup inner \cup EventsIn(outer)
    BY <1>1, ScanFinds DEF Inv, Cover
  <2> HIDE DEF found
  <2> QED BY <1>1, <1>2, <2>1, RespondStep
<1>3. CASE respond({}, call.cursor, outer)
  BY <1>1, <1>3, GiveUpStep
<1> QED BY <1>2, <1>3 DEF Timeout, Last

(* Another board, a scan or the lease keeper. *)
LEMMA OtherStep == Inv /\ OtherBoardReturns => Inv'
  BY GiveUpStep DEF OtherBoardReturns

(* A nonempty bounded set of numbers has a largest one. *)
LEMMA LargestExists ==
    ASSUME NEW N \in Nat, NEW V, V \subseteq 0..N, V # {}
    PROVE  Largest(V) \in V /\ \A v \in V : v <= Largest(V)
<1> DEFINE R == {ss \in Nat \X Nat : ss[1] < ss[2]}
           S == {w \in 0..N : N - w \in V}
<1>1. IsWellFoundedOn(R, Nat)
  BY NatLessThanWellFounded, Zenon DEF OpToRel
<1>2. S \subseteq Nat /\ S # {}
  <2>1. PICK v \in V : TRUE
    OBVIOUS
  <2>2. N - v \in 0..N /\ N - (N - v) = v
    OBVIOUS
  <2> QED BY <2>1, <2>2
<1>3. \E x \in S : \A y \in S : ~(<<y, x>> \in R)
  <2> HIDE DEF R, S
  <2> QED BY <1>1, <1>2, WFMin
<1>4. PICK x \in S : \A y \in S : ~(<<y, x>> \in R)
  BY <1>3
<1>5. x \in Nat /\ \A y \in S : x <= y
  <2>1. \A a, b \in Nat : ~(<<b, a>> \in R) => a <= b
    OBVIOUS
  <2> HIDE DEF R, S
  <2> QED BY <1>2, <1>4, <2>1
<1>6. N - x \in V /\ \A v \in V : v <= N - x
  <2>1. ASSUME NEW v \in V PROVE v <= N - x
    <3>1. v \in 0..N /\ N - v \in 0..N /\ N - (N - v) = v
      OBVIOUS
    <3>2. N - v \in S
      BY <3>1
    <3>3. x <= N - v
      BY <1>5, <3>2
    <3> QED BY <1>5, <3>1, <3>3
  <2> QED BY <2>1
<1> QED BY <1>6 DEF Largest

(* What is in the queue is taken: the cursor moves to the largest position  *)
(* of an item, before which all is known.                                   *)
LEMMA TakeItemsStep == Inv /\ TakeItems => Inv'
<1> SUFFICES ASSUME Inv, TakeItems PROVE Inv'
  OBVIOUS
<1> DEFINE found == {n \in EventsIn(outer) : _is_relevant(n)}
           c == Reached(outer)
           V == {call.cursor} \cup {x[2] : x \in outer}
<1>1. /\ Last \in Nat /\ call.pc = "wait" /\ call.cursor \in 0..Last /\ since \in 0..Last
      /\ since <= call.cursor /\ call \in Calls /\ outer \subseteq ItemKinds \X (0..Last)
  BY DEF TakeItems, Inv, BoardOK, PipeOK, SeatOK, Fresh, Calls
<1>2. c \in V /\ (\A v \in V : v <= c) /\ V \subseteq 0..Last
  <2>1. V \subseteq 0..Last /\ V # {}
    BY <1>1
  <2>2. c = Largest(V)
    BY DEF Reached
  <2> HIDE DEF V, c
  <2> QED BY <1>1, <2>1, <2>2, LargestExists
<1>3. c \in 0..Last /\ call.cursor <= c /\ since <= c
  BY <1>1, <1>2
<1>4. Covered(c)
  BY <1>1, <1>2 DEF Inv, Cover
<1>5. found \subseteq (since + 1)..c
  <2> SUFFICES ASSUME NEW n \in EventsIn(outer) PROVE n \in (since + 1)..c
    OBVIOUS
  <2>1. since < n
    BY DEF Inv, Fresh
  <2>2. <<"event", n>> \in outer
    BY <1>1, EventsAre
  <2>3. n \in V
    <3>1. <<"event", n>>[2] = n
      OBVIOUS
    <3> QED BY <2>2, <3>1
  <2> QED BY <1>1, <1>2, <1>3, <2>1, <2>3
<1>6. \A n \in stream.seen : journal[n] = "note" => n \in inner \cup found \cup misread
  BY DEF Inv, Cover, _is_relevant
<1> HIDE DEF c, V
<1>7. CASE respond(found, c, {})
  <2>1. \A n \in 1..c : journal[n] = "note" =>
          n \in told \cup dropped \cup misread \cup found \cup inner \cup EventsIn({})
    BY <1>4, <1>6 DEF Covered
  <2> DEFINE nothing == {}
  <2>2. nothing \subseteq outer /\ respond(found, c, nothing)
    BY <1>7
  <2>3. \A n \in 1..c : journal[n] = "note" =>
          n \in told \cup dropped \cup misread \cup found \cup inner \cup EventsIn(nothing)
    BY <2>1
  <2> HIDE DEF found, nothing
  <2> QED BY <1>3, <1>5, <2>2, <2>3, RespondStep
<1>8. CASE /\ found = {} /\ outer' = {}
           /\ call' = [call EXCEPT !.cursor = c, !.fallback = @ \/ <<"failed", 0>> \in outer]
           /\ UNCHANGED <<board, stream, cue, inner, seat, faults>>
  <2>1. UNCHANGED <<journal, offers, unsent, stream, cue, inner, since, told, repeated,
                    surfaced, dropped, misread, guard, faults>>
    BY <1>8 DEF board, seat
  <2>2. call' \in Calls /\ call'.pc = "wait" /\ call'.cursor = c
    <3>1. (call.fallback \/ <<"failed", 0>> \in outer) \in BOOLEAN
      BY Zenon
    <3>2. c \in Nat
      BY <1>1, <1>3
    <3> DEFINE b == call.fallback \/ <<"failed", 0>> \in outer
    <3>3. call' = [call EXCEPT !.cursor = c, !.fallback = b] /\ b \in BOOLEAN
      BY <1>8, <3>1
    <3> HIDE DEF b
    <3> QED BY <1>1, <3>2, <3>3 DEF Calls
  <2>3. BoardOK'
    <3>1. unsent' \in BOOLEAN
      <4>1. unsent \in BOOLEAN /\ unsent' = unsent
        BY <2>1 DEF Inv, BoardOK
      <4> QED BY <4>1, Zenon
    <3> QED BY <2>1, <3>1 DEF Inv, BoardOK, Last
  <2>4. PipeOK' /\ SeatOK' /\ StreamOK'
    <3>1. Last' = Last
      BY <2>1 DEF Last
    <3> QED BY <1>1, <1>3, <1>8, <2>1, <2>2, <3>1 DEF Inv, PipeOK, SeatOK, StreamOK
  <2>5. Fresh'
    BY <1>3, <1>8, <2>1, <2>2 DEF Inv, Fresh, EventsIn
  <2>6. Cover'
    <3>1. \A n \in stream.seen : journal[n] = "note" => n \in inner \cup misread
      BY <1>6, <1>8
    <3> QED BY <1>4, <1>8, <2>1, <2>2, <3>1 DEF Inv, Cover, Covered
  <2> QED BY <2>3, <2>4, <2>5, <2>6 DEF Inv
<1> QED BY <1>7, <1>8 DEF TakeItems, c

(* The ticket of an event cannot be read: the cursor moves to the event,    *)
(* which counts as misread.                                                 *)
LEMMA TicketReadFailsStep == Inv /\ TicketReadFails => Inv'
<1> SUFFICES ASSUME Inv, TicketReadFails PROVE Inv'
  OBVIOUS
<1>1. PICK n \in EventsIn(outer) :
        /\ outer' = outer \ {<<"event", n>>}
        /\ call' = [call EXCEPT !.cursor = Reached({<<"event", n>>})]
        /\ misread' = misread \cup {n}
  BY DEF TicketReadFails
<1>2. /\ UNCHANGED <<journal, offers, unsent, stream, cue, inner, since, told, repeated,
                     surfaced, dropped, guard>>
      /\ call.pc = "wait" /\ faults' \in 0..MaxFaults
  BY FaultBound DEF TicketReadFails, board
<1> DEFINE c == Reached({<<"event", n>>})
<1>3. /\ Last \in Nat /\ call.cursor \in 0..Last /\ since \in 0..Last
      /\ since <= call.cursor /\ call \in Calls /\ outer \subseteq ItemKinds \X (0..Last)
  BY <1>2 DEF Inv, BoardOK, PipeOK, SeatOK, Fresh, Calls
<1>4. <<"event", n>> \in outer /\ n \in 1..Last
  <2>1. <<"event", n>> \in outer
    BY <1>3, EventsAre
  <2>2. n \in 0..Last /\ since < n
    BY <1>3, <2>1 DEF Inv, Fresh
  <2> QED BY <1>3, <2>1, <2>2
<1>5. c \in {call.cursor, n} /\ call.cursor <= c
  <2>1. c = Largest({call.cursor, n})
    <3>1. {x[2] : x \in {<<"event", n>>}} = {n}
      OBVIOUS
    <3>2. {call.cursor} \cup {n} = {call.cursor, n}
      OBVIOUS
    <3> QED BY <3>1, <3>2 DEF Reached
  <2>2. {call.cursor, n} \subseteq 0..Last /\ {call.cursor, n} # {}
    BY <1>3, <1>4
  <2> HIDE DEF c
  <2> QED BY <1>3, <2>1, <2>2, LargestExists
<1>6. c \in 0..Last /\ since <= c
  BY <1>3, <1>4, <1>5
<1>7. Covered(c)
  <2>1. \A x \in outer : Covered(x[2])
    BY DEF Inv, Cover
  <2>2. Covered(n)
    BY <1>4, <2>1
  <2>3. Covered(call.cursor)
    BY <1>2 DEF Inv, Cover
  <2> HIDE DEF c
  <2> QED BY <1>5, <2>2, <2>3
<1>8. ASSUME NEW m \in EventsIn(outer), m # n PROVE m \in EventsIn(outer')
  <2>1. <<"event", m>> \in outer'
    BY <1>1, <1>3, <1>8, EventsAre
  <2>2. outer' \subseteq ItemKinds \X (0..Last)
    BY <1>1, <1>3
  <2> QED BY <2>1, <2>2, EventsAre
<1>9. EventsIn(outer') \subseteq EventsIn(outer)
  BY <1>1 DEF EventsIn
<1>10. call' = [call EXCEPT !.cursor = c]
  BY <1>1
<1> HIDE DEF c
<1>11. call' \in Calls /\ call'.pc = "wait" /\ call'.cursor = c
  <2>1. c \in Nat
    BY <1>3, <1>6
  <2> QED BY <1>2, <1>3, <1>10, <2>1 DEF Calls
<1>12. BoardOK'
  <2>1. unsent' \in BOOLEAN
    <3>1. unsent \in BOOLEAN /\ unsent' = unsent
      BY <1>2 DEF Inv, BoardOK
    <3> QED BY <3>1, Zenon
  <2> QED BY <1>2, <2>1 DEF Inv, BoardOK, Last
<1>13. PipeOK' /\ SeatOK' /\ StreamOK'
  <2>1. Last' = Last
    BY <1>2 DEF Last
  <2>2. outer' \subseteq outer
    BY <1>1
  <2>3. misread' \subseteq 1..Last
    BY <1>1, <1>4 DEF Inv, SeatOK
  <2>4. PipeOK'
    BY <1>2, <2>1, <2>2 DEF Inv, PipeOK
  <2>5. SeatOK'
    BY <1>2, <1>3, <1>6, <1>11, <2>1, <2>3 DEF Inv, SeatOK
  <2>6. StreamOK'
    BY <1>2, <1>11, <2>1 DEF Inv, StreamOK
  <2> QED BY <2>4, <2>5, <2>6
<1>14. Fresh'
  BY <1>2, <1>6, <1>9, <1>11 DEF Inv, Fresh
<1>15. Cover'
  <2>1. ASSUME NEW v, Covered(v) PROVE Covered(v)'
    BY <1>1, <1>2, <2>1 DEF Covered
  <2>2. outer' \subseteq outer
    BY <1>1
  <2>3. \A m \in stream'.seen : journal'[m] = "note" => m \in inner' \cup EventsIn(outer') \cup misread'
    <3> SUFFICES ASSUME NEW m \in stream.seen, journal[m] = "note"
                 PROVE  m \in inner \cup EventsIn(outer') \cup misread'
      BY <1>2
    <3>1. m \in inner \cup EventsIn(outer) \cup misread
      BY DEF Inv, Cover
    <3> QED BY <1>1, <1>8, <3>1
  <2>4. Covered(since)' /\ Covered(call.cursor)'
    <3>1. Covered(since) /\ Covered(c)
      BY <1>7 DEF Inv, Cover
    <3>2. Covered(since)'
      BY <1>2, <2>1, <3>1
    <3>3. \A m \in 1..c : journal[m] = "note" => m \in told \cup dropped \cup misread' \cup stream.seen
      BY <1>1, <3>1 DEF Covered
    <3>4. Covered(call.cursor)'
      BY <1>2, <1>11, <3>3 DEF Covered
    <3> QED BY <3>2, <3>4
  <2>5. /\ stream'.pc # "off" => Covered(stream.initial)' /\ Covered(stream.position)'
        /\ stream'.pc = "drain" => Covered(stream.at)'
        /\ \A m \in inner : Covered(m)'
    BY <1>2, <2>1 DEF Inv, Cover
  <2>6. \A x \in outer' : Covered(x[2])'
    BY <2>1, <2>2 DEF Inv, Cover
  <2> QED BY <1>2, <2>3, <2>4, <2>5, <2>6 DEF Cover
<1> QED BY <1>12, <1>13, <1>14, <1>15 DEF Inv

(* The call ends with an error: the seat keeps what it knows. *)
LEMMA CallRaisesStep == Inv /\ CallRaises => Inv'
<1> SUFFICES ASSUME Inv, CallRaises PROVE Inv'
  OBVIOUS
<1>1. /\ UNCHANGED <<journal, offers, unsent, since, told, repeated, surfaced, dropped,
                     misread, guard>>
      /\ call' = NoCall /\ stream' = NoStream /\ inner' = {} /\ outer' = {}
      /\ faults' \in 0..MaxFaults
  BY FaultBound DEF CallRaises, board, seat
<1>2. Last' = Last /\ Last \in Nat
  BY <1>1 DEF Last, Inv, BoardOK
<1>3. BoardOK'
  <2>1. unsent' \in BOOLEAN
    <3>1. unsent \in BOOLEAN /\ unsent' = unsent
      BY <1>1 DEF Inv, BoardOK
    <3> QED BY <3>1, Zenon
  <2> QED BY <1>1, <1>2, <2>1 DEF Inv, BoardOK
<1>4. PipeOK' /\ SeatOK' /\ StreamOK'
  <2>1. cue' \in BOOLEAN
    BY Zenon DEF CallRaises
  <2>2. NoStream \in Streams
    BY DEF NoStream, Streams
  <2>3. NoCall \in Calls /\ NoCall.cursor = 0
    BY DEF NoCall, Calls
  <2>4. PipeOK'
    BY <1>1, <2>1, <2>2 DEF PipeOK
  <2>5. SeatOK'
    BY <1>1, <1>2, <2>3 DEF Inv, SeatOK
  <2>6. StreamOK'
    BY <1>1, <1>2 DEF StreamOK, NoStream
  <2> QED BY <2>4, <2>5, <2>6
<1>5. Fresh'
  BY <1>1 DEF Inv, Fresh, NoCall, NoStream, EventsIn
<1>6. Cover'
  <2>1. Covered(since) /\ \A n \in stream.seen : since < n
    BY DEF Inv, Cover, Fresh
  <2>2. since \in Nat
    BY <1>2 DEF Inv, SeatOK
  <2>3. Covered(since)'
    <3> SUFFICES ASSUME NEW n \in 1..since, journal[n] = "note"
                 PROVE  n \in told \cup dropped \cup misread
      BY <1>1 DEF Covered
    <3>1. n \in told \cup dropped \cup misread \cup stream.seen
      BY <2>1 DEF Covered
    <3> QED BY <2>1, <2>2, <3>1
  <2> QED BY <1>1, <2>3 DEF Cover, NoCall, NoStream
<1> QED BY <1>3, <1>4, <1>5, <1>6 DEF Inv

-----------------------------------------------------------------------------
(* A step that changes nothing. *)
LEMMA StutterStep == Inv /\ UNCHANGED vars => Inv'
<1> SUFFICES ASSUME Inv, UNCHANGED vars PROVE Inv'
  OBVIOUS
<1>1. UNCHANGED <<journal, offers, unsent, stream, cue, inner, outer, call, since, told, repeated,
                  surfaced, dropped, misread, guard, faults>>
  BY DEF vars, board, pipe, seat
<1>2. BoardOK' /\ SeatOK' /\ Last' = Last
  BY <1>1, ElsewhereKept DEF Elsewhere, Inv, BoardOK
<1>3. PipeOK'
  BY <1>1, <1>2 DEF Inv, PipeOK
<1>4. StreamOK' /\ Fresh' /\ Cover'
  BY <1>1, <1>2 DEF Inv, StreamOK, Fresh, Cover, Covered, EventsIn
<1> QED BY <1>2, <1>3, <1>4 DEF Inv

(* The invariant holds of every behaviour of Central, stream and call. *)
THEOREM AlwaysInv == Spec => []Inv
<1>1. Init => Inv
  BY InitInv
<1>2. Inv /\ [Next]_vars => Inv'
  <2> SUFFICES ASSUME Inv, [Next]_vars PROVE Inv'
    OBVIOUS
  <2>1. CASE Central
    BY <2>1, CommitStep, NotifyStep, OfferEndsStep, CentralRestartsStep DEF Central
  <2>2. CASE Stream
    BY <2>2, ConnectStep, ReadPageStep, YieldStep, EndPageStep, TakeCueStep,
       ConnectionLostStep, PushCuesStep DEF Stream
  <2>3. CASE Bridge
    BY <2>3, EnterStep, KeeperStep, EntryCheckStep, TakeItemsStep, TicketReadFailsStep,
       CallRaisesStep, PollStep, TimeoutStep, OtherStep DEF Bridge
  <2>4. CASE UNCHANGED vars
    BY <2>4, StutterStep
  <2> QED BY <2>1, <2>2, <2>3, <2>4 DEF Next
<1> QED BY <1>1, <1>2, PTL DEF Spec

(* The wait bridge, its stream and its queues keep their types: the queue   *)
(* of events() holds one item, and no cursor is ahead of the journal.       *)
THEOREM TypeCorrect == Spec => []TypeOK
  BY AlwaysInv, InvImplies, PTL

(* Nothing a waiting seat must learn falls behind its cursor, except what   *)
(* the stream of a call held when the call returned, and what was taken     *)
(* from a stream while its ticket could not be read.                        *)
THEOREM NothingSkipped == Spec => []SkippedOnlyInFlight
  BY AlwaysInv, InvImplies, PTL

(* No event of the journal is returned to the seat twice. *)
THEOREM NothingRepeated == Spec => []ReturnedOnce
  BY AlwaysInv, InvImplies, PTL
===============================================================================
