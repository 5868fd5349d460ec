------------------------------ MODULE Journal ------------------------------
(***************************************************************************)
(* The per-board event journal of Central and the server-side consumer     *)
(* cursors: journal.py (Journal), central.py (CentralJournal, the sweep    *)
(* and board_catchup) and cursor.py (CursorStore).                         *)
(*                                                                         *)
(* Every call runs under the tool lock and in one store transaction, so    *)
(* each operation is one atomic action.  A row keeps only what the code    *)
(* decides on: its sequence number, its kind, its actor, its recipients    *)
(* and, for a deprecation warning, the identity that is warned once.       *)
(* The journal follows one ticket, so that "ticket is open" events, which  *)
(* everybody sees while the ticket is still open, can be told from events  *)
(* addressed to named recipients.                                          *)
(***************************************************************************)
EXTENDS Naturals, Sequences, FiniteSets

CONSTANTS
    Consumers,      \* identities (principal, agent_name) that read the journal
    WarnKeys,       \* identities of deprecation warnings
    System,         \* the actor of events no consumer caused
    NoKey,          \* a row that is not a deprecation warning
    MinRetain,      \* MIN_COMPACTION_RETAIN_LAST
    RowCap,         \* the board's journal_row_cap
    DedupeMax,      \* DEPRECATION_WARNING_DEDUPE_MAX_ENTRIES
    MaxPage,        \* the page limit of _drain, and the largest one asked for
    MaxSeq,         \* bound: the run appends at most this many events
    Inputs          \* bound: the <<kind, actor, recipients>> of the events

(***************************************************************************)
(* The schema check admits row caps from MIN_JOURNAL_ROW_CAP, which is     *)
(* MIN_COMPACTION_RETAIN_LAST + 1.                                         *)
(***************************************************************************)
ASSUME JournalAssumption ==
    /\ MinRetain \in Nat \ {0}
    /\ RowCap \in Nat /\ RowCap >= MinRetain + 1
    /\ DedupeMax \in Nat \ {0}
    /\ MaxPage \in Nat \ {0}
    /\ MaxSeq \in Nat
    /\ System \notin Consumers
    /\ NoKey \notin WarnKeys
    /\ Inputs \subseteq {"note", "opened", "resolved", "taken"}
                     \X (Consumers \cup {System}) \X SUBSET Consumers

VARIABLES
    next_seq,           \* the sequence number the next event gets
    compacted_through,  \* the last sequence number compaction removed
    rows,               \* the retained events, oldest first
    dedupe,             \* warning identity -> seq, the idempotency entries
    cursors,            \* CursorStore: the acknowledged cursor of a consumer
    acked,              \* consumers that have a cursor entry
    live,               \* consumers the sweep takes into account
    aged,               \* events up to this seq are older than the retention
    expired,            \* events whose expires_at has passed
    is_open,            \* the ticket is open
    position,           \* the cursor the event loop of a consumer keeps
    page,               \* the page _drain was given and has not acknowledged
    ended,              \* consumers whose event stream ended with an error
    shown,              \* history: events returned to a consumer
    resynced,           \* history: the highest reset_cursor a consumer got
    warned              \* history: how often a warning was appended

journal == <<next_seq, compacted_through, rows, dedupe>>
readers == <<cursors, acked, position, page, ended, shown, resynced>>
world   == <<live, aged, expired, is_open>>
vars    == <<journal, readers, world, warned>>

Kinds == {"note", "opened", "resolved", "taken", "warning", "compaction"}

Row == [seq : Nat, kind : Kinds, actor : Consumers \cup {System},
        to : SUBSET Consumers, key : WarnKeys \cup {NoKey}]

NoCursor == 0

(* next_cursor and scan_count of a page; nothing was scanned for NoPage. *)
NoPage == [next |-> NoCursor, scan |-> 0]

(* Only warnings have an identity, and only notes have an expires_at. *)
TypeOK ==
    /\ next_seq \in Nat \ {0}
    /\ compacted_through \in Nat
    /\ rows \in Seq(Row)
    /\ \A i \in DOMAIN rows :
         /\ rows[i].kind = "warning" => rows[i].key \in WarnKeys
         /\ rows[i].seq \in expired => rows[i].kind = "note"
    /\ dedupe \subseteq (WarnKeys \X Nat)
    /\ cursors \in [Consumers -> Nat]
    /\ acked \subseteq Consumers
    /\ live \subseteq Consumers
    /\ aged \in Nat
    /\ expired \subseteq 1..(next_seq - 1)
    /\ is_open \in BOOLEAN
    /\ position \in [Consumers -> Nat]
    /\ page \in [Consumers -> [next : Nat, scan : Nat]]
    /\ ended \subseteq Consumers
    /\ shown \in [Consumers -> SUBSET Nat]
    /\ resynced \in [Consumers -> Nat]
    /\ warned \in [WarnKeys -> Nat]

(* Journal._default and CursorStore._default: an empty board. *)
Init ==
    /\ next_seq = 1
    /\ compacted_through = 0
    /\ rows = << >>
    /\ dedupe = {}
    /\ cursors = [c \in Consumers |-> NoCursor]
    /\ acked = {}
    /\ live = {}
    /\ aged = 0
    /\ expired = {}
    /\ is_open = FALSE
    /\ position = [c \in Consumers |-> NoCursor]
    /\ page = [c \in Consumers |-> NoPage]
    /\ ended = {}
    /\ shown = [c \in Consumers |-> {}]
    /\ resynced = [c \in Consumers |-> 0]
    /\ warned = [k \in WarnKeys |-> 0]

latest_cursor == next_seq - 1

-----------------------------------------------------------------------------
(* Appending *)

(* The two consistency checks of append, which raise and write nothing. *)
SequenceIsSound ==
    /\ next_seq > compacted_through
    /\ rows # << >> => rows[Len(rows)].seq < next_seq

AppendRow(kind, actor, to, key) ==
    /\ next_seq <= MaxSeq
    /\ SequenceIsSound
    /\ rows' = Append(rows, [seq |-> next_seq, kind |-> kind, actor |-> actor,
                             to |-> to, key |-> key])
    /\ next_seq' = next_seq + 1

(* Journal.append, CentralJournal.append: an event for named recipients. *)
append(actor, to) ==
    /\ AppendRow("note", actor, to, NoKey)
    /\ UNCHANGED <<compacted_through, dedupe, readers, world, warned>>

(* The event of a call that opens the ticket, appended in the transaction  *)
(* that changes its status.                                                *)
append_opened(actor, to) ==
    /\ ~is_open
    /\ AppendRow("opened", actor, to, NoKey)
    /\ is_open' = TRUE
    /\ UNCHANGED <<compacted_through, dedupe, readers, live, aged, expired,
                   warned>>

(* ticket_human_resolve opens it too, with an event for named recipients    *)
(* that is no ticket_status_changed.                                        *)
append_resolved(actor, to) ==
    /\ ~is_open
    /\ AppendRow("resolved", actor, to, NoKey)
    /\ is_open' = TRUE
    /\ UNCHANGED <<compacted_through, dedupe, readers, live, aged, expired,
                   warned>>

(* ... and of a call that takes it from the queue. *)
append_taken(actor, to) ==
    /\ is_open
    /\ AppendRow("taken", actor, to, NoKey)
    /\ is_open' = FALSE
    /\ UNCHANGED <<compacted_through, dedupe, readers, live, aged, expired,
                   warned>>

-----------------------------------------------------------------------------
(* Warnings that are appended once *)

Entries(d, k) == {e \in d : e[1] = k}

(* entries.setdefault(key, event) *)
Remember(d, k, seq) == IF Entries(d, k) = {} THEN d \cup {<<k, seq>>} ELSE d

(* Mutant of Trim: one entry too many is dropped. *)
TrimTooMuch(d) ==
    {e \in d : Cardinality({f \in d : f[2] > e[2]}) < DedupeMax - 1}

(* The entries a trim keeps: all but the overflow with the lowest seq. *)
Trim(d) ==
    {e \in d : Cardinality({f \in d : f[2] > e[2]}) < DedupeMax}

WarningRows == {i \in DOMAIN rows : rows[i].kind = "warning"}

(* CentralJournal.append_once for deprecated_tool_warning: the idempotency  *)
(* entries first, then the retained rows, and only then a new row.          *)
append_once_known(k) ==
    /\ Entries(dedupe, k) # {}
    /\ UNCHANGED vars

append_once_retained(k) ==
    /\ Entries(dedupe, k) = {}
    /\ \E i \in WarningRows :
         /\ rows[i].key = k
         /\ \A j \in WarningRows : rows[j].key = k => i <= j
         /\ dedupe' = Trim(Remember(dedupe, k, rows[i].seq))
    /\ UNCHANGED <<next_seq, compacted_through, rows, readers, world, warned>>

append_once_new(k, to) ==
    /\ Entries(dedupe, k) = {}
    /\ \A i \in WarningRows : rows[i].key # k
    /\ AppendRow("warning", System, to, k)
    /\ dedupe' = Trim(Remember(dedupe, k, next_seq))
    /\ warned' = [warned EXCEPT ![k] = @ + 1]
    /\ UNCHANGED <<compacted_through, readers, world>>

-----------------------------------------------------------------------------
(* Compaction *)

Max2(a, b) == IF a >= b THEN a ELSE b
Min2(a, b) == IF a <= b THEN a ELSE b

(* compact remembers every warning it may remove before it trims: the first *)
(* retained row of an identity that has no entry gives the entry.           *)
RememberAll ==
    Trim(dedupe \cup
         {<<rows[i].key, rows[i].seq>> :
            i \in {i \in WarningRows :
                     /\ Entries(dedupe, rows[i].key) = {}
                     /\ \A j \in WarningRows :
                          rows[j].key = rows[i].key => i <= j}})

RemoveCount(retain_last) == Max2(0, Len(rows) - retain_last)

Retained(retain_last) == SubSeq(rows, RemoveCount(retain_last) + 1, Len(rows))

(* Mutant of CompactedThrough: the watermark is not written. *)
CompactedThroughForgotten(retain_last) == compacted_through

CompactedThrough(retain_last) ==
    IF RemoveCount(retain_last) > 0
      THEN rows[RemoveCount(retain_last)].seq
      ELSE compacted_through

(* CentralJournal.compact, called by the journal_compact tool of an admin. *)
journal_compact(retain_last) ==
    /\ retain_last >= MinRetain
    /\ dedupe' = RememberAll
    /\ rows' = Retained(retain_last)
    /\ compacted_through' = CompactedThrough(retain_last)
    /\ UNCHANGED <<next_seq, readers, world, warned>>

(* CursorStore.oldest_live_cursor: cursors of active, recently seen members. *)
Counted == acked \cap live
AtOrAfterOldest(seq) ==
    \E c \in Counted : seq >= cursors[c] /\ \A d \in Counted : cursors[c] <= cursors[d]

(* Mutant of Needed: the retention window decides alone. *)
NeededInWindow(i) == rows[i].seq > aged

(* The loop of journal_sweep that finds keep_from, the first row to keep: *)
(* the one at the oldest live cursor or inside the retention window.      *)
Needed(i) == AtOrAfterOldest(rows[i].seq) \/ rows[i].seq > aged

KeepFrom ==
    IF \E i \in DOMAIN rows : Needed(i)
      THEN (CHOOSE i \in DOMAIN rows :
              Needed(i) /\ \A j \in DOMAIN rows : Needed(j) => i <= j) - 1
      ELSE Len(rows)

SweepRetain == Min2(Max2(MinRetain, Len(rows) - KeepFrom), RowCap - 1)

(* CentralBoard.journal_sweep: the recurring reaper compacts what nobody   *)
(* needs and appends one event about it to the board's administrators.     *)
journal_sweep(admins) ==
    /\ next_seq <= MaxSeq
    /\ next_seq' = next_seq + 1
    /\ Len(rows) > MinRetain
    /\ SweepRetain < Len(rows)
    /\ dedupe' = RememberAll
    /\ rows' = Append(Retained(SweepRetain),
                      [seq |-> next_seq, kind |-> "compaction",
                       actor |-> System, to |-> admins, key |-> NoKey])
    /\ compacted_through' = CompactedThrough(SweepRetain)
    /\ UNCHANGED <<readers, world, warned>>

-----------------------------------------------------------------------------
(* Reading *)

After(cursor) == {i \in DOMAIN rows : rows[i].seq > cursor}

(* The first `limit` rows after the cursor. *)
Page(cursor, limit) ==
    LET after == After(cursor)
    IN  {i \in after : \E first \in after : /\ \A j \in after : first <= j
                                            /\ i < first + limit}

NextCursor(cursor, limit) ==
    IF Page(cursor, limit) = {}
      THEN cursor
      ELSE rows[CHOOSE i \in Page(cursor, limit) :
                  \A j \in Page(cursor, limit) : j <= i].seq

(* Mutant of Visible: only events addressed to the reader. *)
VisibleAddressed(c, i) ==
    /\ rows[i].actor # c
    /\ rows[i].seq \notin expired
    /\ c \in rows[i].to

(* What board_catchup shows of a page: not the reader's own events, nothing *)
(* expired, and either addressed to it or the opening of an open ticket.    *)
Visible(c, i) ==
    /\ rows[i].actor # c
    /\ rows[i].seq \notin expired
    /\ \/ c \in rows[i].to
       \/ rows[i].kind = "opened" /\ is_open

VisibleSeqs(c, cursor, limit) ==
    {rows[i].seq : i \in {i \in Page(cursor, limit) : Visible(c, i)}}

(* The events the byte bound leaves: a prefix, up to the event `last`. *)
Returned(c, cursor, limit, last) ==
    {s \in VisibleSeqs(c, cursor, limit) : s <= last}

(* Mutant of EffectiveCursor: the raw page's cursor, also when it was cut. *)
EffectiveCursorWholePage(c, cursor, limit, last) == NextCursor(cursor, limit)

(* Advancing through invisible events is safe only when every visible event *)
(* of the raw page was returned.                                            *)
EffectiveCursor(c, cursor, limit, last) ==
    IF Returned(c, cursor, limit, last) = VisibleSeqs(c, cursor, limit)
      THEN NextCursor(cursor, limit)
      ELSE last

Ack(c, cursor) ==
    /\ cursors' = [cursors EXCEPT ![c] = Max2(@, cursor)]
    /\ acked' = acked \cup {c}
    /\ live' = live \cup {c}

(* `last` is the last visible event that fits in max_bytes; a page that     *)
(* shows one or more events returns at least one or the call fails.         *)
Fits(c, cursor, limit, last) ==
    IF VisibleSeqs(c, cursor, limit) = {}
      THEN last = 0
      ELSE last \in VisibleSeqs(c, cursor, limit)

(* board_catchup when the cursor is still covered by the journal. *)
catchup_page(c, cursor, limit, last, ack) ==
    /\ compacted_through <= cursor
    /\ cursor <= latest_cursor
    /\ Fits(c, cursor, limit, last)
    /\ shown' = [shown EXCEPT ![c] = @ \cup Returned(c, cursor, limit, last)]
    /\ IF ack THEN Ack(c, EffectiveCursor(c, cursor, limit, last))
              ELSE UNCHANGED <<cursors, acked, live>>
    /\ UNCHANGED <<journal, resynced, aged, expired, is_open, warned>>

(* board_catchup when compaction has passed the cursor: no events, nothing  *)
(* acknowledged, and the cursor to go on from.                              *)
catchup_resync(c, cursor) ==
    /\ cursor < compacted_through
    /\ resynced' = [resynced EXCEPT ![c] = Max2(@, latest_cursor)]
    /\ UNCHANGED <<journal, cursors, acked, page, ended, shown, world, warned>>

(* The cursors a consumer holds: the acknowledged one (cursor=None), the    *)
(* one its event loop keeps and the one its page brings.                    *)
StartCursors(c) == {cursors[c], position[c], page[c].next}

(* A call of board_catchup outside the event loop, by the agent's own tools *)
(* or another client of the seat.                                           *)
board_catchup(c) ==
    /\ \E cursor \in {cursors[c], position[c]} :
         \/ catchup_resync(c, cursor)
         \/ /\ \E limit \in 1..MaxPage, last \in 0..latest_cursor,
                  ack \in BOOLEAN :
                 catchup_page(c, cursor, limit, last, ack)
            /\ UNCHANGED <<page, ended>>
    /\ UNCHANGED position

(* A round of _drain starts with a page at the loop's cursor; its events go *)
(* to the consumer and nothing is acknowledged yet.                         *)
drain_read(c) ==
    /\ c \notin ended
    /\ page[c] = NoPage
    /\ Page(position[c], MaxPage) # {}
    /\ \E last \in 0..latest_cursor :
         /\ catchup_page(c, position[c], MaxPage, last, FALSE)
         /\ page' = [page EXCEPT ![c] =
              [next |-> EffectiveCursor(c, position[c], MaxPage, last),
               scan |-> Cardinality(Page(position[c], MaxPage))]]
    /\ UNCHANGED <<position, ended>>

(* ... or with the news that compaction has passed that cursor. *)
drain_resync(c) ==
    /\ c \notin ended
    /\ page[c] = NoPage
    /\ catchup_resync(c, position[c])
    /\ position' = [position EXCEPT ![c] = Max2(@, latest_cursor)]

(* The page's events are out: the loop goes on from its next_cursor. *)
Advance(c) ==
    /\ position' = [position EXCEPT ![c] = page[c].next]
    /\ page' = [page EXCEPT ![c] = NoPage]
    /\ UNCHANGED <<journal, ended, shown, resynced, aged, expired, is_open,
                   warned>>

(* events(acknowledge=False) reads on without a second call. *)
drain_unacknowledged(c) ==
    /\ page[c] # NoPage
    /\ Advance(c)
    /\ UNCHANGED <<cursors, acked, live>>

(* The second call counts back from next_cursor by the length of the raw    *)
(* page, also when the byte bound had cut the page short, and acknowledges  *)
(* what the board shows from there; a resync answer acknowledges nothing.   *)
drain_acknowledge(c) ==
    LET scan == page[c].scan
        start == page[c].next - scan
    IN  /\ page[c] # NoPage
        /\ scan <= page[c].next
        /\ \/ /\ start < compacted_through
              /\ UNCHANGED <<cursors, acked, live>>
           \/ /\ compacted_through <= start
              /\ \E last \in 0..latest_cursor :
                   /\ Fits(c, start, scan, last)
                   /\ Ack(c, EffectiveCursor(c, start, scan, last))
        /\ Advance(c)

(* Counted back beyond the first event: read_after refuses the negative     *)
(* cursor, the error is none that is retried, and the stream ends.          *)
drain_fails(c) ==
    /\ page[c] # NoPage
    /\ page[c].scan > page[c].next
    /\ ended' = ended \cup {c}
    /\ page' = [page EXCEPT ![c] = NoPage]
    /\ UNCHANGED <<journal, cursors, acked, position, shown, resynced, world,
                   warned>>

drain(c) ==
    \/ drain_read(c)
    \/ drain_resync(c)
    \/ drain_unacknowledged(c)
    \/ drain_acknowledge(c)
    \/ drain_fails(c)

(* The consumer's process restarts: only the acknowledged cursor is left. *)
Restart(c) ==
    /\ position[c] # cursors[c] \/ page[c] # NoPage \/ c \in ended
    /\ position' = [position EXCEPT ![c] = cursors[c]]
    /\ page' = [page EXCEPT ![c] = NoPage]
    /\ ended' = ended \ {c}
    /\ UNCHANGED <<journal, cursors, acked, shown, resynced, world, warned>>

-----------------------------------------------------------------------------
(* Time and membership *)

(* A consumer's seat goes stale or is retired; its cursor stops counting. *)
GoStale(c) ==
    /\ c \in live
    /\ live' = live \ {c}
    /\ UNCHANGED <<journal, readers, aged, expired, is_open, warned>>

(* The retention window moves past the next event. *)
Age ==
    /\ aged < latest_cursor
    /\ aged' = aged + 1
    /\ UNCHANGED <<journal, readers, live, expired, is_open, warned>>

(* Mutant of Expire: every kind of event can expire. *)
ExpireAny(i) ==
    /\ rows[i].seq \notin expired
    /\ expired' = expired \cup {rows[i].seq}
    /\ UNCHANGED <<journal, readers, live, aged, is_open, warned>>

(* The expires_at of an event addressed to somebody passes. *)
Expire(i) ==
    /\ rows[i].kind = "note"
    /\ rows[i].seq \notin expired
    /\ expired' = expired \cup {rows[i].seq}
    /\ UNCHANGED <<journal, readers, live, aged, is_open, warned>>

Appends ==
    \E e \in Inputs :
        \/ e[1] = "note" /\ append(e[2], e[3])
        \/ e[1] = "opened" /\ append_opened(e[2], e[3])
        \/ e[1] = "resolved" /\ append_resolved(e[2], e[3])
        \/ e[1] = "taken" /\ append_taken(e[2], e[3])

Warnings ==
    \E k \in WarnKeys :
        \/ append_once_known(k)
        \/ append_once_retained(k)
        \/ \E e \in Inputs : append_once_new(k, e[3])

Sweep == \E e \in Inputs : journal_sweep(e[3])

(* Retaining more rows than there are is the same as retaining them all. *)
Compactions ==
    \/ \E retain_last \in MinRetain..Max2(MinRetain, Len(rows)) :
         journal_compact(retain_last)
    \/ Sweep

Environment ==
    \/ \E c \in Consumers : Restart(c) \/ GoStale(c)
    \/ Age
    \/ \E i \in DOMAIN rows : Expire(i)

Next ==
    \/ Appends
    \/ Warnings
    \/ Compactions
    \/ \E c \in Consumers : board_catchup(c) \/ drain(c)
    \/ Environment

Spec == Init /\ [][Next]_vars

(* Fairness of the clients' event loops only: a loop that can take a step   *)
(* of its round takes it, and a consumer restarts finitely often (one that  *)
(* dies in every round is never done).  Nothing makes an event happen.      *)
FairSpec ==
    /\ Spec
    /\ \A c \in Consumers : WF_vars(drain(c)) /\ <>[][~Restart(c)]_vars

-----------------------------------------------------------------------------
(* Properties *)

(* The journal has no holes: the retained rows are exactly the events after *)
(* compacted_through up to the last one appended, in order.  Appending,     *)
(* deduplicating, compacting and sweeping all have to keep this, because    *)
(* read_after promises every event after the cursor or a resync.            *)
RowsAreContiguous ==
    /\ next_seq = compacted_through + Len(rows) + 1
    /\ \A i \in DOMAIN rows : rows[i].seq = compacted_through + i

(* Neither the acknowledged cursor nor the one a client keeps skips an      *)
(* event silently: whatever is still retained, addressed to the consumer    *)
(* and at or before that cursor was returned to it, has expired, or was     *)
(* covered by a resync it was told of.  This is what the byte-bounded page  *)
(* of board_catchup and its acknowledgement put at risk.                    *)
CaughtUpMeansShown ==
    \A c \in Consumers, i \in DOMAIN rows : \A p \in StartCursors(c) :
        /\ c \in rows[i].to
        /\ rows[i].actor # c
        /\ rows[i].seq <= p
        => \/ rows[i].seq \in shown[c]
           \/ rows[i].seq \in expired
           \/ rows[i].seq <= resynced[c]

Opens(i) == rows[i].kind \in {"opened", "resolved"}

(* While the ticket is open, a consumer whose cursor has passed the event   *)
(* that opened it was shown that event, although the event is visible only  *)
(* as long as the ticket stays open: nobody misses work in the queue.  The  *)
(* one opening that is not shown to everybody is the human's answer, which  *)
(* only its recipients get; the others hear of that ticket by its offers.   *)
OpenTicketIsShown ==
    \A c \in Consumers, i \in DOMAIN rows : \A p \in StartCursors(c) :
        /\ is_open
        /\ Opens(i)
        /\ \A j \in DOMAIN rows : Opens(j) => rows[j].seq <= rows[i].seq
        /\ rows[i].kind = "opened" \/ c \in rows[i].to
        /\ rows[i].actor # c
        /\ rows[i].seq <= p
        => rows[i].seq \in shown[c] \/ rows[i].seq <= resynced[c]

(* No cursor a consumer holds is ahead of the journal, so read_after never  *)
(* answers "cursor is ahead of journal" to a well-behaved client, whatever  *)
(* resyncs, restarts and compactions happened in between.                   *)
CursorsNeverAhead ==
    \A c \in Consumers : \A p \in StartCursors(c) : p <= latest_cursor

(* A deprecated tool is warned about once among the retained rows, and is   *)
(* warned about again after compaction removed the row only when so many    *)
(* other tools were warned about that the idempotency entries overflowed.   *)
WarnedOnce ==
    /\ \A i, j \in WarningRows : rows[i].key = rows[j].key => i = j
    /\ \A k \in WarnKeys :
         warned[k] >= 2 =>
           Cardinality({j \in WarnKeys \ {k} : warned[j] >= 1}) >= DedupeMax

(* A cursor the server acknowledged is never taken back, in whatever order  *)
(* the acknowledgements of one consumer arrive.                             *)
AckNeverMovesBack == [][\A c \in Consumers : cursors'[c] >= cursors[c]]_vars

(* After a sweep the journal, with the event about the sweep, fits the cap. *)
SweepRespectsCap == [][Sweep => Len(rows') <= RowCap]_vars

(* The rows that live consumers have not acknowledged stay in the journal.  *)
KeepsUnread ==
    \A c \in Counted :
        cursors[c] >= compacted_through => cursors[c] >= compacted_through'

(* A sweep never forces a resync on a live consumer while the journal is    *)
(* below its row cap, whatever the retention window says.                   *)
SweepKeepsUnread == [][Sweep /\ Len(rows) < RowCap => KeepsUnread]_vars

(* The stream ended on a page that was cut short within the first MaxPage   *)
(* events of the board, the only place where counting back goes too far.    *)
EndedAtTheStart(c) == c \in ended /\ position[c] + 1 < MaxPage

(* Every event addressed to a consumer that keeps draining reaches it, or   *)
(* expires, or is covered by a resync the consumer is told about; but for a *)
(* stream that counted back beyond the first event and ended with an error. *)
EventReachesConsumer ==
    \A c \in Consumers, s \in 1..MaxSeq :
        (\E i \in DOMAIN rows :
            rows[i].seq = s /\ c \in rows[i].to /\ rows[i].actor # c)
        ~> \/ s \in shown[c] \/ s \in expired \/ s <= resynced[c]
           \/ EndedAtTheStart(c)
=============================================================================
