--------------------------- MODULE JournalProofs ---------------------------
(***************************************************************************)
(* Proofs about Journal, for every number of consumers, events and pages   *)
(* and every row cap.  The invariants of the delivery run are inductive    *)
(* only together: that a cursor skips nothing needs the rows to be         *)
(* contiguous (the page after a cursor is then an interval of sequence     *)
(* numbers) and the cursors not to be ahead (a new event is then after     *)
(* all of them).                                                           *)
(***************************************************************************)
EXTENDS Journal, SequenceTheorems, FiniteSetTheorems, NaturalsInduction,
        WellFoundedInduction, TLAPS

IInv ==
    /\ TypeOK
    /\ RowsAreContiguous
    /\ CursorsNeverAhead
    /\ CaughtUpMeansShown
    /\ OpenTicketIsShown

(* The fields of a row. *)
LEMMA RowFields ==
    ASSUME NEW r \in Seq(Row), NEW i \in DOMAIN r
    PROVE  /\ i \in 1..Len(r) /\ Len(r) \in Nat
           /\ r[i] \in Row
           /\ r[i].seq \in Nat /\ r[i].kind \in Kinds
           /\ r[i].key \in WarnKeys \cup {NoKey}
<1>1. r[i] \in Row /\ i \in 1..Len(r) /\ Len(r) \in Nat
  OBVIOUS
<1> QED
  BY <1>1 DEF Row

(* The cursors a consumer holds are numbers. *)
LEMMA HeldTyped ==
    ASSUME TypeOK, NEW c \in Consumers PROVE StartCursors(c) \subseteq Nat
<1>1. cursors[c] \in Nat /\ position[c] \in Nat /\ page[c].next \in Nat
  BY DEF TypeOK
<1> QED
  BY <1>1 DEF StartCursors

(* The empty board satisfies the invariant: nothing was appended, nothing read. *)
LEMMA InitIsGood == Init => IInv
<1> SUFFICES ASSUME Init PROVE IInv
  OBVIOUS
<1>1. TypeOK
  <2>1. rows \in Seq(Row) /\ DOMAIN rows = {}
    BY DEF Init
  <2>2. is_open \in BOOLEAN
    BY DEF Init
  <2> QED
    BY <2>1, <2>2 DEF Init, TypeOK, NoCursor, NoPage
<1>2. DOMAIN rows = {} /\ Len(rows) = 0
  BY DEF Init
<1>3. RowsAreContiguous /\ CaughtUpMeansShown /\ OpenTicketIsShown
  BY <1>2 DEF Init, RowsAreContiguous, CaughtUpMeansShown, OpenTicketIsShown
<1>4. CursorsNeverAhead
  BY DEF Init, CursorsNeverAhead, StartCursors, latest_cursor, NoCursor, NoPage
<1> QED
  BY <1>1, <1>3, <1>4 DEF IInv

-----------------------------------------------------------------------------
(* How the rows change *)

(* The rows after a step are rows from before it that lie after the new     *)
(* compacted_through, all of them, and events that did not exist before.    *)
RowsEvolve ==
    /\ \A i \in DOMAIN rows' :
         rows'[i].seq < next_seq => \E j \in DOMAIN rows : rows'[i] = rows[j]
    /\ \A j \in DOMAIN rows :
         rows[j].seq > compacted_through' =>
           \E i \in DOMAIN rows' : rows[j] = rows'[i]

(* A step opens the ticket only with the event that says so. *)
OpensWithEvent ==
    is_open' => \/ is_open
                \/ \E i \in DOMAIN rows' : /\ rows'[i].kind \in {"opened", "resolved"}
                                           /\ rows'[i].seq >= next_seq

(* A step of the journal that leaves the readers alone cannot make a cursor *)
(* skip anything.                                                           *)
LEMMA JournalStepKeepsCoverage ==
    ASSUME IInv, TypeOK', RowsAreContiguous', next_seq' >= next_seq,
           RowsEvolve, OpensWithEvent, UNCHANGED readers, expired' = expired
    PROVE  IInv'
<1>0. next_seq \in Nat
  BY DEF IInv, TypeOK
<1>2. ASSUME NEW c \in Consumers, NEW p \in StartCursors(c)'
      PROVE  p \in StartCursors(c) /\ p \in Nat /\ p < next_seq
  <2>1. p \in StartCursors(c)
    BY <1>2 DEF readers, StartCursors
  <2>2. p <= latest_cursor /\ next_seq \in Nat
    BY <2>1 DEF IInv, TypeOK, CursorsNeverAhead
  <2> QED
    BY <2>1, <2>2, HeldTyped DEF IInv, latest_cursor
<1>1. CursorsNeverAhead'
  <2>1. next_seq \in Nat /\ next_seq' \in Nat
    BY DEF IInv, TypeOK
  <2>2. \A c \in Consumers : \A p \in StartCursors(c)' : p <= next_seq' - 1
    BY <1>2, <2>1
  <2> QED
    BY <2>2 DEF CursorsNeverAhead, latest_cursor
<1>3. \A i \in DOMAIN rows' : rows'[i].seq \in Nat
  BY RowFields DEF TypeOK
<1>4. CaughtUpMeansShown'
  <2> SUFFICES ASSUME NEW c \in Consumers, NEW i \in DOMAIN rows',
                      NEW p \in StartCursors(c)',
                      c \in rows'[i].to, rows'[i].actor # c, rows'[i].seq <= p
               PROVE  \/ rows'[i].seq \in shown[c]
                      \/ rows'[i].seq \in expired
                      \/ rows'[i].seq <= resynced[c]
    BY DEF CaughtUpMeansShown, readers
  <2>0. p \in StartCursors(c) /\ p \in Nat /\ p < next_seq /\ rows'[i].seq \in Nat
    BY <1>2, <1>3
  <2>1. p \in StartCursors(c) /\ rows'[i].seq < next_seq
    BY <1>0, <2>0
  <2>2. PICK j \in DOMAIN rows : rows'[i] = rows[j]
    BY <2>1 DEF RowsEvolve
  <2> QED
    BY <2>1, <2>2 DEF IInv, CaughtUpMeansShown
<1>5. OpenTicketIsShown'
  <2> SUFFICES ASSUME NEW c \in Consumers, NEW i \in DOMAIN rows',
                      NEW p \in StartCursors(c)',
                      is_open', rows'[i].kind \in {"opened", "resolved"},
                      \A k \in DOMAIN rows' :
                        rows'[k].kind \in {"opened", "resolved"} =>
                          rows'[k].seq <= rows'[i].seq,
                      rows'[i].kind = "opened" \/ c \in rows'[i].to,
                      rows'[i].actor # c,
                      rows'[i].seq <= p
               PROVE  rows'[i].seq \in shown[c] \/ rows'[i].seq <= resynced[c]
    BY DEF OpenTicketIsShown, Opens, readers
  <2>0. p \in StartCursors(c) /\ p \in Nat /\ p < next_seq /\ rows'[i].seq \in Nat
    BY <1>2, <1>3
  <2>1. p \in StartCursors(c) /\ rows'[i].seq < next_seq
    BY <1>0, <2>0
  <2>2. PICK j \in DOMAIN rows : rows'[i] = rows[j]
    BY <2>1 DEF RowsEvolve
  <2>3. is_open
    BY <2>1, <1>3, SMTT(60) DEF OpensWithEvent, IInv, TypeOK
  <2>4. ASSUME NEW k \in DOMAIN rows, Opens(k)
        PROVE  rows[k].seq <= rows[j].seq
    <3>1. rows[k].seq \in Nat /\ rows[j].seq \in Nat
      BY RowFields DEF IInv, TypeOK
    <3>2. rows[j].seq > compacted_through'
      BY <2>2, RowFields DEF RowsAreContiguous, TypeOK
    <3>3. CASE rows[k].seq > compacted_through'
      BY <2>2, <2>4, <3>3 DEF RowsEvolve, Opens
    <3> QED
      BY <3>1, <3>2, <3>3 DEF TypeOK
  <2> QED
    BY <2>1, <2>2, <2>3, <2>4 DEF IInv, OpenTicketIsShown, Opens
<1> QED
  BY <1>1, <1>4, <1>5 DEF IInv

(* Appending one row keeps the rows typed, contiguous and evolving. *)
LEMMA AppendRowFacts ==
    ASSUME IInv, NEW kind \in Kinds, NEW actor \in Consumers \cup {System},
           NEW to \in SUBSET Consumers, NEW key \in WarnKeys \cup {NoKey},
           kind = "warning" => key \in WarnKeys,
           AppendRow(kind, actor, to, key),
           compacted_through' = compacted_through, expired' = expired
    PROVE  /\ next_seq' = next_seq + 1 /\ next_seq \in Nat
           /\ rows' \in Seq(Row)
           /\ \A i \in DOMAIN rows' :
                /\ rows'[i].kind = "warning" => rows'[i].key \in WarnKeys
                /\ rows'[i].seq \in expired' => rows'[i].kind = "note"
           /\ expired' \subseteq 1..(next_seq' - 1)
           /\ RowsAreContiguous' /\ RowsEvolve
           /\ \E i \in DOMAIN rows' : rows'[i].kind = kind /\ rows'[i].seq = next_seq
<1> DEFINE row == [seq |-> next_seq, kind |-> kind, actor |-> actor, to |-> to,
                   key |-> key]
<1>1. /\ rows \in Seq(Row) /\ next_seq \in Nat \ {0} /\ compacted_through \in Nat
      /\ expired \subseteq 1..(next_seq - 1)
  BY DEF IInv, TypeOK
<1>2. row \in Row
  BY <1>1 DEF Row
<1>3. rows' = Append(rows, row) /\ next_seq' = next_seq + 1
  BY DEF AppendRow
<1> HIDE DEF row
<1>4. /\ rows' \in Seq(Row) /\ Len(rows') = Len(rows) + 1 /\ Len(rows) \in Nat
      /\ DOMAIN rows = 1..Len(rows) /\ DOMAIN rows' = 1..Len(rows')
      /\ \A i \in 1..Len(rows) : rows'[i] = rows[i]
      /\ rows'[Len(rows) + 1] = row
  BY <1>1, <1>2, <1>3
<1>5. row.seq = next_seq /\ row.kind = kind /\ row.key = key
  BY DEF row
<1>6. \A i \in DOMAIN rows' : i \in DOMAIN rows \/ i = Len(rows) + 1
  BY <1>4
<1>7. RowsAreContiguous'
  <2>1. next_seq = compacted_through + Len(rows) + 1
    BY DEF IInv, RowsAreContiguous
  <2>2. \A i \in DOMAIN rows : rows'[i].seq = compacted_through + i
    BY <1>4 DEF IInv, RowsAreContiguous
  <2>3. rows'[Len(rows) + 1].seq = compacted_through + (Len(rows) + 1)
    BY <1>1, <1>4, <1>5, <2>1
  <2>4. next_seq' = compacted_through' + Len(rows') + 1
    BY <1>1, <1>3, <1>4, <2>1
  <2>5. \A i \in DOMAIN rows' : rows'[i].seq = compacted_through' + i
    BY <1>6, <2>2, <2>3
  <2> QED
    BY <2>4, <2>5 DEF RowsAreContiguous
<1>8. next_seq \notin expired /\ expired' \subseteq 1..(next_seq' - 1)
  BY <1>1, <1>3
<1>9. RowsEvolve
  BY <1>1, <1>4, <1>5, <1>6 DEF RowsEvolve
<1>10. \A i \in DOMAIN rows' :
         /\ rows'[i].kind = "warning" => rows'[i].key \in WarnKeys
         /\ rows'[i].seq \in expired' => rows'[i].kind = "note"
  BY <1>4, <1>5, <1>6, <1>8 DEF IInv, TypeOK
<1>11. \E i \in DOMAIN rows' : rows'[i].kind = kind /\ rows'[i].seq = next_seq
  BY <1>4, <1>5
<1> QED
  BY <1>1, <1>3, <1>4, <1>7, <1>8, <1>9, <1>10, <1>11

(* What compaction to retain_last rows leaves. *)
LEMMA RetainedFacts ==
    ASSUME IInv, NEW retain_last \in Nat \ {0}
    PROVE  LET k == RemoveCount(retain_last)
           IN  /\ k \in 0..Len(rows) /\ Len(rows) \in Nat
               /\ CompactedThrough(retain_last) = compacted_through + k
               /\ Retained(retain_last) \in Seq(Row)
               /\ Len(Retained(retain_last)) = Len(rows) - k
               /\ \A i \in 1..(Len(rows) - k) : Retained(retain_last)[i] = rows[k + i]
<1> DEFINE k == RemoveCount(retain_last)
<1>1. rows \in Seq(Row) /\ Len(rows) \in Nat /\ DOMAIN rows = 1..Len(rows)
        /\ compacted_through \in Nat
  BY DEF IInv, TypeOK
<1>2. k \in 0..Len(rows)
  BY <1>1 DEF RemoveCount, Max2
<1>3. CompactedThrough(retain_last) = compacted_through + k
  BY <1>1, <1>2 DEF CompactedThrough, IInv, RowsAreContiguous
<1>4. \A i \in (k + 1)..Len(rows) : rows[i] \in Row
  BY <1>1, <1>2
<1>5. /\ SubSeq(rows, k + 1, Len(rows)) \in Seq(Row)
      /\ Len(SubSeq(rows, k + 1, Len(rows))) =
           IF k + 1 <= Len(rows) THEN Len(rows) - (k + 1) + 1 ELSE 0
      /\ \A i \in 1..(Len(rows) - (k + 1) + 1) :
           SubSeq(rows, k + 1, Len(rows))[i] = rows[k + 1 + i - 1]
  <2> HIDE DEF k
  <2>1. k + 1 \in Int /\ Len(rows) \in Int
    BY <1>1, <1>2
  <2> QED
    BY <1>4, <2>1, SubSeqProperties
<1>6. Retained(retain_last) = SubSeq(rows, k + 1, Len(rows))
  BY DEF Retained
<1> HIDE DEF k
<1>7. \A i \in 1..(Len(rows) - k) : k + 1 + i - 1 = k + i
  BY <1>1, <1>2
<1>8. Len(rows) - (k + 1) + 1 = Len(rows) - k
  BY <1>1, <1>2
<1>9. /\ Len(Retained(retain_last)) = Len(rows) - k
      /\ \A i \in 1..(Len(rows) - k) : Retained(retain_last)[i] = rows[k + i]
  <2>1. Len(Retained(retain_last)) = Len(rows) - k
    <3>1. Len(Retained(retain_last)) =
            IF k + 1 <= Len(rows) THEN Len(rows) - (k + 1) + 1 ELSE 0
      BY <1>5, <1>6, Zenon
    <3>2. Len(rows) \in Nat /\ k \in Nat /\ k <= Len(rows)
      BY <1>1, <1>2
    <3>3. CASE k + 1 <= Len(rows)
      BY <1>8, <3>1, <3>3, Zenon
    <3>4. CASE ~(k + 1 <= Len(rows))
      <4>1. Len(rows) - k = 0
        BY <3>2, <3>4
      <4> QED
        BY <3>1, <3>4, <4>1, Zenon
    <3> QED
      BY <3>3, <3>4, Zenon
  <2>2. ASSUME NEW i \in 1..(Len(rows) - k)
        PROVE  Retained(retain_last)[i] = rows[k + i]
    <3>1. i \in 1..(Len(rows) - (k + 1) + 1)
      BY <1>8
    <3>2. SubSeq(rows, k + 1, Len(rows))[i] = rows[k + 1 + i - 1]
      BY <1>5, <3>1
    <3> QED
      BY <1>6, <1>7, <3>2
  <2> QED
    BY <2>1, <2>2
<1> QED
  BY <1>1, <1>2, <1>3, <1>5, <1>6, <1>9 DEF k

(* A warning that compaction remembers is typed. *)
LEMMA RememberAllTyped ==
    ASSUME TypeOK PROVE RememberAll \subseteq WarnKeys \X Nat
<1> DEFINE first == {i \in WarningRows :
                       /\ Entries(dedupe, rows[i].key) = {}
                       /\ \A j \in WarningRows :
                            rows[j].key = rows[i].key => i <= j}
           new == {<<rows[i].key, rows[i].seq>> : i \in first}
<1>1. \A i \in first : rows[i].key \in WarnKeys /\ rows[i].seq \in Nat
  BY RowFields DEF TypeOK, WarningRows
<1>2. dedupe \cup new \subseteq WarnKeys \X Nat
  <2>1. dedupe \subseteq WarnKeys \X Nat
    BY DEF TypeOK
  <2> HIDE DEF first
  <2>2. new \subseteq WarnKeys \X Nat
    BY <1>1
  <2> QED
    BY <2>1, <2>2
<1>3. RememberAll \subseteq dedupe \cup new
  BY DEF RememberAll, Trim
<1> QED
  BY <1>2, <1>3

(* The idempotency entries stay typed when a warning is remembered and the  *)
(* table trimmed.                                                           *)
LEMMA RememberTyped ==
    ASSUME TypeOK, NEW k \in WarnKeys, NEW seq \in Nat
    PROVE  Trim(Remember(dedupe, k, seq)) \subseteq WarnKeys \X Nat
  BY DEF TypeOK, Trim, Remember

(* What the tail of the rows that compaction keeps inherits. *)
LEMMA CompactFacts ==
    ASSUME IInv, NEW retain_last \in Nat \ {0},
           rows' = Retained(retain_last),
           compacted_through' = CompactedThrough(retain_last),
           next_seq' = next_seq, expired' = expired
    PROVE  /\ rows' \in Seq(Row) /\ compacted_through' \in Nat
           /\ \A i \in DOMAIN rows' :
                /\ rows'[i].kind = "warning" => rows'[i].key \in WarnKeys
                /\ rows'[i].seq \in expired' => rows'[i].kind = "note"
           /\ RowsAreContiguous' /\ RowsEvolve
<1> DEFINE k == RemoveCount(retain_last)
<1>1. /\ k \in Nat /\ k <= Len(rows) /\ Len(rows) \in Nat
      /\ compacted_through \in Nat /\ compacted_through' = compacted_through + k
      /\ rows' \in Seq(Row) /\ Len(rows') = Len(rows) - k
      /\ \A i \in 1..(Len(rows) - k) : rows'[i] = rows[k + i]
      /\ DOMAIN rows = 1..Len(rows) /\ DOMAIN rows' = 1..(Len(rows) - k)
  <2>1. /\ k \in 0..Len(rows) /\ Len(rows) \in Nat
        /\ CompactedThrough(retain_last) = compacted_through + k
        /\ Retained(retain_last) \in Seq(Row)
        /\ Len(Retained(retain_last)) = Len(rows) - k
        /\ \A i \in 1..(Len(rows) - k) : Retained(retain_last)[i] = rows[k + i]
    BY RetainedFacts, Zenon
  <2>2. compacted_through \in Nat /\ rows \in Seq(Row)
    BY DEF IInv, TypeOK
  <2> HIDE DEF k
  <2> QED
    BY <2>1, <2>2
<1> HIDE DEF k
<1>2. /\ next_seq = compacted_through + Len(rows) + 1
      /\ \A i \in 1..Len(rows) : rows[i].seq = compacted_through + i
  BY <1>1 DEF IInv, RowsAreContiguous
<1>3. \A i \in DOMAIN rows' : k + i \in DOMAIN rows /\ rows'[i] = rows[k + i]
  BY <1>1
<1>4. RowsAreContiguous'
  <2>1. next_seq' = compacted_through' + Len(rows') + 1
    BY <1>1, <1>2
  <2>2. ASSUME NEW i \in DOMAIN rows'
        PROVE  rows'[i].seq = compacted_through' + i
    <3>1. rows'[i].seq = compacted_through + (k + i) /\ i \in Nat
      BY <1>1, <1>2, <1>3
    <3> QED
      BY <1>1, <3>1
  <2> QED
    BY <2>1, <2>2 DEF RowsAreContiguous
<1>5. ASSUME NEW j \in DOMAIN rows, rows[j].seq > compacted_through'
      PROVE  \E i \in DOMAIN rows' : rows[j] = rows'[i]
  <2>1. j \in 1..Len(rows) /\ compacted_through + j > compacted_through + k
    BY <1>1, <1>2, <1>5
  <2>2. j - k \in 1..(Len(rows) - k) /\ k + (j - k) = j
    BY <1>1, <2>1
  <2> QED
    BY <1>1, <2>2
<1>6. \A i \in DOMAIN rows' :
        /\ rows'[i].kind = "warning" => rows'[i].key \in WarnKeys
        /\ rows'[i].seq \in expired' => rows'[i].kind = "note"
  BY <1>3 DEF IInv, TypeOK
<1> QED
  BY <1>1, <1>3, <1>4, <1>5, <1>6 DEF RowsEvolve

(* The sweep starts from the oldest sequence number it must keep, which a   *)
(* nonempty set of sequence numbers has.                                    *)
LEMMA LeastNatural ==
    ASSUME NEW S, S \subseteq Nat, S # {}
    PROVE  \E x \in S : \A y \in S : x <= y
<1> DEFINE R == {ss \in Nat \X Nat : ss[1] < ss[2]}
<1>1. IsWellFoundedOn(R, Nat)
  BY NatLessThanWellFounded, Zenon DEF OpToRel
<1>2. \A x, y \in Nat : ~(<<y, x>> \in R) => x <= y
  OBVIOUS
<1> HIDE DEF R
<1>3. \E x \in S : \A y \in S : ~(<<y, x>> \in R)
  BY <1>1, WFMin
<1> QED
  BY <1>2, <1>3

(* The sweep retains at least one row and leaves room for its own event. *)
LEMMA SweepRetainFacts ==
    ASSUME IInv
    PROVE  /\ KeepFrom \in 0..Len(rows) /\ Len(rows) \in Nat
           /\ \A j \in DOMAIN rows : Needed(j) => KeepFrom < j
           /\ SweepRetain \in Nat \ {0} /\ SweepRetain <= RowCap - 1
           /\ Len(rows) < RowCap => SweepRetain >= Len(rows) - KeepFrom
<1>1. Len(rows) \in Nat /\ DOMAIN rows = 1..Len(rows)
  BY DEF IInv, TypeOK
<1>2. KeepFrom \in 0..Len(rows) /\ \A j \in DOMAIN rows : Needed(j) => KeepFrom < j
  <2>1. CASE \E i \in DOMAIN rows : Needed(i)
    <3> DEFINE P(i) == Needed(i) /\ \A j \in DOMAIN rows : Needed(j) => i <= j
    <3>1. PICK i0 \in DOMAIN rows : Needed(i0)
      BY <2>1
    <3>2. \E i \in DOMAIN rows : P(i)
      <4> DEFINE S == {i \in DOMAIN rows : Needed(i)}
      <4>1. S \subseteq Nat /\ S # {}
        BY <1>1, <3>1
      <4>2. PICK i \in S : \A j \in S : i <= j
        BY <4>1, LeastNatural
      <4> QED
        BY <4>2
    <3> DEFINE first == CHOOSE i \in DOMAIN rows : P(i)
    <3>3. first \in DOMAIN rows /\ P(first)
      <4> HIDE DEF P
      <4> QED
        BY <3>2
    <3>4. KeepFrom = first - 1
      BY <2>1 DEF KeepFrom
    <3> HIDE DEF first
    <3> QED
      BY <1>1, <3>3, <3>4
  <2>2. CASE ~\E i \in DOMAIN rows : Needed(i)
    BY <1>1, <2>2 DEF KeepFrom
  <2> QED
    BY <2>1, <2>2
<1> QED
  BY <1>1, <1>2, JournalAssumption DEF SweepRetain, Min2, Max2

(* What is left after a sweep: the tail and the event about the sweep. *)
LEMMA SweepFacts ==
    ASSUME IInv, NEW admins \in SUBSET Consumers, journal_sweep(admins)
    PROVE  /\ rows' \in Seq(Row) /\ compacted_through' \in Nat
           /\ Len(rows') = Len(rows) - RemoveCount(SweepRetain) + 1
           /\ next_seq' = next_seq + 1 /\ next_seq \in Nat
           /\ \A i \in DOMAIN rows' :
                /\ rows'[i].kind = "warning" => rows'[i].key \in WarnKeys
                /\ rows'[i].seq \in expired' => rows'[i].kind = "note"
           /\ RowsAreContiguous' /\ RowsEvolve
<1> DEFINE k == RemoveCount(SweepRetain)
           row == [seq |-> next_seq, kind |-> "compaction", actor |-> System,
                   to |-> admins, key |-> NoKey]
<1>1. /\ k \in 0..Len(rows) /\ Len(rows) \in Nat
      /\ CompactedThrough(SweepRetain) = compacted_through + k
      /\ Retained(SweepRetain) \in Seq(Row)
      /\ Len(Retained(SweepRetain)) = Len(rows) - k
      /\ \A i \in 1..(Len(rows) - k) : Retained(SweepRetain)[i] = rows[k + i]
  <2>1. SweepRetain \in Nat \ {0}
    BY SweepRetainFacts
  <2> QED
    BY <2>1, RetainedFacts, Zenon
<1>2. /\ rows \in Seq(Row) /\ next_seq \in Nat \ {0} /\ compacted_through \in Nat
      /\ expired \subseteq 1..(next_seq - 1)
  BY DEF IInv, TypeOK
<1>3. row \in Row /\ row.seq = next_seq /\ row.kind = "compaction"
  BY <1>2 DEF Row, Kinds
<1>4. /\ rows' = Append(Retained(SweepRetain), row)
      /\ next_seq' = next_seq + 1 /\ expired' = expired
      /\ compacted_through' = compacted_through + k
  BY <1>1 DEF journal_sweep, world
<1> HIDE DEF k, row
<1>5. /\ rows' \in Seq(Row) /\ Len(rows') = Len(rows) - k + 1
      /\ DOMAIN rows = 1..Len(rows) /\ DOMAIN rows' = 1..(Len(rows) - k + 1)
      /\ \A i \in 1..(Len(rows) - k) : rows'[i] = rows[k + i]
      /\ rows'[Len(rows) - k + 1] = row
  <2> DEFINE r == Retained(SweepRetain)
  <2>1. r \in Seq(Row) /\ Len(r) = Len(rows) - k
    BY <1>1
  <2>2. rows' = Append(r, row)
    BY <1>4
  <2>3. \A i \in 1..(Len(rows) - k) : r[i] = rows[k + i]
    BY <1>1
  <2> HIDE DEF r
  <2> QED
    BY <1>1, <1>2, <1>3, <2>1, <2>2, <2>3
<1>6. /\ next_seq = compacted_through + Len(rows) + 1
      /\ \A i \in 1..Len(rows) : rows[i].seq = compacted_through + i
  BY <1>5 DEF IInv, RowsAreContiguous
<1>7. ASSUME NEW i \in DOMAIN rows'
      PROVE  \/ i \in 1..(Len(rows) - k) /\ k + i \in DOMAIN rows
                  /\ rows'[i] = rows[k + i]
             \/ i = Len(rows) - k + 1 /\ rows'[i] = row
  BY <1>1, <1>5
<1>8. RowsAreContiguous'
  <2>1. next_seq' = compacted_through' + Len(rows') + 1
    BY <1>1, <1>2, <1>4, <1>5, <1>6
  <2>2. ASSUME NEW i \in DOMAIN rows'
        PROVE  rows'[i].seq = compacted_through' + i
    <3>1. CASE i = Len(rows) - k + 1 /\ rows'[i] = row
      BY <1>1, <1>2, <1>3, <1>4, <1>6, <3>1
    <3>2. CASE i \in 1..(Len(rows) - k) /\ k + i \in DOMAIN rows
                 /\ rows'[i] = rows[k + i]
      <4>1. rows'[i].seq = compacted_through + (k + i)
        BY <1>5, <1>6, <3>2
      <4> QED
        BY <1>1, <1>2, <1>4, <3>2, <4>1
    <3> QED
      BY <1>7, <3>1, <3>2
  <2> QED
    BY <2>1, <2>2 DEF RowsAreContiguous
<1>9. ASSUME NEW j \in DOMAIN rows, rows[j].seq > compacted_through'
      PROVE  \E i \in DOMAIN rows' : rows[j] = rows'[i]
  <2>1. j \in 1..Len(rows) /\ compacted_through + j > compacted_through + k
    BY <1>4, <1>5, <1>6, <1>9
  <2>2. /\ j - k \in 1..(Len(rows) - k) /\ k + (j - k) = j
        /\ j - k \in DOMAIN rows'
    BY <1>1, <1>2, <1>5, <2>1
  <2> QED
    BY <1>5, <2>2
<1>10. next_seq \notin expired
  BY <1>2
<1>11. \A i \in DOMAIN rows' :
         /\ rows'[i].kind = "warning" => rows'[i].key \in WarnKeys
         /\ rows'[i].seq \in expired' => rows'[i].kind = "note"
  BY <1>3, <1>4, <1>7, <1>10 DEF IInv, TypeOK
<1>12. RowsEvolve
  <2>1. \A i \in DOMAIN rows' :
          rows'[i].seq < next_seq => \E j \in DOMAIN rows : rows'[i] = rows[j]
    BY <1>2, <1>3, <1>7
  <2> QED
    BY <1>9, <2>1 DEF RowsEvolve
<1> QED
  BY <1>1, <1>2, <1>4, <1>5, <1>8, <1>11, <1>12 DEF k

-----------------------------------------------------------------------------
(* Reading *)

(* The page after a cursor that compaction has not passed is an interval. *)
LEMMA PageIsInterval ==
    ASSUME IInv, NEW cursor \in Nat, compacted_through <= cursor,
           cursor <= latest_cursor, NEW limit \in Nat
    PROVE  \A i \in DOMAIN rows :
             i \in Page(cursor, limit)
               <=> cursor < rows[i].seq /\ rows[i].seq <= cursor + limit
<1>1. /\ Len(rows) \in Nat /\ DOMAIN rows = 1..Len(rows)
      /\ compacted_through \in Nat /\ next_seq \in Nat
  BY DEF IInv, TypeOK
<1>2. /\ next_seq = compacted_through + Len(rows) + 1
      /\ \A i \in 1..Len(rows) : rows[i].seq = compacted_through + i
  BY <1>1 DEF IInv, RowsAreContiguous
<1> DEFINE f == cursor - compacted_through + 1
<1>3. \A i \in DOMAIN rows : i \in After(cursor) <=> f <= i
  BY <1>1, <1>2 DEF After
<1>4. After(cursor) \subseteq DOMAIN rows
  BY DEF After
<1>5. TAKE i \in DOMAIN rows
<1>6. cursor < rows[i].seq <=> i \in After(cursor)
  BY DEF After
<1>7. rows[i].seq <= cursor + limit <=> i < f + limit
  BY <1>1, <1>2
<1>8. CASE i \in After(cursor)
  <2>1. f \in After(cursor) /\ \A j \in After(cursor) : f <= j
    BY <1>1, <1>3, <1>4, <1>8
  <2>2. ASSUME NEW g \in After(cursor), \A j \in After(cursor) : g <= j
        PROVE  g = f
    BY <1>1, <1>4, <2>1, <2>2
  <2>3. i \in Page(cursor, limit) <=> i < f + limit
    <3> HIDE DEF f
    <3> QED
      BY <1>8, <2>1, <2>2 DEF Page
  <2> QED
    BY <1>6, <1>7, <1>8, <2>3
<1>9. CASE i \notin After(cursor)
  BY <1>6, <1>9 DEF Page
<1> QED
  BY <1>8, <1>9

(* The cursor after a page is the cursor itself or the last row of the page. *)
LEMMA NextCursorFacts ==
    ASSUME IInv, NEW cursor \in Nat, compacted_through <= cursor,
           cursor <= latest_cursor, NEW limit \in Nat
    PROVE  /\ NextCursor(cursor, limit) \in Nat
           /\ NextCursor(cursor, limit) <= latest_cursor
           /\ NextCursor(cursor, limit) <= cursor + limit
           /\ \A i \in DOMAIN rows :
                cursor < rows[i].seq /\ rows[i].seq <= NextCursor(cursor, limit)
                  => i \in Page(cursor, limit)
<1> DEFINE P == Page(cursor, limit)
<1>1. /\ rows \in Seq(Row) /\ Len(rows) \in Nat /\ DOMAIN rows = 1..Len(rows)
      /\ compacted_through \in Nat /\ next_seq \in Nat
  BY DEF IInv, TypeOK
<1>2. /\ next_seq = compacted_through + Len(rows) + 1
      /\ \A i \in 1..Len(rows) : rows[i].seq = compacted_through + i
  BY <1>1 DEF IInv, RowsAreContiguous
<1>3. \A i \in DOMAIN rows : i \in P <=> cursor < rows[i].seq /\ rows[i].seq <= cursor + limit
  BY PageIsInterval
<1>4. P \subseteq 1..Len(rows)
  BY <1>1 DEF Page, After
<1>5. CASE P = {}
  BY <1>1, <1>2, <1>5 DEF NextCursor
<1>6. CASE P # {}
  <2> DEFINE top == CHOOSE i \in P : \A j \in P : j <= i
  <2>1. \E i \in P : \A j \in P : j <= i
    <3> DEFINE S == {Len(rows) - i : i \in P}
    <3>1. S \subseteq Nat /\ S # {}
      BY <1>1, <1>4, <1>6
    <3>2. PICK x \in S : \A y \in S : x <= y
      BY <3>1, LeastNatural
    <3>3. PICK i \in P : x = Len(rows) - i
      BY <3>2
    <3>4. \A j \in P : Len(rows) - i <= Len(rows) - j
      BY <3>2, <3>3
    <3> HIDE DEF P
    <3>5. ASSUME NEW j \in P PROVE j <= i
      <4>1. i \in Nat /\ j \in Nat
        BY <1>4
      <4> QED
        BY <1>1, <3>4, <4>1
    <3> QED
      BY <3>5
  <2>2. top \in P /\ \A j \in P : j <= top
    <3> HIDE DEF P
    <3> QED
      BY <2>1
  <2>3. NextCursor(cursor, limit) = rows[top].seq
    BY <1>6 DEF NextCursor
  <2> HIDE DEF top, P
  <2>4. top \in 1..Len(rows) /\ rows[top].seq = compacted_through + top
    BY <1>2, <1>4, <2>2
  <2>5. rows[top].seq \in Nat /\ rows[top].seq <= latest_cursor
    BY <1>1, <1>2, <2>4 DEF latest_cursor
  <2>6. rows[top].seq <= cursor + limit
    BY <1>1, <1>3, <2>2, <2>4
  <2>7. ASSUME NEW i \in DOMAIN rows, cursor < rows[i].seq, rows[i].seq <= rows[top].seq
        PROVE  i \in P
    <3>1. rows[i].seq \in Nat
      BY <1>1, RowFields
    <3>2. rows[i].seq <= cursor + limit
      BY <2>5, <2>6, <2>7, <3>1
    <3> QED
      BY <1>3, <2>7, <3>2
  <2> QED
    BY <2>3, <2>5, <2>6, <2>7 DEF P
<1> QED
  BY <1>5, <1>6

(* What board_catchup gives as the next cursor skips no visible event, also *)
(* when the byte bound cuts the page short.                                 *)
LEMMA EffectiveCursorSkipsNothing ==
    ASSUME IInv, NEW cursor \in Nat, compacted_through <= cursor,
           cursor <= latest_cursor, NEW limit \in Nat,
           NEW c \in Consumers, NEW last \in Nat,
           VisibleSeqs(c, cursor, limit) # {} => last \in VisibleSeqs(c, cursor, limit)
    PROVE  /\ EffectiveCursor(c, cursor, limit, last) \in Nat
           /\ EffectiveCursor(c, cursor, limit, last) <= latest_cursor
           /\ EffectiveCursor(c, cursor, limit, last) <= cursor + limit
           /\ \A i \in DOMAIN rows :
                /\ cursor < rows[i].seq
                /\ rows[i].seq <= EffectiveCursor(c, cursor, limit, last)
                /\ Visible(c, i)
                => rows[i].seq \in Returned(c, cursor, limit, last)
<1> DEFINE visible == VisibleSeqs(c, cursor, limit)
           returned == Returned(c, cursor, limit, last)
<1>1. returned = {s \in visible : s <= last}
  BY DEF Returned
<1>2. \A i \in Page(cursor, limit) : Visible(c, i) => rows[i].seq \in visible
  BY DEF VisibleSeqs
<1>3. CASE returned = visible
  <2>1. EffectiveCursor(c, cursor, limit, last) = NextCursor(cursor, limit)
    BY <1>3 DEF EffectiveCursor
  <2> QED
    BY <1>2, <1>3, <2>1, NextCursorFacts
<1>4. CASE returned # visible
  <2>1. EffectiveCursor(c, cursor, limit, last) = last
    BY <1>4 DEF EffectiveCursor
  <2>2. last \in visible
    BY <1>1, <1>4
  <2>3. PICK m \in Page(cursor, limit) : last = rows[m].seq
    BY <2>2 DEF VisibleSeqs
  <2>4. m \in DOMAIN rows /\ rows[m].seq <= cursor + limit
    <3>1. m \in DOMAIN rows
      BY DEF Page, After
    <3> QED
      BY <3>1, PageIsInterval
  <2>5. last <= latest_cursor
    <3>1. /\ Len(rows) \in Nat /\ m \in 1..Len(rows)
          /\ compacted_through \in Nat /\ next_seq \in Nat
      BY <2>4 DEF IInv, TypeOK
    <3>2. /\ next_seq = compacted_through + Len(rows) + 1
          /\ rows[m].seq = compacted_through + m
      BY <2>4 DEF IInv, RowsAreContiguous
    <3> QED
      BY <2>3, <3>1, <3>2 DEF latest_cursor
  <2>6. ASSUME NEW i \in DOMAIN rows, cursor < rows[i].seq, rows[i].seq <= last,
               Visible(c, i)
        PROVE  rows[i].seq \in returned
    <3>1. rows[i].seq \in Nat
      BY RowFields DEF IInv, TypeOK
    <3>2. rows[i].seq <= cursor + limit
      BY <2>3, <2>4, <2>6, <3>1
    <3>3. i \in Page(cursor, limit)
      BY <2>6, <3>2, PageIsInterval
    <3> QED
      BY <1>1, <1>2, <2>6, <3>3
  <2> QED
    BY <2>1, <2>3, <2>4, <2>5, <2>6
<1> QED
  BY <1>3, <1>4

(* A page of board_catchup outside the loop, or the one a round of _drain   *)
(* starts with.                                                             *)
PageOrRound(c, cursor, limit, last, ack) ==
    /\ catchup_page(c, cursor, limit, last, ack)
    /\ position' = position /\ ended' = ended
    /\ \/ page' = page
       \/ page' = [page EXCEPT ![c] =
              [next |-> EffectiveCursor(c, cursor, limit, last),
               scan |-> Cardinality(Page(cursor, limit))]]

(* What a page was read with. *)
LEMMA PageInputs ==
    ASSUME IInv, NEW c \in Consumers, NEW cursor \in StartCursors(c),
           NEW limit \in 1..MaxPage, NEW last \in 0..latest_cursor,
           NEW ack \in BOOLEAN, PageOrRound(c, cursor, limit, last, ack)
    PROVE  /\ cursor \in Nat /\ limit \in Nat \ {0} /\ last \in Nat
           /\ compacted_through <= cursor /\ cursor <= latest_cursor
           /\ VisibleSeqs(c, cursor, limit) # {} => last \in VisibleSeqs(c, cursor, limit)
<1>1. cursor \in Nat
  BY HeldTyped DEF IInv
<1>2. limit \in Nat \ {0} /\ last \in Nat
  <2>1. next_seq \in Nat /\ MaxPage \in Nat
    BY JournalAssumption DEF IInv, TypeOK
  <2> QED
    BY <2>1 DEF latest_cursor
<1>3. compacted_through <= cursor /\ cursor <= latest_cursor /\ Fits(c, cursor, limit, last)
  BY DEF PageOrRound, catchup_page
<1> QED
  BY <1>1, <1>2, <1>3 DEF Fits

(* Only the calling consumer's cursors move, to the effective cursor or not *)
(* at all.                                                                  *)
LEMMA CatchupCursors ==
    ASSUME IInv, NEW c \in Consumers, NEW cursor, NEW limit, NEW last,
           NEW ack \in BOOLEAN, PageOrRound(c, cursor, limit, last, ack),
           EffectiveCursor(c, cursor, limit, last) \in Nat
    PROVE  LET next == EffectiveCursor(c, cursor, limit, last)
           IN  /\ cursors' \in [Consumers -> Nat]
               /\ page' \in [Consumers -> [next : Nat, scan : Nat]]
               /\ \A d \in Consumers \ {c} : StartCursors(d)' = StartCursors(d)
               /\ StartCursors(c)' \subseteq StartCursors(c) \cup {next}
               /\ \A d \in Consumers : cursors'[d] >= cursors[d]
<1> DEFINE next == EffectiveCursor(c, cursor, limit, last)
           scan == Cardinality(Page(cursor, limit))
<1>1. /\ position' = position
      /\ \/ cursors' = [cursors EXCEPT ![c] = Max2(@, next)]
         \/ cursors' = cursors
      /\ page' = page \/ page' = [page EXCEPT ![c] = [next |-> next, scan |-> scan]]
  BY DEF PageOrRound, catchup_page, Ack
<1>2. /\ cursors \in [Consumers -> Nat] /\ position \in [Consumers -> Nat]
      /\ page \in [Consumers -> [next : Nat, scan : Nat]]
      /\ next \in Nat
  BY DEF IInv, TypeOK
<1>3. scan \in Nat
  <2>1. Len(rows) \in Nat /\ DOMAIN rows = 1..Len(rows)
    BY DEF IInv, TypeOK
  <2>2. Page(cursor, limit) \subseteq 1..Len(rows)
    BY <2>1 DEF Page, After
  <2>3. IsFiniteSet(1..Len(rows))
    BY <2>1, FS_Interval
  <2> QED
    BY <2>2, <2>3, FS_Subset, FS_CardinalityType
<1> HIDE DEF next, scan
<1>4. Max2(cursors[c], next) \in {cursors[c], next} /\ Max2(cursors[c], next) >= cursors[c]
  BY <1>2 DEF Max2
<1>5. cursors' \in [Consumers -> Nat] /\ page' \in [Consumers -> [next : Nat, scan : Nat]]
  BY <1>1, <1>2, <1>3, <1>4
<1>6. \A d \in Consumers \ {c} : cursors'[d] = cursors[d] /\ page'[d] = page[d]
  BY <1>1, <1>2
<1>7. /\ cursors'[c] \in {cursors[c], next} /\ cursors'[c] >= cursors[c]
      /\ page'[c].next \in {page[c].next, next}
  BY <1>1, <1>2, <1>4
<1>8. \A d \in Consumers : cursors'[d] >= cursors[d]
  BY <1>2, <1>6, <1>7
<1> QED
  BY <1>1, <1>5, <1>6, <1>7, <1>8 DEF StartCursors, next

(* board_catchup on a covered cursor keeps the invariant. *)
LEMMA CatchupPageStep ==
    ASSUME IInv, NEW c \in Consumers, NEW cursor \in StartCursors(c),
           NEW limit \in 1..MaxPage, NEW last \in 0..latest_cursor,
           NEW ack \in BOOLEAN, PageOrRound(c, cursor, limit, last, ack)
    PROVE  IInv'
<1> DEFINE next == EffectiveCursor(c, cursor, limit, last)
           returned == Returned(c, cursor, limit, last)
<1>1. /\ cursor \in Nat /\ limit \in Nat \ {0} /\ last \in Nat
      /\ compacted_through <= cursor /\ cursor <= latest_cursor
      /\ VisibleSeqs(c, cursor, limit) # {} => last \in VisibleSeqs(c, cursor, limit)
  BY PageInputs
<1>2. /\ next \in Nat /\ next <= latest_cursor
      /\ \A i \in DOMAIN rows :
           cursor < rows[i].seq /\ rows[i].seq <= next /\ Visible(c, i)
             => rows[i].seq \in returned
  BY <1>1, EffectiveCursorSkipsNothing
<1>3. /\ cursors' \in [Consumers -> Nat]
      /\ page' \in [Consumers -> [next : Nat, scan : Nat]]
      /\ \A d \in Consumers \ {c} : StartCursors(d)' = StartCursors(d)
      /\ StartCursors(c)' \subseteq StartCursors(c) \cup {next}
  BY <1>2, CatchupCursors
<1>4. /\ UNCHANGED <<journal, position, ended, resynced, aged, expired, is_open,
                     warned>>
      /\ shown' = [shown EXCEPT ![c] = @ \cup returned]
      /\ acked' \subseteq acked \cup {c} /\ live' \subseteq live \cup {c}
  BY DEF PageOrRound, catchup_page, Ack
<1>5. returned \subseteq Nat
  <2>1. Page(cursor, limit) \subseteq DOMAIN rows
    BY DEF Page, After
  <2> QED
    BY <2>1, RowFields DEF Returned, VisibleSeqs, IInv, TypeOK
<1> HIDE DEF next, returned
<1>6. /\ \A d \in Consumers : shown[d] \subseteq shown'[d]
      /\ returned \subseteq shown'[c]
      /\ shown' \in [Consumers -> SUBSET Nat]
  BY <1>4, <1>5 DEF IInv, TypeOK
<1>7. UNCHANGED <<next_seq, compacted_through, rows, dedupe, position, ended,
                  resynced, aged, expired, is_open, warned>>
  BY <1>4 DEF journal
<1>8. TypeOK'
  BY <1>3, <1>4, <1>6, <1>7 DEF IInv, TypeOK
<1>9. RowsAreContiguous'
  BY <1>7 DEF IInv, RowsAreContiguous
<1>10. CursorsNeverAhead'
  <2>1. \A d \in Consumers : \A p \in StartCursors(d)' : p <= latest_cursor
    BY <1>2, <1>3 DEF IInv, CursorsNeverAhead
  <2> QED
    BY <1>7, <2>1 DEF CursorsNeverAhead, latest_cursor
(* An event at or before one of the new cursors was at or before an old one, *)
(* or is on the page that was returned.                                      *)
<1>11. ASSUME NEW d \in Consumers, NEW i \in DOMAIN rows,
              NEW p \in StartCursors(d)', rows[i].seq <= p
       PROVE  \/ \E q \in StartCursors(d) : rows[i].seq <= q
              \/ /\ d = c
                 /\ Visible(c, i) => rows[i].seq \in shown'[c]
  <2>1. CASE d # c
    BY <1>3, <1>11, <2>1
  <2>2. CASE d = c /\ p \in StartCursors(c)
    BY <1>11, <2>2
  <2>3. CASE d = c /\ p = next
    <3>1. rows[i].seq \in Nat
      BY RowFields DEF IInv, TypeOK
    <3>2. CASE rows[i].seq <= cursor
      BY <2>3, <3>2
    <3>3. CASE cursor < rows[i].seq
      BY <1>2, <1>6, <1>11, <2>3, <3>3
    <3> QED
      BY <1>1, <3>1, <3>2, <3>3
  <2> QED
    BY <1>3, <2>1, <2>2, <2>3
<1>12. CaughtUpMeansShown'
  <2> SUFFICES ASSUME NEW d \in Consumers, NEW i \in DOMAIN rows,
                      NEW p \in StartCursors(d)',
                      d \in rows[i].to, rows[i].actor # d, rows[i].seq <= p
               PROVE  \/ rows[i].seq \in shown'[d]
                      \/ rows[i].seq \in expired
                      \/ rows[i].seq <= resynced[d]
    BY <1>7 DEF CaughtUpMeansShown
  <2>1. CASE \E q \in StartCursors(d) : rows[i].seq <= q
    BY <1>6, <2>1 DEF IInv, CaughtUpMeansShown
  <2>2. CASE d = c /\ (Visible(c, i) => rows[i].seq \in shown'[c])
    BY <2>2 DEF Visible
  <2> QED
    BY <1>11, <2>1, <2>2
<1>13. OpenTicketIsShown'
  <2> SUFFICES ASSUME NEW d \in Consumers, NEW i \in DOMAIN rows,
                      NEW p \in StartCursors(d)',
                      is_open, Opens(i),
                      \A j \in DOMAIN rows : Opens(j) => rows[j].seq <= rows[i].seq,
                      rows[i].kind = "opened" \/ d \in rows[i].to,
                      rows[i].actor # d, rows[i].seq <= p
               PROVE  rows[i].seq \in shown'[d] \/ rows[i].seq <= resynced[d]
    BY <1>7 DEF OpenTicketIsShown, Opens
  <2>1. CASE \E q \in StartCursors(d) : rows[i].seq <= q
    BY <1>6, <2>1 DEF IInv, OpenTicketIsShown
  <2>2. CASE d = c /\ (Visible(c, i) => rows[i].seq \in shown'[c])
    <3>1. rows[i].seq \notin expired
      BY DEF IInv, TypeOK, Opens
    <3> QED
      BY <2>2, <3>1 DEF Visible
  <2> QED
    BY <1>11, <2>1, <2>2
<1> QED
  BY <1>8, <1>9, <1>10, <1>12, <1>13 DEF IInv

(* A step after which a consumer holds no cursor beyond the ones it held,   *)
(* and that touches neither the rows nor what was shown, skips nothing.     *)
LEMMA HeldCursorsStep ==
    ASSUME IInv, TypeOK',
           UNCHANGED <<next_seq, compacted_through, rows, shown, resynced,
                       expired, is_open>>,
           \A d \in Consumers : \A p \in StartCursors(d)' :
             \E q \in StartCursors(d) : p <= q
    PROVE  IInv'
<1>1. RowsAreContiguous'
  BY DEF IInv, RowsAreContiguous
<1>2. \A i \in DOMAIN rows : rows[i].seq \in Nat
  BY RowFields DEF IInv, TypeOK
<1>3. ASSUME NEW d \in Consumers, NEW p \in StartCursors(d)'
      PROVE  p \in Nat /\ \E q \in StartCursors(d) : q \in Nat /\ p <= q
  <2>1. p \in Nat
    <3>1. cursors'[d] \in Nat /\ position'[d] \in Nat /\ page'[d].next \in Nat
      BY DEF TypeOK
    <3> QED
      BY <1>3, <3>1 DEF StartCursors
  <2>2. StartCursors(d) \subseteq Nat
    BY HeldTyped DEF IInv
  <2> QED
    BY <1>3, <2>1, <2>2
<1>4. CursorsNeverAhead'
  <2>1. \A d \in Consumers : \A q \in StartCursors(d) : q <= latest_cursor
    BY DEF IInv, CursorsNeverAhead
  <2>2. latest_cursor \in Int /\ latest_cursor' = latest_cursor
    BY DEF IInv, TypeOK, latest_cursor
  <2>3. \A d \in Consumers : \A p \in StartCursors(d)' : p <= latest_cursor
    BY <1>3, <2>1, <2>2
  <2> QED
    BY <2>2, <2>3 DEF CursorsNeverAhead
<1>5. ASSUME NEW d \in Consumers, NEW i \in DOMAIN rows,
             NEW p \in StartCursors(d)', rows[i].seq <= p
      PROVE  \E q \in StartCursors(d) : rows[i].seq <= q
  BY <1>2, <1>3, <1>5
<1>6. CaughtUpMeansShown'
  BY <1>5 DEF IInv, CaughtUpMeansShown
<1>7. OpenTicketIsShown'
  BY <1>5 DEF IInv, OpenTicketIsShown, Opens
<1> QED
  BY <1>1, <1>4, <1>6, <1>7 DEF IInv

(* The second call of a round acknowledges no more than the page showed,    *)
(* however far back it counts and however the answer is cut.                *)
LEMMA AcknowledgeFacts ==
    ASSUME IInv, NEW c \in Consumers, drain_acknowledge(c)
    PROVE  /\ acked' \subseteq acked \cup {c} /\ live' \subseteq live \cup {c}
           /\ cursors' \in [Consumers -> Nat]
           /\ \A d \in Consumers : cursors'[d] >= cursors[d]
           /\ \A d \in Consumers \ {c} : cursors'[d] = cursors[d]
           /\ cursors'[c] \in {cursors[c]} \cup 0..page[c].next
<1> DEFINE scan == page[c].scan
           start == page[c].next - scan
<1>1. cursors \in [Consumers -> Nat] /\ scan \in Nat /\ page[c].next \in Nat
      /\ compacted_through \in Nat
  BY DEF IInv, TypeOK
<1>2. CASE UNCHANGED <<cursors, acked, live>>
  BY <1>1, <1>2
<1>3. ASSUME NEW last \in 0..latest_cursor, compacted_through <= start,
             Fits(c, start, scan, last), Ack(c, EffectiveCursor(c, start, scan, last))
      PROVE  /\ acked' \subseteq acked \cup {c} /\ live' \subseteq live \cup {c}
             /\ cursors' \in [Consumers -> Nat]
             /\ \A d \in Consumers : cursors'[d] >= cursors[d]
             /\ \A d \in Consumers \ {c} : cursors'[d] = cursors[d]
             /\ cursors'[c] \in {cursors[c]} \cup 0..page[c].next
  <2> DEFINE next == EffectiveCursor(c, start, scan, last)
  <2>1. scan <= page[c].next
    BY DEF drain_acknowledge
  <2>2. start \in Nat /\ start <= page[c].next /\ start + scan = page[c].next
    BY <1>1, <2>1
  <2>3. page[c].next <= latest_cursor /\ latest_cursor \in Int
    BY DEF IInv, TypeOK, CursorsNeverAhead, StartCursors, latest_cursor
  <2>4. start <= latest_cursor
    BY <1>1, <2>2, <2>3
  <2>5. last \in Nat /\ (VisibleSeqs(c, start, scan) # {}
                            => last \in VisibleSeqs(c, start, scan))
    BY <1>3, <2>3 DEF Fits
  <2> HIDE DEF start, scan
  <2>6. next \in Nat /\ next <= start + scan
    BY <1>1, <1>3, <2>2, <2>4, <2>5, EffectiveCursorSkipsNothing
  <2>7. next \in 0..page[c].next
    BY <1>1, <2>2, <2>6
  <2>8. /\ cursors' = [cursors EXCEPT ![c] = Max2(cursors[c], next)]
        /\ acked' = acked \cup {c} /\ live' = live \cup {c}
    BY <1>3 DEF Ack
  <2> HIDE DEF next
  <2>9. Max2(cursors[c], next) \in {cursors[c], next} /\ Max2(cursors[c], next) >= cursors[c]
        /\ Max2(cursors[c], next) \in Nat
    BY <1>1, <2>6 DEF Max2
  <2> QED
    BY <1>1, <2>7, <2>8, <2>9
<1> QED
  BY <1>2, <1>3 DEF drain_acknowledge

(* The end of a round keeps the invariant, acknowledged or not: the loop    *)
(* goes on from a cursor it already held.                                   *)
LEMMA AdvanceStep ==
    ASSUME IInv, NEW c \in Consumers,
           drain_unacknowledged(c) \/ drain_acknowledge(c)
    PROVE  IInv'
<1>1. /\ UNCHANGED <<next_seq, compacted_through, rows, dedupe, ended, shown,
                     resynced, aged, expired, is_open, warned>>
      /\ position' = [position EXCEPT ![c] = page[c].next]
      /\ page' = [page EXCEPT ![c] = NoPage]
  BY Zenon DEF drain_unacknowledged, drain_acknowledge, Advance, journal
<1>2. /\ cursors \in [Consumers -> Nat] /\ position \in [Consumers -> Nat]
      /\ page \in [Consumers -> [next : Nat, scan : Nat]]
      /\ acked \subseteq Consumers /\ live \subseteq Consumers
  BY DEF IInv, TypeOK
<1>3. /\ acked' \subseteq acked \cup {c} /\ live' \subseteq live \cup {c}
      /\ cursors' \in [Consumers -> Nat]
      /\ \A d \in Consumers \ {c} : cursors'[d] = cursors[d]
      /\ cursors'[c] \in {cursors[c]} \cup 0..page[c].next
  <2>1. CASE drain_unacknowledged(c)
    BY <1>2, <2>1 DEF drain_unacknowledged
  <2>2. CASE drain_acknowledge(c)
    BY <2>2, AcknowledgeFacts
  <2> QED
    BY <2>1, <2>2
<1>4. NoPage \in [next : Nat, scan : Nat] /\ NoPage.next = 0
  BY DEF NoPage, NoCursor
<1>5. /\ position' \in [Consumers -> Nat]
      /\ page' \in [Consumers -> [next : Nat, scan : Nat]]
      /\ position'[c] = page[c].next /\ page'[c].next = 0
      /\ \A d \in Consumers \ {c} : position'[d] = position[d] /\ page'[d] = page[d]
  BY <1>1, <1>2, <1>4
<1>6. TypeOK'
  BY <1>1, <1>3, <1>5 DEF IInv, TypeOK
<1>7. ASSUME NEW d \in Consumers, NEW p \in StartCursors(d)'
      PROVE  \E q \in StartCursors(d) : p <= q
  <2>1. StartCursors(d) \subseteq Nat
    BY HeldTyped DEF IInv
  <2>2. CASE d # c
    BY <1>3, <1>5, <2>1, <2>2 DEF StartCursors
  <2>3. CASE d = c
    <3>1. page[c].next \in Nat /\ cursors[c] \in Nat
      BY <1>2
    <3>2. p = cursors[c] \/ p \in 0..page[c].next
      BY <1>3, <1>5, <2>3, <3>1 DEF StartCursors
    <3>3. cursors[c] \in StartCursors(c) /\ page[c].next \in StartCursors(c)
      BY DEF StartCursors
    <3> QED
      BY <2>3, <3>1, <3>2, <3>3
  <2> QED
    BY <2>2, <2>3
<1> QED
  BY <1>1, <1>6, <1>7, HeldCursorsStep

(* A consumer that gives its page up, by an error or a restart, goes on     *)
(* from a cursor it already held.                                           *)
LEMMA GiveUpStep ==
    ASSUME IInv, NEW c \in Consumers, drain_fails(c) \/ Restart(c) PROVE IInv'
<1>1. /\ UNCHANGED <<next_seq, compacted_through, rows, dedupe, cursors, acked,
                     shown, resynced, live, aged, expired, is_open, warned>>
      /\ position' = position \/ position' = [position EXCEPT ![c] = cursors[c]]
      /\ page' = [page EXCEPT ![c] = NoPage]
      /\ ended' \subseteq ended \cup {c}
  BY DEF drain_fails, Restart, journal, world
<1>2. /\ cursors \in [Consumers -> Nat] /\ position \in [Consumers -> Nat]
      /\ page \in [Consumers -> [next : Nat, scan : Nat]] /\ ended \subseteq Consumers
  BY DEF IInv, TypeOK
<1>3. NoPage \in [next : Nat, scan : Nat] /\ NoPage.next = 0
  BY DEF NoPage, NoCursor
<1>4. /\ position' \in [Consumers -> Nat]
      /\ page' \in [Consumers -> [next : Nat, scan : Nat]]
      /\ position'[c] \in {position[c], cursors[c]} /\ page'[c].next = 0
      /\ \A d \in Consumers \ {c} : position'[d] = position[d] /\ page'[d] = page[d]
  BY <1>1, <1>2, <1>3
<1>5. TypeOK'
  <2>1. ended' \subseteq Consumers
    BY <1>1, <1>2
  <2> QED
    BY <1>1, <1>4, <2>1 DEF IInv, TypeOK
<1>6. ASSUME NEW d \in Consumers, NEW p \in StartCursors(d)'
      PROVE  \E q \in StartCursors(d) : p <= q
  <2>1. cursors[d] \in Nat /\ position[d] \in Nat /\ page[d].next \in Nat
    BY <1>2
  <2>2. p \in StartCursors(d) \/ p = 0
    BY <1>1, <1>4 DEF StartCursors
  <2> QED
    BY <2>1, <2>2 DEF StartCursors
<1> QED
  BY <1>1, <1>5, <1>6, HeldCursorsStep

(* A resync jumps over events, and says so. *)
LEMMA CatchupResyncStep ==
    ASSUME IInv, NEW c \in Consumers, NEW cursor \in StartCursors(c),
           catchup_resync(c, cursor),
           \/ position' = position
           \/ position' = [position EXCEPT ![c] = Max2(@, latest_cursor)]
    PROVE  IInv'
<1>1. /\ latest_cursor \in Nat /\ position[c] <= latest_cursor
      /\ cursors \in [Consumers -> Nat] /\ position \in [Consumers -> Nat]
      /\ resynced \in [Consumers -> Nat]
  BY DEF IInv, TypeOK, CursorsNeverAhead, StartCursors, latest_cursor
<1>2. /\ resynced' = [resynced EXCEPT ![c] = Max2(@, latest_cursor)]
      /\ cursors' = cursors /\ page' = page
      /\ position' = position \/ position' = [position EXCEPT ![c] = latest_cursor]
  <2>1. Max2(position[c], latest_cursor) = latest_cursor
    BY <1>1 DEF Max2
  <2> QED
    BY <2>1, Zenon DEF catchup_resync
<1>3. UNCHANGED <<next_seq, compacted_through, rows, dedupe, acked, ended, shown,
                  live, aged, expired, is_open, warned>>
  BY DEF catchup_resync, journal, world
<1>4. /\ position' \in [Consumers -> Nat] /\ resynced' \in [Consumers -> Nat]
      /\ \A d \in Consumers : resynced'[d] >= resynced[d]
      /\ resynced'[c] >= latest_cursor
      /\ \A d \in Consumers \ {c} : StartCursors(d)' = StartCursors(d)
      /\ StartCursors(c)' \subseteq StartCursors(c) \cup {latest_cursor}
  BY <1>1, <1>2 DEF Max2, StartCursors
<1>5. TypeOK'
  BY <1>2, <1>3, <1>4 DEF IInv, TypeOK
<1>6. RowsAreContiguous'
  BY <1>3 DEF IInv, RowsAreContiguous
<1>7. CursorsNeverAhead'
  BY <1>1, <1>3, <1>4 DEF IInv, CursorsNeverAhead, latest_cursor
<1>8. \A i \in DOMAIN rows : rows[i].seq \in Nat /\ rows[i].seq <= latest_cursor
  <2> TAKE i \in DOMAIN rows
  <2>1. /\ i \in 1..Len(rows) /\ Len(rows) \in Nat /\ rows[i].seq \in Nat
        /\ compacted_through \in Nat
    BY RowFields DEF IInv, TypeOK
  <2>2. /\ rows[i].seq = compacted_through + i
        /\ next_seq = compacted_through + Len(rows) + 1
    BY DEF IInv, RowsAreContiguous
  <2> QED
    BY <2>1, <2>2 DEF latest_cursor
<1>9. \A i \in DOMAIN rows : rows[i].seq <= resynced'[c]
  BY <1>1, <1>4, <1>8
<1>10. \A d \in Consumers, i \in DOMAIN rows :
         rows[i].seq <= resynced[d] => rows[i].seq <= resynced'[d]
  BY <1>1, <1>4, <1>8
<1>11. CaughtUpMeansShown'
  BY <1>3, <1>4, <1>9, <1>10 DEF IInv, CaughtUpMeansShown
<1>12. OpenTicketIsShown'
  BY <1>3, <1>4, <1>9, <1>10 DEF IInv, OpenTicketIsShown, Opens
<1> QED
  BY <1>5, <1>6, <1>7, <1>11, <1>12 DEF IInv

-----------------------------------------------------------------------------
(* The other actions *)

(* append and the openings and takings of the ticket keep the invariant. *)
LEMMA AppendsStep == ASSUME IInv, Appends PROVE IInv'
<1>1. PICK e \in Inputs :
        \/ e[1] = "note" /\ append(e[2], e[3])
        \/ e[1] = "opened" /\ append_opened(e[2], e[3])
        \/ e[1] = "resolved" /\ append_resolved(e[2], e[3])
        \/ e[1] = "taken" /\ append_taken(e[2], e[3])
  BY DEF Appends
<1>2. e[2] \in Consumers \cup {System} /\ e[3] \in SUBSET Consumers
  BY JournalAssumption
<1>3. PICK kind \in {"note", "opened", "resolved", "taken"} :
        /\ AppendRow(kind, e[2], e[3], NoKey)
        /\ is_open' \in BOOLEAN
        /\ is_open' => is_open \/ kind \in {"opened", "resolved"}
        /\ UNCHANGED <<compacted_through, dedupe, readers, live, aged, expired, warned>>
  <2>1. is_open \in BOOLEAN
    BY DEF IInv, TypeOK
  <2>2. CASE append(e[2], e[3])
    BY <2>1, <2>2, Zenon DEF append, world
  <2>3. CASE append_opened(e[2], e[3])
    BY <2>3, Zenon DEF append_opened
  <2>4. CASE append_resolved(e[2], e[3])
    BY <2>4, Zenon DEF append_resolved
  <2>5. CASE append_taken(e[2], e[3])
    BY <2>5, Zenon DEF append_taken
  <2> QED
    BY <1>1, <2>2, <2>3, <2>4, <2>5
<1>4. /\ next_seq' = next_seq + 1 /\ next_seq \in Nat
      /\ rows' \in Seq(Row)
      /\ \A i \in DOMAIN rows' :
           /\ rows'[i].kind = "warning" => rows'[i].key \in WarnKeys
           /\ rows'[i].seq \in expired' => rows'[i].kind = "note"
      /\ expired' \subseteq 1..(next_seq' - 1)
      /\ RowsAreContiguous' /\ RowsEvolve
      /\ \E i \in DOMAIN rows' : rows'[i].kind = kind /\ rows'[i].seq = next_seq
  <2>1. kind \in Kinds /\ kind # "warning" /\ NoKey \in WarnKeys \cup {NoKey}
    BY DEF Kinds
  <2>2. compacted_through' = compacted_through /\ expired' = expired
    BY <1>3
  <2> QED
    BY <1>2, <1>3, <2>1, <2>2, AppendRowFacts
<1>5. TypeOK'
  <2>1. /\ UNCHANGED <<compacted_through, dedupe, live, aged, expired, warned,
                       cursors, acked, position, page, ended, shown, resynced>>
        /\ is_open' \in BOOLEAN
    BY <1>3 DEF readers
  <2>2. next_seq' \in Nat \ {0}
    BY <1>4
  <2> QED
    BY <1>4, <2>1, <2>2 DEF IInv, TypeOK
<1>6. OpensWithEvent
  <2>1. \E i \in DOMAIN rows' : rows'[i].kind = kind /\ rows'[i].seq >= next_seq
    BY <1>4
  <2> QED
    BY <1>3, <2>1, Zenon DEF OpensWithEvent
<1> QED
  BY <1>3, <1>4, <1>5, <1>6, JournalStepKeepsCoverage

(* The three outcomes of append_once keep the invariant: known by its entry, *)
(* known by a retained row, new.                                            *)
LEMMA WarningsStep == ASSUME IInv, Warnings PROVE IInv'
<1>1. PICK k \in WarnKeys : \/ append_once_known(k)
                            \/ append_once_retained(k)
                            \/ \E e \in Inputs : append_once_new(k, e[3])
  BY DEF Warnings
<1>2. CASE append_once_known(k)
  BY <1>2 DEF append_once_known, vars, journal, readers, world, IInv, TypeOK,
              RowsAreContiguous, CursorsNeverAhead, latest_cursor,
              CaughtUpMeansShown, OpenTicketIsShown, Opens, StartCursors
<1>3. CASE append_once_retained(k)
  <2>1. dedupe' \subseteq WarnKeys \X Nat
    <3>1. PICK i \in WarningRows : dedupe' = Trim(Remember(dedupe, k, rows[i].seq))
      BY <1>3 DEF append_once_retained
    <3>2. rows[i].seq \in Nat
      BY RowFields DEF WarningRows, IInv, TypeOK
    <3> QED
      BY <3>1, <3>2, RememberTyped DEF IInv
  <2>2. UNCHANGED <<next_seq, compacted_through, rows, readers, world, warned>>
    BY <1>3 DEF append_once_retained
  <2> QED
    BY <2>1, <2>2 DEF readers, world, IInv, TypeOK, RowsAreContiguous,
                      CursorsNeverAhead, latest_cursor, CaughtUpMeansShown,
                      OpenTicketIsShown, Opens, StartCursors
<1>4. ASSUME NEW e \in Inputs, append_once_new(k, e[3]) PROVE IInv'
  <2>1. /\ AppendRow("warning", System, e[3], k)
        /\ dedupe' = Trim(Remember(dedupe, k, next_seq))
        /\ warned' = [warned EXCEPT ![k] = @ + 1]
        /\ UNCHANGED <<compacted_through, readers, world>>
    BY <1>4 DEF append_once_new
  <2>2. e[3] \in SUBSET Consumers /\ "warning" \in Kinds
    BY JournalAssumption DEF Kinds
  <2>3. /\ next_seq' = next_seq + 1 /\ next_seq \in Nat
        /\ rows' \in Seq(Row)
        /\ \A i \in DOMAIN rows' :
             /\ rows'[i].kind = "warning" => rows'[i].key \in WarnKeys
             /\ rows'[i].seq \in expired' => rows'[i].kind = "note"
        /\ expired' \subseteq 1..(next_seq' - 1)
        /\ RowsAreContiguous' /\ RowsEvolve
    <3>1. compacted_through' = compacted_through /\ expired' = expired
      BY <2>1 DEF world
    <3> QED
      BY <2>1, <2>2, <3>1, AppendRowFacts
  <2>4. dedupe' \subseteq WarnKeys \X Nat
    BY <2>1, <2>3, RememberTyped DEF IInv
  <2>5. TypeOK'
    BY <2>1, <2>3, <2>4 DEF IInv, TypeOK, readers, world
  <2>6. OpensWithEvent
    BY <2>1 DEF OpensWithEvent, world
  <2> QED
    BY <2>1, <2>3, <2>5, <2>6, JournalStepKeepsCoverage DEF world
<1> QED
  BY <1>1, <1>2, <1>3, <1>4

(* journal_compact and journal_sweep keep the invariant. *)
LEMMA CompactionsStep == ASSUME IInv, Compactions PROVE IInv'
<1>1. ASSUME NEW retain_last \in MinRetain..Max2(MinRetain, Len(rows)),
             journal_compact(retain_last)
      PROVE  IInv'
  <2>1. /\ dedupe' = RememberAll /\ rows' = Retained(retain_last)
        /\ compacted_through' = CompactedThrough(retain_last)
        /\ UNCHANGED <<next_seq, readers, world, warned>>
    BY <1>1 DEF journal_compact
  <2>2. retain_last \in Nat \ {0} /\ expired' = expired
    BY <2>1, JournalAssumption DEF world
  <2>3. /\ rows' \in Seq(Row) /\ compacted_through' \in Nat
        /\ \A i \in DOMAIN rows' :
             /\ rows'[i].kind = "warning" => rows'[i].key \in WarnKeys
             /\ rows'[i].seq \in expired' => rows'[i].kind = "note"
        /\ RowsAreContiguous' /\ RowsEvolve
    BY <2>1, <2>2, CompactFacts
  <2>4. TypeOK'
    BY <2>1, <2>3, RememberAllTyped DEF IInv, TypeOK, readers, world
  <2>5. OpensWithEvent /\ next_seq' >= next_seq
    BY <2>1 DEF OpensWithEvent, world, IInv, TypeOK
  <2> QED
    BY <2>1, <2>2, <2>3, <2>4, <2>5, JournalStepKeepsCoverage
<1>2. ASSUME NEW e \in Inputs, journal_sweep(e[3])
      PROVE  IInv'
  <2>1. e[3] \in SUBSET Consumers
    BY JournalAssumption
  <2>2. /\ rows' \in Seq(Row) /\ compacted_through' \in Nat
        /\ next_seq' = next_seq + 1 /\ next_seq \in Nat
        /\ \A i \in DOMAIN rows' :
             /\ rows'[i].kind = "warning" => rows'[i].key \in WarnKeys
             /\ rows'[i].seq \in expired' => rows'[i].kind = "note"
        /\ RowsAreContiguous' /\ RowsEvolve
    BY <1>2, <2>1, SweepFacts
  <2>3. dedupe' = RememberAll /\ UNCHANGED <<readers, world, warned>>
    BY <1>2 DEF journal_sweep
  <2>4. expired' \subseteq 1..(next_seq' - 1)
    BY <2>2, <2>3 DEF IInv, TypeOK, world
  <2>5. TypeOK'
    <3>1. /\ next_seq' \in Nat \ {0} /\ rows' \in Seq(Row) /\ compacted_through' \in Nat
          /\ \A i \in DOMAIN rows' :
               /\ rows'[i].kind = "warning" => rows'[i].key \in WarnKeys
               /\ rows'[i].seq \in expired' => rows'[i].kind = "note"
      BY <2>2
    <3>2. /\ dedupe' \subseteq (WarnKeys \X Nat) /\ live' \subseteq Consumers
          /\ aged' \in Nat /\ is_open' \in BOOLEAN /\ warned' \in [WarnKeys -> Nat]
      BY <2>3, RememberAllTyped DEF IInv, TypeOK, readers, world
    <3>3. /\ cursors' \in [Consumers -> Nat] /\ acked' \subseteq Consumers
          /\ position' \in [Consumers -> Nat]
          /\ page' \in [Consumers -> [next : Nat, scan : Nat]] /\ ended' \subseteq Consumers
          /\ shown' \in [Consumers -> SUBSET Nat] /\ resynced' \in [Consumers -> Nat]
      BY <2>3 DEF IInv, TypeOK, readers
    <3> QED
      BY <2>4, <3>1, <3>2, <3>3 DEF TypeOK
  <2>6. OpensWithEvent /\ next_seq' >= next_seq /\ expired' = expired
    BY <2>2, <2>3 DEF OpensWithEvent, world
  <2> QED
    BY <2>2, <2>3, <2>5, <2>6, JournalStepKeepsCoverage
<1> QED
  BY <1>1, <1>2 DEF Compactions, Sweep

(* Events aging and expiring, and consumers going stale, keep the invariant. *)
LEMMA TimeStep ==
    ASSUME IInv, Age \/ (\E c \in Consumers : GoStale(c))
                     \/ (\E i \in DOMAIN rows : Expire(i))
    PROVE  IInv'
<1>1. CASE Age \/ (\E c \in Consumers : GoStale(c))
  <2>1. /\ UNCHANGED <<journal, readers, expired, is_open, warned>>
        /\ aged' \in Nat /\ live' \subseteq Consumers
    BY <1>1 DEF Age, GoStale, IInv, TypeOK
  <2>2. TypeOK'
    BY <2>1 DEF journal, readers, IInv, TypeOK
  <2>3. RowsAreContiguous' /\ CursorsNeverAhead'
    BY <2>1 DEF journal, readers, IInv, RowsAreContiguous, CursorsNeverAhead, latest_cursor,
                StartCursors
  <2>4. CaughtUpMeansShown'
    BY <2>1 DEF journal, readers, IInv, CaughtUpMeansShown, StartCursors
  <2>5. OpenTicketIsShown'
    BY <2>1 DEF journal, readers, IInv, OpenTicketIsShown, Opens, StartCursors
  <2> QED
    BY <2>2, <2>3, <2>4, <2>5 DEF IInv
<1>2. ASSUME NEW i \in DOMAIN rows, Expire(i) PROVE IInv'
  <2>1. /\ UNCHANGED <<next_seq, compacted_through, rows, dedupe, cursors, acked,
                       position, page, ended, shown, resynced, live, aged,
                       is_open, warned>>
        /\ expired' = expired \cup {rows[i].seq}
        /\ rows[i].kind = "note"
    BY <1>2 DEF Expire, journal, readers
  <2>2. /\ rows \in Seq(Row) /\ i \in 1..Len(rows) /\ Len(rows) \in Nat
        /\ compacted_through \in Nat
    BY RowFields DEF IInv, TypeOK
  <2>3. /\ next_seq = compacted_through + Len(rows) + 1
        /\ \A j \in DOMAIN rows : rows[j].seq = compacted_through + j
    BY DEF IInv, RowsAreContiguous
  <2>4. expired' \subseteq 1..(next_seq - 1)
    <3>1. rows[i].seq = compacted_through + i
      BY <2>3
    <3>2. rows[i].seq \in 1..(next_seq - 1)
      BY <2>2, <2>3, <3>1
    <3>3. expired \subseteq 1..(next_seq - 1)
      BY DEF IInv, TypeOK
    <3> QED
      BY <2>1, <3>2, <3>3
  <2>5. \A j \in DOMAIN rows : rows[j].seq = rows[i].seq => j = i
    BY <2>2, <2>3
  <2>6. TypeOK'
    BY <2>1, <2>4, <2>5 DEF IInv, TypeOK
  <2>7. CaughtUpMeansShown'
    BY <2>1 DEF IInv, CaughtUpMeansShown, StartCursors
  <2> QED
    BY <2>1, <2>6, <2>7 DEF IInv, RowsAreContiguous, CursorsNeverAhead,
                            latest_cursor, OpenTicketIsShown, Opens, StartCursors
<1> QED
  BY <1>1, <1>2

(* Every step of the journal and its consumers keeps the invariant. *)
LEMMA StepIsGood == IInv /\ [Next]_vars => IInv'
<1> SUFFICES ASSUME IInv, [Next]_vars PROVE IInv'
  OBVIOUS
<1>1. CASE UNCHANGED vars
  BY <1>1 DEF vars, journal, readers, world, IInv, TypeOK, RowsAreContiguous,
              CursorsNeverAhead, latest_cursor, CaughtUpMeansShown,
              OpenTicketIsShown, Opens, StartCursors
<1>2. CASE Appends
  BY <1>2, AppendsStep
<1>3. CASE Warnings
  BY <1>3, WarningsStep
<1>4. CASE Compactions
  BY <1>4, CompactionsStep
<1>5. ASSUME NEW c \in Consumers, board_catchup(c) PROVE IInv'
  <2>1. PICK cursor \in StartCursors(c) :
          \/ catchup_resync(c, cursor)
          \/ \E limit \in 1..MaxPage, last \in 0..latest_cursor, ack \in BOOLEAN :
               PageOrRound(c, cursor, limit, last, ack)
    BY <1>5 DEF board_catchup, PageOrRound, StartCursors
  <2>2. position' = position
    BY <1>5 DEF board_catchup
  <2> QED
    BY <2>1, <2>2, CatchupResyncStep, CatchupPageStep
<1>6. ASSUME NEW c \in Consumers, drain(c) PROVE IInv'
  <2>1. position[c] \in StartCursors(c)
    BY DEF StartCursors
  <2>2. CASE drain_read(c)
    <3>1. PICK last \in 0..latest_cursor :
            PageOrRound(c, position[c], MaxPage, last, FALSE)
      BY <2>2 DEF drain_read, PageOrRound
    <3>2. MaxPage \in 1..MaxPage /\ FALSE \in BOOLEAN
      BY JournalAssumption
    <3> QED
      BY <2>1, <3>1, <3>2, CatchupPageStep
  <2>3. CASE drain_resync(c)
    BY <2>1, <2>3, CatchupResyncStep DEF drain_resync
  <2>4. CASE drain_unacknowledged(c) \/ drain_acknowledge(c)
    BY <2>4, AdvanceStep
  <2>5. CASE drain_fails(c)
    BY <2>5, GiveUpStep
  <2> QED
    BY <1>6, <2>2, <2>3, <2>4, <2>5 DEF drain
<1>7. CASE Environment
  BY <1>7, GiveUpStep, TimeStep DEF Environment
<1> QED
  BY <1>1, <1>2, <1>3, <1>4, <1>5, <1>6, <1>7 DEF Next

-----------------------------------------------------------------------------
(* The theorems *)

(* The inductive invariant: the delivery invariants together hold on every      *)
(* board, whatever it appends, compacts, sweeps and serves to its consumers. *)
THEOREM AlwaysGood == Spec => []IInv
  BY InitIsGood, StepIsGood, PTL DEF Spec

(* The journal's state stays typed, whatever is appended, deduplicated,     *)
(* compacted, swept, read and acknowledged.                                 *)
THEOREM TypeCorrect == Spec => []TypeOK
<1>1. IInv => TypeOK
  BY DEF IInv
<1> QED
  BY <1>1, AlwaysGood, PTL

(* Sequence numbers have no holes after any number of compactions and       *)
(* sweeps: read_after can find the page by position.                        *)
THEOREM AlwaysContiguous == Spec => []RowsAreContiguous
<1>1. IInv => RowsAreContiguous
  BY DEF IInv
<1> QED
  BY <1>1, AlwaysGood, PTL

(* A client that goes on from a cursor it was given is never told that its  *)
(* cursor is ahead of the journal.                                          *)
THEOREM NeverAhead == Spec => []CursorsNeverAhead
<1>1. IInv => CursorsNeverAhead
  BY DEF IInv
<1> QED
  BY <1>1, AlwaysGood, PTL

(* No consumer's cursor passes an event addressed to it silently: for any   *)
(* page limit, byte bound, order of acknowledgements and compaction.        *)
THEOREM NeverSkipsSilently == Spec => []CaughtUpMeansShown
<1>1. IInv => CaughtUpMeansShown
  BY DEF IInv
<1> QED
  BY <1>1, AlwaysGood, PTL

(* No consumer's cursor passes the opening of a ticket that is still open   *)
(* without the consumer being shown it.                                     *)
THEOREM OpenTicketAlwaysShown == Spec => []OpenTicketIsShown
<1>1. IInv => OpenTicketIsShown
  BY DEF IInv
<1> QED
  BY <1>1, AlwaysGood, PTL

(* What a step does to the acknowledged cursors: nothing, unless it is a    *)
(* page of board_catchup or the end of a round; neither takes one back.     *)
LEMMA StepKeepsAcks ==
    ASSUME IInv, Next PROVE \A c \in Consumers : cursors'[c] >= cursors[c]
<1>1. CASE UNCHANGED cursors
  BY <1>1 DEF IInv, TypeOK
<1>2. CASE Appends \/ Warnings \/ Compactions
  BY <1>1, <1>2 DEF Appends, append, append_opened, append_resolved, append_taken, Warnings,
                    append_once_known, append_once_retained, append_once_new,
                    Compactions, Sweep, journal_compact, journal_sweep,
                    readers, vars
<1>3. CASE Environment
  BY <1>1, <1>3 DEF Environment, Restart, GoStale, Age, Expire, readers
<1>4. ASSUME NEW c \in Consumers, board_catchup(c)
      PROVE  \A d \in Consumers : cursors'[d] >= cursors[d]
  <2>1. PICK cursor \in StartCursors(c) :
          \/ catchup_resync(c, cursor)
          \/ \E limit \in 1..MaxPage, last \in 0..latest_cursor, ack \in BOOLEAN :
               PageOrRound(c, cursor, limit, last, ack)
    BY <1>4 DEF board_catchup, PageOrRound, StartCursors
  <2>2. CASE catchup_resync(c, cursor)
    BY <1>1, <2>2 DEF catchup_resync
  <2>3. ASSUME NEW limit \in 1..MaxPage, NEW last \in 0..latest_cursor,
               NEW ack \in BOOLEAN, PageOrRound(c, cursor, limit, last, ack)
        PROVE  \A d \in Consumers : cursors'[d] >= cursors[d]
    <3>1. /\ cursor \in Nat /\ limit \in Nat \ {0} /\ last \in Nat
          /\ compacted_through <= cursor /\ cursor <= latest_cursor
          /\ VisibleSeqs(c, cursor, limit) # {} => last \in VisibleSeqs(c, cursor, limit)
      BY <2>3, PageInputs
    <3>2. EffectiveCursor(c, cursor, limit, last) \in Nat
      BY <3>1, EffectiveCursorSkipsNothing
    <3> QED
      BY <2>3, <3>2, CatchupCursors
  <2> QED
    BY <2>1, <2>2, <2>3
<1>5. ASSUME NEW c \in Consumers, drain(c)
      PROVE  \A d \in Consumers : cursors'[d] >= cursors[d]
  <2>1. CASE drain_acknowledge(c)
    BY <2>1, AcknowledgeFacts
  <2>2. CASE drain_read(c) \/ drain_resync(c) \/ drain_unacknowledged(c) \/ drain_fails(c)
    BY <1>1, <2>2 DEF drain_read, drain_resync, drain_unacknowledged, drain_fails,
                      catchup_page, catchup_resync
  <2> QED
    BY <1>5, <2>1, <2>2 DEF drain
<1> QED
  BY <1>2, <1>3, <1>4, <1>5 DEF Next

(* The server never takes an acknowledgement back, in whatever order the    *)
(* pages, retries and restarts of a consumer arrive.                        *)
THEOREM AckNeverBack == Spec => AckNeverMovesBack
<1>1. IInv /\ [Next]_vars => [\A c \in Consumers : cursors'[c] >= cursors[c]]_vars
  BY StepKeepsAcks
<1> QED
  BY <1>1, AlwaysGood, PTL DEF Spec, AckNeverMovesBack

(* Every sweep brings the journal under its row cap, its own event counted. *)
THEOREM SweepUnderCap == Spec => SweepRespectsCap
<1>1. ASSUME IInv, Sweep PROVE Len(rows') <= RowCap
  <2>1. PICK e \in Inputs : journal_sweep(e[3])
    BY <1>1 DEF Sweep
  <2>2. e[3] \in SUBSET Consumers
    BY JournalAssumption
  <2>3. Len(rows') = Len(rows) - RemoveCount(SweepRetain) + 1
    BY <1>1, <2>1, <2>2, SweepFacts
  <2>4. /\ Len(rows) \in Nat /\ SweepRetain \in Nat /\ SweepRetain <= RowCap - 1
        /\ SweepRetain < Len(rows)
    BY <1>1, <2>1, SweepRetainFacts DEF journal_sweep
  <2> QED
    BY <2>3, <2>4, JournalAssumption DEF RemoveCount, Max2
<1>2. IInv /\ [Next]_vars => [Sweep => Len(rows') <= RowCap]_vars
  BY <1>1
<1> QED
  BY <1>2, AlwaysGood, PTL DEF Spec, SweepRespectsCap

(* A row a live consumer has not acknowledged is needed. *)
LEMMA UnreadIsNeeded ==
    ASSUME IInv, NEW c \in Counted, NEW i \in DOMAIN rows, rows[i].seq >= cursors[c]
    PROVE  Needed(i)
<1> DEFINE S == {cursors[d] : d \in Counted}
<1>1. Counted \subseteq Consumers /\ cursors \in [Consumers -> Nat]
  BY DEF IInv, TypeOK, Counted
<1>2. S \subseteq Nat /\ S # {}
  BY <1>1
<1>3. PICK x \in S : \A y \in S : x <= y
  BY <1>2, LeastNatural
<1>4. PICK d \in Counted : x = cursors[d]
  BY <1>3
<1>5. cursors[d] <= cursors[c] /\ \A e \in Counted : cursors[d] <= cursors[e]
  BY <1>3, <1>4
<1>6. rows[i].seq \in Nat /\ cursors[c] \in Nat /\ cursors[d] \in Nat
  BY <1>1, RowFields DEF IInv, TypeOK
<1>7. rows[i].seq >= cursors[d]
  BY <1>5, <1>6
<1> QED
  BY <1>5, <1>7 DEF Needed, AtOrAfterOldest

(* Below its row cap the journal never drops what a live consumer has not   *)
(* acknowledged: retention alone forces no resync.                          *)
THEOREM SweepNeverDropsUnread == Spec => SweepKeepsUnread
<1>1. ASSUME IInv, Sweep, Len(rows) < RowCap PROVE KeepsUnread
  <2> SUFFICES ASSUME NEW c \in Counted, cursors[c] >= compacted_through
               PROVE  cursors[c] >= compacted_through'
    BY DEF KeepsUnread
  <2>1. PICK e \in Inputs : journal_sweep(e[3])
    BY <1>1 DEF Sweep
  <2> DEFINE k == RemoveCount(SweepRetain)
  <2>2. /\ KeepFrom \in 0..Len(rows) /\ Len(rows) \in Nat
        /\ \A j \in DOMAIN rows : Needed(j) => KeepFrom < j
        /\ SweepRetain \in Nat \ {0} /\ SweepRetain >= Len(rows) - KeepFrom
    BY <1>1, SweepRetainFacts
  <2>3. k \in Nat /\ k <= KeepFrom
    BY <2>2 DEF RemoveCount, Max2
  <2>4. compacted_through' = compacted_through + k
    <3>1. CompactedThrough(SweepRetain) = compacted_through + k
      BY <1>1, <2>2, RetainedFacts, Zenon
    <3> QED
      BY <2>1, <3>1 DEF journal_sweep
  <2> HIDE DEF k
  <2>5. /\ cursors[c] \in Nat /\ cursors[c] <= latest_cursor
        /\ compacted_through \in Nat /\ DOMAIN rows = 1..Len(rows)
    BY <1>1 DEF IInv, TypeOK, CursorsNeverAhead, StartCursors, Counted
  <2>6. /\ next_seq = compacted_through + Len(rows) + 1
        /\ \A i \in DOMAIN rows : rows[i].seq = compacted_through + i
    BY <1>1 DEF IInv, RowsAreContiguous
  <2>7. CASE cursors[c] = compacted_through
    <3>1. CASE Len(rows) = 0
      BY <2>2, <2>3, <2>4, <2>5, <2>7, <3>1
    <3>2. CASE Len(rows) # 0
      <4>1. 1 \in DOMAIN rows /\ rows[1].seq >= cursors[c]
        BY <2>2, <2>5, <2>6, <2>7, <3>2
      <4>2. KeepFrom < 1
        BY <1>1, <2>2, <4>1, UnreadIsNeeded
      <4> QED
        BY <2>2, <2>3, <2>4, <2>5, <2>7, <4>2
    <3> QED
      BY <3>1, <3>2
  <2>8. CASE cursors[c] # compacted_through
    <3> DEFINE j == cursors[c] - compacted_through
    <3>1. j \in DOMAIN rows /\ compacted_through + j = cursors[c]
      BY <2>2, <2>5, <2>6, <2>8 DEF latest_cursor
    <3>2. rows[j].seq >= cursors[c]
      BY <2>5, <2>6, <3>1
    <3>3. KeepFrom < j
      BY <1>1, <2>2, <3>1, <3>2, UnreadIsNeeded
    <3> QED
      BY <2>2, <2>3, <2>4, <2>5, <3>3
  <2> QED
    BY <2>7, <2>8
<1>2. IInv /\ [Next]_vars => [Sweep /\ Len(rows) < RowCap => KeepsUnread]_vars
  BY <1>1
<1> QED
  BY <1>2, AlwaysGood, PTL DEF Spec, SweepKeepsUnread
-----------------------------------------------------------------------------
(* Warnings *)

WarnedKeys == {k \in WarnKeys : warned[k] >= 1}
Forgotten(k) == Cardinality(WarnedKeys \ {k}) >= DedupeMax
RowOf(k) == \E i \in WarningRows : rows[i].key = k

(* The entries of a table d are of identities in W, one for each. *)
Table(d, W) ==
    /\ \A e, f \in d : e[1] = f[1] => e = f
    /\ \A e \in d : e[1] \in W /\ e[2] \in Nat

(* A warned identity is remembered by an entry or by its retained row, or   *)
(* so many others were warned that its entry had to give way to theirs.     *)
WarnInv ==
    /\ IsFiniteSet(WarnedKeys)
    /\ Table(dedupe, WarnedKeys)
    /\ \A i \in WarningRows : rows[i].key \in WarnedKeys
    /\ \A i, j \in WarningRows : rows[i].key = rows[j].key => i = j
    /\ \A k \in WarnedKeys : Entries(dedupe, k) # {} \/ RowOf(k) \/ Forgotten(k)
    /\ \A k \in WarnKeys : warned[k] >= 2 => Forgotten(k)

(* What a trim drops had DedupeMax later entries, each of another identity. *)
LEMMA TrimFacts ==
    ASSUME NEW W, IsFiniteSet(W), NEW d, Table(d, W), NEW e \in d, e \notin Trim(d)
    PROVE  Cardinality(W \ {e[1]}) >= DedupeMax
<1> DEFINE later == {f \in d : f[2] > e[2]}
           others == W \ {e[1]}
           identity == [f \in later |-> f[1]]
<1>1. \A f \in later : f[1] \in others
  BY DEF Table
<1>2. identity \in Injection(later, others)
  BY <1>1 DEF Injection, IsInjective, Table
<1>3. IsFiniteSet(others) /\ Cardinality(others) \in Nat
  BY FS_RemoveElement, FS_CardinalityType
<1>4. IsFiniteSet(later) /\ Cardinality(later) <= Cardinality(others)
  BY <1>2, <1>3, FS_Injection, Zenon
<1>5. Cardinality(later) \in Nat
  BY <1>4, FS_CardinalityType
<1>6. ~(Cardinality(later) < DedupeMax)
  BY DEF Trim
<1> HIDE DEF later, others
<1>7. Cardinality(others) >= DedupeMax
  BY <1>3, <1>4, <1>5, <1>6, JournalAssumption
<1> QED BY <1>7 DEF others

(* A trimmed table is a table. *)
LEMMA TrimTable ==
    ASSUME NEW W, NEW d, Table(d, W) PROVE Table(Trim(d), W)
  BY DEF Table, Trim

(* The identities warned of never become fewer. *)
LEMMA ForgottenStays ==
    ASSUME IsFiniteSet(WarnedKeys'), WarnedKeys \subseteq WarnedKeys',
           NEW k \in WarnKeys, Forgotten(k)
    PROVE  Forgotten(k)'
<1>1. IsFiniteSet(WarnedKeys' \ {k}) /\ WarnedKeys \ {k} \in SUBSET (WarnedKeys' \ {k})
  BY FS_RemoveElement
<1>2. /\ Cardinality(WarnedKeys \ {k}) <= Cardinality(WarnedKeys' \ {k})
      /\ Cardinality(WarnedKeys \ {k}) \in Nat /\ Cardinality(WarnedKeys' \ {k}) \in Nat
  BY <1>1, FS_Subset, FS_CardinalityType
<1> QED BY <1>2, JournalAssumption DEF Forgotten

(* Every warning row of the next state is one of this state. *)
NoNewWarning ==
    \A i \in DOMAIN rows' :
        rows'[i].kind = "warning" => \E j \in DOMAIN rows : rows'[i] = rows[j]

(* Then the retained warnings are still of warned identities, one for each. *)
LEMMA RowsKept ==
    ASSUME WarnInv, IInv', NoNewWarning, warned' = warned
    PROVE  /\ \A i \in WarningRows' : rows'[i].key \in WarnedKeys'
           /\ \A i, j \in WarningRows' : rows'[i].key = rows'[j].key => i = j
<1>1. \A i \in WarningRows' : \E j \in WarningRows : rows'[i] = rows[j]
  BY DEF NoNewWarning, WarningRows
<1>2. \A i \in WarningRows' : rows'[i].key \in WarnedKeys'
  BY <1>1 DEF WarnInv, WarnedKeys
<1>3. ASSUME NEW i \in WarningRows', NEW j \in WarningRows', rows'[i].key = rows'[j].key
      PROVE  i = j
  <2>1. rows'[i] = rows'[j]
    BY <1>1, <1>3 DEF WarnInv
  <2>2. /\ rows'[i].seq = compacted_through' + i /\ rows'[j].seq = compacted_through' + j
        /\ i \in Nat /\ j \in Nat /\ compacted_through' \in Nat
    BY DEF WarningRows, IInv, TypeOK, RowsAreContiguous
  <2> QED BY <2>1, <2>2
<1> QED BY <1>2, <1>3

(* No warning is appended: what is left to show is that the table stays one *)
(* and drops an identity only when its row is retained or it is forgotten.  *)
LEMMA NoWarningStep ==
    ASSUME WarnInv, IInv', NoNewWarning, warned' = warned,
           Table(dedupe', WarnedKeys),
           \A k \in WarnedKeys :
             Entries(dedupe, k) # {} \/ RowOf(k)
               => Entries(dedupe', k) # {} \/ RowOf(k)' \/ Forgotten(k)
    PROVE  WarnInv'
<1>1. WarnedKeys' = WarnedKeys
  BY DEF WarnedKeys
<1>2. \A k \in WarnKeys : Forgotten(k)' <=> Forgotten(k)
  BY <1>1 DEF Forgotten
<1>3. \A k \in WarnedKeys : k \in WarnKeys
  BY DEF WarnedKeys
<1>4. \A k \in WarnedKeys' : Entries(dedupe', k) # {} \/ RowOf(k)' \/ Forgotten(k)'
  BY <1>1, <1>2, <1>3 DEF WarnInv
<1>5. \A k \in WarnKeys : warned'[k] >= 2 => Forgotten(k)'
  BY <1>2 DEF WarnInv
<1>6. IsFiniteSet(WarnedKeys') /\ Table(dedupe', WarnedKeys')
  BY <1>1 DEF WarnInv
<1> QED BY <1>4, <1>5, <1>6, RowsKept, Zenon DEF WarnInv

(* A step that changes no row, no entry and no count. *)
LEMMA RestWarnings ==
    ASSUME IInv', WarnInv, UNCHANGED <<rows, dedupe, warned>> PROVE WarnInv'
<1>1. NoNewWarning
  BY DEF NoNewWarning
<1>2. \A k : RowOf(k)' <=> RowOf(k)
  BY DEF RowOf, WarningRows
<1>3. Table(dedupe', WarnedKeys)
  BY DEF WarnInv
<1> QED BY <1>1, <1>2, <1>3, NoWarningStep

(* Events of calls are no warnings. *)
LEMMA AppendsWarnings == ASSUME IInv, IInv', WarnInv, Appends PROVE WarnInv'
<1>1. PICK e \in Inputs, kind \in {"note", "opened", "resolved", "taken"} :
        AppendRow(kind, e[2], e[3], NoKey) /\ UNCHANGED <<dedupe, warned>>
  BY DEF Appends, append, append_opened, append_resolved, append_taken
<1>2. rows \in Seq(Row)
  BY DEF IInv, TypeOK
<1> DEFINE row == [seq |-> next_seq, kind |-> kind, actor |-> e[2], to |-> e[3], key |-> NoKey]
<1>3. rows' = Append(rows, row) /\ row.kind # "warning"
  BY <1>1 DEF AppendRow
<1> HIDE DEF row
<1>4. /\ \A i \in DOMAIN rows' : i \in DOMAIN rows \/ rows'[i] = row
      /\ \A i \in DOMAIN rows : i \in DOMAIN rows' /\ rows'[i] = rows[i]
  BY <1>2, <1>3
<1>5. NoNewWarning
  BY <1>3, <1>4 DEF NoNewWarning
<1>6. \A k : RowOf(k) => RowOf(k)'
  BY <1>4 DEF RowOf, WarningRows
<1> QED BY <1>1, <1>5, <1>6, NoWarningStep DEF WarnInv

(* Before compaction trims, every identity with a row has an entry. *)
LEMMA RememberAllFacts ==
    ASSUME IInv, WarnInv
    PROVE  /\ Table(RememberAll, WarnedKeys)
           /\ \A k \in WarnedKeys :
                Entries(dedupe, k) # {} \/ RowOf(k) => Entries(RememberAll, k) # {} \/ Forgotten(k)
<1> DEFINE first == {i \in WarningRows :
                       /\ Entries(dedupe, rows[i].key) = {}
                       /\ \A j \in WarningRows : rows[j].key = rows[i].key => i <= j}
           new == {<<rows[i].key, rows[i].seq>> : i \in first}
           d == dedupe \cup new
<1>1. RememberAll = Trim(d)
  BY DEF RememberAll
<1>2. \A i \in WarningRows : rows[i].seq \in Nat /\ i \in Nat /\ rows[i].key \in WarnedKeys
  BY RowFields DEF WarningRows, IInv, TypeOK, WarnInv
<1>3. \A e \in new : \E i \in first : e = <<rows[i].key, rows[i].seq>>
  OBVIOUS
<1>4. \A i, j \in first : rows[i].key = rows[j].key => i = j
  BY DEF WarnInv
<1>5. \A e \in dedupe, i \in first : e[1] # rows[i].key
  BY DEF Entries
<1>6. \A e \in new : e[1] \in WarnedKeys /\ e[2] \in Nat
  BY <1>2, <1>3
<1>7. \A e \in new, f \in d : e[1] = f[1] => e = f
  BY <1>3, <1>4, <1>5
<1>8. Table(d, WarnedKeys)
  BY <1>6, <1>7 DEF Table, WarnInv
<1>9. ASSUME NEW k \in WarnedKeys, Entries(dedupe, k) # {} \/ RowOf(k)
      PROVE  Entries(RememberAll, k) # {} \/ Forgotten(k)
  <2>1. \E e \in d : e[1] = k
    <3>1. CASE Entries(dedupe, k) # {}
      BY <3>1 DEF Entries
    <3>2. CASE Entries(dedupe, k) = {} /\ RowOf(k)
      <4>1. PICK i \in WarningRows : rows[i].key = k
        BY <3>2 DEF RowOf
      <4>2. \A j \in WarningRows : rows[j].key = rows[i].key => i <= j
        BY <1>2 DEF WarnInv
      <4>3. i \in first
        BY <3>2, <4>1, <4>2
      <4>4. <<rows[i].key, rows[i].seq>> \in d
        BY <4>3
      <4>5. <<rows[i].key, rows[i].seq>>[1] = k
        BY <4>1
      <4> QED BY <4>4, <4>5, Zenon
    <3> QED BY <1>9, <3>1, <3>2
  <2>2. PICK e \in d : e[1] = k
    BY <2>1
  <2> HIDE DEF d
  <2>3. CASE e \in Trim(d)
    BY <1>1, <2>2, <2>3 DEF Entries
  <2>4. CASE e \notin Trim(d)
    BY <1>8, <2>2, <2>4, TrimFacts DEF WarnInv, Forgotten
  <2> QED BY <2>3, <2>4
<1> HIDE DEF d
<1>10. Table(RememberAll, WarnedKeys)
  BY <1>1, <1>8, TrimTable
<1> QED BY <1>9, <1>10

(* What compaction leaves of the rows has no warning that was not there. *)
LEMMA RetainedWarnings ==
    ASSUME IInv, NEW retain_last \in Nat \ {0}
    PROVE  /\ Retained(retain_last) \in Seq(Row)
           /\ \A i \in DOMAIN Retained(retain_last) :
                \E j \in DOMAIN rows : Retained(retain_last)[i] = rows[j]
<1> DEFINE k == RemoveCount(retain_last)
           r == Retained(retain_last)
<1>1. /\ k \in 0..Len(rows) /\ Len(rows) \in Nat
      /\ r \in Seq(Row) /\ Len(r) = Len(rows) - k
      /\ \A i \in 1..(Len(rows) - k) : r[i] = rows[k + i]
  BY RetainedFacts, Zenon
<1>2. DOMAIN rows = 1..Len(rows)
  BY DEF IInv, TypeOK
<1> HIDE DEF k, r
<1>3. \A i \in DOMAIN r : k + i \in DOMAIN rows /\ r[i] = rows[k + i]
  BY <1>1, <1>2
<1>4. \A i \in DOMAIN r : \E j \in DOMAIN rows : r[i] = rows[j]
  BY <1>3
<1> QED BY <1>1, <1>4 DEF r

\* Compaction and sweep remember what they remove before they trim.
LEMMA CompactionsWarnings == ASSUME IInv, IInv', WarnInv, Compactions PROVE WarnInv'
<1>1. dedupe' = RememberAll /\ warned' = warned
  BY DEF Compactions, Sweep, journal_compact, journal_sweep
<1>2. NoNewWarning
  <2>1. ASSUME NEW retain_last \in MinRetain..Max2(MinRetain, Len(rows)),
               journal_compact(retain_last)
        PROVE  NoNewWarning
    <3>1. retain_last \in Nat \ {0} /\ rows' = Retained(retain_last)
      BY <2>1, JournalAssumption DEF journal_compact
    <3> QED BY <3>1, RetainedWarnings DEF NoNewWarning
  <2>2. ASSUME NEW e \in Inputs, journal_sweep(e[3]) PROVE NoNewWarning
    <3> DEFINE row == [seq |-> next_seq, kind |-> "compaction", actor |-> System,
                       to |-> e[3], key |-> NoKey]
               r == Retained(SweepRetain)
    <3>1. rows' = Append(r, row) /\ row.kind # "warning"
      BY <2>2 DEF journal_sweep
    <3>2. r \in Seq(Row) /\ \A i \in DOMAIN r : \E j \in DOMAIN rows : r[i] = rows[j]
      BY SweepRetainFacts, RetainedWarnings
    <3> HIDE DEF r, row
    <3>3. \A i \in DOMAIN rows' : (i \in DOMAIN r /\ rows'[i] = r[i]) \/ rows'[i] = row
      BY <3>1, <3>2
    <3> QED BY <3>1, <3>2, <3>3 DEF NoNewWarning
  <2> QED BY <2>1, <2>2 DEF Compactions, Sweep
<1> QED BY <1>1, <1>2, RememberAllFacts, NoWarningStep

(* Remembering an identity that has no entry, and trimming the table. *)
LEMMA RememberFacts ==
    ASSUME NEW W, IsFiniteSet(W), Table(dedupe, W), NEW k \in W, NEW seq \in Nat,
           Entries(dedupe, k) = {}
    PROVE  LET d == Trim(Remember(dedupe, k, seq))
           IN  /\ Table(d, W)
               /\ \A m : Entries(dedupe, m) # {} \/ m = k
                           => Entries(d, m) # {} \/ Cardinality(W \ {m}) >= DedupeMax
<1> DEFINE d == Remember(dedupe, k, seq)
<1>1. d = dedupe \cup {<<k, seq>>}
  BY DEF Remember
<1>2. \A e \in dedupe : e[1] # k
  BY DEF Entries
<1>3. Table(d, W)
  BY <1>1, <1>2 DEF Table
<1>4. ASSUME NEW m, Entries(dedupe, m) # {} \/ m = k
      PROVE  Entries(Trim(d), m) # {} \/ Cardinality(W \ {m}) >= DedupeMax
  <2>0. <<k, seq>> \in d /\ <<k, seq>>[1] = k /\ dedupe \subseteq d
    BY <1>1
  <2>1. PICK e \in d : e[1] = m
    BY <1>4, <2>0 DEF Entries
  <2> HIDE DEF d
  <2> QED BY <1>3, <2>1, TrimFacts DEF Entries
<1> HIDE DEF d
<1>5. Table(Trim(d), W)
  BY <1>3, TrimTable
<1> QED BY <1>4, <1>5 DEF d

\* The three outcomes of append_once.
LEMMA WarningsWarnings == ASSUME IInv, IInv', WarnInv, Warnings PROVE WarnInv'
<1>1. PICK k \in WarnKeys : \/ append_once_known(k)
                            \/ append_once_retained(k)
                            \/ \E e \in Inputs : append_once_new(k, e[3])
  BY DEF Warnings
<1>2. CASE append_once_known(k)
  BY <1>2, RestWarnings DEF append_once_known, vars, journal
<1>3. CASE append_once_retained(k)
  <2>1. PICK i \in WarningRows : /\ rows[i].key = k /\ Entries(dedupe, k) = {}
                                 /\ dedupe' = Trim(Remember(dedupe, k, rows[i].seq))
    BY <1>3 DEF append_once_retained
  <2>2. rows[i].seq \in Nat /\ k \in WarnedKeys
    BY <2>1, RowFields DEF WarningRows, IInv, TypeOK, WarnInv
  <2>3. /\ Table(dedupe', WarnedKeys)
        /\ \A m : Entries(dedupe, m) # {} \/ m = k
                    => Entries(dedupe', m) # {} \/ Cardinality(WarnedKeys \ {m}) >= DedupeMax
    BY <2>1, <2>2, RememberFacts DEF WarnInv
  <2>4. UNCHANGED <<rows, warned>>
    BY <1>3 DEF append_once_retained
  <2>5. NoNewWarning /\ \A m : RowOf(m) => RowOf(m)'
    BY <2>4 DEF NoNewWarning, RowOf, WarningRows
  <2> QED BY <2>3, <2>4, <2>5, NoWarningStep DEF Forgotten
<1>4. ASSUME NEW e \in Inputs, append_once_new(k, e[3]) PROVE WarnInv'
  <2> DEFINE row == [seq |-> next_seq, kind |-> "warning", actor |-> System, to |-> e[3],
                     key |-> k]
  <2>1. /\ rows \in Seq(Row) /\ next_seq \in Nat /\ warned \in [WarnKeys -> Nat]
    BY DEF IInv, TypeOK
  <2>2. /\ Entries(dedupe, k) = {} /\ ~RowOf(k)
        /\ dedupe' = Trim(Remember(dedupe, k, next_seq))
        /\ warned' = [warned EXCEPT ![k] = @ + 1]
        /\ rows' = Append(rows, row) /\ row.key = k
    BY <1>4 DEF append_once_new, AppendRow, RowOf
  <2> HIDE DEF row
  <2>3. /\ WarnedKeys' = WarnedKeys \cup {k}
        /\ \A m \in WarnKeys \ {k} : warned'[m] = warned[m]
        /\ warned'[k] = warned[k] + 1
    BY <2>1, <2>2 DEF WarnedKeys
  <2>4. IsFiniteSet(WarnedKeys')
    BY <2>3, FS_AddElement DEF WarnInv
  <2>5. /\ DOMAIN rows = 1..Len(rows) /\ DOMAIN rows' = 1..(Len(rows) + 1) /\ Len(rows) \in Nat
        /\ \A i \in DOMAIN rows : rows'[i] = rows[i]
        /\ rows'[Len(rows) + 1] = row
    BY <2>1, <2>2
  <2>6. \A i \in WarningRows' : (i \in WarningRows /\ rows'[i] = rows[i]) \/ i = Len(rows) + 1
    BY <2>5 DEF WarningRows
  <2>7. \A i \in WarningRows : rows[i].key \in WarnedKeys /\ rows[i].key # k
    BY <2>2 DEF WarnInv, RowOf
  <2>8. /\ \A i \in WarningRows' : rows'[i].key \in WarnedKeys'
        /\ \A i, j \in WarningRows' : rows'[i].key = rows'[j].key => i = j
    <3>1. \A i \in WarningRows : i # Len(rows) + 1
      BY <2>5 DEF WarningRows
    <3>2. \A i \in WarningRows' : rows'[i].key = k <=> i = Len(rows) + 1
      BY <2>2, <2>5, <2>6, <2>7, <3>1
    <3>3. \A i \in WarningRows' : rows'[i].key \in WarnedKeys'
      BY <2>3, <2>6, <2>7, <3>2
    <3>4. \A i, j \in WarningRows' : rows'[i].key = rows'[j].key => i = j
      BY <2>6, <3>2 DEF WarnInv
    <3> QED BY <3>3, <3>4
  <2>9. \A m : RowOf(m) => RowOf(m)'
    BY <2>5 DEF RowOf, WarningRows
  <2>10. Table(dedupe, WarnedKeys')
    BY <2>3 DEF WarnInv, Table
  <2>11. /\ Table(dedupe', WarnedKeys')
         /\ \A m : Entries(dedupe, m) # {} \/ m = k
                     => Entries(dedupe', m) # {} \/ Cardinality(WarnedKeys' \ {m}) >= DedupeMax
    BY <2>1, <2>2, <2>3, <2>4, <2>10, RememberFacts, SMTT(60)
  <2>12. \A m \in WarnKeys : Forgotten(m) => Forgotten(m)'
    BY <2>3, <2>4, ForgottenStays
  <2>13. ASSUME NEW m \in WarnedKeys'
         PROVE  Entries(dedupe', m) # {} \/ RowOf(m)' \/ Forgotten(m)'
    BY <2>3, <2>9, <2>11, <2>12 DEF WarnInv, WarnedKeys, Forgotten
  <2>14. ASSUME NEW m \in WarnKeys, warned'[m] >= 2 PROVE Forgotten(m)'
    <3>1. CASE m # k
      BY <2>3, <2>12, <2>14, <3>1 DEF WarnInv
    <3>2. CASE m = k
      <4>1. k \in WarnedKeys
        BY <2>1, <2>3, <2>14, <3>2 DEF WarnedKeys
      <4> QED BY <2>2, <2>12, <3>2, <4>1 DEF WarnInv
    <3> QED BY <3>1, <3>2
  <2> QED BY <2>4, <2>8, <2>11, <2>13, <2>14, Zenon DEF WarnInv
<1> QED BY <1>1, <1>2, <1>3, <1>4

\* Every step keeps the invariant of the warnings.
LEMMA StepWarnings == IInv /\ WarnInv /\ [Next]_vars => WarnInv'
<1> SUFFICES ASSUME IInv, WarnInv, [Next]_vars PROVE WarnInv'
  OBVIOUS
<1>1. IInv'
  BY StepIsGood
<1>2. CASE Appends \/ Warnings \/ Compactions
  BY <1>1, <1>2, AppendsWarnings, WarningsWarnings, CompactionsWarnings
<1>3. CASE (\E c \in Consumers : board_catchup(c) \/ drain(c)) \/ Environment
             \/ UNCHANGED vars
  <2>1. UNCHANGED <<rows, dedupe, warned>>
    BY <1>3 DEF board_catchup, catchup_page, catchup_resync, drain, drain_read,
                drain_resync, drain_unacknowledged, drain_acknowledge, drain_fails,
                Advance, Environment, Restart, GoStale, Age, Expire, vars, journal
  <2> QED BY <1>1, <2>1, RestWarnings
<1> QED BY <1>2, <1>3 DEF Next

(* A deprecated tool is warned about again only after so many other tools   *)
(* were warned about that its idempotency entry had to be dropped, however  *)
(* often compaction and the sweep removed the warnings (append_once).       *)
THEOREM AlwaysWarnedOnce == Spec => []WarnedOnce
<1>1. Init => IInv /\ WarnInv
  <2> SUFFICES ASSUME Init PROVE WarnInv
    BY InitIsGood
  <2>1. WarnedKeys = {} /\ dedupe = {} /\ WarningRows = {}
    BY DEF Init, WarnedKeys, WarningRows
  <2>2. \A k \in WarnKeys : ~(warned[k] >= 2)
    BY DEF Init
  <2> QED BY <2>1, <2>2, FS_EmptySet DEF WarnInv, Table
<1>2. IInv /\ WarnInv /\ [Next]_vars => (IInv /\ WarnInv)'
  BY StepIsGood, StepWarnings
<1>3. IInv /\ WarnInv => WarnedOnce
  <2> SUFFICES ASSUME IInv, WarnInv, NEW k \in WarnKeys, warned[k] >= 2
               PROVE  Cardinality({j \in WarnKeys \ {k} : warned[j] >= 1}) >= DedupeMax
    BY DEF WarnInv, WarnedOnce
  <2>1. {j \in WarnKeys \ {k} : warned[j] >= 1} = WarnedKeys \ {k}
    BY DEF WarnedKeys
  <2> QED BY <2>1 DEF WarnInv, Forgotten
<1> QED BY <1>1, <1>2, <1>3, PTL DEF Spec
=============================================================================
