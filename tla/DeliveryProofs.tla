--------------------------- MODULE DeliveryProofs ---------------------------
(***************************************************************************)
(* Proofs about BatchDelivery, for any tickets, policies and bounds: every *)
(* state is typed, what the ledger calls integrated is on the branch,      *)
(* whatever replies are lost and wherever the butler dies, and an open     *)
(* pull request lists only members whose work is in the commit it offers.  *)
(***************************************************************************)
EXTENDS BatchDelivery, FiniteSetTheorems, WellFoundedInduction, TLAPS

Mutating == {"reserve", "call", "finish", "settle"}
Answering == {"finish", "settle"}
Doing(kind) == op.at \in Mutating /\ op.r.kind = kind
Deriving(kind) == op.at = "derive" /\ op.r.kind = kind
Confirmed(kind) == op.at \in Answering /\ op.r.kind = kind /\ op.got = "confirmed"

Ops == [at : Steps, b : 0 .. MaxBatches, r : Reservations, got : Results, moved : BOOLEAN]
Merges(b) == {r \in batches[b].pending : r.kind = "integrate_member"}

\* What the butler is doing is about a batch, and about a ticket when it
\* collects one.
OpInv ==
    /\ op.at # "idle" => op.b \in 1 .. last
    /\ op.at \in Answering => op.got # "none"
    /\ op.at = "join" => \E t \in Tickets : op.r.for = {t} /\ index[t] = NoBatch
    /\ op.at = "join" => op.r.kind = "integrate_member" /\ op.r.sha = op.r.old
    /\ op.at = "join" \/ Doing("integrate_member") => op.r.old \in Commits
    /\ Doing("create_integration_branch") =>
         \E t \in Tickets : op.r.for = {t} /\ index[t] = NoBatch
    /\ Doing("create_integration_branch") => op.r.sha = Base /\ op.r.old = None
    /\ Confirmed("create_integration_branch") => intRef # None
    /\ Doing("integrate_member") \/ Deriving("integrate_member") =>
         \E t \in MembersOf(op.b) : op.r.for = {t}
    /\ Deriving("create_customer_pr") => PrsOf(op.b) # {}
    /\ Doing("update_customer_pr") \/ Deriving("update_customer_pr") => batches[op.b].pr # NoPr
    /\ op.at = "publish" \/ Doing("create_customer_pr") \/ Doing("update_customer_pr")
         => batches[op.b].snap # None
    /\ Confirmed("create_customer_pr") => Len(prs) > 0 /\ prs[Len(prs)].of = op.b
    /\ Confirmed("snapshot_ref") \/ Deriving("snapshot_ref") => snapRef[op.b] # None

\* The parts of a batch that refer to one another and to the remote.
Sound(b, batch) ==
    /\ \A t \in Tickets : batch.members[t] # "none" => index[t] = b
    /\ batch.pending \cap batch.done = {}
    /\ \A r \in batch.pending : r.kind = "integrate_member" =>
         \E t \in Tickets : r.for = {t} /\ batch.members[t] # "none"
    /\ \A r \in batch.pending : r.kind = "update_customer_pr" => batch.pr # NoPr
    /\ batch.pr # NoPr => batch.pr \in DOMAIN prs /\ prs[batch.pr].of = b
    /\ batch.state = "delivery_open" => batch.pr # NoPr
    /\ batch.snap # None => snapRef[b] # None

BatchOK(b) ==
    /\ Sound(b, batches[b])
    /\ b > last => batches[b] = NewBatch("absent", Base) /\ snapRef[b] = None

BatchInv == \A b \in Batches : BatchOK(b)

TypeInv == TypeOK /\ OpInv /\ BatchInv

-----------------------------------------------------------------------------
(* The values the model is built from. *)

\* The ticket a reservation for one ticket is about.
LEMMA TicketOfOne ==
    ASSUME NEW t \in Tickets, NEW r, r.for = {t}
    PROVE  TicketOf(r) = t
  BY DEF TicketOf

\* A nonempty set of ordinals has a last one.
LEMMA LatestExists ==
    ASSUME NEW N \in Nat, NEW V, V \subseteq 1 .. N, V # {}
    PROVE  Latest(V) \in V
<1> DEFINE R == {ss \in Nat \X Nat : ss[1] < ss[2]}
           S == {w \in 0 .. N : N - w \in V}
<1>1. IsWellFoundedOn(R, Nat)
  BY NatLessThanWellFounded, Zenon DEF OpToRel
<1>2. S \subseteq Nat /\ S # {}
  <2>1. PICK v \in V : TRUE
    OBVIOUS
  <2>2. N - v \in 0 .. N /\ N - (N - v) = v
    OBVIOUS
  <2>3. N - v \in S
    BY <2>1, <2>2
  <2>4. S \subseteq Nat
    OBVIOUS
  <2> HIDE DEF S
  <2> QED BY <2>3, <2>4
<1>3. \E x \in S : \A y \in S : ~(<<y, x>> \in R)
  <2> HIDE DEF R, S
  <2> QED BY <1>1, <1>2, WFMin
<1>4. PICK x \in S : \A y \in S : ~(<<y, x>> \in R)
  BY <1>3
<1>5. x \in Nat /\ \A y \in S : x <= y
  <2>1. \A i, j \in Nat : ~(<<j, i>> \in R) => i <= j
    OBVIOUS
  <2> HIDE DEF R, S
  <2> QED BY <1>2, <1>4, <2>1
<1>6. N - x \in V /\ \A v \in V : v <= N - x
  <2>1. ASSUME NEW v \in V PROVE v <= N - x
    <3>1. v \in 0 .. N /\ N - v \in 0 .. N /\ N - (N - v) = v
      OBVIOUS
    <3>2. N - v \in S
      BY <3>1
    <3>3. x <= N - v
      BY <1>5, <3>2
    <3> QED BY <1>5, <3>1, <3>3
  <2> QED BY <2>1
<1> QED BY <1>6 DEF Latest

\* The first commit is one of the model's commits.
LEMMA BaseIsCommit == Base \in Commits
  BY DEF Base, Commits

\* The empty reservation is typed.
LEMMA NoReservationTyped == NoReservation \in Reservations
  BY BaseIsCommit DEF NoReservation, Reservations, Kinds, Refs

\* The fields of an operation that begins a step.
LEMMA AtFacts ==
    ASSUME NEW step \in Steps, NEW b \in 0 .. MaxBatches, NEW r \in Reservations
    PROVE  /\ At(step, b, r) \in Ops
           /\ At(step, b, r).at = step /\ At(step, b, r).b = b /\ At(step, b, r).r = r
           /\ At(step, b, r).got = "none"
  BY DEF At, Ops, Results

\* The idle operation is typed.
LEMMA IdleFacts == Idle \in Ops /\ Idle.at = "idle"
  BY NoReservationTyped, AtFacts, DeliveryAssumption DEF Idle, Steps, NoBatch

\* An idle butler owes the invariant of its operation nothing.
LEMMA IdleOp ==
    ASSUME op' = Idle
    PROVE  op' \in Ops /\ OpInv'
  BY IdleFacts DEF OpInv, Doing, Deriving, Confirmed, Mutating, Answering

\* The fields of the reservation of a merge.
LEMMA MergeTyped ==
    ASSUME NEW t \in Tickets, NEW c \in Commits
    PROVE  /\ Merge(t, c) \in Reservations /\ Merge(t, c).kind = "integrate_member"
           /\ Merge(t, c).for = {t} /\ Merge(t, c).sha = c /\ Merge(t, c).old = c
  BY DEF Merge, Reservations, Kinds, Refs

\* A batch is created empty: no member, snapshot, pull request or reservation.
LEMMA NewBatchFacts ==
    ASSUME NEW s \in States, NEW c \in Commits
    PROVE  /\ NewBatch(s, c) \in BatchRecords
           /\ NewBatch(s, c).state = s /\ NewBatch(s, c).head = c
           /\ \A t \in Tickets : NewBatch(s, c).members[t] = "none"
           /\ NewBatch(s, c).snap = None /\ NewBatch(s, c).pr = NoPr
           /\ NewBatch(s, c).pending = {} /\ NewBatch(s, c).done = {}
           /\ NewBatch(s, c).cohort = {}
  BY DEF NewBatch, BatchRecords, Refs, Statuses, NoPr

\* Marking a batch as delivered makes or drops no member.
LEMMA DeliveredFacts ==
    ASSUME NEW m \in [Tickets -> Statuses]
    PROVE  /\ Delivered(m) \in [Tickets -> Statuses]
           /\ \A t \in Tickets : Delivered(m)[t] = "none" <=> m[t] = "none"
           /\ \A t \in Tickets : Delivered(m)[t] \in {"integrated", "in_delivery"}
                                  <=> m[t] \in {"integrated", "in_delivery"}
  BY DEF Delivered, Statuses

\* _finish moves a reservation between pending and done and nothing else.
LEMMA FinishedFacts ==
    ASSUME NEW batch \in BatchRecords, NEW r \in Reservations, NEW got
    PROVE  /\ Finished(batch, r, got) \in BatchRecords
           /\ got = "unknown" =>
                /\ Finished(batch, r, got).pending = batch.pending \cup {r}
                /\ Finished(batch, r, got).done = batch.done \ {r}
           /\ got # "unknown" =>
                /\ Finished(batch, r, got).pending = batch.pending \ {r}
                /\ Finished(batch, r, got).done = batch.done \cup {r}
           /\ Finished(batch, r, got).state = batch.state
           /\ Finished(batch, r, got).head = batch.head
           /\ Finished(batch, r, got).members = batch.members
           /\ Finished(batch, r, got).snap = batch.snap
           /\ Finished(batch, r, got).frozen = batch.frozen
           /\ Finished(batch, r, got).cohort = batch.cohort
           /\ Finished(batch, r, got).pr = batch.pr
  BY DEF Finished, BatchRecords

-----------------------------------------------------------------------------
(* The shapes of a step. *)

PassOK == noted \subseteq Batches /\ releasing \in BOOLEAN /\ (releasing => noted # {})

\* The pass that feeds the tickets stays typed when it does not move.
LEMMA PassKept ==
    ASSUME TypeInv, UNCHANGED pass
    PROVE  PassOK'
<1>1. PassOK
  BY DEF TypeInv, TypeOK, PassOK
<1> QED BY <1>1, Zenon DEF PassOK, pass

\* One batch of the ledger is saved.
LEMMA SaveFacts ==
    ASSUME batches \in [Batches -> BatchRecords], NEW b \in Batches,
           NEW batch \in BatchRecords, Save(b, batch)
    PROVE  /\ batches' \in [Batches -> BatchRecords] /\ batches'[b] = batch
           /\ \A c \in Batches : c # b => batches'[c] = batches[c]
  BY DEF Save

\* What a batch refers to is still there when the index, the pull requests
\* and the snapshots only grow.
LEMMA StillSound ==
    ASSUME NEW b \in Batches, NEW batch, Sound(b, batch),
           \A t \in Tickets : index[t] = b => index'[t] = b,
           \A i \in DOMAIN prs : i \in DOMAIN prs' /\ prs'[i].of = prs[i].of,
           snapRef[b] # None => snapRef'[b] # None
    PROVE  Sound(b, batch)'
  BY DEF Sound

\* Nothing but the step the butler is at changes.
LEMMA QuietStep ==
    ASSUME TypeInv, UNCHANGED <<policy, ledger, remote>>,
           op' \in Ops, OpInv', PassOK'
    PROVE  TypeInv'
<1>1. TypeOK'
  BY DEF TypeInv, TypeOK, PassOK, Ops, ledger, remote, MembersOf
<1>2. BatchInv'
  <2> SUFFICES ASSUME NEW b \in Batches PROVE BatchOK(b)'
    BY DEF BatchInv, Batches
  <2>1. BatchOK(b)
    BY DEF TypeInv, BatchInv
  <2> QED BY <2>1 DEF BatchOK, Sound, ledger, remote
<1> QED BY <1>1, <1>2 DEF TypeInv

\* One batch is saved, and the rest of the ledger and the remote stay.
LEMMA SaveStep ==
    ASSUME TypeInv, NEW b \in 1 .. last, NEW batch \in BatchRecords,
           Save(b, batch), Sound(b, batch),
           UNCHANGED <<policy, last, index, remote>>,
           op' \in Ops, OpInv', PassOK'
    PROVE  TypeInv'
<1>1. b \in Batches
  BY DeliveryAssumption DEF TypeInv, TypeOK, Batches
<1>2. /\ batches' \in [Batches -> BatchRecords] /\ batches'[b] = batch
      /\ \A c \in Batches : c # b => batches'[c] = batches[c]
  BY <1>1, SaveFacts DEF TypeInv, TypeOK
<1>3. BatchInv'
  <2> SUFFICES ASSUME NEW c \in Batches PROVE BatchOK(c)'
    BY DEF BatchInv, Batches
  <2>1. BatchOK(c)
    BY DEF TypeInv, BatchInv
  <2>2. CASE c = b
    <3>1. Sound(b, batch)'
      BY <1>1, StillSound DEF remote
    <3>2. ~(b > last')
      BY DEF TypeInv, TypeOK
    <3> QED BY <1>2, <2>2, <3>1, <3>2 DEF BatchOK
  <2>3. CASE c # b
    BY <1>2, <2>1, <2>3 DEF BatchOK, Sound, remote
  <2> QED BY <2>2, <2>3
<1>4. \A c \in Batches : /\ MembersOf(c)' \subseteq {t \in Tickets : index'[t] = c}
                         /\ batches'[c].pending \cap batches'[c].done = {}
  BY <1>3 DEF BatchInv, BatchOK, Sound, MembersOf
<1>5. TypeOK'
  BY <1>2, <1>4 DEF TypeInv, TypeOK, PassOK, Ops, remote
<1> QED BY <1>3, <1>5 DEF TypeInv

\* The remote changes: branches are pushed, and pull requests are created,
\* moved and answered, but none goes away.
LEMMA RemoteStep ==
    ASSUME TypeInv, UNCHANGED <<policy, ledger>>,
           intRef' \in Refs, snapRef' \in [Batches -> Refs],
           prs' \in Seq(PrRecords), Len(prs') <= MaxPrs[policy], edits' \in 0 .. MaxEdits,
           \A i \in DOMAIN prs : i \in DOMAIN prs' /\ prs'[i].of = prs[i].of,
           \A b \in Batches : /\ snapRef[b] # None => snapRef'[b] # None
                              /\ b > last => snapRef'[b] = snapRef[b],
           op' \in Ops, OpInv', PassOK'
    PROVE  TypeInv'
<1>1. BatchInv'
  <2> SUFFICES ASSUME NEW b \in Batches PROVE BatchOK(b)'
    BY DEF BatchInv, Batches
  <2>1. BatchOK(b)
    BY DEF TypeInv, BatchInv
  <2>2. Sound(b, batches[b])'
    BY <2>1 DEF BatchOK, Sound, ledger
  <2> QED BY <2>1, <2>2 DEF BatchOK, ledger
<1>2. \A c \in Batches : /\ MembersOf(c)' \subseteq {t \in Tickets : index'[t] = c}
                         /\ batches'[c].pending \cap batches'[c].done = {}
  BY <1>1 DEF BatchInv, BatchOK, Sound, MembersOf
<1>3. TypeOK'
  BY <1>2 DEF TypeInv, TypeOK, PassOK, Ops, ledger
<1> QED BY <1>1, <1>3 DEF TypeInv

\* What the butler is doing stays, and the remote only grows.
LEMMA OpStays ==
    ASSUME TypeInv, UNCHANGED ledger, op' \in Ops,
           op'.at = op.at, op'.b = op.b, op'.r = op.r, op'.got = op.got,
           \A i \in DOMAIN prs : i \in DOMAIN prs' /\ prs'[i].of = prs[i].of,
           DOMAIN prs' = DOMAIN prs, Len(prs') = Len(prs), intRef # None => intRef' # None,
           \A b \in Batches : snapRef[b] # None => snapRef'[b] # None
    PROVE  OpInv'
<1>1. OpInv /\ op \in Ops /\ Len(prs) \in Nat /\ DOMAIN prs = 1 .. Len(prs)
  BY DEF TypeInv, TypeOK, Ops
<1>2. op.at # "idle" => op.b \in Batches
  BY <1>1, DeliveryAssumption DEF OpInv, TypeInv, TypeOK, Batches
<1>3. \A b \in Batches : PrsOf(b) \subseteq PrsOf(b)'
  BY DEF PrsOf
<1>4. Doing("update_customer_pr")' = Doing("update_customer_pr")
  BY DEF Doing
<1> QED BY <1>1, <1>2, <1>3 DEF OpInv, Doing, Deriving, Confirmed, ledger, MembersOf,
       Answering, PrsOf

-----------------------------------------------------------------------------
(* The types, step by step. *)

\* An operation under way is of a batch that was saved, which is sound.
LEMMA OpFacts ==
    ASSUME TypeInv, op.at # "idle"
    PROVE  /\ op.b \in 1 .. last /\ op.b \in Batches /\ op \in Ops /\ op.r \in Reservations
           /\ batches[op.b] \in BatchRecords /\ Sound(op.b, batches[op.b])
<1>1. op \in Ops /\ op.b \in 1 .. last /\ last \in 0 .. MaxBatches
  BY DEF TypeInv, OpInv, TypeOK, Ops
<1>2. op.b \in Batches /\ op.r \in Reservations
  BY <1>1, DeliveryAssumption DEF Batches, Ops
<1> QED BY <1>1, <1>2 DEF TypeInv, TypeOK, BatchInv, BatchOK

\* The state alone of a batch changes.
LEMMA StateFacts ==
    ASSUME NEW b \in Batches, NEW batch \in BatchRecords, NEW s \in States
    PROVE  /\ [batch EXCEPT !.state = s] \in BatchRecords
           /\ [batch EXCEPT !.state = s].state = s
           /\ [batch EXCEPT !.state = s].head = batch.head
           /\ [batch EXCEPT !.state = s].members = batch.members
           /\ [batch EXCEPT !.state = s].pending = batch.pending
           /\ [batch EXCEPT !.state = s].cohort = batch.cohort
           /\ Sound(b, batch) /\ (s = "delivery_open" => batch.pr # NoPr)
                => Sound(b, [batch EXCEPT !.state = s])
<1> DEFINE new == [batch EXCEPT !.state = s]
<1>1. /\ new \in BatchRecords /\ new.state = s /\ new.head = batch.head
      /\ new.members = batch.members /\ new.pending = batch.pending
      /\ new.done = batch.done /\ new.pr = batch.pr /\ new.snap = batch.snap
      /\ new.cohort = batch.cohort
  BY DEF BatchRecords
<1> HIDE DEF new
<1>2. Sound(b, batch) /\ (s = "delivery_open" => batch.pr # NoPr) => Sound(b, new)
  BY <1>1 DEF Sound
<1> QED BY <1>1, <1>2 DEF new

\* Saving a batch in another state and giving the operation up keeps the types.
LEMMA BlockStep ==
    ASSUME TypeInv, NEW b \in 1 .. last, NEW s \in States,
           s = "delivery_open" => batches[b].pr # NoPr,
           SetState(b, s), UNCHANGED <<policy, last, index, remote>>,
           op' = Idle, PassOK'
    PROVE  TypeInv'
<1>1. b \in Batches /\ batches[b] \in BatchRecords /\ Sound(b, batches[b])
  BY DeliveryAssumption DEF TypeInv, TypeOK, BatchInv, BatchOK, Batches
<1>2. PICK batch \in BatchRecords : batch = [batches[b] EXCEPT !.state = s]
  BY <1>1, StateFacts
<1>3. Sound(b, batch) /\ Save(b, batch)
  BY <1>1, <1>2, StateFacts DEF SetState
<1> QED BY <1>3, IdleOp, SaveStep

\* A pass that meets a collected ticket again keeps the types.
LEMMA CollectAgainType ==
    ASSUME TypeInv, NEW t \in Tickets, CollectAgain(t)
    PROVE  TypeInv'
<1>1. op' \in Ops /\ OpInv'
  BY IdleOp DEF CollectAgain, Collecting
<1>2. index[t] \in Batches
  BY DeliveryAssumption DEF CollectAgain, TypeInv, TypeOK, Batches, NoBatch
<1>3. PassOK'
  BY <1>2 DEF TypeInv, TypeOK, PassOK, CollectAgain, Collecting
<1> QED BY <1>1, <1>3, QuietStep DEF CollectAgain

\* A crash, which loses the operation, keeps the types.
LEMMA CrashType ==
    ASSUME TypeInv, Crash
    PROVE  TypeInv'
<1>1. op' \in Ops /\ OpInv'
  BY IdleOp DEF Crash
<1>2. PassOK'
  BY DEF PassOK, Crash
<1> QED BY <1>1, <1>2, QuietStep DEF Crash

\* A step that raises keeps the types.
LEMMA RaiseType ==
    ASSUME TypeInv, Raise
    PROVE  TypeInv'
<1>1. op' \in Ops /\ OpInv'
  BY IdleOp DEF Raise
<1>2. PassOK'
  BY PassKept DEF Raise
<1> QED BY <1>1, <1>2, QuietStep DEF Raise

\* A new ticket: either it is about to join an open batch, or one is saved.
LEMMA CollectType ==
    ASSUME TypeInv, NEW t \in Tickets, Collect(t)
    PROVE  TypeInv'
<1>1. last \in 0 .. MaxBatches /\ MaxBatches \in Nat /\ intRef \in Refs /\ index[t] = NoBatch
  BY DeliveryAssumption DEF TypeInv, TypeOK, Collect
<1>2. PassOK'
  BY PassKept DEF Collect
<1>3. CASE intRef # None /\ Open # {}
  <2>1. Open \subseteq Batches /\ Open # {}
    BY <1>3 DEF Open
  <2>2. PICK b \in Batches : b = Latest(Open) /\ b \in Open
    BY <1>1, <2>1, LatestExists DEF Batches
  <2>3. batches[b].state # "absent"
    BY <2>2 DEF Open
  <2>4. ~(b > last)
    <3>1. NewBatch("absent", Base).state = "absent"
      BY DEF NewBatch
    <3> QED BY <2>3, <3>1 DEF TypeInv, BatchInv, BatchOK
  <2>5. intRef \in Commits
    BY <1>1, <1>3 DEF Refs
  <2>6. op' = At("join", b, Merge(t, intRef))
    BY <1>3, <2>2 DEF Collect
  <2>7. b \in 0 .. MaxBatches /\ "join" \in Steps
    BY <1>1 DEF Batches, Steps
  <2>8. /\ op' \in Ops /\ op'.at = "join" /\ op'.b = b /\ op'.r = Merge(t, intRef)
    BY <2>5, <2>6, <2>7, AtFacts, MergeTyped
  <2>9. UNCHANGED <<policy, ledger, remote>>
    BY <1>3 DEF Collect
  <2>10. OpInv'
    BY <1>1, <2>4, <2>5, <2>8, <2>9, MergeTyped
       DEF OpInv, Doing, Deriving, Confirmed, Mutating, Answering, ledger, Batches
  <2> QED BY <1>2, <2>8, <2>9, <2>10, QuietStep
<1>4. CASE ~(intRef # None /\ Open # {})
  <2> DEFINE head == IF intRef = None THEN Base ELSE intRef
             b == last + 1
  <2>1. last < MaxBatches /\ last' = b /\ UNCHANGED <<index, policy, remote>>
    BY <1>4 DEF Collect
  <2>2. b \in Batches /\ b \in 0 .. MaxBatches /\ b \in 1 .. last'
    BY <1>1, <2>1 DEF Batches
  <2>3. head \in Commits
    BY <1>1, BaseIsCommit DEF Refs
  <2>4. PICK new \in BatchRecords : new = NewBatch("collecting", head)
    BY <2>3, NewBatchFacts DEF States
  <2>5. /\ new.members \in [Tickets -> {"none"}] /\ new.snap = None /\ new.pr = NoPr
        /\ new.pending = {} /\ new.done = {} /\ new.state = "collecting"
    BY <2>4 DEF NewBatch
  <2>6. batches' = [batches EXCEPT ![b] = new]
    BY <1>4, <2>4 DEF Collect
  <2>7. /\ batches' \in [Batches -> BatchRecords] /\ batches'[b] = new
        /\ \A c \in Batches : c # b => batches'[c] = batches[c]
    BY <2>2, <2>6, SaveFacts DEF TypeInv, TypeOK, Save
  <2>8. BatchInv'
    <3> SUFFICES ASSUME NEW c \in Batches PROVE BatchOK(c)'
      BY DEF BatchInv, Batches
    <3>1. BatchOK(c)
      BY DEF TypeInv, BatchInv
    <3>2. CASE c = b
      BY <2>1, <2>2, <2>5, <2>7, <3>2 DEF BatchOK, Sound
    <3>3. CASE c # b
      <4>1. c > last' => c > last
        BY <1>1, <2>1 DEF Batches
      <4> QED BY <2>1, <2>7, <3>1, <3>3, <4>1 DEF BatchOK, Sound, remote
    <3> QED BY <3>2, <3>3
  <2>9. \A c \in Batches : /\ MembersOf(c)' \subseteq {u \in Tickets : index'[u] = c}
                           /\ batches'[c].pending \cap batches'[c].done = {}
    BY <2>8 DEF BatchInv, BatchOK, Sound, MembersOf
  <2>10. op' \in Ops /\ OpInv'
    <3>1. CASE intRef = None
      <4> DEFINE r == [NoReservation EXCEPT !.for = {t}]
      <4>1. /\ r \in Reservations /\ r.for = {t} /\ r.kind = "create_integration_branch"
            /\ r.sha = Base /\ r.old = None
        BY BaseIsCommit DEF NoReservation, Reservations, Kinds, Refs
      <4>2. op' = At("reserve", b, r)
        BY <1>4, <3>1 DEF Collect
      <4> HIDE DEF r
      <4>3. op' \in Ops /\ op'.at = "reserve" /\ op'.b = b /\ op'.r = r
        BY <2>2, <4>1, <4>2, AtFacts DEF Steps
      <4> QED BY <1>1, <2>1, <2>2, <4>1, <4>3
              DEF OpInv, Doing, Deriving, Confirmed, Mutating, Answering
    <3>2. CASE intRef # None
      <4>1. intRef \in Commits
        BY <1>1, <3>2 DEF Refs
      <4>2. op' = At("join", b, Merge(t, intRef))
        BY <1>4, <3>2 DEF Collect
      <4>3. op' \in Ops /\ op'.at = "join" /\ op'.b = b /\ op'.r = Merge(t, intRef)
        BY <2>2, <4>1, <4>2, AtFacts, MergeTyped DEF Steps
      <4> QED BY <1>1, <2>1, <2>2, <4>1, <4>3, MergeTyped
              DEF OpInv, Doing, Deriving, Confirmed, Mutating, Answering
    <3> QED BY <3>1, <3>2
  <2>11. last' \in 0 .. MaxBatches
    BY <1>1, <2>1
  <2> HIDE DEF b, head
  <2>12. TypeOK'
    BY <1>2, <2>1, <2>7, <2>9, <2>10, <2>11 DEF TypeInv, TypeOK, PassOK, Ops, remote
  <2> QED BY <2>8, <2>10, <2>12 DEF TypeInv
<1> QED BY <1>3, <1>4

\* The membership is saved, and only then is the merge reserved.
LEMMA JoinFacts ==
    ASSUME TypeInv, Join
    PROVE  \E b \in Batches, t \in Tickets :
             /\ b = op.b /\ b \in 1 .. last /\ op.r.for = {t} /\ index[t] = NoBatch
             /\ batches[b].members[t] = "none"
             /\ \/ SetState(b, "blocked_external_edit") /\ op' = Idle /\ index' = index
                \/ /\ batches[b].head = op.r.old
                   /\ Save(b, [batches[b] EXCEPT !.members[t] = "approved"])
                   /\ index' = [index EXCEPT ![t] = b]
                   /\ op' = At("reserve", b, op.r)
<1>1. op.at = "join"
  BY DEF Join
<1>2. op.b \in Batches /\ op.b \in 1 .. last /\ Sound(op.b, batches[op.b])
  BY <1>1, OpFacts
<1>3. PICK t \in Tickets : op.r.for = {t} /\ index[t] = NoBatch
  BY <1>1 DEF TypeInv, OpInv
<1>4. TicketOf(op.r) = t
  BY <1>3, TicketOfOne
<1>5. batches[op.b].members[t] = "none"
  BY <1>2, <1>3, DeliveryAssumption DEF Sound, Batches, NoBatch
<1> QED BY <1>2, <1>3, <1>4, <1>5 DEF Join

\* A member is added, or gets another status.
LEMMA MemberFacts ==
    ASSUME NEW batch \in BatchRecords, NEW t \in Tickets, NEW s \in Statuses
    PROVE  LET new == [batch EXCEPT !.members[t] = s]
           IN  /\ new \in BatchRecords /\ new.members[t] = s
               /\ \A u \in Tickets : u # t => new.members[u] = batch.members[u]
               /\ new.state = batch.state /\ new.head = batch.head
               /\ new.snap = batch.snap /\ new.pending = batch.pending
               /\ new.done = batch.done /\ new.pr = batch.pr
               /\ new.cohort = batch.cohort
  BY DEF BatchRecords

\* Entering a ticket in its batch and index keeps the types.
LEMMA JoinType ==
    ASSUME TypeInv, Join
    PROVE  TypeInv'
<1>1. PICK b \in Batches, t \in Tickets :
             /\ b = op.b /\ b \in 1 .. last /\ op.r.for = {t} /\ index[t] = NoBatch
             /\ batches[b].members[t] = "none"
             /\ \/ SetState(b, "blocked_external_edit") /\ op' = Idle /\ index' = index
                \/ /\ batches[b].head = op.r.old
                   /\ Save(b, [batches[b] EXCEPT !.members[t] = "approved"])
                   /\ index' = [index EXCEPT ![t] = b]
                   /\ op' = At("reserve", b, op.r)
  BY JoinFacts
<1>2. PassOK' /\ UNCHANGED <<policy, last, remote>>
  BY PassKept DEF Join
<1>3. CASE SetState(b, "blocked_external_edit") /\ op' = Idle /\ index' = index
  BY <1>1, <1>2, <1>3, BlockStep DEF States
<1>4. CASE /\ Save(b, [batches[b] EXCEPT !.members[t] = "approved"])
           /\ index' = [index EXCEPT ![t] = b]
           /\ op' = At("reserve", b, op.r)
  <2>1. batches[b] \in BatchRecords /\ Sound(b, batches[b]) /\ op.at = "join"
        /\ op.r.kind = "integrate_member" /\ op.r \in Reservations /\ op.r.old \in Commits
    BY <1>1, OpFacts DEF Join, TypeInv, OpInv
  <2>2. PICK new \in BatchRecords : new = [batches[b] EXCEPT !.members[t] = "approved"]
    BY <2>1, MemberFacts DEF Statuses
  <2>3. /\ new.members[t] = "approved"
        /\ \A u \in Tickets : u # t => new.members[u] = batches[b].members[u]
        /\ new.state = batches[b].state /\ new.snap = batches[b].snap
        /\ new.pending = batches[b].pending /\ new.done = batches[b].done
        /\ new.pr = batches[b].pr
    BY <2>1, <2>2, MemberFacts DEF Statuses
  <2>4. /\ batches' \in [Batches -> BatchRecords] /\ batches'[b] = new
        /\ \A c \in Batches : c # b => batches'[c] = batches[c]
    BY <1>4, <2>2, SaveFacts DEF TypeInv, TypeOK
  <2>5. /\ index' \in [Tickets -> 0 .. MaxBatches] /\ index'[t] = b
        /\ \A u \in Tickets : u # t => index'[u] = index[u]
    BY <1>4, DeliveryAssumption DEF TypeInv, TypeOK, Batches
  <2>6. \A c \in Batches : c # NoBatch
    BY DEF Batches, NoBatch
  <2>7. BatchInv'
    <3> SUFFICES ASSUME NEW c \in Batches PROVE BatchOK(c)'
      BY DEF BatchInv, Batches
    <3>1. BatchOK(c)
      BY DEF TypeInv, BatchInv
    <3>2. CASE c = b
      <4>1. Sound(b, new)'
        BY <1>2, <2>1, <2>3, <2>5 DEF Sound, remote
      <4>2. ~(b > last')
        BY <1>1, <1>2 DEF TypeInv, TypeOK
      <4> QED BY <2>4, <3>2, <4>1, <4>2 DEF BatchOK
    <3>3. CASE c # b
      <4>1. \A u \in Tickets : index[u] = c => index'[u] = c
        BY <1>1, <2>5, <2>6
      <4>2. Sound(c, batches[c])'
        BY <1>2, <2>4, <3>1, <3>3, <4>1 DEF BatchOK, Sound, remote
      <4> QED BY <1>2, <2>4, <3>1, <3>3, <4>2 DEF BatchOK, remote
    <3> QED BY <3>2, <3>3
  <2>8. \A c \in Batches : /\ MembersOf(c)' \subseteq {u \in Tickets : index'[u] = c}
                           /\ batches'[c].pending \cap batches'[c].done = {}
    BY <2>7 DEF BatchInv, BatchOK, Sound, MembersOf
  <2>9. op' \in Ops /\ op'.at = "reserve" /\ op'.b = b /\ op'.r = op.r
    BY <1>1, <1>4, <2>1, AtFacts, DeliveryAssumption DEF Steps, Batches
  <2>10. OpInv'
    <3>1. t \in MembersOf(b)'
      BY <2>3, <2>4 DEF MembersOf
    <3> QED BY <1>1, <1>2, <2>1, <2>9, <3>1
            DEF OpInv, Doing, Deriving, Confirmed, Mutating, Answering
  <2>11. TypeOK'
    BY <1>2, <2>4, <2>5, <2>8, <2>9 DEF TypeInv, TypeOK, PassOK, Ops, remote
  <2> QED BY <2>7, <2>10, <2>11 DEF TypeInv
<1> QED BY <1>1, <1>3, <1>4

\* The reservation is in the ledger, pending unless it is done already.
Reserved(batch, r) == IF r \in batch.done THEN batch ELSE [batch EXCEPT !.pending = @ \cup {r}]

\* A reservation is added to pending, unless it is done already.
LEMMA ReservedFacts ==
    ASSUME NEW batch \in BatchRecords, NEW r \in Reservations
    PROVE  /\ Reserved(batch, r) \in BatchRecords
           /\ Reserved(batch, r).pending \subseteq batch.pending \cup {r}
           /\ Reserved(batch, r).done = batch.done
           /\ batch.pending \cap batch.done = {}
                => Reserved(batch, r).pending \cap batch.done = {}
           /\ Reserved(batch, r).state = batch.state
           /\ Reserved(batch, r).head = batch.head
           /\ Reserved(batch, r).members = batch.members
           /\ Reserved(batch, r).snap = batch.snap
           /\ Reserved(batch, r).cohort = batch.cohort
           /\ Reserved(batch, r).pr = batch.pr
  BY DEF Reserved, BatchRecords

\* Reserving a mutation keeps the types.
LEMMA ReserveType ==
    ASSUME TypeInv, Reserve
    PROVE  TypeInv'
<1>1. op.at = "reserve"
  BY DEF Reserve
<1>2. PICK b \in Batches : b = op.b /\ b \in 1 .. last
  BY <1>1, OpFacts
<1>3. /\ op \in Ops /\ op.r \in Reservations /\ batches[b] \in BatchRecords
      /\ Sound(b, batches[b])
  BY <1>1, <1>2, OpFacts
<1>4. PICK new \in BatchRecords : new = Reserved(batches[b], op.r)
  BY <1>3, ReservedFacts
<1>5. /\ new.pending \subseteq batches[b].pending \cup {op.r} /\ new.done = batches[b].done
      /\ new.pending \cap new.done = {} /\ new.state = batches[b].state
      /\ new.members = batches[b].members /\ new.snap = batches[b].snap
      /\ new.pr = batches[b].pr
  BY <1>3, <1>4, ReservedFacts DEF Sound
<1>6. Save(b, new) /\ UNCHANGED <<policy, last, index, remote>>
  BY <1>2, <1>4 DEF Reserve, Reserved
<1>7. OpInv
  BY DEF TypeInv
<1>8. /\ op.r.kind = "integrate_member" =>
           \E t \in Tickets : op.r.for = {t} /\ batches[b].members[t] # "none"
      /\ op.r.kind = "update_customer_pr" => batches[b].pr # NoPr
  BY <1>1, <1>2, <1>7 DEF OpInv, Doing, Mutating, MembersOf
<1>9. Sound(b, new)
  BY <1>3, <1>5, <1>8 DEF Sound
<1>10. /\ op' \in Ops /\ op'.at = "call" /\ op'.b = b /\ op'.r = op.r
  BY <1>2, <1>3 DEF Reserve, Ops, Steps
<1>11. batches'[b] = new
  BY <1>6, SaveFacts DEF TypeInv, TypeOK
<1>12. OpInv'
  <2>1. MembersOf(b)' = MembersOf(b)
    BY <1>5, <1>11 DEF MembersOf
  <2> QED BY <1>1, <1>2, <1>5, <1>6, <1>7, <1>10, <1>11, <2>1
          DEF OpInv, Doing, Deriving, Confirmed, Mutating, Answering
<1>13. PassOK'
  BY PassKept DEF Reserve
<1> QED BY <1>2, <1>6, <1>9, <1>10, <1>12, <1>13, SaveStep

\* Saving the outcome of a mutation keeps the types.
LEMMA FinishType ==
    ASSUME TypeInv, Finish
    PROVE  TypeInv'
<1>1. op.at = "finish"
  BY DEF Finish
<1>2. PICK b \in Batches : b = op.b /\ b \in 1 .. last
  BY <1>1, OpFacts
<1>3. /\ op \in Ops /\ op.r \in Reservations /\ batches[b] \in BatchRecords
      /\ Sound(b, batches[b])
  BY <1>1, <1>2, OpFacts
<1>4. PICK new \in BatchRecords : new = Finished(batches[b], op.r, op.got)
  BY <1>3, FinishedFacts
<1>5. /\ new.pending \subseteq batches[b].pending \cup {op.r}
      /\ new.pending \cap new.done = {} /\ new.state = batches[b].state
      /\ new.members = batches[b].members /\ new.snap = batches[b].snap
      /\ new.pr = batches[b].pr
  <2>1. batches[b].pending \cap batches[b].done = {}
    BY <1>3 DEF Sound
  <2>2. /\ op.got = "unknown" => /\ new.pending = batches[b].pending \cup {op.r}
                                 /\ new.done = batches[b].done \ {op.r}
        /\ op.got # "unknown" => /\ new.pending = batches[b].pending \ {op.r}
                                 /\ new.done = batches[b].done \cup {op.r}
        /\ new.state = batches[b].state /\ new.members = batches[b].members
        /\ new.snap = batches[b].snap /\ new.pr = batches[b].pr
    BY <1>3, <1>4, FinishedFacts
  <2>3. new.pending \subseteq batches[b].pending \cup {op.r}
    BY <2>2
  <2>4. new.pending \cap new.done = {}
    BY <2>1, <2>2
  <2> QED BY <2>2, <2>3, <2>4
<1>6. Save(b, new) /\ UNCHANGED <<policy, last, index, remote>>
  BY <1>2, <1>4 DEF Finish
<1>7. OpInv
  BY DEF TypeInv
<1>8. /\ op.r.kind = "integrate_member" =>
           \E t \in Tickets : op.r.for = {t} /\ batches[b].members[t] # "none"
      /\ op.r.kind = "update_customer_pr" => batches[b].pr # NoPr
  BY <1>1, <1>2, <1>7 DEF OpInv, Doing, Mutating, MembersOf
<1>9. Sound(b, new)
  BY <1>3, <1>5, <1>8 DEF Sound
<1>10. /\ op' \in Ops /\ op'.at = "settle" /\ op'.b = b /\ op'.r = op.r /\ op'.got = op.got
  BY <1>2, <1>3 DEF Finish, Ops, Steps
<1>11. batches'[b] = new
  BY <1>6, SaveFacts DEF TypeInv, TypeOK
<1>12. OpInv'
  <2>1. MembersOf(b)' = MembersOf(b)
    BY <1>5, <1>11 DEF MembersOf
  <2> QED BY <1>1, <1>2, <1>5, <1>6, <1>7, <1>10, <1>11, <2>1
          DEF OpInv, Doing, Deriving, Confirmed, Mutating, Answering, remote
<1>13. PassOK'
  BY PassKept DEF Finish
<1> QED BY <1>2, <1>6, <1>9, <1>10, <1>12, <1>13, SaveStep

\* Acting on the outcome of the branch creation keeps the types.
LEMMA SettleBranchType ==
    ASSUME TypeInv, SettleBranch
    PROVE  TypeInv'
<1>1. op.at = "settle" /\ op.r.kind = "create_integration_branch"
  BY DEF SettleBranch
<1>2. PICK b \in Batches : b = op.b /\ b \in 1 .. last
  BY <1>1, OpFacts
<1>3. PassOK' /\ UNCHANGED <<policy, last, index, remote>>
  BY PassKept DEF SettleBranch
<1>4. CASE op.got = "confirmed"
  <2>1. PICK t \in Tickets : op.r.for = {t} /\ index[t] = NoBatch
    BY <1>1 DEF TypeInv, OpInv, Doing, Mutating
  <2>2. TicketOf(op.r) = t
    BY <2>1, TicketOfOne
  <2>3. op' = At("join", b, Merge(t, Base)) /\ UNCHANGED batches
    BY <1>1, <1>2, <1>4, <2>2 DEF SettleBranch
  <2>4. op' \in Ops /\ op'.at = "join" /\ op'.b = b /\ op'.r = Merge(t, Base)
    BY <1>2, <2>3, AtFacts, MergeTyped, BaseIsCommit, DeliveryAssumption DEF Steps, Batches
  <2>5. OpInv'
    BY <1>2, <1>3, <2>1, <2>4, MergeTyped, BaseIsCommit
       DEF OpInv, Doing, Deriving, Confirmed, Mutating, Answering
  <2> QED BY <1>3, <2>3, <2>4, <2>5, QuietStep DEF ledger
<1>5. CASE op.got # "confirmed"
  <2>1. SetState(b, "blocked_unknown") /\ op' = Idle
    BY <1>2, <1>5 DEF SettleBranch
  <2> QED BY <1>2, <1>3, <2>1, BlockStep DEF States
<1> QED BY <1>4, <1>5

\* A merge is settled: the member is integrated, and part of the head, or it
\* is blocked.
LEMMA AfterMergeFacts ==
    ASSUME NEW batch \in BatchRecords, NEW r \in Reservations, NEW t \in Tickets,
           r.for = {t}, NEW got \in Results, got # "none",
           NEW new, new = AfterMerge(batch, r, got)
    PROVE  /\ new \in BatchRecords /\ new.snap = batch.snap
           /\ new.pending = batch.pending /\ new.done = batch.done
           /\ new.pr = batch.pr /\ new.cohort = batch.cohort
           /\ \A u \in Tickets : u # t => new.members[u] = batch.members[u]
           /\ got = "confirmed" =>
                /\ new.state = batch.state /\ new.members[t] = "integrated"
                /\ new.head.tickets = batch.head.tickets \cup {t}
                /\ new.head.edits = batch.head.edits
           /\ got # "confirmed" =>
                /\ new.head = batch.head /\ new.members[t] = "blocked"
                /\ new.state \in {"blocked_conflict", "blocked_unknown"}
<1>1. TicketOf(r) = t
  BY TicketOfOne
<1>2. CASE got = "confirmed"
  <2> DEFINE head == [batch.head EXCEPT !.tickets = @ \cup r.for]
             members == [batch.members EXCEPT ![t] = "integrated"]
  <2>1. head \in Commits /\ head.tickets = batch.head.tickets \cup {t}
        /\ head.edits = batch.head.edits
    BY DEF BatchRecords, Commits, Reservations
  <2>2. /\ members \in [Tickets -> Statuses] /\ members[t] = "integrated"
        /\ \A u \in Tickets : u # t => members[u] = batch.members[u]
    BY DEF BatchRecords, Statuses
  <2>3. new = [batch EXCEPT !.members = members, !.head = head]
    BY <1>1, <1>2 DEF AfterMerge, BatchRecords
  <2> HIDE DEF head, members
  <2>4. /\ new \in BatchRecords /\ new.members = members /\ new.head = head
        /\ new.snap = batch.snap /\ new.state = batch.state
        /\ new.pending = batch.pending /\ new.done = batch.done
        /\ new.pr = batch.pr /\ new.cohort = batch.cohort
    BY <2>1, <2>2, <2>3 DEF BatchRecords
  <2> QED BY <1>2, <2>1, <2>2, <2>4
<1>3. CASE got = "conflict"
  BY <1>1, <1>3 DEF AfterMerge, BatchRecords, States, Statuses
<1>4. CASE got = "unknown"
  BY <1>1, <1>4 DEF AfterMerge, BatchRecords, States, Statuses
<1> QED BY <1>2, <1>3, <1>4 DEF Results

\* Acting on the outcome of a merge keeps the types.
LEMMA SettleMergeType ==
    ASSUME TypeInv, SettleMerge
    PROVE  TypeInv'
<1>1. op.at = "settle" /\ op.r.kind = "integrate_member" /\ op.got # "none"
      /\ op.got \in Results
  BY DEF SettleMerge, TypeInv, OpInv, TypeOK, Answering
<1>2. PICK b \in Batches : b = op.b /\ b \in 1 .. last
  BY <1>1, OpFacts
<1>3. PICK t \in Tickets : op.r.for = {t} /\ batches[b].members[t] # "none"
  BY <1>1, <1>2 DEF TypeInv, OpInv, Doing, Mutating, MembersOf
<1>4. op.r \in Reservations /\ batches[b] \in BatchRecords /\ Sound(b, batches[b])
  BY <1>1, <1>2, OpFacts
<1>5. PICK new : new = AfterMerge(batches[b], op.r, op.got)
  OBVIOUS
<1>6. /\ new \in BatchRecords /\ new.snap = batches[b].snap
      /\ new.pending = batches[b].pending
      /\ new.done = batches[b].done /\ new.pr = batches[b].pr
      /\ \A u \in Tickets : u # t => new.members[u] = batches[b].members[u]
      /\ new.state \in {batches[b].state, "blocked_conflict", "blocked_unknown"}
      /\ new.members[t] # "none"
  <2>1. PICK batch \in BatchRecords, r \in Reservations, got \in Results :
             batch = batches[b] /\ r = op.r /\ got = op.got
    BY <1>1, <1>4
  <2>2. r.for = {t} /\ got # "none" /\ new = AfterMerge(batch, r, got)
    BY <1>1, <1>3, <1>5, <2>1
  <2>3. /\ new \in BatchRecords /\ new.snap = batch.snap
        /\ new.pending = batch.pending /\ new.done = batch.done
        /\ new.pr = batch.pr
        /\ \A u \in Tickets : u # t => new.members[u] = batch.members[u]
    BY <2>2, AfterMergeFacts
  <2>4. got = "confirmed" => new.state = batch.state /\ new.members[t] = "integrated"
    BY <2>2, AfterMergeFacts
  <2>5. got # "confirmed" => /\ new.members[t] = "blocked"
                             /\ new.state \in {"blocked_conflict", "blocked_unknown"}
    BY <2>2, AfterMergeFacts
  <2>6. new.members[t] # "none"
    BY <2>4, <2>5
  <2>7. new.state \in {batch.state, "blocked_conflict", "blocked_unknown"}
    BY <2>4, <2>5
  <2> QED BY <2>1, <2>3, <2>6, <2>7
<1>7. Sound(b, new)
  BY <1>3, <1>4, <1>6 DEF Sound
<1>8. Save(b, new) /\ UNCHANGED <<policy, last, index, remote>>
  BY <1>2, <1>5 DEF SettleMerge
<1>9. PassOK'
  BY <1>2 DEF TypeInv, TypeOK, PassOK, SettleMerge
<1>10. op' \in Ops /\ OpInv'
  BY IdleOp DEF SettleMerge
<1> QED BY <1>2, <1>6, <1>7, <1>8, <1>9, <1>10, SaveStep

-----------------------------------------------------------------------------
(* The calls. *)

\* The call is answered, whatever came of it.
LEMMA AnsweredFacts ==
    ASSUME TypeInv, op.at = "call", NEW result \in Results \ {"none"}, Answered(result)
    PROVE  /\ op' \in Ops /\ op'.at = "finish" /\ op'.b = op.b /\ op'.r = op.r
           /\ op'.got = result /\ op'.moved = op.moved
  BY OpFacts DEF Answered, Ops, Steps, Results

\* What is known of an answered call, when the batches stay as they are.
LEMMA AnsweredOp ==
    ASSUME TypeInv, op.at = "call", UNCHANGED <<batches, last, index>>,
           op' \in Ops, op'.at = "finish", op'.b = op.b, op'.r = op.r, op'.got # "none",
           op'.got = "confirmed" /\ op.r.kind = "create_customer_pr"
             => Len(prs') > 0 /\ prs'[Len(prs')].of = op.b,
           op'.got = "confirmed" /\ op.r.kind = "snapshot_ref" => snapRef'[op.b] # None,
           op'.got = "confirmed" /\ op.r.kind = "create_integration_branch" => intRef' # None
    PROVE  OpInv'
<1>1. OpInv
  BY DEF TypeInv
<1> QED BY <1>1 DEF OpInv, Doing, Deriving, Confirmed, Mutating, Answering, MembersOf

\* The push that creates the integration branch keeps the types.
LEMMA CreateBranchType ==
    ASSUME TypeInv, create_integration_branch
    PROVE  TypeInv'
<1>1. op.at = "call" /\ op.r.kind = "create_integration_branch"
      /\ UNCHANGED <<policy, ledger, snapRef, prs, edits, pass>>
  BY DEF create_integration_branch, Calls
<1>2. \E result \in Results \ {"none"} : Answered(result)
  BY DEF create_integration_branch, Answers, Results
<1>3. op' \in Ops /\ op'.at = "finish" /\ op'.b = op.b /\ op'.r = op.r /\ op'.got # "none"
  BY <1>1, <1>2, AnsweredFacts
<1>4. OpInv'
  <2>1. ASSUME op'.got = "confirmed" PROVE intRef' # None
    <3>1. \/ Answered("conflict")
          \/ \E landed \in BOOLEAN :
               /\ intRef' = IF landed THEN op.r.sha ELSE intRef
               /\ \E result \in Answers(landed) : Answered(result)
      BY DEF create_integration_branch
    <3>2. op \in Ops /\ op.r.sha \in Commits
      BY <1>1, OpFacts DEF Reservations
    <3>3. intRef' = op.r.sha
      BY <2>1, <3>1, <3>2 DEF Answered, Answers, Ops
    <3> QED BY <3>2, <3>3, NoneAssumption
  <2> QED BY <1>1, <1>3, <2>1, AnsweredOp DEF ledger
<1>5. intRef' \in Refs
  BY <1>1, OpFacts DEF create_integration_branch, TypeInv, TypeOK, Reservations, Refs
<1>6. PassOK'
  BY <1>1, PassKept
<1> QED BY <1>1, <1>3, <1>4, <1>5, <1>6, RemoteStep DEF TypeInv, TypeOK

\* The push of a merge keeps the types.
LEMMA IntegrateType ==
    ASSUME TypeInv, integrate_reviewed
    PROVE  TypeInv'
<1>1. op.at = "call" /\ op.r.kind = "integrate_member"
      /\ UNCHANGED <<policy, ledger, snapRef, prs, edits, pass>>
  BY DEF integrate_reviewed, Calls
<1>2. \E result \in Results \ {"none"} : Answered(result)
  BY DEF integrate_reviewed, Answers, Results
<1>3. op' \in Ops /\ op'.at = "finish" /\ op'.b = op.b /\ op'.r = op.r /\ op'.got # "none"
  BY <1>1, <1>2, AnsweredFacts
<1>4. OpInv'
  BY <1>1, <1>3, AnsweredOp DEF ledger
<1>5. intRef' \in Refs
  <2>1. op.r.for \subseteq Tickets /\ intRef \in Refs
    BY <1>1, OpFacts DEF Reservations, TypeInv, TypeOK
  <2>2. CASE intRef' = intRef
    BY <2>1, <2>2
  <2>3. CASE intRef' # intRef
    <3>1. intRef' = [intRef EXCEPT !.tickets = @ \cup op.r.for]
      BY <2>3 DEF integrate_reviewed
    <3>2. intRef = op.r.old
      BY <2>3 DEF integrate_reviewed
    <3>3. op.r.old \in Commits
      BY <1>1, OpFacts DEF Refs, Reservations, TypeInv, OpInv, Doing, Mutating
    <3> QED BY <2>1, <3>1, <3>2, <3>3 DEF Refs, Commits
  <2> QED BY <2>2, <2>3
<1>6. PassOK'
  BY <1>1, PassKept
<1> QED BY <1>1, <1>3, <1>4, <1>5, <1>6, RemoteStep DEF TypeInv, TypeOK

\* The pull requests stay, some with other values.
LEMMA PrsRewritten ==
    ASSUME NEW s \in Seq(PrRecords), NEW new \in [DOMAIN s -> PrRecords]
    PROVE  /\ new \in Seq(PrRecords) /\ Len(new) = Len(s) /\ DOMAIN new = DOMAIN s
  OBVIOUS

\* The open pull request of a branch follows a push; the others stay as they are.
LEMMA FollowFacts ==
    ASSUME prs \in Seq(PrRecords), NEW b \in Batches, NEW sha \in Commits,
           NEW new, new = Follow(b, sha)
    PROVE  /\ new \in Seq(PrRecords) /\ Len(new) = Len(prs) /\ DOMAIN new = DOMAIN prs
           /\ \A i \in DOMAIN prs :
                /\ new[i].of = prs[i].of /\ new[i].status = prs[i].status
                /\ new[i].manifest = prs[i].manifest
                /\ prs[i].of = b /\ prs[i].status = "active" => new[i].sha = sha
                /\ ~(prs[i].of = b /\ prs[i].status = "active") => new[i].sha = prs[i].sha
<1>1. \A i \in DOMAIN prs : prs[i] \in PrRecords
  OBVIOUS
<1>2. new \in [DOMAIN prs -> PrRecords]
  BY <1>1 DEF Follow, PrRecords
<1>3. new \in Seq(PrRecords) /\ Len(new) = Len(prs) /\ DOMAIN new = DOMAIN prs
  BY <1>2, PrsRewritten
<1>4. ASSUME NEW i \in DOMAIN prs
      PROVE  /\ new[i].of = prs[i].of /\ new[i].status = prs[i].status
             /\ new[i].manifest = prs[i].manifest
             /\ prs[i].of = b /\ prs[i].status = "active" => new[i].sha = sha
             /\ ~(prs[i].of = b /\ prs[i].status = "active") => new[i].sha = prs[i].sha
  BY <1>1 DEF Follow, PrRecords
<1> QED BY <1>3, <1>4

\* The push of a snapshot keeps the types.
LEMMA PushSnapshotType ==
    ASSUME TypeInv, snapshot_ref
    PROVE  TypeInv'
<1>1. op.at = "call" /\ op.r.kind = "snapshot_ref"
      /\ UNCHANGED <<policy, ledger, intRef, edits, pass>>
  BY DEF snapshot_ref, Calls
<1>2. PICK b \in Batches : b = op.b /\ b \in 1 .. last
  BY <1>1, OpFacts
<1>3. op.r.sha \in Commits /\ op.r.sha # None
  BY <1>1, OpFacts, NoneAssumption DEF Reservations
<1>4. \E result \in Results \ {"none"} : Answered(result)
  BY DEF snapshot_ref, Answers, Results
<1>5. op' \in Ops /\ op'.at = "finish" /\ op'.b = b /\ op'.r = op.r /\ op'.got # "none"
  BY <1>1, <1>2, <1>4, AnsweredFacts
<1>6. PassOK'
  BY <1>1, PassKept
<1>7. prs \in Seq(PrRecords) /\ snapRef \in [Batches -> Refs]
  BY DEF TypeInv, TypeOK
<1>8. CASE snapRef' = [snapRef EXCEPT ![b] = op.r.sha] /\ prs' = Follow(b, op.r.sha)
  <2>1. /\ prs' \in Seq(PrRecords) /\ Len(prs') = Len(prs) /\ DOMAIN prs' = DOMAIN prs
        /\ \A i \in DOMAIN prs : prs'[i].of = prs[i].of
    BY <1>3, <1>7, <1>8, FollowFacts
  <2>2. /\ snapRef' \in [Batches -> Refs] /\ snapRef'[b] = op.r.sha
        /\ \A c \in Batches : c # b => snapRef'[c] = snapRef[c]
    BY <1>3, <1>7, <1>8 DEF Refs
  <2>3. OpInv'
    BY <1>1, <1>2, <1>3, <1>5, <2>2, AnsweredOp DEF ledger
  <2>4. Len(prs') <= MaxPrs[policy] /\ edits \in 0 .. MaxEdits /\ intRef \in Refs
    BY <2>1 DEF TypeInv, TypeOK
  <2>5. ~(b > last)
    BY <1>2 DEF TypeInv, TypeOK
  <2> QED BY <1>1, <1>3, <1>5, <1>6, <2>1, <2>2, <2>3, <2>4, <2>5, RemoteStep
<1>9. CASE UNCHANGED <<snapRef, prs>>
  <2>1. op'.got = "confirmed" => snapRef'[b] # None
    <3>1. op'.got = "confirmed" => snapRef[b] = op.r.sha \/ snapRef'[b] = op.r.sha
      <4>1. ASSUME op'.got = "confirmed" PROVE \E landed \in {TRUE} : snapRef' = [snapRef EXCEPT ![b] = op.r.sha]
        <5>1. /\ op.r.kind = "snapshot_ref"
              /\ \E landed \in BOOLEAN :
                   /\ IF landed THEN snapRef' = [snapRef EXCEPT ![b] = op.r.sha] ELSE TRUE
                   /\ \E result \in Answers(landed) : Answered(result)
          BY <1>1, <1>2, <1>5, <4>1 DEF snapshot_ref, Answered, Ops
        <5> QED BY <1>5, <4>1, <5>1 DEF Answers, Answered, Ops, TypeInv, TypeOK
      <4> QED BY <1>7, <4>1
    <3> QED BY <1>3, <1>9, <3>1
  <2>2. OpInv'
    BY <1>1, <1>2, <1>5, <2>1, AnsweredOp DEF ledger
  <2> QED BY <1>1, <1>5, <1>6, <1>9, <2>2, QuietStep DEF remote
<1> QED BY <1>2, <1>8, <1>9 DEF snapshot_ref

\* A pull request is created last.
LEMMA PrAppended ==
    ASSUME NEW s \in Seq(PrRecords), NEW pr \in PrRecords, NEW new, new = Append(s, pr)
    PROVE  /\ new \in Seq(PrRecords) /\ Len(new) = Len(s) + 1 /\ new[Len(new)] = pr
           /\ DOMAIN new = 1 .. Len(s) + 1
           /\ \A i \in DOMAIN s : i \in DOMAIN new /\ new[i] = s[i]
  OBVIOUS

\* Creating a pull request keeps the types.
LEMMA CreatePrType ==
    ASSUME TypeInv, create_customer_pr
    PROVE  TypeInv'
<1>1. op.at = "call" /\ op.r.kind = "create_customer_pr"
      /\ UNCHANGED <<policy, ledger, intRef, snapRef, edits, pass>>
  BY DEF create_customer_pr, Calls
<1>2. PICK b \in Batches : b = op.b /\ b \in 1 .. last
  BY <1>1, OpFacts
<1>3. \E result \in Results \ {"none"} : Answered(result)
  BY DEF create_customer_pr, Shown, Results
<1>4. op' \in Ops /\ op'.at = "finish" /\ op'.b = b /\ op'.r = op.r /\ op'.got # "none"
  BY <1>1, <1>2, <1>3, AnsweredFacts
<1>5. PassOK'
  BY <1>1, PassKept
<1>6. /\ prs \in Seq(PrRecords) /\ snapRef \in [Batches -> Refs] /\ intRef \in Refs
      /\ edits \in 0 .. MaxEdits /\ Len(prs) <= MaxPrs[policy] /\ policy \in AllPolicies
      /\ MaxPrs[policy] \in Nat
  BY DeliveryAssumption DEF TypeInv, TypeOK
<1>7. CASE /\ Len(prs) < MaxPrs[policy]
           /\ prs' = Append(prs, [of |-> op.b, sha |-> snapRef[op.b],
                                  manifest |-> op.r.for, status |-> "active"])
  <2> DEFINE pr == [of |-> op.b, sha |-> snapRef[op.b],
                    manifest |-> op.r.for, status |-> "active"]
  <2>1. snapRef[b] \in Commits
    <3>1. batches[b].snap # None
      BY <1>1, <1>2 DEF TypeInv, OpInv, Doing, Mutating
    <3> QED BY <1>1, <1>2, <1>6, <3>1, OpFacts DEF Sound, Refs
  <2>2. pr \in PrRecords /\ pr.of = b
    BY <1>1, <1>2, <2>1, OpFacts DEF PrRecords, PrStatuses, Reservations
  <2>3. prs' = Append(prs, pr)
    BY <1>7
  <2> HIDE DEF pr
  <2>4. /\ prs' \in Seq(PrRecords) /\ Len(prs') = Len(prs) + 1 /\ prs'[Len(prs')] = pr
        /\ \A i \in DOMAIN prs : i \in DOMAIN prs' /\ prs'[i] = prs[i]
    BY <1>6, <2>2, <2>3, PrAppended
  <2>5. Len(prs) \in Nat
    BY <1>6
  <2>6. Len(prs') > 0 /\ Len(prs') <= MaxPrs[policy]
    BY <1>6, <1>7, <2>4, <2>5
  <2>7. OpInv'
    BY <1>1, <1>2, <1>4, <2>2, <2>4, <2>6, AnsweredOp DEF ledger
  <2> QED BY <1>1, <1>4, <1>5, <1>6, <2>4, <2>6, <2>7, RemoteStep
<1>8. CASE Answered("unknown") /\ UNCHANGED prs
  <2>1. op'.got # "confirmed"
    BY <1>8, <1>1, AnsweredFacts DEF Results
  <2>2. OpInv'
    BY <1>1, <1>2, <1>4, <2>1, AnsweredOp DEF ledger
  <2> QED BY <1>1, <1>4, <1>5, <1>8, <2>2, QuietStep DEF remote
<1> QED BY <1>7, <1>8 DEF create_customer_pr

\* Updating a pull request keeps the types.
LEMMA UpdatePrType ==
    ASSUME TypeInv, update_customer_pr
    PROVE  TypeInv'
<1>1. op.at = "call" /\ op.r.kind = "update_customer_pr"
      /\ UNCHANGED <<policy, ledger, intRef, snapRef, edits, pass>>
  BY DEF update_customer_pr, Calls
<1>2. PICK b \in Batches : b = op.b /\ b \in 1 .. last
  BY <1>1, OpFacts
<1>3. \E result \in Results \ {"none"} : Answered(result)
  BY DEF update_customer_pr, Shown, Results
<1>4. op' \in Ops /\ op'.at = "finish" /\ op'.b = b /\ op'.r = op.r /\ op'.got # "none"
  BY <1>1, <1>2, <1>3, AnsweredFacts
<1>5. PassOK'
  BY <1>1, PassKept
<1>6. /\ prs \in Seq(PrRecords) /\ snapRef \in [Batches -> Refs] /\ intRef \in Refs
      /\ edits \in 0 .. MaxEdits /\ Len(prs) <= MaxPrs[policy]
  BY DEF TypeInv, TypeOK
<1>7. OpInv'
  BY <1>1, <1>2, <1>4, AnsweredOp DEF ledger
<1>8. CASE prs' = [prs EXCEPT ![batches[op.b].pr].manifest = op.r.for]
  <2>1. op.r.for \subseteq Tickets
    BY <1>1, OpFacts DEF Reservations
  <2>2. \A i \in DOMAIN prs : prs[i] \in PrRecords
    BY <1>6
  <2>3. prs' \in [DOMAIN prs -> PrRecords] /\ \A i \in DOMAIN prs : prs'[i].of = prs[i].of
    BY <1>8, <2>1, <2>2 DEF PrRecords
  <2>4. prs' \in Seq(PrRecords) /\ Len(prs') = Len(prs) /\ DOMAIN prs' = DOMAIN prs
    BY <1>6, <2>3, PrsRewritten
  <2> QED BY <1>1, <1>4, <1>5, <1>6, <1>7, <2>3, <2>4, RemoteStep
<1>9. CASE UNCHANGED prs
  BY <1>1, <1>4, <1>5, <1>7, <1>9, QuietStep DEF remote
<1> QED BY <1>8, <1>9 DEF update_customer_pr

\* The customer's answer keeps the types.
LEMMA CustomerType ==
    ASSUME TypeInv, NEW i \in DOMAIN prs, CustomerAnswers(i)
    PROVE  TypeInv'
<1>1. UNCHANGED <<policy, ledger, intRef, snapRef, edits, pass>>
  BY DEF CustomerAnswers
<1>2. /\ prs \in Seq(PrRecords) /\ snapRef \in [Batches -> Refs] /\ intRef \in Refs
      /\ edits \in 0 .. MaxEdits /\ Len(prs) <= MaxPrs[policy] /\ op \in Ops
  BY DEF TypeInv, TypeOK, Ops
<1>3. PICK status \in {"completed", "abandoned"} :
         /\ prs' = [prs EXCEPT ![i].status = status]
         /\ op' = [op EXCEPT !.moved = @ \/ (Validated /\ status = "completed")]
  BY DEF CustomerAnswers
<1>4. op' \in Ops /\ op'.at = op.at /\ op'.b = op.b /\ op'.r = op.r /\ op'.got = op.got
  <2>1. PICK m : m = (op.moved \/ (Validated /\ status = "completed"))
    OBVIOUS
  <2>2. m \in BOOLEAN
    BY <2>1, Zenon
  <2>3. op' = [op EXCEPT !.moved = m]
    BY <1>3, <2>1, Zenon
  <2> QED BY <1>2, <2>2, <2>3 DEF Ops
<1>5. \A j \in DOMAIN prs : prs[j] \in PrRecords
  BY <1>2
<1>6. prs' \in [DOMAIN prs -> PrRecords] /\ \A j \in DOMAIN prs : prs'[j].of = prs[j].of
  BY <1>3, <1>5 DEF PrRecords, PrStatuses
<1>7. prs' \in Seq(PrRecords) /\ Len(prs') = Len(prs) /\ DOMAIN prs' = DOMAIN prs
  BY <1>2, <1>6, PrsRewritten
<1>8. OpInv'
  BY <1>1, <1>4, <1>6, <1>7, OpStays
<1>9. PassOK'
  BY <1>1, PassKept
<1> QED BY <1>1, <1>2, <1>4, <1>6, <1>7, <1>8, <1>9, RemoteStep

\* A target branch that moves keeps the types.
LEMMA TargetMovesType ==
    ASSUME TypeInv, TargetMoves
    PROVE  TypeInv'
<1>1. op' \in Ops /\ op'.at = op.at /\ op'.b = op.b /\ op'.r = op.r /\ op'.got = op.got
  BY DEF TargetMoves, TypeInv, TypeOK, Ops
<1>2. OpInv'
  BY <1>1, OpStays DEF TargetMoves, remote
<1>3. PassOK'
  BY PassKept DEF TargetMoves
<1> QED BY <1>1, <1>2, <1>3, QuietStep DEF TargetMoves

\* A commit of somebody else has the work of the one below it.
LEMMA EditedCommit ==
    ASSUME NEW c \in Commits, edits \in 0 .. MaxEdits, edits < MaxEdits
    PROVE  /\ Edited(c) \in Commits /\ Edited(c).tickets = c.tickets
           /\ Edited(c).edits = c.edits \cup {edits + 1}
  BY DeliveryAssumption DEF Edited, Commits

\* Somebody else's push keeps the types.
LEMMA ExternalEditType ==
    ASSUME TypeInv, ExternalEdit
    PROVE  TypeInv'
<1>1. UNCHANGED <<policy, ledger, op, pass>> /\ edits < MaxEdits /\ edits' = edits + 1
  BY DEF ExternalEdit
<1>2. /\ prs \in Seq(PrRecords) /\ snapRef \in [Batches -> Refs] /\ intRef \in Refs
      /\ edits \in 0 .. MaxEdits /\ Len(prs) <= MaxPrs[policy] /\ op \in Ops
  BY DEF TypeInv, TypeOK, Ops
<1>3. PassOK' /\ edits' \in 0 .. MaxEdits /\ op' \in Ops
  BY <1>1, <1>2, PassKept, DeliveryAssumption
<1>4. CASE intRef' = Edited(IF intRef = None THEN Base ELSE intRef) /\ UNCHANGED <<snapRef, prs>>
  <2>1. intRef' \in Refs
    BY <1>1, <1>2, <1>4, EditedCommit, BaseIsCommit DEF Refs
  <2>2. intRef' # None
    BY <1>1, <1>2, <1>4, EditedCommit, BaseIsCommit, NoneAssumption DEF Refs
  <2>3. OpInv'
    BY <1>1, <1>2, <1>4, <2>2, OpStays
  <2> QED BY <1>1, <1>2, <1>3, <1>4, <2>1, <2>3, RemoteStep
<1>5. ASSUME NEW b \in Batches, snapRef[b] # None,
             snapRef' = [snapRef EXCEPT ![b] = Edited(@)],
             prs' = Follow(b, Edited(snapRef[b])), UNCHANGED intRef
      PROVE  TypeInv'
  <2>1. PICK sha \in Commits : sha = Edited(snapRef[b])
    BY <1>1, <1>2, <1>5, EditedCommit DEF Refs
  <2>2. /\ prs' \in Seq(PrRecords) /\ Len(prs') = Len(prs) /\ DOMAIN prs' = DOMAIN prs
        /\ \A i \in DOMAIN prs : prs'[i].of = prs[i].of
    BY <1>2, <1>5, <2>1, FollowFacts
  <2>3. /\ snapRef' \in [Batches -> Refs] /\ snapRef'[b] = sha
        /\ \A c \in Batches : c # b => snapRef'[c] = snapRef[c]
    BY <1>2, <1>5, <2>1 DEF Refs
  <2>4. sha # None
    BY <2>1, NoneAssumption
  <2>5. OpInv'
    BY <1>1, <1>2, <1>5, <2>2, <2>3, <2>4, OpStays
  <2>6. ~(b > last)
    BY <1>5 DEF TypeInv, BatchInv, BatchOK
  <2> QED BY <1>1, <1>2, <1>3, <1>5, <2>2, <2>3, <2>4, <2>5, <2>6, RemoteStep
<1> QED BY <1>4, <1>5 DEF ExternalEdit

-----------------------------------------------------------------------------
(* A release. *)

\* The beginning of a release keeps the types.
LEMMA ReleaseType ==
    ASSUME TypeInv, NEW b \in Batches, Release(b)
    PROVE  TypeInv'
<1>1. noted' = noted \ {b} /\ releasing' = (noted' # {}) /\ UNCHANGED <<policy, remote>>
      /\ op = Idle
  BY DEF Release
<1>2. PassOK'
  <2>1. releasing' \in BOOLEAN
    BY <1>1, Zenon
  <2>2. releasing' => noted' # {}
    BY <1>1, Zenon
  <2>3. noted' \subseteq Batches
    BY <1>1 DEF TypeInv, TypeOK, Batches
  <2> QED BY <2>1, <2>2, <2>3 DEF PassOK, Batches
<1>3. CASE Releasable(b) /\ Due(b)
  <2>1. /\ Save(b, [batches[b] EXCEPT !.cohort = MembersOf(b)])
        /\ op' = At("validate", b, NoReservation) /\ UNCHANGED <<last, index>>
    BY <1>3 DEF Release
  <2>2. batches[b] \in BatchRecords /\ Sound(b, batches[b])
    BY DEF TypeInv, TypeOK, BatchInv, BatchOK
  <2>3. b \in 1 .. last
    <3>1. batches[b].state # "absent"
      BY <1>3 DEF Releasable
    <3>2. NewBatch("absent", Base).state = "absent"
      BY DEF NewBatch
    <3>3. ~(b > last)
      BY <3>1, <3>2 DEF TypeInv, BatchInv, BatchOK
    <3> QED BY <3>3, DeliveryAssumption DEF TypeInv, TypeOK, Batches
  <2>4. PICK new : new = [batches[b] EXCEPT !.cohort = MembersOf(b)]
    OBVIOUS
  <2>5. /\ new \in BatchRecords /\ new.state = batches[b].state
        /\ new.members = batches[b].members /\ new.snap = batches[b].snap
        /\ new.pending = batches[b].pending /\ new.done = batches[b].done
        /\ new.pr = batches[b].pr
    BY <2>2, <2>4 DEF BatchRecords, MembersOf
  <2>6. Sound(b, new)
    BY <2>2, <2>5 DEF Sound
  <2>7. op' \in Ops /\ op'.at = "validate" /\ op'.b = b
    BY <2>1, AtFacts, NoReservationTyped, DeliveryAssumption DEF Steps, Batches
  <2>8. OpInv'
    BY <2>1, <2>3, <2>7 DEF OpInv, Doing, Deriving, Confirmed, Mutating, Answering
  <2> QED BY <1>1, <1>2, <2>1, <2>3, <2>4, <2>5, <2>6, <2>7, <2>8, SaveStep
<1>4. CASE ~(Releasable(b) /\ Due(b))
  <2>1. UNCHANGED <<policy, ledger, remote>> /\ op' = Idle
    BY <1>1, <1>4 DEF Release
  <2> QED BY <1>2, <2>1, IdleOp, QuietStep
<1> QED BY <1>3, <1>4

\* Validating the members of a release keeps the types.
LEMMA ValidateType ==
    ASSUME TypeInv, Validate
    PROVE  TypeInv'
<1>1. op.at = "validate" /\ UNCHANGED <<policy, last, index, remote>> /\ PassOK'
  BY PassKept DEF Validate
<1>2. CASE op' = [op EXCEPT !.at = "snapshot"] /\ UNCHANGED batches
  <2>1. op' \in Ops /\ op'.at = "snapshot" /\ op'.b = op.b
    BY <1>1, <1>2, OpFacts DEF Ops, Steps
  <2>2. OpInv'
    BY <1>1, <2>1, OpFacts DEF OpInv, Doing, Deriving, Confirmed, Mutating, Answering
  <2> QED BY <1>1, <1>2, <2>1, <2>2, QuietStep DEF ledger
<1>3. CASE SetState(op.b, "blocked_validation") /\ op' = Idle
  BY <1>1, <1>3, OpFacts, BlockStep DEF States
<1> QED BY <1>2, <1>3 DEF Validate

\* The snapshot of a batch is recorded.
Snapped(batch, snap, f) == [batch EXCEPT !.snap = snap, !.frozen = f]

\* Recording a snapshot changes neither members, head nor reservations.
LEMMA SnapFacts ==
    ASSUME NEW b \in Batches, NEW batch \in BatchRecords, NEW snap \in Refs,
           NEW f \in BOOLEAN, NEW new, new = Snapped(batch, snap, f)
    PROVE  /\ new \in BatchRecords /\ new.snap = snap /\ new.frozen = f
           /\ new.head = batch.head /\ new.members = batch.members
           /\ new.pending = batch.pending /\ new.done = batch.done
           /\ new.cohort = batch.cohort
           /\ new.state = batch.state /\ new.pr = batch.pr
           /\ Sound(b, batch) /\ snapRef[b] # None => Sound(b, new)
<1>1. /\ new \in BatchRecords /\ new.snap = snap /\ new.frozen = f
      /\ new.head = batch.head /\ new.members = batch.members
      /\ new.pending = batch.pending /\ new.done = batch.done
      /\ new.cohort = batch.cohort
      /\ new.state = batch.state /\ new.pr = batch.pr
  BY DEF Snapped, BatchRecords
<1>2. Sound(b, batch) /\ snapRef[b] # None => Sound(b, new)
  BY <1>1 DEF Sound
<1> QED BY <1>1, <1>2

\* The step that decides on the snapshot push keeps the types.
LEMMA SnapshotType ==
    ASSUME TypeInv, Snapshot
    PROVE  TypeInv'
<1>1. op.at = "snapshot" /\ UNCHANGED <<policy, last, index, remote>> /\ PassOK'
  BY PassKept DEF Snapshot
<1>2. PICK b \in Batches : b = op.b /\ b \in 1 .. last
  BY <1>1, OpFacts
<1>3. /\ op \in Ops /\ batches[b] \in BatchRecords /\ Sound(b, batches[b])
      /\ snapRef[b] \in Refs /\ batches[b].head \in Commits
  BY <1>1, <1>2, OpFacts DEF TypeInv, TypeOK, BatchRecords
<1>4. batches[b].head # None
  BY <1>3, NoneAssumption
<1>5. CASE SetState(b, "blocked_external_edit") /\ op' = Idle
  BY <1>1, <1>2, <1>5, BlockStep DEF States
<1>6. CASE op' = [op EXCEPT !.at = "publish"] /\ UNCHANGED batches
           /\ snapRef[b] = batches[b].snap /\ batches[b].head = batches[b].snap
  <2>1. op' \in Ops /\ op'.at = "publish" /\ op'.b = b
    BY <1>2, <1>3, <1>6 DEF Ops, Steps
  <2>2. OpInv'
    BY <1>1, <1>2, <1>4, <1>6, <2>1
       DEF OpInv, Doing, Deriving, Confirmed, Mutating, Answering
  <2> QED BY <1>1, <1>6, <2>1, <2>2, QuietStep DEF ledger
<1>7. CASE /\ snapRef[b] = batches[b].head
           /\ Save(b, [batches[b] EXCEPT !.snap = snapRef[b], !.frozen = Strategy = "frozen"])
           /\ op' = [op EXCEPT !.at = "publish"]
  <2>1. PICK f : f = (Strategy = "frozen")
    OBVIOUS
  <2>2. f \in BOOLEAN
    BY <2>1, Zenon
  <2>3. PICK new : new = Snapped(batches[b], snapRef[b], f)
    OBVIOUS
  <2>4. Save(b, new)
    BY <1>7, <2>1, <2>3, Zenon DEF Snapped
  <2>5. new \in BatchRecords /\ Sound(b, new) /\ new.snap = snapRef[b]
    BY <1>3, <1>4, <1>7, <2>2, <2>3, SnapFacts
  <2>6. op' \in Ops /\ op'.at = "publish" /\ op'.b = b
    BY <1>2, <1>3, <1>7 DEF Ops, Steps
  <2>7. batches'[b] = new
    BY <2>4, <2>5, SaveFacts DEF TypeInv, TypeOK
  <2>8. OpInv'
    BY <1>1, <1>2, <1>4, <1>7, <2>5, <2>6, <2>7
       DEF OpInv, Doing, Deriving, Confirmed, Mutating, Answering
  <2> QED BY <1>1, <1>2, <2>4, <2>5, <2>6, <2>8, SaveStep
<1>8. CASE /\ op' = [op EXCEPT !.at = "reserve",
                        !.r = [kind |-> "snapshot_ref", for |-> {},
                               sha |-> batches[b].head, old |-> snapRef[b]]]
           /\ UNCHANGED batches
  <2> DEFINE r == [kind |-> "snapshot_ref", for |-> {},
                   sha |-> batches[b].head, old |-> snapRef[b]]
  <2>1. r \in Reservations /\ r.kind = "snapshot_ref"
    BY <1>3 DEF Reservations, Kinds
  <2> HIDE DEF r
  <2>2. op' \in Ops /\ op'.at = "reserve" /\ op'.b = b /\ op'.r = r
    <3>1. op' = [op EXCEPT !.at = "reserve", !.r = r]
      BY <1>8 DEF r
    <3> QED BY <1>2, <1>3, <2>1, <3>1 DEF Ops, Steps
  <2>3. OpInv'
    BY <1>1, <1>2, <2>1, <2>2
       DEF OpInv, Doing, Deriving, Confirmed, Mutating, Answering
  <2> QED BY <1>1, <1>8, <2>2, <2>3, QuietStep DEF ledger
<1> QED BY <1>2, <1>5, <1>6, <1>7, <1>8 DEF Snapshot

\* Acting on the outcome of a snapshot push keeps the types.
LEMMA SettleSnapshotType ==
    ASSUME TypeInv, SettleSnapshot
    PROVE  TypeInv'
<1>1. op.at = "settle" /\ op.r.kind = "snapshot_ref"
      /\ UNCHANGED <<policy, last, index, remote>> /\ PassOK'
  BY PassKept DEF SettleSnapshot
<1>2. PICK b \in Batches : b = op.b /\ b \in 1 .. last
  BY <1>1, OpFacts
<1>3. /\ op \in Ops /\ batches[b] \in BatchRecords /\ Sound(b, batches[b])
      /\ batches[b].head \in Refs /\ batches[b].head # None
  BY <1>1, <1>2, OpFacts, NoneAssumption DEF BatchRecords, Refs
<1>4. CASE op.got = "confirmed"
  <2>1. PICK f : f = (Strategy = "frozen")
    OBVIOUS
  <2>2. f \in BOOLEAN
    BY <2>1, Zenon
  <2>3. PICK new : new = Snapped(batches[b], batches[b].head, f)
    OBVIOUS
  <2>4. Save(b, [batches[b] EXCEPT !.snap = batches[b].head, !.frozen = Strategy = "frozen"])
        /\ op' = [op EXCEPT !.at = "publish", !.r = NoReservation, !.got = "none"]
    BY <1>2, <1>4 DEF SettleSnapshot
  <2>5. Save(b, new)
    BY <2>1, <2>3, <2>4, Zenon DEF Snapped
  <2>6. snapRef[b] # None
    BY <1>1, <1>2, <1>4 DEF TypeInv, OpInv, Confirmed, Answering
  <2>7. new \in BatchRecords /\ Sound(b, new) /\ new.snap = batches[b].head
    BY <1>3, <2>2, <2>3, <2>6, SnapFacts
  <2>8. op' \in Ops /\ op'.at = "publish" /\ op'.b = b
    BY <1>2, <1>3, <2>4, NoReservationTyped DEF Ops, Steps, Results
  <2>9. batches'[b] = new
    BY <2>5, <2>7, SaveFacts DEF TypeInv, TypeOK
  <2>10. OpInv'
    BY <1>1, <1>2, <1>3, <2>7, <2>8, <2>9
       DEF OpInv, Doing, Deriving, Confirmed, Mutating, Answering
  <2> QED BY <1>1, <1>2, <2>5, <2>7, <2>8, <2>10, SaveStep
<1>5. CASE op.got # "confirmed"
  <2>1. SetState(b, "blocked_unknown") /\ op' = Idle
    BY <1>2, <1>5 DEF SettleSnapshot
  <2> QED BY <1>1, <1>2, <2>1, BlockStep DEF States
<1> QED BY <1>4, <1>5

\* The members of a batch are in delivery.
Out(batch, s, pr) == [batch EXCEPT !.state = s, !.pr = pr, !.members = Delivered(batch.members)]

\* Recording that a batch was delivered makes or drops no member.
LEMMA OutFacts ==
    ASSUME NEW b \in Batches, NEW batch \in BatchRecords, NEW s \in States, NEW pr \in Nat,
           NEW new, new = Out(batch, s, pr)
    PROVE  /\ new \in BatchRecords /\ new.state = s /\ new.pr = pr
           /\ new.head = batch.head /\ new.snap = batch.snap
           /\ new.pending = batch.pending /\ new.done = batch.done
           /\ new.cohort = batch.cohort
           /\ \A t \in Tickets : new.members[t] = "none" <=> batch.members[t] = "none"
           /\ \A t \in Tickets : new.members[t] \in {"integrated", "in_delivery"}
                                  <=> batch.members[t] \in {"integrated", "in_delivery"}
           /\ Sound(b, batch) /\ (pr = batch.pr \/ (pr # NoPr /\ pr \in DOMAIN prs /\ prs[pr].of = b))
                /\ (s = "delivery_open" => pr # NoPr)
                => Sound(b, new)
<1>1. PICK members \in [Tickets -> Statuses] :
         /\ members = Delivered(batch.members)
         /\ \A t \in Tickets : members[t] = "none" <=> batch.members[t] = "none"
         /\ \A t \in Tickets : members[t] \in {"integrated", "in_delivery"}
                                  <=> batch.members[t] \in {"integrated", "in_delivery"}
  <2>1. batch.members \in [Tickets -> Statuses]
    BY DEF BatchRecords
  <2> QED BY <2>1, DeliveredFacts
<1>2. new = [batch EXCEPT !.state = s, !.pr = pr, !.members = members]
  BY <1>1 DEF Out
<1>3. /\ new \in BatchRecords /\ new.state = s /\ new.pr = pr /\ new.members = members
      /\ new.head = batch.head /\ new.snap = batch.snap
      /\ new.pending = batch.pending /\ new.done = batch.done
      /\ new.cohort = batch.cohort
  BY <1>2 DEF BatchRecords
<1>4. ASSUME Sound(b, batch), s = "delivery_open" => pr # NoPr,
             pr = batch.pr \/ (pr # NoPr /\ pr \in DOMAIN prs /\ prs[pr].of = b)
      PROVE  Sound(b, new)
  BY <1>1, <1>3, <1>4 DEF Sound
<1> QED BY <1>1, <1>3, <1>4

\* The step that decides on the pull request keeps the types.
LEMMA PublishType ==
    ASSUME TypeInv, Publish
    PROVE  TypeInv'
<1>1. op.at = "publish" /\ UNCHANGED <<policy, last, index, remote>> /\ PassOK'
  BY PassKept DEF Publish
<1>2. PICK b \in Batches : b = op.b /\ b \in 1 .. last
  BY <1>1, OpFacts
<1>3. /\ op \in Ops /\ batches[b] \in BatchRecords /\ Sound(b, batches[b])
      /\ batches[b].snap \in Commits /\ batches[b].pr \in Nat
  BY <1>1, <1>2, OpFacts DEF TypeInv, OpInv, BatchRecords, Refs
<1>4. ASSUME NEW s \in States \ {"delivery_open"}, SetState(b, s), op' = Idle
      PROVE  TypeInv'
  BY <1>1, <1>2, <1>4, BlockStep
<1>5. CASE /\ Save(b, [batches[b] EXCEPT !.state = "in_delivery", !.members = Delivered(@)])
           /\ op' = Idle
  <2>1. PICK new : new = Out(batches[b], "in_delivery", batches[b].pr)
    OBVIOUS
  <2>2. Save(b, new)
    BY <1>3, <1>5, <2>1 DEF Out, BatchRecords
  <2>3. "in_delivery" \in States
    BY DEF States
  <2>4. new \in BatchRecords /\ Sound(b, new)
    BY <1>3, <2>1, <2>3, OutFacts
  <2> QED BY <1>1, <1>2, <1>5, <2>2, <2>4, IdleOp, SaveStep
<1>6. ASSUME NEW i \in Exact(b), Save(b, InDelivery(batches[b], i)), op' = Idle
      PROVE  TypeInv'
  <2>1. i \in DOMAIN prs /\ prs[i].of = b /\ i \in Nat /\ i # NoPr
    BY <1>6 DEF Exact, ActivePrs, TypeInv, TypeOK, NoPr
  <2>2. PICK new : new = Out(batches[b], "delivery_open", i)
    OBVIOUS
  <2>3. Save(b, new)
    BY <1>6, <2>2, Zenon DEF Out, InDelivery
  <2>4. new \in BatchRecords /\ Sound(b, new)
    BY <1>3, <2>1, <2>2, OutFacts DEF States
  <2> QED BY <1>1, <1>2, <1>6, <2>3, <2>4, IdleOp, SaveStep
<1>7. ASSUME NEW kind \in {"create_customer_pr", "update_customer_pr"},
             kind = "update_customer_pr" => batches[b].state = "delivery_open",
             op' = At("reserve", b, PrReservation(kind, b)), UNCHANGED batches
      PROVE  TypeInv'
  <2>1. PICK r : r = PrReservation(kind, b)
    OBVIOUS
  <2>2. r \in Reservations /\ r.kind = kind
    BY <1>3, <2>1 DEF PrReservation, Reservations, Kinds, Refs, MembersOf
  <2>3. op' \in Ops /\ op'.at = "reserve" /\ op'.b = b /\ op'.r = r
    BY <1>2, <1>7, <2>1, <2>2, AtFacts, DeliveryAssumption DEF Steps, Batches
  <2>4. kind = "update_customer_pr" => batches[b].pr # NoPr
    BY <1>3, <1>7 DEF Sound
  <2>5. OpInv'
    BY <1>1, <1>2, <1>3, <1>7, <2>2, <2>3, <2>4, NoneAssumption
       DEF OpInv, Doing, Deriving, Confirmed, Mutating, Answering
  <2> QED BY <1>1, <1>7, <2>3, <2>5, QuietStep DEF ledger
<1>8. CASE /\ SetState(b, IF \A i \in ActivePrs : batches[prs[i].of].state = "delivery_open"
                            THEN "waiting_customer_slot" ELSE "blocked_existing_pr")
           /\ op' = Idle
  <2>1. CASE \A i \in ActivePrs : batches[prs[i].of].state = "delivery_open"
    BY <1>4, <1>8, <2>1 DEF States
  <2>2. CASE ~\A i \in ActivePrs : batches[prs[i].of].state = "delivery_open"
    BY <1>4, <1>8, <2>2 DEF States
  <2> QED BY <2>1, <2>2
<1>9. CASE SetState(b, "blocked_validation") /\ op' = Idle
  BY <1>4, <1>9 DEF States
<1>10. CASE policy = "branch_only"
  BY <1>2, <1>5, <1>10 DEF Publish
<1>11. CASE policy # "branch_only" /\ batches[b].state = "delivery_open"
  BY <1>2, <1>7, <1>11 DEF Publish
<1>12. CASE policy # "branch_only" /\ batches[b].state # "delivery_open"
  <2>1. CASE op.moved
    BY <1>2, <1>9, <1>12, <2>1 DEF Publish
  <2>2. CASE ~op.moved /\ (Cardinality(ActivePrs) > 1 \/ (ActivePrs # {} /\ Exact(b) = {}))
    BY <1>2, <1>8, <1>12, <2>2 DEF Publish
  <2>3. CASE /\ ~op.moved /\ ~(Cardinality(ActivePrs) > 1 \/ (ActivePrs # {} /\ Exact(b) = {}))
             /\ Exact(b) # {}
    <3>1. Save(b, InDelivery(batches[b], CHOOSE i \in Exact(b) : TRUE)) /\ op' = Idle
      BY <1>2, <1>12, <2>3 DEF Publish
    <3>2. (CHOOSE i \in Exact(b) : TRUE) \in Exact(b)
      BY <2>3
    <3> QED BY <1>6, <3>1, <3>2
  <2>4. CASE /\ ~op.moved /\ ~(Cardinality(ActivePrs) > 1 \/ (ActivePrs # {} /\ Exact(b) = {}))
             /\ Exact(b) = {}
    BY <1>2, <1>7, <1>12, <2>4 DEF Publish
  <2> QED BY <2>1, <2>2, <2>3, <2>4
<1> QED BY <1>10, <1>11, <1>12

\* Acting on the outcome of a created pull request keeps the types.
LEMMA SettleCreateType ==
    ASSUME TypeInv, SettleCreate
    PROVE  TypeInv'
<1>1. op.at = "settle" /\ op.r.kind = "create_customer_pr" /\ op' = Idle
      /\ UNCHANGED <<policy, last, index, remote>> /\ PassOK'
  BY PassKept DEF SettleCreate
<1>2. PICK b \in Batches : b = op.b /\ b \in 1 .. last
  BY <1>1, OpFacts
<1>3. batches[b] \in BatchRecords /\ Sound(b, batches[b])
  BY <1>1, <1>2, OpFacts
<1>4. CASE op.got = "confirmed" /\ Save(b, InDelivery(batches[b], Len(prs)))
  <2>1. Len(prs) > 0 /\ prs[Len(prs)].of = b
    BY <1>1, <1>2, <1>4 DEF TypeInv, OpInv, Confirmed, Answering
  <2>2. Len(prs) \in Nat /\ Len(prs) \in DOMAIN prs /\ Len(prs) # NoPr
    BY <2>1 DEF TypeInv, TypeOK, NoPr
  <2>3. PICK new : new = Out(batches[b], "delivery_open", Len(prs))
    OBVIOUS
  <2>4. Save(b, new)
    BY <1>4, <2>3, Zenon DEF Out, InDelivery
  <2>5. PICK n \in Nat : n = Len(prs)
    BY <2>2
  <2>6. "delivery_open" \in States /\ n # NoPr /\ n \in DOMAIN prs /\ prs[n].of = b
        /\ new = Out(batches[b], "delivery_open", n)
    BY <2>1, <2>2, <2>3, <2>5 DEF States
  <2>7. new \in BatchRecords /\ Sound(b, new)
    BY <1>3, <2>6, OutFacts
  <2> QED BY <1>1, <1>2, <2>4, <2>7, IdleOp, SaveStep
<1>5. CASE SetState(b, "blocked_existing_pr")
  BY <1>1, <1>2, <1>5, BlockStep DEF States
<1>6. CASE SetState(b, "blocked_unknown")
  BY <1>1, <1>2, <1>6, BlockStep DEF States
<1> QED BY <1>2, <1>4, <1>5, <1>6 DEF SettleCreate

\* Acting on the outcome of an updated pull request keeps the types.
LEMMA SettleUpdateType ==
    ASSUME TypeInv, SettleUpdate
    PROVE  TypeInv'
<1>1. op.at = "settle" /\ op.r.kind = "update_customer_pr" /\ op' = Idle
      /\ UNCHANGED <<policy, last, index, remote>> /\ PassOK'
  BY PassKept DEF SettleUpdate
<1>2. PICK b \in Batches : b = op.b /\ b \in 1 .. last
  BY <1>1, OpFacts
<1>3. batches[b] \in BatchRecords /\ Sound(b, batches[b])
  BY <1>1, <1>2, OpFacts
<1>4. CASE Save(b, [batches[b] EXCEPT !.members = Delivered(@)])
  <2>1. PICK new : new = Out(batches[b], batches[b].state, batches[b].pr)
    OBVIOUS
  <2>2. Save(b, new)
    BY <1>3, <1>4, <2>1 DEF Out, BatchRecords
  <2>3. batches[b].state \in States /\ batches[b].pr \in Nat
        /\ (batches[b].state = "delivery_open" => batches[b].pr # NoPr)
    BY <1>3 DEF BatchRecords, Sound
  <2>4. new \in BatchRecords /\ Sound(b, new)
    BY <1>3, <2>1, <2>3, OutFacts
  <2> QED BY <1>1, <1>2, <2>2, <2>4, IdleOp, SaveStep
<1>5. CASE SetState(b, "blocked_unknown")
  BY <1>1, <1>2, <1>5, BlockStep DEF States
<1> QED BY <1>2, <1>4, <1>5 DEF SettleUpdate

-----------------------------------------------------------------------------
(* Reading back. *)

\* The beginning of reconcile_unknown keeps the types.
LEMMA ReconcileType ==
    ASSUME TypeInv, NEW b \in Batches, reconcile_unknown(b)
    PROVE  TypeInv'
<1>1. UNCHANGED <<policy, ledger, remote, pass>> /\ op' = At("reconcile", b, NoReservation)
      /\ batches[b].pending # {}
  BY DEF reconcile_unknown
<1>2. b \in 1 .. last
  <2>1. NewBatch("absent", Base).pending = {}
    BY DEF NewBatch
  <2>2. ~(b > last)
    BY <1>1, <2>1 DEF TypeInv, BatchInv, BatchOK
  <2> QED BY <2>2, DeliveryAssumption DEF TypeInv, TypeOK, Batches
<1>3. op' \in Ops /\ op'.at = "reconcile" /\ op'.b = b
  BY <1>1, AtFacts, NoReservationTyped, DeliveryAssumption DEF Steps, Batches
<1>4. OpInv'
  BY <1>1, <1>2, <1>3 DEF OpInv, Doing, Deriving, Confirmed, Mutating, Answering, ledger
<1>5. PassOK'
  BY <1>1, PassKept
<1> QED BY <1>1, <1>3, <1>4, <1>5, QuietStep

\* A reservation that landed has something to show.
LEMMA LandedFacts ==
    ASSUME TypeInv, NEW b \in Batches, NEW r \in Reservations, Landed(b, r)
    PROVE  /\ r.kind = "integrate_member" => intRef \in Commits /\ r.for \subseteq intRef.tickets
           /\ r.kind = "snapshot_ref" => snapRef[b] = r.sha
           /\ r.kind = "create_customer_pr" => PrsOf(b) # {}
<1>1. CASE r.kind = "integrate_member"
  <2>1. intRef # None /\ r.for \subseteq intRef.tickets
    BY <1>1 DEF Landed
  <2> QED BY <1>1, <2>1 DEF TypeInv, TypeOK, Refs
<1>2. CASE r.kind = "snapshot_ref"
  BY <1>2 DEF Landed
<1>3. CASE r.kind = "create_customer_pr"
  <2> DEFINE S == {i \in ActivePrs : prs[i].of = b /\ prs[i].sha = r.sha}
  <2>1. Cardinality(S) = 1
    BY <1>3 DEF Landed
  <2>2. S # {}
    <3> HIDE DEF S
    <3> QED BY <2>1, FS_EmptySet
  <2> QED BY <1>3, <2>2 DEF PrsOf, ActivePrs
<1> QED BY <1>1, <1>2, <1>3

\* Reading an unknown outcome back keeps the types.
LEMMA ReadBackType ==
    ASSUME TypeInv, ReadBack
    PROVE  TypeInv'
<1>1. op.at = "reconcile" /\ UNCHANGED <<policy, last, index, remote>> /\ PassOK'
  BY PassKept DEF ReadBack
<1>2. PICK b \in Batches : b = op.b /\ b \in 1 .. last
  BY <1>1, OpFacts
<1>3. batches[b] \in BatchRecords /\ Sound(b, batches[b])
  BY <1>1, <1>2, OpFacts
<1>4. PICK r \in batches[b].pending :
         IF Landed(b, r)
           THEN /\ Save(b, Finished(batches[b], r, "confirmed"))
                /\ op' = At("derive", b, IF r.kind = "integrate_member"
                                           THEN [r EXCEPT !.sha = intRef] ELSE r)
           ELSE op' = Idle /\ UNCHANGED batches
  BY <1>2 DEF ReadBack
<1>5. r \in Reservations
  BY <1>3, <1>4 DEF BatchRecords
<1>6. CASE ~Landed(b, r)
  <2>1. op' = Idle /\ UNCHANGED batches
    BY <1>4, <1>6
  <2> QED BY <1>1, <2>1, IdleOp, QuietStep DEF ledger
<1>7. CASE Landed(b, r)
  <2>1. PICK new : new = Finished(batches[b], r, "confirmed")
    OBVIOUS
  <2>2. Save(b, new)
    BY <1>4, <1>7, <2>1
  <2>3. /\ new \in BatchRecords /\ new.pending = batches[b].pending \ {r}
        /\ new.done = batches[b].done \cup {r} /\ new.state = batches[b].state
        /\ new.members = batches[b].members /\ new.snap = batches[b].snap
        /\ new.pr = batches[b].pr
    BY <1>3, <1>5, <2>1, FinishedFacts
  <2>4. Sound(b, new)
    BY <1>3, <2>3 DEF Sound
  <2>5. PICK s : s = IF r.kind = "integrate_member" THEN [r EXCEPT !.sha = intRef] ELSE r
    OBVIOUS
  <2>6. s \in Reservations /\ s.kind = r.kind /\ s.for = r.for
    BY <1>5, <1>7, <2>5, LandedFacts DEF Reservations
  <2>7. op' = At("derive", b, s)
    BY <1>4, <1>7, <2>5
  <2>8. op' \in Ops /\ op'.at = "derive" /\ op'.b = b /\ op'.r = s
    BY <1>2, <2>6, <2>7, AtFacts, DeliveryAssumption DEF Steps, Batches
  <2>9. batches'[b] = new
    BY <2>2, <2>3, SaveFacts DEF TypeInv, TypeOK
  <2>10. OpInv'
    <3>1. s.kind = "integrate_member" => \E t \in MembersOf(b)' : s.for = {t}
      BY <1>3, <1>4, <2>3, <2>6, <2>9 DEF Sound, MembersOf
    <3>2. s.kind = "create_customer_pr" => PrsOf(b)' # {}
      BY <1>1, <1>5, <1>7, <2>6, LandedFacts DEF PrsOf, remote
    <3>3. s.kind = "snapshot_ref" => snapRef'[b] # None
      BY <1>1, <1>5, <1>7, <2>6, LandedFacts, NoneAssumption DEF remote, Reservations
    <3>4. s.kind = "update_customer_pr" => batches'[b].pr # NoPr
      BY <1>3, <1>4, <2>3, <2>6, <2>9 DEF Sound
    <3> QED BY <1>1, <1>2, <2>8, <3>1, <3>2, <3>3, <3>4
            DEF OpInv, Doing, Deriving, Confirmed, Mutating, Answering
  <2> QED BY <1>1, <1>2, <2>2, <2>3, <2>4, <2>8, <2>10, SaveStep
<1> QED BY <1>6, <1>7

\* The batch a confirmed reservation leaves.
LEMMA DerivedFacts ==
    ASSUME TypeInv, op.at = "derive", NEW b \in Batches, b = op.b,
           NEW batch \in BatchRecords, batch = batches[b], NEW new, new = Derived(b, op.r)
    PROVE  /\ new \in BatchRecords /\ Sound(b, new)
           /\ new.pending = batch.pending /\ new.cohort = batch.cohort
           /\ \A t \in Tickets : new.members[t] = "none" <=> batch.members[t] = "none"
           /\ op.r.kind = "integrate_member" =>
                /\ new.head = op.r.sha
                /\ \A t \in Tickets :
                     new.members[t] = IF op.r.for = {t} THEN "integrated" ELSE batch.members[t]
           /\ op.r.kind # "integrate_member" =>
                /\ new.head = batch.head
                /\ \A t \in Tickets : new.members[t] \in {"integrated", "in_delivery"}
                                       <=> batch.members[t] \in {"integrated", "in_delivery"}
<1>1. op.r \in Reservations /\ Sound(b, batch) /\ op.r.sha \in Commits
  BY OpFacts DEF Reservations
<1>2. CASE op.r.kind = "create_integration_branch"
  <2>1. new = batch
    BY <1>2 DEF Derived
  <2> QED BY <1>1, <1>2, <2>1
<1>3. CASE op.r.kind = "integrate_member"
  <2>1. PICK t \in Tickets : op.r.for = {t} /\ batch.members[t] # "none"
    BY <1>3 DEF TypeInv, OpInv, Deriving, MembersOf
  <2>2. TicketOf(op.r) = t
    BY <2>1, TicketOfOne
  <2>3. new = [batch EXCEPT !.head = op.r.sha, !.members[t] = "integrated"]
    BY <1>3, <2>2 DEF Derived
  <2> DEFINE members == [batch.members EXCEPT ![t] = "integrated"]
  <2>4. /\ members \in [Tickets -> Statuses] /\ members[t] = "integrated"
        /\ \A u \in Tickets : u # t => members[u] = batch.members[u]
    BY DEF BatchRecords, Statuses
  <2>5. new = [batch EXCEPT !.head = op.r.sha, !.members = members]
    BY <2>3, <2>4 DEF BatchRecords
  <2> HIDE DEF members
  <2>6. /\ new \in BatchRecords /\ new.head = op.r.sha /\ new.members = members
        /\ new.snap = batch.snap /\ new.state = batch.state
        /\ new.pending = batch.pending /\ new.done = batch.done
        /\ new.pr = batch.pr /\ new.cohort = batch.cohort
    BY <1>1, <2>4, <2>5 DEF BatchRecords
  <2>7. \A u \in Tickets : members[u] = "none" <=> batch.members[u] = "none"
    BY <2>1, <2>4
  <2>8. Sound(b, new)
    BY <1>1, <2>6, <2>7 DEF Sound
  <2>9. \A u \in Tickets :
           new.members[u] = IF op.r.for = {u} THEN "integrated" ELSE batch.members[u]
    BY <2>1, <2>4, <2>6
  <2> QED BY <1>3, <2>6, <2>7, <2>8, <2>9
<1>4. CASE op.r.kind = "snapshot_ref"
  <2>1. new = [batch EXCEPT !.snap = op.r.sha]
    BY <1>4 DEF Derived
  <2>2. snapRef[b] # None
    BY <1>4 DEF TypeInv, OpInv, Deriving
  <2>3. batch.frozen \in BOOLEAN /\ op.r.sha \in Refs
    BY <1>1 DEF BatchRecords, Refs
  <2>4. /\ new \in BatchRecords /\ new.snap = op.r.sha
        /\ new.head = batch.head /\ new.members = batch.members
        /\ new.pending = batch.pending /\ new.done = batch.done
        /\ new.cohort = batch.cohort /\ new.state = batch.state /\ new.pr = batch.pr
    BY <2>1, <2>3 DEF BatchRecords
  <2>5. Sound(b, new)
    BY <1>1, <2>2, <2>4 DEF Sound
  <2> QED BY <1>4, <2>4, <2>5
<1>5. ASSUME NEW pr \in Nat, pr # NoPr, pr = batch.pr \/ (pr \in DOMAIN prs /\ prs[pr].of = b),
             new = InDelivery(batch, pr), op.r.kind # "integrate_member"
      PROVE  /\ new \in BatchRecords /\ Sound(b, new)
             /\ new.pending = batch.pending /\ new.cohort = batch.cohort
             /\ new.head = batch.head
             /\ \A t \in Tickets : new.members[t] = "none" <=> batch.members[t] = "none"
             /\ \A t \in Tickets : new.members[t] \in {"integrated", "in_delivery"}
                                    <=> batch.members[t] \in {"integrated", "in_delivery"}
  <2>1. new = Out(batch, "delivery_open", pr)
    BY <1>5, Zenon DEF Out, InDelivery
  <2>2. "delivery_open" \in States
    BY DEF States
  <2> QED BY <1>1, <1>5, <2>1, <2>2, OutFacts
<1>6. CASE op.r.kind = "create_customer_pr"
  <2>1. PrsOf(b) # {}
    BY <1>6 DEF TypeInv, OpInv, Deriving
  <2>2. PICK n \in Nat : n = Len(prs) /\ PrsOf(b) \subseteq 1 .. n
    BY DEF PrsOf, TypeInv, TypeOK
  <2>3. PICK i \in PrsOf(b) : i = Latest(PrsOf(b))
    BY <2>1, <2>2, LatestExists
  <2>4. i \in Nat /\ i # NoPr /\ i \in DOMAIN prs /\ prs[i].of = b
    BY <2>2, <2>3 DEF PrsOf, NoPr
  <2>5. new = InDelivery(batch, i)
    BY <1>6, <2>3 DEF Derived, Latest
  <2> QED BY <1>5, <1>6, <2>4, <2>5
<1>7. CASE op.r.kind = "update_customer_pr"
  <2>1. batch.pr # NoPr /\ batch.pr \in Nat
    BY <1>7 DEF TypeInv, OpInv, Deriving, BatchRecords
  <2>2. new = InDelivery(batch, batch.pr)
    BY <1>7 DEF Derived
  <2> QED BY <1>5, <1>7, <2>1, <2>2
<1> QED BY <1>1, <1>2, <1>3, <1>4, <1>6, <1>7 DEF Reservations, Kinds

\* Deriving a batch from an outcome read back saves that batch only.
LEMMA DeriveFacts ==
    ASSUME TypeInv, Derive
    PROVE  \E b \in Batches, batch \in BatchRecords, s \in States :
             /\ b = op.b /\ b \in 1 .. last /\ Sound(b, batch)
             /\ s = "delivery_open" => batch.pr # NoPr
             /\ Save(b, [batch EXCEPT !.state = s])
             /\ op' = At("reconcile", b, NoReservation) \/ op' = Idle
             /\ batch = batches[b] \/ batch = Derived(b, op.r)
<1>1. op.at = "derive"
  BY DEF Derive
<1>2. PICK b \in Batches : b = op.b /\ b \in 1 .. last
  BY <1>1, OpFacts
<1>3. batches[b] \in BatchRecords /\ Sound(b, batches[b])
  BY <1>1, <1>2, OpFacts
<1>4. PICK batch : batch = IF ~Mismatched(batches[b], op.r) THEN Derived(b, op.r) ELSE batches[b]
  OBVIOUS
<1>5. batch \in BatchRecords /\ Sound(b, batch)
  <2>1. CASE ~Mismatched(batches[b], op.r)
    BY <1>1, <1>2, <1>3, <1>4, <2>1, DerivedFacts
  <2>2. CASE Mismatched(batches[b], op.r)
    BY <1>3, <1>4, <2>2
  <2> QED BY <2>1, <2>2
<1>6. PICK settled : settled = (~Mismatched(batches[b], op.r) /\ batch.pending = {})
  OBVIOUS
<1>7. /\ Save(b, IF settled /\ batch.state = "blocked_unknown"
                   THEN [batch EXCEPT !.state = "collecting"] ELSE batch)
      /\ op' = At("reconcile", b, NoReservation) \/ op' = Idle
  BY <1>2, <1>4, <1>6 DEF Derive
<1>8. CASE settled /\ batch.state = "blocked_unknown"
  BY <1>2, <1>4, <1>5, <1>7, <1>8 DEF States
<1>9. CASE ~(settled /\ batch.state = "blocked_unknown")
  <2>1. Save(b, batch)
    BY <1>7, <1>9
  <2>2. batch = [batch EXCEPT !.state = batch.state] /\ batch.state \in States
    BY <1>5 DEF BatchRecords
  <2>3. batch.state = "delivery_open" => batch.pr # NoPr
    BY <1>5 DEF Sound
  <2>4. Save(b, [batch EXCEPT !.state = batch.state])
    BY <2>1, <2>2
  <2> QED BY <1>2, <1>4, <1>5, <1>7, <2>2, <2>3, <2>4
<1> QED BY <1>8, <1>9

\* Deriving a batch from an outcome read back keeps the types.
LEMMA DeriveType ==
    ASSUME TypeInv, Derive
    PROVE  TypeInv'
<1>1. PICK b \in Batches, batch \in BatchRecords, s \in States :
             /\ b = op.b /\ b \in 1 .. last /\ Sound(b, batch)
             /\ s = "delivery_open" => batch.pr # NoPr
             /\ Save(b, [batch EXCEPT !.state = s])
             /\ op' = At("reconcile", b, NoReservation) \/ op' = Idle
  BY DeriveFacts
<1>2. UNCHANGED <<policy, last, index, remote>> /\ PassOK'
  BY PassKept DEF Derive
<1>3. [batch EXCEPT !.state = s] \in BatchRecords /\ Sound(b, [batch EXCEPT !.state = s])
  BY <1>1, StateFacts
<1>4. op' \in Ops /\ OpInv'
  <2>1. CASE op' = Idle
    BY <2>1, IdleOp
  <2>2. CASE op' = At("reconcile", b, NoReservation)
    <3>1. op' \in Ops /\ op'.at = "reconcile" /\ op'.b = b
      BY <1>1, <2>2, AtFacts, NoReservationTyped, DeliveryAssumption DEF Steps, Batches
    <3> QED BY <1>1, <1>2, <3>1 DEF OpInv, Doing, Deriving, Confirmed, Mutating, Answering
  <2> QED BY <1>1, <2>1, <2>2
<1> QED BY <1>1, <1>2, <1>3, <1>4, SaveStep

\* Observing the customer's answer keeps the types.
LEMMA ObserveType ==
    ASSUME TypeInv, NEW b \in Batches, observe_customer_completion(b)
    PROVE  TypeInv'
<1>1. op = Idle /\ op' = Idle /\ batches[b].pr # NoPr /\ UNCHANGED <<policy, last, index, remote>>
  BY DEF observe_customer_completion
<1>2. PassOK'
  BY PassKept DEF observe_customer_completion
<1>3. b \in 1 .. last
  <2>1. NewBatch("absent", Base).pr = NoPr
    BY DEF NewBatch
  <2>2. ~(b > last)
    BY <1>1, <2>1 DEF TypeInv, BatchInv, BatchOK
  <2> QED BY <2>2, DeliveryAssumption DEF TypeInv, TypeOK, Batches
<1>4. batches[b] \in BatchRecords /\ Sound(b, batches[b])
  BY DEF TypeInv, TypeOK, BatchInv, BatchOK
<1>5. ASSUME NEW s \in {"blocked_external_edit", "abandoned"}, SetState(b, s)
      PROVE  TypeInv'
  BY <1>1, <1>2, <1>3, <1>5, BlockStep DEF States
<1>6. CASE Save(b, [batches[b] EXCEPT !.state = "customer_merged",
                      !.members = [t \in Tickets |-> IF t \in MembersOf(b)
                                                      THEN "customer_merged" ELSE "none"]])
  <2>1. PICK members \in [Tickets -> Statuses] :
           /\ members = [t \in Tickets |-> IF t \in MembersOf(b) THEN "customer_merged" ELSE "none"]
           /\ \A t \in Tickets : members[t] = "none" <=> batches[b].members[t] = "none"
    BY DEF Statuses, MembersOf
  <2>2. PICK new : new = [batches[b] EXCEPT !.state = "customer_merged", !.members = members]
    OBVIOUS
  <2>3. Save(b, new)
    BY <1>6, <2>1, <2>2
  <2>4. /\ new \in BatchRecords /\ new.state = "customer_merged" /\ new.members = members
        /\ new.snap = batches[b].snap /\ new.pending = batches[b].pending
        /\ new.done = batches[b].done /\ new.pr = batches[b].pr
    BY <1>4, <2>2 DEF BatchRecords, States
  <2>5. Sound(b, new)
    BY <1>4, <2>1, <2>4 DEF Sound
  <2> QED BY <1>1, <1>2, <1>3, <2>3, <2>4, <2>5, IdleOp, SaveStep
<1> QED BY <1>5, <1>6 DEF observe_customer_completion

-----------------------------------------------------------------------------
(* Types. *)

\* The empty ledger is typed.
LEMMA InitType == Init => TypeInv
<1> SUFFICES ASSUME Init PROVE TypeInv
  OBVIOUS
<1>1. PICK new \in BatchRecords : new = NewBatch("absent", Base)
  BY NewBatchFacts, BaseIsCommit DEF States
<1>2. /\ new.members \in [Tickets -> {"none"}] /\ new.snap = None /\ new.pr = NoPr
      /\ new.pending = {} /\ new.done = {} /\ new.state = "absent"
  BY <1>1 DEF NewBatch
<1>3. batches \in [Batches -> BatchRecords] /\ \A b \in Batches : batches[b] = new
  BY <1>1 DEF Init
<1>4. snapRef \in [Batches -> Refs] /\ \A b \in Batches : snapRef[b] = None
  BY DEF Init, Refs
<1>5. BatchInv
  BY <1>1, <1>2, <1>3, <1>4 DEF BatchInv, BatchOK, Sound
<1>6. op \in Ops /\ OpInv
  BY IdleFacts DEF Init, OpInv, Doing, Deriving, Confirmed, Mutating, Answering
<1>7. /\ prs \in Seq(PrRecords) /\ Len(prs) = 0 /\ policy \in Policies
      /\ MaxPrs[policy] \in Nat /\ last \in 0 .. MaxBatches /\ edits \in 0 .. MaxEdits
      /\ index \in [Tickets -> 0 .. MaxBatches] /\ intRef \in Refs
      /\ noted = {} /\ releasing = FALSE
  BY DeliveryAssumption DEF Init, NoBatch, Refs
<1>8. \A c \in Batches : /\ MembersOf(c) \subseteq {t \in Tickets : index[t] = c}
                         /\ batches[c].pending \cap batches[c].done = {}
  BY <1>5 DEF BatchInv, BatchOK, Sound, MembersOf
<1>9. TypeOK
  <2>1. Len(prs) <= MaxPrs[policy]
    BY <1>7
  <2>2. releasing \in BOOLEAN /\ (releasing => noted # {})
    BY <1>7, Zenon
  <2>3. noted \subseteq Batches
    BY <1>7
  <2> QED BY <1>3, <1>4, <1>6, <1>7, <1>8, <2>1, <2>2, <2>3 DEF TypeOK, Ops
<1> QED BY <1>5, <1>6, <1>9 DEF TypeInv

\* Every step keeps the types.
LEMMA StepType == TypeInv /\ [Next]_vars => TypeInv'
<1> SUFFICES ASSUME TypeInv, [Next]_vars PROVE TypeInv'
  OBVIOUS
<1>1. CASE UNCHANGED vars
  <2>1. op' \in Ops /\ OpInv'
    BY <1>1, OpStays DEF vars, ledger, remote, TypeInv, TypeOK, Ops
  <2>2. PassOK'
    BY <1>1, PassKept DEF vars, pass
  <2> QED BY <1>1, <2>1, <2>2, QuietStep DEF vars, ledger, remote
<1>2. CASE Collection
  BY <1>2, CollectAgainType, CollectType, JoinType, CreateBranchType, SettleBranchType,
     IntegrateType, SettleMergeType, RaiseType DEF Collection
<1>3. CASE Publication
  BY <1>3, ReleaseType, ValidateType, SnapshotType, PushSnapshotType, SettleSnapshotType,
     PublishType, CreatePrType, SettleCreateType, UpdatePrType, SettleUpdateType DEF Publication
<1>4. CASE Reconciliation
  BY <1>4, ReconcileType, ObserveType, ReadBackType, DeriveType DEF Reconciliation
<1>5. CASE Environment
  BY <1>5, CrashType, CustomerType, TargetMovesType, ExternalEditType DEF Environment
<1>6. CASE Reserve \/ Finish
  BY <1>6, ReserveType, FinishType
<1> QED BY <1>1, <1>2, <1>3, <1>4, <1>5, <1>6 DEF Next

(* The ledger, the branches and the pull requests keep their types, every    *)
(* member of a batch is indexed to it, and a reservation has one status.     *)
THEOREM TypeCorrect == Spec => []TypeOK
<1>1. TypeInv => TypeOK
  BY DEF TypeInv
<1> QED BY <1>1, InitType, StepType, PTL DEF Spec

-----------------------------------------------------------------------------
(* What the steps leave of a batch. *)

HeadOf(b) == batches[b].head
Kept(b) == {t \in Tickets : batches[b].members[t] \in {"integrated", "in_delivery"}}

\* The same members, the same head, nothing more integrated; and the same
\* reservations without an answer and the same cohort.
Steady(b) == HeadOf(b)' = HeadOf(b) /\ MembersOf(b)' = MembersOf(b) /\ Kept(b)' \subseteq Kept(b)
Unmoved(b) ==
    /\ Steady(b)
    /\ batches'[b].pending = batches[b].pending /\ batches'[b].cohort = batches[b].cohort
AllSteady == \A b \in Batches : Steady(b)
AllUnmoved == \A b \in Batches : Unmoved(b)

\* A step that saves no batch moves none.
LEMMA NothingSaved ==
    ASSUME UNCHANGED batches
    PROVE  AllUnmoved
  BY DEF AllUnmoved, Unmoved, Steady, HeadOf, MembersOf, Kept

\* Saving a batch with its head and members, and nothing more integrated.
LEMMA SavedSteady ==
    ASSUME TypeInv, NEW b \in Batches, NEW batch \in BatchRecords, Save(b, batch),
           batch.head = batches[b].head,
           \A t \in Tickets : batch.members[t] = "none" <=> batches[b].members[t] = "none",
           \A t \in Tickets : batch.members[t] \in {"integrated", "in_delivery"}
                                => batches[b].members[t] \in {"integrated", "in_delivery"}
    PROVE  /\ AllSteady
           /\ batch.pending = batches[b].pending /\ batch.cohort = batches[b].cohort => AllUnmoved
<1>1. /\ batches'[b] = batch
      /\ \A c \in Batches : c # b => batches'[c] = batches[c]
  BY SaveFacts DEF TypeInv, TypeOK
<1>2. ASSUME NEW c \in Batches PROVE Steady(c)
  <2>1. CASE c = b
    BY <1>1, <2>1 DEF Steady, HeadOf, MembersOf, Kept
  <2>2. CASE c # b
    BY <1>1, <2>2 DEF Steady, HeadOf, MembersOf, Kept
  <2> QED BY <2>1, <2>2
<1>3. ASSUME batch.pending = batches[b].pending, batch.cohort = batches[b].cohort,
             NEW c \in Batches
      PROVE  Unmoved(c)
  BY <1>1, <1>2, <1>3 DEF Unmoved
<1> QED BY <1>2, <1>3 DEF AllSteady, AllUnmoved

\* Blocking a batch moves none.
LEMMA BlockUnmoved ==
    ASSUME TypeInv, NEW b \in Batches, NEW s \in States, SetState(b, s)
    PROVE  AllUnmoved
<1>1. batches[b] \in BatchRecords
  BY DEF TypeInv, TypeOK
<1>2. PICK batch \in BatchRecords :
         /\ batch = [batches[b] EXCEPT !.state = s]
         /\ batch.head = batches[b].head /\ batch.members = batches[b].members
         /\ batch.pending = batches[b].pending /\ batch.cohort = batches[b].cohort
  BY <1>1, StateFacts
<1>3. Save(b, batch)
  BY <1>2 DEF SetState
<1> QED BY <1>2, <1>3, SavedSteady

\* Recording a delivery moves no batch.
LEMMA OutUnmoved ==
    ASSUME TypeInv, NEW b \in Batches, NEW s \in States, NEW pr \in Nat,
           Save(b, Out(batches[b], s, pr))
    PROVE  AllUnmoved
<1>1. batches[b] \in BatchRecords
  BY DEF TypeInv, TypeOK
<1>2. PICK new : new = Out(batches[b], s, pr)
  OBVIOUS
<1>3. /\ new \in BatchRecords /\ new.head = batches[b].head
      /\ new.pending = batches[b].pending /\ new.cohort = batches[b].cohort
      /\ \A t \in Tickets : new.members[t] = "none" <=> batches[b].members[t] = "none"
      /\ \A t \in Tickets : new.members[t] \in {"integrated", "in_delivery"}
                             <=> batches[b].members[t] \in {"integrated", "in_delivery"}
  BY <1>1, <1>2, OutFacts
<1>4. Save(b, new)
  BY <1>2
<1> QED BY <1>3, <1>4, SavedSteady

\* Recording a snapshot moves no batch.
LEMMA SnapUnmoved ==
    ASSUME TypeInv, NEW b \in Batches, NEW snap \in Refs,
           Save(b, [batches[b] EXCEPT !.snap = snap, !.frozen = Strategy = "frozen"])
    PROVE  AllUnmoved
<1>1. batches[b] \in BatchRecords
  BY DEF TypeInv, TypeOK
<1>2. PICK f : f = (Strategy = "frozen")
  OBVIOUS
<1>3. f \in BOOLEAN
  BY <1>2, Zenon
<1>4. PICK new : new = Snapped(batches[b], snap, f)
  OBVIOUS
<1>5. Save(b, new)
  BY <1>2, <1>4, Zenon DEF Snapped
<1>6. /\ new \in BatchRecords /\ new.head = batches[b].head /\ new.members = batches[b].members
      /\ new.pending = batches[b].pending /\ new.cohort = batches[b].cohort
  BY <1>1, <1>3, <1>4, SnapFacts
<1> QED BY <1>5, <1>6, SavedSteady

\* Validation moves no batch.
LEMMA ValidateUnmoved == ASSUME TypeInv, Validate PROVE AllUnmoved
<1>1. op.b \in Batches /\ "blocked_validation" \in States
  BY OpFacts DEF Validate, States
<1>2. UNCHANGED batches \/ SetState(op.b, "blocked_validation")
  BY DEF Validate
<1> QED BY <1>1, <1>2, NothingSaved, BlockUnmoved

\* Deciding on the snapshot push moves no batch.
LEMMA SnapshotUnmoved == ASSUME TypeInv, Snapshot PROVE AllUnmoved
<1>1. PICK b \in Batches : b = op.b
  BY OpFacts DEF Snapshot
<1>2. "blocked_external_edit" \in States /\ snapRef[b] \in Refs
  BY DEF States, TypeInv, TypeOK
<1>3. \/ UNCHANGED batches \/ SetState(b, "blocked_external_edit")
      \/ Save(b, [batches[b] EXCEPT !.snap = snapRef[b], !.frozen = Strategy = "frozen"])
  BY <1>1 DEF Snapshot
<1> QED BY <1>2, <1>3, NothingSaved, BlockUnmoved, SnapUnmoved

\* The outcome of a snapshot push moves no batch.
LEMMA SettleSnapshotUnmoved == ASSUME TypeInv, SettleSnapshot PROVE AllUnmoved
<1>1. PICK b \in Batches : b = op.b
  BY OpFacts DEF SettleSnapshot
<1>2. "blocked_unknown" \in States /\ batches[b].head \in Refs
  BY DEF States, TypeInv, TypeOK, BatchRecords, Refs
<1>3. \/ SetState(b, "blocked_unknown")
      \/ Save(b, [batches[b] EXCEPT !.snap = batches[b].head, !.frozen = Strategy = "frozen"])
  BY <1>1 DEF SettleSnapshot
<1> QED BY <1>2, <1>3, BlockUnmoved, SnapUnmoved

\* Deciding on the pull request moves no batch.
LEMMA PublishUnmoved == ASSUME TypeInv, Publish PROVE AllUnmoved
<1>1. PICK b \in Batches : b = op.b
  BY OpFacts DEF Publish
<1>2. batches[b] \in BatchRecords
  BY DEF TypeInv, TypeOK
<1>3. CASE Save(b, [batches[b] EXCEPT !.state = "in_delivery", !.members = Delivered(@)])
  <2>1. Save(b, Out(batches[b], "in_delivery", batches[b].pr))
    BY <1>2, <1>3 DEF Out, BatchRecords
  <2>2. "in_delivery" \in States /\ batches[b].pr \in Nat
    BY <1>2 DEF States, BatchRecords
  <2> QED BY <2>1, <2>2, OutUnmoved
<1>4. CASE Exact(b) # {} /\ Save(b, InDelivery(batches[b], CHOOSE i \in Exact(b) : TRUE))
  <2>1. PICK i \in Exact(b) : i = CHOOSE j \in Exact(b) : TRUE
    BY <1>4
  <2>2. i \in Nat /\ "delivery_open" \in States
    BY <2>1 DEF Exact, ActivePrs, TypeInv, TypeOK, States
  <2>3. Save(b, Out(batches[b], "delivery_open", i))
    BY <1>4, <2>1, Zenon DEF Out, InDelivery
  <2> QED BY <2>2, <2>3, OutUnmoved
<1>5. ASSUME NEW s \in {"blocked_validation", "waiting_customer_slot", "blocked_existing_pr"},
             SetState(b, s)
      PROVE  AllUnmoved
  BY <1>5, BlockUnmoved DEF States
<1>6. CASE SetState(b, IF \A i \in ActivePrs : batches[prs[i].of].state = "delivery_open"
                         THEN "waiting_customer_slot" ELSE "blocked_existing_pr")
  <2>1. CASE \A i \in ActivePrs : batches[prs[i].of].state = "delivery_open"
    BY <1>5, <1>6, <2>1
  <2>2. CASE ~\A i \in ActivePrs : batches[prs[i].of].state = "delivery_open"
    BY <1>5, <1>6, <2>2
  <2> QED BY <2>1, <2>2
<1> QED BY <1>1, <1>3, <1>4, <1>5, <1>6, NothingSaved DEF Publish

\* The outcome of a created pull request moves no batch.
LEMMA SettleCreateUnmoved == ASSUME TypeInv, SettleCreate PROVE AllUnmoved
<1>1. PICK b \in Batches : b = op.b
  BY OpFacts DEF SettleCreate
<1>2. "blocked_unknown" \in States /\ "blocked_existing_pr" \in States
      /\ "delivery_open" \in States /\ Len(prs) \in Nat
  BY DEF States, TypeInv, TypeOK
<1>3. \/ SetState(b, "blocked_unknown") \/ SetState(b, "blocked_existing_pr")
      \/ Save(b, InDelivery(batches[b], Len(prs)))
  BY <1>1 DEF SettleCreate
<1>4. CASE Save(b, InDelivery(batches[b], Len(prs)))
  <2>1. Save(b, Out(batches[b], "delivery_open", Len(prs)))
    BY <1>4, Zenon DEF Out, InDelivery
  <2> QED BY <1>2, <2>1, OutUnmoved
<1> QED BY <1>2, <1>3, <1>4, BlockUnmoved

\* The outcome of an updated pull request moves no batch.
LEMMA SettleUpdateUnmoved == ASSUME TypeInv, SettleUpdate PROVE AllUnmoved
<1>1. PICK b \in Batches : b = op.b
  BY OpFacts DEF SettleUpdate
<1>2. batches[b] \in BatchRecords /\ "blocked_unknown" \in States
  BY DEF TypeInv, TypeOK, States
<1>3. \/ SetState(b, "blocked_unknown")
      \/ Save(b, [batches[b] EXCEPT !.members = Delivered(@)])
  BY <1>1 DEF SettleUpdate
<1>4. CASE Save(b, [batches[b] EXCEPT !.members = Delivered(@)])
  <2>1. Save(b, Out(batches[b], batches[b].state, batches[b].pr))
    BY <1>2, <1>4 DEF Out, BatchRecords
  <2>2. batches[b].state \in States /\ batches[b].pr \in Nat
    BY <1>2 DEF BatchRecords
  <2> QED BY <2>1, <2>2, OutUnmoved
<1> QED BY <1>2, <1>3, <1>4, BlockUnmoved

\* Observing the customer's answer moves no batch.
LEMMA ObserveUnmoved ==
    ASSUME TypeInv, NEW b \in Batches, observe_customer_completion(b)
    PROVE  AllUnmoved
<1>1. batches[b] \in BatchRecords
  BY DEF TypeInv, TypeOK
<1>2. ASSUME NEW s \in {"blocked_external_edit", "abandoned"}, SetState(b, s)
      PROVE  AllUnmoved
  BY <1>2, BlockUnmoved DEF States
<1>3. CASE Save(b, [batches[b] EXCEPT !.state = "customer_merged",
                      !.members = [t \in Tickets |-> IF t \in MembersOf(b)
                                                      THEN "customer_merged" ELSE "none"]])
  <2>1. PICK members \in [Tickets -> Statuses] :
           /\ members = [t \in Tickets |-> IF t \in MembersOf(b) THEN "customer_merged" ELSE "none"]
           /\ \A t \in Tickets : members[t] = "none" <=> batches[b].members[t] = "none"
           /\ \A t \in Tickets : members[t] \in {"customer_merged", "none"}
    <3> DEFINE m == [t \in Tickets |-> IF t \in MembersOf(b) THEN "customer_merged" ELSE "none"]
    <3>1. m \in [Tickets -> Statuses] /\ \A t \in Tickets : m[t] \in {"customer_merged", "none"}
      BY DEF Statuses
    <3>2. \A t \in Tickets : m[t] = "none" <=> batches[b].members[t] = "none"
      BY DEF MembersOf
    <3> QED BY <3>1, <3>2
  <2>2. PICK new : new = [batches[b] EXCEPT !.state = "customer_merged", !.members = members]
    OBVIOUS
  <2>3. Save(b, new)
    BY <1>3, <2>1, <2>2
  <2>4. /\ new \in BatchRecords /\ new.head = batches[b].head /\ new.members = members
        /\ new.pending = batches[b].pending /\ new.cohort = batches[b].cohort
    BY <1>1, <2>2 DEF BatchRecords, States
  <2> QED BY <2>1, <2>3, <2>4, SavedSteady
<1> QED BY <1>2, <1>3 DEF observe_customer_completion

\* The reservations of the batch at hand alone change.
LEMMA PendingSteady ==
    ASSUME TypeInv, NEW b \in Batches, NEW new \in BatchRecords, Save(b, new),
           new.head = batches[b].head, new.members = batches[b].members,
           new.cohort = batches[b].cohort
    PROVE  /\ AllSteady /\ batches'[b] = new
           /\ \A c \in Batches : c # b => batches'[c] = batches[c]
           /\ \A c \in Batches : batches'[c].cohort = batches[c].cohort
<1>1. AllSteady
  BY SavedSteady
<1>2. batches'[b] = new /\ \A c \in Batches : c # b => batches'[c] = batches[c]
  BY SaveFacts DEF TypeInv, TypeOK
<1> QED BY <1>1, <1>2

\* A reservation leaves head, members and cohort as they are.
LEMMA ReserveSteady ==
    ASSUME TypeInv, Reserve, NEW b, b = op.b
    PROVE  /\ AllSteady /\ b \in Batches /\ UNCHANGED <<policy, index, remote>>
           /\ \A c \in Batches : c # b => batches'[c] = batches[c]
           /\ batches'[b].pending \subseteq batches[b].pending \cup {op.r}
           /\ \A c \in Batches : batches'[c].cohort = batches[c].cohort
           /\ op.at = "reserve" /\ op'.at = "call" /\ op'.b = op.b /\ op'.r = op.r
           /\ op'.got = op.got
<1>1. op.at = "reserve"
  BY DEF Reserve
<1>2. b \in Batches /\ op \in Ops /\ op.r \in Reservations /\ batches[b] \in BatchRecords
  BY <1>1, OpFacts
<1>3. PICK new \in BatchRecords : new = Reserved(batches[b], op.r)
  BY <1>2, ReservedFacts
<1>4. /\ new.pending \subseteq batches[b].pending \cup {op.r} /\ new.head = batches[b].head
      /\ new.members = batches[b].members /\ new.cohort = batches[b].cohort
  BY <1>2, <1>3, ReservedFacts
<1>5. Save(b, new) /\ UNCHANGED <<policy, index, remote>>
  BY <1>3 DEF Reserve, Reserved
<1>6. op'.at = "call" /\ op'.b = op.b /\ op'.r = op.r /\ op'.got = op.got
  BY <1>2 DEF Reserve, Ops
<1> QED BY <1>1, <1>2, <1>4, <1>5, <1>6, PendingSteady

\* Saving an outcome leaves head, members and cohort as they are.
LEMMA FinishSteady ==
    ASSUME TypeInv, Finish, NEW b, b = op.b
    PROVE  /\ AllSteady /\ b \in Batches /\ UNCHANGED <<policy, index, remote>>
           /\ \A c \in Batches : c # b => batches'[c] = batches[c]
           /\ op.got = "unknown" => batches'[b].pending = batches[b].pending \cup {op.r}
           /\ op.got # "unknown" => batches'[b].pending = batches[b].pending \ {op.r}
           /\ \A c \in Batches : batches'[c].cohort = batches[c].cohort
           /\ op.at = "finish" /\ op'.at = "settle" /\ op'.b = op.b /\ op'.r = op.r
           /\ op'.got = op.got
<1>1. op.at = "finish"
  BY DEF Finish
<1>2. b \in Batches /\ op \in Ops /\ op.r \in Reservations /\ batches[b] \in BatchRecords
  BY <1>1, OpFacts
<1>3. PICK new : new = Finished(batches[b], op.r, op.got)
  OBVIOUS
<1>4. /\ new \in BatchRecords /\ new.head = batches[b].head
      /\ new.members = batches[b].members /\ new.cohort = batches[b].cohort
      /\ op.got = "unknown" => new.pending = batches[b].pending \cup {op.r}
      /\ op.got # "unknown" => new.pending = batches[b].pending \ {op.r}
  BY <1>2, <1>3, FinishedFacts
<1>5. Save(b, new) /\ UNCHANGED <<policy, index, remote>>
  BY <1>3 DEF Finish
<1>6. op'.at = "settle" /\ op'.b = op.b /\ op'.r = op.r /\ op'.got = op.got
  BY <1>2 DEF Finish, Ops
<1> QED BY <1>1, <1>2, <1>4, <1>5, <1>6, PendingSteady

\* Reading back ends, or one reservation landed and its batch is derived.
LEMMA ReadBackSteady ==
    ASSUME TypeInv, ReadBack, NEW b, b = op.b
    PROVE  /\ AllSteady /\ b \in Batches /\ UNCHANGED <<policy, index, remote>>
           /\ \A c \in Batches : c # b => batches'[c] = batches[c]
           /\ \A c \in Batches : batches'[c].cohort = batches[c].cohort
           /\ \/ op' = Idle /\ UNCHANGED batches
              \/ \E r \in batches[b].pending :
                   /\ Landed(b, r) /\ r \in Reservations
                   /\ batches'[b].pending = batches[b].pending \ {r}
                   /\ op'.at = "derive" /\ op'.b = b /\ op'.r.kind = r.kind
                   /\ op'.r.for = r.for
                   /\ r.kind = "integrate_member" => op'.r.sha = intRef
<1>1. op.at = "reconcile" /\ UNCHANGED <<policy, index, remote>>
  BY DEF ReadBack
<1>2. b \in Batches /\ batches[b] \in BatchRecords
  BY <1>1, OpFacts
<1>3. PICK r \in batches[b].pending :
         IF Landed(b, r)
           THEN /\ Save(b, Finished(batches[b], r, "confirmed"))
                /\ op' = At("derive", b, IF r.kind = "integrate_member"
                                           THEN [r EXCEPT !.sha = intRef] ELSE r)
           ELSE op' = Idle /\ UNCHANGED batches
  BY DEF ReadBack
<1>4. r \in Reservations
  BY <1>2 DEF BatchRecords
<1>5. CASE ~Landed(b, r)
  <2>1. op' = Idle /\ UNCHANGED batches
    BY <1>3, <1>5
  <2>2. AllUnmoved
    BY <2>1, NothingSaved
  <2> QED BY <1>1, <1>2, <2>1, <2>2 DEF AllUnmoved, AllSteady, Unmoved
<1>6. CASE Landed(b, r)
  <2>1. PICK new : new = Finished(batches[b], r, "confirmed")
    OBVIOUS
  <2>2. Save(b, new)
    BY <1>3, <1>6, <2>1
  <2>3. /\ new \in BatchRecords /\ new.pending = batches[b].pending \ {r}
        /\ new.head = batches[b].head /\ new.members = batches[b].members
        /\ new.cohort = batches[b].cohort
    BY <1>2, <1>4, <2>1, FinishedFacts
  <2>4. PICK s : s = IF r.kind = "integrate_member" THEN [r EXCEPT !.sha = intRef] ELSE r
    OBVIOUS
  <2>5. /\ s.kind = r.kind /\ s.for = r.for
        /\ r.kind = "integrate_member" => s.sha = intRef
    BY <1>4, <2>4 DEF Reservations
  <2>6. op' = At("derive", b, s)
    BY <1>3, <1>6, <2>4
  <2>7. op'.at = "derive" /\ op'.b = b /\ op'.r = s
    BY <2>6 DEF At
  <2> QED BY <1>1, <1>2, <1>4, <1>6, <2>2, <2>3, <2>5, <2>7, PendingSteady
<1> QED BY <1>5, <1>6

-----------------------------------------------------------------------------
(* The ledger is true. *)

Included(c, ref) == ref # None /\ Ancestor(c, ref)
Grown == \A c \in Commits : Included(c, intRef) => Included(c, intRef')

\* The head of a batch is on the integration branch unless nothing was merged
\* into it; a merge under way starts from it; and what a merge read back is
\* said to leave holds all that is kept.
LedgerInv ==
    /\ \A b \in Batches : HeadOf(b) = Base \/ Included(HeadOf(b), intRef)
    /\ op.at = "join" \/ Doing("integrate_member") => Included(op.r.old, intRef)
    /\ Doing("integrate_member") => HeadOf(op.b) = op.r.old
    /\ Confirmed("integrate_member") => op.r.for \subseteq intRef.tickets
    /\ Deriving("integrate_member") =>
         Included(op.r.sha, intRef) /\ op.r.for \cup Kept(op.b) \subseteq op.r.sha.tickets

Ledger == LedgerInv /\ LedgerIsTrue

\* The head of a batch is a commit.
LEMMA HeadTyped ==
    ASSUME TypeInv, NEW b \in Batches
    PROVE  HeadOf(b) \in Commits
  BY DEF HeadOf, TypeInv, TypeOK, BatchRecords

\* A branch nobody pushes to holds what it held.
LEMMA NotGrown == ASSUME UNCHANGED intRef PROVE Grown
  BY DEF Grown

\* What the ledger calls integrated is in the head, and the head on the branch.
LEMMA KeptIn ==
    ASSUME Ledger, NEW b \in Batches
    PROVE  /\ Kept(b) \subseteq HeadOf(b).tickets
           /\ Kept(b) # {} => Included(HeadOf(b), intRef)
  BY DEF Ledger, LedgerIsTrue, Kept, HeadOf, Included

\* A steady batch stays true on a branch that only grows.
LEMMA HeadsStay ==
    ASSUME TypeInv, Ledger, Grown, NEW b \in Batches, Steady(b)
    PROVE  /\ HeadOf(b)' = Base \/ Included(HeadOf(b), intRef)'
           /\ \A t \in Tickets : batches'[b].members[t] \in {"integrated", "in_delivery"} =>
                /\ t \in batches'[b].head.tickets
                /\ intRef' # None /\ Ancestor(batches'[b].head, intRef')
<1>1. HeadOf(b) \in Commits /\ HeadOf(b)' = HeadOf(b)
  BY HeadTyped DEF Steady
<1>2. HeadOf(b) = Base \/ Included(HeadOf(b), intRef)
  BY DEF Ledger, LedgerInv
<1>3. Included(HeadOf(b), intRef) => Included(HeadOf(b), intRef')
  BY <1>1 DEF Grown
<1>4. HeadOf(b)' = Base \/ Included(HeadOf(b), intRef)'
  BY <1>1, <1>2, <1>3 DEF Included
<1>5. ASSUME NEW t \in Tickets, batches'[b].members[t] \in {"integrated", "in_delivery"}
      PROVE  /\ t \in batches'[b].head.tickets
             /\ intRef' # None /\ Ancestor(batches'[b].head, intRef')
  <2>1. t \in Kept(b)
    BY <1>5 DEF Steady, Kept
  <2> QED BY <1>1, <1>3, <2>1, KeptIn DEF HeadOf, Included
<1> QED BY <1>4, <1>5

\* The ledger stays true when no merge is under way after the step.
LEMMA LedgerSteady ==
    ASSUME TypeInv, TypeInv', Ledger, AllSteady, Grown,
           op'.at \in {"join", "derive"} \cup Mutating => op'.r.kind # "integrate_member"
    PROVE  Ledger'
<1>1. LedgerIsTrue'
  BY HeadsStay DEF LedgerIsTrue, AllSteady, Batches
<1>2. \A b \in Batches : HeadOf(b)' = Base \/ Included(HeadOf(b), intRef)'
  BY HeadsStay DEF AllSteady
<1>3. op'.at # "join"
  BY DEF TypeInv, OpInv
<1> QED BY <1>1, <1>2, <1>3
        DEF Ledger, LedgerInv, Doing, Deriving, Confirmed, Mutating, Answering, Batches, Base

\* The ledger stays true when the operation goes on with the same merge.
LEMMA LedgerGoesOn ==
    ASSUME TypeInv, TypeInv', Ledger, AllSteady, Grown,
           op'.b = op.b, op'.r = op.r,
           op'.at = op.at \/ (op.at \in Mutating /\ op'.at \in Mutating),
           Confirmed("integrate_member")'
             => Confirmed("integrate_member") \/ op.r.for \subseteq intRef'.tickets
    PROVE  Ledger'
<1>1. LedgerIsTrue'
  BY HeadsStay DEF LedgerIsTrue, AllSteady, Batches
<1>2. \A b \in Batches : HeadOf(b)' = Base \/ Included(HeadOf(b), intRef)'
  BY HeadsStay DEF AllSteady
<1>3. CASE op.at = "join" \/ Doing("integrate_member")
  <2>1. op.r.old \in Commits /\ Included(op.r.old, intRef) /\ op.b \in Batches
    BY <1>3, OpFacts DEF TypeInv, OpInv, Doing, Mutating, Ledger, LedgerInv
  <2>2. Included(op.r.old, intRef')
    BY <2>1 DEF Grown
  <2>3. Doing("integrate_member")' => HeadOf(op.b)' = op.r.old
    <3>1. HeadOf(op.b)' = HeadOf(op.b)
      BY <2>1 DEF AllSteady, Steady, HeadOf
    <3> QED BY <1>3, <3>1 DEF Doing, Mutating, Ledger, LedgerInv
  <2>4. Confirmed("integrate_member")' => op.r.for \subseteq intRef'.tickets
    <3>1. CASE Confirmed("integrate_member")
      <4>1. op.r.for \subseteq intRef.tickets /\ op.r.for \subseteq Tickets
        BY <1>3, <3>1, OpFacts DEF Ledger, LedgerInv, Reservations, Doing, Mutating
      <4>2. intRef \in Commits
        BY <2>1 DEF TypeInv, TypeOK, Included, Refs
      <4>3. intRef.tickets \subseteq intRef'.tickets
        <5>1. Included(intRef, intRef)
          BY <2>1 DEF Included, Ancestor
        <5> QED BY <4>2, <5>1 DEF Grown, Included, Ancestor
      <4> QED BY <4>1, <4>3
    <3>2. CASE ~Confirmed("integrate_member")
      BY <3>2
    <3> QED BY <3>1, <3>2
  <2>5. ~Deriving("integrate_member")'
    BY <1>3 DEF Doing, Deriving, Mutating
  <2> QED BY <1>1, <1>2, <2>2, <2>3, <2>4, <2>5 DEF Ledger, LedgerInv, Batches, Included, Base
<1>4. CASE Deriving("integrate_member")
  <2>1. PICK b \in Batches : b = op.b
    BY <1>4, OpFacts DEF Deriving
  <2>2. op'.at = "derive" /\ op'.b = b /\ op.r.sha \in Commits
    BY <1>4, <2>1, OpFacts DEF Deriving, Mutating, Reservations
  <2>3. Included(op.r.sha, intRef') /\ Kept(b)' \subseteq Kept(b)
    BY <1>4, <2>2 DEF Ledger, LedgerInv, Grown, AllSteady, Steady
  <2>4. op.r.for \cup Kept(b)' \subseteq op.r.sha.tickets
    BY <1>4, <2>1, <2>3 DEF Ledger, LedgerInv
  <2>5. (op.r.for \cup Kept(op.b) \subseteq op.r.sha.tickets)'
    BY <2>2, <2>4 DEF Kept
  <2> QED BY <1>1, <1>2, <2>2, <2>3, <2>5
          DEF Ledger, LedgerInv, Doing, Confirmed, Mutating, Answering, Batches, Included, Base
<1>5. CASE ~(op.at = "join" \/ Doing("integrate_member") \/ Deriving("integrate_member"))
  <2>1. op'.at \in {"join", "derive"} \cup Mutating => op'.r.kind # "integrate_member"
    BY <1>5 DEF Doing, Deriving, Mutating
  <2> QED BY <2>1, LedgerSteady
<1> QED BY <1>3, <1>4, <1>5

\* The steps that leave every batch as it was, and what they are about next.
LEMMA QuietUnmoved ==
    ASSUME TypeInv,
           \/ \E t \in Tickets : CollectAgain(t)
           \/ Crash \/ Raise \/ create_integration_branch \/ integrate_reviewed
           \/ snapshot_ref \/ create_customer_pr \/ update_customer_pr
           \/ \E b \in Batches : reconcile_unknown(b)
           \/ \E i \in DOMAIN prs : CustomerAnswers(i)
           \/ TargetMoves \/ ExternalEdit
    PROVE  AllUnmoved
<1>1. UNCHANGED batches
  BY DEF CollectAgain, Crash, Raise, create_integration_branch, integrate_reviewed,
     snapshot_ref, create_customer_pr, update_customer_pr, reconcile_unknown,
     CustomerAnswers, TargetMoves, ExternalEdit, ledger
<1> QED BY <1>1, NothingSaved

\* A batch that is not moved is steady.
LEMMA UnmovedSteady == AllUnmoved => AllSteady
  BY DEF AllUnmoved, AllSteady, Unmoved

\* An idle butler has no merge under way.
LEMMA AfterIdle ==
    ASSUME op' = Idle
    PROVE  op'.at \notin {"join", "derive"} \cup Mutating
  BY IdleFacts DEF Mutating

\* The release and what leads to a pull request: the batch alone is saved.
LEMMA ReleaseSteady ==
    ASSUME TypeInv, NEW b \in Batches, Release(b)
    PROVE  /\ AllSteady /\ UNCHANGED remote /\ op = Idle /\ UNCHANGED <<policy, index>>
           /\ \A c \in Batches : batches'[c].pending = batches[c].pending
           /\ \A c \in Batches : c # b => batches'[c].cohort = batches[c].cohort
           /\ \/ op' = Idle /\ UNCHANGED batches
              \/ /\ op'.at = "validate" /\ op'.b = b /\ op'.r = NoReservation
                 /\ Due(b) /\ batches'[b].cohort = MembersOf(b)
<1>1. UNCHANGED remote /\ op = Idle /\ UNCHANGED <<policy, index>>
  BY DEF Release, ledger
<1>2. CASE Releasable(b) /\ Due(b)
  <2>1. /\ Save(b, [batches[b] EXCEPT !.cohort = MembersOf(b)])
        /\ op' = At("validate", b, NoReservation)
    BY <1>2 DEF Release
  <2>2. batches[b] \in BatchRecords
    BY DEF TypeInv, TypeOK
  <2>3. PICK new : new = [batches[b] EXCEPT !.cohort = MembersOf(b)]
    OBVIOUS
  <2>4. /\ new \in BatchRecords /\ new.cohort = MembersOf(b)
        /\ new.members = batches[b].members /\ new.head = batches[b].head
        /\ new.pending = batches[b].pending
    BY <2>2, <2>3 DEF BatchRecords, MembersOf
  <2>5. Save(b, new)
    BY <2>1, <2>3
  <2>6. AllSteady
    BY <2>4, <2>5, SavedSteady
  <2>7. batches'[b] = new /\ \A c \in Batches : c # b => batches'[c] = batches[c]
    BY <2>4, <2>5, SaveFacts DEF TypeInv, TypeOK
  <2>8. op'.at = "validate" /\ op'.b = b /\ op'.r = NoReservation
    BY <2>1 DEF At
  <2> QED BY <1>1, <1>2, <2>4, <2>6, <2>7, <2>8
<1>3. CASE ~(Releasable(b) /\ Due(b))
  <2>1. op' = Idle /\ UNCHANGED batches
    BY <1>1, <1>3 DEF Release, ledger
  <2> QED BY <1>1, <2>1, NothingSaved, UnmovedSteady
<1> QED BY <1>2, <1>3

\* Whatever leads up to a pull request leaves every batch as it was.
PublicationStep ==
    \/ Validate \/ Snapshot \/ snapshot_ref \/ SettleSnapshot
    \/ Publish \/ create_customer_pr \/ SettleCreate
    \/ update_customer_pr \/ SettleUpdate

\* No step of a publication moves a batch.
LEMMA PublicationUnmoved == ASSUME TypeInv, PublicationStep PROVE AllUnmoved
  BY ValidateUnmoved, SnapshotUnmoved, QuietUnmoved, SettleSnapshotUnmoved, PublishUnmoved,
     SettleCreateUnmoved, SettleUpdateUnmoved DEF PublicationStep

\* A publication has no merge under way and pushes to no integration branch.
LEMMA PublicationOp ==
    ASSUME TypeInv, PublicationStep
    PROVE  /\ op'.at \in {"join", "derive"} \cup Mutating => op'.r.kind # "integrate_member"
           /\ UNCHANGED <<policy, index, intRef, edits>>
<1>1. UNCHANGED <<policy, index, intRef, edits>>
  BY DEF PublicationStep, Validate, Snapshot, snapshot_ref, SettleSnapshot, Publish,
     create_customer_pr, SettleCreate, update_customer_pr, SettleUpdate, ledger, remote
<1>2. CASE op' = Idle
  BY <1>1, <1>2, AfterIdle
<1>3. CASE Validate \/ Snapshot
  <2>1. op \in Ops
    BY <1>3, OpFacts DEF Validate, Snapshot
  <2>2. \/ op' = Idle
        \/ op' = [op EXCEPT !.at = "snapshot"]
        \/ op' = [op EXCEPT !.at = "publish"]
        \/ op' = [op EXCEPT !.at = "reserve",
                     !.r = [kind |-> "snapshot_ref", for |-> {},
                            sha |-> batches[op.b].head, old |-> snapRef[op.b]]]
    BY <1>3 DEF Validate, Snapshot
  <2>3. ASSUME NEW step \in {"snapshot", "publish"}, op' = [op EXCEPT !.at = step]
        PROVE  op'.at \notin {"join", "derive"} \cup Mutating
    BY <2>1, <2>3 DEF Ops, Mutating
  <2>4. ASSUME NEW r, r.kind = "snapshot_ref", op' = [op EXCEPT !.at = "reserve", !.r = r]
        PROVE  op'.r.kind # "integrate_member"
    BY <2>1, <2>4 DEF Ops
  <2>5. CASE op' = [op EXCEPT !.at = "reserve",
                       !.r = [kind |-> "snapshot_ref", for |-> {},
                              sha |-> batches[op.b].head, old |-> snapRef[op.b]]]
    <3> DEFINE r == [kind |-> "snapshot_ref", for |-> {},
                     sha |-> batches[op.b].head, old |-> snapRef[op.b]]
    <3>1. r.kind = "snapshot_ref" /\ op' = [op EXCEPT !.at = "reserve", !.r = r]
      BY <2>5
    <3> HIDE DEF r
    <3> QED BY <1>1, <2>4, <3>1
  <2> QED BY <1>1, <1>2, <2>2, <2>3, <2>5
<1>4. CASE SettleSnapshot
  <2>1. op \in Ops /\ op.at = "settle"
    BY <1>4, OpFacts DEF SettleSnapshot
  <2>2. op' = Idle \/ op' = [op EXCEPT !.at = "publish", !.r = NoReservation, !.got = "none"]
    BY <1>4 DEF SettleSnapshot
  <2> QED BY <1>1, <1>2, <2>1, <2>2 DEF Ops, Mutating
<1>5. CASE snapshot_ref \/ create_customer_pr \/ update_customer_pr
  <2>1. op \in Ops /\ op.r.kind # "integrate_member"
    BY <1>5, OpFacts DEF snapshot_ref, create_customer_pr, update_customer_pr, Calls
  <2>2. \E result : op' = [op EXCEPT !.at = "finish", !.got = result]
    BY <1>5 DEF snapshot_ref, create_customer_pr, update_customer_pr, Answered
  <2> QED BY <1>1, <2>1, <2>2 DEF Ops
<1>6. CASE Publish
  <2>1. \/ op' = Idle
        \/ op' = At("reserve", op.b, PrReservation("update_customer_pr", op.b))
        \/ op' = At("reserve", op.b, PrReservation("create_customer_pr", op.b))
    BY <1>6 DEF Publish
  <2> QED BY <1>1, <1>2, <2>1 DEF At, PrReservation
<1>7. CASE SettleCreate \/ SettleUpdate
  BY <1>1, <1>2, <1>7 DEF SettleCreate, SettleUpdate
<1> QED BY <1>3, <1>4, <1>5, <1>6, <1>7 DEF PublicationStep

\* Publishing keeps the ledger true.
LEMMA LedgerPublication ==
    ASSUME TypeInv, TypeInv', Ledger, PublicationStep
    PROVE  Ledger'
  BY PublicationUnmoved, UnmovedSteady, PublicationOp, NotGrown, LedgerSteady

\* Giving the operation up keeps the ledger true.
LEMMA LedgerIdle ==
    ASSUME TypeInv, TypeInv', Ledger, AllSteady, UNCHANGED intRef, op' = Idle
    PROVE  Ledger'
  BY AfterIdle, NotGrown, LedgerSteady

\* The beginning of a release keeps the ledger true.
LEMMA LedgerRelease ==
    ASSUME TypeInv, TypeInv', Ledger, NEW b \in Batches, Release(b)
    PROVE  Ledger'
<1>1. AllSteady /\ UNCHANGED intRef /\ (op' = Idle \/ op'.at = "validate")
  BY ReleaseSteady DEF remote
<1>2. op'.at \notin {"join", "derive"} \cup Mutating
  BY <1>1, AfterIdle DEF Mutating
<1> QED BY <1>1, <1>2, NotGrown, LedgerSteady

\* The beginning of reconcile_unknown keeps the ledger true.
LEMMA LedgerReconcile ==
    ASSUME TypeInv, TypeInv', Ledger, NEW b \in Batches, reconcile_unknown(b)
    PROVE  Ledger'
<1>1. AllSteady /\ UNCHANGED intRef /\ op'.at = "reconcile"
  BY QuietUnmoved, UnmovedSteady DEF reconcile_unknown, remote, At
<1>2. op'.at \notin {"join", "derive"} \cup Mutating
  BY <1>1 DEF Mutating
<1> QED BY <1>1, <1>2, NotGrown, LedgerSteady

\* Reserving a mutation keeps the ledger true.
LEMMA LedgerReserve == ASSUME TypeInv, TypeInv', Ledger, Reserve PROVE Ledger'
<1>1. PICK b : b = op.b
  OBVIOUS
<1>2. /\ AllSteady /\ UNCHANGED intRef /\ op.at = "reserve" /\ op'.at = "call"
      /\ op'.b = op.b /\ op'.r = op.r
  BY <1>1, ReserveSteady DEF remote
<1>3. ~Confirmed("integrate_member")'
  BY <1>2 DEF Confirmed, Answering
<1>4. op.at \in Mutating /\ op'.at \in Mutating
  BY <1>2 DEF Mutating
<1> QED BY <1>2, <1>3, <1>4, NotGrown, LedgerGoesOn

\* Saving an outcome keeps the ledger true.
LEMMA LedgerFinish == ASSUME TypeInv, TypeInv', Ledger, Finish PROVE Ledger'
<1>1. PICK b : b = op.b
  OBVIOUS
<1>2. /\ AllSteady /\ UNCHANGED intRef /\ op.at = "finish" /\ op'.at = "settle"
      /\ op'.b = op.b /\ op'.r = op.r /\ op'.got = op.got
  BY <1>1, FinishSteady DEF remote
<1>3. Confirmed("integrate_member")' => Confirmed("integrate_member")
  BY <1>2 DEF Confirmed, Answering
<1>4. op.at \in Mutating /\ op'.at \in Mutating
  BY <1>2 DEF Mutating
<1> QED BY <1>2, <1>3, <1>4, NotGrown, LedgerGoesOn

\* The environment: what the butler is at does not change.
LEMMA EnvironmentOp ==
    ASSUME TypeInv, (\E i \in DOMAIN prs : CustomerAnswers(i)) \/ TargetMoves \/ ExternalEdit
    PROVE  op'.at = op.at /\ op'.b = op.b /\ op'.r = op.r /\ op'.got = op.got
<1>1. op \in Ops
  BY DEF TypeInv, TypeOK, Ops
<1>2. (\E m : op' = [op EXCEPT !.moved = m]) \/ op' = op
  BY DEF CustomerAnswers, TargetMoves, ExternalEdit
<1> QED BY <1>1, <1>2 DEF Ops


\* The customer, the target and other people's pushes keep the ledger true.
LEMMA LedgerEnvironment ==
    ASSUME TypeInv, TypeInv', Ledger,
           (\E i \in DOMAIN prs : CustomerAnswers(i)) \/ TargetMoves \/ ExternalEdit
    PROVE  Ledger'
<1>1. AllSteady
  BY QuietUnmoved, UnmovedSteady
<1>2. op'.at = op.at /\ op'.b = op.b /\ op'.r = op.r /\ op'.got = op.got
  BY EnvironmentOp
<1>3. Grown
  <2>1. CASE UNCHANGED intRef
    BY <2>1, NotGrown
  <2>2. CASE ExternalEdit /\ intRef' = Edited(IF intRef = None THEN Base ELSE intRef)
    <3> SUFFICES ASSUME NEW c \in Commits, Included(c, intRef)
                 PROVE  Included(c, intRef')
      BY DEF Grown
    <3>1. intRef \in Commits /\ intRef' = Edited(intRef)
      BY <2>2 DEF Included, TypeInv, TypeOK, Refs
    <3>2. /\ intRef' \in Commits /\ intRef'.tickets = intRef.tickets
          /\ intRef'.edits = intRef.edits \cup {edits + 1}
      BY <2>2, <3>1, EditedCommit DEF ExternalEdit, TypeInv, TypeOK
    <3> QED BY <3>1, <3>2, NoneAssumption DEF Included, Ancestor
  <2> QED BY <2>1, <2>2 DEF CustomerAnswers, TargetMoves, ExternalEdit, remote
<1>4. Confirmed("integrate_member")' => Confirmed("integrate_member")
  BY <1>2 DEF Confirmed
<1> QED BY <1>1, <1>2, <1>3, <1>4, LedgerGoesOn

\* Creating the integration branch keeps the ledger true.
LEMMA LedgerCreateBranch ==
    ASSUME TypeInv, TypeInv', Ledger, create_integration_branch
    PROVE  Ledger'
<1>1. AllSteady
  BY QuietUnmoved, UnmovedSteady
<1>2. op.r.kind = "create_integration_branch" /\ op.at = "call" /\ op \in Ops
  BY OpFacts DEF create_integration_branch, Calls
<1>3. op'.r = op.r
  <2>1. \E result : op' = [op EXCEPT !.at = "finish", !.got = result]
    BY DEF create_integration_branch, Answered
  <2> QED BY <1>2, <2>1 DEF Ops
<1>4. Grown
  <2>1. op.r.old = None
    BY <1>2 DEF TypeInv, OpInv, Doing, Mutating
  <2>2. UNCHANGED intRef \/ intRef = None
    BY <2>1 DEF create_integration_branch
  <2>3. intRef = None => Grown
    BY DEF Grown, Included
  <2> QED BY <2>2, <2>3, NotGrown
<1> QED BY <1>1, <1>2, <1>3, <1>4, LedgerSteady

\* A merge adds its ticket to the branch it was based on, or does not land; it
\* is confirmed only when it landed.
LEMMA IntegrateFacts ==
    ASSUME TypeInv, integrate_reviewed
    PROVE  /\ op.at = "call" /\ op.r.kind = "integrate_member" /\ op'.at = "finish"
           /\ op'.b = op.b /\ op'.r = op.r
           /\ \/ UNCHANGED intRef /\ op'.got # "confirmed"
              \/ /\ intRef = op.r.old /\ intRef \in Commits /\ intRef' \in Commits
                 /\ intRef'.tickets = intRef.tickets \cup op.r.for
                 /\ intRef'.edits = intRef.edits
<1>1. op.at = "call" /\ op.r.kind = "integrate_member" /\ op \in Ops /\ op.r \in Reservations
  BY OpFacts DEF integrate_reviewed, Calls
<1>2. PICK result : op' = [op EXCEPT !.at = "finish", !.got = result]
                    /\ \/ UNCHANGED intRef /\ result \in {"conflict", "unknown"}
                       \/ intRef = op.r.old /\ intRef' = [intRef EXCEPT !.tickets = @ \cup op.r.for]
  BY DEF integrate_reviewed, Answered, Answers
<1>3. op'.at = "finish" /\ op'.b = op.b /\ op'.r = op.r /\ op'.got = result
  BY <1>1, <1>2 DEF Ops
<1>4. CASE intRef = op.r.old /\ intRef' = [intRef EXCEPT !.tickets = @ \cup op.r.for]
  <2>1. op.r.old \in Commits /\ op.r.for \subseteq Tickets
    BY <1>1 DEF TypeInv, OpInv, Doing, Mutating, Reservations
  <2>2. /\ intRef \in Commits /\ intRef' \in Commits
        /\ intRef'.tickets = intRef.tickets \cup op.r.for
        /\ intRef'.edits = intRef.edits
    BY <1>4, <2>1 DEF Commits
  <2> QED BY <1>1, <1>3, <1>4, <2>2
<1>5. CASE UNCHANGED intRef /\ result \in {"conflict", "unknown"}
  BY <1>1, <1>3, <1>5
<1> QED BY <1>2, <1>4, <1>5

\* Pushing a merge keeps the ledger true, whatever its reply.
LEMMA LedgerIntegrate ==
    ASSUME TypeInv, TypeInv', Ledger, integrate_reviewed
    PROVE  Ledger'
<1>1. AllSteady
  BY QuietUnmoved, UnmovedSteady
<1>2. /\ op.at \in Mutating /\ op'.at \in Mutating /\ op'.b = op.b /\ op'.r = op.r
  BY IntegrateFacts DEF Mutating
<1>3. Grown
  <2>1. CASE UNCHANGED intRef
    BY <2>1, NotGrown
  <2>2. CASE /\ intRef' \in Commits /\ intRef'.tickets = intRef.tickets \cup op.r.for
             /\ intRef'.edits = intRef.edits
    BY <2>2, NoneAssumption DEF Grown, Included, Ancestor
  <2> QED BY <2>1, <2>2, IntegrateFacts
<1>4. Confirmed("integrate_member")' => op.r.for \subseteq intRef'.tickets
  BY IntegrateFacts DEF Confirmed
<1> QED BY <1>1, <1>2, <1>3, <1>4, LedgerGoesOn

\* The confirmed creation of the branch goes on to join, from an empty base.
LEMMA LedgerJoining ==
    ASSUME TypeInv, TypeInv', Ledger, AllSteady, UNCHANGED intRef, op'.at = "join",
           op'.r.old \in Commits, Included(op'.r.old, intRef)
    PROVE  Ledger'
<1>1. LedgerIsTrue'
  BY HeadsStay, NotGrown DEF LedgerIsTrue, AllSteady, Batches
<1>2. \A b \in Batches : HeadOf(b)' = Base \/ Included(HeadOf(b), intRef)'
  BY HeadsStay, NotGrown DEF AllSteady
<1> QED BY <1>1, <1>2
        DEF Ledger, LedgerInv, Doing, Deriving, Confirmed, Mutating, Answering, Batches, Included

\* What collecting a new ticket saves: nothing, or a batch without members whose
\* head is the branch as it was read.
Fresh(b, head) ==
    /\ \A c \in Batches : c # b => batches'[c] = batches[c]
    /\ snapRef[b] = None /\ HeadOf(b)' = head
    /\ MembersOf(b) = {} /\ MembersOf(b)' = {} /\ Kept(b)' = {}
    /\ batches[b].pending = {} /\ batches'[b].pending = {} /\ batches'[b].cohort = {}

\* What collecting a ticket begins with, and the batch it opens.
LEMMA CollectFacts ==
    ASSUME TypeInv, NEW t \in Tickets, Collect(t)
    PROVE  /\ op = Idle /\ index[t] = NoBatch /\ UNCHANGED <<policy, index, remote>>
           /\ intRef # None => /\ intRef \in Commits /\ op'.at = "join"
                               /\ op'.r = Merge(t, intRef)
           /\ intRef = None => /\ op'.at = "reserve" /\ op'.r.for = {t}
                               /\ op'.r.kind = "create_integration_branch"
           /\ \/ UNCHANGED batches
              \/ \E b \in Batches : Fresh(b, IF intRef = None THEN Base ELSE intRef)
<1>1. op = Idle /\ index[t] = NoBatch /\ UNCHANGED <<policy, index, remote>>
  BY DEF Collect, Collecting, ledger
<1>2. intRef # None => intRef \in Commits
  BY DEF TypeInv, TypeOK, Refs
<1>3. CASE intRef # None /\ Open # {}
  <2>1. op' = At("join", Latest(Open), Merge(t, intRef)) /\ UNCHANGED batches
    BY <1>3 DEF Collect, ledger
  <2> QED BY <1>1, <1>2, <1>3, <2>1 DEF At
<1>4. CASE ~(intRef # None /\ Open # {})
  <2>0. PICK b \in Batches : b = last + 1 /\ b > last
    <3>1. last < MaxBatches
      BY <1>4 DEF Collect
    <3> QED BY <3>1, DeliveryAssumption DEF TypeInv, TypeOK, Batches
  <2> DEFINE head == IF intRef = None THEN Base ELSE intRef
  <2>1. /\ last < MaxBatches /\ batches' = [batches EXCEPT ![b] = NewBatch("collecting", head)]
        /\ op' = IF intRef = None
                   THEN At("reserve", b, [NoReservation EXCEPT !.for = {t}])
                   ELSE At("join", b, Merge(t, intRef))
    BY <1>4, <2>0 DEF Collect
  <2>2. intRef = None => /\ op'.at = "reserve" /\ op'.r.for = {t}
                         /\ op'.r.kind = "create_integration_branch"
    BY <2>1 DEF At, NoReservation
  <2>3. intRef # None => op'.at = "join" /\ op'.r = Merge(t, intRef)
    BY <2>1 DEF At
  <2>5. head \in Commits
    BY <1>2, BaseIsCommit
  <2> HIDE DEF head
  <2>6. batches[b] = NewBatch("absent", Base) /\ snapRef[b] = None
    BY <2>0 DEF TypeInv, BatchInv, BatchOK
  <2>7. /\ batches[b].pending = {} /\ \A u \in Tickets : batches[b].members[u] = "none"
    BY <2>6, BaseIsCommit, NewBatchFacts DEF States
  <2>8. PICK new \in BatchRecords :
           /\ new = NewBatch("collecting", head) /\ new.head = head
           /\ \A u \in Tickets : new.members[u] = "none"
           /\ new.pending = {} /\ new.cohort = {}
    BY <2>5, NewBatchFacts DEF States
  <2>9. batches'[b] = new /\ \A c \in Batches : c # b => batches'[c] = batches[c]
    BY <2>1, <2>8, SaveFacts DEF Save, TypeInv, TypeOK
  <2>10. /\ MembersOf(b) = {} /\ MembersOf(b)' = {} /\ Kept(b)' = {} /\ HeadOf(b)' = head
    <3>1. MembersOf(b) = {}
      BY <2>7 DEF MembersOf
    <3>2. \A u \in Tickets : batches'[b].members[u] = "none"
      BY <2>8, <2>9
    <3>3. MembersOf(b)' = {} /\ Kept(b)' = {}
      BY <3>2 DEF MembersOf, Kept
    <3>4. HeadOf(b)' = head
      BY <2>8, <2>9 DEF HeadOf
    <3> QED BY <3>1, <3>3, <3>4
  <2>11. Fresh(b, head)
    BY <2>6, <2>7, <2>8, <2>9, <2>10 DEF Fresh
  <2> QED BY <1>1, <1>2, <2>2, <2>3, <2>11 DEF head
<1> QED BY <1>3, <1>4

\* Beginning to collect a ticket keeps the ledger true.
LEMMA LedgerCollect ==
    ASSUME TypeInv, TypeInv', Ledger, NEW t \in Tickets, Collect(t)
    PROVE  Ledger'
<1>1. UNCHANGED intRef
  BY CollectFacts DEF remote
<1>2. ASSUME NEW c \in Batches
      PROVE  /\ HeadOf(c)' = Base \/ Included(HeadOf(c), intRef)'
             /\ \A u \in Tickets : batches'[c].members[u] \in {"integrated", "in_delivery"} =>
                /\ u \in batches'[c].head.tickets
                /\ intRef' # None /\ Ancestor(batches'[c].head, intRef')
  <2>1. CASE Steady(c)
    BY <1>1, <2>1, NotGrown, HeadsStay
  <2>2. CASE Fresh(c, IF intRef = None THEN Base ELSE intRef)
    <3>1. HeadOf(c)' = Base \/ Included(HeadOf(c), intRef)'
      BY <1>1, <2>2 DEF Fresh, Included, Ancestor
    <3>2. \A u \in Tickets : batches'[c].members[u] \notin {"integrated", "in_delivery"}
      BY <2>2 DEF Fresh, Kept
    <3> QED BY <3>1, <3>2
  <2>3. UNCHANGED batches => Steady(c)
    BY DEF Steady, HeadOf, MembersOf, Kept
  <2>4. ASSUME NEW b \in Batches, Fresh(b, IF intRef = None THEN Base ELSE intRef), b # c
        PROVE  Steady(c)
    BY <2>4 DEF Fresh, Steady, HeadOf, MembersOf, Kept
  <2> QED BY <2>1, <2>2, <2>3, <2>4, CollectFacts
<1>3. LedgerIsTrue'
  BY <1>2 DEF LedgerIsTrue, Batches
<1>4. CASE intRef # None
  <2>1. op'.at = "join" /\ op'.r.old = intRef
    <3>1. op'.at = "join" /\ op'.r = Merge(t, intRef) /\ intRef \in Commits
      BY <1>4, CollectFacts
    <3> QED BY <3>1, MergeTyped
  <2>2. Included(op.r.old, intRef)'
    BY <1>1, <1>4, <2>1 DEF Included, Ancestor
  <2> QED BY <1>2, <1>3, <2>1, <2>2
          DEF Ledger, LedgerInv, Doing, Deriving, Confirmed, Mutating, Answering, Batches, Included
<1>5. CASE intRef = None
  <2>1. op'.at = "reserve" /\ op'.r.kind = "create_integration_branch"
    BY <1>5, CollectFacts
  <2> QED BY <1>2, <1>3, <2>1
          DEF Ledger, LedgerInv, Doing, Deriving, Confirmed, Mutating, Answering, Batches, Included
<1> QED BY <1>4, <1>5

\* A member joins: the batch keeps its head, and nothing more is kept.
LEMMA JoinSteady ==
    ASSUME TypeInv, Join
    PROVE  \/ AllUnmoved /\ op' = Idle /\ UNCHANGED <<policy, index, remote>>
           \/ \E b \in Batches, t \in Tickets :
                /\ b = op.b /\ op.r.for = {t} /\ index[t] = NoBatch /\ HeadOf(b) = op.r.old
                /\ t \notin MembersOf(b) /\ MembersOf(b)' = MembersOf(b) \cup {t}
                /\ HeadOf(b)' = HeadOf(b) /\ Kept(b)' \subseteq Kept(b)
                /\ batches'[b].pending = batches[b].pending
                /\ batches'[b].cohort = batches[b].cohort
                /\ \A c \in Batches : c # b => batches'[c] = batches[c]
                /\ index' = [index EXCEPT ![t] = b]
                /\ op.at = "join" /\ op.r.kind = "integrate_member"
                /\ op'.at = "reserve" /\ op'.b = b /\ op'.r = op.r
                /\ UNCHANGED <<policy, remote>>
<1>1. PICK b \in Batches, t \in Tickets :
             /\ b = op.b /\ b \in 1 .. last /\ op.r.for = {t} /\ index[t] = NoBatch
             /\ batches[b].members[t] = "none"
             /\ \/ SetState(b, "blocked_external_edit") /\ op' = Idle /\ index' = index
                \/ /\ batches[b].head = op.r.old
                   /\ Save(b, [batches[b] EXCEPT !.members[t] = "approved"])
                   /\ index' = [index EXCEPT ![t] = b]
                   /\ op' = At("reserve", b, op.r)
  BY JoinFacts
<1>2. UNCHANGED <<policy, remote>> /\ op.at = "join" /\ op.r.kind = "integrate_member"
  BY DEF Join, TypeInv, OpInv
<1>3. CASE SetState(b, "blocked_external_edit") /\ op' = Idle /\ index' = index
  BY <1>2, <1>3, BlockUnmoved DEF States
<1>4. CASE /\ batches[b].head = op.r.old
           /\ Save(b, [batches[b] EXCEPT !.members[t] = "approved"])
           /\ index' = [index EXCEPT ![t] = b]
           /\ op' = At("reserve", b, op.r)
  <2>1. batches[b] \in BatchRecords
    BY DEF TypeInv, TypeOK
  <2> DEFINE new == [batches[b] EXCEPT !.members[t] = "approved"]
  <2>2. /\ new \in BatchRecords
        /\ new.members[t] = "approved" /\ new.head = batches[b].head
        /\ new.pending = batches[b].pending /\ new.cohort = batches[b].cohort
        /\ \A u \in Tickets : u # t => new.members[u] = batches[b].members[u]
    BY <2>1 DEF BatchRecords, Statuses
  <2> HIDE DEF new
  <2>3. batches'[b] = new /\ \A c \in Batches : c # b => batches'[c] = batches[c]
    <3>1. Save(b, new)
      BY <1>4 DEF new
    <3> QED BY <2>2, <3>1, SaveFacts DEF TypeInv, TypeOK
  <2>4. /\ t \notin MembersOf(b) /\ MembersOf(b)' = MembersOf(b) \cup {t}
        /\ Kept(b)' \subseteq Kept(b) /\ HeadOf(b)' = HeadOf(b)
    BY <1>1, <2>2, <2>3 DEF MembersOf, Kept, HeadOf
  <2>5. op'.at = "reserve" /\ op'.b = b /\ op'.r = op.r
    BY <1>4 DEF At
  <2> QED BY <1>1, <1>2, <1>4, <2>2, <2>3, <2>4, <2>5 DEF HeadOf
<1> QED BY <1>1, <1>3, <1>4

\* Entering a ticket in its batch keeps the ledger true.
LEMMA LedgerJoin == ASSUME TypeInv, TypeInv', Ledger, Join PROVE Ledger'
<1>1. CASE AllUnmoved /\ op' = Idle /\ UNCHANGED <<policy, index, remote>>
  BY <1>1, UnmovedSteady, LedgerIdle DEF remote
<1>2. CASE \E b \in Batches, t \in Tickets :
                /\ b = op.b /\ op.r.for = {t} /\ index[t] = NoBatch /\ HeadOf(b) = op.r.old
                /\ t \notin MembersOf(b) /\ MembersOf(b)' = MembersOf(b) \cup {t}
                /\ HeadOf(b)' = HeadOf(b) /\ Kept(b)' \subseteq Kept(b)
                /\ batches'[b].pending = batches[b].pending
                /\ batches'[b].cohort = batches[b].cohort
                /\ \A c \in Batches : c # b => batches'[c] = batches[c]
                /\ index' = [index EXCEPT ![t] = b]
                /\ op.at = "join" /\ op.r.kind = "integrate_member"
                /\ op'.at = "reserve" /\ op'.b = b /\ op'.r = op.r
                /\ UNCHANGED <<policy, remote>>
  <2>1. PICK b \in Batches :
                /\ b = op.b /\ HeadOf(b) = op.r.old
                /\ HeadOf(b)' = HeadOf(b) /\ Kept(b)' \subseteq Kept(b)
                /\ \A c \in Batches : c # b => batches'[c] = batches[c]
                /\ op.at = "join" /\ op.r.kind = "integrate_member"
                /\ op'.at = "reserve" /\ op'.b = b /\ op'.r = op.r
                /\ UNCHANGED intRef
    BY <1>2 DEF remote
  <2>2. HeadOf(b) \in Commits /\ Included(HeadOf(b), intRef)
    BY <2>1, HeadTyped DEF Ledger, LedgerInv
  <2>3. ASSUME NEW c \in Batches
        PROVE  /\ HeadOf(c)' = Base \/ Included(HeadOf(c), intRef)'
               /\ \A u \in Tickets : batches'[c].members[u] \in {"integrated", "in_delivery"} =>
                  /\ u \in batches'[c].head.tickets
                  /\ intRef' # None /\ Ancestor(batches'[c].head, intRef')
    <3>1. CASE c = b
      <4>1. HeadOf(c)' = Base \/ Included(HeadOf(c), intRef)'
        BY <2>1, <2>2, <3>1 DEF Included
      <4>2. ASSUME NEW u \in Tickets, batches'[c].members[u] \in {"integrated", "in_delivery"}
            PROVE  u \in batches'[c].head.tickets
        <5>1. u \in Kept(b)
          BY <2>1, <3>1, <4>2 DEF Kept
        <5> QED BY <2>1, <3>1, <5>1, KeptIn DEF HeadOf
      <4> QED BY <2>1, <2>2, <3>1, <4>1, <4>2 DEF HeadOf, Included
    <3>2. CASE c # b
      <4>1. Steady(c)
        BY <2>1, <3>2 DEF Steady, HeadOf, MembersOf, Kept
      <4> QED BY <2>1, <4>1, NotGrown, HeadsStay
    <3> QED BY <3>1, <3>2
  <2>4. LedgerIsTrue'
    BY <2>3 DEF LedgerIsTrue, Batches
  <2>5. HeadOf(op.b)' = op'.r.old
    BY <2>1 DEF HeadOf
  <2>6. Included(op.r.old, intRef)'
    BY <2>1, <2>2 DEF Included
  <2> QED BY <2>1, <2>3, <2>4, <2>5, <2>6
          DEF Ledger, LedgerInv, Doing, Deriving, Confirmed, Mutating, Answering, Batches, Included
<1> QED BY <1>1, <1>2, JoinSteady

\* The outcome of the branch creation moves no batch; the merge starts at the base.
LEMMA SettleBranchFacts ==
    ASSUME TypeInv, SettleBranch
    PROVE  /\ UNCHANGED <<policy, index, remote>> /\ AllUnmoved
           /\ op.at = "settle" /\ op.r.kind = "create_integration_branch"
           /\ \/ op' = Idle
              \/ /\ op'.at = "join" /\ op'.r.old = Base /\ intRef # None
                 /\ op'.r.for = op.r.for
<1>1. op.at = "settle" /\ op.r.kind = "create_integration_branch"
      /\ UNCHANGED <<policy, index, remote>>
  BY DEF SettleBranch
<1>2. op.b \in Batches
  BY <1>1, OpFacts
<1>3. CASE op.got = "confirmed"
  <2>1. op' = At("join", op.b, Merge(TicketOf(op.r), Base)) /\ UNCHANGED batches
    BY <1>3 DEF SettleBranch
  <2>2. PICK t \in Tickets : op.r.for = {t}
    BY <1>1 DEF TypeInv, OpInv, Doing, Mutating
  <2>3. TicketOf(op.r) = t
    BY <2>2, TicketOfOne
  <2>4. op'.at = "join" /\ op'.r = Merge(t, Base)
    BY <2>1, <2>3 DEF At
  <2>5. op'.r.old = Base /\ op'.r.for = op.r.for
    BY <2>2, <2>4, MergeTyped, BaseIsCommit
  <2>6. intRef # None
    BY <1>1, <1>3 DEF TypeInv, OpInv, Confirmed, Answering
  <2> QED BY <1>1, <2>1, <2>4, <2>5, <2>6, NothingSaved
<1>4. CASE op.got # "confirmed"
  <2>1. SetState(op.b, "blocked_unknown") /\ op' = Idle
    BY <1>4 DEF SettleBranch
  <2> QED BY <1>1, <1>2, <2>1, BlockUnmoved DEF States
<1> QED BY <1>3, <1>4

\* Acting on the outcome of the branch creation keeps the ledger true.
LEMMA LedgerSettleBranch == ASSUME TypeInv, TypeInv', Ledger, SettleBranch PROVE Ledger'
<1>1. AllSteady /\ UNCHANGED intRef
  BY SettleBranchFacts, UnmovedSteady DEF remote
<1>2. CASE op' = Idle
  BY <1>1, <1>2, LedgerIdle
<1>3. CASE op'.at = "join" /\ op'.r.old = Base /\ intRef # None
  <2>1. Included(Base, intRef)
    BY <1>3 DEF Included, Ancestor, Base
  <2> QED BY <1>1, <1>3, <2>1, BaseIsCommit, LedgerJoining
<1> QED BY <1>2, <1>3, SettleBranchFacts

\* The end of a merge: the member is kept, with a head that holds it, or it is
\* blocked, and the head stays.
LEMMA SettleMergeFacts ==
    ASSUME TypeInv, SettleMerge
    PROVE  \E b \in Batches, t \in Tickets :
             /\ b = op.b /\ op.r.for = {t} /\ UNCHANGED <<policy, index, remote>>
             /\ op.at = "settle" /\ op.r.kind = "integrate_member" /\ op' = Idle
             /\ \A c \in Batches : c # b => batches'[c] = batches[c]
             /\ MembersOf(b)' = MembersOf(b)
             /\ batches'[b].pending = batches[b].pending
             /\ batches'[b].cohort = batches[b].cohort
             /\ \/ /\ op.got = "confirmed" /\ Kept(b)' \subseteq Kept(b) \cup {t}
                   /\ HeadOf(b)'.tickets = HeadOf(b).tickets \cup {t}
                   /\ HeadOf(b)'.edits = HeadOf(b).edits
                \/ /\ op.got \in {"unknown", "conflict"} /\ HeadOf(b)' = HeadOf(b)
                   /\ Kept(b)' \subseteq Kept(b)
<1>1. op.at = "settle" /\ op.r.kind = "integrate_member" /\ op' = Idle
      /\ UNCHANGED <<policy, index, remote>>
  BY DEF SettleMerge
<1>2. PICK b \in Batches : b = op.b
  BY <1>1, OpFacts
<1>3. PICK t \in Tickets : op.r.for = {t} /\ batches[b].members[t] # "none"
  BY <1>1, <1>2 DEF TypeInv, OpInv, Doing, Mutating, MembersOf
<1>4. PICK batch \in BatchRecords, r \in Reservations, got \in Results :
         batch = batches[b] /\ r = op.r /\ got = op.got
  BY <1>1, <1>2, OpFacts DEF Ops
<1>5. got # "none" /\ r.for = {t}
  BY <1>1, <1>3, <1>4 DEF TypeInv, OpInv, Answering
<1>6. PICK new : new = AfterMerge(batch, r, got)
  OBVIOUS
<1>7. /\ new \in BatchRecords /\ new.pending = batch.pending /\ new.cohort = batch.cohort
      /\ \A u \in Tickets : u # t => new.members[u] = batch.members[u]
  BY <1>5, <1>6, AfterMergeFacts
<1>8. got = "confirmed" => /\ new.members[t] = "integrated"
                           /\ new.head.tickets = batch.head.tickets \cup {t}
                           /\ new.head.edits = batch.head.edits
  BY <1>5, <1>6, AfterMergeFacts
<1>9. got # "confirmed" => new.head = batch.head /\ new.members[t] = "blocked"
  BY <1>5, <1>6, AfterMergeFacts
<1>10. Save(b, new)
  BY <1>2, <1>4, <1>6 DEF SettleMerge
<1>11. batches'[b] = new /\ \A c \in Batches : c # b => batches'[c] = batches[c]
  BY <1>7, <1>10, SaveFacts DEF TypeInv, TypeOK
<1>12. new.members[t] # "none"
  BY <1>8, <1>9
<1>13. MembersOf(b)' = MembersOf(b)
  BY <1>3, <1>4, <1>7, <1>11, <1>12 DEF MembersOf
<1>14. Kept(b)' \subseteq Kept(b) \cup {t}
  BY <1>4, <1>7, <1>11 DEF Kept
<1>15. CASE got = "confirmed"
  BY <1>1, <1>2, <1>3, <1>4, <1>7, <1>8, <1>11, <1>13, <1>14, <1>15 DEF HeadOf
<1>16. CASE got # "confirmed"
  <2>1. Kept(b)' \subseteq Kept(b)
    BY <1>4, <1>7, <1>9, <1>11, <1>16 DEF Kept
  <2>2. got \in {"unknown", "conflict"}
    BY <1>5, <1>16 DEF Results
  <2> QED BY <1>1, <1>2, <1>3, <1>4, <1>7, <1>9, <1>11, <1>13, <1>16, <2>1, <2>2 DEF HeadOf
<1> QED BY <1>15, <1>16

\* One batch has another head, on the integration branch, that holds what is
\* kept; nothing is under way.
LEMMA LedgerNewHead ==
    ASSUME TypeInv, TypeInv', Ledger, UNCHANGED intRef, NEW b \in Batches,
           \A c \in Batches : c # b => batches'[c] = batches[c],
           Included(HeadOf(b)', intRef), Kept(b)' \subseteq HeadOf(b)'.tickets,
           op'.at \notin {"join", "derive"} \cup Mutating
    PROVE  Ledger'
<1>1. ASSUME NEW c \in Batches
      PROVE  /\ HeadOf(c)' = Base \/ Included(HeadOf(c), intRef)'
             /\ \A u \in Tickets : batches'[c].members[u] \in {"integrated", "in_delivery"} =>
                /\ u \in batches'[c].head.tickets
                /\ intRef' # None /\ Ancestor(batches'[c].head, intRef')
  <2>1. CASE c = b
    BY <2>1 DEF Included, HeadOf, Kept
  <2>2. CASE c # b
    <3>1. Steady(c)
      BY <2>2 DEF Steady, HeadOf, MembersOf, Kept
    <3> QED BY <3>1, NotGrown, HeadsStay
  <2> QED BY <2>1, <2>2
<1>2. LedgerIsTrue'
  BY <1>1 DEF LedgerIsTrue, Batches
<1> QED BY <1>1, <1>2
        DEF Ledger, LedgerInv, Doing, Deriving, Confirmed, Mutating, Answering, Batches, Included, Base

\* Calling a merge integrated keeps the ledger true: its reply said so.
LEMMA LedgerSettleMerge == ASSUME TypeInv, TypeInv', Ledger, SettleMerge PROVE Ledger'
<1>1. PICK b \in Batches, t \in Tickets :
             /\ b = op.b /\ op.r.for = {t} /\ UNCHANGED <<policy, index, remote>>
             /\ op.at = "settle" /\ op.r.kind = "integrate_member" /\ op' = Idle
             /\ \A c \in Batches : c # b => batches'[c] = batches[c]
             /\ MembersOf(b)' = MembersOf(b)
             /\ batches'[b].pending = batches[b].pending
             /\ batches'[b].cohort = batches[b].cohort
             /\ \/ /\ op.got = "confirmed" /\ Kept(b)' \subseteq Kept(b) \cup {t}
                   /\ HeadOf(b)'.tickets = HeadOf(b).tickets \cup {t}
                   /\ HeadOf(b)'.edits = HeadOf(b).edits
                \/ /\ op.got \in {"unknown", "conflict"} /\ HeadOf(b)' = HeadOf(b)
                   /\ Kept(b)' \subseteq Kept(b)
  BY SettleMergeFacts
<1>2. UNCHANGED intRef /\ op'.at \notin {"join", "derive"} \cup Mutating
  BY <1>1, AfterIdle DEF remote
<1>3. CASE HeadOf(b)' = HeadOf(b) /\ Kept(b)' \subseteq Kept(b)
  <2>1. AllSteady
    BY <1>1, <1>3 DEF AllSteady, Steady, HeadOf, MembersOf, Kept
  <2> QED BY <1>1, <1>2, <2>1, LedgerIdle
<1>4. CASE /\ op.got = "confirmed" /\ Kept(b)' \subseteq Kept(b) \cup {t}
           /\ HeadOf(b)'.tickets = HeadOf(b).tickets \cup {t}
           /\ HeadOf(b)'.edits = HeadOf(b).edits
  <2>1. Doing("integrate_member") /\ Confirmed("integrate_member")
    BY <1>1, <1>4 DEF Doing, Confirmed, Mutating, Answering
  <2>2. Included(HeadOf(b), intRef) /\ t \in intRef.tickets
    BY <1>1, <2>1 DEF Ledger, LedgerInv
  <2>3. Included(HeadOf(b)', intRef)
    BY <1>4, <2>2 DEF Included, Ancestor
  <2>4. Kept(b)' \subseteq HeadOf(b)'.tickets
    BY <1>4, KeptIn
  <2> QED BY <1>1, <1>2, <2>3, <2>4, LedgerNewHead
<1> QED BY <1>1, <1>3, <1>4

\* Reading an outcome back keeps the ledger true: the branch itself is asked.
LEMMA LedgerReadBack == ASSUME TypeInv, TypeInv', Ledger, ReadBack PROVE Ledger'
<1>1. PICK b \in Batches : b = op.b
  BY OpFacts DEF ReadBack
<1>2. AllSteady /\ UNCHANGED intRef
  BY <1>1, ReadBackSteady DEF remote
<1>3. CASE op' = Idle
  BY <1>2, <1>3, LedgerIdle
<1>4. ASSUME NEW r \in batches[b].pending, Landed(b, r), r \in Reservations,
             op'.at = "derive", op'.b = b, op'.r.kind = r.kind, op'.r.for = r.for,
             r.kind = "integrate_member" => op'.r.sha = intRef
      PROVE  Ledger'
  <2>1. CASE r.kind # "integrate_member"
    BY <1>2, <1>4, <2>1, NotGrown, LedgerSteady
  <2>2. CASE r.kind = "integrate_member"
    <3>1. intRef \in Commits /\ r.for \subseteq intRef.tickets
      BY <1>4, <2>2, LandedFacts
    <3>2. Included(op.r.sha, intRef)'
      BY <1>2, <1>4, <2>2, <3>1, NoneAssumption DEF Included, Ancestor
    <3>3. Kept(b)' \subseteq intRef.tickets
      <4>1. Kept(b) \subseteq intRef.tickets
        BY KeptIn DEF Included, Ancestor
      <4> QED BY <1>2, <4>1 DEF AllSteady, Steady
    <3>4. (op.r.for \cup Kept(op.b) \subseteq op.r.sha.tickets)'
      BY <1>4, <2>2, <3>1, <3>3 DEF Kept
    <3>5. LedgerIsTrue'
      BY <1>2, HeadsStay, NotGrown DEF LedgerIsTrue, AllSteady, Batches
    <3>6. \A c \in Batches : HeadOf(c)' = Base \/ Included(HeadOf(c), intRef)'
      BY <1>2, HeadsStay, NotGrown DEF AllSteady
    <3>7. (op.r.for \subseteq op.r.sha.tickets)' /\ (Kept(op.b) \subseteq op.r.sha.tickets)'
      BY <3>4
    <3> QED BY <1>4, <3>2, <3>4, <3>5, <3>6
            DEF Ledger, LedgerInv, Doing, Deriving, Confirmed, Mutating, Answering, Batches
  <2> QED BY <2>1, <2>2
<1> QED BY <1>1, <1>3, <1>4, ReadBackSteady

\* What deriving leaves of a batch.
LEMMA DeriveSteady ==
    ASSUME TypeInv, Derive
    PROVE  \E b \in Batches :
             /\ b = op.b /\ UNCHANGED <<policy, index, remote>> /\ op.at = "derive"
             /\ \A c \in Batches : c # b => batches'[c] = batches[c]
             /\ op'.at \notin {"join", "derive"} \cup Mutating
             /\ op'.at \notin {"validate", "snapshot", "publish"}
             /\ MembersOf(b)' = MembersOf(b)
             /\ batches'[b].pending = batches[b].pending
             /\ batches'[b].cohort = batches[b].cohort
             /\ \/ HeadOf(b)' = HeadOf(b) /\ Kept(b)' \subseteq Kept(b)
                \/ /\ op.r.kind = "integrate_member" /\ HeadOf(b)' = op.r.sha
                   /\ Kept(b)' \subseteq Kept(b) \cup op.r.for
<1>1. op.at = "derive" /\ UNCHANGED <<policy, index, remote>>
  BY DEF Derive
<1>2. PICK b \in Batches, batch \in BatchRecords, s \in States :
             /\ b = op.b
             /\ Save(b, [batch EXCEPT !.state = s])
             /\ op' = At("reconcile", b, NoReservation) \/ op' = Idle
             /\ batch = batches[b] \/ batch = Derived(b, op.r)
  BY DeriveFacts
<1>3. PICK old \in BatchRecords : old = batches[b]
  BY DEF TypeInv, TypeOK
<1>4. PICK new \in BatchRecords :
         /\ new = [batch EXCEPT !.state = s] /\ new.head = batch.head
         /\ new.members = batch.members /\ new.pending = batch.pending
         /\ new.cohort = batch.cohort
  BY StateFacts
<1>5. Save(b, new)
  BY <1>2, <1>4
<1>6. batches'[b] = new /\ \A c \in Batches : c # b => batches'[c] = batches[c]
  BY <1>5, SaveFacts DEF TypeInv, TypeOK
<1>7. op'.at = "reconcile" \/ op'.at = "idle"
  BY <1>2, IdleFacts DEF At
<1>8. /\ batch.pending = old.pending /\ batch.cohort = old.cohort
      /\ \A t \in Tickets : batch.members[t] = "none" <=> old.members[t] = "none"
  <2>1. CASE batch = batches[b]
    BY <1>3, <2>1
  <2>2. CASE batch = Derived(b, op.r)
    BY <1>1, <1>2, <1>3, <2>2, DerivedFacts
  <2> QED BY <1>2, <2>1, <2>2
<1>9. \/ /\ batch.head = old.head
         /\ \A t \in Tickets : batch.members[t] \in {"integrated", "in_delivery"}
                                => old.members[t] \in {"integrated", "in_delivery"}
      \/ /\ op.r.kind = "integrate_member" /\ batch.head = op.r.sha
         /\ \A t \in Tickets : batch.members[t] \in {"integrated", "in_delivery"}
                                => t \in op.r.for \/ old.members[t] \in {"integrated", "in_delivery"}
  <2>1. CASE batch = batches[b]
    BY <1>3, <2>1
  <2>2. CASE batch = Derived(b, op.r) /\ op.r.kind = "integrate_member"
    <3>1. /\ batch.head = op.r.sha
          /\ \A t \in Tickets :
               batch.members[t] = IF op.r.for = {t} THEN "integrated" ELSE old.members[t]
      BY <1>1, <1>2, <1>3, <2>2, DerivedFacts
    <3> QED BY <2>2, <3>1
  <2>3. CASE batch = Derived(b, op.r) /\ op.r.kind # "integrate_member"
    BY <1>1, <1>2, <1>3, <2>3, DerivedFacts
  <2>4. batch = batches[b] \/ batch = Derived(b, op.r)
    BY <1>2
  <2> QED BY <2>1, <2>2, <2>3, <2>4
<1>10. MembersOf(b)' = MembersOf(b)
  BY <1>3, <1>4, <1>6, <1>8 DEF MembersOf
<1>11. \/ HeadOf(b)' = HeadOf(b) /\ Kept(b)' \subseteq Kept(b)
       \/ /\ op.r.kind = "integrate_member" /\ HeadOf(b)' = op.r.sha
          /\ Kept(b)' \subseteq Kept(b) \cup op.r.for
  BY <1>3, <1>4, <1>6, <1>9 DEF HeadOf, Kept
<1>12. op'.at \notin {"join", "derive", "validate", "snapshot", "publish"} \cup Mutating
  BY <1>7 DEF Mutating
<1>13. batches'[b].pending = batches[b].pending /\ batches'[b].cohort = batches[b].cohort
  BY <1>3, <1>4, <1>6, <1>8
<1> QED BY <1>1, <1>2, <1>6, <1>10, <1>11, <1>12, <1>13

\* Deriving the batch from an outcome read back keeps the ledger true.
LEMMA LedgerDerive == ASSUME TypeInv, TypeInv', Ledger, Derive PROVE Ledger'
<1>1. PICK b \in Batches :
             /\ b = op.b /\ UNCHANGED <<policy, index, remote>> /\ op.at = "derive"
             /\ \A c \in Batches : c # b => batches'[c] = batches[c]
             /\ op'.at \notin {"join", "derive"} \cup Mutating
             /\ MembersOf(b)' = MembersOf(b)
             /\ \/ HeadOf(b)' = HeadOf(b) /\ Kept(b)' \subseteq Kept(b)
                \/ /\ op.r.kind = "integrate_member" /\ HeadOf(b)' = op.r.sha
                   /\ Kept(b)' \subseteq Kept(b) \cup op.r.for
  BY DeriveSteady
<1>2. UNCHANGED intRef
  BY <1>1 DEF remote
<1>3. CASE HeadOf(b)' = HeadOf(b) /\ Kept(b)' \subseteq Kept(b)
  <2>1. AllSteady
    BY <1>1, <1>3 DEF AllSteady, Steady, HeadOf, MembersOf, Kept
  <2> QED BY <1>1, <1>2, <2>1, NotGrown, LedgerSteady
<1>4. CASE /\ op.r.kind = "integrate_member" /\ HeadOf(b)' = op.r.sha
           /\ Kept(b)' \subseteq Kept(b) \cup op.r.for
  <2>1. Included(op.r.sha, intRef) /\ op.r.for \cup Kept(b) \subseteq op.r.sha.tickets
    BY <1>1, <1>4 DEF Ledger, LedgerInv, Deriving
  <2>2. Included(HeadOf(b)', intRef) /\ Kept(b)' \subseteq HeadOf(b)'.tickets
    BY <1>4, <2>1
  <2> QED BY <1>1, <1>2, <2>2, LedgerNewHead
<1> QED BY <1>1, <1>3, <1>4

\* The empty ledger is true.
LEMMA InitLedger == Init => Ledger
<1> SUFFICES ASSUME Init PROVE Ledger
  OBVIOUS
<1>1. \A b \in Batches : HeadOf(b) = Base /\ \A t \in Tickets : batches[b].members[t] = "none"
  BY NewBatchFacts, BaseIsCommit DEF Init, HeadOf, States
<1>2. op.at = "idle"
  BY IdleFacts DEF Init
<1> QED BY <1>1, <1>2
        DEF Ledger, LedgerInv, LedgerIsTrue, Doing, Deriving, Confirmed, Mutating, Answering

\* Every step keeps the ledger true.
LEMMA StepLedger == TypeInv /\ Ledger /\ [Next]_vars => Ledger'
<1> SUFFICES ASSUME TypeInv, Ledger, [Next]_vars PROVE Ledger'
  OBVIOUS
<1>1. TypeInv'
  BY StepType
<1>2. CASE UNCHANGED vars
  <2>1. AllSteady /\ Grown
    BY <1>2, NothingSaved, UnmovedSteady, NotGrown DEF vars
  <2>2. op' = op
    BY <1>2 DEF vars
  <2>3. Confirmed("integrate_member")' => Confirmed("integrate_member")
    BY <2>2 DEF Confirmed
  <2> QED BY <1>1, <2>1, <2>2, <2>3, LedgerGoesOn
<1>3. CASE Collection
  <2>1. CASE (\E t \in Tickets : CollectAgain(t)) \/ Raise
    <3>1. UNCHANGED intRef /\ op' = Idle
      BY <2>1 DEF CollectAgain, Collecting, Raise, remote
    <3> QED BY <1>1, <2>1, <3>1, QuietUnmoved, UnmovedSteady, LedgerIdle
  <2> QED BY <1>1, <1>3, <2>1, LedgerCollect, LedgerJoin, LedgerCreateBranch,
          LedgerSettleBranch, LedgerIntegrate, LedgerSettleMerge DEF Collection
<1>4. CASE Publication
  <2>1. CASE \E b \in Batches : Release(b)
    BY <1>1, <2>1, LedgerRelease
  <2>2. CASE PublicationStep
    BY <1>1, <2>2, LedgerPublication
  <2> QED BY <1>4, <2>1, <2>2 DEF Publication, PublicationStep
<1>5. CASE Reconciliation
  <2>1. CASE \E b \in Batches : observe_customer_completion(b)
    <3>1. AllUnmoved /\ UNCHANGED intRef /\ op' = Idle
      BY <2>1, ObserveUnmoved DEF observe_customer_completion, remote
    <3> QED BY <1>1, <3>1, UnmovedSteady, LedgerIdle
  <2> QED BY <1>1, <1>5, <2>1, LedgerReconcile, LedgerReadBack, LedgerDerive DEF Reconciliation
<1>6. CASE Environment
  <2>1. CASE Crash
    <3>1. UNCHANGED intRef /\ op' = Idle
      BY <2>1 DEF Crash, remote
    <3> QED BY <1>1, <2>1, <3>1, QuietUnmoved, UnmovedSteady, LedgerIdle
  <2> QED BY <1>1, <1>6, <2>1, LedgerEnvironment DEF Environment
<1>7. CASE Reserve \/ Finish
  BY <1>1, <1>7, LedgerReserve, LedgerFinish
<1> QED BY <1>2, <1>3, <1>4, <1>5, <1>6, <1>7 DEF Next

(* A member the ledger calls integrated or in delivery is part of the head   *)
(* of its batch, and that head is on the integration branch, whatever        *)
(* crashed, was lost or was read back on the way.                            *)
THEOREM LedgerStaysTrue == Spec => []LedgerIsTrue
<1>1. Ledger => LedgerIsTrue
  BY DEF Ledger
<1> QED BY <1>1, InitType, StepType, InitLedger, StepLedger, PTL DEF Spec

-----------------------------------------------------------------------------
(* Proofs about what BatchDelivery shows the customer, for any tickets,    *)
(* policies and bounds: an open pull request lists only members whose work *)
(* is in the commit it offers, and a snapshot that is not a rolling one is *)
(* never moved by the butler.                                              *)

\* A release that has validated its batch has all its members in the head it
\* pushes; once pushed, they are in the snapshot whatever is pushed on top.
Offer(b) ==
    /\ op.at = "snapshot" \/ Doing("snapshot_ref") => Covered(b)
    /\ Doing("snapshot_ref") => op.r.sha = HeadOf(b)
    /\ Confirmed("snapshot_ref") => Included(op.r.sha, snapRef[b])
    /\ op.at = "publish" => snapRef[b] # None /\ MembersOf(b) \subseteq snapRef[b].tickets
    /\ Doing("create_customer_pr") \/ Doing("update_customer_pr") =>
         snapRef[b] # None /\ op.r.for \subseteq snapRef[b].tickets

OfferInv == \A b \in Batches : b = op.b => Offer(b)

\* An open pull request is of the snapshot as it is now.
FollowInv ==
    \A i \in ActivePrs : snapRef[prs[i].of] # None /\ prs[i].sha = snapRef[prs[i].of]

Manifest == OfferInv /\ FollowInv /\ ManifestIsTrue

Deliveries == {"snapshot_ref", "create_customer_pr", "update_customer_pr"}

\* No snapshot loses what it holds.
SnapsGrow ==
    \A b \in Batches : snapRef[b] # None =>
       snapRef'[b] # None /\ Ancestor(snapRef[b], snapRef'[b])

\* Snapshots nobody pushes to hold what they held.
LEMMA SnapsStay == ASSUME UNCHANGED snapRef PROVE SnapsGrow
  BY DEF SnapsGrow, Ancestor

\* Nothing is offered by a step that publishes nothing.
LEMMA OfferRests ==
    ASSUME op'.at \notin {"snapshot", "publish"},
           op'.at \in Mutating => op'.r.kind \notin Deliveries
    PROVE  OfferInv'
<1>1. ~Doing("snapshot_ref")' /\ ~Doing("create_customer_pr")' /\ ~Doing("update_customer_pr")'
      /\ ~Confirmed("snapshot_ref")'
  BY DEF Doing, Confirmed, Mutating, Answering, Deliveries
<1>2. ASSUME NEW b \in Batches PROVE Offer(b)'
  BY <1>1 DEF Offer
<1> QED BY <1>2 DEF OfferInv, Batches

\* Pull requests stay true when neither they nor the snapshots change.
LEMMA FollowRests ==
    ASSUME FollowInv, ManifestIsTrue, UNCHANGED <<snapRef, prs>>
    PROVE  FollowInv' /\ ManifestIsTrue'
  BY DEF FollowInv, ManifestIsTrue, ActivePrs

\* A step of the same reservation keeps what is known of it.
LEMMA OfferGoesOn ==
    ASSUME TypeInv, OfferInv, AllSteady, SnapsGrow,
           op'.b = op.b, op'.r = op.r,
           op'.at = op.at \/ (op.at \in Mutating /\ op'.at \in Mutating),
           NEW b \in Batches, b = op.b,
           Confirmed("snapshot_ref")'
             => Confirmed("snapshot_ref") \/ Included(op.r.sha, snapRef'[b])
    PROVE  OfferInv'
<1>1. CASE op'.at \in {"snapshot", "publish"} \cup Mutating
  <2>1. op.at # "idle" /\ (op'.at \in Mutating <=> op.at \in Mutating)
    BY <1>1 DEF Mutating
  <2>2. batches'[b].head = HeadOf(b) /\ MembersOf(b)' = MembersOf(b) /\ op.r \in Reservations
    BY <2>1, OpFacts DEF AllSteady, Steady, HeadOf
  <2>3. Offer(b)
    BY DEF OfferInv
  <2>4. op'.at = "snapshot" \/ Doing("snapshot_ref")' => Covered(b)'
    <3>1. op'.at = "snapshot" \/ Doing("snapshot_ref")' => Covered(b)
      BY <2>1, <2>3, <1>1 DEF Offer, Doing, Mutating
    <3>2. Covered(b) => Covered(b)'
      BY <2>2 DEF Covered, HeadOf
    <3> QED BY <3>1, <3>2
  <2>5. Doing("snapshot_ref")' => op'.r.sha = HeadOf(b)'
    BY <2>1, <2>2, <2>3 DEF Offer, Doing, HeadOf
  <2>6. Confirmed("snapshot_ref")' => Included(op'.r.sha, snapRef'[b])
    <3>1. Confirmed("snapshot_ref") => Included(op.r.sha, snapRef'[b])
      BY <2>3 DEF Offer, SnapsGrow, Included, Ancestor
    <3> QED BY <3>1
  <2>7. op'.at = "publish" => snapRef'[b] # None /\ MembersOf(b)' \subseteq snapRef'[b].tickets
    <3>1. op'.at = "publish" => op.at = "publish"
      BY DEF Mutating
    <3> QED BY <2>2, <2>3, <3>1 DEF Offer, SnapsGrow, Ancestor
  <2>8. Doing("create_customer_pr")' \/ Doing("update_customer_pr")' =>
          snapRef'[b] # None /\ op'.r.for \subseteq snapRef'[b].tickets
    <3>1. Doing("create_customer_pr")' \/ Doing("update_customer_pr")' =>
            Doing("create_customer_pr") \/ Doing("update_customer_pr")
      BY <2>1 DEF Doing
    <3> QED BY <2>2, <2>3, <3>1 DEF Offer, SnapsGrow, Ancestor
  <2>9. Offer(b)'
    BY <2>4, <2>5, <2>6, <2>7, <2>8 DEF Offer, Included
  <2> QED BY <2>9 DEF OfferInv, Batches
<1>2. CASE op'.at \notin {"snapshot", "publish"} \cup Mutating
  BY <1>2, OfferRests
<1> QED BY <1>1, <1>2

\* So does the invariant, when no release is at its pushes after the step.
LEMMA ManifestRests ==
    ASSUME Manifest, UNCHANGED <<snapRef, prs>>, op'.at \notin {"snapshot", "publish"},
           op'.at \in Mutating => op'.r.kind \notin Deliveries
    PROVE  Manifest'
  BY OfferRests, FollowRests DEF Manifest

\* So does the invariant, when the operation is given up.
LEMMA ManifestIdle ==
    ASSUME Manifest, UNCHANGED <<snapRef, prs>>, op' = Idle
    PROVE  Manifest'
  BY IdleFacts, ManifestRests DEF Mutating

\* The steps that publish nothing.
LEMMA ManifestCollection ==
    ASSUME TypeInv, Manifest, Collection
    PROVE  Manifest'
<1>1. ASSUME NEW t \in Tickets, CollectAgain(t) PROVE Manifest'
  <2>1. op' = Idle /\ UNCHANGED <<snapRef, prs>>
    BY <1>1 DEF CollectAgain, Collecting, remote
  <2> QED BY <2>1, ManifestIdle
<1>2. ASSUME NEW t \in Tickets, Collect(t) PROVE Manifest'
  <2>1. /\ UNCHANGED <<snapRef, prs>>
        /\ \/ op'.at = "join"
           \/ op'.at = "reserve" /\ op'.r.kind = "create_integration_branch"
    BY <1>2, CollectFacts DEF remote
  <2> QED BY <2>1, ManifestRests DEF Mutating, Deliveries
<1>3. CASE Join
  <2>1. /\ UNCHANGED <<snapRef, prs>>
        /\ op' = Idle \/ (op'.at = "reserve" /\ op'.r.kind = "integrate_member")
    BY <1>3, JoinSteady DEF remote
  <2> QED BY <2>1, ManifestIdle, ManifestRests DEF Mutating, Deliveries
<1>4. CASE create_integration_branch \/ integrate_reviewed
  <2>1. /\ UNCHANGED <<snapRef, prs>>
        /\ op.r.kind \in {"create_integration_branch", "integrate_member"}
        /\ \E result \in Results \ {"none"} : Answered(result)
        /\ op.at = "call"
    BY <1>4 DEF create_integration_branch, integrate_reviewed, Calls, Answers, Results
  <2>2. op'.at = "finish" /\ op'.r = op.r
    BY <2>1, AnsweredFacts
  <2> QED BY <2>1, <2>2, ManifestRests DEF Deliveries
<1>5. CASE SettleBranch
  <2>1. UNCHANGED <<snapRef, prs>> /\ (op' = Idle \/ op'.at = "join")
    BY <1>5, SettleBranchFacts DEF remote
  <2> QED BY <2>1, ManifestIdle, ManifestRests DEF Mutating
<1>6. CASE SettleMerge \/ Raise
  BY <1>6, ManifestIdle DEF SettleMerge, Raise, remote
<1> QED BY <1>1, <1>2, <1>3, <1>4, <1>5, <1>6 DEF Collection

\* Reconciliation publishes nothing.
LEMMA ManifestReconciliation ==
    ASSUME TypeInv, Manifest, Reconciliation
    PROVE  Manifest'
<1>1. ASSUME NEW b \in Batches, reconcile_unknown(b) PROVE Manifest'
  <2>1. UNCHANGED <<snapRef, prs>> /\ op'.at = "reconcile"
    BY <1>1 DEF reconcile_unknown, remote, At
  <2> QED BY <2>1, ManifestRests DEF Mutating
<1>2. ASSUME NEW b \in Batches, observe_customer_completion(b) PROVE Manifest'
  BY <1>2, ManifestIdle DEF observe_customer_completion, remote
<1>3. CASE ReadBack
  <2>1. UNCHANGED <<snapRef, prs>> /\ (op' = Idle \/ op'.at = "derive")
    <3>1. PICK b : b = op.b
      OBVIOUS
    <3> QED BY <1>3, <3>1, ReadBackSteady DEF remote
  <2> QED BY <2>1, ManifestIdle, ManifestRests DEF Mutating
<1>4. CASE Derive
  <2>1. /\ UNCHANGED <<snapRef, prs>> /\ op'.at \notin Mutating
        /\ op'.at \notin {"snapshot", "publish"}
    BY <1>4, DeriveSteady DEF remote
  <2> QED BY <2>1, ManifestRests
<1> QED BY <1>1, <1>2, <1>3, <1>4 DEF Reconciliation

\* Reserving a mutation publishes nothing.
LEMMA ManifestReserve == ASSUME TypeInv, Manifest, Reserve PROVE Manifest'
<1>1. op.at = "reserve"
  BY DEF Reserve
<1>2. PICK b \in Batches : b = op.b
  BY <1>1, OpFacts
<1>3. /\ AllSteady /\ UNCHANGED <<snapRef, prs>> /\ op'.at = "call" /\ op'.b = op.b /\ op'.r = op.r
  BY <1>2, ReserveSteady DEF remote
<1>4. ~Confirmed("snapshot_ref")'
  BY <1>3 DEF Confirmed, Answering
<1>5. op.at \in Mutating /\ op'.at \in Mutating
  BY <1>1, <1>3 DEF Mutating
<1> QED BY <1>2, <1>3, <1>4, <1>5, SnapsStay, OfferGoesOn, FollowRests DEF Manifest

\* Saving an outcome publishes nothing.
LEMMA ManifestFinish == ASSUME TypeInv, Manifest, Finish PROVE Manifest'
<1>1. op.at = "finish"
  BY DEF Finish
<1>2. PICK b \in Batches : b = op.b
  BY <1>1, OpFacts
<1>3. /\ AllSteady /\ UNCHANGED <<snapRef, prs>> /\ op'.at = "settle" /\ op'.b = op.b
      /\ op'.r = op.r /\ op'.got = op.got
  BY <1>2, FinishSteady DEF remote
<1>4. Confirmed("snapshot_ref")' => Confirmed("snapshot_ref")
  BY <1>1, <1>3 DEF Confirmed, Answering
<1>5. op.at \in Mutating /\ op'.at \in Mutating
  BY <1>1, <1>3 DEF Mutating
<1> QED BY <1>2, <1>3, <1>4, <1>5, SnapsStay, OfferGoesOn, FollowRests DEF Manifest

\* A push lands on the snapshot that was expected, and only with what it had.
LEMMA PushFacts ==
    ASSUME TypeInv, snapshot_ref, NEW b \in Batches, b = op.b
    PROVE  /\ op.at = "call" /\ op.r.kind = "snapshot_ref" /\ op.r.sha \in Commits
           /\ op'.at = "finish" /\ op'.b = op.b /\ op'.r = op.r
           /\ AllUnmoved /\ UNCHANGED <<policy, ledger, intRef, edits>>
           /\ \/ UNCHANGED <<snapRef, prs>> /\ op'.got # "confirmed"
              \/ /\ snapRef[b] = op.r.old
                 /\ snapRef[b] # None => Ancestor(snapRef[b], op.r.sha)
                 /\ snapRef' = [snapRef EXCEPT ![b] = op.r.sha]
                 /\ prs' = Follow(b, op.r.sha)
<1>1. op.at = "call" /\ op.r.kind = "snapshot_ref" /\ UNCHANGED <<policy, ledger, intRef, edits>>
  BY DEF snapshot_ref, Calls
<1>2. AllUnmoved /\ op.r.sha \in Commits
  BY <1>1, OpFacts, QuietUnmoved DEF Reservations
<1>3. ASSUME NEW result \in Results \ {"none"}, Answered(result)
      PROVE  op'.at = "finish" /\ op'.b = op.b /\ op'.r = op.r /\ op'.got = result
  BY <1>1, <1>3, AnsweredFacts
<1>4. CASE UNCHANGED <<snapRef, prs>> /\ \E result \in {"conflict", "unknown"} : Answered(result)
  BY <1>1, <1>2, <1>3, <1>4 DEF Results
<1>5. CASE /\ snapRef[b] = op.r.old
           /\ snapRef[b] # None => Ancestor(snapRef[b], op.r.sha)
           /\ snapRef' = [snapRef EXCEPT ![b] = op.r.sha]
           /\ prs' = Follow(b, op.r.sha)
           /\ \E result \in {"confirmed", "unknown"} : Answered(result)
  BY <1>1, <1>2, <1>3, <1>5 DEF Results
<1> QED BY <1>4, <1>5 DEF snapshot_ref, Answers

\* The push of a snapshot, which the open pull request follows.
LEMMA ManifestPush == ASSUME TypeInv, Manifest, snapshot_ref PROVE Manifest'
<1>1. op.at = "call"
  BY DEF snapshot_ref, Calls
<1>2. PICK b \in Batches : b = op.b
  BY <1>1, OpFacts
<1>3. /\ op.r.kind = "snapshot_ref" /\ op.r.sha \in Commits
      /\ op'.at = "finish" /\ op'.b = op.b /\ op'.r = op.r
      /\ AllSteady /\ UNCHANGED <<policy, ledger, intRef, edits>>
  BY <1>2, PushFacts, UnmovedSteady
<1>4. op.at \in Mutating /\ op'.at \in Mutating
  BY <1>1, <1>3 DEF Mutating
<1>5. CASE UNCHANGED <<snapRef, prs>> /\ op'.got # "confirmed"
  <2>1. ~Confirmed("snapshot_ref")'
    BY <1>5 DEF Confirmed
  <2> QED BY <1>2, <1>3, <1>4, <1>5, <2>1, SnapsStay, OfferGoesOn, FollowRests DEF Manifest
<1>6. CASE /\ snapRef[b] = op.r.old
           /\ snapRef[b] # None => Ancestor(snapRef[b], op.r.sha)
           /\ snapRef' = [snapRef EXCEPT ![b] = op.r.sha]
           /\ prs' = Follow(b, op.r.sha)
  <2>1. PICK sha \in Commits : sha = op.r.sha
    BY <1>3
  <2>2. /\ snapRef \in [Batches -> Refs] /\ snapRef'[b] = sha
        /\ \A c \in Batches : c # b => snapRef'[c] = snapRef[c]
    BY <1>6, <2>1 DEF TypeInv, TypeOK
  <2>3. sha # None
    BY NoneAssumption
  <2>4. SnapsGrow
    BY <1>6, <2>1, <2>2, <2>3 DEF SnapsGrow, Ancestor
  <2>5. Included(op.r.sha, snapRef'[b])
    BY <2>1, <2>2, <2>3 DEF Included, Ancestor
  <2>6. OfferInv'
    BY <1>2, <1>3, <1>4, <2>4, <2>5, OfferGoesOn DEF Manifest
  <2>7. /\ prs' \in Seq(PrRecords) /\ DOMAIN prs' = DOMAIN prs
        /\ \A i \in DOMAIN prs :
             /\ prs'[i].of = prs[i].of /\ prs'[i].status = prs[i].status
             /\ prs'[i].manifest = prs[i].manifest
             /\ prs[i].of = b /\ prs[i].status = "active" => prs'[i].sha = sha
             /\ ~(prs[i].of = b /\ prs[i].status = "active") => prs'[i].sha = prs[i].sha
    <3>1. prs' = Follow(b, sha) /\ prs \in Seq(PrRecords)
      BY <1>6, <2>1 DEF TypeInv, TypeOK
    <3> QED BY <3>1, FollowFacts
  <2>8. ASSUME NEW i \in DOMAIN prs', prs'[i].status = "active"
        PROVE  /\ snapRef'[prs'[i].of] # None /\ prs'[i].sha = snapRef'[prs'[i].of]
               /\ prs'[i].manifest \subseteq prs'[i].sha.tickets
    <3>1. i \in DOMAIN prs /\ prs'[i].of = prs[i].of /\ prs[i].status = "active"
      BY <2>7, <2>8
    <3>2. prs[i] \in PrRecords
      BY <3>1 DEF TypeInv, TypeOK
    <3>3. PICK c \in Batches : c = prs[i].of
      BY <3>2 DEF PrRecords
    <3>4. i \in ActivePrs
      BY <3>1 DEF ActivePrs
    <3>5. snapRef[c] # None /\ prs[i].sha = snapRef[c] /\ prs[i].manifest \subseteq prs[i].sha.tickets
      BY <3>3, <3>4 DEF Manifest, FollowInv, ManifestIsTrue
    <3>6. CASE c = b
      <4>1. prs[i].manifest \subseteq sha.tickets
        BY <1>6, <2>1, <3>5, <3>6 DEF Ancestor
      <4> QED BY <2>2, <2>3, <2>7, <3>1, <3>3, <3>6, <4>1
    <3>7. CASE c # b
      BY <2>2, <2>7, <3>1, <3>3, <3>5, <3>7
    <3> QED BY <3>6, <3>7
  <2> QED BY <2>6, <2>8 DEF Manifest, FollowInv, ManifestIsTrue, ActivePrs
<1> QED BY <1>2, <1>5, <1>6, PushFacts

\* A new pull request is of the snapshot, and lists what the snapshot holds.
LEMMA ManifestCreate == ASSUME TypeInv, Manifest, create_customer_pr PROVE Manifest'
<1>1. op.at = "call" /\ op.r.kind = "create_customer_pr"
      /\ UNCHANGED <<policy, ledger, intRef, snapRef, edits, pass>>
  BY DEF create_customer_pr, Calls
<1>2. PICK b \in Batches : b = op.b
  BY <1>1, OpFacts
<1>3. op'.at = "finish" /\ op'.b = op.b /\ op'.r = op.r
  <2>1. \E result \in Results \ {"none"} : Answered(result)
    BY DEF create_customer_pr, Shown, Results
  <2> QED BY <1>1, <2>1, AnsweredFacts
<1>4. OfferInv'
  <2>1. AllSteady
    BY QuietUnmoved, UnmovedSteady
  <2>2. op.at \in Mutating /\ op'.at \in Mutating /\ ~Confirmed("snapshot_ref")'
    BY <1>1, <1>3 DEF Mutating, Confirmed
  <2> QED BY <1>1, <1>2, <1>3, <2>1, <2>2, SnapsStay, OfferGoesOn DEF Manifest
<1>5. CASE prs' = Append(prs, [of |-> op.b, sha |-> snapRef[op.b],
                               manifest |-> op.r.for, status |-> "active"])
  <2> DEFINE pr == [of |-> op.b, sha |-> snapRef[op.b],
                    manifest |-> op.r.for, status |-> "active"]
  <2>1. snapRef[b] \in Commits /\ op.r.for \subseteq snapRef[b].tickets
    <3>1. Doing("create_customer_pr") /\ Offer(b)
      BY <1>1, <1>2 DEF Doing, Mutating, Manifest, OfferInv
    <3> QED BY <3>1 DEF Offer, TypeInv, TypeOK, Refs
  <2>2. /\ pr \in PrRecords /\ pr.of = b /\ pr.sha = snapRef[b]
        /\ pr.manifest \subseteq pr.sha.tickets
    BY <1>1, <1>2, <2>1, OpFacts DEF PrRecords, PrStatuses, Reservations
  <2>3. prs' = Append(prs, pr) /\ prs \in Seq(PrRecords)
    BY <1>5 DEF TypeInv, TypeOK
  <2> HIDE DEF pr
  <2>4. /\ prs'[Len(prs')] = pr /\ DOMAIN prs' = 1 .. Len(prs) + 1 /\ Len(prs') = Len(prs) + 1
        /\ \A i \in DOMAIN prs : prs'[i] = prs[i]
    BY <2>2, <2>3, PrAppended
  <2>5. ASSUME NEW i \in DOMAIN prs', prs'[i].status = "active"
        PROVE  /\ snapRef'[prs'[i].of] # None /\ prs'[i].sha = snapRef'[prs'[i].of]
               /\ prs'[i].manifest \subseteq prs'[i].sha.tickets
    <3>1. Len(prs) \in Nat /\ DOMAIN prs = 1 .. Len(prs)
      BY <2>3
    <3>2. CASE i \in DOMAIN prs
      BY <1>1, <2>4, <2>5, <3>2 DEF Manifest, FollowInv, ManifestIsTrue, ActivePrs
    <3>3. CASE i = Len(prs')
      BY <1>1, <2>1, <2>2, <2>4, <3>3, NoneAssumption
    <3> QED BY <2>4, <2>5, <3>1, <3>2, <3>3
  <2> QED BY <1>4, <2>5 DEF Manifest, FollowInv, ManifestIsTrue, ActivePrs
<1>6. CASE UNCHANGED prs
  BY <1>1, <1>4, <1>6, FollowRests DEF Manifest
<1> QED BY <1>5, <1>6 DEF create_customer_pr

\* So does a rewritten body.
LEMMA ManifestUpdate == ASSUME TypeInv, Manifest, update_customer_pr PROVE Manifest'
<1>1. op.at = "call" /\ op.r.kind = "update_customer_pr"
      /\ UNCHANGED <<policy, ledger, intRef, snapRef, edits, pass>>
  BY DEF update_customer_pr, Calls
<1>2. PICK b \in Batches : b = op.b
  BY <1>1, OpFacts
<1>3. op'.at = "finish" /\ op'.b = op.b /\ op'.r = op.r
  <2>1. \E result \in Results \ {"none"} : Answered(result)
    BY DEF update_customer_pr, Shown, Results
  <2> QED BY <1>1, <2>1, AnsweredFacts
<1>4. OfferInv'
  <2>1. AllSteady
    BY QuietUnmoved, UnmovedSteady
  <2>2. op.at \in Mutating /\ op'.at \in Mutating /\ ~Confirmed("snapshot_ref")'
    BY <1>1, <1>3 DEF Mutating, Confirmed
  <2> QED BY <1>1, <1>2, <1>3, <2>1, <2>2, SnapsStay, OfferGoesOn DEF Manifest
<1>5. CASE prs' = [prs EXCEPT ![batches[op.b].pr].manifest = op.r.for]
  <2>1. Doing("update_customer_pr") /\ Offer(b)
    BY <1>1, <1>2 DEF Doing, Mutating, Manifest, OfferInv
  <2>2. snapRef[b] # None /\ op.r.for \subseteq snapRef[b].tickets
    BY <2>1 DEF Offer
  <2>3. PICK n \in DOMAIN prs : n = batches[b].pr /\ prs[n].of = b
    BY <1>1, <1>2, <2>1, OpFacts DEF TypeInv, OpInv, Sound
  <2>4. \A i \in DOMAIN prs : prs[i] \in PrRecords
    BY DEF TypeInv, TypeOK
  <2>5. prs' = [prs EXCEPT ![n].manifest = op.r.for]
    BY <1>2, <1>5, <2>3
  <2>6. /\ DOMAIN prs' = DOMAIN prs
        /\ \A i \in DOMAIN prs :
             /\ prs'[i].of = prs[i].of /\ prs'[i].sha = prs[i].sha
             /\ prs'[i].status = prs[i].status
             /\ prs'[i].manifest = IF i = n THEN op.r.for ELSE prs[i].manifest
    BY <2>4, <2>5 DEF PrRecords
  <2>7. ASSUME NEW i \in DOMAIN prs', prs'[i].status = "active"
        PROVE  /\ snapRef'[prs'[i].of] # None /\ prs'[i].sha = snapRef'[prs'[i].of]
               /\ prs'[i].manifest \subseteq prs'[i].sha.tickets
    <3>1. i \in ActivePrs
      BY <2>6, <2>7 DEF ActivePrs
    <3>2. /\ snapRef[prs[i].of] # None /\ prs[i].sha = snapRef[prs[i].of]
          /\ prs[i].manifest \subseteq prs[i].sha.tickets
      BY <3>1 DEF Manifest, FollowInv, ManifestIsTrue
    <3> QED BY <1>1, <2>2, <2>3, <2>6, <2>7, <3>2
  <2> QED BY <1>4, <2>7 DEF Manifest, FollowInv, ManifestIsTrue, ActivePrs
<1>6. CASE UNCHANGED prs
  BY <1>1, <1>4, <1>6, FollowRests DEF Manifest
<1> QED BY <1>5, <1>6 DEF update_customer_pr

\* Every member is in the head when the validation passes.
LEMMA ManifestValidate == ASSUME TypeInv, Manifest, Validate PROVE Manifest'
<1>1. op.at = "validate" /\ UNCHANGED <<snapRef, prs>>
  BY DEF Validate, remote
<1>2. PICK b \in Batches : b = op.b
  BY <1>1, OpFacts
<1>3. CASE Covered(b) /\ op' = [op EXCEPT !.at = "snapshot"] /\ UNCHANGED batches
  <2>1. op'.at = "snapshot" /\ op'.b = b
    BY <1>1, <1>2, <1>3, OpFacts DEF Ops
  <2>2. Covered(b)'
    BY <1>3 DEF Covered, MembersOf
  <2>3. Offer(b)'
    BY <2>1, <2>2 DEF Offer, Doing, Confirmed, Mutating, Answering
  <2>4. OfferInv'
    BY <2>1, <2>3 DEF OfferInv, Batches
  <2> QED BY <1>1, <2>4, FollowRests DEF Manifest
<1>4. CASE op' = Idle
  BY <1>1, <1>4, ManifestIdle
<1> QED BY <1>2, <1>3, <1>4 DEF Validate

\* What is published next is the head, with every member in it.
LEMMA OfferPublish ==
    ASSUME TypeInv, AllUnmoved, UNCHANGED <<snapRef, prs>>, NEW b \in Batches,
           op'.at = "publish", op'.b = b, Covered(b), NEW sha \in Commits,
           sha = HeadOf(b), Included(sha, snapRef[b])
    PROVE  OfferInv'
<1>1. MembersOf(b)' = MembersOf(b) /\ snapRef'[b] = snapRef[b]
  BY DEF AllUnmoved, Unmoved, Steady
<1>2. MembersOf(b) \subseteq snapRef[b].tickets /\ snapRef[b] # None
  BY DEF Covered, HeadOf, Included, Ancestor
<1>3. Offer(b)'
  BY <1>1, <1>2 DEF Offer, Doing, Confirmed, Mutating, Answering
<1> QED BY <1>3 DEF OfferInv, Batches

\* A release reaches its snapshot push only with all members in the head.
LEMMA ManifestSnapshot == ASSUME TypeInv, Manifest, Snapshot PROVE Manifest'
<1>1. op.at = "snapshot" /\ UNCHANGED <<snapRef, prs>> /\ AllUnmoved
  BY SnapshotUnmoved DEF Snapshot, remote
<1>2. PICK b \in Batches : b = op.b
  BY <1>1, OpFacts
<1>3. Covered(b)
  BY <1>1, <1>2 DEF Manifest, OfferInv, Offer
<1>4. PICK sha \in Commits : sha = HeadOf(b) /\ sha # None /\ batches[b].head = sha
  BY HeadTyped, NoneAssumption DEF HeadOf
<1>5. CASE snapRef[b] = sha /\ op' = [op EXCEPT !.at = "publish"]
  <2>1. op'.at = "publish" /\ op'.b = b
    BY <1>1, <1>2, <1>5, OpFacts DEF Ops
  <2>2. Included(sha, snapRef[b])
    BY <1>4, <1>5 DEF Included, Ancestor
  <2> QED BY <1>1, <1>3, <1>4, <2>1, <2>2, OfferPublish, FollowRests DEF Manifest
<1>6. CASE op' = Idle
  BY <1>1, <1>6, ManifestIdle
<1>7. CASE op' = [op EXCEPT !.at = "reserve",
                     !.r = [kind |-> "snapshot_ref", for |-> {},
                            sha |-> batches[b].head, old |-> snapRef[b]]]
  <2> DEFINE r == [kind |-> "snapshot_ref", for |-> {},
                   sha |-> batches[b].head, old |-> snapRef[b]]
  <2>1. r.kind = "snapshot_ref" /\ r.sha = sha
    BY <1>4
  <2> HIDE DEF r
  <2>2. op'.at = "reserve" /\ op'.b = b /\ op'.r = r
    <3>1. op' = [op EXCEPT !.at = "reserve", !.r = r]
      BY <1>7 DEF r
    <3> QED BY <1>1, <1>2, <3>1, OpFacts DEF Ops
  <2>3. Covered(b)' /\ HeadOf(b)' = sha
    BY <1>1, <1>3, <1>4 DEF Covered, HeadOf, AllUnmoved, Unmoved, Steady
  <2>4. Offer(b)'
    BY <2>1, <2>2, <2>3 DEF Offer, Doing, Confirmed, Mutating, Answering
  <2>5. OfferInv'
    BY <2>2, <2>4 DEF OfferInv, Batches
  <2> QED BY <1>1, <2>5, FollowRests DEF Manifest
<1> QED BY <1>2, <1>4, <1>5, <1>6, <1>7 DEF Snapshot

\* After a confirmed push the members are in the snapshot.
LEMMA ManifestSettleSnapshot == ASSUME TypeInv, Manifest, SettleSnapshot PROVE Manifest'
<1>1. op.at = "settle" /\ op.r.kind = "snapshot_ref" /\ UNCHANGED <<snapRef, prs>> /\ AllUnmoved
  BY SettleSnapshotUnmoved DEF SettleSnapshot, remote
<1>2. PICK b \in Batches : b = op.b
  BY <1>1, OpFacts
<1>3. CASE op.got = "confirmed"
  <2>1. op' = [op EXCEPT !.at = "publish", !.r = NoReservation, !.got = "none"]
    BY <1>3 DEF SettleSnapshot
  <2>2. op'.at = "publish" /\ op'.b = b
    BY <1>1, <1>2, <2>1, OpFacts DEF Ops
  <2>3. Covered(b) /\ op.r.sha = HeadOf(b) /\ Included(op.r.sha, snapRef[b])
    BY <1>1, <1>2, <1>3
       DEF Manifest, OfferInv, Offer, Doing, Confirmed, Mutating, Answering
  <2>4. HeadOf(b) \in Commits
    BY HeadTyped
  <2> QED BY <1>1, <2>2, <2>3, <2>4, OfferPublish, FollowRests DEF Manifest
<1>4. CASE op.got # "confirmed"
  BY <1>1, <1>4, ManifestIdle DEF SettleSnapshot
<1> QED BY <1>3, <1>4

\* The manifest reserved is of the members the snapshot holds.
LEMMA ManifestPublish == ASSUME TypeInv, Manifest, Publish PROVE Manifest'
<1>1. op.at = "publish" /\ UNCHANGED <<snapRef, prs>>
  BY DEF Publish, remote
<1>2. PICK b \in Batches : b = op.b
  BY <1>1, OpFacts
<1>3. snapRef[b] # None /\ MembersOf(b) \subseteq snapRef[b].tickets
  BY <1>1, <1>2 DEF Manifest, OfferInv, Offer
<1>4. CASE op' = Idle
  BY <1>1, <1>4, ManifestIdle
<1>5. ASSUME NEW kind \in {"create_customer_pr", "update_customer_pr"},
             op' = At("reserve", b, PrReservation(kind, b))
      PROVE  Manifest'
  <2>1. op'.at = "reserve" /\ op'.b = b /\ op'.r.kind = kind /\ op'.r.for = MembersOf(b)
    BY <1>5 DEF At, PrReservation
  <2>2. Offer(b)'
    BY <1>1, <1>3, <2>1 DEF Offer, Doing, Confirmed, Mutating, Answering
  <2>3. OfferInv'
    BY <2>1, <2>2 DEF OfferInv, Batches
  <2> QED BY <1>1, <2>3, FollowRests DEF Manifest
<1>6. \/ op' = Idle
      \/ op' = At("reserve", b, PrReservation("update_customer_pr", b))
      \/ op' = At("reserve", b, PrReservation("create_customer_pr", b))
  BY <1>2 DEF Publish
<1> QED BY <1>4, <1>5, <1>6

\* Every step of a publication keeps the pull requests true.
LEMMA ManifestPublication ==
    ASSUME TypeInv, Manifest, Publication
    PROVE  Manifest'
<1>1. ASSUME NEW b \in Batches, Release(b) PROVE Manifest'
  <2>1. UNCHANGED <<snapRef, prs>> /\ (op' = Idle \/ op'.at = "validate")
    BY <1>1, ReleaseSteady DEF remote
  <2> QED BY <2>1, ManifestIdle, ManifestRests DEF Mutating
<1>2. CASE SettleCreate \/ SettleUpdate
  BY <1>2, ManifestIdle DEF SettleCreate, SettleUpdate, remote
<1> QED BY <1>1, <1>2, ManifestValidate, ManifestSnapshot, ManifestPush, ManifestSettleSnapshot,
           ManifestPublish, ManifestCreate, ManifestUpdate DEF Publication

\* Others close pull requests, or push on top of a snapshot.
LEMMA ManifestEnvironment ==
    ASSUME TypeInv, Manifest, Environment
    PROVE  Manifest'
<1>1. CASE Crash
  BY <1>1, ManifestIdle DEF Crash, remote
<1>2. ASSUME (\E i \in DOMAIN prs : CustomerAnswers(i)) \/ TargetMoves \/ ExternalEdit, SnapsGrow
      PROVE  OfferInv'
  <2>1. AllSteady /\ op'.at = op.at /\ op'.b = op.b /\ op'.r = op.r /\ op'.got = op.got
    BY <1>2, QuietUnmoved, UnmovedSteady, EnvironmentOp
  <2>2. Confirmed("snapshot_ref")' => Confirmed("snapshot_ref")
    BY <2>1 DEF Confirmed
  <2>3. CASE \E b \in Batches : b = op.b
    BY <1>2, <2>1, <2>2, <2>3, OfferGoesOn DEF Manifest
  <2>4. CASE ~\E b \in Batches : b = op.b
    <3>1. op'.at = "idle"
      BY <2>1, <2>4, OpFacts
    <3> QED BY <3>1, OfferRests DEF Mutating
  <2> QED BY <2>3, <2>4
<1>3. ASSUME NEW n \in DOMAIN prs, CustomerAnswers(n) PROVE Manifest'
  <2>1. PICK status \in {"completed", "abandoned"} : prs' = [prs EXCEPT ![n].status = status]
    BY <1>3 DEF CustomerAnswers
  <2>2. UNCHANGED snapRef /\ OfferInv'
    BY <1>2, <1>3, SnapsStay DEF CustomerAnswers
  <2>3. \A i \in DOMAIN prs : prs[i] \in PrRecords
    BY DEF TypeInv, TypeOK
  <2>4. /\ DOMAIN prs' = DOMAIN prs
        /\ \A i \in DOMAIN prs :
             /\ prs'[i].of = prs[i].of /\ prs'[i].sha = prs[i].sha
             /\ prs'[i].manifest = prs[i].manifest
             /\ prs'[i].status = "active" => prs[i].status = "active"
    BY <2>1, <2>3 DEF PrRecords
  <2>5. FollowInv' /\ ManifestIsTrue'
    BY <2>2, <2>4 DEF Manifest, FollowInv, ManifestIsTrue, ActivePrs
  <2> QED BY <2>2, <2>5 DEF Manifest
<1>4. CASE TargetMoves
  BY <1>2, <1>4, SnapsStay, FollowRests DEF TargetMoves, remote, Manifest
<1>5. CASE ExternalEdit /\ UNCHANGED <<snapRef, prs>>
  BY <1>2, <1>5, SnapsStay, FollowRests DEF Manifest
<1>6. ASSUME ExternalEdit, NEW b \in Batches, snapRef[b] # None,
             snapRef' = [snapRef EXCEPT ![b] = Edited(@)],
             prs' = Follow(b, Edited(snapRef[b]))
      PROVE  Manifest'
  <2>1. snapRef[b] \in Commits /\ edits \in 0 .. MaxEdits /\ edits < MaxEdits
    BY <1>6 DEF ExternalEdit, TypeInv, TypeOK, Refs
  <2>2. PICK sha \in Commits : sha = Edited(snapRef[b])
    BY <2>1, EditedCommit
  <2>3. Ancestor(snapRef[b], sha) /\ sha # None /\ sha.tickets = snapRef[b].tickets
    BY <2>1, <2>2, EditedCommit, NoneAssumption DEF Ancestor
  <2>4. /\ snapRef \in [Batches -> Refs] /\ snapRef'[b] = sha
        /\ \A c \in Batches : c # b => snapRef'[c] = snapRef[c]
    BY <1>6, <2>2 DEF TypeInv, TypeOK
  <2>5. SnapsGrow
    BY <2>3, <2>4 DEF SnapsGrow, Ancestor
  <2>6. OfferInv'
    BY <1>2, <1>6, <2>5
  <2>7. /\ DOMAIN prs' = DOMAIN prs
        /\ \A i \in DOMAIN prs :
             /\ prs'[i].of = prs[i].of /\ prs'[i].status = prs[i].status
             /\ prs'[i].manifest = prs[i].manifest
             /\ prs[i].of = b /\ prs[i].status = "active" => prs'[i].sha = sha
             /\ ~(prs[i].of = b /\ prs[i].status = "active") => prs'[i].sha = prs[i].sha
    <3>1. prs' = Follow(b, sha) /\ prs \in Seq(PrRecords)
      BY <1>6, <2>2 DEF TypeInv, TypeOK
    <3> QED BY <3>1, FollowFacts
  <2>8. ASSUME NEW i \in DOMAIN prs', prs'[i].status = "active"
        PROVE  /\ snapRef'[prs'[i].of] # None /\ prs'[i].sha = snapRef'[prs'[i].of]
               /\ prs'[i].manifest \subseteq prs'[i].sha.tickets
    <3>1. i \in DOMAIN prs /\ prs'[i].of = prs[i].of /\ prs[i].status = "active"
      BY <2>7, <2>8
    <3>2. prs[i] \in PrRecords
      BY <3>1 DEF TypeInv, TypeOK
    <3>3. PICK c \in Batches : c = prs[i].of
      BY <3>2 DEF PrRecords
    <3>4. i \in ActivePrs
      BY <3>1 DEF ActivePrs
    <3>5. snapRef[c] # None /\ prs[i].sha = snapRef[c] /\ prs[i].manifest \subseteq prs[i].sha.tickets
      BY <3>3, <3>4 DEF Manifest, FollowInv, ManifestIsTrue
    <3>6. CASE c = b
      <4>1. prs[i].manifest \subseteq sha.tickets
        BY <2>3, <3>5, <3>6
      <4> QED BY <2>3, <2>4, <2>7, <3>1, <3>3, <3>6, <4>1
    <3>7. CASE c # b
      BY <2>4, <2>7, <3>1, <3>3, <3>5, <3>7
    <3> QED BY <3>6, <3>7
  <2> QED BY <2>6, <2>8 DEF Manifest, FollowInv, ManifestIsTrue, ActivePrs
<1> QED BY <1>1, <1>3, <1>4, <1>5, <1>6 DEF Environment, ExternalEdit

\* There is no pull request at first.
LEMMA InitManifest == Init => Manifest
<1> SUFFICES ASSUME Init PROVE Manifest
  OBVIOUS
<1>1. op.at = "idle" /\ DOMAIN prs = {}
  BY IdleFacts DEF Init
<1>2. OfferInv
  BY <1>1 DEF OfferInv, Offer, Doing, Confirmed, Mutating, Answering
<1> QED BY <1>1, <1>2 DEF Manifest, FollowInv, ManifestIsTrue, ActivePrs

\* Every step keeps the pull requests true.
LEMMA StepManifest == TypeInv /\ Manifest /\ [Next]_vars => Manifest'
<1> SUFFICES ASSUME TypeInv, Manifest, [Next]_vars PROVE Manifest'
  OBVIOUS
<1>1. CASE UNCHANGED vars
  <2>1. UNCHANGED <<snapRef, prs, op, batches>>
    BY <1>1 DEF vars
  <2>2. FollowInv' /\ ManifestIsTrue'
    BY <2>1, FollowRests DEF Manifest
  <2>3. ASSUME NEW b \in Batches, Offer(b) PROVE Offer(b)'
    BY <2>1, <2>3
       DEF Offer, Doing, Confirmed, Covered, HeadOf, MembersOf, Included, Ancestor
  <2> QED BY <2>1, <2>2, <2>3 DEF Manifest, OfferInv, Batches
<1> QED BY <1>1, ManifestCollection, ManifestReserve, ManifestFinish, ManifestPublication,
           ManifestReconciliation, ManifestEnvironment DEF Next

(* The body of an open pull request lists only members whose work is in    *)
(* the commit it offers: validate_cumulative (integration_delivery.py)     *)
(* comes before the push, and later pushes only add to it.                 *)
THEOREM ManifestStaysTrue == Spec => []ManifestIsTrue
<1>1. Init => TypeInv /\ Manifest
  BY InitType, InitManifest
<1>2. TypeInv /\ Manifest /\ [Next]_vars => (TypeInv /\ Manifest)'
  BY StepType, StepManifest
<1>3. TypeInv /\ Manifest => ManifestIsTrue
  BY DEF Manifest
<1> QED BY <1>1, <1>2, <1>3, PTL DEF Spec

-----------------------------------------------------------------------------
(* Merges that are not settled. *)

\* The tickets whose merge is on the integration branch, and the merges of a
\* batch the ledger has still to learn the outcome of.
OnBranch(t) == intRef # None /\ t \in intRef.tickets
Merged(r) == \E t \in r.for : OnBranch(t)
Unsettled(b) == Merges(b) \cup {r \in {op.r} : Doing("integrate_member") /\ op.b = b}

\* The outcome of a merge that is not settled is not in the head of its batch,
\* and at most one of them is on the branch: the next would not start from the
\* head.  So a head that is read back holds no other.
MergeInv ==
    /\ \A t \in Tickets : index[t] = NoBatch => ~OnBranch(t)
    /\ \A r \in Reservations :
         r = op.r /\ op.at \in {"reserve", "call"} /\ r.kind = "integrate_member"
           => ~Merged(r)
    /\ \A b \in Batches : \A r \in Unsettled(b) : Merged(r) => r.for \cap HeadOf(b).tickets = {}
    /\ \A b \in Batches : \A r, s \in Unsettled(b) :
         r.for = s.for \/ (Merged(r) /\ Merged(s)) => r = s
    /\ \A b \in Batches : Doing("integrate_member") /\ b = op.b /\ op.r \in Merges(b) =>
         op.at # "reserve" /\ (op.at = "settle" => op.got = "unknown")
    /\ \A b \in Batches : Deriving("integrate_member") /\ b = op.b =>
         \A r \in Merges(b) : ~Merged(r)

\* What the butler may still do to the head of a batch only gets less.
Rests(b) ==
    /\ Steady(b)
    /\ Unsettled(b)' \subseteq Unsettled(b)
    /\ Deriving("integrate_member")' /\ op'.b = b => Deriving("integrate_member") /\ op.b = b

AllRest == \A b \in Batches : Rests(b)
NoNewMerge == \A t \in Tickets : OnBranch(t)' => OnBranch(t)

\* A branch nobody pushes to gets no work.
LEMMA NothingMerged == ASSUME UNCHANGED intRef PROVE NoNewMerge
  BY DEF NoNewMerge, OnBranch

\* A merge that is not settled is of a member.
LEMMA UnsettledFacts ==
    ASSUME TypeInv, NEW b \in Batches, NEW r \in Unsettled(b)
    PROVE  /\ r \in Reservations /\ r.kind = "integrate_member"
           /\ \E t \in MembersOf(b) : r.for = {t} /\ index[t] = b
<1>1. batches[b] \in BatchRecords /\ Sound(b, batches[b])
  BY DEF TypeInv, TypeOK, BatchInv, BatchOK
<1>2. CASE r \in Merges(b)
  BY <1>1, <1>2 DEF Merges, BatchRecords, Sound, MembersOf
<1>3. CASE r = op.r /\ Doing("integrate_member") /\ op.b = b
  <2>1. op.at # "idle"
    BY <1>3 DEF Doing, Mutating
  <2>2. \E t \in MembersOf(b) : r.for = {t}
    BY <1>3 DEF TypeInv, OpInv
  <2> QED BY <1>1, <1>3, <2>1, <2>2, OpFacts DEF Doing, Sound, MembersOf
<1> QED BY <1>2, <1>3 DEF Unsettled

\* A merge whose work is not on the branch stays so until something is merged.
LEMMA StaysUnmerged ==
    ASSUME TypeInv, NoNewMerge, NEW r \in Reservations
    PROVE  Merged(r)' => Merged(r)
  BY DEF NoNewMerge, Merged, OnBranch, Reservations

\* What is known of the unsettled merges of a batch that keeps its head.
LEMMA UnsettledRests ==
    ASSUME TypeInv, MergeInv, NoNewMerge, NEW b \in Batches,
           HeadOf(b)' = HeadOf(b), Unsettled(b)' \subseteq Unsettled(b)
    PROVE  /\ \A r \in Unsettled(b)' : Merged(r)' => r.for \cap HeadOf(b)'.tickets = {}
           /\ \A r, s \in Unsettled(b)' : r.for = s.for \/ (Merged(r)' /\ Merged(s)') => r = s
<1>1. \A r \in Unsettled(b)' : r \in Unsettled(b) /\ (Merged(r)' => Merged(r))
  BY UnsettledFacts, StaysUnmerged
<1> QED BY <1>1 DEF MergeInv

\* A step after which no merge is under way.
LEMMA MergeQuiet ==
    ASSUME TypeInv, MergeInv, AllRest, NoNewMerge, UNCHANGED index,
           op'.at \in {"derive"} \cup Mutating => op'.r.kind # "integrate_member"
    PROVE  MergeInv'
<1>1. \A t \in Tickets : index'[t] = NoBatch => ~OnBranch(t)'
  BY DEF MergeInv, NoNewMerge
<1>2. ~Doing("integrate_member")' /\ ~Deriving("integrate_member")'
  BY DEF Doing, Deriving
<1>3. op'.at \in {"reserve", "call"} => op'.r.kind # "integrate_member"
  BY DEF Mutating
<1>4. ASSUME NEW b \in Batches
      PROVE  /\ \A r \in Unsettled(b)' : Merged(r)' => r.for \cap HeadOf(b)'.tickets = {}
             /\ \A r, s \in Unsettled(b)' : r.for = s.for \/ (Merged(r)' /\ Merged(s)') => r = s
  BY UnsettledRests DEF AllRest, Rests, Steady
<1> QED BY <1>1, <1>2, <1>3, <1>4 DEF MergeInv, Batches, Unsettled

\* A step that leaves what the butler is at.
LEMMA MergeGoesOn ==
    ASSUME TypeInv, MergeInv, UNCHANGED batches, NoNewMerge, UNCHANGED index,
           op'.at = op.at, op'.b = op.b, op'.r = op.r, op'.got = op.got
    PROVE  AllRest /\ MergeInv'
<1>1. ASSUME NEW b \in Batches PROVE Merges(b)' = Merges(b)
  BY DEF Merges
<1>2. /\ Doing("integrate_member")' = Doing("integrate_member")
      /\ Deriving("integrate_member")' = Deriving("integrate_member")
  BY Zenon DEF Doing, Deriving
<1>3. ASSUME NEW b \in Batches PROVE Unsettled(b)' = Unsettled(b)
  BY <1>1, <1>2 DEF Unsettled
<1>4. AllRest
  BY <1>2, <1>3 DEF AllRest, Rests, Steady, HeadOf, MembersOf, Kept
<1>5. \A t \in Tickets : index'[t] = NoBatch => ~OnBranch(t)'
  BY DEF MergeInv, NoNewMerge
<1>6. ASSUME NEW r \in Reservations, r = op'.r, op'.at \in {"reserve", "call"},
             r.kind = "integrate_member"
      PROVE  ~Merged(r)'
  BY <1>6, StaysUnmerged DEF MergeInv
<1>7. ASSUME NEW b \in Batches
      PROVE  /\ \A r \in Unsettled(b)' : Merged(r)' => r.for \cap HeadOf(b)'.tickets = {}
             /\ \A r, s \in Unsettled(b)' : r.for = s.for \/ (Merged(r)' /\ Merged(s)') => r = s
  BY <1>4, UnsettledRests DEF AllRest, Rests, Steady
<1>8. ASSUME NEW b \in Batches, Deriving("integrate_member")', b = op'.b, NEW r \in Merges(b)'
      PROVE  ~Merged(r)'
  <2>1. r \in Merges(b) /\ ~Merged(r)
    BY <1>1, <1>2, <1>8 DEF MergeInv
  <2>2. r \in Reservations
    BY <2>1, UnsettledFacts DEF Unsettled
  <2> QED BY <2>1, <2>2, StaysUnmerged
<1>9. ASSUME NEW b \in Batches, Doing("integrate_member")', b = op'.b, op'.r \in Merges(b)'
      PROVE  op'.at # "reserve" /\ (op'.at = "settle" => op'.got = "unknown")
  BY <1>1, <1>2, <1>9 DEF MergeInv
<1> QED BY <1>4, <1>5, <1>6, <1>7, <1>8, <1>9 DEF MergeInv, Batches, Reservations, Commits, Refs

\* Every batch rests in a step that changes no reservation of a merge.
LEMMA QuietRests ==
    ASSUME TypeInv, AllSteady, \A b \in Batches : batches'[b].pending = batches[b].pending,
           op'.at \in {"derive"} \cup Mutating => op'.r.kind # "integrate_member"
    PROVE  AllRest
<1>1. ~Doing("integrate_member")' /\ ~Deriving("integrate_member")'
  BY DEF Doing, Deriving
<1>2. ASSUME NEW b \in Batches PROVE Rests(b)
  <2>1. Merges(b)' = Merges(b)
    BY DEF Merges
  <2> QED BY <1>1, <2>1 DEF Rests, Unsettled, AllSteady
<1> QED BY <1>2 DEF AllRest

\* Every batch rests in a step that moves none.
LEMMA UnmovedRests ==
    ASSUME TypeInv, AllUnmoved,
           op'.at \in {"derive"} \cup Mutating => op'.r.kind # "integrate_member"
    PROVE  AllRest /\ \A b \in Batches : batches'[b].cohort = batches[b].cohort
<1>1. /\ AllSteady
      /\ \A b \in Batches : /\ batches'[b].pending = batches[b].pending
                            /\ batches'[b].cohort = batches[b].cohort
  BY UnmovedSteady DEF AllUnmoved, Unmoved
<1> QED BY <1>1, QuietRests

\* The steps after which no merge is under way, but for what a pass collects
\* anew and for the branch being created.
QuietMove ==
    \/ \E t \in Tickets : CollectAgain(t)
    \/ SettleBranch \/ Raise \/ PublicationStep \/ Crash
    \/ \E b \in Batches : reconcile_unknown(b) \/ observe_customer_completion(b)

\* These steps move no batch and have no merge under way afterwards.
LEMMA QuietMoveFacts ==
    ASSUME TypeInv, QuietMove
    PROVE  /\ AllUnmoved /\ UNCHANGED <<policy, index, intRef, edits>>
           /\ op'.at \in {"derive"} \cup Mutating => op'.r.kind # "integrate_member"
<1>1. op' = Idle => op'.at \notin {"derive"} \cup Mutating
  BY AfterIdle
<1>2. ASSUME NEW t \in Tickets, CollectAgain(t)
      PROVE  AllUnmoved /\ UNCHANGED <<policy, index, intRef, edits>> /\ op' = Idle
  BY <1>2, QuietUnmoved DEF CollectAgain, Collecting, ledger, remote
<1>3. CASE Raise \/ Crash
  <2>1. AllUnmoved /\ UNCHANGED <<policy, index, intRef, edits>> /\ op' = Idle
    BY <1>3, QuietUnmoved DEF Raise, Crash, ledger, remote
  <2> QED BY <1>1, <2>1
<1>4. CASE SettleBranch
  <2>1. /\ AllUnmoved /\ UNCHANGED <<policy, index, intRef, edits>>
        /\ op' = Idle \/ op'.at = "join"
    BY <1>4, SettleBranchFacts DEF remote
  <2> QED BY <1>1, <2>1 DEF Mutating
<1>5. ASSUME NEW b \in Batches, reconcile_unknown(b)
      PROVE  AllUnmoved /\ UNCHANGED <<policy, index, intRef, edits>> /\ op'.at = "reconcile"
  BY <1>5, QuietUnmoved DEF reconcile_unknown, ledger, remote, At
<1>6. ASSUME NEW b \in Batches, observe_customer_completion(b)
      PROVE  AllUnmoved /\ UNCHANGED <<policy, index, intRef, edits>> /\ op' = Idle
  BY <1>6, ObserveUnmoved DEF observe_customer_completion, remote
<1>7. CASE PublicationStep
  BY <1>7, PublicationUnmoved, PublicationOp
<1> QED BY <1>1, <1>2, <1>3, <1>4, <1>5, <1>6, <1>7 DEF QuietMove, Mutating

\* They keep the invariant of the merges.
LEMMA MergeQuietMove ==
    ASSUME TypeInv, MergeInv, QuietMove
    PROVE  MergeInv'
  BY QuietMoveFacts, UnmovedRests, NothingMerged, MergeQuiet

\* The beginning of a release leaves the merges alone.
LEMMA MergeRelease ==
    ASSUME TypeInv, MergeInv, NEW b \in Batches, Release(b)
    PROVE  AllRest /\ MergeInv'
<1>1. /\ AllSteady /\ UNCHANGED <<intRef, index>>
      /\ \A c \in Batches : batches'[c].pending = batches[c].pending
      /\ op' = Idle \/ op'.at = "validate"
  BY ReleaseSteady DEF remote
<1>2. op'.at \in {"derive"} \cup Mutating => op'.r.kind # "integrate_member"
  BY <1>1, AfterIdle DEF Mutating
<1> QED BY <1>1, <1>2, QuietRests, NothingMerged, MergeQuiet

\* A branch that is created holds no ticket.
LEMMA CreateBranchFacts ==
    ASSUME TypeInv, create_integration_branch
    PROVE  /\ AllUnmoved /\ UNCHANGED <<policy, index, snapRef, edits>>
           /\ op'.at = "finish" /\ op'.r.kind = "create_integration_branch"
           /\ UNCHANGED intRef \/ (intRef = None /\ intRef' = Base)
<1>1. op.at = "call" /\ op.r.kind = "create_integration_branch"
      /\ UNCHANGED <<policy, index, snapRef, edits>> /\ AllUnmoved
  BY QuietUnmoved DEF create_integration_branch, Calls, ledger
<1>2. op.r.sha = Base /\ op.r.old = None
  BY <1>1 DEF TypeInv, OpInv, Doing, Mutating
<1>3. \E result \in Results \ {"none"} : Answered(result)
  BY DEF create_integration_branch, Answers, Results
<1>4. op'.at = "finish" /\ op'.r = op.r
  BY <1>1, <1>3, AnsweredFacts
<1> QED BY <1>1, <1>2, <1>4 DEF create_integration_branch

\* Creating the integration branch leaves the merges alone.
LEMMA MergeCreateBranch ==
    ASSUME TypeInv, MergeInv, create_integration_branch
    PROVE  AllRest /\ MergeInv'
<1>1. NoNewMerge
  BY CreateBranchFacts DEF NoNewMerge, OnBranch, Base
<1> QED BY <1>1, CreateBranchFacts, UnmovedRests, MergeQuiet

\* The customer, the target and other people's pushes merge no ticket.
LEMMA MergeEnvironment ==
    ASSUME TypeInv, MergeInv,
           (\E i \in DOMAIN prs : CustomerAnswers(i)) \/ TargetMoves \/ ExternalEdit
    PROVE  AllRest /\ MergeInv'
<1>1. UNCHANGED <<batches, index>>
  BY DEF CustomerAnswers, TargetMoves, ExternalEdit, ledger
<1>2. CASE UNCHANGED intRef
  BY <1>1, <1>2, NothingMerged, EnvironmentOp, MergeGoesOn
<1>3. CASE ExternalEdit /\ intRef' = Edited(IF intRef = None THEN Base ELSE intRef)
  <2>1. PICK c \in Commits : c = (IF intRef = None THEN Base ELSE intRef)
    BY BaseIsCommit DEF TypeInv, TypeOK, Refs
  <2>2. intRef' = Edited(c) /\ Edited(c).tickets = c.tickets
    BY <1>3, <2>1, EditedCommit DEF ExternalEdit, TypeInv, TypeOK
  <2>3. NoNewMerge
    BY <2>1, <2>2 DEF NoNewMerge, OnBranch, Base
  <2> QED BY <1>1, <2>3, EnvironmentOp, MergeGoesOn
<1> QED BY <1>2, <1>3 DEF CustomerAnswers, TargetMoves, ExternalEdit, remote

\* A new batch has nothing pending.
LEMMA CollectRests ==
    ASSUME TypeInv, NEW t \in Tickets, Collect(t)
    PROVE  /\ \A b \in Batches : Rests(b) \/ (Fresh(b, IF intRef = None THEN Base ELSE intRef)
                                             /\ Unsettled(b)' = {} /\ ~Deriving("integrate_member")')
           /\ op'.at \in {"derive"} \cup Mutating => op'.r.kind # "integrate_member"
<1>1. op'.at \in {"derive"} \cup Mutating => op'.r.kind # "integrate_member"
  <2>1. op'.at = "join" \/ (op'.at = "reserve" /\ op'.r.kind = "create_integration_branch")
    BY CollectFacts
  <2> QED BY <2>1 DEF Mutating
<1>2. CASE UNCHANGED batches
  <2>1. AllUnmoved
    BY <1>2, NothingSaved
  <2> QED BY <1>1, <2>1, UnmovedRests DEF AllRest
<1>3. ASSUME NEW b \in Batches, Fresh(b, IF intRef = None THEN Base ELSE intRef)
      PROVE  \A c \in Batches : Rests(c) \/ (Fresh(c, IF intRef = None THEN Base ELSE intRef)
                                             /\ Unsettled(c)' = {} /\ ~Deriving("integrate_member")')
  <2>1. ~Doing("integrate_member")' /\ ~Deriving("integrate_member")'
    BY <1>1 DEF Doing, Deriving
  <2>2. batches'[b].pending = {} /\ \A c \in Batches : c # b => batches'[c] = batches[c]
    BY <1>3 DEF Fresh
  <2>3. Unsettled(b)' = {}
    BY <2>1, <2>2 DEF Unsettled, Merges
  <2>4. ASSUME NEW c \in Batches, c # b PROVE Rests(c)
    <3>1. Merges(c)' = Merges(c)
      BY <2>2, <2>4 DEF Merges
    <3>2. Steady(c)
      BY <2>2, <2>4 DEF Steady, HeadOf, MembersOf, Kept
    <3> QED BY <2>1, <3>1, <3>2 DEF Rests, Unsettled
  <2> QED BY <1>3, <2>1, <2>3, <2>4
<1> QED BY <1>1, <1>2, <1>3, CollectFacts

\* Beginning to collect a ticket keeps the invariant of the merges.
LEMMA MergeCollect ==
    ASSUME TypeInv, MergeInv, NEW t \in Tickets, Collect(t)
    PROVE  MergeInv'
<1>1. UNCHANGED <<index, intRef>>
  BY CollectFacts DEF remote
<1>2. NoNewMerge
  BY <1>1, NothingMerged
<1>3. ASSUME NEW b \in Batches
      PROVE  /\ \A r \in Unsettled(b)' : Merged(r)' => r.for \cap HeadOf(b)'.tickets = {}
             /\ \A r, s \in Unsettled(b)' : r.for = s.for \/ (Merged(r)' /\ Merged(s)') => r = s
  <2>1. CASE Rests(b)
    BY <1>2, <2>1, UnsettledRests DEF Rests, Steady
  <2>2. CASE Unsettled(b)' = {}
    BY <2>2
  <2> QED BY <2>1, <2>2, CollectRests
<1>4. ~Doing("integrate_member")' /\ ~Deriving("integrate_member")'
  BY CollectRests DEF Doing, Deriving
<1>5. op'.at \in {"reserve", "call"} => op'.r.kind # "integrate_member"
  BY CollectRests DEF Mutating
<1>6. \A u \in Tickets : index'[u] = NoBatch => ~OnBranch(u)'
  BY <1>1, <1>2 DEF MergeInv, NoNewMerge
<1> QED BY <1>3, <1>4, <1>5, <1>6 DEF MergeInv, Batches

\* A reservation is of the merge under way.
LEMMA ReserveRests == ASSUME TypeInv, Reserve PROVE AllRest
<1>1. PICK b : b = op.b
  OBVIOUS
<1>2. /\ AllSteady /\ b \in Batches
      /\ \A c \in Batches : c # b => batches'[c] = batches[c]
      /\ batches'[b].pending \subseteq batches[b].pending \cup {op.r}
      /\ op.at = "reserve" /\ op'.at = "call" /\ op'.b = op.b /\ op'.r = op.r
  BY <1>1, ReserveSteady
<1>3. /\ Doing("integrate_member")' <=> Doing("integrate_member")
      /\ Doing("integrate_member") <=> op.r.kind = "integrate_member"
      /\ ~Deriving("integrate_member")'
  BY <1>2 DEF Doing, Deriving, Mutating
<1>4. ASSUME NEW c \in Batches PROVE Unsettled(c)' \subseteq Unsettled(c)
  <2>1. CASE c = b
    BY <1>1, <1>2, <1>3, <2>1 DEF Unsettled, Merges
  <2>2. CASE c # b
    BY <1>1, <1>2, <1>3, <2>2 DEF Unsettled, Merges
  <2> QED BY <2>1, <2>2
<1> QED BY <1>2, <1>3, <1>4 DEF AllRest, Rests, AllSteady

\* Reserving a mutation keeps the invariant of the merges.
LEMMA MergeReserve == ASSUME TypeInv, MergeInv, Reserve PROVE MergeInv'
<1>1. PICK b : b = op.b
  OBVIOUS
<1>2. UNCHANGED <<index, intRef>> /\ op.at = "reserve" /\ op'.at = "call" /\ op'.r = op.r
  BY <1>1, ReserveSteady DEF remote
<1>3. NoNewMerge
  BY <1>2, NothingMerged
<1>4. ASSUME NEW c \in Batches
      PROVE  /\ \A r \in Unsettled(c)' : Merged(r)' => r.for \cap HeadOf(c)'.tickets = {}
             /\ \A r, s \in Unsettled(c)' : r.for = s.for \/ (Merged(r)' /\ Merged(s)') => r = s
  BY <1>3, ReserveRests, UnsettledRests DEF AllRest, Rests, Steady
<1>5. \A t \in Tickets : index'[t] = NoBatch => ~OnBranch(t)'
  BY <1>2, <1>3 DEF MergeInv, NoNewMerge
<1>6. ASSUME NEW r \in Reservations, r = op'.r, r.kind = "integrate_member"
      PROVE  ~Merged(r)'
  BY <1>2, <1>3, <1>6, StaysUnmerged DEF MergeInv
<1>7. ~Deriving("integrate_member")'
  BY <1>2 DEF Deriving
<1> QED BY <1>2, <1>4, <1>5, <1>6, <1>7 DEF MergeInv, Batches, Reservations, Commits, Refs

\* An answer that is no outcome leaves the merge unsettled.
LEMMA FinishRests == ASSUME TypeInv, Finish PROVE AllRest
<1>1. PICK b : b = op.b
  OBVIOUS
<1>2. /\ AllSteady /\ b \in Batches
      /\ \A c \in Batches : c # b => batches'[c] = batches[c]
      /\ batches'[b].pending \subseteq batches[b].pending \cup {op.r}
      /\ op.at = "finish" /\ op'.at = "settle" /\ op'.b = op.b /\ op'.r = op.r
  BY <1>1, FinishSteady
<1>3. /\ Doing("integrate_member")' <=> Doing("integrate_member")
      /\ Doing("integrate_member") <=> op.r.kind = "integrate_member"
      /\ ~Deriving("integrate_member")'
  BY <1>2 DEF Doing, Deriving, Mutating
<1>4. ASSUME NEW c \in Batches PROVE Unsettled(c)' \subseteq Unsettled(c)
  <2>1. CASE c = b
    BY <1>1, <1>2, <1>3, <2>1 DEF Unsettled, Merges
  <2>2. CASE c # b
    BY <1>1, <1>2, <1>3, <2>2 DEF Unsettled, Merges
  <2> QED BY <2>1, <2>2
<1> QED BY <1>2, <1>3, <1>4 DEF AllRest, Rests, AllSteady

\* Saving an outcome keeps the invariant of the merges.
LEMMA MergeFinish == ASSUME TypeInv, MergeInv, Finish PROVE MergeInv'
<1>1. PICK b : b = op.b
  OBVIOUS
<1>2. /\ UNCHANGED <<index, intRef>> /\ op'.at = "settle" /\ op'.b = op.b
      /\ op'.r = op.r /\ op'.got = op.got
      /\ op.got # "unknown" => batches'[b].pending = batches[b].pending \ {op.r}
  BY <1>1, FinishSteady DEF remote
<1>3. NoNewMerge
  BY <1>2, NothingMerged
<1>4. ASSUME NEW c \in Batches
      PROVE  /\ \A r \in Unsettled(c)' : Merged(r)' => r.for \cap HeadOf(c)'.tickets = {}
             /\ \A r, s \in Unsettled(c)' : r.for = s.for \/ (Merged(r)' /\ Merged(s)') => r = s
  BY <1>3, FinishRests, UnsettledRests DEF AllRest, Rests, Steady
<1>5. \A t \in Tickets : index'[t] = NoBatch => ~OnBranch(t)'
  BY <1>2, <1>3 DEF MergeInv, NoNewMerge
<1>6. ASSUME NEW c \in Batches, c = op'.b, op'.r \in Merges(c)'
      PROVE  op'.got = "unknown"
  BY <1>1, <1>2, <1>6 DEF Merges
<1>7. ~Deriving("integrate_member")'
  BY <1>2 DEF Deriving
<1> QED BY <1>2, <1>4, <1>5, <1>6, <1>7 DEF MergeInv, Batches

\* The merge that lands was on no branch, and starts from the head: nothing
\* else that is unsettled in its batch is on the branch.
LEMMA IntegrateRests == ASSUME TypeInv, integrate_reviewed PROVE AllRest
<1>1. /\ op.at = "call" /\ op.r.kind = "integrate_member" /\ op'.at = "finish"
      /\ op'.b = op.b /\ op'.r = op.r /\ UNCHANGED batches
  BY IntegrateFacts DEF integrate_reviewed, ledger
<1>2. /\ Doing("integrate_member")' /\ Doing("integrate_member")
      /\ ~Deriving("integrate_member")'
  BY <1>1 DEF Doing, Deriving, Mutating
<1>3. ASSUME NEW c \in Batches PROVE Unsettled(c)' = Unsettled(c)
  BY <1>1, <1>2 DEF Unsettled, Merges
<1> QED BY <1>1, <1>2, <1>3, NothingSaved, UnmovedSteady DEF AllRest, Rests, AllSteady

\* Pushing a merge keeps the invariant of the merges.
LEMMA MergeIntegrate == ASSUME TypeInv, Ledger, MergeInv, integrate_reviewed PROVE MergeInv'
<1>1. /\ op.at = "call" /\ op.r.kind = "integrate_member" /\ op'.at = "finish"
      /\ op'.b = op.b /\ op'.r = op.r /\ UNCHANGED index
  BY IntegrateFacts DEF integrate_reviewed, ledger
<1>2. ~Deriving("integrate_member")'
  BY <1>1 DEF Deriving
<1>3. CASE UNCHANGED intRef
  <2>1. NoNewMerge
    BY <1>3, NothingMerged
  <2>2. ASSUME NEW c \in Batches
        PROVE  /\ \A r \in Unsettled(c)' : Merged(r)' => r.for \cap HeadOf(c)'.tickets = {}
               /\ \A r, s \in Unsettled(c)' : r.for = s.for \/ (Merged(r)' /\ Merged(s)') => r = s
    BY <2>1, IntegrateRests, UnsettledRests DEF AllRest, Rests, Steady
  <2>3. \A t \in Tickets : index'[t] = NoBatch => ~OnBranch(t)'
    BY <1>1, <2>1 DEF MergeInv, NoNewMerge
  <2> QED BY <1>1, <1>2, <2>2, <2>3 DEF MergeInv, Batches
<1>4. CASE /\ intRef = op.r.old /\ intRef \in Commits /\ intRef' \in Commits
           /\ intRef'.tickets = intRef.tickets \cup op.r.for
  <2>1. PICK b \in Batches : b = op.b
    BY <1>1, OpFacts
  <2>2. op.r \in Unsettled(b) /\ HeadOf(b) = intRef
    BY <1>1, <1>4, <2>1 DEF Unsettled, Doing, Mutating, Ledger, LedgerInv
  <2>3. PICK t \in Tickets : op.r.for = {t} /\ index[t] = b
    BY <2>2, UnsettledFacts DEF MembersOf
  <2>4. ~OnBranch(t)
    BY <1>1, <2>3, OpFacts DEF MergeInv, Merged
  <2>5. intRef # None /\ intRef' # None
    BY <1>4, NoneAssumption
  <2>6. \A u \in Tickets : OnBranch(u)' <=> OnBranch(u) \/ u = t
    BY <1>4, <2>3, <2>5 DEF OnBranch
  <2>7. t \notin HeadOf(b).tickets
    BY <2>2, <2>4, <2>5 DEF OnBranch
  <2>8. ASSUME NEW c \in Batches, NEW r \in Unsettled(c)', Merged(r)'
        PROVE  /\ r \in Unsettled(c) /\ r.for \cap HeadOf(c)'.tickets = {}
               /\ IF c = b THEN r = op.r ELSE Merged(r)
    <3>1. r \in Unsettled(c) /\ HeadOf(c)' = HeadOf(c)
      BY IntegrateRests DEF AllRest, Rests, Steady
    <3>2. PICK u \in Tickets : r.for = {u} /\ index[u] = c
      BY <3>1, UnsettledFacts DEF MembersOf
    <3>3. OnBranch(u)'
      BY <2>8, <3>2 DEF Merged
    <3>4. CASE u = t
      <4>1. c = b /\ r = op.r
        BY <2>2, <2>3, <3>1, <3>2, <3>4 DEF MergeInv
      <4> QED BY <2>3, <2>7, <3>1, <4>1
    <3>5. CASE u # t
      <4>1. OnBranch(u) /\ Merged(r)
        BY <2>6, <3>2, <3>3, <3>5 DEF Merged
      <4>2. r.for \cap HeadOf(c).tickets = {}
        BY <3>1, <4>1 DEF MergeInv
      <4>3. c # b
        BY <2>2, <3>2, <4>1, <4>2 DEF OnBranch
      <4> QED BY <3>1, <4>1, <4>2, <4>3
    <3> QED BY <3>4, <3>5
  <2>9. ASSUME NEW c \in Batches, NEW r \in Unsettled(c)', NEW s \in Unsettled(c)',
               r.for = s.for \/ (Merged(r)' /\ Merged(s)')
        PROVE  r = s
    <3>1. r \in Unsettled(c) /\ s \in Unsettled(c)
      BY IntegrateRests DEF AllRest, Rests
    <3> QED BY <2>8, <2>9, <3>1 DEF MergeInv
  <2>10. \A u \in Tickets : index'[u] = NoBatch => ~OnBranch(u)'
    <3>1. index[t] # NoBatch
      BY <2>3, DeliveryAssumption DEF NoBatch, Batches
    <3> QED BY <1>1, <2>6, <3>1 DEF MergeInv
  <2> QED BY <1>1, <1>2, <2>8, <2>9, <2>10 DEF MergeInv, Batches
<1> QED BY <1>3, <1>4, IntegrateFacts

\* The ticket that joins is on no branch, and no merge of it was reserved.
LEMMA JoinRests ==
    ASSUME TypeInv, Join, NEW b \in Batches, NEW t \in Tickets, b = op.b, op.r.for = {t},
           MembersOf(b)' = MembersOf(b) \cup {t}, HeadOf(b)' = HeadOf(b),
           batches'[b].pending = batches[b].pending,
           \A c \in Batches : c # b => batches'[c] = batches[c],
           op'.at = "reserve", op'.b = b, op'.r = op.r, op.r.kind = "integrate_member"
    PROVE  /\ \A c \in Batches : c # b => Rests(c)
           /\ Unsettled(b)' = Merges(b) \cup {op.r} /\ Merges(b)' = Merges(b)
           /\ ~Deriving("integrate_member")'
<1>1. Doing("integrate_member")' /\ ~Deriving("integrate_member")'
  BY DEF Doing, Deriving, Mutating
<1>2. ASSUME NEW c \in Batches, c # b PROVE Rests(c)
  <2>1. Unsettled(c)' = Merges(c)
    BY <1>1, <1>2 DEF Unsettled, Merges
  <2>2. Steady(c)
    BY <1>2 DEF Steady, HeadOf, MembersOf, Kept
  <2> QED BY <1>1, <2>1, <2>2 DEF Rests, Unsettled
<1>3. Merges(b)' = Merges(b)
  BY DEF Merges
<1> QED BY <1>1, <1>2, <1>3 DEF Unsettled

\* Entering a ticket in its batch keeps the invariant of the merges.
LEMMA MergeJoin == ASSUME TypeInv, MergeInv, Join PROVE MergeInv'
<1>1. CASE AllUnmoved /\ op' = Idle /\ UNCHANGED <<policy, index, remote>>
  BY <1>1, AfterIdle, UnmovedRests, NothingMerged, MergeQuiet DEF remote
<1>2. ASSUME NEW b \in Batches, NEW t \in Tickets,
             b = op.b, op.r.for = {t}, index[t] = NoBatch,
             MembersOf(b)' = MembersOf(b) \cup {t}, HeadOf(b)' = HeadOf(b),
             batches'[b].pending = batches[b].pending,
             \A c \in Batches : c # b => batches'[c] = batches[c],
             index' = [index EXCEPT ![t] = b],
             op.at = "join", op.r.kind = "integrate_member",
             op'.at = "reserve", op'.b = b, op'.r = op.r, UNCHANGED <<policy, remote>>
      PROVE  MergeInv'
  <2>1. /\ \A c \in Batches : c # b => Rests(c)
        /\ Unsettled(b)' = Merges(b) \cup {op.r} /\ Merges(b)' = Merges(b)
        /\ ~Deriving("integrate_member")'
    BY <1>2, JoinRests
  <2>2. NoNewMerge
    BY <1>2, NothingMerged DEF remote
  <2>3. op.r \in Reservations /\ ~Merged(op.r)
    BY <1>2, OpFacts DEF MergeInv, Merged
  <2>4. \A r \in Merges(b) : r \in Reservations /\ r \in Unsettled(b) /\ r.for # {t}
    <3>1. b # NoBatch
      BY DeliveryAssumption DEF NoBatch, Batches
    <3>2. \A r \in Merges(b) : r \in Unsettled(b)
      BY DEF Unsettled
    <3> QED BY <1>2, <3>1, <3>2, UnsettledFacts
  <2>5. ASSUME NEW r \in Unsettled(b)', Merged(r)'
        PROVE  r \in Unsettled(b) /\ Merged(r) /\ r \in Merges(b)
    BY <2>1, <2>2, <2>3, <2>4, <2>5, StaysUnmerged
  <2>6. ASSUME NEW c \in Batches
        PROVE  /\ \A r \in Unsettled(c)' : Merged(r)' => r.for \cap HeadOf(c)'.tickets = {}
               /\ \A r, s \in Unsettled(c)' : r.for = s.for \/ (Merged(r)' /\ Merged(s)') => r = s
    <3>1. CASE c = b
      BY <1>2, <2>1, <2>4, <2>5, <3>1 DEF MergeInv
    <3>2. CASE c # b
      BY <2>1, <2>2, <3>2, UnsettledRests DEF Rests, Steady
    <3> QED BY <3>1, <3>2
  <2>7. \A u \in Tickets : index'[u] = NoBatch => ~OnBranch(u)'
    <3>1. index \in [Tickets -> 0 .. MaxBatches] /\ b # NoBatch
      BY DeliveryAssumption DEF TypeInv, TypeOK, NoBatch, Batches
    <3> QED BY <1>2, <2>2, <3>1 DEF MergeInv, NoNewMerge
  <2>8. ASSUME NEW r \in Reservations, r = op'.r
        PROVE  ~Merged(r)'
    BY <1>2, <2>2, <2>3, <2>8, StaysUnmerged
  <2>9. ASSUME NEW c \in Batches, c = op'.b PROVE op'.r \notin Merges(c)'
    BY <1>2, <2>1, <2>4, <2>9
  <2> QED BY <2>1, <2>6, <2>7, <2>8, <2>9 DEF MergeInv, Batches, Reservations, Commits, Refs
<1> QED BY <1>1, <1>2, JoinSteady

\* A merge that is confirmed is settled, and the head learns of no other.
LEMMA SettleMergeRests ==
    ASSUME TypeInv, op' = Idle, NEW b \in Batches, b = op.b,
           \A c \in Batches : c # b => batches'[c] = batches[c],
           batches'[b].pending = batches[b].pending
    PROVE  /\ \A c \in Batches : c # b => Rests(c)
           /\ Unsettled(b)' = Merges(b) /\ Merges(b)' = Merges(b)
           /\ ~Doing("integrate_member")' /\ ~Deriving("integrate_member")'
<1>1. ~Doing("integrate_member")' /\ ~Deriving("integrate_member")'
  BY AfterIdle DEF Doing, Deriving
<1>2. ASSUME NEW c \in Batches, c # b PROVE Rests(c)
  <2>1. Unsettled(c)' = Merges(c)
    BY <1>1, <1>2 DEF Unsettled, Merges
  <2>2. Steady(c)
    BY <1>2 DEF Steady, HeadOf, MembersOf, Kept
  <2> QED BY <1>1, <2>1, <2>2 DEF Rests, Unsettled
<1>3. Merges(b)' = Merges(b)
  BY DEF Merges
<1> QED BY <1>1, <1>2, <1>3 DEF Unsettled

\* Acting on the outcome of a merge keeps the invariant of the merges.
LEMMA MergeSettleMerge == ASSUME TypeInv, MergeInv, SettleMerge PROVE MergeInv'
<1>1. PICK b \in Batches, t \in Tickets :
         /\ b = op.b /\ op.r.for = {t} /\ UNCHANGED <<policy, index, remote>>
         /\ op.at = "settle" /\ op.r.kind = "integrate_member" /\ op' = Idle
         /\ \A c \in Batches : c # b => batches'[c] = batches[c]
         /\ batches'[b].pending = batches[b].pending
         /\ \/ /\ op.got = "confirmed"
               /\ HeadOf(b)'.tickets = HeadOf(b).tickets \cup {t}
            \/ op.got \in {"unknown", "conflict"} /\ HeadOf(b)' = HeadOf(b)
  BY SettleMergeFacts
<1>2. /\ \A c \in Batches : c # b => Rests(c)
      /\ Unsettled(b)' = Merges(b) /\ Merges(b)' = Merges(b)
      /\ ~Doing("integrate_member")' /\ ~Deriving("integrate_member")'
  BY <1>1, SettleMergeRests
<1>3. NoNewMerge
  BY <1>1, NothingMerged DEF remote
<1>4. op.r \in Unsettled(b) /\ Merges(b) \subseteq Unsettled(b)
  BY <1>1 DEF Unsettled, Doing, Mutating
<1>5. op.got = "confirmed" => \A r \in Merges(b) : t \notin r.for
  <2> SUFFICES ASSUME op.got = "confirmed", NEW r \in Merges(b), t \in r.for PROVE FALSE
    OBVIOUS
  <2>1. r.for = op.r.for
    BY <1>1, <1>4, UnsettledFacts
  <2>2. r = op.r
    BY <1>4, <2>1 DEF MergeInv
  <2> QED BY <1>1, <2>2 DEF MergeInv, Doing, Mutating
<1>6. ASSUME NEW c \in Batches
      PROVE  /\ \A r \in Unsettled(c)' : Merged(r)' => r.for \cap HeadOf(c)'.tickets = {}
             /\ \A r, s \in Unsettled(c)' : r.for = s.for \/ (Merged(r)' /\ Merged(s)') => r = s
  <2>1. CASE c = b
    <3>1. \A r \in Unsettled(b)' : r \in Unsettled(b) /\ (Merged(r)' => Merged(r))
      BY <1>2, <1>3, <1>4, UnsettledFacts, StaysUnmerged
    <3>2. ASSUME NEW r \in Unsettled(b)', Merged(r)' PROVE r.for \cap HeadOf(b)'.tickets = {}
      <4>1. r.for \cap HeadOf(b).tickets = {}
        BY <3>1, <3>2 DEF MergeInv
      <4> QED BY <1>1, <1>2, <1>5, <4>1
    <3> QED BY <2>1, <3>1, <3>2 DEF MergeInv
  <2>2. CASE c # b
    BY <1>2, <1>3, <2>2, UnsettledRests DEF Rests, Steady
  <2> QED BY <2>1, <2>2
<1>7. \A u \in Tickets : index'[u] = NoBatch => ~OnBranch(u)'
  BY <1>1, <1>3 DEF MergeInv, NoNewMerge
<1>8. op'.at \notin {"reserve", "call"}
  BY <1>1, AfterIdle DEF Mutating
<1> QED BY <1>2, <1>6, <1>7, <1>8 DEF MergeInv, Batches

\* A merge that is read back was the only one on the branch.
LEMMA ReadBackRests ==
    ASSUME TypeInv, ReadBack, NEW b, b = op.b
    PROVE  /\ b \in Batches /\ \A c \in Batches : c # b => Rests(c)
           /\ HeadOf(b)' = HeadOf(b) /\ Unsettled(b)' \subseteq Unsettled(b)
           /\ ~Doing("integrate_member")' /\ UNCHANGED <<policy, index, remote>>
           /\ \/ AllRest /\ ~Deriving("integrate_member")'
              \/ \E r \in Merges(b) : /\ Landed(b, r) /\ Merges(b)' = Merges(b) \ {r}
                                      /\ op'.r.sha = intRef /\ op'.at = "derive" /\ op'.b = b
<1>1. /\ AllSteady /\ b \in Batches /\ UNCHANGED <<policy, index, remote>>
      /\ \A c \in Batches : c # b => batches'[c] = batches[c]
  BY ReadBackSteady
<1>2. \/ op' = Idle /\ UNCHANGED batches
      \/ \E r \in batches[b].pending :
           /\ Landed(b, r) /\ batches'[b].pending = batches[b].pending \ {r}
           /\ op'.at = "derive" /\ op'.b = b /\ op'.r.kind = r.kind
           /\ r.kind = "integrate_member" => op'.r.sha = intRef
  BY ReadBackSteady
<1>3. op'.at \notin Mutating
  BY <1>2, IdleFacts DEF Mutating
<1>4. ~Doing("integrate_member")'
  BY <1>3 DEF Doing
<1>5. ASSUME NEW c \in Batches PROVE Unsettled(c)' \subseteq Unsettled(c)
  <2>1. Merges(c)' \subseteq Merges(c)
    <3>1. batches'[c].pending \subseteq batches[c].pending
      BY <1>1, <1>2
    <3> QED BY <3>1 DEF Merges
  <2> QED BY <1>4, <2>1 DEF Unsettled
<1>6. ~Deriving("integrate_member")' => AllRest
  BY <1>1, <1>5 DEF AllRest, Rests, AllSteady
<1>7. op'.b = b \/ ~Deriving("integrate_member")'
  BY <1>2, IdleFacts DEF Deriving
<1>8. \A c \in Batches : c # b => Rests(c)
  BY <1>1, <1>5, <1>7 DEF Rests, AllSteady
<1>9. Deriving("integrate_member")' =>
        \E r \in Merges(b) : /\ Landed(b, r) /\ Merges(b)' = Merges(b) \ {r}
                             /\ op'.r.sha = intRef /\ op'.at = "derive" /\ op'.b = b
  <2> SUFFICES ASSUME Deriving("integrate_member")'
               PROVE  \E r \in Merges(b) : /\ Landed(b, r) /\ Merges(b)' = Merges(b) \ {r}
                                           /\ op'.r.sha = intRef /\ op'.at = "derive" /\ op'.b = b
    OBVIOUS
  <2>1. PICK r \in batches[b].pending :
           /\ Landed(b, r) /\ batches'[b].pending = batches[b].pending \ {r}
           /\ op'.at = "derive" /\ op'.b = b /\ op'.r.kind = r.kind
           /\ r.kind = "integrate_member" => op'.r.sha = intRef
    BY <1>2, IdleFacts DEF Deriving
  <2>2. r.kind = "integrate_member"
    BY <2>1 DEF Deriving
  <2>3. r \in Merges(b) /\ Merges(b)' = Merges(b) \ {r}
    BY <2>1, <2>2 DEF Merges
  <2> QED BY <2>1, <2>2, <2>3
<1> QED BY <1>1, <1>4, <1>5, <1>6, <1>8, <1>9 DEF AllSteady, Steady

\* Reading an outcome back keeps the invariant of the merges.
LEMMA MergeReadBack == ASSUME TypeInv, MergeInv, ReadBack PROVE MergeInv'
<1>1. PICK b \in Batches : b = op.b
  BY OpFacts DEF ReadBack
<1>2. /\ \A c \in Batches : c # b => Rests(c)
      /\ HeadOf(b)' = HeadOf(b) /\ Unsettled(b)' \subseteq Unsettled(b)
      /\ ~Doing("integrate_member")' /\ UNCHANGED <<index, intRef>>
  BY <1>1, ReadBackRests DEF remote
<1>3. NoNewMerge
  BY <1>2, NothingMerged
<1>4. CASE AllRest /\ ~Deriving("integrate_member")'
  <2>1. op'.at \in {"derive"} \cup Mutating => op'.r.kind # "integrate_member"
    BY <1>2, <1>4 DEF Doing, Deriving
  <2> QED BY <1>2, <1>3, <1>4, <2>1, MergeQuiet
<1>5. ASSUME NEW r \in Merges(b), Landed(b, r), Merges(b)' = Merges(b) \ {r},
             op'.at = "derive", op'.b = b
      PROVE  MergeInv'
  <2>1. r \in Unsettled(b) /\ Merges(b) \subseteq Unsettled(b)
    BY DEF Unsettled
  <2>2. Merged(r)
    <3>1. r \in Reservations /\ r.kind = "integrate_member" /\ \E t \in Tickets : r.for = {t}
      BY <2>1, UnsettledFacts DEF MembersOf
    <3>2. intRef \in Commits /\ r.for \subseteq intRef.tickets
      BY <1>5, <3>1, LandedFacts
    <3> QED BY <3>1, <3>2, NoneAssumption DEF Merged, OnBranch
  <2>3. ASSUME NEW s \in Merges(b)' PROVE ~Merged(s)'
    <3>1. s \in Unsettled(b) /\ s # r /\ s \in Reservations
      BY <1>5, <2>1, UnsettledFacts
    <3>2. ~Merged(s)
      BY <2>1, <2>2, <3>1 DEF MergeInv
    <3> QED BY <1>3, <3>1, <3>2, StaysUnmerged
  <2>4. ASSUME NEW c \in Batches
        PROVE  /\ \A q \in Unsettled(c)' : Merged(q)' => q.for \cap HeadOf(c)'.tickets = {}
               /\ \A q, s \in Unsettled(c)' : q.for = s.for \/ (Merged(q)' /\ Merged(s)') => q = s
    <3>1. HeadOf(c)' = HeadOf(c) /\ Unsettled(c)' \subseteq Unsettled(c)
      BY <1>2 DEF Rests, Steady
    <3> QED BY <1>3, <3>1, UnsettledRests
  <2>5. \A u \in Tickets : index'[u] = NoBatch => ~OnBranch(u)'
    BY <1>2, <1>3 DEF MergeInv, NoNewMerge
  <2> QED BY <1>2, <1>5, <2>3, <2>4, <2>5 DEF MergeInv, Batches
<1> QED BY <1>1, <1>4, <1>5, ReadBackRests

\* The head that is read back holds no other unsettled merge.
LEMMA MergeDerive == ASSUME TypeInv, MergeInv, Derive PROVE MergeInv'
<1>1. PICK b \in Batches :
         /\ b = op.b /\ UNCHANGED <<policy, index, remote>> /\ op.at = "derive"
         /\ \A c \in Batches : c # b => batches'[c] = batches[c]
         /\ op'.at \notin {"join", "derive"} \cup Mutating
         /\ MembersOf(b)' = MembersOf(b)
         /\ batches'[b].pending = batches[b].pending
         /\ \/ HeadOf(b)' = HeadOf(b) /\ Kept(b)' \subseteq Kept(b)
            \/ op.r.kind = "integrate_member" /\ HeadOf(b)' = op.r.sha
  BY DeriveSteady
<1>2. NoNewMerge
  BY <1>1, NothingMerged DEF remote
<1>3. ~Doing("integrate_member")' /\ ~Deriving("integrate_member")'
  BY <1>1 DEF Doing, Deriving
<1>4. ASSUME NEW c \in Batches, c # b PROVE Steady(c)
  BY <1>1, <1>4 DEF Steady, HeadOf, MembersOf, Kept
<1>5. ASSUME NEW c \in Batches
      PROVE  Merges(c)' = Merges(c) /\ Unsettled(c)' = Merges(c) /\ Merges(c) \subseteq Unsettled(c)
  BY <1>1, <1>3 DEF Unsettled, Merges
<1>6. CASE HeadOf(b)' = HeadOf(b) /\ Kept(b)' \subseteq Kept(b)
  <2>1. AllRest
    BY <1>1, <1>3, <1>4, <1>5, <1>6 DEF AllRest, Rests, Steady
  <2> QED BY <1>1, <1>2, <2>1, MergeQuiet
<1>7. CASE op.r.kind = "integrate_member" /\ HeadOf(b)' = op.r.sha
  <2>1. ASSUME NEW c \in Batches
        PROVE  /\ \A r \in Unsettled(c)' : Merged(r)' => r.for \cap HeadOf(c)'.tickets = {}
               /\ \A r, s \in Unsettled(c)' : r.for = s.for \/ (Merged(r)' /\ Merged(s)') => r = s
    <3>1. CASE c # b
      BY <1>2, <1>4, <1>5, <3>1, UnsettledRests DEF Steady
    <3>2. CASE c = b
      <4>1. \A r \in Merges(b) : r \in Unsettled(b) /\ r \in Reservations /\ ~Merged(r)
        BY <1>1, <1>5, <1>7, UnsettledFacts DEF MergeInv, Deriving
      <4>2. \A r \in Merges(b) : ~Merged(r)'
        BY <1>2, <4>1, StaysUnmerged
      <4> QED BY <1>5, <3>2, <4>1, <4>2 DEF MergeInv
    <3> QED BY <3>1, <3>2
  <2>2. \A u \in Tickets : index'[u] = NoBatch => ~OnBranch(u)'
    BY <1>1, <1>2 DEF MergeInv, NoNewMerge
  <2>3. op'.at \notin {"reserve", "call"}
    BY <1>1 DEF Mutating
  <2> QED BY <1>3, <2>1, <2>2, <2>3 DEF MergeInv, Batches
<1> QED BY <1>1, <1>6, <1>7

\* Nothing is merged at first.
LEMMA InitMerge == Init => MergeInv
<1> SUFFICES ASSUME Init PROVE MergeInv
  OBVIOUS
<1>1. /\ op.at = "idle" /\ intRef = None
      /\ \A b \in Batches : batches[b].pending = {}
  BY IdleFacts DEF Init, NewBatch
<1>2. ~Doing("integrate_member") /\ ~Deriving("integrate_member")
  BY <1>1 DEF Doing, Deriving, Mutating
<1> QED BY <1>1, <1>2 DEF MergeInv, OnBranch, Unsettled, Merges

\* Every step keeps the invariant of the merges.
LEMMA StepMerge == TypeInv /\ Ledger /\ MergeInv /\ [Next]_vars => MergeInv'
<1> SUFFICES ASSUME TypeInv, Ledger, MergeInv, [Next]_vars PROVE MergeInv'
  OBVIOUS
<1>1. CASE UNCHANGED vars
  BY <1>1, NothingMerged, MergeGoesOn DEF vars
<1>2. CASE Collection
  BY <1>2, MergeQuietMove, MergeCollect, MergeJoin, MergeCreateBranch, MergeIntegrate,
     MergeSettleMerge DEF Collection, QuietMove
<1>3. CASE Publication
  BY <1>3, MergeRelease, MergeQuietMove DEF Publication, QuietMove, PublicationStep
<1>4. CASE Reconciliation
  BY <1>4, MergeQuietMove, MergeReadBack, MergeDerive DEF Reconciliation, QuietMove
<1>5. CASE Environment
  BY <1>5, MergeQuietMove, MergeEnvironment DEF Environment, QuietMove
<1> QED BY <1>1, <1>2, <1>3, <1>4, <1>5, MergeReserve, MergeFinish DEF Next

-----------------------------------------------------------------------------
(* Snapshots. *)

\* The edits of others that a commit holds have been made.
Old(c) == c.edits \subseteq 1 .. edits
OldInv ==
    /\ \A b \in Batches : Old(HeadOf(b))
    /\ intRef # None => Old(intRef)
    /\ Deriving("integrate_member") => Old(op.r.sha)

\* A release is of all the members of its batch.
Underway == op.at \in {"validate", "snapshot"} \/ Doing("snapshot_ref")
ReleaseInv ==
    \A b \in Batches : Underway /\ b = op.b =>
        batches[b].cohort = MembersOf(b) /\ MembersOf(b) # {}

\* A batch whose head nothing can move any more, and whose snapshot is that
\* head unless somebody else has edited it.
Closed(b) ==
    /\ Unsettled(b) = {}
    /\ ~(Deriving("integrate_member") /\ op.b = b)
    /\ snapRef[b] = HeadOf(b) \/ ~(snapRef[b].edits \subseteq HeadOf(b).edits)

\* A batch that was pushed is closed, or has a member its cohort lacks and
\* will never be due again.
Final(b) ==
    snapRef[b] # None =>
        /\ batches[b].cohort # {}
        /\ batches[b].cohort \subseteq MembersOf(b)
        /\ batches[b].cohort = MembersOf(b) => Closed(b)
FrozenInv ==
    policy # "rolling" =>
        /\ \A b \in Batches : Final(b)
        /\ Doing("snapshot_ref") =>
             op.r.old = None \/ ~(op.r.old.edits \subseteq op.r.sha.edits)

Snapshots == OldInv /\ ReleaseInv /\ FrozenInv

CohortsStay == \A b \in Batches : batches'[b].cohort = batches[b].cohort

\* The release goes on as it was, or ends.
SameRelease ==
    /\ Underway' => Underway /\ op'.b = op.b
    /\ Doing("snapshot_ref")' => Doing("snapshot_ref") /\ op'.r = op.r

\* A release that goes on is still of all the members of its batch.
LEMMA ReleaseGoesOn ==
    ASSUME TypeInv, ReleaseInv, SameRelease, AllSteady, CohortsStay
    PROVE  ReleaseInv'
<1> SUFFICES ASSUME Underway', NEW b \in Batches, b = op'.b
             PROVE  batches'[b].cohort = MembersOf(b)' /\ MembersOf(b)' # {}
  BY DEF ReleaseInv, Batches
<1> QED BY DEF ReleaseInv, SameRelease, AllSteady, Steady, CohortsStay

\* A batch that rests stays final.
LEMMA FinalRests ==
    ASSUME NEW b \in Batches, Final(b), Rests(b), snapRef'[b] = snapRef[b],
           batches'[b].cohort = batches[b].cohort
    PROVE  Final(b)'
  BY DEF Final, Closed, Rests, Steady

\* A batch that is not closed stays so when its members are the same.
LEMMA FinalOpen ==
    ASSUME NEW b \in Batches, Final(b), ~Closed(b), snapRef'[b] = snapRef[b],
           MembersOf(b)' = MembersOf(b), batches'[b].cohort = batches[b].cohort
    PROVE  Final(b)'
  BY DEF Final

\* A release that goes on pushes what it was going to.
LEMMA FrozenGoesOn ==
    ASSUME FrozenInv, SameRelease, UNCHANGED policy,
           policy # "rolling" => \A b \in Batches : Final(b)'
    PROVE  FrozenInv'
<1> SUFFICES ASSUME policy # "rolling", Doing("snapshot_ref")'
             PROVE  op'.r.old = None \/ ~(op'.r.old.edits \subseteq op'.r.sha.edits)
  BY DEF FrozenInv, Batches
<1> QED BY DEF FrozenInv, SameRelease

\* Edits that have been made stay made.
LEMMA StaysOld ==
    ASSUME NEW c, Old(c), edits \in Nat, edits' \in {edits, edits + 1}
    PROVE  Old(c)'
  BY DEF Old

\* Most steps: nothing that concerns a snapshot changes.
LEMMA SnapshotsRest ==
    ASSUME TypeInv, Snapshots, AllRest, CohortsStay, SameRelease,
           UNCHANGED <<policy, intRef, snapRef, edits>>, ~Deriving("integrate_member")'
    PROVE  Snapshots'
<1>1. AllSteady /\ \A b \in Batches : HeadOf(b)' = HeadOf(b)
  BY DEF AllRest, Rests, AllSteady, Steady
<1>2. OldInv'
  BY <1>1 DEF Snapshots, OldInv, Old, Batches
<1>3. ReleaseInv'
  BY <1>1, ReleaseGoesOn DEF Snapshots
<1>4. policy # "rolling" => \A b \in Batches : Final(b)'
  BY FinalRests DEF Snapshots, FrozenInv, AllRest, CohortsStay
<1>5. FrozenInv'
  BY <1>4, FrozenGoesOn DEF Snapshots
<1> QED BY <1>2, <1>3, <1>5 DEF Snapshots

\* A step that is not of a release.
Elsewhere == op'.at \notin {"validate", "snapshot"} /\ ~Doing("snapshot_ref")'

\* Such a step has no release under way afterwards.
LEMMA ElsewhereFacts ==
    ASSUME Elsewhere
    PROVE  SameRelease /\ ~Underway' /\ ReleaseInv'
<1>1. ~Underway'
  BY DEF Elsewhere, Underway
<1>2. ReleaseInv'
  BY <1>1 DEF ReleaseInv, Batches
<1> QED BY <1>1, <1>2 DEF SameRelease, Elsewhere

\* An idle butler has no release under way.
LEMMA IdleElsewhere == ASSUME op' = Idle PROVE Elsewhere
  BY IdleFacts DEF Elsewhere, Doing, Mutating

\* The steps of a release that leave the snapshots alone.
LEMMA ReleaseOp ==
    ASSUME TypeInv, PublicationStep, ~snapshot_ref
    PROVE  /\ UNCHANGED <<policy, remote>> \/ create_customer_pr \/ update_customer_pr
           /\ UNCHANGED <<policy, snapRef>>
           /\ \/ SameRelease
              \/ /\ Snapshot /\ op'.at = "reserve" /\ op'.b = op.b
                 /\ op'.r.kind = "snapshot_ref" /\ op'.r.old = snapRef[op.b]
                 /\ op'.r.sha = HeadOf(op.b) /\ snapRef[op.b] # HeadOf(op.b)
<1>1. /\ UNCHANGED <<policy, remote>> \/ create_customer_pr \/ update_customer_pr
      /\ UNCHANGED <<policy, snapRef>>
  BY DEF PublicationStep, Validate, Snapshot, SettleSnapshot, Publish,
     create_customer_pr, SettleCreate, update_customer_pr, SettleUpdate, remote
<1>2. op' = Idle => SameRelease
  BY IdleElsewhere, ElsewhereFacts
<1>3. CASE Validate
  <2>1. op.at = "validate" /\ op \in Ops
    BY <1>3, OpFacts DEF Validate
  <2>2. op' = Idle \/ op' = [op EXCEPT !.at = "snapshot"]
    BY <1>3 DEF Validate
  <2>3. op' = [op EXCEPT !.at = "snapshot"] => SameRelease
    BY <2>1 DEF SameRelease, Underway, Doing, Mutating, Ops
  <2> QED BY <1>1, <1>2, <2>2, <2>3
<1>4. CASE Snapshot
  <2>1. op.at = "snapshot" /\ op \in Ops
    BY <1>4, OpFacts DEF Snapshot
  <2>2. op' = [op EXCEPT !.at = "publish"] => SameRelease
    BY <2>1 DEF SameRelease, Underway, Doing, Mutating, Ops
  <2>3. CASE /\ snapRef[op.b] # batches[op.b].head
             /\ op' = [op EXCEPT !.at = "reserve",
                          !.r = [kind |-> "snapshot_ref", for |-> {},
                                 sha |-> batches[op.b].head, old |-> snapRef[op.b]]]
    <3> DEFINE r == [kind |-> "snapshot_ref", for |-> {},
                     sha |-> batches[op.b].head, old |-> snapRef[op.b]]
    <3>1. r.kind = "snapshot_ref" /\ r.sha = HeadOf(op.b) /\ r.old = snapRef[op.b]
      BY DEF HeadOf
    <3>2. op' = [op EXCEPT !.at = "reserve", !.r = r]
      BY <2>3
    <3> HIDE DEF r
    <3>3. op'.at = "reserve" /\ op'.b = op.b /\ op'.r = r
      BY <2>1, <3>2 DEF Ops
    <3> QED BY <1>1, <1>4, <2>3, <3>1, <3>3 DEF HeadOf
  <2>4. \/ op' = Idle \/ op' = [op EXCEPT !.at = "publish"]
        \/ /\ snapRef[op.b] # batches[op.b].head
           /\ op' = [op EXCEPT !.at = "reserve",
                        !.r = [kind |-> "snapshot_ref", for |-> {},
                               sha |-> batches[op.b].head, old |-> snapRef[op.b]]]
    BY <1>4 DEF Snapshot
  <2> QED BY <1>1, <1>2, <2>2, <2>3, <2>4
<1>5. CASE SettleSnapshot
  <2>1. op.at = "settle" /\ op \in Ops
    BY <1>5, OpFacts DEF SettleSnapshot
  <2>2. op' = Idle \/ op' = [op EXCEPT !.at = "publish", !.r = NoReservation, !.got = "none"]
    BY <1>5 DEF SettleSnapshot
  <2>3. op' = [op EXCEPT !.at = "publish", !.r = NoReservation, !.got = "none"] => Elsewhere
    BY <2>1 DEF Elsewhere, Doing, Mutating, Ops
  <2> QED BY <1>1, <1>2, <2>2, <2>3, ElsewhereFacts
<1>6. CASE Publish
  <2>1. \/ op' = Idle
        \/ op' = At("reserve", op.b, PrReservation("update_customer_pr", op.b))
        \/ op' = At("reserve", op.b, PrReservation("create_customer_pr", op.b))
    BY <1>6 DEF Publish
  <2>2. op' # Idle => Elsewhere
    BY <2>1 DEF Elsewhere, Doing, Mutating, At, PrReservation
  <2> QED BY <1>1, <1>2, <2>2, ElsewhereFacts
<1>7. CASE create_customer_pr \/ update_customer_pr
  <2>1. op.at = "call" /\ op.r.kind # "snapshot_ref"
        /\ \E result \in Results \ {"none"} : Answered(result)
    BY <1>7 DEF create_customer_pr, update_customer_pr, Calls, Shown, Results
  <2>2. op'.at = "finish" /\ op'.r = op.r
    BY <2>1, AnsweredFacts
  <2>3. Elsewhere
    BY <2>1, <2>2 DEF Elsewhere, Doing
  <2> QED BY <1>1, <2>3, ElsewhereFacts
<1>8. CASE SettleCreate \/ SettleUpdate
  BY <1>1, <1>2, <1>8 DEF SettleCreate, SettleUpdate
<1> QED BY <1>3, <1>4, <1>5, <1>6, <1>7, <1>8 DEF PublicationStep

\* Publication leaves batches, cohorts and the integration branch alone.
LEMMA PublicationRests ==
    ASSUME TypeInv, PublicationStep
    PROVE  AllRest /\ CohortsStay /\ UNCHANGED <<intRef, edits>> /\ ~Deriving("integrate_member")'
<1>1. /\ op'.at \in {"derive"} \cup Mutating => op'.r.kind # "integrate_member"
      /\ UNCHANGED <<intRef, edits>>
  BY PublicationOp
<1>2. AllUnmoved
  BY PublicationUnmoved
<1> QED BY <1>1, <1>2, UnmovedRests DEF CohortsStay, Deriving

\* What is reserved for a batch that was pushed is refused: the snapshot holds
\* an edit the head does not.
LEMMA SnapshotsSnapshot == ASSUME TypeInv, Snapshots, Snapshot PROVE Snapshots'
<1>1. PublicationStep /\ ~snapshot_ref
  BY DEF PublicationStep, Snapshot, snapshot_ref, Calls
<1>2. /\ AllRest /\ CohortsStay /\ UNCHANGED <<policy, intRef, snapRef, edits>>
      /\ ~Deriving("integrate_member")'
  BY <1>1, PublicationRests, ReleaseOp
<1>3. CASE SameRelease
  BY <1>2, <1>3, SnapshotsRest
<1>4. CASE /\ op'.at = "reserve" /\ op'.b = op.b
           /\ op'.r.kind = "snapshot_ref" /\ op'.r.old = snapRef[op.b]
           /\ op'.r.sha = HeadOf(op.b) /\ snapRef[op.b] # HeadOf(op.b)
  <2>1. PICK b \in Batches : b = op.b
    BY OpFacts DEF Snapshot
  <2>2. Underway /\ batches[b].cohort = MembersOf(b) /\ MembersOf(b) # {}
    BY <2>1 DEF Snapshot, Underway, Snapshots, ReleaseInv
  <2>3. ReleaseInv'
    <3>1. batches'[b].cohort = MembersOf(b)' /\ MembersOf(b)' # {}
      BY <1>2, <2>2 DEF AllRest, Rests, Steady, CohortsStay
    <3> QED BY <1>4, <2>1, <3>1 DEF ReleaseInv, Batches
  <2>4. OldInv'
    BY <1>2 DEF Snapshots, OldInv, Old, AllRest, Rests, Steady, Batches
  <2>5. policy # "rolling" => \A c \in Batches : Final(c)'
    BY <1>2, FinalRests DEF Snapshots, FrozenInv, AllRest, CohortsStay
  <2>6. policy # "rolling" =>
          snapRef[b] = None \/ ~(snapRef[b].edits \subseteq HeadOf(b).edits)
    BY <1>4, <2>1, <2>2 DEF Snapshots, FrozenInv, Final, Closed
  <2>7. FrozenInv'
    <3>1. policy # "rolling" =>
            op'.r.old = None \/ ~(op'.r.old.edits \subseteq op'.r.sha.edits)
      BY <1>4, <2>1, <2>6
    <3> QED BY <1>2, <2>5, <3>1 DEF FrozenInv, Batches
  <2> QED BY <2>3, <2>4, <2>7 DEF Snapshots
<1> QED BY <1>1, <1>3, <1>4, ReleaseOp

\* A push that lands is the first of its batch, unless it is a rolling one.
LEMMA FirstPush ==
    ASSUME TypeInv, Snapshots, snapshot_ref, NEW b \in Batches, b = op.b, policy # "rolling"
    PROVE  UNCHANGED <<snapRef, prs>> \/ snapRef[b] = None
<1> SUFFICES ASSUME snapRef[b] # None, snapRef[b] = op.r.old, Ancestor(snapRef[b], op.r.sha)
             PROVE  FALSE
  BY PushFacts
<1>1. Doing("snapshot_ref")
  BY PushFacts DEF Doing, Mutating
<1> QED BY <1>1 DEF Snapshots, FrozenInv, Ancestor

\* All members are in the head that is pushed, so no merge is unsettled.
LEMMA PushCloses ==
    ASSUME TypeInv, Ledger, MergeInv, Manifest, op.at = "call", op.r.kind = "snapshot_ref",
           NEW b \in Batches, b = op.b
    PROVE  Merges(b) = {}
<1> SUFFICES ASSUME NEW r \in Merges(b) PROVE FALSE
  OBVIOUS
<1>1. r \in Unsettled(b)
  BY DEF Unsettled
<1>2. PICK t \in MembersOf(b) : r.for = {t}
  BY <1>1, UnsettledFacts
<1>3. t \in HeadOf(b).tickets /\ t \in Tickets
  <2>1. Covered(b)
    BY DEF Manifest, OfferInv, Offer, Doing, Mutating
  <2> QED BY <1>2, <2>1 DEF Covered, HeadOf, MembersOf
<1>4. OnBranch(t)
  <2>1. HeadOf(b) # Base
    BY <1>3 DEF Base
  <2> QED BY <1>3, <2>1 DEF Ledger, LedgerInv, Included, Ancestor, OnBranch
<1>5. Merged(r)
  BY <1>2, <1>4 DEF Merged
<1> QED BY <1>1, <1>2, <1>3, <1>5 DEF MergeInv

\* The push of a snapshot: the first one, or over somebody else's edit.
LEMMA SnapshotsPush ==
    ASSUME TypeInv, Ledger, MergeInv, Manifest, Snapshots, snapshot_ref
    PROVE  Snapshots'
<1>1. op.at = "call"
  BY DEF snapshot_ref, Calls
<1>2. PICK b \in Batches : b = op.b
  BY <1>1, OpFacts
<1>3. /\ op.r.kind = "snapshot_ref" /\ op.r.sha \in Commits
      /\ op'.at = "finish" /\ op'.b = op.b /\ op'.r = op.r
      /\ UNCHANGED <<policy, batches, intRef, edits>>
      /\ \/ UNCHANGED <<snapRef, prs>>
         \/ snapRef' = [snapRef EXCEPT ![b] = op.r.sha]
  BY <1>2, PushFacts DEF ledger
<1>4. AllRest /\ CohortsStay /\ ~Deriving("integrate_member")'
  BY PublicationRests DEF PublicationStep
<1>5. SameRelease /\ Doing("snapshot_ref")
  BY <1>1, <1>3 DEF SameRelease, Underway, Doing, Mutating
<1>6. CASE UNCHANGED <<snapRef, prs>>
  BY <1>3, <1>4, <1>5, <1>6, SnapshotsRest
<1>7. CASE snapRef' = [snapRef EXCEPT ![b] = op.r.sha] /\ ~UNCHANGED <<snapRef, prs>>
  <2>1. OldInv'
    BY <1>3, <1>4 DEF Snapshots, OldInv, Old, AllRest, Rests, Steady, Batches
  <2>2. ReleaseInv'
    <3>1. AllSteady
      BY <1>4 DEF AllRest, Rests, AllSteady
    <3> QED BY <1>4, <1>5, <3>1, ReleaseGoesOn DEF Snapshots
  <2>3. ASSUME policy # "rolling", NEW c \in Batches PROVE Final(c)'
    <3>1. CASE c # b
      <4>1. snapRef'[c] = snapRef[c]
        BY <1>7, <3>1 DEF TypeInv, TypeOK
      <4> QED BY <1>4, <2>3, <4>1, FinalRests DEF Snapshots, FrozenInv, AllRest, CohortsStay
    <3>2. CASE c = b
      <4>1. batches'[b].cohort = MembersOf(b)' /\ MembersOf(b)' # {}
        BY <1>2, <1>3, <1>5 DEF Snapshots, ReleaseInv, Underway, MembersOf
      <4>2. Unsettled(b)' = {}
        <5>1. Merges(b)' = {}
          BY <1>1, <1>2, <1>3, PushCloses DEF Merges
        <5>2. ~Doing("integrate_member")'
          BY <1>3 DEF Doing
        <5> QED BY <5>1, <5>2 DEF Unsettled
      <4>3. snapRef'[b] = HeadOf(b)'
        <5>1. op.r.sha = HeadOf(b)
          BY <1>2, <1>5 DEF Manifest, OfferInv, Offer
        <5> QED BY <1>3, <1>7, <5>1 DEF HeadOf, TypeInv, TypeOK
      <4>4. Closed(b)'
        BY <1>4, <4>2, <4>3 DEF Closed
      <4> QED BY <3>2, <4>1, <4>4 DEF Final
    <3> QED BY <3>1, <3>2
  <2>4. FrozenInv'
    BY <1>3, <1>5, <2>3, FrozenGoesOn DEF Snapshots
  <2> QED BY <2>1, <2>2, <2>4 DEF Snapshots
<1> QED BY <1>3, <1>6, <1>7

\* A batch that was pushed is released again with the same cohort.
LEMMA SnapshotsRelease ==
    ASSUME TypeInv, MergeInv, Snapshots, NEW b \in Batches, Release(b)
    PROVE  Snapshots'
<1>1. /\ AllSteady /\ UNCHANGED <<policy, remote>>
      /\ \A c \in Batches : c # b => batches'[c].cohort = batches[c].cohort
      /\ \/ op' = Idle /\ UNCHANGED batches
         \/ /\ op'.at = "validate" /\ op'.b = b
            /\ Due(b) /\ batches'[b].cohort = MembersOf(b)
  BY ReleaseSteady
<1>2. AllRest
  BY MergeRelease
<1>3. ~Deriving("integrate_member")' /\ ~Doing("snapshot_ref")'
  BY <1>1, IdleFacts DEF Deriving, Doing, Mutating
<1>4. CASE op' = Idle /\ UNCHANGED batches
  <2>1. SameRelease
    BY <1>4, IdleElsewhere, ElsewhereFacts
  <2> QED BY <1>1, <1>2, <1>3, <1>4, <2>1, SnapshotsRest DEF remote, CohortsStay
<1>5. CASE /\ op'.at = "validate" /\ op'.b = b
           /\ Due(b) /\ batches'[b].cohort = MembersOf(b)
  <2>1. OldInv'
    BY <1>1, <1>2, <1>3 DEF Snapshots, OldInv, Old, AllRest, Rests, Steady, Batches, remote
  <2>2. MembersOf(b)' = MembersOf(b) /\ MembersOf(b) # {}
    BY <1>1, <1>5 DEF AllSteady, Steady, Due, Integrated, MembersOf
  <2>3. ReleaseInv'
    BY <1>5, <2>2 DEF ReleaseInv, Batches
  <2>4. ASSUME policy # "rolling", NEW c \in Batches PROVE Final(c)'
    <3>1. Final(c) /\ Rests(c) /\ snapRef'[c] = snapRef[c]
      BY <1>1, <1>2, <2>4 DEF Snapshots, FrozenInv, AllRest, remote
    <3>2. snapRef[c] # None => batches'[c].cohort = batches[c].cohort
      <4>1. CASE c = b
        BY <1>5, <2>4, <3>1, <4>1 DEF Final, Due, Strategy
      <4> QED BY <1>1, <4>1
    <3>3. CASE snapRef[c] = None
      BY <3>1, <3>3 DEF Final
    <3> QED BY <3>1, <3>2, <3>3, FinalRests
  <2>5. FrozenInv'
    BY <1>1, <1>3, <2>4 DEF FrozenInv, Batches
  <2> QED BY <2>1, <2>3, <2>5 DEF Snapshots
<1> QED BY <1>1, <1>4, <1>5

\* The steps of collecting and of reading back are of no release.
LEMMA SnapshotsQuiet ==
    ASSUME TypeInv, Snapshots, QuietMove, ~PublicationStep
    PROVE  Snapshots'
<1>1. /\ AllUnmoved /\ UNCHANGED <<policy, intRef, edits>>
      /\ op'.at \in {"derive"} \cup Mutating => op'.r.kind # "integrate_member"
  BY QuietMoveFacts
<1>2. AllRest /\ CohortsStay /\ ~Deriving("integrate_member")'
  BY <1>1, UnmovedRests DEF CohortsStay, Deriving
<1>3. UNCHANGED snapRef /\ Elsewhere
  <2>1. ASSUME NEW t \in Tickets, CollectAgain(t) PROVE UNCHANGED snapRef /\ Elsewhere
    BY <2>1, IdleElsewhere DEF CollectAgain, Collecting, remote
  <2>2. CASE Raise \/ Crash
    BY <2>2, IdleElsewhere DEF Raise, Crash, remote
  <2>3. CASE SettleBranch
    <3>1. UNCHANGED snapRef /\ (op' = Idle \/ op'.at = "join")
      BY <2>3, SettleBranchFacts DEF remote
    <3> QED BY <3>1, IdleElsewhere DEF Elsewhere, Doing, Mutating
  <2>4. ASSUME NEW b \in Batches, reconcile_unknown(b) PROVE UNCHANGED snapRef /\ Elsewhere
    BY <2>4 DEF reconcile_unknown, remote, At, Elsewhere, Doing, Mutating
  <2>5. ASSUME NEW b \in Batches, observe_customer_completion(b)
        PROVE  UNCHANGED snapRef /\ Elsewhere
    BY <2>5, IdleElsewhere DEF observe_customer_completion, remote
  <2> QED BY <2>1, <2>2, <2>3, <2>4, <2>5 DEF QuietMove
<1> QED BY <1>1, <1>2, <1>3, ElsewhereFacts, SnapshotsRest

\* Reserving a mutation keeps the snapshots.
LEMMA SnapshotsReserve == ASSUME TypeInv, Snapshots, Reserve PROVE Snapshots'
<1>1. PICK b : b = op.b
  OBVIOUS
<1>2. /\ UNCHANGED <<policy, remote>> /\ CohortsStay
      /\ op.at = "reserve" /\ op'.at = "call" /\ op'.b = op.b /\ op'.r = op.r
  BY <1>1, ReserveSteady DEF CohortsStay
<1>3. SameRelease /\ ~Deriving("integrate_member")'
  BY <1>2 DEF SameRelease, Underway, Doing, Deriving, Mutating
<1> QED BY <1>2, <1>3, ReserveRests, SnapshotsRest DEF remote

\* Saving an outcome keeps the snapshots.
LEMMA SnapshotsFinish == ASSUME TypeInv, Snapshots, Finish PROVE Snapshots'
<1>1. PICK b : b = op.b
  OBVIOUS
<1>2. /\ UNCHANGED <<policy, remote>> /\ CohortsStay
      /\ op.at = "finish" /\ op'.at = "settle" /\ op'.b = op.b /\ op'.r = op.r
  BY <1>1, FinishSteady DEF CohortsStay
<1>3. SameRelease /\ ~Deriving("integrate_member")'
  BY <1>2 DEF SameRelease, Underway, Doing, Deriving, Mutating
<1> QED BY <1>2, <1>3, FinishRests, SnapshotsRest DEF remote

\* The integration branch is created, or merged into.
LEMMA SnapshotsBranch ==
    ASSUME TypeInv, Snapshots, AllRest, CohortsStay, Elsewhere,
           UNCHANGED <<policy, snapRef, edits>>, ~Deriving("integrate_member")',
           intRef' # None => Old(intRef')
    PROVE  Snapshots'
<1>1. OldInv'
  BY DEF Snapshots, OldInv, Old, AllRest, Rests, Steady, Batches
<1>2. policy # "rolling" => \A b \in Batches : Final(b)'
  BY FinalRests DEF Snapshots, FrozenInv, AllRest, CohortsStay
<1>3. FrozenInv'
  BY <1>2, ElsewhereFacts, FrozenGoesOn DEF Snapshots
<1> QED BY <1>1, <1>3, ElsewhereFacts DEF Snapshots

\* Creating the integration branch keeps the snapshots.
LEMMA SnapshotsCreateBranch ==
    ASSUME TypeInv, MergeInv, Snapshots, create_integration_branch
    PROVE  Snapshots'
<1>1. /\ UNCHANGED <<policy, snapRef, edits>> /\ AllUnmoved
      /\ op'.at = "finish" /\ op'.r.kind = "create_integration_branch"
      /\ UNCHANGED intRef \/ intRef' = Base
  BY CreateBranchFacts
<1>2. AllRest /\ CohortsStay /\ Elsewhere /\ ~Deriving("integrate_member")'
  BY <1>1, MergeCreateBranch DEF AllUnmoved, Unmoved, CohortsStay, Elsewhere, Doing, Deriving
<1>3. intRef' # None => Old(intRef')
  BY <1>1 DEF Snapshots, OldInv, Old, Base
<1> QED BY <1>1, <1>2, <1>3, SnapshotsBranch

\* Pushing a merge keeps the snapshots.
LEMMA SnapshotsIntegrate ==
    ASSUME TypeInv, Snapshots, integrate_reviewed
    PROVE  Snapshots'
<1>1. /\ op'.at = "finish" /\ op'.r.kind = "integrate_member"
      /\ UNCHANGED intRef \/ (intRef \in Commits /\ intRef'.edits = intRef.edits)
  BY IntegrateFacts
<1>2. UNCHANGED <<policy, batches, snapRef, edits>>
  BY DEF integrate_reviewed, ledger
<1>3. AllRest /\ CohortsStay /\ Elsewhere /\ ~Deriving("integrate_member")'
  BY <1>1, <1>2, IntegrateRests DEF CohortsStay, Elsewhere, Doing, Deriving
<1>4. intRef' # None => Old(intRef')
  BY <1>1, NoneAssumption DEF Snapshots, OldInv, Old
<1> QED BY <1>2, <1>3, <1>4, SnapshotsBranch

\* A step of collecting or reading back that touches one batch.
LEMMA SnapshotsOne ==
    ASSUME TypeInv, Snapshots, NEW b \in Batches, Elsewhere, UNCHANGED <<policy, remote>>,
           \A c \in Batches : c # b => Rests(c) /\ batches'[c].cohort = batches[c].cohort,
           HeadOf(b)'.edits \subseteq 1 .. edits,
           Deriving("integrate_member")' => op'.r.sha.edits \subseteq 1 .. edits,
           policy # "rolling" => Final(b)'
    PROVE  Snapshots'
<1>1. OldInv'
  <2>1. ASSUME NEW c \in Batches PROVE HeadOf(c)'.edits \subseteq 1 .. edits
    BY DEF Snapshots, OldInv, Old, Rests, Steady
  <2> QED BY <2>1 DEF Snapshots, OldInv, Old, Batches, remote
<1>2. policy # "rolling" => \A c \in Batches : Final(c)'
  BY FinalRests DEF Snapshots, FrozenInv, remote
<1>3. FrozenInv'
  BY <1>2, ElsewhereFacts, FrozenGoesOn DEF Snapshots
<1> QED BY <1>1, <1>3, ElsewhereFacts DEF Snapshots

\* Beginning to collect a ticket keeps the snapshots.
LEMMA SnapshotsCollect ==
    ASSUME TypeInv, Snapshots, NEW t \in Tickets, Collect(t)
    PROVE  Snapshots'
<1>1. /\ UNCHANGED <<policy, remote>>
      /\ op'.at = "join" \/ (op'.at = "reserve" /\ op'.r.kind = "create_integration_branch")
      /\ \/ UNCHANGED batches
         \/ \E b \in Batches : Fresh(b, IF intRef = None THEN Base ELSE intRef)
  BY CollectFacts
<1>2. Elsewhere /\ ~Deriving("integrate_member")' /\ ~Doing("integrate_member")'
  BY <1>1 DEF Elsewhere, Doing, Deriving, Mutating
<1>3. CASE UNCHANGED batches
  <2>1. AllRest /\ CohortsStay
    <3>1. op'.at \in {"derive"} \cup Mutating => op'.r.kind # "integrate_member"
      BY <1>1 DEF Mutating
    <3> QED BY <1>3, <3>1, NothingSaved, UnmovedRests DEF CohortsStay
  <2> QED BY <1>1, <1>2, <2>1, ElsewhereFacts, SnapshotsRest DEF remote
<1>4. ASSUME NEW b \in Batches, Fresh(b, IF intRef = None THEN Base ELSE intRef)
      PROVE  Snapshots'
  <2>1. /\ \A c \in Batches : c # b => batches'[c] = batches[c]
        /\ snapRef[b] = None /\ HeadOf(b)' = IF intRef = None THEN Base ELSE intRef
    BY <1>4 DEF Fresh
  <2>2. HeadOf(b)'.edits \subseteq 1 .. edits
    BY <2>1 DEF Base, Snapshots, OldInv, Old
  <2>3. ASSUME NEW c \in Batches, c # b
        PROVE  Rests(c) /\ batches'[c].cohort = batches[c].cohort
    <3>1. Steady(c) /\ batches'[c].cohort = batches[c].cohort
      BY <2>1, <2>3 DEF Steady, HeadOf, MembersOf, Kept
    <3>2. Unsettled(c)' \subseteq Unsettled(c)
      BY <1>2, <2>1, <2>3 DEF Unsettled, Merges
    <3> QED BY <1>2, <3>1, <3>2 DEF Rests
  <2>4. Final(b)'
    BY <1>1, <2>1 DEF Final, remote
  <2> QED BY <1>1, <1>2, <2>2, <2>3, <2>4, SnapshotsOne
<1> QED BY <1>1, <1>3, <1>4

\* The batch that a ticket joins has a member its cohort lacks.
LEMMA SnapshotsJoin == ASSUME TypeInv, Snapshots, Join PROVE Snapshots'
<1>1. CASE AllUnmoved /\ op' = Idle /\ UNCHANGED <<policy, index, remote>>
  <2>1. AllRest /\ CohortsStay /\ ~Deriving("integrate_member")'
    BY <1>1, AfterIdle, UnmovedRests DEF CohortsStay, Deriving
  <2> QED BY <1>1, <2>1, IdleElsewhere, ElsewhereFacts, SnapshotsRest DEF remote
<1>2. ASSUME NEW b \in Batches, NEW t \in Tickets,
             b = op.b, op.r.for = {t}, index[t] = NoBatch, t \notin MembersOf(b),
             MembersOf(b)' = MembersOf(b) \cup {t}, HeadOf(b)' = HeadOf(b),
             batches'[b].pending = batches[b].pending,
             batches'[b].cohort = batches[b].cohort,
             \A c \in Batches : c # b => batches'[c] = batches[c],
             op.r.kind = "integrate_member",
             op'.at = "reserve", op'.b = b, op'.r = op.r, UNCHANGED <<policy, remote>>
      PROVE  Snapshots'
  <2>1. /\ \A c \in Batches : c # b => Rests(c) /\ batches'[c].cohort = batches[c].cohort
        /\ ~Deriving("integrate_member")'
    BY <1>2, JoinRests
  <2>2. Elsewhere
    BY <1>2 DEF Elsewhere, Doing
  <2>3. HeadOf(b)'.edits \subseteq 1 .. edits
    BY <1>2 DEF Snapshots, OldInv, Old
  <2>4. policy # "rolling" => Final(b)'
    BY <1>2 DEF Snapshots, FrozenInv, Final, remote
  <2> QED BY <1>2, <2>1, <2>2, <2>3, <2>4, SnapshotsOne
<1> QED BY <1>1, <1>2, JoinSteady

\* A batch with a merge to settle or to derive from is not closed.
LEMMA SnapshotsSettleMerge == ASSUME TypeInv, Snapshots, SettleMerge PROVE Snapshots'
<1>1. PICK b \in Batches :
         /\ b = op.b /\ UNCHANGED <<policy, index, remote>>
         /\ op.at = "settle" /\ op.r.kind = "integrate_member" /\ op' = Idle
         /\ \A c \in Batches : c # b => batches'[c] = batches[c]
         /\ MembersOf(b)' = MembersOf(b)
         /\ batches'[b].pending = batches[b].pending
         /\ batches'[b].cohort = batches[b].cohort
         /\ HeadOf(b)'.edits = HeadOf(b).edits \/ HeadOf(b)' = HeadOf(b)
  BY SettleMergeFacts
<1>2. /\ \A c \in Batches : c # b => Rests(c) /\ batches'[c].cohort = batches[c].cohort
      /\ ~Deriving("integrate_member")'
  BY <1>1, SettleMergeRests
<1>3. ~Closed(b)
  BY <1>1 DEF Closed, Unsettled, Doing, Mutating
<1>4. policy # "rolling" => Final(b)'
  BY <1>1, <1>3, FinalOpen DEF Snapshots, FrozenInv, remote
<1>5. HeadOf(b)'.edits \subseteq 1 .. edits
  BY <1>1 DEF Snapshots, OldInv, Old
<1> QED BY <1>1, <1>2, <1>4, <1>5, IdleElsewhere, SnapshotsOne

\* Reading an outcome back keeps the snapshots.
LEMMA SnapshotsReadBack == ASSUME TypeInv, Snapshots, ReadBack PROVE Snapshots'
<1>1. PICK b \in Batches : b = op.b
  BY OpFacts DEF ReadBack
<1>2. /\ \A c \in Batches : c # b => Rests(c)
      /\ HeadOf(b)' = HeadOf(b) /\ UNCHANGED <<policy, remote>>
      /\ \A c \in Batches : batches'[c].cohort = batches[c].cohort
      /\ MembersOf(b)' = MembersOf(b)
  BY <1>1, ReadBackRests, ReadBackSteady DEF AllSteady, Steady
<1>3. Elsewhere
  <2>1. op' = Idle \/ op'.at = "derive"
    BY <1>1, ReadBackSteady
  <2> QED BY <2>1, IdleElsewhere DEF Elsewhere, Doing, Mutating
<1>4. CASE AllRest /\ ~Deriving("integrate_member")'
  BY <1>2, <1>3, <1>4, ElsewhereFacts, SnapshotsRest DEF CohortsStay, remote
<1>5. ASSUME NEW r \in Merges(b), Landed(b, r), op'.r.sha = intRef
      PROVE  Snapshots'
  <2>1. r \in Unsettled(b)
    BY DEF Unsettled
  <2>2. ~Closed(b)
    BY <2>1 DEF Closed
  <2>3. policy # "rolling" => Final(b)'
    BY <1>2, <2>2, FinalOpen DEF Snapshots, FrozenInv, remote
  <2>4. intRef # None
    BY <1>5, <2>1, UnsettledFacts, LandedFacts, NoneAssumption
  <2>5. op'.r.sha.edits \subseteq 1 .. edits /\ HeadOf(b)'.edits \subseteq 1 .. edits
    BY <1>2, <1>5, <2>4 DEF Snapshots, OldInv, Old
  <2> QED BY <1>2, <1>3, <2>3, <2>5, SnapshotsOne
<1> QED BY <1>1, <1>4, <1>5, ReadBackRests

\* Deriving a batch keeps the snapshots: a closed one is not merged into.
LEMMA SnapshotsDerive == ASSUME TypeInv, Snapshots, Derive PROVE Snapshots'
<1>1. PICK b \in Batches :
         /\ b = op.b /\ UNCHANGED <<policy, index, remote>> /\ op.at = "derive"
         /\ \A c \in Batches : c # b => batches'[c] = batches[c]
         /\ op'.at \notin {"join", "derive"} \cup Mutating
         /\ op'.at \notin {"validate", "snapshot", "publish"}
         /\ MembersOf(b)' = MembersOf(b)
         /\ batches'[b].pending = batches[b].pending
         /\ batches'[b].cohort = batches[b].cohort
         /\ \/ HeadOf(b)' = HeadOf(b) /\ Kept(b)' \subseteq Kept(b)
            \/ op.r.kind = "integrate_member" /\ HeadOf(b)' = op.r.sha
  BY DeriveSteady
<1>2. Elsewhere /\ ~Doing("integrate_member")' /\ ~Deriving("integrate_member")'
  BY <1>1 DEF Elsewhere, Doing, Deriving
<1>3. ASSUME NEW c \in Batches
      PROVE  /\ Unsettled(c)' \subseteq Unsettled(c) /\ (c # b => Steady(c))
             /\ batches'[c].cohort = batches[c].cohort
  <2>1. Unsettled(c)' \subseteq Unsettled(c)
    BY <1>1, <1>2 DEF Unsettled, Merges
  <2>2. c # b => Steady(c)
    BY <1>1 DEF Steady, HeadOf, MembersOf, Kept
  <2> QED BY <1>1, <2>1, <2>2
<1>4. CASE HeadOf(b)' = HeadOf(b) /\ Kept(b)' \subseteq Kept(b)
  <2>1. AllRest /\ CohortsStay
    BY <1>1, <1>2, <1>3, <1>4 DEF AllRest, Rests, Steady, CohortsStay
  <2> QED BY <1>1, <1>2, <2>1, ElsewhereFacts, SnapshotsRest DEF remote
<1>5. CASE op.r.kind = "integrate_member" /\ HeadOf(b)' = op.r.sha
  <2>1. Deriving("integrate_member") /\ ~Closed(b)
    BY <1>1, <1>5 DEF Deriving, Closed
  <2>2. policy # "rolling" => Final(b)'
    BY <1>1, <2>1, FinalOpen DEF Snapshots, FrozenInv, remote
  <2>3. HeadOf(b)'.edits \subseteq 1 .. edits
    BY <1>5, <2>1 DEF Snapshots, OldInv, Old
  <2>4. \A c \in Batches : c # b => Rests(c) /\ batches'[c].cohort = batches[c].cohort
    BY <1>2, <1>3 DEF Rests
  <2> QED BY <1>1, <1>2, <2>2, <2>3, <2>4, SnapshotsOne
<1> QED BY <1>1, <1>4, <1>5

\* An edit of others is newer than every head.
LEMMA SnapshotsEnvironment ==
    ASSUME TypeInv, MergeInv, Snapshots,
           (\E i \in DOMAIN prs : CustomerAnswers(i)) \/ TargetMoves \/ ExternalEdit
    PROVE  Snapshots'
<1>1. UNCHANGED <<policy, batches>> /\ AllRest /\ CohortsStay
  BY MergeEnvironment DEF CustomerAnswers, TargetMoves, ExternalEdit, ledger, CohortsStay
<1>2. /\ op'.at = op.at /\ op'.b = op.b /\ op'.r = op.r
      /\ Deriving("integrate_member")' = Deriving("integrate_member")
  BY EnvironmentOp, Zenon DEF Deriving
<1>3. SameRelease
  BY <1>2 DEF SameRelease, Underway, Doing
<1>4. edits \in Nat /\ edits' \in {edits, edits + 1}
  BY DeliveryAssumption
     DEF CustomerAnswers, TargetMoves, ExternalEdit, remote, TypeInv, TypeOK
<1>5. ReleaseInv'
  <2>1. AllSteady
    BY <1>1 DEF AllRest, Rests, AllSteady
  <2> QED BY <1>1, <1>3, <2>1, ReleaseGoesOn DEF Snapshots
<1>6. \A b \in Batches : HeadOf(b)' = HeadOf(b)
  BY <1>1 DEF HeadOf
<1>7. OldInv'
  <2>1. \A b \in Batches : HeadOf(b)'.edits \subseteq 1 .. edits'
    BY <1>4, <1>6 DEF Snapshots, OldInv, Old
  <2>2. intRef' # None => intRef'.edits \subseteq 1 .. edits'
    <3>1. CASE UNCHANGED intRef
      BY <1>4, <3>1 DEF Snapshots, OldInv, Old
    <3>2. CASE ExternalEdit /\ intRef' = Edited(IF intRef = None THEN Base ELSE intRef)
      <4>1. PICK c \in Commits : c = (IF intRef = None THEN Base ELSE intRef)
        BY BaseIsCommit DEF TypeInv, TypeOK, Refs
      <4>2. intRef'.edits = c.edits \cup {edits + 1} /\ edits' = edits + 1
        BY <3>2, <4>1, EditedCommit DEF ExternalEdit, TypeInv, TypeOK
      <4>3. c.edits \subseteq 1 .. edits
        BY <4>1 DEF Base, Snapshots, OldInv, Old
      <4> QED BY <1>4, <4>2, <4>3
    <3> QED BY <3>1, <3>2 DEF CustomerAnswers, TargetMoves, ExternalEdit, remote
  <2>3. Deriving("integrate_member")' => op'.r.sha.edits \subseteq 1 .. edits'
    BY <1>2, <1>4 DEF Snapshots, OldInv, Old
  <2> QED BY <2>1, <2>2, <2>3 DEF OldInv, Old, Batches
<1>8. CASE UNCHANGED snapRef
  <2>1. policy # "rolling" => \A b \in Batches : Final(b)'
    BY <1>1, <1>8, FinalRests DEF Snapshots, FrozenInv, AllRest, CohortsStay
  <2> QED BY <1>1, <1>3, <1>5, <1>7, <2>1, FrozenGoesOn DEF Snapshots
<1>9. ASSUME ExternalEdit, NEW b \in Batches, snapRef[b] # None,
             snapRef' = [snapRef EXCEPT ![b] = Edited(@)]
      PROVE  Snapshots'
  <2>1. /\ snapRef'[b].edits = snapRef[b].edits \cup {edits + 1}
        /\ \A c \in Batches : c # b => snapRef'[c] = snapRef[c]
    <3>1. snapRef \in [Batches -> Refs] /\ snapRef[b] \in Commits
          /\ edits \in 0 .. MaxEdits /\ edits < MaxEdits
      BY <1>9 DEF ExternalEdit, TypeInv, TypeOK, Refs
    <3> QED BY <1>9, <3>1, EditedCommit
  <2>2. ~(snapRef'[b].edits \subseteq HeadOf(b)'.edits)
    BY <1>4, <1>6, <2>1 DEF Snapshots, OldInv, Old
  <2>3. Closed(b) => Closed(b)'
    BY <1>1, <2>2 DEF Closed, AllRest, Rests
  <2>4. policy # "rolling" => Final(b)'
    BY <1>1, <1>9, <2>3 DEF Snapshots, FrozenInv, Final, AllRest, Rests, Steady, CohortsStay
  <2>5. policy # "rolling" => \A c \in Batches : Final(c)'
    BY <1>1, <2>1, <2>4, FinalRests DEF Snapshots, FrozenInv, AllRest, CohortsStay
  <2> QED BY <1>1, <1>3, <1>5, <1>7, <2>5, FrozenGoesOn DEF Snapshots
<1> QED BY <1>8, <1>9 DEF CustomerAnswers, TargetMoves, ExternalEdit, remote

\* There is no snapshot at first.
LEMMA InitSnapshots == Init => Snapshots
<1> SUFFICES ASSUME Init PROVE Snapshots
  OBVIOUS
<1>1. /\ op.at = "idle" /\ intRef = None
      /\ \A b \in Batches : snapRef[b] = None /\ HeadOf(b) = Base
  BY IdleFacts DEF Init, NewBatch, HeadOf
<1>2. ~Underway /\ ~Doing("snapshot_ref") /\ ~Deriving("integrate_member")
  BY <1>1 DEF Underway, Doing, Deriving, Mutating
<1> QED BY <1>1, <1>2 DEF Snapshots, OldInv, Old, Base, ReleaseInv, FrozenInv, Final

\* Every step keeps the invariant of the snapshots.
LEMMA StepSnapshots ==
    TypeInv /\ Ledger /\ Manifest /\ MergeInv /\ Snapshots /\ [Next]_vars => Snapshots'
<1> SUFFICES ASSUME TypeInv, Ledger, Manifest, MergeInv, Snapshots, [Next]_vars PROVE Snapshots'
  OBVIOUS
<1>1. CASE UNCHANGED vars
  BY <1>1 DEF vars, Snapshots, OldInv, Old, ReleaseInv, FrozenInv, Final, Closed, Underway,
     Doing, Deriving, Unsettled, Merges, HeadOf, MembersOf, Batches
<1>2. CASE PublicationStep
  <2>1. CASE snapshot_ref
    BY <2>1, SnapshotsPush
  <2>2. CASE Snapshot
    BY <2>2, SnapshotsSnapshot
  <2>3. CASE ~snapshot_ref /\ ~Snapshot
    BY <1>2, <2>3, PublicationRests, ReleaseOp, SnapshotsRest
  <2> QED BY <2>1, <2>2, <2>3
<1>3. CASE QuietMove
  BY <1>2, <1>3, SnapshotsQuiet
<1>4. CASE Collection
  BY <1>3, <1>4, SnapshotsCollect, SnapshotsJoin, SnapshotsCreateBranch, SnapshotsIntegrate,
     SnapshotsSettleMerge DEF Collection, QuietMove
<1>5. CASE Publication
  BY <1>2, <1>5, SnapshotsRelease DEF Publication, PublicationStep
<1>6. CASE Reconciliation
  BY <1>3, <1>6, SnapshotsReadBack, SnapshotsDerive DEF Reconciliation, QuietMove
<1>7. CASE Environment
  BY <1>3, <1>7, SnapshotsEnvironment DEF Environment, QuietMove
<1> QED BY <1>1, <1>4, <1>5, <1>6, <1>7, SnapshotsReserve, SnapshotsFinish DEF Next

\* No step but a push or an edit of others moves a snapshot.
LEMMA OnlyPushMoves ==
    ASSUME TypeInv, [Next]_vars, ~snapshot_ref
    PROVE  edits' # edits \/ UNCHANGED snapRef
<1>1. CASE Collection
  <2>1. UNCHANGED snapRef
    BY <1>1, CollectFacts, JoinSteady, CreateBranchFacts, SettleBranchFacts, SettleMergeFacts
       DEF Collection, CollectAgain, integrate_reviewed, Raise, remote
  <2> QED BY <2>1
<1>2. CASE Reserve \/ Finish
  BY <1>2 DEF Reserve, Finish, remote
<1>3. CASE Publication
  BY <1>3, ReleaseOp DEF Publication, PublicationStep, Release, remote
<1>4. CASE Reconciliation
  BY <1>4 DEF Reconciliation, reconcile_unknown, observe_customer_completion, ReadBack, Derive,
     remote
<1>5. CASE Environment
  <2>1. edits \in Nat
    BY DeliveryAssumption DEF TypeInv, TypeOK
  <2> QED BY <1>5, <2>1
          DEF Environment, Crash, CustomerAnswers, TargetMoves, ExternalEdit, remote
<1>6. CASE UNCHANGED vars
  BY <1>6 DEF vars
<1> QED BY <1>1, <1>2, <1>3, <1>4, <1>5, <1>6 DEF Next

\* And a step moves no snapshot that is not a rolling one.
LEMMA StepNeverMoves ==
    TypeInv /\ Snapshots /\ [Next]_vars =>
      \A b \in Batches : policy # "rolling" /\ snapRef[b] # None /\ edits' = edits
                           => snapRef'[b] = snapRef[b]
<1> SUFFICES ASSUME TypeInv, Snapshots, [Next]_vars, NEW b \in Batches,
                    policy # "rolling", snapRef[b] # None, edits' = edits
             PROVE  snapRef'[b] = snapRef[b]
  OBVIOUS
<1>1. CASE ~snapshot_ref
  BY <1>1, OnlyPushMoves
<1>2. CASE snapshot_ref
  <2>1. PICK c \in Batches : c = op.b
    BY <1>2, OpFacts DEF snapshot_ref, Calls
  <2>2. UNCHANGED snapRef \/ snapRef' = [snapRef EXCEPT ![c] = op.r.sha]
    BY <1>2, <2>1, PushFacts
  <2>3. CASE c = b
    BY <1>2, <2>1, <2>3, FirstPush
  <2>4. CASE c # b
    BY <2>2, <2>4 DEF TypeInv, TypeOK
  <2> QED BY <2>3, <2>4
<1> QED BY <1>1, <1>2

(* The butler never moves a snapshot it has pushed, unless it is a rolling  *)
(* one: _snapshot (integration_delivery.py) adopts the one it finds, and    *)
(* what it would push instead is refused, for the batch was closed when it  *)
(* was pushed first.                                                        *)
THEOREM SnapshotsStay == Spec => SnapshotsNeverMove
<1> DEFINE AllInv == TypeInv /\ Ledger /\ Manifest /\ MergeInv /\ Snapshots
<1>1. Init => AllInv
  BY InitType, InitLedger, InitManifest, InitMerge, InitSnapshots
<1>2. AllInv /\ [Next]_vars => AllInv'
  BY StepType, StepLedger, StepManifest, StepMerge, StepSnapshots
<1>3. AllInv /\ [Next]_vars =>
        [\A b \in Batches :
           policy # "rolling" /\ snapRef[b] # None /\ edits' = edits
             => snapRef'[b] = snapRef[b]]_vars
  BY StepNeverMoves
<1> HIDE DEF AllInv
<1> QED BY <1>1, <1>2, <1>3, PTL DEF Spec, SnapshotsNeverMove
=============================================================================
