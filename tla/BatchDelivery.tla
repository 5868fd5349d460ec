---------------------------- MODULE BatchDelivery ----------------------------
(***************************************************************************)
(* Batch delivery (tools/board-butler/integration_delivery.py): the        *)
(* butler merges approved tickets into an integration branch, gathers them *)
(* in batches, and publishes each batch as a snapshot branch and, unless   *)
(* the policy is branch_only, one pull request for the customer.           *)
(*                                                                         *)
(* The resident butler collects the approved tickets of a pass one by one, *)
(* then releases the batches it noted.  A private ledger is saved at every *)
(* step: the state here is the saved one, an action goes from one save or  *)
(* remote call to the next, and the butler may crash between any two of    *)
(* them.  The customer, and whoever else can push, act at any time.        *)
(*                                                                         *)
(* One route (a repository and a target branch) under one policy with the  *)
(* `ready' trigger, the only one the resident activates.  A commit is what *)
(* it contains: the tickets merged into it and the edits of outsiders.     *)
(***************************************************************************)
EXTENDS Naturals, Sequences, FiniteSets

CONSTANTS
    Tickets,
    Policies,       \* the policies a run considers: a subset of AllPolicies
    None,           \* no such ref
    MaxBatches,     \* bound: batches the ledger opens
    MaxEdits,       \* bound: pushes of outsiders to the butler's branches
    MaxPrs          \* bound: pull requests that are ever created, by policy

AllPolicies == {"frozen", "rolling", "branch_only"}

ASSUME DeliveryAssumption ==
    /\ Policies \subseteq AllPolicies /\ Policies # {}
    /\ MaxBatches \in Nat /\ MaxEdits \in Nat /\ MaxPrs \in [AllPolicies -> Nat]

Commits == [tickets : SUBSET Tickets, edits : SUBSET (1 .. MaxEdits)]
Refs == Commits \cup {None}
Base == [tickets |-> {}, edits |-> {}]
Batches == 1 .. MaxBatches
NoBatch == 0
NoPr == 0

ASSUME NoneAssumption == None \notin Commits

Ancestor(c, d) == c.tickets \subseteq d.tickets /\ c.edits \subseteq d.edits

Statuses == {"none", "approved", "integrated", "in_delivery",
             "customer_merged", "blocked"}
States == {"absent", "collecting", "waiting_customer_slot", "delivery_open",
           "in_delivery", "customer_merged", "abandoned", "blocked_unknown",
           "blocked_conflict", "blocked_validation", "blocked_external_edit",
           "blocked_existing_pr"}

\* The non-idempotent adapter calls.  A reservation is keyed by its payload:
\* the ticket merged, the commit pushed and the one expected, the members
\* whose manifest is in the pull request's body.
Kinds == {"create_integration_branch", "integrate_member", "snapshot_ref",
          "create_customer_pr", "update_customer_pr"}
Reservations == [kind : Kinds, for : SUBSET Tickets, sha : Commits, old : Refs]

BatchRecords ==
    [state : States, head : Commits, members : [Tickets -> Statuses],
     snap : Refs, frozen : BOOLEAN, cohort : SUBSET Tickets,
     pending : SUBSET Reservations, done : SUBSET Reservations, pr : Nat]

PrStatuses == {"active", "completed", "abandoned"}
PrRecords == [of : Batches, sha : Commits, manifest : SUBSET Tickets,
              status : PrStatuses]

Steps == {"idle", "join", "reserve", "call", "finish", "settle", "validate",
          "snapshot", "publish", "reconcile", "derive"}
Results == {"none", "confirmed", "unknown", "conflict"}

VARIABLES
    policy,     \* the policy in force
    batches,    \* the ledger's batches, by ordinal
    last,       \* route_counters: the last ordinal in use
    index,      \* member_index: the batch of each ticket
    intRef,     \* the remote integration branch
    snapRef,    \* the remote snapshot branch of each batch
    prs,        \* the pull requests of the customer's repository, by id
    edits,      \* how many pushes of outsiders there have been
    op,         \* what the butler is doing
    noted,      \* pending_batches: the batches this pass will release
    releasing   \* the pass has begun to release them and is not through

vars == <<policy, batches, last, index, intRef, snapRef, prs, edits, op,
          noted, releasing>>
ledger == <<batches, last, index>>
remote == <<intRef, snapRef, prs, edits>>
pass == <<noted, releasing>>

NoReservation == [kind |-> "create_integration_branch", for |-> {},
                  sha |-> Base, old |-> None]
\* A step of the butler: the batch and reservation it is about, the answer it
\* got, and whether the target has moved since the release's validation.
At(step, b, r) == [at |-> step, b |-> b, r |-> r, got |-> "none", moved |-> FALSE]
Idle == At("idle", NoBatch, NoReservation)

\* _new_batch, with the head of the integration branch as it was read.
NewBatch(state, head) ==
    [state |-> state, head |-> head, members |-> [t \in Tickets |-> "none"],
     snap |-> None, frozen |-> FALSE, cohort |-> {}, pending |-> {},
     done |-> {}, pr |-> NoPr]

Init ==
    /\ policy \in Policies
    /\ batches = [b \in Batches |-> NewBatch("absent", Base)]
    /\ last = 0
    /\ index = [t \in Tickets |-> NoBatch]
    /\ intRef = None
    /\ snapRef = [b \in Batches |-> None]
    /\ prs = <<>>
    /\ edits = 0
    /\ op = Idle
    /\ noted = {} /\ releasing = FALSE

------------------------------------------------------------------------------
(* The ledger *)

MembersOf(b) == {t \in Tickets : batches[b].members[t] # "none"}
Integrated(b) == {t \in Tickets : batches[b].members[t] = "integrated"}

\* Every integrated member is in delivery from now on.
Delivered(members) ==
    [t \in Tickets |-> IF members[t] = "integrated" THEN "in_delivery" ELSE members[t]]

Save(b, batch) == batches' = [batches EXCEPT ![b] = batch]
SetState(b, state) == Save(b, [batches[b] EXCEPT !.state = state])

\* _batch_for_collection: the batches a new ticket may join.
Open ==
    {b \in Batches :
        \/ batches[b].state = "collecting"
        \/ /\ batches[b].state = "delivery_open"
           /\ policy = "rolling" /\ ~batches[b].frozen}
Latest(bs) == CHOOSE b \in bs : \A c \in bs : c <= b

\* The snapshot of a release is immutable unless the policy is rolling.
Strategy == IF policy = "rolling" THEN "rolling" ELSE "frozen"

------------------------------------------------------------------------------
(* Collecting a ticket *)

Merge(t, head) ==
    [kind |-> "integrate_member", for |-> {t}, sha |-> head, old |-> head]
TicketOf(r) == CHOOSE t \in Tickets : r.for = {t}

\* A pass collects before it releases; a new one begins when it is over.
Collecting == op = Idle /\ ~releasing

(* collect of a ticket the ledger knows: nothing while an outcome of its    *)
(* batch is unknown; otherwise the batch is noted for release.              *)
CollectAgain(t) ==
    /\ Collecting
    /\ index[t] # NoBatch
    /\ batches[index[t]].pending = {}
    /\ noted' = noted \cup {index[t]}
    /\ UNCHANGED <<policy, ledger, remote, op, releasing>>

(* collect of a new ticket: the head of the integration branch is read, and *)
(* the ticket goes to the latest open batch or to one saved for it.  Without *)
(* an integration branch one has to be created first, with a new batch.     *)
Collect(t) ==
    /\ Collecting
    /\ index[t] = NoBatch
    /\ IF intRef # None /\ Open # {}
         THEN /\ op' = At("join", Latest(Open), Merge(t, intRef))
              /\ UNCHANGED ledger
         ELSE /\ last < MaxBatches
              /\ last' = last + 1
              /\ batches' = [batches EXCEPT ![last + 1] =
                               NewBatch("collecting", IF intRef = None THEN Base ELSE intRef)]
              /\ op' = IF intRef = None
                         THEN At("reserve", last + 1,
                                 [NoReservation EXCEPT !.for = {t}])
                         ELSE At("join", last + 1, Merge(t, intRef))
              /\ UNCHANGED index
    /\ UNCHANGED <<policy, remote, pass>>

(* The batch's own head must be the one just read; then the membership is   *)
(* saved before anything is merged.                                         *)
Join ==
    /\ op.at = "join"
    /\ LET b == op.b
           t == TicketOf(op.r)
       IN  IF batches[b].head # op.r.old
             THEN /\ SetState(b, "blocked_external_edit")
                  /\ op' = Idle
                  /\ UNCHANGED index
             ELSE /\ Save(b, [batches[b] EXCEPT !.members[t] = "approved"])
                  /\ index' = [index EXCEPT ![t] = b]
                  /\ op' = At("reserve", b, op.r)
    /\ UNCHANGED <<policy, last, remote, pass>>

------------------------------------------------------------------------------
(* A remote mutation: reserved in the ledger, called, and its answer saved. *)

(* _reserve: an operation already in the ledger is not reserved again. *)
Reserve ==
    /\ op.at = "reserve"
    /\ LET batch == batches[op.b]
       IN  Save(op.b, IF op.r \in batch.done THEN batch
                      ELSE [batch EXCEPT !.pending = @ \cup {op.r}])
    /\ op' = [op EXCEPT !.at = "call"]
    /\ UNCHANGED <<policy, last, index, remote, pass>>

\* What the adapter may report of a call that did or did not take effect.
Answers(landed) == IF landed THEN {"confirmed", "unknown"} ELSE {"unknown"}
Answered(result) == op' = [op EXCEPT !.at = "finish", !.got = result]
Calls(kind) == op.at = "call" /\ op.r.kind = kind

(* ensure_branch on the integration branch, which must not exist yet. *)
create_integration_branch ==
    /\ Calls("create_integration_branch")
    /\ \/ /\ intRef # op.r.old
          /\ Answered("conflict")
          /\ UNCHANGED intRef
       \/ /\ intRef = op.r.old
          /\ \E landed \in BOOLEAN :
               /\ intRef' = IF landed THEN op.r.sha ELSE intRef
               /\ \E result \in Answers(landed) : Answered(result)
    /\ UNCHANGED <<policy, ledger, snapRef, prs, edits, pass>>

(* integrate_reviewed: a merge pushed on the head that was expected. *)
integrate_reviewed ==
    /\ Calls("integrate_member")
    /\ \/ /\ Answered("conflict")
          /\ UNCHANGED intRef
       \/ /\ intRef = op.r.old
          /\ \E landed \in BOOLEAN :
               /\ intRef' = IF landed THEN [intRef EXCEPT !.tickets = @ \cup op.r.for]
                            ELSE intRef
               /\ \E result \in Answers(landed) : Answered(result)
    /\ UNCHANGED <<policy, ledger, snapRef, prs, edits, pass>>

\* The active pull requests of a branch follow it.
Follow(b, sha) ==
    [i \in DOMAIN prs |-> IF prs[i].of = b /\ prs[i].status = "active"
                            THEN [prs[i] EXCEPT !.sha = sha] ELSE prs[i]]

(* ensure_branch on the batch's snapshot branch: never a forced push. *)
snapshot_ref ==
    /\ Calls("snapshot_ref")
    /\ LET observed == snapRef[op.b]
           fits == /\ observed = op.r.old
                   /\ observed # None => Ancestor(observed, op.r.sha)
       IN  \/ /\ ~fits
              /\ Answered("conflict")
              /\ UNCHANGED <<snapRef, prs>>
           \/ /\ fits
              /\ \E landed \in BOOLEAN :
                   /\ IF landed
                        THEN /\ snapRef' = [snapRef EXCEPT ![op.b] = op.r.sha]
                             /\ prs' = Follow(op.b, op.r.sha)
                        ELSE UNCHANGED <<snapRef, prs>>
                   /\ \E result \in Answers(landed) : Answered(result)
    /\ UNCHANGED <<policy, ledger, intRef, edits, pass>>

\* A pull request that shows another commit than the snapshot the ledger
\* knows is a conflict; an outcome the connector does not report is unknown.
Shown(sha) == {IF sha = batches[op.b].snap THEN "confirmed" ELSE "conflict", "unknown"}

(* The connector creates the pull request, or fails before or after that. *)
create_customer_pr ==
    /\ Calls("create_customer_pr")
    /\ \/ /\ Len(prs) < MaxPrs[policy]
          /\ prs' = Append(prs, [of |-> op.b, sha |-> snapRef[op.b],
                                 manifest |-> op.r.for, status |-> "active"])
          /\ \E result \in Shown(snapRef[op.b]) : Answered(result)
       \/ /\ Answered("unknown")
          /\ UNCHANGED prs
    /\ UNCHANGED <<policy, ledger, intRef, snapRef, edits, pass>>

(* The connector rewrites the body of the recorded pull request and reads  *)
(* it back.                                                                *)
update_customer_pr ==
    /\ Calls("update_customer_pr")
    /\ \/ /\ prs' = [prs EXCEPT ![batches[op.b].pr].manifest = op.r.for]
          /\ \E result \in Shown(prs[batches[op.b].pr].sha) : Answered(result)
       \/ /\ Answered("unknown")
          /\ UNCHANGED prs
    /\ UNCHANGED <<policy, ledger, intRef, snapRef, edits, pass>>

\* Mutant: the answer is saved beside the reservation.
FinishedTwice(batch, r, got) ==
    IF got = "unknown" THEN [batch EXCEPT !.pending = @ \cup {r}]
    ELSE [batch EXCEPT !.done = @ \cup {r}]

\* The status a call's answer leaves in its reservation: a conflict is an
\* outcome as definite as a success.
Finished(batch, r, got) ==
    IF got = "unknown"
      THEN [batch EXCEPT !.pending = @ \cup {r}, !.done = @ \ {r}]
      ELSE [batch EXCEPT !.pending = @ \ {r}, !.done = @ \cup {r}]

(* _finish *)
Finish ==
    /\ op.at = "finish"
    /\ Save(op.b, Finished(batches[op.b], op.r, op.got))
    /\ op' = [op EXCEPT !.at = "settle"]
    /\ UNCHANGED <<policy, last, index, remote, pass>>

(* collect goes on when the new branch is confirmed. *)
SettleBranch ==
    /\ op.at = "settle" /\ op.r.kind = "create_integration_branch"
    /\ IF op.got = "confirmed"
         THEN /\ op' = At("join", op.b, Merge(TicketOf(op.r), Base))
              /\ UNCHANGED batches
         ELSE /\ SetState(op.b, "blocked_unknown")
              /\ op' = Idle
    /\ UNCHANGED <<policy, last, index, remote, pass>>

\* Mutant: only a conflict keeps the member out.
AfterMergeTrusting(batch, r, got) ==
    LET t == TicketOf(r)
    IN  IF got = "conflict"
          THEN [batch EXCEPT !.members[t] = "blocked", !.state = "blocked_conflict"]
          ELSE [batch EXCEPT !.members[t] = "integrated",
                             !.head.tickets = @ \cup r.for]

\* The end of collect.  No repair runner can be configured, so a conflict
\* blocks the batch.
AfterMerge(batch, r, got) ==
    LET t == TicketOf(r)
    IN  CASE got = "confirmed" ->
               [batch EXCEPT !.members[t] = "integrated",
                             !.head.tickets = @ \cup r.for]
          [] got = "conflict" ->
               [batch EXCEPT !.members[t] = "blocked", !.state = "blocked_conflict"]
          [] got = "unknown" ->
               [batch EXCEPT !.members[t] = "blocked", !.state = "blocked_unknown"]

(* A merged ticket's batch is noted; the release collect itself asks for    *)
(* names no cohort and is refused.                                          *)
SettleMerge ==
    /\ op.at = "settle" /\ op.r.kind = "integrate_member"
    /\ Save(op.b, AfterMerge(batches[op.b], op.r, op.got))
    /\ noted' = IF op.got = "confirmed" THEN noted \cup {op.b} ELSE noted
    /\ op' = Idle
    /\ UNCHANGED <<policy, last, index, remote, releasing>>

(* A call that raises ends the collect of its ticket, and the pass goes on. *)
Raise ==
    /\ op.at \in {"join", "reserve", "call", "finish", "settle"}
    /\ op.r.kind \in {"create_integration_branch", "integrate_member"}
    /\ op' = Idle
    /\ UNCHANGED <<policy, ledger, remote, pass>>

------------------------------------------------------------------------------
(* Releasing a batch *)

\* Mutant: any cohort of an unreleased batch may be released.
DueWhateverCohort(b) == Integrated(b) # {}

(* _trigger_due for the cohort the resident asks for, which is all members *)
(* of the batch: a cohort once chosen is kept, unless the policy is rolling. *)
Due(b) ==
    /\ Integrated(b) # {}
    /\ \/ batches[b].cohort \in {{}, MembersOf(b)}
       \/ Strategy = "rolling"

Releasable(b) ==
    \/ batches[b].state \in {"collecting", "waiting_customer_slot"}
    \/ batches[b].state = "delivery_open" /\ Strategy = "rolling"

(* release: the cohort is saved before the batch is validated. *)
Release(b) ==
    /\ op = Idle
    /\ b \in noted
    /\ noted' = noted \ {b}
    /\ releasing' = (noted' # {})
    /\ IF Releasable(b) /\ Due(b)
         THEN /\ Save(b, [batches[b] EXCEPT !.cohort = MembersOf(b)])
              /\ op' = At("validate", b, NoReservation)
              /\ UNCHANGED <<last, index>>
         ELSE UNCHANGED <<ledger, op>>
    /\ UNCHANGED <<policy, remote>>

\* Mutant: the members still waiting for their merge are not asked for.
CoveredIntegrated(b) == Integrated(b) \subseteq batches[b].head.tickets

\* validate_cumulative: every member of the batch is part of its head.
Covered(b) == MembersOf(b) \subseteq batches[b].head.tickets

(* The validation is of the batch's head and of the target as it is now;    *)
(* the project's own commands may fail.                                     *)
Validate ==
    /\ op.at = "validate"
    /\ \/ /\ Covered(op.b)
          /\ op' = [op EXCEPT !.at = "snapshot"]
          /\ UNCHANGED batches
       \/ /\ SetState(op.b, "blocked_validation")
          /\ op' = Idle
    /\ UNCHANGED <<policy, last, index, remote, pass>>

(* _snapshot: a frozen snapshot must still be the batch's head; another is  *)
(* adopted if it is there already, and pushed otherwise.                    *)
Snapshot ==
    /\ op.at = "snapshot"
    /\ LET b == op.b
           batch == batches[b]
           observed == snapRef[b]
       IN  IF batch.frozen
             THEN IF observed = batch.snap /\ batch.head = batch.snap
                    THEN /\ op' = [op EXCEPT !.at = "publish"]
                         /\ UNCHANGED batches
                    ELSE /\ SetState(b, "blocked_external_edit")
                         /\ op' = Idle
           ELSE IF observed = batch.head
             THEN /\ Save(b, [batch EXCEPT !.snap = observed,
                                           !.frozen = Strategy = "frozen"])
                  /\ op' = [op EXCEPT !.at = "publish"]
             ELSE /\ op' = [op EXCEPT !.at = "reserve",
                               !.r = [kind |-> "snapshot_ref", for |-> {},
                                      sha |-> batch.head, old |-> observed]]
                  /\ UNCHANGED batches
    /\ UNCHANGED <<policy, last, index, remote, pass>>

SettleSnapshot ==
    /\ op.at = "settle" /\ op.r.kind = "snapshot_ref"
    /\ IF op.got = "confirmed"
         THEN /\ Save(op.b, [batches[op.b] EXCEPT !.snap = batches[op.b].head,
                                                  !.frozen = Strategy = "frozen"])
              /\ op' = [op EXCEPT !.at = "publish", !.r = NoReservation, !.got = "none"]
         ELSE /\ SetState(op.b, "blocked_unknown")
              /\ op' = Idle
    /\ UNCHANGED <<policy, last, index, remote, pass>>

\* _open_or_reuse_pr and _roll_snapshot end alike.
InDelivery(batch, pr) ==
    [batch EXCEPT !.state = "delivery_open", !.pr = pr,
                  !.members = Delivered(batch.members)]

ActivePrs == {i \in DOMAIN prs : prs[i].status = "active"}
Exact(b) == {i \in ActivePrs : prs[i].of = b /\ prs[i].sha = batches[b].snap}

PrReservation(kind, b) ==
    [kind |-> kind, for |-> MembersOf(b), sha |-> batches[b].snap, old |-> None]

(* The last part of release.  A branch is delivered as it is.  A rolling     *)
(* batch that is out already gets its pull request's body rewritten.  Else   *)
(* the target must not have moved, the batch's own pull request is taken     *)
(* again, another batch's is waited for, a stranger's blocks the batch, and  *)
(* a new one is created only when the customer has none.                     *)
Publish ==
    /\ op.at = "publish"
    /\ LET b == op.b
       IN  \/ /\ policy = "branch_only"
              /\ Save(b, [batches[b] EXCEPT !.state = "in_delivery",
                                            !.members = Delivered(@)])
              /\ op' = Idle
           \/ /\ policy # "branch_only" /\ batches[b].state = "delivery_open"
              /\ op' = At("reserve", b, PrReservation("update_customer_pr", b))
              /\ UNCHANGED batches
           \/ /\ policy # "branch_only" /\ batches[b].state # "delivery_open"
              /\ IF op.moved
                   THEN SetState(b, "blocked_validation") /\ op' = Idle
                 ELSE IF Cardinality(ActivePrs) > 1 \/ (ActivePrs # {} /\ Exact(b) = {})
                   THEN /\ SetState(b, IF \A i \in ActivePrs :
                                             batches[prs[i].of].state = "delivery_open"
                                         THEN "waiting_customer_slot"
                                         ELSE "blocked_existing_pr")
                        /\ op' = Idle
                 ELSE IF Exact(b) # {}
                   THEN /\ Save(b, InDelivery(batches[b], CHOOSE i \in Exact(b) : TRUE))
                        /\ op' = Idle
                 ELSE /\ op' = At("reserve", b, PrReservation("create_customer_pr", b))
                      /\ UNCHANGED batches
    /\ UNCHANGED <<policy, last, index, remote, pass>>

\* The pull request of the call that was just answered is the last one.
SettleCreate ==
    /\ op.at = "settle" /\ op.r.kind = "create_customer_pr"
    /\ \/ /\ op.got = "confirmed"
          /\ Save(op.b, InDelivery(batches[op.b], Len(prs)))
       \/ op.got = "conflict" /\ SetState(op.b, "blocked_existing_pr")
       \/ op.got = "unknown" /\ SetState(op.b, "blocked_unknown")
    /\ op' = Idle
    /\ UNCHANGED <<policy, last, index, remote, pass>>

SettleUpdate ==
    /\ op.at = "settle" /\ op.r.kind = "update_customer_pr"
    /\ LET batch == batches[op.b]
       IN  IF op.got = "confirmed"
             THEN Save(op.b, [batch EXCEPT !.members = Delivered(@)])
             ELSE SetState(op.b, "blocked_unknown")
    /\ op' = Idle
    /\ UNCHANGED <<policy, last, index, remote, pass>>

------------------------------------------------------------------------------
(* Reading back an unknown outcome *)

\* What the remote shows of a reservation: the branch, the merge or the pull
\* request it was for.
Landed(b, r) ==
    CASE r.kind = "create_integration_branch" -> intRef = r.sha
      [] r.kind = "integrate_member" -> intRef # None /\ r.for \subseteq intRef.tickets
      [] r.kind = "snapshot_ref" -> snapRef[b] = r.sha
      [] r.kind = "create_customer_pr" ->
           Cardinality({i \in ActivePrs : prs[i].of = b /\ prs[i].sha = r.sha}) = 1
      [] r.kind = "update_customer_pr" -> prs[batches[b].pr].sha = r.sha

(* reconcile_unknown of a batch with reservations that have no outcome. *)
reconcile_unknown(b) ==
    /\ op = Idle
    /\ batches[b].pending # {}
    /\ op' = At("reconcile", b, NoReservation)
    /\ UNCHANGED <<policy, ledger, remote, pass>>

(* Each is read back in turn.  One that did not land ends the call; the     *)
(* outcome of one that did is saved first, what follows from it afterwards. *)
ReadBack ==
    /\ op.at = "reconcile"
    /\ \E r \in batches[op.b].pending :
         IF Landed(op.b, r)
           THEN /\ Save(op.b, Finished(batches[op.b], r, "confirmed"))
                /\ op' = At("derive", op.b,
                            IF r.kind = "integrate_member"
                              THEN [r EXCEPT !.sha = intRef] ELSE r)
           ELSE /\ op' = Idle
                /\ UNCHANGED batches
    /\ UNCHANGED <<policy, last, index, remote, pass>>

\* What a confirmed reservation says of its batch.  The pull request that was
\* read is the last one created for the batch: no other could be active.
PrsOf(b) == {i \in DOMAIN prs : prs[i].of = b}
Derived(b, r) ==
    LET batch == batches[b]
    IN  CASE r.kind = "create_integration_branch" -> batch
          [] r.kind = "integrate_member" ->
               [batch EXCEPT !.head = r.sha, !.members[TicketOf(r)] = "integrated"]
          [] r.kind = "snapshot_ref" -> [batch EXCEPT !.snap = r.sha]
          [] r.kind = "create_customer_pr" ->
               InDelivery(batch, CHOOSE i \in PrsOf(b) : \A j \in PrsOf(b) : j <= i)
          [] r.kind = "update_customer_pr" -> InDelivery(batch, batch.pr)

\* The pull request is not of the snapshot the ledger knows.
Mismatched(batch, r) == r.kind = "create_customer_pr" /\ r.sha # batch.snap

(* A batch with nothing left to read back collects again.  A mismatch raises. *)
Derive ==
    /\ op.at = "derive"
    /\ LET fits == ~Mismatched(batches[op.b], op.r)
           batch == IF fits THEN Derived(op.b, op.r) ELSE batches[op.b]
           settled == fits /\ batch.pending = {}
       IN  /\ Save(op.b, IF settled /\ batch.state = "blocked_unknown"
                           THEN [batch EXCEPT !.state = "collecting"] ELSE batch)
           /\ op' = IF fits /\ ~settled THEN At("reconcile", op.b, NoReservation) ELSE Idle
    /\ UNCHANGED <<policy, last, index, remote, pass>>

(* observe_customer_completion reads the recorded pull request. *)
observe_customer_completion(b) ==
    /\ op = Idle
    /\ batches[b].pr # NoPr
    /\ LET batch == batches[b]
           pr == prs[batch.pr]
       IN  \/ /\ pr.sha # batch.snap
              /\ SetState(b, "blocked_external_edit")
           \/ /\ pr.sha = batch.snap /\ pr.status = "abandoned"
              /\ SetState(b, "abandoned")
           \/ /\ pr.sha = batch.snap /\ pr.status = "completed"
              /\ Save(b, [batch EXCEPT !.state = "customer_merged",
                            !.members = [t \in Tickets |-> IF t \in MembersOf(b)
                                                            THEN "customer_merged"
                                                            ELSE "none"]])
    /\ UNCHANGED <<policy, last, index, remote, op, pass>>

------------------------------------------------------------------------------
(* Crashes, and the others *)

(* The butler dies between two steps, or an error ends the release it is in: *)
(* the ledger is as it was saved, the pass is over.                          *)
Crash ==
    /\ op # Idle \/ noted # {}
    /\ op' = Idle
    /\ noted' = {} /\ releasing' = FALSE
    /\ UNCHANGED <<policy, ledger, remote>>

\* The target matters from a release's validation on, and to its end.
Validated ==
    \/ op.at \in {"snapshot", "publish"}
    \/ /\ op.at \in {"reserve", "call", "finish", "settle"}
       /\ op.r.kind = "snapshot_ref"

(* The customer answers a pull request; completing it moves the target. *)
CustomerAnswers(i) ==
    /\ prs[i].status = "active"
    /\ \E status \in {"completed", "abandoned"} :
         /\ prs' = [prs EXCEPT ![i].status = status]
         /\ op' = [op EXCEPT !.moved = @ \/ (Validated /\ status = "completed")]
    /\ UNCHANGED <<policy, ledger, intRef, snapRef, edits, pass>>

(* Somebody else pushes to the target, to the integration branch, which may *)
(* be created that way, or to a snapshot branch.                            *)
TargetMoves ==
    /\ Validated
    /\ ~op.moved
    /\ op' = [op EXCEPT !.moved = TRUE]
    /\ UNCHANGED <<policy, ledger, remote, pass>>

Edited(commit) == [commit EXCEPT !.edits = @ \cup {edits + 1}]

ExternalEdit ==
    /\ edits < MaxEdits
    /\ edits' = edits + 1
    /\ \/ /\ intRef' = Edited(IF intRef = None THEN Base ELSE intRef)
          /\ UNCHANGED <<snapRef, prs>>
       \/ \E b \in Batches :
            /\ snapRef[b] # None
            /\ snapRef' = [snapRef EXCEPT ![b] = Edited(@)]
            /\ prs' = Follow(b, Edited(snapRef[b]))
            /\ UNCHANGED intRef
    /\ UNCHANGED <<policy, ledger, op, pass>>

Collection ==
    \/ \E t \in Tickets : CollectAgain(t) \/ Collect(t)
    \/ Join \/ create_integration_branch \/ SettleBranch
    \/ integrate_reviewed \/ SettleMerge \/ Raise

Publication ==
    \/ \E b \in Batches : Release(b)
    \/ Validate \/ Snapshot \/ snapshot_ref \/ SettleSnapshot
    \/ Publish \/ create_customer_pr \/ SettleCreate
    \/ update_customer_pr \/ SettleUpdate

Reconciliation ==
    \/ \E b \in Batches : reconcile_unknown(b) \/ observe_customer_completion(b)
    \/ ReadBack \/ Derive

Environment ==
    \/ Crash
    \/ \E i \in DOMAIN prs : CustomerAnswers(i)
    \/ TargetMoves \/ ExternalEdit

Next ==
    \/ Collection
    \/ Reserve \/ Finish
    \/ Publication
    \/ Reconciliation
    \/ Environment

Spec == Init /\ [][Next]_vars

------------------------------------------------------------------------------
(* Properties *)

(* The ledger and the butler hold values of their types, every member of a  *)
(* batch is indexed to it, and a reservation has one status.                *)
TypeOK ==
    /\ policy \in Policies
    /\ batches \in [Batches -> BatchRecords]
    /\ last \in 0 .. MaxBatches
    /\ index \in [Tickets -> 0 .. MaxBatches]
    /\ intRef \in Refs
    /\ snapRef \in [Batches -> Refs]
    /\ prs \in Seq(PrRecords) /\ Len(prs) <= MaxPrs[policy]
    /\ edits \in 0 .. MaxEdits
    /\ op \in [at : Steps, b : 0 .. MaxBatches, r : Reservations,
              got : Results, moved : BOOLEAN]
    /\ noted \subseteq Batches /\ releasing \in BOOLEAN
    /\ releasing => noted # {}
    /\ \A b \in Batches :
         /\ MembersOf(b) \subseteq {t \in Tickets : index[t] = b}
         /\ batches[b].pending \cap batches[b].done = {}

(* A member the ledger calls integrated or in delivery is part of the       *)
(* batch's head, and that head is part of the integration branch, whatever  *)
(* crashed, was lost or was read back on the way.                           *)
LedgerIsTrue ==
    \A b \in Batches : \A t \in Tickets :
        batches[b].members[t] \in {"integrated", "in_delivery"} =>
            /\ t \in batches[b].head.tickets
            /\ intRef # None /\ Ancestor(batches[b].head, intRef)

(* The body of an open pull request lists only members whose work is in the *)
(* commit it offers: a ticket whose merge was lost is never listed, however *)
(* the snapshot and the body were updated.                                  *)
ManifestIsTrue == \A i \in ActivePrs : prs[i].manifest \subseteq prs[i].sha.tickets

(* The butler never moves a snapshot it has pushed, unless it is a rolling  *)
(* one: not after a crash that came before the ledger called it frozen, not *)
(* when later work joined the batch, not when somebody else edited it.      *)
SnapshotsNeverMove ==
    [][\A b \in Batches :
         policy # "rolling" /\ snapRef[b] # None /\ edits' = edits
           => snapRef'[b] = snapRef[b]]_vars
=============================================================================
