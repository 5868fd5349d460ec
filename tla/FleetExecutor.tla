---------------------------- MODULE FleetExecutor ----------------------------
(***************************************************************************)
(* The host-local fleet executor (tools/seat-kit/fleet_executor.py): one   *)
(* process that answers signed requests to start, drain, stop, re-role or  *)
(* adopt a seat's service, the SQLite store it shares with the butler's    *)
(* fleet observer, and the services themselves.                            *)
(*                                                                         *)
(* The executor handles one request at a time, but what it changes (a      *)
(* commit of the store, a call of the service adapter) is a step of its    *)
(* own here: a service may die, the executor may crash and the observer    *)
(* may write the seat's row between any two of them.  A start takes        *)
(* instantiate and start in one step, and its rollback the stop with the   *)
(* row that follows it: the row names no process then, and the observer    *)
(* leaves it alone.  Leases and registry readiness are files another       *)
(* process writes, so each reading of them is a free choice.               *)
(***************************************************************************)
EXTENDS Integers, FiniteSets

CONSTANTS
    Seats, Templates,
    Home,           \* the template bound to each seat
    Target,         \* the template a re_role of each template asks for
    PrincipalOf,    \* the principal of each template
    BoardOf,        \* the board of each seat
    HostCap, BoardCap,
    MaxTries,       \* start attempts of one reactivation episode (3 in the code)
    MaxRev,         \* bound: policy revisions an operation id may carry
    MaxGen,         \* bound: the last generation a seat may reach
    MaxRequests,    \* bound: requests that are executed
    MaxFaults       \* bound: failed inspections, executor crashes and services
                    \* started behind the executor's back

NoUnit == "none"

ASSUME FleetAssumption ==
    /\ IsFiniteSet(Seats) /\ Home \in [Seats -> Templates] /\ NoUnit \notin Templates
    /\ Target \in [Templates -> Templates]
    /\ HostCap \in Nat /\ BoardCap \in [{BoardOf[s] : s \in Seats} -> Nat]
    /\ MaxTries \in Nat \ {0} /\ MaxRev \in Nat \ {0}
    /\ MaxGen \in Nat \ {0} /\ MaxRequests \in Nat /\ MaxFaults \in Nat

NoRef == 0
Actions == {"inspect", "start", "drain", "stop", "re_role", "adopt"}
Operations == [seat : Seats, action : Actions, gen : 1 .. MaxGen,
               template : Templates, rev : 1 .. MaxRev]
Active == {"starting", "ready", "draining", "unhealthy"}
Lifecycles == Active \cup {"absent", "stopped"}
\* What the operations table may end up holding: a success (with or without a
\* change), a refusal or failure, or a refusal that may be tried again.
Results == {"succeeded", "refused", "retryable"}
Steps == {"idle", "check", "save", "launch", "verify", "rollback", "adopt",
          "drain", "stop", "settle", "replace", "restart", "changed", "renew",
          "spoil", "finish"}

VARIABLES
    row,        \* the seats table
    ops,        \* the operations table
    exec,       \* the request being handled
    unit,       \* the template each service's unit file holds, if any
    proc,       \* the running process of each service
    born,       \* how many processes each service has had
    watch,      \* the observer's view of the seat it is looking at
    astray,     \* seats that ran a process behind the executor's back
    acted,      \* operations that have got past their checks
    requests, faults

vars == <<row, ops, exec, unit, proc, born, watch, astray, acted, requests, faults>>

Idle == [pc |-> "idle"]
NotWatching == [pc |-> "idle"]

\* The store may hold seats from earlier operations when a run begins.
Init ==
    /\ \E running \in SUBSET Seats :
         /\ Cardinality(running) <= HostCap
         /\ \A s \in running :
              /\ Cardinality({t \in running : BoardOf[t] = BoardOf[s]}) <= BoardCap[BoardOf[s]]
              /\ \A t \in running : PrincipalOf[Home[t]] = PrincipalOf[Home[s]] => s = t
         /\ \E up \in {"ready", "draining"} :
              row = [s \in Seats |->
                       [gen |-> 1, tries |-> 0, template |-> Home[s],
                        life |-> IF s \in running THEN up ELSE "absent",
                        ref |-> IF s \in running THEN 1 ELSE NoRef]]
         /\ unit = [s \in Seats |-> IF s \in running THEN Home[s] ELSE NoUnit]
         /\ proc = [s \in Seats |-> IF s \in running THEN 1 ELSE NoRef]
         /\ born = proc
    /\ ops = [o \in Operations |-> "none"]
    /\ exec = Idle
    /\ watch = NotWatching
    /\ astray = {} /\ acted = {} /\ requests = 0 /\ faults = 0

------------------------------------------------------------------------------
(* What the adapter reports of a service with unit file u and process p when *)
(* asked about template t, and what it reports when the query itself fails:  *)
(* a service that exists, is not running, and is not identified.             *)
Seen(u, p, t) ==
    [exists |-> u # NoUnit, running |-> p # NoRef, verified |-> u = t,
     ref |-> IF u = t THEN p ELSE NoRef]
Blind == [exists |-> TRUE, running |-> FALSE, verified |-> FALSE, ref |-> NoRef]

Glances(u, p, t) == {Seen(u, p, t)} \cup (IF faults < MaxFaults THEN {Blind} ELSE {})
Charged(g, u, p, t) == faults' = faults + (IF g = Seen(u, p, t) THEN 0 ELSE 1)

Readiness == {"unknown", "unready", "stale", "ready"}
LeaseStates == {"unknown", "live", "free"}

\* adapter.stop: a SIGTERM may return before the process is gone.
AfterStop(s) == {NoRef, proc[s]}

active_counts(ss) == Cardinality({s \in ss : row[s].life \in Active})
principal_active_elsewhere(p, s) ==
    \E t \in Seats \ {s} : /\ PrincipalOf[row[t].template] = p
                           /\ row[t].life \notin {"absent", "stopped"}

(* The start branch of _execute: what it decides from the seat's row r, the *)
(* observation g, the registry's readiness and the lease.                   *)
Reviving(g, ready) == ready = "stale" /\ ~g.running /\ g.verified
Reactivating(r, g, ready) == Reviving(g, ready) \/ r.tries > 0

\* Mutant: the principal is not asked for.
CrowdedByNumbers(op) ==
    \/ active_counts(Seats) >= HostCap
    \/ active_counts({s \in Seats : BoardOf[s] = BoardOf[op.seat]}) >= BoardCap[BoardOf[op.seat]]

\* There is no place for the seat: a cap is reached or its principal is active.
Crowded(op) ==
    \/ active_counts(Seats) >= HostCap
    \/ active_counts({s \in Seats : BoardOf[s] = BoardOf[op.seat]}) >= BoardCap[BoardOf[op.seat]]
    \/ principal_active_elsewhere(PrincipalOf[op.template], op.seat)

StartDecision(op, r, g, ready, lease) ==
    IF \/ g.exists /\ ~g.verified
       \/ ready # "ready" /\ ~Reviving(g, ready)
       \/ Reactivating(r, g, ready) /\ lease = "unknown"
      THEN "refused"
    ELSE IF Reactivating(r, g, ready) /\ lease = "live" THEN "retryable"
    ELSE IF g.running THEN "succeeded"
    ELSE IF Reactivating(r, g, ready) /\ r.tries >= MaxTries THEN "refused"
    ELSE IF Crowded(op) THEN "refused"
    ELSE "save"

(* What _execute asks of every request: the generation and template of the  *)
(* row, a target that is free to take over, and the process of the row.     *)
Mismatch(op, r, g) ==
    \/ op.gen # r.gen
    \/ r.life # "absent" /\ r.template # op.template
    \/ /\ op.action = "re_role"
       /\ \/ Target[op.template] = op.template
          \/ principal_active_elsewhere(PrincipalOf[Target[op.template]], op.seat)
    \/ op.action # "adopt" /\ g.running /\ r.ref # NoRef /\ r.ref # g.ref

AdoptDecision(r, g, ready, lease) ==
    IF \/ r.life = "absent" \/ ~g.running \/ ~g.verified \/ g.ref = r.ref
       \/ ready # "ready" \/ lease = "unknown"
      THEN "refused"
    ELSE IF lease = "live" THEN "retryable"
    ELSE "adopt"

\* drain, stop and re_role act on a service that is seen running.
EndDecision(op, r, g, lease) ==
    IF r.life = "absent" \/ ~g.verified \/ ~g.running THEN "refused"
    ELSE IF op.action = "drain" THEN "drain"
    ELSE IF lease = "unknown" THEN "refused"
    ELSE IF lease = "live" THEN "retryable"
    ELSE IF op.action = "re_role" /\ r.life # "draining" THEN "refused"
    ELSE "stop"

(* The checks of _execute in their order: the step that comes next, or the  *)
(* result of an operation that changes nothing.                             *)
Decision(op, r, g, ready, lease, cooling) ==
    IF Mismatch(op, r, g) THEN "refused"
    ELSE IF op.action = "inspect"
      THEN IF (g.exists /\ ~g.verified) \/ (g.running /\ ready # "ready")
             THEN "refused" ELSE "succeeded"
    ELSE IF op.action = "adopt" THEN AdoptDecision(r, g, ready, lease)
    ELSE IF cooling /\ r.life # "absent" THEN "retryable"
    ELSE IF op.action = "start" THEN StartDecision(op, r, g, ready, lease)
    ELSE EndDecision(op, r, g, lease)

Verdicts(op, r, glances) ==
    {[next |-> Decision(op, r, g, ready, lease, cooling), glance |-> g,
      reviving |-> op.action = "start" /\ Reviving(g, ready),
      retry |-> op.action = "start" /\ Reactivating(r, g, ready)] :
        g \in glances, ready \in Readiness, lease \in LeaseStates, cooling \in BOOLEAN}

------------------------------------------------------------------------------
(* Handling a request. *)

Go(pc) == exec' = [exec EXCEPT !.pc = pc]
Answer(result) == exec' = [pc |-> "finish", op |-> exec.op, result |-> result]

save_seat(gen, life, ref, template) ==
    row' = [row EXCEPT ![exec.op.seat] =
                [@ EXCEPT !.gen = gen, !.life = life, !.ref = ref, !.template = template]]

\* Mutant: an operation whose outcome is unknown is executed again.
ReservablePending(op) == ops[op] \in {"none", "retryable", "pending"}

\* handle: a request for a seat as its caller last saw it, or one sent again.
\* An operation that is new, or was refused for a passing reason, is reserved.
\* Every other request changes nothing: it fails authentication or the roster,
\* its outcome is unknown, or it has a lasting result, which is its answer.
Reservable(op) == ops[op] \in {"none", "retryable"}
Known(op) ==
    \/ ops[op] # "none"
    \/ /\ op.gen = row[op.seat].gen
       /\ op.template \in {row[op.seat].template, Home[op.seat]}

\* Mutant: the request is executed without its reservation in the store.
ReserveNothing(op) ==
    /\ exec.pc = "idle" /\ requests < MaxRequests /\ Reservable(op)
    /\ Known(op)
    /\ exec' = [pc |-> "check", op |-> op, gen |-> op.gen, ref |-> NoRef,
                reviving |-> FALSE, retry |-> FALSE]
    /\ requests' = requests + 1
    /\ UNCHANGED <<row, ops, unit, proc, born, watch, astray, acted, faults>>

Reserve(op) ==
    /\ exec.pc = "idle" /\ requests < MaxRequests /\ Reservable(op)
    /\ Known(op)
    /\ ops' = [ops EXCEPT ![op] = "pending"]
    /\ exec' = [pc |-> "check", op |-> op, gen |-> op.gen, ref |-> NoRef,
                reviving |-> FALSE, retry |-> FALSE]
    /\ requests' = requests + 1
    /\ UNCHANGED <<row, unit, proc, born, watch, astray, acted, faults>>

Check ==
    /\ exec.pc = "check"
    /\ \E v \in Verdicts(exec.op, row[exec.op.seat],
                         Glances(unit[exec.op.seat], proc[exec.op.seat], exec.op.template)) :
         /\ exec' = IF v.next \in Results
                    THEN [pc |-> "finish", op |-> exec.op, result |-> v.next]
                    ELSE [exec EXCEPT !.pc = v.next, !.gen = row[exec.op.seat].gen,
                             !.ref = v.glance.ref, !.reviving = v.reviving, !.retry = v.retry]
         /\ acted' = IF v.next \in Results THEN acted ELSE acted \cup {exec.op}
         /\ Charged(v.glance, unit[exec.op.seat], proc[exec.op.seat], exec.op.template)
    /\ UNCHANGED <<row, ops, unit, proc, born, watch, astray, requests>>

\* A start first records the seat as starting, with no process.
SaveStarting ==
    /\ exec.pc = "save"
    /\ save_seat(exec.gen, "starting", NoRef, exec.op.template)
    /\ Go("launch")
    /\ UNCHANGED <<ops, unit, proc, born, watch, astray, acted, faults, requests>>

\* reserve_reactivation, adapter.instantiate and adapter.start; a start that
\* raises may or may not have left a process.
Launch ==
    /\ exec.pc = "launch"
    /\ row' = [row EXCEPT ![exec.op.seat].tries = IF exec.retry THEN @ + 1 ELSE @]
    /\ \/ /\ unit' = [unit EXCEPT ![exec.op.seat] = exec.op.template]
          /\ proc' = [proc EXCEPT ![exec.op.seat] = born[exec.op.seat] + 1]
          /\ born' = [born EXCEPT ![exec.op.seat] = @ + 1]
          /\ \E pc \in {"verify", "rollback"} : Go(pc)
       \/ /\ \E u \in {unit[exec.op.seat], exec.op.template} :
               unit' = [unit EXCEPT ![exec.op.seat] = u]
          /\ UNCHANGED <<proc, born>>
          /\ Go("rollback")
    /\ UNCHANGED <<ops, watch, astray, acted, faults, requests>>

\* The new process must be seen running, and the registry must know the seat
\* (a revived seat may still be about to join).
Verify ==
    /\ exec.pc = "verify"
    /\ \E g \in Glances(unit[exec.op.seat], proc[exec.op.seat], exec.op.template),
          ready \in Readiness :
         /\ IF g.running /\ g.verified
               /\ (ready = "ready" \/ (ready = "stale" /\ exec.reviving))
            THEN /\ save_seat(exec.gen, IF ready = "ready" THEN "ready" ELSE "starting",
                              g.ref, exec.op.template)
                 /\ Answer("succeeded")
            ELSE UNCHANGED row /\ Go("rollback")
         /\ Charged(g, unit[exec.op.seat], proc[exec.op.seat], exec.op.template)
    /\ UNCHANGED <<ops, unit, proc, born, watch, astray, acted, requests>>

\* A failed start stops the service, and records the seat as stopped only if
\* it was seen not to run.
Rollback ==
    /\ exec.pc = "rollback"
    /\ \E p \in AfterStop(exec.op.seat) :
         \E g \in Glances(unit[exec.op.seat], p, exec.op.template) :
           /\ proc' = [proc EXCEPT ![exec.op.seat] = p]
           /\ save_seat(exec.gen, IF ~g.running /\ g.verified THEN "stopped" ELSE "unhealthy",
                        NoRef, exec.op.template)
           /\ Charged(g, unit[exec.op.seat], p, exec.op.template)
    /\ Answer("refused")
    /\ UNCHANGED <<ops, unit, born, watch, astray, acted, requests>>

\* adopt_verified_process: compare-and-swap on the row the checks saw.
Adopt ==
    /\ exec.pc = "adopt"
    /\ \E r \in {row[exec.op.seat]} :
         \/ /\ r.gen = exec.gen /\ r.ref # NoRef /\ r.life \in Active
            /\ exec.gen < MaxGen
            /\ save_seat(exec.gen + 1, "ready", exec.ref, r.template)
            /\ Answer("succeeded")
         \/ /\ r.gen # exec.gen \/ r.ref = NoRef \/ r.life \notin Active
            /\ Answer("refused")
            /\ UNCHANGED row
    /\ UNCHANGED <<ops, unit, proc, born, watch, astray, acted, faults, requests>>

\* adapter.drain writes the seat's drain file; it may raise.
Drain ==
    /\ exec.pc = "drain"
    /\ \/ /\ save_seat(exec.gen, "draining", exec.ref, exec.op.template)
          /\ Answer("succeeded")
       \/ Answer("refused") /\ UNCHANGED row
    /\ UNCHANGED <<ops, unit, proc, born, watch, astray, acted, faults, requests>>

\* adapter.stop for stop and re_role; it may raise.
Stop ==
    /\ exec.pc = "stop"
    /\ \E p \in AfterStop(exec.op.seat) :
         /\ proc' = [proc EXCEPT ![exec.op.seat] = p]
         /\ \/ Go("settle")
            \/ Answer("refused")
    /\ UNCHANGED <<row, ops, unit, born, watch, astray, acted, faults, requests>>

\* What is recorded after the stop depends on the second observation.
Settle ==
    /\ exec.pc = "settle" /\ exec.gen < MaxGen
    /\ \E g \in Glances(unit[exec.op.seat], proc[exec.op.seat], exec.op.template) :
         /\ \/ /\ g.running /\ exec.op.action = "stop"
               /\ save_seat(exec.gen, "unhealthy", g.ref, exec.op.template)
               /\ Answer("refused")
            \/ /\ g.running /\ exec.op.action = "re_role"
               /\ UNCHANGED row
               /\ Answer("refused")
            \/ /\ ~g.running /\ exec.op.action = "stop"
               /\ save_seat(exec.gen + 1, "stopped", NoRef, exec.op.template)
               /\ Answer("succeeded")
            \/ /\ ~g.running /\ exec.op.action = "re_role"
               /\ UNCHANGED row
               /\ Go("replace")
         /\ astray' = IF ~g.running /\ proc[exec.op.seat] # NoRef
                      THEN astray \cup {exec.op.seat} ELSE astray
         /\ Charged(g, unit[exec.op.seat], proc[exec.op.seat], exec.op.template)
    /\ UNCHANGED <<ops, unit, proc, born, watch, acted, requests>>

\* The rest of a re_role.  adapter.replace writes the target's unit; it may
\* raise with the old unit or the new one in place.
Replace ==
    /\ exec.pc = "replace"
    /\ \E u \in {unit[exec.op.seat], Target[exec.op.template]}, pc \in {"restart", "spoil"} :
         /\ pc = "restart" => u = Target[exec.op.template]
         /\ unit' = [unit EXCEPT ![exec.op.seat] = u]
         /\ Go(pc)
    /\ UNCHANGED <<row, ops, proc, born, watch, astray, acted, faults, requests>>

\* adapter.start of the target; a start that raises may have left a process.
Restart ==
    /\ exec.pc = "restart"
    /\ \/ /\ proc' = [proc EXCEPT ![exec.op.seat] = born[exec.op.seat] + 1]
          /\ born' = [born EXCEPT ![exec.op.seat] = @ + 1]
          /\ \E pc \in {"changed", "spoil"} : Go(pc)
       \/ Go("spoil") /\ UNCHANGED <<proc, born>>
    /\ UNCHANGED <<row, ops, unit, watch, astray, acted, faults, requests>>

\* The target must be seen running, and the registry must know the seat.
InspectChanged ==
    /\ exec.pc = "changed"
    /\ \E g \in Glances(unit[exec.op.seat], proc[exec.op.seat], Target[exec.op.template]),
          ready \in Readiness :
         /\ exec' = IF g.running /\ g.verified /\ ready = "ready"
                    THEN [exec EXCEPT !.pc = "renew", !.ref = g.ref]
                    ELSE [exec EXCEPT !.pc = "spoil"]
         /\ Charged(g, unit[exec.op.seat], proc[exec.op.seat], Target[exec.op.template])
    /\ UNCHANGED <<row, ops, unit, proc, born, watch, astray, acted, requests>>

\* The seat is recorded under its new template, whatever its row says by then.
SaveChanged ==
    /\ \/ /\ exec.pc = "renew"
          /\ save_seat(exec.gen + 1, "ready", exec.ref, Target[exec.op.template])
          /\ Answer("succeeded")
       \/ /\ exec.pc = "spoil"
          /\ save_seat(exec.gen + 1, "unhealthy", NoRef, Target[exec.op.template])
          /\ Answer("refused")
    /\ UNCHANGED <<ops, unit, proc, born, watch, astray, acted, faults, requests>>

\* store.finish; the receipt is published and returned with it.
Finish ==
    /\ exec.pc = "finish"
    /\ ops' = [ops EXCEPT ![exec.op] = exec.result]
    /\ exec' = Idle
    /\ UNCHANGED <<row, unit, proc, born, watch, astray, acted, faults, requests>>

\* The executor dies and is started again: what it had not stored is gone.
ExecutorCrashes ==
    /\ exec.pc # "idle" /\ faults < MaxFaults
    /\ exec' = Idle
    /\ faults' = faults + 1
    /\ UNCHANGED <<row, ops, unit, proc, born, watch, astray, acted, requests>>

------------------------------------------------------------------------------
(* The services, and the observer of the butler's process. *)

ServiceExits(s) ==
    /\ proc[s] # NoRef
    /\ proc' = [proc EXCEPT ![s] = NoRef]
    /\ UNCHANGED <<row, ops, exec, unit, born, watch, astray, acted, faults, requests>>

\* An operator starts the unit by hand.
OperatorStarts(s) ==
    /\ unit[s] # NoUnit /\ proc[s] = NoRef /\ faults < MaxFaults
    /\ proc' = [proc EXCEPT ![s] = born[s] + 1]
    /\ born' = [born EXCEPT ![s] = @ + 1]
    /\ astray' = astray \cup {s}
    /\ faults' = faults + 1
    /\ UNCHANGED <<row, ops, exec, unit, watch, acted, requests>>

\* LocalFleetObserver: the stored row is read first, then the service is
\* inspected, then a lost process is recorded by compare-and-swap.
Observe(s) ==
    /\ watch.pc = "idle" /\ row[s].life \in Active /\ row[s].ref # NoRef
    /\ watch' = [pc |-> "inspect", seat |-> s, gen |-> row[s].gen, ref |-> row[s].ref]
    /\ UNCHANGED <<row, ops, exec, unit, proc, born, astray, acted, faults, requests>>

InspectLost ==
    /\ watch.pc = "inspect"
    /\ \E g \in {Seen(unit[watch.seat], proc[watch.seat], Home[watch.seat])} :
         watch' = IF ~g.running /\ g.verified THEN [watch EXCEPT !.pc = "recover"]
                  ELSE NotWatching
    /\ UNCHANGED <<row, ops, exec, unit, proc, born, astray, acted, faults, requests>>

\* Mutant: the process is not compared.
ReconcileByGeneration ==
    /\ watch.pc = "recover"
    /\ \E r \in {row[watch.seat]} :
         IF r.gen = watch.gen /\ r.life \in Active
         THEN /\ r.gen < MaxGen
              /\ row' = [row EXCEPT ![watch.seat] =
                            [r EXCEPT !.gen = @ + 1, !.life = "stopped", !.ref = NoRef]]
         ELSE UNCHANGED row
    /\ watch' = NotWatching
    /\ UNCHANGED <<ops, exec, unit, proc, born, astray, acted, faults, requests>>

reconcile_unexpected_stop ==
    /\ watch.pc = "recover"
    /\ \E r \in {row[watch.seat]} :
         IF r.gen = watch.gen /\ r.ref = watch.ref /\ r.life \in Active
         THEN /\ r.gen < MaxGen
              /\ row' = [row EXCEPT ![watch.seat] =
                            [r EXCEPT !.gen = @ + 1, !.life = "stopped", !.ref = NoRef]]
         ELSE UNCHANGED row
    /\ watch' = NotWatching
    /\ UNCHANGED <<ops, exec, unit, proc, born, astray, acted, faults, requests>>

confirm_registry_ready(s) ==
    /\ row[s].tries > 0 /\ row[s].template = Home[s] /\ unit[s] = Home[s]
    /\ proc[s] # NoRef /\ row[s].ref = proc[s]
    /\ row' = [row EXCEPT ![s].tries = 0]
    /\ UNCHANGED <<ops, exec, unit, proc, born, watch, astray, acted, faults, requests>>

Next ==
    \/ \E op \in Operations : Reserve(op)
    \/ Check \/ SaveStarting \/ Launch \/ Verify \/ Rollback
    \/ Adopt \/ Drain \/ Stop \/ Settle \/ Replace \/ Restart \/ InspectChanged
    \/ SaveChanged \/ Finish \/ ExecutorCrashes
    \/ \E s \in Seats : \/ ServiceExits(s) \/ OperatorStarts(s)
                        \/ Observe(s) \/ confirm_registry_ready(s)
    \/ InspectLost \/ reconcile_unexpected_stop

Spec == Init /\ [][Next]_vars

------------------------------------------------------------------------------
(* Properties *)

\* The tables, the services and the request being handled keep to their types;
\* the request being handled is always pending in the operations table.
TypeOK ==
    /\ row \in [Seats -> [gen : 1 .. MaxGen, life : Lifecycles, ref : Nat,
                          tries : 0 .. MaxTries, template : Templates]]
    /\ ops \in [Operations -> Results \cup {"none", "pending"}]
    /\ exec.pc \in Steps
    /\ exec.pc # "idle" => exec.op \in Operations /\ ops[exec.op] = "pending"
    /\ exec.pc = "finish" => exec.result \in Results
    /\ exec.pc \notin {"idle", "finish"} => exec.gen \in 1 .. MaxGen
    /\ unit \in [Seats -> Templates \cup {NoUnit}]
    /\ proc \in [Seats -> Nat] /\ \A s \in Seats : proc[s] <= born[s]
    /\ watch.pc \in {"idle", "inspect", "recover"}
    /\ astray \subseteq Seats /\ acted \subseteq Operations
    /\ requests \in 0 .. MaxRequests /\ faults \in 0 .. MaxFaults

\* The store never lets more seats be active than the host's and the board's
\* caps allow, nor two active seats share a principal (fleet_executor.py,
\* start and re_role), whatever dies, crashes or is written by the observer in
\* between.  Seats that ran a process behind the executor's back are left out:
\* drain and stop act on them without asking for a place.
CapsHold ==
    \E active \in {{s \in Seats \ astray : row[s].life \in Active}} :
      /\ Cardinality(active) <= HostCap
      /\ \A s \in active :
           /\ Cardinality({t \in active : BoardOf[t] = BoardOf[s]}) <= BoardCap[BoardOf[s]]
           /\ \A t \in active : PrincipalOf[row[t].template] = PrincipalOf[row[s].template]
                                  => s = t

\* A seat recorded as stopped (or not recorded at all) has no process of the
\* template it is recorded with, unless an operator started it or the look that
\* followed the stop had failed.  The template matters: the row of a seat that
\* is being re-roled names the old process until the target is recorded, so an
\* observer that saw the old one gone may record the seat as stopped beside the
\* target's process, for good if the executor then crashes.
StoppedHasNoProcess ==
    \A s \in Seats \ astray :
        row[s].life \in {"absent", "stopped"} /\ unit[s] \in {row[s].template, NoUnit}
          => proc[s] = NoRef

\* An operation gets past its checks at most once, however often it is sent
\* again after a timeout, a dead caller or a restarted executor.
ActsOnce ==
    [][exec.pc = "check" /\ exec'.pc \notin {"idle", "check", "finish"}
         => exec.op \notin acted]_vars
==============================================================================
