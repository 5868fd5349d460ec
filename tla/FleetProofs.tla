----------------------------- MODULE FleetProofs -----------------------------
(***************************************************************************)
(* Proofs about FleetExecutor, for any seats, templates, caps and bounds.  *)
(* The invariant has four parts, each of which uses the ones before: types *)
(* (Typed), what an operation that has acted leaves in the operations      *)
(* table (Once), what the store knows of the processes (Observed), and the *)
(* place a request has been given under the caps (Placed).                 *)
(***************************************************************************)
EXTENDS FleetExecutor, FiniteSetTheorems, TLAPS

Acting == Steps \ {"idle", "check", "finish"}
(* A re_role from the moment its old process has been stopped. *)
ReRoling == {"replace", "restart", "changed", "renew", "spoil"}
Rows == [gen : 1 .. MaxGen, life : Lifecycles, ref : Nat,
         tries : 0 .. MaxTries, template : Templates]

(* A request at each of its stages, and a look of the observer. *)
Request == [pc : Acting \cup {"check"}, op : Operations, gen : 1 .. MaxGen,
            ref : Nat, reviving : BOOLEAN, retry : BOOLEAN]
Answered == [pc : {"finish"}, op : Operations, result : Results]
Looking == [pc : {"inspect", "recover"}, seat : Seats, gen : 1 .. MaxGen, ref : Nat \ {NoRef}]

(* A retried start is below the limit of attempts until it is counted, and  *)
(* a re_role that replaces a service has a generation left.                 *)
Typed ==
    /\ row \in [Seats -> Rows]
    /\ ops \in [Operations -> Results \cup {"none", "pending"}]
    /\ exec \in {Idle} \cup Request \cup Answered
    /\ exec.pc # "idle" => ops[exec.op] = "pending"
    /\ exec.pc \in {"save", "launch"} /\ exec.retry => row[exec.op.seat].tries < MaxTries
    /\ exec.pc \in ReRoling => exec.gen < MaxGen
    /\ unit \in [Seats -> Templates \cup {NoUnit}]
    /\ proc \in [Seats -> Nat] /\ born \in [Seats -> Nat]
    /\ \A s \in Seats : proc[s] <= born[s]
    /\ watch \in {NotWatching} \cup Looking
    /\ astray \subseteq Seats /\ acted \subseteq Operations
    /\ requests \in 0 .. MaxRequests /\ faults \in 0 .. MaxFaults

------------------------------------------------------------------------------
(* Requests. *)

(* The parts of an operation. *)
LEMMA OperationFacts ==
    ASSUME NEW op \in Operations
    PROVE  /\ op.seat \in Seats /\ op.gen \in 1 .. MaxGen
           /\ op.template \in Templates /\ op.action \in Actions
           /\ Target[op.template] \in Templates
  BY FleetAssumption DEF Operations

(* The stage of a request tells its shape. *)
LEMMA StageFacts ==
    ASSUME exec \in {Idle} \cup Request \cup Answered
    PROVE  /\ exec.pc = "idle" => exec = Idle
           /\ exec.pc \in Acting \cup {"check"} => exec \in Request
           /\ exec.pc = "finish" => exec \in Answered
           /\ exec.pc \in Acting \cup {"check", "finish"} => exec.op \in Operations
           /\ exec.pc \in Steps
  BY DEF Idle, Request, Answered, Acting, Steps

(* What an inspection may report, and what it costs. *)
LEMMA GlanceFacts ==
    ASSUME NEW u, NEW p \in Nat, NEW t, NEW g \in Glances(u, p, t),
           Charged(g, u, p, t), faults \in 0 .. MaxFaults
    PROVE  /\ faults' \in 0 .. MaxFaults
           /\ g \in {Seen(u, p, t), Blind}
           /\ g.ref \in {NoRef, p}
           /\ g.running => p # NoRef
           /\ g.running /\ g.verified => g.ref = p
           /\ ~g.running /\ g.verified => p = NoRef
           /\ g.running \in BOOLEAN /\ g.verified \in BOOLEAN
<1>1. g = Seen(u, p, t) \/ (g = Blind /\ faults < MaxFaults)
  BY DEF Glances
<1>2. faults' \in 0 .. MaxFaults
  BY <1>1, FleetAssumption DEF Charged
<1>3. CASE g = Seen(u, p, t)
  <2>1. g.ref = IF u = t THEN p ELSE NoRef
    BY <1>3 DEF Seen
  <2>2. (g.running <=> p # NoRef) /\ (g.verified <=> u = t)
    BY <1>3, Zenon DEF Seen
  <2>3. g.running \in BOOLEAN /\ g.verified \in BOOLEAN
    BY <1>3, Zenon DEF Seen
  <2> QED BY <1>2, <1>3, <2>1, <2>2, <2>3
<1>4. CASE g = Blind
  <2>1. g.ref = NoRef
    BY <1>4 DEF Blind
  <2>2. g.running = FALSE /\ g.verified = FALSE
    BY <1>4 DEF Blind
  <2> QED BY <1>2, <1>4, <2>1, <2>2
<1> QED BY <1>1, <1>3, <1>4

(* save_seat replaces the row of the request's seat. *)
LEMMA SaveFacts ==
    ASSUME row \in [Seats -> Rows], exec.op.seat \in Seats,
           NEW gen \in 1 .. MaxGen, NEW life \in Lifecycles, NEW ref \in Nat,
           NEW template \in Templates, save_seat(gen, life, ref, template)
    PROVE  /\ row' \in [Seats -> Rows]
           /\ row'[exec.op.seat].gen = gen
           /\ row'[exec.op.seat].life = life
           /\ row'[exec.op.seat].ref = ref
           /\ row'[exec.op.seat].template = template
           /\ row'[exec.op.seat].tries = row[exec.op.seat].tries
           /\ \A s \in Seats \ {exec.op.seat} : row'[s] = row[s]
  BY DEF save_seat, Rows

(* Moving on and answering. *)
LEMMA GoFacts ==
    ASSUME exec \in Request, NEW pc \in Acting, Go(pc)
    PROVE  /\ exec' \in Request /\ exec'.pc = pc /\ exec'.op = exec.op
           /\ exec'.gen = exec.gen /\ exec'.ref = exec.ref /\ exec'.retry = exec.retry
  BY DEF Go, Request

(* An answer ends the request with a result. *)
LEMMA AnswerFacts ==
    ASSUME exec \in Request, NEW result \in Results, Answer(result)
    PROVE  /\ exec' \in Answered /\ exec'.pc = "finish" /\ exec'.op = exec.op
           /\ exec'.result = result
  BY DEF Answer, Request, Answered

(* The checks end in a result or in one of four steps.  A step that needs a *)
(* running service has seen it, identified, and the row as it was asked     *)
(* for; a start has been given a place and has an attempt left.             *)
LEMMA DecisionFacts ==
    ASSUME NEW op \in Operations, NEW r \in Rows, NEW g,
           g.running \in BOOLEAN, g.verified \in BOOLEAN, NEW ready \in Readiness,
           NEW lease \in LeaseStates, NEW cooling \in BOOLEAN,
           NEW next, next = Decision(op, r, g, ready, lease, cooling)
    PROVE  /\ next \in Results \cup {"save", "adopt", "drain", "stop"}
           /\ next \notin Results => ~Mismatch(op, r, g)
           /\ next \in {"adopt", "drain", "stop"} =>
                g.running /\ g.verified /\ r.life # "absent"
           /\ next = "save" =>
                /\ op.action = "start" /\ ~Crowded(op)
                /\ Reactivating(r, g, ready) => r.tries < MaxTries
           /\ next = "stop" => op.action \in {"stop", "re_role"}
           /\ next = "adopt" => op.action = "adopt"
           /\ next = "drain" => op.action = "drain"
<1>1. op.action \in Actions
  BY OperationFacts
<1>2. r.tries >= MaxTries <=> ~(r.tries < MaxTries)
  BY FleetAssumption DEF Rows
<1>3. CASE Mismatch(op, r, g)
  BY <1>3 DEF Decision, Results
<1>4. CASE ~Mismatch(op, r, g) /\ op.action = "inspect"
  <2>1. next \in {"refused", "succeeded"}
    BY <1>4 DEF Decision
  <2> QED BY <1>4, <2>1 DEF Results
<1>5. CASE ~Mismatch(op, r, g) /\ op.action = "adopt"
  <2>1. next = AdoptDecision(r, g, ready, lease)
    BY <1>5 DEF Decision
  <2>2. next \in {"refused", "retryable", "adopt"}
    BY <2>1 DEF AdoptDecision
  <2>3. next = "adopt" => g.running /\ g.verified /\ r.life # "absent"
    BY <2>1 DEF AdoptDecision
  <2> QED BY <1>5, <2>2, <2>3 DEF Results
<1>6. CASE ~Mismatch(op, r, g) /\ op.action = "start"
  <2>1. next \in {"retryable", StartDecision(op, r, g, ready, lease)}
    BY <1>6 DEF Decision
  <2>2. StartDecision(op, r, g, ready, lease) \in Results \cup {"save"}
    BY DEF StartDecision, Results
  <2>3. StartDecision(op, r, g, ready, lease) = "save" =>
          ~Crowded(op) /\ ~(Reactivating(r, g, ready) /\ r.tries >= MaxTries)
    BY DEF StartDecision
  <2> QED BY <1>2, <1>6, <2>1, <2>2, <2>3 DEF Results
<1>7. CASE ~Mismatch(op, r, g) /\ op.action \in {"drain", "stop", "re_role"}
  <2>1. next \in {"retryable", EndDecision(op, r, g, lease)}
    BY <1>7 DEF Decision
  <2>2. EndDecision(op, r, g, lease) \in {"refused", "retryable", "drain", "stop"}
    BY DEF EndDecision
  <2>3. EndDecision(op, r, g, lease) \in {"drain", "stop"} =>
          g.running /\ g.verified /\ r.life # "absent"
    BY DEF EndDecision
  <2>4. /\ EndDecision(op, r, g, lease) = "drain" => op.action = "drain"
        /\ EndDecision(op, r, g, lease) = "stop" => op.action # "drain"
    BY DEF EndDecision
  <2> QED BY <1>7, <2>1, <2>2, <2>3, <2>4 DEF Results
<1> QED BY <1>1, <1>3, <1>4, <1>5, <1>6, <1>7 DEF Actions

------------------------------------------------------------------------------
(* Types. *)

(* An initial state, whichever seats run in it. *)
LEMMA InitFacts ==
    ASSUME Init
    PROVE  \E running \in SUBSET Seats :
             /\ Cardinality(running) <= HostCap
             /\ \A s \in running :
                  /\ Cardinality({t \in running : BoardOf[t] = BoardOf[s]}) <= BoardCap[BoardOf[s]]
                  /\ \A t \in running : PrincipalOf[Home[t]] = PrincipalOf[Home[s]] => s = t
             /\ row \in [Seats -> Rows]
             /\ \A s \in Seats :
                  /\ row[s].template = Home[s]
                  /\ row[s].life \in IF s \in running THEN Active ELSE {"absent"}
                  /\ row[s].ref = proc[s] /\ born[s] = proc[s]
                  /\ proc[s] = IF s \in running THEN 1 ELSE NoRef
             /\ proc \in [Seats -> Nat] /\ born \in [Seats -> Nat]
             /\ unit \in [Seats -> Templates \cup {NoUnit}]
<1>1. PICK running \in SUBSET Seats :
         /\ Cardinality(running) <= HostCap
         /\ \A s \in running :
              /\ Cardinality({t \in running : BoardOf[t] = BoardOf[s]}) <= BoardCap[BoardOf[s]]
              /\ \A t \in running : PrincipalOf[Home[t]] = PrincipalOf[Home[s]] => s = t
         /\ \E up \in {"ready", "draining"} :
              row = [s \in Seats |->
                       [gen |-> 1, tries |-> 0, template |-> Home[s],
                        life |-> IF s \in running THEN up ELSE "absent",
                        ref |-> IF s \in running THEN 1 ELSE NoRef]]
         /\ unit = [s \in Seats |-> IF s \in running THEN Home[s] ELSE NoUnit]
         /\ proc = [s \in Seats |-> IF s \in running THEN 1 ELSE NoRef]
         /\ born = proc
  BY DEF Init
<1>2. PICK up \in {"ready", "draining"} :
         row = [s \in Seats |->
                  [gen |-> 1, tries |-> 0, template |-> Home[s],
                   life |-> IF s \in running THEN up ELSE "absent",
                   ref |-> IF s \in running THEN 1 ELSE NoRef]]
  BY <1>1
<1>3. row \in [Seats -> Rows]
  BY <1>2, FleetAssumption DEF Rows, Lifecycles, Active, NoRef
<1>4. proc \in [Seats -> Nat] /\ born \in [Seats -> Nat]
  BY <1>1 DEF NoRef
<1>5. unit \in [Seats -> Templates \cup {NoUnit}]
  BY <1>1, FleetAssumption
<1>6. \A s \in Seats :
        /\ row[s].template = Home[s]
        /\ row[s].life \in IF s \in running THEN Active ELSE {"absent"}
        /\ row[s].ref = proc[s] /\ born[s] = proc[s]
        /\ proc[s] = IF s \in running THEN 1 ELSE NoRef
  BY <1>1, <1>2 DEF Active
<1> QED BY <1>1, <1>3, <1>4, <1>5, <1>6

(* The types hold initially. *)
LEMMA TypedInit == Init => Typed
<1> SUFFICES ASSUME Init PROVE Typed
  OBVIOUS
<1>1. /\ row \in [Seats -> Rows] /\ unit \in [Seats -> Templates \cup {NoUnit}]
      /\ proc \in [Seats -> Nat] /\ born \in [Seats -> Nat]
      /\ \A s \in Seats : proc[s] <= born[s]
  BY InitFacts
<1>2. /\ ops \in [Operations -> Results \cup {"none", "pending"}]
      /\ exec = Idle /\ exec.pc = "idle" /\ watch = NotWatching
      /\ astray = {} /\ acted = {} /\ requests \in 0 .. MaxRequests /\ faults \in 0 .. MaxFaults
  BY FleetAssumption DEF Init, Idle
<1> QED BY <1>1, <1>2 DEF Typed, ReRoling

(* What a request at one of its steps finds. *)
LEMMA ActingFacts ==
    ASSUME Typed, exec.pc \in Acting \cup {"check"}
    PROVE  /\ exec \in Request /\ exec.op \in Operations /\ exec.op.seat \in Seats
           /\ exec.op.template \in Templates /\ Target[exec.op.template] \in Templates
           /\ exec.gen \in 1 .. MaxGen /\ exec.ref \in Nat
           /\ row[exec.op.seat] \in Rows /\ proc[exec.op.seat] \in Nat
           /\ born[exec.op.seat] \in Nat /\ ops[exec.op] = "pending"
<1>1. exec \in Request
  BY StageFacts DEF Typed
<1>2. exec.op \in Operations /\ exec.gen \in 1 .. MaxGen /\ exec.ref \in Nat
  BY <1>1 DEF Request
<1>3. exec.op.seat \in Seats /\ exec.op.template \in Templates
      /\ Target[exec.op.template] \in Templates
  BY <1>2, OperationFacts
<1>4. ops[exec.op] = "pending"
  BY DEF Typed, Acting
<1> QED BY <1>1, <1>2, <1>3, <1>4 DEF Typed

(* The checks, in one piece: the result, or the step with what it rests on. *)
LEMMA CheckFacts ==
    ASSUME Typed, Check
    PROVE  /\ exec.pc = "check" /\ exec'.op = exec.op /\ faults' \in 0 .. MaxFaults
           /\ \/ exec' \in Answered /\ acted' = acted
              \/ /\ exec' \in Request /\ acted' = acted \cup {exec.op}
                 /\ exec'.gen = row[exec.op.seat].gen
                 /\ exec'.ref \in {NoRef, proc[exec.op.seat]}
                 /\ ~principal_active_elsewhere(PrincipalOf[Target[exec.op.template]], exec.op.seat)
                      \/ exec.op.action # "re_role"
                 /\ \/ /\ exec'.pc = "save" /\ ~Crowded(exec.op) /\ exec.op.action = "start"
                       /\ exec'.retry => row[exec.op.seat].tries < MaxTries
                    \/ /\ exec'.pc \in {"adopt", "drain", "stop"}
                       /\ exec'.pc = "stop" => exec.op.action \in {"stop", "re_role"}
                       /\ exec'.pc # "stop" => exec.op.action \in {"adopt", "drain"}
                       /\ proc[exec.op.seat] # NoRef /\ exec'.ref = proc[exec.op.seat]
                       /\ row[exec.op.seat].life # "absent"
                       /\ row[exec.op.seat].template = exec.op.template
                       /\ unit[exec.op.seat] = exec.op.template
                       /\ exec.op.action = "re_role" =>
                            Target[exec.op.template] # exec.op.template
<1> DEFINE s == exec.op.seat
           t == exec.op.template
<1>1. exec.pc = "check"
  BY DEF Check
<1>2. /\ exec \in Request /\ exec.op \in Operations /\ s \in Seats
      /\ row[s] \in Rows /\ proc[s] \in Nat /\ faults \in 0 .. MaxFaults
  BY <1>1, ActingFacts DEF Typed
<1>3. PICK v \in Verdicts(exec.op, row[s], Glances(unit[s], proc[s], t)) :
         /\ exec' = IF v.next \in Results
                      THEN [pc |-> "finish", op |-> exec.op, result |-> v.next]
                      ELSE [exec EXCEPT !.pc = v.next, !.gen = row[s].gen,
                               !.ref = v.glance.ref, !.reviving = v.reviving, !.retry = v.retry]
         /\ acted' = IF v.next \in Results THEN acted ELSE acted \cup {exec.op}
         /\ Charged(v.glance, unit[s], proc[s], t)
  BY DEF Check
<1>a. PICK g \in Glances(unit[s], proc[s], t), ready \in Readiness, lease \in LeaseStates,
           cooling \in BOOLEAN :
         v = [next |-> Decision(exec.op, row[s], g, ready, lease, cooling), glance |-> g,
              reviving |-> exec.op.action = "start" /\ Reviving(g, ready),
              retry |-> exec.op.action = "start" /\ Reactivating(row[s], g, ready)]
  BY DEF Verdicts
<1>4. /\ v.next = Decision(exec.op, row[s], g, ready, lease, cooling) /\ v.glance = g
  BY <1>a
<1>5. v.reviving \in BOOLEAN /\ v.retry \in BOOLEAN /\ (v.retry => Reactivating(row[s], g, ready))
  BY <1>a, Zenon
<1>6. /\ faults' \in 0 .. MaxFaults /\ g \in {Seen(unit[s], proc[s], t), Blind}
      /\ g.ref \in {NoRef, proc[s]} /\ (g.running => proc[s] # NoRef)
      /\ (g.running /\ g.verified => g.ref = proc[s])
      /\ g.running \in BOOLEAN /\ g.verified \in BOOLEAN
  BY <1>2, <1>3, <1>4, GlanceFacts
<1>8. CASE v.next \in Results
  BY <1>1, <1>2, <1>3, <1>6, <1>8 DEF Answered
<1>9. CASE v.next \notin Results
  <2>1. /\ v.next \in {"save", "adopt", "drain", "stop"} /\ ~Mismatch(exec.op, row[s], g)
        /\ v.next \in {"adopt", "drain", "stop"} =>
             g.running /\ g.verified /\ row[s].life # "absent"
        /\ v.next = "save" =>
             /\ exec.op.action = "start" /\ ~Crowded(exec.op)
             /\ Reactivating(row[s], g, ready) => row[s].tries < MaxTries
        /\ v.next = "stop" => exec.op.action \in {"stop", "re_role"}
        /\ v.next = "adopt" => exec.op.action = "adopt"
        /\ v.next = "drain" => exec.op.action = "drain"
    BY <1>2, <1>4, <1>6, <1>9, DecisionFacts
  <2>2. /\ row[s].life = "absent" \/ row[s].template = t
        /\ \/ ~principal_active_elsewhere(PrincipalOf[Target[t]], s)
           \/ exec.op.action # "re_role"
        /\ exec.op.action = "re_role" => Target[t] # t
    BY <2>1 DEF Mismatch
  <2>6. g.verified => unit[s] = t
    <3>1. Blind.verified = FALSE /\ (Seen(unit[s], proc[s], t).verified <=> unit[s] = t)
      BY Zenon DEF Blind, Seen
    <3> QED BY <1>6, <3>1
  <2>3. exec' = [exec EXCEPT !.pc = v.next, !.gen = row[s].gen, !.ref = g.ref,
                             !.reviving = v.reviving, !.retry = v.retry]
        /\ acted' = acted \cup {exec.op}
    BY <1>3, <1>4, <1>9
  <2>4. /\ exec' \in Request /\ exec'.op = exec.op /\ exec'.pc = v.next
        /\ exec'.gen = row[s].gen /\ exec'.ref = g.ref
    <3>1. row[s].gen \in 1 .. MaxGen /\ g.ref \in Nat /\ v.next \in Acting
      BY <1>2, <1>6, <2>1 DEF Rows, NoRef, Acting, Steps
    <3> QED BY <1>2, <1>5, <2>3, <3>1 DEF Request
  <2>5. exec'.retry = v.retry
    BY <1>2, <2>3 DEF Request
  <2> QED BY <1>1, <1>5, <1>6, <2>1, <2>2, <2>3, <2>4, <2>5, <2>6
<1> QED BY <1>8, <1>9

(* The observer records a lost process, or finds another row than it saw. *)
LEMMA ReconcileFacts ==
    ASSUME Typed, reconcile_unexpected_stop
    PROVE  /\ watch.seat \in Seats /\ watch.ref \in Nat \ {NoRef} /\ watch.pc = "recover"
           /\ watch' = NotWatching
           /\ row' \in [Seats -> Rows]
           /\ \A x \in Seats : row'[x].tries = row[x].tries /\ row'[x].template = row[x].template
           /\ \/ UNCHANGED row
              \/ /\ row[watch.seat].ref = watch.ref
                 /\ row'[watch.seat].life = "stopped" /\ row'[watch.seat].ref = NoRef
                 /\ \A x \in Seats \ {watch.seat} : row'[x] = row[x]
<1> DEFINE r == row[watch.seat]
           new == [r EXCEPT !.gen = @ + 1, !.life = "stopped", !.ref = NoRef]
<1>1. watch \in Looking /\ watch.pc = "recover" /\ watch' = NotWatching
  BY DEF reconcile_unexpected_stop, Typed, NotWatching
<1>2. watch.seat \in Seats /\ watch.ref \in Nat \ {NoRef} /\ row \in [Seats -> Rows]
  BY <1>1 DEF Looking, Typed
<1>3. CASE UNCHANGED row
  BY <1>1, <1>2, <1>3
<1>4. CASE r.gen < MaxGen /\ r.ref = watch.ref /\ row' = [row EXCEPT ![watch.seat] = new]
  <2>1. r \in Rows
    BY <1>2
  <2>2. /\ new \in Rows /\ new.tries = r.tries /\ new.template = r.template
        /\ new.life = "stopped" /\ new.ref = NoRef
    <3>1. r.gen + 1 \in 1 .. MaxGen
      BY <1>4, <2>1, FleetAssumption DEF Rows
    <3> QED BY <2>1, <3>1 DEF Rows, Lifecycles, NoRef
  <2>3. row'[watch.seat] = new /\ \A x \in Seats \ {watch.seat} : row'[x] = row[x]
    BY <1>2, <1>4
  <2>4. row' \in [Seats -> Rows]
    BY <1>2, <1>4, <2>2
  <2> QED BY <1>1, <1>2, <1>4, <2>2, <2>3, <2>4
<1> QED BY <1>3, <1>4 DEF reconcile_unexpected_stop

(* A step of the executor that writes rows and services, but no tables. *)
LEMMA TypedStep ==
    ASSUME Typed, exec.pc \in Acting, UNCHANGED <<ops, watch, acted, requests>>,
           row' \in [Seats -> Rows], unit' \in [Seats -> Templates \cup {NoUnit}],
           proc' \in [Seats -> Nat], born' \in [Seats -> Nat],
           \A s \in Seats : proc'[s] <= born'[s],
           astray' \subseteq Seats, faults' \in 0 .. MaxFaults,
           exec' \in Request \cup Answered, exec'.op = exec.op,
           exec'.pc \in {"save", "launch"} /\ exec'.retry => row'[exec.op.seat].tries < MaxTries,
           exec'.pc \in ReRoling => exec'.gen < MaxGen
    PROVE  Typed'
<1>1. ops[exec.op] = "pending"
  BY ActingFacts
<1> QED BY <1>1 DEF Typed

(* Every step keeps the types. *)
LEMMA TypedNext == Typed /\ [Next]_vars => Typed'
<1> SUFFICES ASSUME Typed, [Next]_vars PROVE Typed'
  OBVIOUS
<1> DEFINE s == exec.op.seat
<1>1. ASSUME NEW op \in Operations, Reserve(op) PROVE Typed'
  <2>1. exec' \in Request /\ exec'.op = op /\ exec'.pc = "check"
    BY <1>1, OperationFacts DEF Reserve, Request, NoRef
  <2>2. requests' \in 0 .. MaxRequests
    BY <1>1, FleetAssumption DEF Reserve, Typed
  <2>3. ops' \in [Operations -> Results \cup {"none", "pending"}] /\ ops'[op] = "pending"
    BY <1>1 DEF Reserve, Typed
  <2> QED BY <1>1, <2>1, <2>2, <2>3 DEF Reserve, Typed, ReRoling
<1>2. CASE Check
  <2>1. /\ exec' \in Request \cup Answered /\ exec'.op = exec.op /\ exec.op \in Operations
        /\ acted' \in {acted, acted \cup {exec.op}} /\ faults' \in 0 .. MaxFaults
        /\ exec'.pc # "launch" /\ exec'.pc \notin ReRoling
        /\ exec'.pc = "save" /\ exec'.retry => row[s].tries < MaxTries
    BY <1>2, CheckFacts, ActingFacts DEF Check, Answered, ReRoling
  <2>2. ops[exec.op] = "pending"
    BY <1>2, ActingFacts DEF Check
  <2> QED BY <1>2, <2>1, <2>2 DEF Check, Typed
<1>3. CASE SaveStarting
  <2>1. exec.pc = "save" /\ "save" \in Acting /\ "launch" \in Acting
    BY <1>3 DEF SaveStarting, Acting, Steps
  <2>2. /\ exec' \in Request /\ exec'.pc = "launch" /\ exec'.op = exec.op /\ exec'.retry = exec.retry
    BY <1>3, <2>1, ActingFacts, GoFacts DEF SaveStarting
  <2>3. row' \in [Seats -> Rows] /\ row'[s].tries = row[s].tries
    BY <1>3, <2>1, ActingFacts, SaveFacts DEF SaveStarting, Typed, Lifecycles, Active, NoRef
  <2> QED BY <1>3, <2>1, <2>2, <2>3, TypedStep DEF SaveStarting, Typed, ReRoling
<1>4. CASE Launch
  <2>1. exec.pc = "launch" /\ {"launch", "verify", "rollback"} \subseteq Acting
    BY <1>4 DEF Launch, Acting, Steps
  <2>2. s \in Seats /\ exec.op.template \in Templates /\ exec \in Request /\ row[s] \in Rows
    BY <2>1, ActingFacts
  <2>3. exec' \in Request /\ exec'.pc \in {"verify", "rollback"} /\ exec'.op = exec.op
    BY <1>4, <2>1, <2>2, GoFacts DEF Launch
  <2>4. row' \in [Seats -> Rows]
    <3>1. (IF exec.retry THEN row[s].tries + 1 ELSE row[s].tries) \in 0 .. MaxTries
      BY <2>1, <2>2, FleetAssumption DEF Typed, Rows
    <3> QED BY <1>4, <2>2, <3>1 DEF Launch, Typed, Rows
  <2>5. /\ unit' \in [Seats -> Templates \cup {NoUnit}]
        /\ proc' \in [Seats -> Nat] /\ born' \in [Seats -> Nat]
        /\ \A x \in Seats : proc'[x] <= born'[x]
    BY <1>4, <2>2 DEF Launch, Typed
  <2> QED BY <1>4, <2>1, <2>3, <2>4, <2>5, TypedStep DEF Launch, Typed, ReRoling
<1>5. CASE Verify
  <2>1. exec.pc = "verify" /\ {"verify", "rollback"} \subseteq Acting
    BY <1>5 DEF Verify, Acting, Steps
  <2>2. /\ s \in Seats /\ exec.op.template \in Templates /\ exec \in Request
        /\ exec.gen \in 1 .. MaxGen /\ proc[s] \in Nat
    BY <2>1, ActingFacts
  <2>3. PICK g \in Glances(unit[s], proc[s], exec.op.template), ready \in Readiness :
           /\ \/ /\ save_seat(exec.gen, IF ready = "ready" THEN "ready" ELSE "starting",
                               g.ref, exec.op.template)
                 /\ Answer("succeeded")
              \/ UNCHANGED row /\ Go("rollback")
           /\ Charged(g, unit[s], proc[s], exec.op.template)
    BY <1>5 DEF Verify
  <2>4. faults' \in 0 .. MaxFaults /\ g.ref \in Nat
    BY <2>2, <2>3, GlanceFacts DEF Typed, NoRef
  <2>5. row' \in [Seats -> Rows]
    BY <2>2, <2>3, <2>4, SaveFacts DEF Typed, Lifecycles, Active
  <2>6. exec' \in Request \cup Answered /\ exec'.op = exec.op /\ exec'.pc \in {"rollback", "finish"}
    BY <2>1, <2>2, <2>3, GoFacts, AnswerFacts DEF Results
  <2> QED BY <1>5, <2>1, <2>4, <2>5, <2>6, TypedStep DEF Verify, Typed, ReRoling
<1>6. CASE Rollback
  <2>1. exec.pc = "rollback" /\ "rollback" \in Acting
    BY <1>6 DEF Rollback, Acting, Steps
  <2>2. /\ s \in Seats /\ exec.op.template \in Templates /\ exec \in Request
        /\ exec.gen \in 1 .. MaxGen /\ proc[s] \in Nat
    BY <2>1, ActingFacts
  <2>0. PICK p \in AfterStop(s) : \E g \in Glances(unit[s], p, exec.op.template) :
           /\ proc' = [proc EXCEPT ![s] = p]
           /\ save_seat(exec.gen, IF ~g.running /\ g.verified THEN "stopped" ELSE "unhealthy",
                        NoRef, exec.op.template)
           /\ Charged(g, unit[s], p, exec.op.template)
    BY <1>6 DEF Rollback
  <2>3. PICK g \in Glances(unit[s], p, exec.op.template) :
           /\ proc' = [proc EXCEPT ![s] = p]
           /\ save_seat(exec.gen, IF ~g.running /\ g.verified THEN "stopped" ELSE "unhealthy",
                        NoRef, exec.op.template)
           /\ Charged(g, unit[s], p, exec.op.template)
    BY <2>0
  <2>4. p \in {0, proc[s]}
    BY DEF AfterStop, NoRef
  <2>5. faults' \in 0 .. MaxFaults
    BY <2>2, <2>3, <2>4, GlanceFacts DEF Typed
  <2>6. row' \in [Seats -> Rows]
    BY <2>2, <2>3, SaveFacts DEF Typed, Lifecycles, Active, NoRef
  <2>7. proc' \in [Seats -> Nat] /\ \A x \in Seats : proc'[x] <= born[x]
    BY <2>2, <2>3, <2>4 DEF Typed
  <2>8. exec' \in Answered /\ exec'.op = exec.op /\ exec'.pc = "finish"
    BY <1>6, <2>2, AnswerFacts DEF Rollback, Results
  <2> QED BY <1>6, <2>1, <2>5, <2>6, <2>7, <2>8, TypedStep DEF Rollback, Typed, ReRoling
<1>7. CASE Adopt
  <2>1. exec.pc = "adopt" /\ "adopt" \in Acting
    BY <1>7 DEF Adopt, Acting, Steps
  <2>2. /\ s \in Seats /\ exec \in Request /\ row[s] \in Rows
        /\ exec.gen \in 1 .. MaxGen /\ exec.ref \in Nat /\ row[s].template \in Templates
    BY <2>1, ActingFacts DEF Rows
  <2>3. row' \in [Seats -> Rows]
    <3>1. CASE exec.gen < MaxGen /\ save_seat(exec.gen + 1, "ready", exec.ref, row[s].template)
      <4>1. exec.gen + 1 \in 1 .. MaxGen
        BY <2>2, <3>1, FleetAssumption
      <4> QED BY <2>2, <3>1, <4>1, SaveFacts DEF Typed, Lifecycles, Active
    <3>2. CASE UNCHANGED row
      BY <3>2 DEF Typed
    <3> QED BY <1>7, <3>1, <3>2 DEF Adopt
  <2>4. exec' \in Answered /\ exec'.op = exec.op /\ exec'.pc = "finish"
    BY <1>7, <2>2, AnswerFacts DEF Adopt, Results
  <2> QED BY <1>7, <2>1, <2>3, <2>4, TypedStep DEF Adopt, Typed, ReRoling
<1>8. CASE Drain
  <2>1. exec.pc = "drain" /\ "drain" \in Acting
    BY <1>8 DEF Drain, Acting, Steps
  <2>2. /\ s \in Seats /\ exec \in Request /\ exec.op.template \in Templates
        /\ exec.gen \in 1 .. MaxGen /\ exec.ref \in Nat
    BY <2>1, ActingFacts
  <2>3. row' \in [Seats -> Rows]
    BY <1>8, <2>2, SaveFacts DEF Drain, Typed, Lifecycles, Active
  <2>4. exec' \in Answered /\ exec'.op = exec.op /\ exec'.pc = "finish"
    BY <1>8, <2>2, AnswerFacts DEF Drain, Results
  <2> QED BY <1>8, <2>1, <2>3, <2>4, TypedStep DEF Drain, Typed, ReRoling
<1>9. CASE Stop
  <2>1. exec.pc = "stop" /\ {"stop", "settle"} \subseteq Acting
    BY <1>9 DEF Stop, Acting, Steps
  <2>2. s \in Seats /\ exec \in Request
    BY <2>1, ActingFacts
  <2>3. exec' \in Request \cup Answered /\ exec'.op = exec.op /\ exec'.pc \in {"settle", "finish"}
    BY <1>9, <2>1, <2>2, GoFacts, AnswerFacts DEF Stop, Results
  <2>4. proc' \in [Seats -> Nat] /\ \A x \in Seats : proc'[x] <= born[x]
    BY <1>9, <2>2 DEF Stop, AfterStop, Typed, NoRef
  <2> QED BY <1>9, <2>1, <2>3, <2>4, TypedStep DEF Stop, Typed, ReRoling
<1>10. CASE Settle
  <2>1. exec.pc = "settle" /\ "replace" \in Acting /\ exec.gen < MaxGen /\ exec.pc \in Acting
    BY <1>10 DEF Settle, Acting, Steps
  <2>2. /\ s \in Seats /\ exec.op.template \in Templates /\ exec \in Request
        /\ exec.gen \in 1 .. MaxGen /\ proc[s] \in Nat
    BY <2>1, ActingFacts
  <2>3. PICK g \in Glances(unit[s], proc[s], exec.op.template) :
           /\ \/ save_seat(exec.gen, "unhealthy", g.ref, exec.op.template) /\ Answer("refused")
              \/ UNCHANGED row /\ Answer("refused")
              \/ save_seat(exec.gen + 1, "stopped", NoRef, exec.op.template) /\ Answer("succeeded")
              \/ UNCHANGED row /\ Go("replace")
           /\ astray' \in {astray, astray \cup {s}}
           /\ Charged(g, unit[s], proc[s], exec.op.template)
    BY <1>10 DEF Settle
  <2>4. faults' \in 0 .. MaxFaults /\ g.ref \in Nat
    BY <2>2, <2>3, GlanceFacts DEF Typed, NoRef
  <2>5. row' \in [Seats -> Rows]
    <3>1. exec.gen + 1 \in 1 .. MaxGen
      BY <2>1, <2>2, FleetAssumption
    <3>2. CASE save_seat(exec.gen, "unhealthy", g.ref, exec.op.template)
      BY <2>2, <2>4, <3>2, SaveFacts DEF Typed, Lifecycles, Active
    <3>3. CASE save_seat(exec.gen + 1, "stopped", NoRef, exec.op.template)
      BY <2>2, <3>1, <3>3, SaveFacts DEF Typed, Lifecycles, Active, NoRef
    <3> QED BY <2>3, <3>2, <3>3 DEF Typed
  <2>6. /\ exec' \in Request \cup Answered /\ exec'.op = exec.op
        /\ exec'.pc \in {"replace", "finish"} /\ (exec'.pc = "replace" => exec'.gen < MaxGen)
    BY <2>1, <2>2, <2>3, GoFacts, AnswerFacts DEF Results
  <2>7. astray' \subseteq Seats
    BY <2>2, <2>3 DEF Typed
  <2> QED BY <1>10, <2>1, <2>4, <2>5, <2>6, <2>7, TypedStep DEF Settle, Typed, ReRoling
<1>11. CASE Replace
  <2>1. exec.pc = "replace" /\ {"replace", "restart", "spoil"} \subseteq Acting
    BY <1>11 DEF Replace, Acting, Steps
  <2>2. /\ s \in Seats /\ Target[exec.op.template] \in Templates /\ exec \in Request
        /\ exec.gen < MaxGen
    BY <2>1, ActingFacts DEF Typed, ReRoling
  <2>3. PICK u \in {unit[s], Target[exec.op.template]}, pc \in {"restart", "spoil"} :
          unit' = [unit EXCEPT ![s] = u] /\ Go(pc)
    BY <1>11 DEF Replace
  <2>4. unit' \in [Seats -> Templates \cup {NoUnit}]
    BY <2>2, <2>3 DEF Typed
  <2>5. /\ exec' \in Request /\ exec'.op = exec.op /\ exec'.gen = exec.gen
        /\ exec'.pc \in {"restart", "spoil"}
    BY <2>1, <2>2, <2>3, GoFacts
  <2> QED BY <1>11, <2>1, <2>2, <2>4, <2>5, TypedStep DEF Replace, Typed
<1>21. CASE Restart
  <2>1. exec.pc = "restart" /\ {"restart", "changed", "spoil"} \subseteq Acting
    BY <1>21 DEF Restart, Acting, Steps
  <2>2. s \in Seats /\ exec \in Request /\ exec.gen < MaxGen
    BY <2>1, ActingFacts DEF Typed, ReRoling
  <2>3. /\ exec' \in Request /\ exec'.op = exec.op /\ exec'.gen = exec.gen
        /\ exec'.pc \in {"changed", "spoil"}
    BY <1>21, <2>1, <2>2, GoFacts DEF Restart
  <2>4. /\ proc' \in [Seats -> Nat] /\ born' \in [Seats -> Nat]
        /\ \A x \in Seats : proc'[x] <= born'[x]
    BY <1>21, <2>2 DEF Restart, Typed
  <2> QED BY <1>21, <2>1, <2>2, <2>3, <2>4, TypedStep DEF Restart, Typed
<1>22. CASE InspectChanged
  <2>1. exec.pc = "changed" /\ {"changed", "renew", "spoil"} \subseteq Acting
    BY <1>22 DEF InspectChanged, Acting, Steps
  <2>2. s \in Seats /\ exec \in Request /\ exec.gen < MaxGen /\ proc[s] \in Nat
    BY <2>1, ActingFacts DEF Typed, ReRoling
  <2>3. PICK g \in Glances(unit[s], proc[s], Target[exec.op.template]) :
          /\ \/ exec' = [exec EXCEPT !.pc = "renew", !.ref = g.ref]
             \/ exec' = [exec EXCEPT !.pc = "spoil"]
          /\ Charged(g, unit[s], proc[s], Target[exec.op.template])
    BY <1>22 DEF InspectChanged
  <2>4. faults' \in 0 .. MaxFaults /\ g.ref \in Nat
    BY <2>2, <2>3, GlanceFacts DEF Typed, NoRef
  <2>5. /\ exec' \in Request /\ exec'.op = exec.op /\ exec'.gen = exec.gen
        /\ exec'.pc \in {"renew", "spoil"}
    BY <2>1, <2>2, <2>3, <2>4 DEF Request
  <2> QED BY <1>22, <2>1, <2>2, <2>4, <2>5, TypedStep DEF InspectChanged, Typed
<1>23. CASE SaveChanged
  <2>1. exec.pc \in {"renew", "spoil"} /\ {"renew", "spoil"} \subseteq Acting
    BY <1>23 DEF SaveChanged, Acting, Steps
  <2>2. /\ s \in Seats /\ Target[exec.op.template] \in Templates /\ exec \in Request
        /\ exec.gen \in 1 .. MaxGen /\ exec.gen < MaxGen /\ exec.ref \in Nat
    BY <2>1, ActingFacts DEF Typed, ReRoling
  <2>3. exec.gen + 1 \in 1 .. MaxGen
    BY <2>2, FleetAssumption
  <2>4. row' \in [Seats -> Rows]
    <3>1. \/ save_seat(exec.gen + 1, "ready", exec.ref, Target[exec.op.template])
          \/ save_seat(exec.gen + 1, "unhealthy", NoRef, Target[exec.op.template])
      BY <1>23 DEF SaveChanged
    <3> QED BY <2>2, <2>3, <3>1, SaveFacts DEF Typed, Lifecycles, Active, NoRef
  <2>5. exec' \in Answered /\ exec'.op = exec.op /\ exec'.pc = "finish"
    BY <1>23, <2>2, AnswerFacts DEF SaveChanged, Results
  <2> QED BY <1>23, <2>1, <2>4, <2>5, TypedStep DEF SaveChanged, Typed, ReRoling
<1>12. CASE Finish
  <2>1. exec.op \in Operations /\ exec.result \in Results
    BY <1>12, StageFacts DEF Finish, Typed, Answered
  <2>2. exec'.pc = "idle" /\ exec' = Idle
    BY <1>12 DEF Finish, Idle
  <2> QED BY <1>12, <2>1, <2>2 DEF Finish, Typed, ReRoling
<1>13. CASE ExecutorCrashes
  <2>1. exec'.pc = "idle" /\ exec' = Idle
    BY <1>13 DEF ExecutorCrashes, Idle
  <2>2. faults' \in 0 .. MaxFaults
    BY <1>13, FleetAssumption DEF ExecutorCrashes, Typed
  <2> QED BY <1>13, <2>1, <2>2 DEF ExecutorCrashes, Typed, ReRoling
<1>14. ASSUME NEW x \in Seats, ServiceExits(x) PROVE Typed'
  <2>1. proc' \in [Seats -> Nat] /\ \A y \in Seats : proc'[y] <= born[y]
    BY <1>14 DEF ServiceExits, Typed, NoRef
  <2> QED BY <1>14, <2>1 DEF ServiceExits, Typed
<1>15. ASSUME NEW x \in Seats, OperatorStarts(x) PROVE Typed'
  <2>1. /\ proc' \in [Seats -> Nat] /\ born' \in [Seats -> Nat]
        /\ \A y \in Seats : proc'[y] <= born'[y]
    BY <1>15 DEF OperatorStarts, Typed
  <2>2. faults' \in 0 .. MaxFaults
    BY <1>15, FleetAssumption DEF OperatorStarts, Typed
  <2> QED BY <1>15, <2>1, <2>2 DEF OperatorStarts, Typed
<1>16. ASSUME NEW x \in Seats, Observe(x) PROVE Typed'
  <2>1. watch' \in Looking
    BY <1>16 DEF Observe, Typed, Looking, Rows, NoRef
  <2> QED BY <1>16, <2>1 DEF Observe, Typed
<1>17. ASSUME NEW x \in Seats, confirm_registry_ready(x) PROVE Typed'
  <2>1. row' \in [Seats -> Rows]
    BY <1>17, FleetAssumption DEF confirm_registry_ready, Typed, Rows
  <2>2. exec.pc \in {"save", "launch"} /\ exec.retry => row'[s].tries < MaxTries
    <3>1. SUFFICES ASSUME exec.pc \in {"save", "launch"}, exec.retry
                   PROVE  row'[s].tries < MaxTries
      OBVIOUS
    <3>2. s \in Seats /\ row[s].tries < MaxTries
      BY <3>1, ActingFacts DEF Typed, Acting, Steps
    <3> QED BY <1>17, <3>2, FleetAssumption DEF confirm_registry_ready, Typed, Rows
  <2> QED BY <1>17, <2>1, <2>2 DEF confirm_registry_ready, Typed
<1>18. CASE InspectLost
  <2>1. watch' \in {NotWatching} \cup Looking
    BY <1>18 DEF InspectLost, Typed, NotWatching, Looking
  <2> QED BY <1>18, <2>1 DEF InspectLost, Typed
<1>19. CASE reconcile_unexpected_stop
  <2>3. /\ row' \in [Seats -> Rows] /\ watch' = NotWatching
        /\ \A x \in Seats : row'[x].tries = row[x].tries
    BY <1>19, ReconcileFacts
  <2>4. exec.pc \in {"save", "launch"} => s \in Seats
    BY ActingFacts DEF Acting, Steps
  <2> QED BY <1>19, <2>3, <2>4 DEF reconcile_unexpected_stop, Typed
<1>20. CASE UNCHANGED vars
  BY <1>20 DEF vars, Typed
<1> QED BY <1>1, <1>2, <1>3, <1>4, <1>5, <1>6, <1>7, <1>8, <1>9, <1>10, <1>11, <1>12,
           <1>13, <1>14, <1>15, <1>16, <1>17, <1>18, <1>19, <1>20, <1>21, <1>22, <1>23 DEF Next

(* The types hold in every reachable state: the rows stay within their      *)
(* generations and attempts, the request being handled is pending, and no   *)
(* process is older than its service's count.                               *)
THEOREM TypeCorrect == Spec => []TypeOK
<1>1. Typed => TypeOK
  <2> SUFFICES ASSUME Typed PROVE TypeOK
    OBVIOUS
  <2>1. exec.pc \in Steps /\ (exec.pc # "idle" => exec.op \in Operations)
    BY StageFacts DEF Typed, Acting
  <2>2. exec.pc = "finish" => exec.result \in Results
    BY StageFacts DEF Typed, Answered
  <2>3. exec.pc \notin {"idle", "finish"} => exec.gen \in 1 .. MaxGen
    BY <2>1, StageFacts DEF Typed, Acting, Request
  <2>4. watch.pc \in {"idle", "inspect", "recover"}
    BY DEF Typed, NotWatching, Looking
  <2> QED BY <2>1, <2>2, <2>3, <2>4 DEF TypeOK, Typed, Rows
<1> QED BY <1>1, TypedInit, TypedNext, PTL DEF Spec

------------------------------------------------------------------------------
(* Operations act once. *)

(* The steps of a request that has got past its checks, and the steps that  *)
(* are not the executor's.                                                  *)
ExecutorActs ==
    \/ SaveStarting \/ Launch \/ Verify \/ Rollback \/ Adopt \/ Drain \/ Stop \/ Settle
    \/ Replace \/ Restart \/ InspectChanged \/ SaveChanged
OthersAct ==
    \/ \E s \in Seats : \/ ServiceExits(s) \/ OperatorStarts(s)
                        \/ Observe(s) \/ confirm_registry_ready(s)
    \/ InspectLost \/ reconcile_unexpected_stop

(* A request that acts leaves the tables alone and ends in a lasting result. *)
LEMMA ActsFacts ==
    ASSUME Typed, ExecutorActs
    PROVE  /\ exec.pc \in Acting /\ UNCHANGED <<ops, watch, acted>>
           /\ exec'.op = exec.op
           /\ \/ exec' \in Request /\ exec'.pc \in Acting
              \/ exec'.pc = "finish" /\ exec'.result \in {"succeeded", "refused"}
<1>0. /\ {"save", "launch", "verify", "rollback", "adopt", "drain", "stop", "settle"} \subseteq Acting
      /\ ReRoling \subseteq Acting
  BY DEF Acting, Steps, ReRoling
<1>1. exec.pc \in Acting /\ UNCHANGED <<ops, watch, acted>>
  BY <1>0 DEF ExecutorActs, SaveStarting, Launch, Verify, Rollback, Adopt, Drain, Stop,
              Settle, Replace, Restart, InspectChanged, SaveChanged, ReRoling
<1>2. exec \in Request
  BY <1>1, ActingFacts
<1>3. \/ \E pc \in {"launch", "verify", "rollback", "settle"} \cup ReRoling : Go(pc)
      \/ InspectChanged
      \/ \E result \in {"succeeded", "refused"} : Answer(result)
  <2>1. CASE SaveStarting \/ Launch
    BY <2>1 DEF SaveStarting, Launch
  <2>2. CASE Verify \/ Rollback
    BY <2>2 DEF Verify, Rollback
  <2>3. CASE Adopt \/ Drain \/ Stop
    BY <2>3 DEF Adopt, Drain, Stop
  <2>4. CASE Settle \/ Replace
    BY <2>4 DEF Settle, Replace, ReRoling
  <2>5. CASE Restart \/ SaveChanged
    BY <2>5 DEF Restart, SaveChanged, ReRoling
  <2> QED BY <2>1, <2>2, <2>3, <2>4, <2>5 DEF ExecutorActs
<1>4. CASE \E pc \in {"launch", "verify", "rollback", "settle"} \cup ReRoling : Go(pc)
  BY <1>0, <1>1, <1>2, <1>4, GoFacts
<1>5. CASE \E result \in {"succeeded", "refused"} : Answer(result)
  BY <1>1, <1>2, <1>5, AnswerFacts DEF Results
<1>6. CASE InspectChanged
  <2> DEFINE s == exec.op.seat
             t == Target[exec.op.template]
  <2>1. PICK g \in Glances(unit[s], proc[s], t) :
          /\ \/ exec' = [exec EXCEPT !.pc = "renew", !.ref = g.ref]
             \/ exec' = [exec EXCEPT !.pc = "spoil"]
          /\ Charged(g, unit[s], proc[s], t)
    BY <1>6 DEF InspectChanged
  <2>2. proc[s] \in Nat /\ faults \in 0 .. MaxFaults
    BY <1>1, ActingFacts DEF Typed
  <2>3. g.ref \in Nat
    BY <2>1, <2>2, GlanceFacts DEF NoRef
  <2>4. {"renew", "spoil"} \subseteq Acting
    BY <1>0 DEF ReRoling
  <2>5. exec' \in Request /\ exec'.op = exec.op /\ exec'.pc \in {"renew", "spoil"}
    BY <1>2, <2>1, <2>3, <2>4 DEF Request
  <2> QED BY <1>1, <2>4, <2>5
<1> QED BY <1>3, <1>4, <1>5, <1>6

(* An operation that has acted is pending or has a lasting result, so that  *)
(* it cannot be reserved again; one that is being checked has not acted.    *)
Once ==
    /\ \A op \in acted : ~Reservable(op)
    /\ exec.pc = "check" => exec.op \notin acted
    /\ exec.pc = "finish" /\ exec.op \in acted => exec.result # "retryable"

(* Every step keeps an operation that has acted from being reserved again. *)
LEMMA OnceNext == Typed /\ Once /\ [Next]_vars => Once'
<1> SUFFICES ASSUME Typed, Once, [Next]_vars PROVE Once'
  OBVIOUS
<1>1. ASSUME NEW op \in Operations, Reserve(op) PROVE Once'
  <2>1. op \notin acted /\ acted' = acted /\ exec'.pc = "check" /\ exec'.op = op
    BY <1>1 DEF Reserve, Once
  <2>2. \A o \in acted : ops'[o] = ops[o]
    BY <1>1, <2>1 DEF Reserve, Typed
  <2> QED BY <2>1, <2>2 DEF Once, Reservable
<1>2. CASE Check
  <2>1. ops[exec.op] = "pending" /\ ops' = ops
    BY <1>2, ActingFacts DEF Check
  <2>2. exec.pc = "check" /\ exec'.op = exec.op
    BY <1>2, CheckFacts
  <2>3. CASE exec' \in Answered /\ acted' = acted
    BY <2>1, <2>2, <2>3 DEF Once, Reservable, Answered
  <2>4. CASE acted' = acted \cup {exec.op} /\ exec'.pc \in {"save", "adopt", "drain", "stop"}
    BY <2>1, <2>4 DEF Once, Reservable
  <2> QED BY <1>2, <2>3, <2>4, CheckFacts
<1>3. CASE ExecutorActs
  BY <1>3, ActsFacts DEF Once, Reservable, Acting
<1>4. CASE Finish
  <2>1. exec.op \in Operations /\ exec.result \in Results /\ exec'.pc = "idle" /\ acted' = acted
    BY <1>4, StageFacts DEF Finish, Typed, Answered, Idle
  <2>2. ops' = [ops EXCEPT ![exec.op] = exec.result] /\ exec.pc = "finish"
    BY <1>4 DEF Finish
  <2>3. \A o \in acted : ops'[o] \notin {"none", "retryable"}
    BY <2>1, <2>2 DEF Once, Reservable, Typed, Results
  <2> QED BY <2>1, <2>3 DEF Once, Reservable
<1>5. CASE ExecutorCrashes
  BY <1>5 DEF ExecutorCrashes, Once, Reservable, Idle
<1>6. CASE OthersAct \/ UNCHANGED vars
  <2>1. UNCHANGED <<ops, exec, acted>>
    BY <1>6 DEF OthersAct, ServiceExits, OperatorStarts, Observe, confirm_registry_ready,
                InspectLost, reconcile_unexpected_stop, vars
  <2> QED BY <2>1 DEF Once, Reservable
<1> QED BY <1>1, <1>2, <1>3, <1>4, <1>5, <1>6 DEF Next, ExecutorActs, OthersAct

(* An operation gets past its checks at most once, over any number of       *)
(* repeated requests, timeouts and restarts of the executor (handle,        *)
(* reserve, retry_rejected and finish).                                     *)
THEOREM ActsAtMostOnce == Spec => ActsOnce
<1>1. Init => Once
  BY DEF Init, Once, Idle
<1>2. Once /\ [Next]_vars =>
        [exec.pc = "check" /\ exec'.pc \notin {"idle", "check", "finish"} => exec.op \notin acted]_vars
  BY DEF Once
<1> QED BY <1>1, <1>2, TypedInit, TypedNext, OnceNext, PTL DEF Spec, ActsOnce

------------------------------------------------------------------------------
(* What the store knows of the processes. *)

(* The seat's unit is of another template than its row.                     *)
Foreign(s) == unit[s] \notin {row[s].template, NoUnit}

(* A process reference is never used twice, so the compare-and-swap of the  *)
(* observer tells a process it saw dead from a later one of the same seat   *)
(* under the row's template; while a start is under way the row names no    *)
(* process at all, and a request that acts on a process knows the only one  *)
(* there can be.  A re_role starts the target beside a row that names the   *)
(* old template and process still.                                          *)
Observed ==
    /\ StoppedHasNoProcess
    /\ \A s \in Seats : row[s].ref <= born[s]
    /\ exec.pc \in {"launch", "verify", "rollback"} =>
         row[exec.op.seat].ref = NoRef /\ row[exec.op.seat].life = "starting"
    /\ exec.pc \in {"adopt", "drain", "stop", "renew"} =>
         /\ exec.ref <= born[exec.op.seat]
         /\ exec.op.seat \in astray \/ proc[exec.op.seat] \in {NoRef, exec.ref}
    /\ exec.pc \in {"stop", "settle", "replace", "restart"} /\ exec.op.action = "re_role" =>
         /\ row[exec.op.seat].template = exec.op.template
         /\ Target[exec.op.template] # exec.op.template
    /\ exec.pc \in {"replace", "restart"} => exec.op.action = "re_role"
    /\ exec.pc = "restart" => unit[exec.op.seat] = Target[exec.op.template]
    /\ watch.pc \in {"inspect", "recover"} => watch.ref <= born[watch.seat]
    /\ watch.pc = "recover" =>
         /\ proc[watch.seat] # watch.ref
         /\ row[watch.seat].ref = watch.ref =>
              watch.seat \in astray \/ proc[watch.seat] = NoRef \/ Foreign(watch.seat)

(* The store knows the processes of the initial states. *)
LEMMA ObservedInit == Init => Observed
<1> SUFFICES ASSUME Init PROVE Observed
  OBVIOUS
<1>1. PICK running \in SUBSET Seats :
         /\ proc \in [Seats -> Nat]
         /\ \A s \in Seats :
              /\ row[s].life \in IF s \in running THEN Active ELSE {"absent"}
              /\ row[s].ref = proc[s] /\ born[s] = proc[s]
              /\ proc[s] = IF s \in running THEN 1 ELSE NoRef
  BY InitFacts
<1>2. StoppedHasNoProcess /\ \A s \in Seats : row[s].ref <= born[s]
  BY <1>1 DEF StoppedHasNoProcess, Active
<1>3. exec.pc = "idle" /\ watch.pc = "idle"
  BY DEF Init, Idle, NotWatching
<1> QED BY <1>2, <1>3 DEF Observed

(* The observer's view after a step of the executor that writes the row of  *)
(* seat s and may stop or start its process.                                *)
LEMMA ObservedStep ==
    ASSUME Typed, Typed', Observed, NEW s \in Seats, UNCHANGED watch, astray \subseteq astray',
           \A x \in Seats \ {s} : /\ row'[x] = row[x] /\ proc'[x] = proc[x]
                                  /\ born'[x] = born[x] /\ unit'[x] = unit[x],
           born'[s] >= born[s], row'[s].ref <= born'[s],
           proc'[s] \in {NoRef, proc[s]} \/ proc'[s] > born[s],
           \/ s \in astray' \/ Foreign(s)'
           \/ row'[s].life \in {"absent", "stopped"} => proc'[s] = NoRef,
           \A ref \in Nat \ {NoRef} :
             ref <= born[s] /\ row'[s].ref = ref /\ proc[s] # ref
               /\ (row[s].ref = ref => s \in astray \/ proc[s] = NoRef \/ Foreign(s))
               => s \in astray' \/ proc'[s] = NoRef \/ Foreign(s)',
           exec'.pc \in {"launch", "verify", "rollback"} =>
             exec'.op.seat = s /\ row'[s].ref = NoRef /\ row'[s].life = "starting",
           exec'.pc \notin {"adopt", "drain", "stop"},
           exec'.pc = "renew" =>
             /\ exec'.op.seat = s /\ exec'.ref <= born'[s]
             /\ s \in astray' \/ proc'[s] \in {NoRef, exec'.ref},
           exec'.pc \in {"settle", "replace", "restart"} /\ exec'.op.action = "re_role" =>
             /\ row'[exec'.op.seat].template = exec'.op.template
             /\ Target[exec'.op.template] # exec'.op.template,
           exec'.pc \in {"replace", "restart"} => exec'.op.action = "re_role",
           exec'.pc = "restart" => unit'[exec'.op.seat] = Target[exec'.op.template]
    PROVE  Observed'
<1>1. /\ proc \in [Seats -> Nat] /\ born \in [Seats -> Nat] /\ born' \in [Seats -> Nat]
      /\ watch \in {NotWatching} \cup Looking /\ \A x \in Seats : row[x].ref \in Nat
  BY DEF Typed, Rows
<1>2. StoppedHasNoProcess'
  BY DEF Observed, StoppedHasNoProcess, Foreign
<1>3. \A x \in Seats : row'[x].ref <= born'[x]
  BY <1>1 DEF Observed
<1>4. watch.pc \in {"inspect", "recover"} =>
        /\ watch.seat \in Seats /\ watch.ref \in Nat \ {NoRef}
        /\ watch.ref <= born[watch.seat] /\ watch.ref <= born'[watch.seat]
  BY <1>1 DEF Observed, NotWatching, Looking
<1>5. watch.pc = "recover" =>
        /\ proc'[watch.seat] # watch.ref
        /\ row'[watch.seat].ref = watch.ref =>
             watch.seat \in astray' \/ proc'[watch.seat] = NoRef \/ Foreign(watch.seat)'
  <2> SUFFICES ASSUME watch.pc = "recover"
               PROVE  /\ proc'[watch.seat] # watch.ref
                      /\ row'[watch.seat].ref = watch.ref =>
                           watch.seat \in astray' \/ proc'[watch.seat] = NoRef \/ Foreign(watch.seat)'
    OBVIOUS
  <2>1. /\ proc[watch.seat] # watch.ref
        /\ row[watch.seat].ref = watch.ref =>
             watch.seat \in astray \/ proc[watch.seat] = NoRef \/ Foreign(watch.seat)
    BY DEF Observed
  <2>2. CASE watch.seat # s
    BY <1>4, <2>1, <2>2 DEF Foreign
  <2>3. CASE watch.seat = s
    <3>1. watch'.seat = s
      BY <2>3
    <3> QED BY <1>1, <1>4, <2>1, <2>3, <3>1 DEF Foreign
  <2> QED BY <2>2, <2>3
<1> QED BY <1>2, <1>3, <1>4, <1>5 DEF Observed

(* The steps of a request keep what the store knows of the processes. *)
LEMMA ObservedActs ==
    ASSUME Typed, Typed', Observed, ExecutorActs
    PROVE  Observed'
<1> DEFINE s == exec.op.seat
           t == exec.op.template
<1>1. /\ exec.pc \in Acting /\ UNCHANGED watch /\ exec'.op = exec.op
      /\ \/ exec' \in Request /\ exec'.pc \in Acting
         \/ exec'.pc = "finish"
  BY ActsFacts
<1>2. /\ exec \in Request /\ s \in Seats /\ t \in Templates /\ Target[t] \in Templates
      /\ exec.gen \in 1 .. MaxGen /\ exec.ref \in Nat
      /\ row[s] \in Rows /\ proc[s] \in Nat /\ born[s] \in Nat /\ proc[s] <= born[s]
      /\ row \in [Seats -> Rows] /\ faults \in 0 .. MaxFaults
      /\ proc \in [Seats -> Nat] /\ born \in [Seats -> Nat] /\ row[s].ref \in Nat
      /\ unit \in [Seats -> Templates \cup {NoUnit}]
  BY <1>1, ActingFacts DEF Typed, Rows
<1>3. /\ row[s].ref <= born[s]
      /\ \/ s \in astray \/ Foreign(s)
         \/ row[s].life \in {"absent", "stopped"} => proc[s] = NoRef
  BY <1>2 DEF Observed, StoppedHasNoProcess, Foreign
<1>4. CASE SaveStarting
  <2>1. exec'.pc = "launch" /\ UNCHANGED <<unit, proc, born, astray>>
    BY <1>2, <1>4 DEF SaveStarting, Go, Request
  <2>2. /\ row'[s].ref = NoRef /\ row'[s].life = "starting"
        /\ \A x \in Seats \ {s} : row'[x] = row[x]
    BY <1>2, <1>4, SaveFacts DEF SaveStarting, Lifecycles, Active, NoRef
  <2> QED BY <1>1, <1>2, <1>3, <2>1, <2>2, ObservedStep DEF NoRef
<1>5. CASE Launch
  <2>1. row[s].ref = NoRef /\ row[s].life = "starting"
    BY <1>5 DEF Launch, Observed
  <2>2. /\ row'[s].ref = NoRef /\ row'[s].life = "starting" /\ UNCHANGED astray
        /\ \A x \in Seats \ {s} : row'[x] = row[x] /\ unit'[x] = unit[x]
    BY <1>2, <1>5, <2>1 DEF Launch, Rows
  <2>3. /\ \A x \in Seats \ {s} : proc'[x] = proc[x] /\ born'[x] = born[x]
        /\ \/ proc'[s] = proc[s] /\ born'[s] = born[s]
           \/ proc'[s] = born[s] + 1 /\ born'[s] = born[s] + 1
    BY <1>2, <1>5 DEF Launch
  <2>4. exec'.pc \in {"verify", "rollback"}
    BY <1>2, <1>5 DEF Launch, Go, Request
  <2> QED BY <1>1, <1>2, <1>3, <2>2, <2>3, <2>4, ObservedStep DEF NoRef
<1>6. CASE Verify
  <2>1. row[s].ref = NoRef /\ row[s].life = "starting" /\ UNCHANGED <<unit, proc, born, astray>>
    BY <1>6 DEF Verify, Observed
  <2>2. PICK g \in Glances(unit[s], proc[s], t), ready \in Readiness :
           /\ \/ /\ g.running /\ g.verified
                 /\ save_seat(exec.gen, IF ready = "ready" THEN "ready" ELSE "starting", g.ref, t)
                 /\ Answer("succeeded")
              \/ UNCHANGED row /\ Go("rollback")
           /\ Charged(g, unit[s], proc[s], t)
    BY <1>6 DEF Verify
  <2>3. (g.running /\ g.verified => g.ref = proc[s]) /\ g.ref \in Nat
    BY <1>2, <2>2, GlanceFacts DEF NoRef
  <2>4. CASE UNCHANGED row /\ Go("rollback")
    <3>1. exec'.pc = "rollback"
      BY <1>2, <2>4 DEF Go, Request
    <3> QED BY <1>1, <1>2, <1>3, <2>1, <2>4, <3>1, ObservedStep DEF NoRef
  <2>5. CASE /\ g.running /\ g.verified
             /\ save_seat(exec.gen, IF ready = "ready" THEN "ready" ELSE "starting", g.ref, t)
             /\ Answer("succeeded")
    <3>1. exec'.pc = "finish"
      BY <2>5 DEF Answer
    <3>2. /\ row'[s].ref = proc[s] /\ row'[s].life \in {"ready", "starting"}
          /\ \A x \in Seats \ {s} : row'[x] = row[x]
      <4> DEFINE life == IF ready = "ready" THEN "ready" ELSE "starting"
      <4>1. life \in {"ready", "starting"} /\ life \in Lifecycles
        BY DEF Lifecycles, Active
      <4>2. save_seat(exec.gen, life, g.ref, t)
        BY <2>5
      <4> HIDE DEF life
      <4> QED BY <1>2, <2>3, <2>5, <4>1, <4>2, SaveFacts
    <3> QED BY <1>1, <1>2, <1>3, <2>1, <3>1, <3>2, ObservedStep DEF NoRef
  <2> QED BY <2>2, <2>4, <2>5
<1>7. CASE Rollback
  <2>1. PICK p \in AfterStop(s) : \E g \in Glances(unit[s], p, t) :
           /\ proc' = [proc EXCEPT ![s] = p]
           /\ save_seat(exec.gen, IF ~g.running /\ g.verified THEN "stopped" ELSE "unhealthy",
                        NoRef, t)
           /\ Charged(g, unit[s], p, t)
    BY <1>7 DEF Rollback
  <2>2. PICK g \in Glances(unit[s], p, t) :
           /\ proc' = [proc EXCEPT ![s] = p]
           /\ save_seat(exec.gen, IF ~g.running /\ g.verified THEN "stopped" ELSE "unhealthy",
                        NoRef, t)
           /\ Charged(g, unit[s], p, t)
    BY <2>1
  <2>3. p \in {NoRef, proc[s]} /\ p \in Nat
    BY <1>2 DEF AfterStop, NoRef
  <2>4. ~g.running /\ g.verified => p = NoRef
    BY <1>2, <2>2, <2>3, GlanceFacts
  <2>5. /\ row'[s].ref = NoRef /\ (row'[s].life \in {"absent", "stopped"} => p = NoRef)
        /\ \A x \in Seats \ {s} : row'[x] = row[x]
    <3> DEFINE life == IF ~g.running /\ g.verified THEN "stopped" ELSE "unhealthy"
    <3>1. life \in Lifecycles /\ life # "absent" /\ (life = "stopped" => p = NoRef)
      BY <2>4 DEF Lifecycles, Active
    <3>2. save_seat(exec.gen, life, NoRef, t)
      BY <2>2
    <3>3. NoRef \in Nat
      BY DEF NoRef
    <3> HIDE DEF life
    <3> QED BY <1>2, <3>1, <3>2, <3>3, SaveFacts
  <2>6. proc'[s] = p /\ \A x \in Seats \ {s} : proc'[x] = proc[x]
    BY <1>2, <2>2
  <2>7. exec'.pc = "finish" /\ UNCHANGED <<unit, born, astray>>
    BY <1>7 DEF Rollback, Answer
  <2> QED BY <1>1, <1>2, <1>3, <2>3, <2>5, <2>6, <2>7, ObservedStep DEF NoRef
<1>8. CASE Adopt \/ Drain
  <2>1. /\ exec.ref <= born[s] /\ (s \in astray \/ proc[s] \in {NoRef, exec.ref})
        /\ UNCHANGED <<unit, proc, born, astray>>
    BY <1>8 DEF Adopt, Drain, Observed
  <2>2. exec'.pc = "finish"
    BY <1>8 DEF Adopt, Drain, Answer
  <2>3. CASE UNCHANGED row
    BY <1>1, <1>2, <1>3, <2>1, <2>2, <2>3, ObservedStep DEF NoRef, Foreign
  <2>4. CASE \E gen \in 1 .. MaxGen, life \in {"ready", "draining"}, template \in Templates :
               save_seat(gen, life, exec.ref, template)
    <3>1. /\ row'[s].ref = exec.ref /\ row'[s].life \in {"ready", "draining"}
          /\ \A x \in Seats \ {s} : row'[x] = row[x]
      BY <1>2, <2>4, SaveFacts DEF Lifecycles, Active
    <3> QED BY <1>1, <1>2, <1>3, <2>1, <2>2, <3>1, ObservedStep DEF NoRef
  <2>5. CASE Adopt
    <3>1. exec.gen < MaxGen => exec.gen + 1 \in 1 .. MaxGen
      BY <1>2, FleetAssumption
    <3>2. row[s].template \in Templates
      BY <1>2 DEF Rows
    <3>3. \/ UNCHANGED row
          \/ exec.gen < MaxGen /\ save_seat(exec.gen + 1, "ready", exec.ref, row[s].template)
      BY <2>5 DEF Adopt
    <3> QED BY <2>3, <2>4, <3>1, <3>2, <3>3
  <2>6. CASE Drain
    BY <1>2, <2>3, <2>4, <2>6 DEF Drain
  <2> QED BY <1>8, <2>5, <2>6
<1>9. CASE Stop
  <2>1. /\ proc'[s] \in {NoRef, proc[s]} /\ \A x \in Seats \ {s} : proc'[x] = proc[x]
        /\ UNCHANGED <<row, unit, born, astray>>
    BY <1>2, <1>9 DEF Stop, AfterStop
  <2>2. exec'.pc \in {"settle", "finish"}
    BY <1>2, <1>9 DEF Stop, Go, Answer, Request
  <2>3. exec.op.action = "re_role" => row[s].template = t /\ Target[t] # t
    BY <1>9 DEF Stop, Observed
  <2> QED BY <1>1, <1>2, <1>3, <2>1, <2>2, <2>3, ObservedStep DEF NoRef, Foreign
<1>10. CASE Settle
  <2>1. PICK g \in Glances(unit[s], proc[s], t) :
           /\ \/ save_seat(exec.gen, "unhealthy", g.ref, t) /\ Answer("refused")
              \/ UNCHANGED row /\ Answer("refused")
              \/ ~g.running /\ save_seat(exec.gen + 1, "stopped", NoRef, t) /\ Answer("succeeded")
              \/ exec.op.action = "re_role" /\ UNCHANGED row /\ Go("replace")
           /\ astray' = IF ~g.running /\ proc[s] # NoRef THEN astray \cup {s} ELSE astray
           /\ Charged(g, unit[s], proc[s], t)
    BY <1>10 DEF Settle
  <2>2. g.ref \in {NoRef, proc[s]} /\ g.ref \in Nat
    BY <1>2, <2>1, GlanceFacts DEF NoRef
  <2>3. exec'.pc \in {"replace", "finish"} /\ UNCHANGED <<unit, proc, born>>
        /\ astray \subseteq astray' /\ (exec'.pc = "replace" => exec.op.action = "re_role")
    BY <1>2, <1>10, <2>1 DEF Settle, Go, Answer, Request
  <2>7. exec.op.action = "re_role" => row[s].template = t /\ Target[t] # t
    BY <1>10 DEF Settle, Observed
  <2>4. CASE UNCHANGED row
    BY <1>1, <1>2, <1>3, <2>3, <2>4, <2>7, ObservedStep DEF NoRef, Foreign
  <2>5. CASE save_seat(exec.gen, "unhealthy", g.ref, t) /\ Answer("refused")
    <3>1. /\ row'[s].ref = g.ref /\ row'[s].life = "unhealthy"
          /\ \A x \in Seats \ {s} : row'[x] = row[x]
      BY <1>2, <2>2, <2>5, SaveFacts DEF Lifecycles, Active
    <3>2. exec'.pc = "finish"
      BY <2>5 DEF Answer
    <3> QED BY <1>1, <1>2, <1>3, <2>2, <2>3, <3>1, <3>2, ObservedStep DEF NoRef
  <2>6. CASE ~g.running /\ save_seat(exec.gen + 1, "stopped", NoRef, t) /\ Answer("succeeded")
    <3>0. exec.gen + 1 \in 1 .. MaxGen
      BY <1>2, <1>10, FleetAssumption DEF Settle
    <3>1. /\ row'[s].ref = NoRef /\ row'[s].life = "stopped"
          /\ \A x \in Seats \ {s} : row'[x] = row[x]
      BY <1>2, <2>6, <3>0, SaveFacts DEF Lifecycles, NoRef
    <3>2. s \in astray' \/ proc[s] = NoRef
      BY <2>1, <2>6
    <3>3. exec'.pc = "finish"
      BY <2>6 DEF Answer
    <3> QED BY <1>1, <1>2, <1>3, <2>3, <3>1, <3>2, <3>3, ObservedStep DEF NoRef
  <2> QED BY <2>1, <2>4, <2>5, <2>6
<1>11. CASE Replace
  <2>1. PICK u \in {unit[s], Target[t]}, pc \in {"restart", "spoil"} :
          /\ pc = "restart" => u = Target[t]
          /\ unit' = [unit EXCEPT ![s] = u] /\ Go(pc)
    BY <1>11 DEF Replace
  <2>2. /\ unit'[s] = u /\ \A x \in Seats \ {s} : unit'[x] = unit[x]
        /\ exec'.pc = pc /\ UNCHANGED <<row, proc, born, astray>>
    BY <1>2, <1>11, <2>1 DEF Replace, Go, Request
  <2>3. row[s].template = t /\ Target[t] # t /\ exec.op.action = "re_role"
    BY <1>11 DEF Replace, Observed
  <2>4. Foreign(s) => Foreign(s)'
    BY <1>1, <1>2, <2>1, <2>2, <2>3, FleetAssumption DEF Foreign
  <2> QED BY <1>1, <1>2, <1>3, <2>1, <2>2, <2>3, <2>4, ObservedStep DEF NoRef
<1>12. CASE Restart
  <2>1. /\ row[s].template = t /\ Target[t] # t /\ exec.op.action = "re_role"
        /\ unit[s] = Target[t] /\ UNCHANGED <<row, unit, astray>>
    BY <1>12 DEF Restart, Observed
  <2>2. Foreign(s)'
    BY <1>1, <1>2, <2>1, FleetAssumption DEF Foreign
  <2>3. /\ \A x \in Seats \ {s} : proc'[x] = proc[x] /\ born'[x] = born[x]
        /\ \/ proc'[s] = proc[s] /\ born'[s] = born[s]
           \/ proc'[s] = born[s] + 1 /\ born'[s] = born[s] + 1
    BY <1>2, <1>12 DEF Restart
  <2>4. exec'.pc \in {"changed", "spoil"}
    BY <1>2, <1>12 DEF Restart, Go, Request
  <2> QED BY <1>1, <1>2, <1>3, <2>1, <2>2, <2>3, <2>4, ObservedStep DEF NoRef
<1>13. CASE InspectChanged
  <2>1. PICK g \in Glances(unit[s], proc[s], Target[t]) :
          /\ \/ g.running /\ g.verified /\ exec' = [exec EXCEPT !.pc = "renew", !.ref = g.ref]
             \/ exec' = [exec EXCEPT !.pc = "spoil"]
          /\ Charged(g, unit[s], proc[s], Target[t])
    BY <1>13 DEF InspectChanged
  <2>2. g.running /\ g.verified => g.ref = proc[s]
    BY <1>2, <2>1, GlanceFacts
  <2>3. exec'.pc \in {"renew", "spoil"} /\ (exec'.pc = "renew" => exec'.ref = proc[s])
    BY <1>2, <2>1, <2>2 DEF Request
  <2>4. UNCHANGED <<row, unit, proc, born, astray>>
    BY <1>13 DEF InspectChanged
  <2>5. Foreign(s) => Foreign(s)'
    BY <1>1, <2>4 DEF Foreign
  <2> QED BY <1>1, <1>2, <1>3, <2>3, <2>4, <2>5, ObservedStep DEF NoRef
<1>14. CASE SaveChanged
  <2>0. exec.gen + 1 \in 1 .. MaxGen /\ {"ready", "unhealthy"} \subseteq Lifecycles
    BY <1>2, <1>14, FleetAssumption DEF SaveChanged, Typed, ReRoling, Lifecycles, Active
  <2>1. exec'.pc = "finish" /\ UNCHANGED <<unit, proc, born, astray>>
    BY <1>14 DEF SaveChanged, Answer
  <2>2. CASE exec.pc = "renew" /\ save_seat(exec.gen + 1, "ready", exec.ref, Target[t])
    <3>1. row'[s].ref = exec.ref /\ row'[s].life = "ready" /\ \A x \in Seats \ {s} : row'[x] = row[x]
      BY <1>2, <2>0, <2>2, SaveFacts
    <3>2. exec.ref <= born[s] /\ (s \in astray \/ proc[s] \in {NoRef, exec.ref})
      BY <2>2 DEF Observed
    <3> QED BY <1>1, <1>2, <1>3, <2>1, <3>1, <3>2, ObservedStep DEF NoRef
  <2>3. CASE save_seat(exec.gen + 1, "unhealthy", NoRef, Target[t])
    <3>1. /\ row'[s].ref = NoRef /\ row'[s].life = "unhealthy"
          /\ \A x \in Seats \ {s} : row'[x] = row[x]
      BY <1>2, <2>0, <2>3, SaveFacts DEF NoRef
    <3> QED BY <1>1, <1>2, <1>3, <2>1, <3>1, ObservedStep DEF NoRef
  <2> QED BY <1>14, <2>2, <2>3 DEF SaveChanged
<1> QED BY <1>4, <1>5, <1>6, <1>7, <1>8, <1>9, <1>10, <1>11, <1>12, <1>13, <1>14 DEF ExecutorActs

(* Every step keeps what the store knows of the processes. *)
LEMMA ObservedNext == Typed /\ Typed' /\ Observed /\ [Next]_vars => Observed'
<1> SUFFICES ASSUME Typed, Typed', Observed, [Next]_vars PROVE Observed'
  OBVIOUS
<1>0. /\ proc \in [Seats -> Nat] /\ born \in [Seats -> Nat] /\ row \in [Seats -> Rows]
      /\ \A x \in Seats : proc[x] <= born[x] /\ proc[x] \in Nat /\ born[x] \in Nat
      /\ watch \in {NotWatching} \cup Looking
      /\ watch.pc \in {"inspect", "recover"} => watch.seat \in Seats /\ watch.ref \in Nat \ {NoRef}
      /\ exec.pc \in Acting => exec.op.seat \in Seats
      /\ {"launch", "verify", "rollback", "adopt", "drain", "stop", "settle", "replace",
          "restart", "renew"} \subseteq Acting
  BY ActingFacts DEF Typed, NotWatching, Looking, Acting, Steps
<1>1. ASSUME NEW op \in Operations, Reserve(op) PROVE Observed'
  BY <1>1 DEF Reserve, Observed, StoppedHasNoProcess, Foreign
<1>2. CASE Check
  <2>1. UNCHANGED <<unit, row, proc, born, watch, astray>> /\ exec'.op = exec.op
    BY <1>2, CheckFacts DEF Check
  <2>2. exec.op.seat \in Seats
    BY <1>2, ActingFacts DEF Check
  <2>3. CASE exec' \in Answered
    <3>1. exec'.pc = "finish"
      BY <2>3 DEF Answered
    <3> QED BY <2>1, <3>1 DEF Observed, StoppedHasNoProcess, Foreign
  <2>4. CASE exec'.pc = "save"
    BY <2>1, <2>4 DEF Observed, StoppedHasNoProcess, Foreign
  <2>6. /\ exec'.pc \in {"adopt", "drain", "stop"} => row[exec.op.seat].template = exec.op.template
        /\ exec'.pc = "stop" /\ exec.op.action = "re_role" =>
             Target[exec.op.template] # exec.op.template
    BY <1>2, CheckFacts DEF Answered
  <2>5. CASE exec'.pc \in {"adopt", "drain", "stop"} /\ exec'.ref = proc[exec.op.seat]
    BY <1>0, <2>1, <2>2, <2>5, <2>6 DEF Observed, StoppedHasNoProcess, Foreign
  <2> QED BY <1>2, <2>3, <2>4, <2>5, CheckFacts
<1>3. CASE ExecutorActs
  BY <1>3, ObservedActs
<1>4. CASE Finish \/ ExecutorCrashes
  <2>1. UNCHANGED <<unit, row, proc, born, watch, astray>> /\ exec'.pc = "idle"
    BY <1>4 DEF Finish, ExecutorCrashes, Idle
  <2> QED BY <2>1 DEF Observed, StoppedHasNoProcess, Foreign
<1>5. ASSUME NEW x \in Seats, ServiceExits(x) PROVE Observed'
  <2>1. /\ UNCHANGED <<unit, row, exec, born, watch, astray>>
        /\ \A y \in Seats : proc'[y] = IF y = x THEN NoRef ELSE proc[y]
    BY <1>0, <1>5 DEF ServiceExits
  <2> QED BY <1>0, <2>1 DEF Observed, StoppedHasNoProcess, Foreign
<1>6. ASSUME NEW x \in Seats, OperatorStarts(x) PROVE Observed'
  <2>1. /\ UNCHANGED <<unit, row, exec, watch>> /\ astray' = astray \cup {x}
        /\ \A y \in Seats : /\ proc'[y] = IF y = x THEN born[y] + 1 ELSE proc[y]
                            /\ born'[y] = IF y = x THEN born[y] + 1 ELSE born[y]
    BY <1>0, <1>6 DEF OperatorStarts
  <2>2. \A y \in Seats : row[y].ref \in Nat
    BY <1>0 DEF Rows
  <2>3. exec.pc \in {"adopt", "drain", "stop", "renew"} => exec.ref \in Nat
    BY <1>0, ActingFacts
  <2> QED BY <1>0, <2>1, <2>2, <2>3 DEF Observed, StoppedHasNoProcess, Foreign
<1>7. ASSUME NEW x \in Seats, Observe(x) PROVE Observed'
  <2>1. /\ UNCHANGED <<unit, row, exec, proc, born, astray>>
        /\ watch'.pc = "inspect" /\ watch'.seat = x /\ watch'.ref = row[x].ref
    BY <1>7 DEF Observe
  <2> QED BY <2>1 DEF Observed, StoppedHasNoProcess, Foreign
<1>8. ASSUME NEW x \in Seats, confirm_registry_ready(x) PROVE Observed'
  <2>1. /\ UNCHANGED <<exec, unit, proc, born, watch, astray>>
        /\ \A y \in Seats : /\ row'[y].ref = row[y].ref /\ row'[y].life = row[y].life
                            /\ row'[y].template = row[y].template
    BY <1>0, <1>8 DEF confirm_registry_ready, Rows
  <2> QED BY <1>0, <2>1 DEF Observed, StoppedHasNoProcess, Foreign
<1>9. CASE InspectLost
  <2>1. UNCHANGED <<unit, row, exec, proc, born, astray>> /\ watch.pc = "inspect"
    BY <1>9 DEF InspectLost
  <2>2. CASE watch' = NotWatching
    BY <2>1, <2>2 DEF Observed, StoppedHasNoProcess, Foreign, NotWatching
  <2>3. CASE watch' # NotWatching
    <3>1. /\ watch' = [watch EXCEPT !.pc = "recover"]
          /\ ~Seen(unit[watch.seat], proc[watch.seat], Home[watch.seat]).running
      BY <1>9, <2>3 DEF InspectLost
    <3>2. proc[watch.seat] = NoRef
      BY <3>1, Zenon DEF Seen
    <3>3. watch'.seat = watch.seat /\ watch'.ref = watch.ref
      BY <1>0, <2>1, <3>1 DEF Looking, NotWatching
    <3> QED BY <1>0, <2>1, <3>2, <3>3 DEF Observed, StoppedHasNoProcess, Foreign
  <2> QED BY <2>2, <2>3
<1>10. CASE reconcile_unexpected_stop
  <2>1. /\ UNCHANGED <<exec, unit, proc, born, astray>> /\ watch'.pc = "idle"
        /\ watch.pc = "recover" /\ watch.seat \in Seats /\ watch.ref # NoRef
        /\ \A x \in Seats : row'[x].template = row[x].template
    BY <1>10, ReconcileFacts DEF reconcile_unexpected_stop, NotWatching
  <2>2. CASE UNCHANGED row
    BY <2>1, <2>2 DEF Observed, StoppedHasNoProcess, Foreign
  <2>3. CASE /\ row[watch.seat].ref = watch.ref
             /\ row'[watch.seat].life = "stopped" /\ row'[watch.seat].ref = NoRef
             /\ \A x \in Seats \ {watch.seat} : row'[x] = row[x]
    <3>1. watch.seat \in astray \/ proc[watch.seat] = NoRef \/ Foreign(watch.seat)
      BY <2>1, <2>3 DEF Observed
    <3>2. StoppedHasNoProcess'
      BY <2>1, <2>3, <3>1 DEF Observed, StoppedHasNoProcess, Foreign
    <3>3. \A x \in Seats : row'[x].ref <= born[x]
      BY <1>0, <2>1, <2>3 DEF Observed, NoRef
    <3>4. exec.pc \in {"launch", "verify", "rollback"} =>
            row'[exec.op.seat].ref = NoRef /\ row'[exec.op.seat].life = "starting"
      BY <1>0, <2>1, <2>3 DEF Observed
    <3>5. /\ exec.pc \in {"stop", "settle", "replace", "restart"} /\ exec.op.action = "re_role" =>
               row'[exec.op.seat].template = row[exec.op.seat].template
      BY <1>0, <2>1
    <3> QED BY <2>1, <3>2, <3>3, <3>4, <3>5 DEF Observed
  <2> QED BY <1>10, <2>2, <2>3, ReconcileFacts
<1>11. CASE UNCHANGED vars
  BY <1>11 DEF vars, Observed, StoppedHasNoProcess, Foreign
<1> QED BY <1>1, <1>2, <1>3, <1>4, <1>5, <1>6, <1>7, <1>8, <1>9, <1>10, <1>11
        DEF Next, ExecutorActs

(* A seat recorded as stopped has no process of the template it is recorded *)
(* with, over any interleaving of the executor, its crashes, dying services *)
(* and the observer's compare-and-swap, unless somebody went behind the     *)
(* executor's back.                                                         *)
THEOREM StoppedStaysStopped == Spec => []StoppedHasNoProcess
<1>1. Observed => StoppedHasNoProcess
  BY DEF Observed
<1> QED BY <1>1, TypedInit, TypedNext, ObservedInit, ObservedNext, PTL DEF Spec

------------------------------------------------------------------------------
(* Caps and principals. *)

(* The seats of A, with templates f, fit under the caps, each with a        *)
(* principal of its own.                                                    *)
Fit(A, f) ==
    /\ Cardinality(A) <= HostCap
    /\ \A s \in A : Cardinality({t \in A : BoardOf[t] = BoardOf[s]}) <= BoardCap[BoardOf[s]]
    /\ \A s, t \in A : PrincipalOf[f[t]] = PrincipalOf[f[s]] => s = t

Up == {s \in Seats \ astray : row[s].life \in Active}
TemplateOf == [s \in Seats |-> row[s].template]

(* The templates a request may record for its seat. *)
Written(op) ==
    {op.template} \cup (IF op.action = "re_role" THEN {Target[op.template]} ELSE {})

(* A request that is past its checks has a place: its seat can be active    *)
(* beside those that are, under every template it may record.               *)
Placed ==
    /\ Fit(Up, TemplateOf)
    /\ exec.pc \in Acting =>
         \A t \in Written(exec.op) :
           Fit(Up \cup ({exec.op.seat} \ astray), [TemplateOf EXCEPT ![exec.op.seat] = t])
    /\ exec.pc \in ReRoling => exec.op.action = "re_role"

(* Fewer seats fit where more do. *)
LEMMA FitSubset ==
    ASSUME NEW B \in SUBSET Seats, NEW A \in SUBSET B, NEW f, NEW h, Fit(B, f),
           \A s \in A : h[s] = f[s]
    PROVE  Fit(A, h)
<1>1. IsFiniteSet(B)
  BY FleetAssumption, FS_Subset
<1>2. ASSUME NEW X \in SUBSET B, NEW Y \in SUBSET X, NEW n \in Nat, Cardinality(X) <= n
      PROVE  Cardinality(Y) <= n
  <2>1. IsFiniteSet(X) /\ IsFiniteSet(Y)
    BY <1>1, FS_Subset
  <2>2. Cardinality(Y) <= Cardinality(X) /\ Cardinality(X) \in Nat /\ Cardinality(Y) \in Nat
    BY <2>1, FS_Subset, FS_CardinalityType
  <2> QED BY <1>2, <2>2
<1>3. Cardinality(A) <= HostCap
  BY <1>2, FleetAssumption DEF Fit
<1>4. ASSUME NEW s \in A
      PROVE  Cardinality({t \in A : BoardOf[t] = BoardOf[s]}) <= BoardCap[BoardOf[s]]
  <2>1. BoardCap[BoardOf[s]] \in Nat
    BY FleetAssumption
  <2>2. Cardinality({t \in B : BoardOf[t] = BoardOf[s]}) <= BoardCap[BoardOf[s]]
    BY DEF Fit
  <2>3. /\ {t \in B : BoardOf[t] = BoardOf[s]} \in SUBSET B
        /\ {t \in A : BoardOf[t] = BoardOf[s]} \in SUBSET {t \in B : BoardOf[t] = BoardOf[s]}
    OBVIOUS
  <2> HIDE DEF Fit
  <2> QED BY <1>2, <2>1, <2>2, <2>3
<1>5. \A s, t \in A : PrincipalOf[h[t]] = PrincipalOf[h[s]] => s = t
  BY DEF Fit
<1> QED BY <1>3, <1>4, <1>5 DEF Fit

(* The seats of an initial state fit. *)
LEMMA PlacedInit == Init => Placed
<1> SUFFICES ASSUME Init PROVE Placed
  OBVIOUS
<1>1. PICK running \in SUBSET Seats :
         /\ Cardinality(running) <= HostCap
         /\ \A s \in running :
              /\ Cardinality({t \in running : BoardOf[t] = BoardOf[s]}) <= BoardCap[BoardOf[s]]
              /\ \A t \in running : PrincipalOf[Home[t]] = PrincipalOf[Home[s]] => s = t
         /\ \A s \in Seats :
              /\ row[s].template = Home[s]
              /\ row[s].life \in IF s \in running THEN Active ELSE {"absent"}
  BY InitFacts
<1>2. Up = running
  BY <1>1 DEF Up, Active, Init
<1>3. \A s \in running : TemplateOf[s] = Home[s]
  BY <1>1 DEF TemplateOf
<1>4. Fit(Up, TemplateOf)
  <2>1. Fit(running, Home)
    BY <1>1 DEF Fit
  <2>2. Fit(running, TemplateOf)
    BY <1>3, <2>1, FitSubset
  <2> QED BY <1>2, <2>2
<1>5. exec.pc = "idle" /\ "idle" \notin Acting
  BY DEF Init, Idle, Acting
<1> QED BY <1>4, <1>5 DEF Placed, ReRoling, Acting

(* Steps that make no seat active and change no template. *)
LEMMA PlacedShrinks ==
    ASSUME Typed, Placed, UNCHANGED exec, astray \subseteq astray',
           \A x \in Seats : /\ row'[x].template = row[x].template
                            /\ row'[x].life \in Active => row[x].life \in Active
    PROVE  Placed'
<1>1. Up' \in SUBSET Up /\ Up \in SUBSET Seats /\ TemplateOf' = TemplateOf
  <2>1. Up' \in SUBSET Up /\ Up \in SUBSET Seats
    BY DEF Up
  <2>2. TemplateOf' = TemplateOf
    BY DEF TemplateOf
  <2> QED BY <2>1, <2>2
<1>2. Fit(Up', TemplateOf')
  BY <1>1, FitSubset DEF Placed
<1>3. ASSUME exec.pc \in Acting, NEW t \in Written(exec.op)
      PROVE  Fit(Up' \cup ({exec.op.seat} \ astray'), [TemplateOf' EXCEPT ![exec.op.seat] = t])
  <2>1. exec.op.seat \in Seats
    BY <1>3, ActingFacts
  <2>2. Fit(Up \cup ({exec.op.seat} \ astray), [TemplateOf EXCEPT ![exec.op.seat] = t])
    BY <1>3 DEF Placed
  <2>3. Up' \cup ({exec.op.seat} \ astray') \in SUBSET (Up \cup ({exec.op.seat} \ astray))
    BY <1>1
  <2>4. Up \cup ({exec.op.seat} \ astray) \in SUBSET Seats
    BY <1>1, <2>1
  <2> QED BY <1>1, <2>2, <2>3, <2>4, FitSubset
<1>4. Written(exec'.op) = Written(exec.op)
  BY DEF Written
<1> QED BY <1>2, <1>3, <1>4 DEF Placed

(* Steps of a request that write the row of its seat: under a template it   *)
(* may record, or without making it active.                                 *)
LEMMA PlacedStep ==
    ASSUME Typed, Placed, exec.pc \in Acting, exec'.op = exec.op, astray \subseteq astray',
           \A x \in Seats \ {exec.op.seat} : row'[x] = row[x],
           \/ row'[exec.op.seat].template \in Written(exec.op)
           \/ /\ row'[exec.op.seat].template = row[exec.op.seat].template
              /\ row'[exec.op.seat].life \in Active => row[exec.op.seat].life \in Active,
           exec'.pc \in ReRoling => exec.op.action = "re_role"
    PROVE  Placed'
<1> DEFINE s == exec.op.seat
           A == Up \cup ({s} \ astray)
           B == Up' \cup ({s} \ astray')
<1>1. s \in Seats
  BY ActingFacts
<1>2. A \in SUBSET Seats /\ B \in SUBSET A /\ Up' \in SUBSET A /\ Up \in SUBSET Seats
  BY <1>1 DEF Up
<1>3. \A t \in Written(exec.op) : Fit(A, [TemplateOf EXCEPT ![s] = t])
  BY DEF Placed
<1>4. \A x \in Seats \ {s} : TemplateOf'[x] = TemplateOf[x]
  BY DEF TemplateOf
<1>5. TemplateOf'[s] = row'[s].template /\ TemplateOf[s] = row[s].template
  BY <1>1 DEF TemplateOf
<1>6. Fit(Up', TemplateOf')
  <2>1. CASE row'[s].template \in Written(exec.op)
    <3> DEFINE f == [TemplateOf EXCEPT ![s] = row'[s].template]
    <3>1. Fit(A, f)
      BY <1>3, <2>1
    <3>2. \A x \in Up' : TemplateOf'[x] = f[x]
      BY <1>1, <1>2, <1>4, <1>5 DEF TemplateOf
    <3> HIDE DEF A, f
    <3> QED BY <1>2, <3>1, <3>2, FitSubset
  <2>2. CASE /\ row'[s].template = row[s].template
             /\ row'[s].life \in Active => row[s].life \in Active
    <3>1. Up' \in SUBSET Up
      BY <2>2 DEF Up
    <3>2. \A x \in Up' : TemplateOf'[x] = TemplateOf[x]
      BY <1>2, <1>4, <1>5, <2>2
    <3>3. Fit(Up, TemplateOf)
      BY DEF Placed
    <3> QED BY <1>2, <3>1, <3>2, <3>3, FitSubset
  <2> QED BY <2>1, <2>2
<1>7. ASSUME NEW t \in Written(exec.op) PROVE Fit(B, [TemplateOf' EXCEPT ![s] = t])
  <2> DEFINE f == [TemplateOf EXCEPT ![s] = t]
             h == [TemplateOf' EXCEPT ![s] = t]
  <2>1. Fit(A, f)
    BY <1>3
  <2>2. \A x \in B : h[x] = f[x]
    BY <1>1, <1>2, <1>4 DEF TemplateOf
  <2>3. SUFFICES Fit(B, h)
    OBVIOUS
  <2> HIDE DEF A, B, f, h
  <2> QED BY <1>2, <2>1, <2>2, FitSubset
<1>8. Written(exec'.op) = Written(exec.op)
  BY DEF Written
<1> QED BY <1>6, <1>7, <1>8 DEF Placed

(* The checks give a request its place: a start is below the caps and has   *)
(* its principal for itself, every other step is about a seat that is       *)
(* active already (or that ran behind the executor's back).                 *)
LEMMA PlacedCheck ==
    ASSUME Typed, Observed, Placed, Check
    PROVE  Placed'
<1> DEFINE s == exec.op.seat
           A == Up \cup ({s} \ astray)
<1>1. /\ UNCHANGED <<row, astray>> /\ exec'.op = exec.op /\ exec.op \in Operations /\ s \in Seats
      /\ row[s] \in Rows
  BY CheckFacts, ActingFacts DEF Check
<1>2. Fit(Up, TemplateOf) /\ Up \in SUBSET Seats
  BY DEF Placed, Up
<1>3. UNCHANGED <<Up, TemplateOf>>
  BY <1>1 DEF Up, TemplateOf
<1>4. CASE exec' \in Answered
  <2>1. exec'.pc = "finish" /\ "finish" \notin Acting
    BY <1>4 DEF Answered, Acting
  <2> QED BY <1>2, <1>3, <2>1 DEF Placed, ReRoling
<1>5. ASSUME exec'.pc = "save", ~Crowded(exec.op), exec.op.action = "start"
      PROVE  Placed'
  <2> DEFINE f == [TemplateOf EXCEPT ![s] = exec.op.template]
             all == {x \in Seats : row[x].life \in Active}
             near == {x \in {y \in Seats : BoardOf[y] = BoardOf[s]} : row[x].life \in Active}
  <2>1. /\ ~(Cardinality(all) >= HostCap) /\ ~(Cardinality(near) >= BoardCap[BoardOf[s]])
        /\ \A x \in Seats \ {s} : row[x].life \in Active =>
             PrincipalOf[row[x].template] # PrincipalOf[exec.op.template]
    BY <1>5 DEF Crowded, active_counts, principal_active_elsewhere, Active
  <2>2. ASSUME NEW X \in SUBSET Seats, NEW Y, Y \subseteq X \cup {s}, NEW n \in Nat,
               ~(Cardinality(X) >= n)
        PROVE  Cardinality(Y) <= n
    <3>1. IsFiniteSet(X) /\ IsFiniteSet(X \cup {s})
      BY FleetAssumption, FS_Subset, FS_AddElement
    <3>2. /\ Cardinality(X) \in Nat
          /\ Cardinality(X \cup {s}) \in {Cardinality(X), Cardinality(X) + 1}
      BY <3>1, FS_AddElement, FS_CardinalityType
    <3>3. IsFiniteSet(Y) /\ Cardinality(Y) <= Cardinality(X \cup {s})
      BY <2>2, <3>1, FS_Subset
    <3>4. Cardinality(Y) \in Nat
      BY <3>3, FS_CardinalityType
    <3> QED BY <2>2, <3>2, <3>3, <3>4
  <2>3. all \in SUBSET Seats /\ near \in SUBSET Seats /\ A \subseteq all \cup {s}
    BY DEF Up
  <2>4. Cardinality(A) <= HostCap
    BY <2>1, <2>2, <2>3, FleetAssumption
  <2>5. ASSUME NEW x \in A
        PROVE  Cardinality({t \in A : BoardOf[t] = BoardOf[x]}) <= BoardCap[BoardOf[x]]
    <3> DEFINE Y == {t \in A : BoardOf[t] = BoardOf[x]}
    <3>1. BoardCap[BoardOf[s]] \in Nat
      BY <1>1, FleetAssumption
    <3>2. CASE BoardOf[x] = BoardOf[s]
      <4>1. Y \subseteq near \cup {s}
        BY <3>2 DEF Up
      <4> HIDE DEF Y, near
      <4>2. Cardinality(Y) <= BoardCap[BoardOf[s]]
        BY <2>1, <2>2, <2>3, <3>1, <4>1
      <4> QED BY <3>2, <4>2 DEF Y
    <3>3. CASE BoardOf[x] # BoardOf[s]
      <4>1. x \in Up /\ Y = {t \in Up : BoardOf[t] = BoardOf[x]}
        BY <3>3
      <4> QED BY <1>2, <4>1 DEF Fit
    <3> QED BY <3>2, <3>3
  <2>6. ASSUME NEW x \in A, NEW y \in A, PrincipalOf[f[y]] = PrincipalOf[f[x]]
        PROVE  x = y
    <3>1. \A z \in A : z # s => /\ z \in Up /\ f[z] = TemplateOf[z] /\ TemplateOf[z] = row[z].template
                                 /\ row[z].life \in Active /\ z \in Seats
      BY <1>2 DEF TemplateOf, Up
    <3>2. f[s] = exec.op.template
      BY <1>1 DEF TemplateOf
    <3>3. CASE x # s /\ y # s
      BY <1>2, <2>6, <3>1, <3>3 DEF Fit
    <3> HIDE DEF f
    <3> QED BY <2>1, <2>6, <3>1, <3>2, <3>3
  <2>7. Fit(A, f)
    BY <2>4, <2>5, <2>6 DEF Fit
  <2>8. Written(exec.op) = {exec.op.template} /\ exec'.pc \notin ReRoling
    BY <1>5 DEF Written, ReRoling
  <2> HIDE DEF A, f
  <2>9. \A t \in Written(exec.op) : Fit(A, [TemplateOf EXCEPT ![s] = t])
    BY <2>7, <2>8 DEF f
  <2> QED BY <1>1, <1>2, <1>3, <2>8, <2>9 DEF Placed, A, Written
<1>6. ASSUME exec'.pc \in {"adopt", "drain", "stop"}, proc[s] # NoRef,
             row[s].life # "absent", row[s].template = exec.op.template,
             unit[s] = exec.op.template,
             \/ ~principal_active_elsewhere(PrincipalOf[Target[exec.op.template]], s)
             \/ exec.op.action # "re_role"
      PROVE  Placed'
  <2>1. A = Up
    <3>1. s \in astray \/ row[s].life # "stopped"
      BY <1>1, <1>6 DEF Observed, StoppedHasNoProcess
    <3>2. row[s].life \in Active \cup {"absent", "stopped"}
      BY <1>1 DEF Rows, Lifecycles
    <3> QED BY <1>1, <1>6, <3>1, <3>2 DEF Up
  <2>2. ASSUME NEW t \in Written(exec.op) PROVE Fit(A, [TemplateOf EXCEPT ![s] = t])
    <3> DEFINE f == [TemplateOf EXCEPT ![s] = t]
    <3>1. CASE t = exec.op.template
      <4>1. \A x \in Up : f[x] = TemplateOf[x]
        BY <1>1, <1>2, <1>6, <3>1 DEF TemplateOf
      <4> HIDE DEF f
      <4>2. Fit(Up, f)
        BY <1>2, <4>1, FitSubset
      <4> QED BY <2>1, <4>2 DEF f
    <3>2. CASE t # exec.op.template
      <4>1. \A x \in Seats \ {s} : row[x].life \in Active =>
              PrincipalOf[row[x].template] # PrincipalOf[t]
        BY <1>6, <2>2, <3>2 DEF Written, principal_active_elsewhere, Active
      <4>2. \A x \in Up : x # s => /\ f[x] = TemplateOf[x] /\ TemplateOf[x] = row[x].template
                                   /\ row[x].life \in Active /\ x \in Seats
        BY DEF TemplateOf, Up
      <4>3. f[s] = t
        BY <1>1 DEF TemplateOf
      <4> HIDE DEF f
      <4>4. \A x, y \in Up : PrincipalOf[f[y]] = PrincipalOf[f[x]] => x = y
        BY <1>2, <4>1, <4>2, <4>3 DEF Fit
      <4>5. Fit(Up, f)
        BY <1>2, <4>4 DEF Fit
      <4> QED BY <2>1, <4>5 DEF f
    <3> QED BY <3>1, <3>2
  <2>3. exec'.pc \notin ReRoling
    BY <1>6 DEF ReRoling
  <2>4. Written(exec'.op) = Written(exec.op)
    BY <1>1 DEF Written
  <2> QED BY <1>1, <1>2, <1>3, <2>2, <2>3, <2>4 DEF Placed
<1> QED BY <1>4, <1>5, <1>6, CheckFacts

(* The steps of a request stay within its place. *)
LEMMA PlacedActs ==
    ASSUME Typed, Observed, Placed, ExecutorActs
    PROVE  Placed'
<1> DEFINE s == exec.op.seat
           t == exec.op.template
<1>1. exec.pc \in Acting /\ exec'.op = exec.op
  BY ActsFacts
<1>2. /\ exec \in Request /\ s \in Seats /\ t \in Templates /\ Target[t] \in Templates
      /\ row \in [Seats -> Rows] /\ row[s] \in Rows
  BY <1>1, ActingFacts DEF Typed
<1>3. t \in Written(exec.op) /\ (exec.pc \in ReRoling => Target[t] \in Written(exec.op))
  BY DEF Written, Placed
<1>4. ASSUME NEW gen, NEW life, NEW ref, NEW template, save_seat(gen, life, ref, template)
      PROVE  /\ row'[s].template = template /\ row'[s].life = life
             /\ \A x \in Seats \ {s} : row'[x] = row[x]
  BY <1>2, <1>4 DEF save_seat, Rows
<1>5. CASE SaveStarting \/ Verify \/ Rollback \/ Drain \/ Stop
  <2>1. UNCHANGED astray /\ exec'.pc \notin ReRoling
    BY <1>2, <1>5 DEF SaveStarting, Verify, Rollback, Drain, Stop, Go, Answer, Request, ReRoling
  <2>2. \/ UNCHANGED row
        \/ \E gen, life, ref : save_seat(gen, life, ref, t)
    BY <1>5 DEF SaveStarting, Verify, Rollback, Drain, Stop
  <2>3. /\ \A x \in Seats \ {s} : row'[x] = row[x]
        /\ row'[s].template = t \/ row'[s] = row[s]
    BY <1>4, <2>2
  <2> QED BY <1>1, <1>3, <2>1, <2>3, PlacedStep
<1>6. CASE Launch
  <2>1. /\ UNCHANGED astray /\ exec'.pc \notin ReRoling
        /\ row'[s].template = row[s].template /\ row'[s].life = row[s].life
        /\ \A x \in Seats \ {s} : row'[x] = row[x]
    BY <1>2, <1>6 DEF Launch, Go, Request, Rows, ReRoling
  <2> QED BY <1>1, <2>1, PlacedStep
<1>7. CASE Adopt
  <2>1. UNCHANGED astray /\ exec'.pc \notin ReRoling
    BY <1>7 DEF Adopt, Answer, ReRoling
  <2>2. \/ UNCHANGED row
        \/ /\ row[s].life \in Active
           /\ save_seat(exec.gen + 1, "ready", exec.ref, row[s].template)
    BY <1>7 DEF Adopt
  <2>3. /\ \A x \in Seats \ {s} : row'[x] = row[x]
        /\ row'[s].template = row[s].template
        /\ row'[s].life \in Active => row[s].life \in Active
    BY <1>4, <2>2
  <2> QED BY <1>1, <2>1, <2>3, PlacedStep
<1>8. CASE Settle
  <2>1. astray \subseteq astray' /\ (exec'.pc \in ReRoling => exec.op.action = "re_role")
    BY <1>2, <1>8 DEF Settle, Go, Answer, Request, ReRoling
  <2>2. \/ UNCHANGED row
        \/ \E gen, life, ref : save_seat(gen, life, ref, t)
    BY <1>8 DEF Settle
  <2>3. /\ \A x \in Seats \ {s} : row'[x] = row[x]
        /\ row'[s].template = t \/ row'[s] = row[s]
    BY <1>4, <2>2
  <2> QED BY <1>1, <1>3, <2>1, <2>3, PlacedStep
<1>9. CASE Replace \/ Restart \/ InspectChanged
  <2>1. UNCHANGED <<row, astray>> /\ exec.pc \in ReRoling
    BY <1>9 DEF Replace, Restart, InspectChanged, ReRoling
  <2>2. exec.op.action = "re_role"
    BY <2>1 DEF Placed
  <2> QED BY <1>1, <2>1, <2>2, PlacedStep
<1>10. CASE SaveChanged
  <2>1. UNCHANGED astray /\ exec'.pc \notin ReRoling /\ exec.pc \in ReRoling
    BY <1>10 DEF SaveChanged, Answer, ReRoling
  <2>2. \E gen, life, ref : save_seat(gen, life, ref, Target[t])
    BY <1>10 DEF SaveChanged
  <2>3. row'[s].template = Target[t] /\ \A x \in Seats \ {s} : row'[x] = row[x]
    BY <1>4, <2>2
  <2> QED BY <1>1, <1>3, <2>1, <2>3, PlacedStep
<1> QED BY <1>5, <1>6, <1>7, <1>8, <1>9, <1>10 DEF ExecutorActs

(* Every step keeps the place of the request. *)
LEMMA PlacedNext == Typed /\ Observed /\ Placed /\ [Next]_vars => Placed'
<1> SUFFICES ASSUME Typed, Observed, Placed, [Next]_vars PROVE Placed'
  OBVIOUS
<1>1. CASE (\E op \in Operations : Reserve(op)) \/ Finish \/ ExecutorCrashes
  <2>1. UNCHANGED <<row, astray>> /\ exec'.pc \in {"check", "idle"}
    BY <1>1 DEF Reserve, Finish, ExecutorCrashes, Idle
  <2>2. UNCHANGED <<Up, TemplateOf>> /\ exec'.pc \notin Acting
    BY <2>1 DEF Up, TemplateOf, Acting
  <2> QED BY <2>1, <2>2 DEF Placed, ReRoling
<1>2. CASE Check
  BY <1>2, PlacedCheck
<1>3. CASE ExecutorActs
  BY <1>3, PlacedActs
<1>4. CASE OthersAct \/ UNCHANGED vars
  <2>1. UNCHANGED exec /\ astray \subseteq astray'
    BY <1>4 DEF OthersAct, ServiceExits, OperatorStarts, Observe, confirm_registry_ready,
                InspectLost, reconcile_unexpected_stop, vars
  <2>2. \A x \in Seats : /\ row'[x].template = row[x].template
                         /\ row'[x].life \in Active => row[x].life \in Active
    <3>1. CASE UNCHANGED row
      BY <3>1
    <3>2. CASE \E y \in Seats : confirm_registry_ready(y)
      BY <3>2 DEF confirm_registry_ready, Typed, Rows
    <3>3. CASE reconcile_unexpected_stop
      BY <3>3, ReconcileFacts DEF Active
    <3> QED BY <1>4, <3>1, <3>2, <3>3
            DEF OthersAct, ServiceExits, OperatorStarts, Observe, InspectLost, vars
  <2> QED BY <2>1, <2>2, PlacedShrinks
<1> QED BY <1>1, <1>2, <1>3, <1>4 DEF Next, ExecutorActs, OthersAct

(* The store never records more active seats than the host's and the        *)
(* boards' caps allow, nor two under one principal, although the checks and *)
(* the row they allow are separate commits.                                 *)
THEOREM CapsAlwaysHold == Spec => []CapsHold
<1>1. Placed => CapsHold
  <2> SUFFICES ASSUME Placed PROVE CapsHold
    OBVIOUS
  <2>1. Fit(Up, TemplateOf) /\ \A x \in Up : TemplateOf[x] = row[x].template
    BY DEF Placed, Up, TemplateOf
  <2> HIDE DEF Up
  <2>2. /\ Cardinality(Up) <= HostCap
        /\ \A x \in Up :
             /\ Cardinality({y \in Up : BoardOf[y] = BoardOf[x]}) <= BoardCap[BoardOf[x]]
             /\ \A y \in Up : PrincipalOf[row[y].template] = PrincipalOf[row[x].template] => x = y
    BY <2>1 DEF Fit
  <2>3. Up \in {{x \in Seats \ astray : row[x].life \in Active}}
    BY DEF Up
  <2> QED BY <2>2, <2>3, Zenon DEF CapsHold
<1> QED BY <1>1, TypedInit, TypedNext, ObservedInit, ObservedNext, PlacedInit, PlacedNext, PTL
        DEF Spec
==============================================================================
