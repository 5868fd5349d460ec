------------------------------ MODULE SeatProofs ------------------------------
(***************************************************************************)
(* Proofs about SeatRuntime, for any number of tickets, seats, faults and  *)
(* restarts.  A process and its worktrees are one half of the argument     *)
(* (Processes), the tickets it moves are the other (Claims); the seats     *)
(* move tickets only as TicketLease allows (MovesAllowed), so everything   *)
(* that TicketLeaseProofs shows holds beside them too.                     *)
(***************************************************************************)
EXTENDS SeatRuntime, TicketLeaseProofs, FiniteSetTheorems

Busy == {"claim", "setup", "run", "release", "clean"}

(* A process: typed, with a ticket while it deals with one; the outcome     *)
(* "submitted" is known only to the cleanup that follows.                   *)
ProcessOK(s) ==
    /\ s \in WorkerState
    /\ s.pc \in Busy => s.task \in Tickets
    /\ s.submitted => s.pc = "clean"

Ready(s) == ProcessOK(s) /\ ~s.submitted

TreesOK == tree \in [Workers -> [Tickets -> {"none", "clean", "dirty", "left"}]]

(* The cleanup after a submission meets no changes but submitted ones: the  *)
(* strengthening that makes UnsubmittedWorkKept provable.                   *)
Processes ==
    /\ worker \in [Workers -> WorkerState]
    /\ \A w \in Workers : ProcessOK(worker[w])
    /\ TreesOK /\ faults \in Nat /\ restarts \in Nat
    /\ \A w \in Workers : worker[w].submitted => tree[w][worker[w].task] # "dirty"

KeepsDirty ==
    \A w \in Workers, t \in Tickets : tree[w][t] = "dirty" => tree'[w][t] # "none"

(* What a reply tells: the ticket is as it was or has made the move, and    *)
(* only lost and late replies are faults.                                   *)
LEMMA CallFacts ==
    ASSUME NEW reply \in Replies, NEW t, NEW moves, faults \in Nat, Call(reply, t, moves)
    PROVE  /\ faults' \in Nat
           /\ faults' = 0 => faults = 0 /\ reply \in {"ok", "refused"}
           /\ \/ UNCHANGED ticket
              \/ /\ reply \in {"ok", "late"}
                 /\ \E y \in moves : ticket' = [ticket EXCEPT ![t] = y]
           /\ reply = "ok" => \E y \in moves : ticket' = [ticket EXCEPT ![t] = y]
  BY DEF Call, Replies

(* A read changes no ticket, and one that fails is a fault. *)
LEMMA ReadFacts ==
    ASSUME NEW ok \in BOOLEAN, faults \in Nat, Read(ok)
    PROVE  /\ faults' \in Nat /\ UNCHANGED ticket
           /\ faults' = 0 => faults = 0 /\ ok
  BY DEF Read, Call

(* A process that moves on, its worktrees and those of the others untouched *)
(* or changed for its ticket only, keeps the invariant.                     *)
LEMMA GoFacts ==
    ASSUME Processes, NEW w \in Workers, NEW s, ProcessOK(s), Go(w, s),
           TreesOK', faults' \in Nat, restarts' \in Nat,
           \A v \in Workers \ {w} : tree'[v] = tree[v],
           s.submitted => tree'[w][s.task] # "dirty"
    PROVE  Processes'
<1>1. s \in WorkerState
  BY DEF ProcessOK
<1>2. worker' \in [Workers -> WorkerState] /\ worker'[w] = s
      /\ \A v \in Workers \ {w} : worker'[v] = worker[v]
  BY <1>1 DEF Go, Processes
<1> QED BY <1>2 DEF Processes

(* The common case: a step of a process that has just not submitted and     *)
(* leaves its worktrees alone.                                              *)
LEMMA PlainGo ==
    ASSUME Processes, NEW w \in Workers, NEW s, Ready(s), Go(w, s),
           UNCHANGED tree, faults' \in Nat, restarts' \in Nat
    PROVE  Processes' /\ KeepsDirty
<1>1. TreesOK' /\ \A v \in Workers \ {w} : tree'[v] = tree[v]
  BY DEF Processes, TreesOK
<1>2. KeepsDirty
  BY DEF KeepsDirty
<1> QED BY <1>1, <1>2, GoFacts DEF Ready

(* The same, seen from the state that is reached. *)
LEMMA Arrived ==
    ASSUME Processes, NEW w \in Workers, NEW s, Ready(s), Go(w, s)
    PROVE  Go(w, worker'[w]) /\ Ready(worker'[w])
  BY DEF Go, Processes, Ready

(* A process that is not running is at a proper step. *)
LEMMA StoppedOK == Ready(StoppedWorker)
  BY DEF StoppedWorker, Ready, ProcessOK, WorkerState, Busy

(* So is one that is done with its ticket, wherever it continues. *)
LEMMA DoneOK ==
    ASSUME NEW s \in WorkerState
    PROVE  Ready(DoneWithTask(s))
  BY DEF DoneWithTask, Ready, ProcessOK, WorkerState, Busy

(* Start, the sweep of claims that an earlier process left, and giving them back. *)
LEMMA StartSteps ==
    ASSUME Processes, NEW w \in Workers,
           WorkerStart(w) \/ _startup_sweep(w) \/ GiveBack(w)
    PROVE  Processes' /\ KeepsDirty
<1>00. worker \in [Workers -> WorkerState]
  BY DEF Processes
<1>0. worker[w] \in WorkerState /\ faults \in Nat /\ restarts \in Nat
      /\ ProcessOK(worker[w])
  BY DEF Processes
<1>1. CASE WorkerStart(w)
  <2>1. Ready([StoppedWorker EXCEPT !.pc = "sweep", !.startup = TRUE])
    BY DEF StoppedWorker, Ready, ProcessOK, WorkerState, Busy
  <2> QED BY <1>0, <1>1, <2>1, PlainGo DEF WorkerStart
<1>2. CASE _startup_sweep(w)
  <2>0. ~worker[w].submitted
    BY <1>0, <1>2 DEF _startup_sweep, ProcessOK, Busy
  <2>1. PICK ok \in BOOLEAN : Read(ok)
    BY <1>2 DEF _startup_sweep
  <2>2. Go(w, worker'[w]) /\ Ready(worker'[w])
    <3>1. CASE Go(w, [worker[w] EXCEPT !.pc = "trees"])
      <4>1. Ready([worker[w] EXCEPT !.pc = "trees"])
        BY <1>0, <2>0 DEF Ready, ProcessOK, WorkerState, Busy
      <4> QED BY <3>1, <4>1, Arrived
    <3>2. CASE \E t \in Tickets : Go(w, [worker[w] EXCEPT !.pc = "setup", !.task = t])
      <4>1. PICK t \in Tickets : Go(w, [worker[w] EXCEPT !.pc = "setup", !.task = t])
        BY <3>2
      <4>2. Ready([worker[w] EXCEPT !.pc = "setup", !.task = t])
        BY <1>0, <2>0 DEF Ready, ProcessOK, WorkerState, Busy
      <4> QED BY <4>1, <4>2, Arrived
    <3>3. CASE Go(w, [worker[w] EXCEPT !.pc = "giveback", !.todo = JoinedClaims(w)])
      <4>1. Ready([worker[w] EXCEPT !.pc = "giveback", !.todo = JoinedClaims(w)])
        BY <1>0, <2>0 DEF Ready, ProcessOK, WorkerState, Busy, JoinedClaims, OwnClaims
      <4> QED BY <3>3, <4>1, Arrived
    <3>4. CASE \E pc \in {"trees", "loop"} : Go(w, [worker[w] EXCEPT !.pc = pc, !.startup = pc = "trees"])
      <4>1. PICK pc \in {"trees", "loop"} : Go(w, [worker[w] EXCEPT !.pc = pc, !.startup = pc = "trees"])
        BY <3>4
      <4>2. Ready([worker[w] EXCEPT !.pc = pc, !.startup = pc = "trees"])
        BY <1>0, <2>0 DEF Ready, ProcessOK, WorkerState, Busy
      <4> QED BY <4>1, <4>2, Arrived
    <3> QED BY <1>2, <3>1, <3>2, <3>3, <3>4 DEF _startup_sweep
  <2> QED BY <1>0, <1>2, <2>1, <2>2, ReadFacts, PlainGo DEF _startup_sweep
<1>3. CASE GiveBack(w)
  <2>1. Go(w, worker'[w]) /\ Ready(worker'[w])
    BY <1>00, <1>0, <1>3 DEF Go, GiveBack, Ready, ProcessOK, WorkerState, Busy, Processes
  <2>2. faults' \in Nat
    BY <1>0, <1>3, CallFacts DEF GiveBack
  <2> QED BY <1>0, <1>3, <2>1, <2>2, PlainGo DEF GiveBack
<1> QED BY <1>1, <1>2, <1>3

(* The wait, the choice among the candidates and the claim. *)
LEMMA LoopSteps ==
    ASSUME Processes, NEW w \in Workers,
           EnterWait(w) \/ WaitReturns(w) \/ Consider(w) \/ ClaimNext(w)
    PROVE  Processes' /\ KeepsDirty
<1>00. worker \in [Workers -> WorkerState]
  BY DEF Processes
<1>0. worker[w] \in WorkerState /\ faults \in Nat /\ restarts \in Nat
      /\ ProcessOK(worker[w])
  BY DEF Processes
<1>1. CASE EnterWait(w)
  <2>0. ~worker[w].submitted
    BY <1>0, <1>1 DEF EnterWait, ProcessOK, Busy
  <2>1. Go(w, worker'[w]) /\ Ready(worker'[w])
    <3>1. CASE Go(w, StoppedWorker)
      BY <3>1, StoppedOK, Arrived
    <3>2. CASE Go(w, [worker[w] EXCEPT !.pc = "wait", !.held = JoinedClaims(w)])
      <4>1. Ready([worker[w] EXCEPT !.pc = "wait", !.held = JoinedClaims(w)])
        BY <1>0, <2>0 DEF Ready, ProcessOK, WorkerState, Busy, JoinedClaims, OwnClaims
      <4> QED BY <3>2, <4>1, Arrived
    <3> QED BY <1>1, <3>1, <3>2 DEF EnterWait
  <2>2. faults' \in Nat
    BY <1>0, <1>1, ReadFacts DEF EnterWait
  <2> QED BY <1>0, <1>1, <2>1, <2>2, PlainGo DEF EnterWait
<1>2. CASE WaitReturns(w)
  <2>0. ~worker[w].submitted
    BY <1>0, <1>2 DEF WaitReturns, ProcessOK, Busy
  <2>1. Go(w, worker'[w]) /\ Ready(worker'[w])
    <3>1. CASE Go(w, StoppedWorker)
      BY <3>1, StoppedOK, Arrived
    <3>2. CASE \E c \in SUBSET Tickets : Go(w, [worker[w] EXCEPT !.held = {}, !.cand = c, !.pc = IF c = {} THEN "loop" ELSE "choose"])
      <4>1. PICK c \in SUBSET Tickets : Go(w, [worker[w] EXCEPT !.held = {}, !.cand = c, !.pc = IF c = {} THEN "loop" ELSE "choose"])
        BY <3>2
      <4>2. Ready([worker[w] EXCEPT !.held = {}, !.cand = c, !.pc = IF c = {} THEN "loop" ELSE "choose"])
        BY <1>0, <2>0 DEF Ready, ProcessOK, WorkerState, Busy
      <4> QED BY <4>1, <4>2, Arrived
    <3> QED BY <1>2, <3>1, <3>2 DEF WaitReturns
  <2>2. faults' \in Nat
    BY <1>0, <1>2, ReadFacts DEF WaitReturns
  <2> QED BY <1>0, <1>2, <2>1, <2>2, PlainGo DEF WaitReturns
<1>3. CASE Consider(w)
  <2>0. ~worker[w].submitted
    BY <1>0, <1>3 DEF Consider, ProcessOK, Busy
  <2>1. Go(w, worker'[w]) /\ Ready(worker'[w])
    <3>1. CASE Go(w, [worker[w] EXCEPT !.pc = "loop", !.cand = {}, !.task = NoTicket])
      <4>1. Ready([worker[w] EXCEPT !.pc = "loop", !.cand = {}, !.task = NoTicket])
        BY <1>0, <2>0 DEF Ready, ProcessOK, WorkerState, Busy
      <4> QED BY <3>1, <4>1, Arrived
    <3>2. CASE Go(w, [[worker[w] EXCEPT !.pc = "loop", !.cand = {}, !.task = NoTicket] EXCEPT !.active = NoTicket])
      <4>1. Ready([[worker[w] EXCEPT !.pc = "loop", !.cand = {}, !.task = NoTicket] EXCEPT !.active = NoTicket])
        BY <1>0, <2>0 DEF Ready, ProcessOK, WorkerState, Busy
      <4> QED BY <3>2, <4>1, Arrived
    <3>3. CASE \E t \in worker[w].cand : Go(w, [worker[w] EXCEPT !.pc = "claim", !.task = t, !.active = NoTicket])
      <4>1. PICK t \in worker[w].cand : Go(w, [worker[w] EXCEPT !.pc = "claim", !.task = t, !.active = NoTicket])
        BY <3>3
      <4>2. Ready([worker[w] EXCEPT !.pc = "claim", !.task = t, !.active = NoTicket])
        BY <1>0, <2>0 DEF Ready, ProcessOK, WorkerState, Busy
      <4> QED BY <4>1, <4>2, Arrived
    <3> QED BY <1>3, <3>1, <3>2, <3>3 DEF Consider
  <2>2. faults' \in Nat
    BY <1>0, <1>3, ReadFacts DEF Consider
  <2> QED BY <1>0, <1>3, <2>1, <2>2, PlainGo DEF Consider
<1>4. CASE ClaimNext(w)
  <2>0. ~worker[w].submitted /\ worker[w].task \in Tickets
    BY <1>0, <1>4 DEF ClaimNext, ProcessOK, Busy
  <2>1. Go(w, worker'[w]) /\ Ready(worker'[w])
    <3>1. CASE Go(w, [worker[w] EXCEPT !.pc = "setup", !.cand = {}])
      <4>1. Ready([worker[w] EXCEPT !.pc = "setup", !.cand = {}])
        BY <1>0, <2>0 DEF Ready, ProcessOK, WorkerState, Busy
      <4> QED BY <3>1, <4>1, Arrived
    <3>2. CASE Go(w, [worker[w] EXCEPT !.pc = "choose", !.task = NoTicket, !.cand = @ \ {worker[w].task}])
      <4>1. Ready([worker[w] EXCEPT !.pc = "choose", !.task = NoTicket, !.cand = @ \ {worker[w].task}])
        BY <1>0, <2>0 DEF Ready, ProcessOK, WorkerState, Busy
      <4> QED BY <3>2, <4>1, Arrived
    <3> QED BY <1>4, <3>1, <3>2 DEF ClaimNext
  <2>2. faults' \in Nat
    BY <1>0, <1>4, CallFacts DEF ClaimNext
  <2> QED BY <1>0, <1>4, <2>1, <2>2, PlainGo DEF ClaimNext
<1> QED BY <1>1, <1>2, <1>3, <1>4

(* The end of the work on a ticket, a crash and a stop signal. *)
LEMMA StopSteps ==
    ASSUME Processes, NEW w \in Workers,
           StopWorking(w) \/ _release(w) \/ WorkerStops(w)
    PROVE  Processes' /\ KeepsDirty
<1>00. worker \in [Workers -> WorkerState]
  BY DEF Processes
<1>0. worker[w] \in WorkerState /\ faults \in Nat /\ restarts \in Nat
      /\ ProcessOK(worker[w]) /\ TreesOK
  BY DEF Processes
<1>1. CASE StopWorking(w)
  <2>1. Go(w, worker'[w]) /\ Ready(worker'[w])
    BY <1>00, <1>0, <1>1 DEF Go, StopWorking, Ready, ProcessOK, WorkerState, Busy
  <2> QED BY <1>0, <1>1, <2>1, PlainGo DEF StopWorking
<1>2. CASE _release(w)
  <2>1. Go(w, worker'[w]) /\ Ready(worker'[w])
    BY <1>00, <1>0, <1>2, DoneOK DEF Go, _release, Ready, ProcessOK, WorkerState, Busy
  <2>2. faults' \in Nat
    BY <1>0, <1>2, CallFacts DEF _release
  <2> QED BY <1>0, <1>2, <2>1, <2>2, PlainGo DEF _release
<1>3. CASE WorkerStops(w) /\ Go(w, StoppedWorker)
  BY <1>0, <1>3, StoppedOK, PlainGo DEF WorkerStops
<1>4. CASE WorkerStops(w) /\ Go(w, [worker[w] EXCEPT !.stop = TRUE])
  <2> DEFINE s == [worker[w] EXCEPT !.stop = TRUE]
  <2>1. ProcessOK(s) /\ s.submitted = worker[w].submitted /\ s.task = worker[w].task
    BY <1>0 DEF ProcessOK, WorkerState
  <2>2. UNCHANGED <<tree, faults>> /\ restarts' \in Nat /\ Go(w, s)
    BY <1>0, <1>4 DEF WorkerStops
  <2>3. TreesOK' /\ KeepsDirty /\ \A v \in Workers \ {w} : tree'[v] = tree[v]
    BY <1>0, <2>2 DEF TreesOK, KeepsDirty
  <2>4. s.submitted => tree'[w][s.task] # "dirty"
    BY <2>1, <2>2 DEF Processes
  <2> HIDE DEF s
  <2> QED BY <1>0, <2>1, <2>2, <2>3, <2>4, GoFacts
<1> QED BY <1>1, <1>2, <1>3, <1>4 DEF WorkerStops

(* The worktrees of one seat change and keep what was not submitted. *)
LEMMA TreeFacts ==
    ASSUME TreesOK, NEW w \in Workers,
           NEW f \in [Tickets -> {"none", "clean", "dirty", "left"}],
           tree' = [tree EXCEPT ![w] = f],
           \A t \in Tickets : tree[w][t] = "dirty" => f[t] # "none"
    PROVE  /\ TreesOK' /\ KeepsDirty /\ tree'[w] = f
           /\ \A v \in Workers \ {w} : tree'[v] = tree[v]
  BY DEF TreesOK, KeepsDirty

(* The steps that touch a worktree: only the cleanup and the sweep remove   *)
(* one, neither with changes that were not submitted.                       *)
LEMMA TreeSteps ==
    ASSUME TypeOK, Processes, NEW w \in Workers,
           _sweep(w) \/ _prepare(w) \/ Edit(w) \/ submit_work(w) \/ _cleanup(w)
    PROVE  Processes' /\ KeepsDirty
<1>0. worker[w] \in WorkerState /\ faults \in Nat /\ restarts \in Nat
      /\ ProcessOK(worker[w]) /\ TreesOK
      /\ (worker[w].submitted => tree[w][worker[w].task] # "dirty")
  BY DEF Processes
<1>1. CASE _sweep(w)
  <2> DEFINE s == [worker[w] EXCEPT !.pc = "loop", !.startup = FALSE]
  <2>1. Ready(s) /\ Go(w, s)
    BY <1>0, <1>1 DEF _sweep, Ready, ProcessOK, WorkerState, Busy
  <2>2. faults' \in Nat /\ restarts' \in Nat
    BY <1>0, <1>1, ReadFacts DEF _sweep
  <2>3. TreesOK' /\ KeepsDirty /\ \A v \in Workers \ {w} : tree'[v] = tree[v]
    <3> DEFINE f == [t \in Tickets |-> IF t \notin OwnClaims(w) /\ tree[w][t] = "clean"
                                         THEN "none" ELSE tree[w][t]]
    <3>1. f \in [Tickets -> {"none", "clean", "dirty", "left"}]
          /\ \A t \in Tickets : tree[w][t] = "dirty" => f[t] # "none"
      BY <1>0 DEF TreesOK
    <3>2. CASE tree' = [tree EXCEPT ![w] = f]
      <4> HIDE DEF f
      <4> QED BY <1>0, <3>1, <3>2, TreeFacts
    <3>3. CASE UNCHANGED tree
      BY <1>0, <3>3 DEF TreesOK, KeepsDirty
    <3> QED BY <1>0, <1>1, <3>2, <3>3 DEF _sweep, TreesOK
  <2> HIDE DEF s
  <2> QED BY <2>1, <2>2, <2>3, GoFacts DEF Ready
<1>2. CASE _prepare(w)
  <2>0. ~worker[w].submitted /\ worker[w].task \in Tickets
    BY <1>0, <1>2 DEF _prepare, ProcessOK, Busy
  <2>1. Go(w, worker'[w]) /\ Ready(worker'[w])
    <3>1. CASE Go(w, [worker[w] EXCEPT !.pc = "run", !.active = worker[w].task,
                                       !.session = TRUE])
      <4>1. Ready([worker[w] EXCEPT !.pc = "run", !.active = worker[w].task,
                                    !.session = TRUE])
        BY <1>0, <2>0 DEF Ready, ProcessOK, WorkerState, Busy
      <4> QED BY <3>1, <4>1, Arrived
    <3>2. CASE \E t \in {worker[w].task, NoTicket} :
                 Go(w, [worker[w] EXCEPT !.pc = "release", !.active = t])
      <4>1. PICK t \in {worker[w].task, NoTicket} :
              Go(w, [worker[w] EXCEPT !.pc = "release", !.active = t])
        BY <3>2
      <4>2. Ready([worker[w] EXCEPT !.pc = "release", !.active = t])
        BY <1>0, <2>0 DEF Ready, ProcessOK, WorkerState, Busy
      <4> QED BY <4>1, <4>2, Arrived
    <3> QED BY <1>2, <3>1, <3>2 DEF _prepare
  <2>2. faults' \in Nat /\ restarts' \in Nat
    BY <1>0, <1>2, ReadFacts DEF _prepare
  <2>3. TreesOK' /\ KeepsDirty /\ \A v \in Workers \ {w} : tree'[v] = tree[v]
    <3> DEFINE f == [tree[w] EXCEPT ![worker[w].task] = IF @ = "none" THEN "clean" ELSE @]
    <3>1. f \in [Tickets -> {"none", "clean", "dirty", "left"}]
          /\ \A t \in Tickets : tree[w][t] = "dirty" => f[t] # "none"
      BY <1>0, <2>0 DEF TreesOK
    <3>2. CASE tree' = [tree EXCEPT ![w] = f]
      <4> HIDE DEF f
      <4> QED BY <1>0, <3>1, <3>2, TreeFacts
    <3>3. CASE UNCHANGED tree
      BY <1>0, <3>3 DEF TreesOK, KeepsDirty
    <3> QED BY <1>0, <1>2, <3>2, <3>3 DEF _prepare, TreesOK
  <2> QED BY <2>1, <2>2, <2>3, GoFacts DEF Ready
<1>3. CASE Edit(w)
  <2>1. PICK state \in {"clean", "dirty"} :
          tree' = [tree EXCEPT ![w][worker[w].task] = state]
    BY <1>3 DEF Edit
  <2>2. worker[w].task \in Tickets /\ ~worker[w].submitted
    BY <1>0, <1>3 DEF Edit, ProcessOK, Busy
  <2>3. TreesOK' /\ KeepsDirty /\ \A v \in Workers \ {w} : tree'[v] = tree[v]
    BY <1>0, <2>1, <2>2 DEF TreesOK, KeepsDirty
  <2> QED BY <1>3, <2>2, <2>3 DEF Edit, Processes
<1>4. CASE submit_work(w)
  <2>0. worker[w].task \in Tickets /\ ~worker[w].submitted
    BY <1>0, <1>4 DEF submit_work, ProcessOK, Busy
  <2> DEFINE t == worker[w].task
             done == [worker[w] EXCEPT !.pc = "clean", !.active = NoTicket,
                                       !.submitted = TRUE]
             back == [worker[w] EXCEPT !.pc = "release"]
  <2>1. PICK reply \in Replies :
          /\ Call(reply, t, SubmitBy(w, t))
          /\ tree' = [tree EXCEPT ![w][t] = IF ticket'[t] # ticket[t] /\ @ = "dirty"
                                                THEN "left" ELSE @]
          /\ Go(w, IF reply = "ok" THEN done ELSE back)
    BY <1>4 DEF submit_work
  <2>2. ProcessOK(done) /\ done.task = t /\ Ready(back)
    BY <1>0, <2>0 DEF Ready, ProcessOK, WorkerState, Busy
  <2>3. faults' \in Nat /\ restarts' \in Nat
    BY <1>0, <1>4, <2>1, CallFacts DEF submit_work
  <2>4. TreesOK' /\ KeepsDirty /\ \A v \in Workers \ {w} : tree'[v] = tree[v]
    BY <1>0, <2>0, <2>1 DEF TreesOK, KeepsDirty
  <2>5. CASE reply = "ok"
    <3>1. PICK y \in SubmitBy(w, t) : ticket' = [ticket EXCEPT ![t] = y]
      BY <1>0, <2>1, <2>5, CallFacts
    <3>2. tree[w][t] = "dirty" => ticket'[t] # ticket[t]
      BY <2>0, <3>1 DEF TypeOK, Ticket, SubmitBy, Submit, Unheld, If, Working
    <3>3. tree'[w][t] # "dirty"
      BY <1>0, <2>0, <2>1, <3>2 DEF TreesOK
    <3> HIDE DEF t, done, back
    <3> QED BY <2>1, <2>2, <2>3, <2>4, <2>5, <3>3, GoFacts
  <2>6. CASE reply # "ok"
    <3> HIDE DEF t, done, back
    <3> QED BY <2>1, <2>2, <2>3, <2>4, <2>6, GoFacts DEF Ready
  <2> QED BY <2>5, <2>6
<1>5. CASE _cleanup(w)
  <2>1. Ready(DoneWithTask(worker[w])) /\ Go(w, DoneWithTask(worker[w]))
    BY <1>0, <1>5, DoneOK DEF _cleanup
  <2>2. faults' \in Nat /\ restarts' \in Nat /\ worker[w].task \in Tickets
    BY <1>0, <1>5, ReadFacts DEF _cleanup, ProcessOK, Busy
  <2>3. TreesOK' /\ KeepsDirty /\ \A v \in Workers \ {w} : tree'[v] = tree[v]
    <3> DEFINE f == [tree[w] EXCEPT ![worker[w].task] = "none"]
    <3>1. CASE tree' = [tree EXCEPT ![w] = f]
               /\ (tree[w][worker[w].task] = "clean" \/ worker[w].submitted)
      <4>1. f \in [Tickets -> {"none", "clean", "dirty", "left"}]
            /\ \A t \in Tickets : tree[w][t] = "dirty" => f[t] # "none"
        BY <1>0, <2>2, <3>1 DEF TreesOK
      <4> HIDE DEF f
      <4> QED BY <1>0, <3>1, <4>1, TreeFacts
    <3>2. CASE UNCHANGED tree
      BY <1>0, <3>2 DEF TreesOK, KeepsDirty
    <3> QED BY <1>0, <1>5, <3>1, <3>2 DEF _cleanup, TreesOK
  <2> QED BY <2>1, <2>2, <2>3, GoFacts DEF Ready
<1> QED BY <1>1, <1>2, <1>3, <1>4, <1>5

-----------------------------------------------------------------------------
(* The tickets. *)

(* A worker's claims are "claimed" (it never starts a ticket), and while no *)
(* call has failed it has at most one, none when it is about to claim.      *)
Claims ==
    /\ \A w \in Workers, t \in Tickets :
         ticket[t].holder = w => ticket[t].status = "claimed"
    /\ faults = 0 => \A w \in Workers :
         /\ \A t, u \in Tickets : ticket[t].holder = w /\ ticket[u].holder = w => t = u
         /\ worker[w].pc = "claim" => \A t \in Tickets : ticket[t].holder # w

(* No worker begins to claim unless it holds nothing; faults only grow. *)
Cautious ==
    /\ faults' = 0 => faults = 0
    /\ \A w \in Workers :
         faults' = 0 /\ worker'[w].pc = "claim" =>
           worker[w].pc = "claim" \/ \A t \in Tickets : ticket[t].holder # w

(* A step that moves no ticket. *)
LEMMA NoMove ==
    ASSUME Claims, Cautious, UNCHANGED ticket
    PROVE  Claims' /\ [Next]_ticket
  BY DEF Claims, Cautious

(* One ticket makes a move that TicketLease allows and gives no worker a claim. *)
LEMMA QuietMove ==
    ASSUME IInv, Claims, Cautious, NEW t \in Tickets, NEW y \in Moves(ticket[t]),
           ticket' = [ticket EXCEPT ![t] = y],
           y.holder \in Workers => y.holder = ticket[t].holder /\ y.status = ticket[t].status
    PROVE  Claims' /\ Next
<1>1. ticket'[t] = y /\ \A u \in Tickets \ {t} : ticket'[u] = ticket[u]
  BY DEF IInv, TypeOK
<1>2. \A w \in Workers, u \in Tickets :
        ticket'[u].holder = w => ticket[u].holder = w /\ ticket'[u].status = ticket[u].status
  BY <1>1
<1>3. \A u \in Tickets : ticket'[u] \in Moves(ticket[u])
  BY <1>1 DEF Moves
<1>4. ticket' \in [Tickets -> UNION {Moves(ticket[u]) : u \in Tickets}]
  <2>1. ticket' = [u \in Tickets |-> ticket'[u]]
    BY DEF IInv, TypeOK
  <2> QED BY <1>3, <2>1
<1>5. Claims'
  BY <1>2 DEF Claims, Cautious
<1> QED BY <1>3, <1>4, <1>5 DEF Next

(* The moves that leave nobody, or nobody new, with the ticket. *)
LEMMA QuietMoves ==
    ASSUME IInv, NEW t \in Tickets,
           NEW y \in Create(ticket[t]) \cup Lapse(ticket[t]) \cup Release(ticket[t])
                  \cup Submit(ticket[t]) \cup ReviewClaim(ticket[t])
                  \cup ReviewLapse(ticket[t]) \cup ReviewEnd(ticket[t])
                  \cup Approve(ticket[t]) \cup Reject(ticket[t]) \cup Cancel(ticket[t])
                  \cup AskHuman(ticket[t]) \cup Resolve(ticket[t])
    PROVE  /\ y \in Moves(ticket[t])
           /\ y.holder \in Agents =>
                y.holder = ticket[t].holder /\ y.status = ticket[t].status
<1>1. y \in Moves(ticket[t])
  BY DEF Moves
<1>2. ticket[t] \in Ticket
  BY DEF IInv, TypeOK
<1>3. CASE y \in Create(ticket[t]) \cup Release(ticket[t]) \cup Submit(ticket[t])
                  \cup Approve(ticket[t]) \cup Reject(ticket[t]) \cup Cancel(ticket[t])
                  \cup AskHuman(ticket[t]) \cup Resolve(ticket[t])
  <2>1. y.holder = NoAgent
    <3>1. CASE y \in Approve(ticket[t])
      <4>1. PICK a \in Judges(ticket[t]) :
              y = [Unheld("closed") EXCEPT !.author = ticket[t].author, !.approver = a]
        BY <3>1 DEF Approve, If
      <4> QED BY <4>1 DEF Unheld
    <3>2. CASE y \in Create(ticket[t]) \cup Release(ticket[t]) \cup Submit(ticket[t])
                      \cup Reject(ticket[t]) \cup Cancel(ticket[t]) \cup AskHuman(ticket[t])
                      \cup Resolve(ticket[t])
      BY <3>2 DEF Create, Release, Submit, Reject, Cancel, AskHuman, Resolve, Unheld, If
    <3> QED BY <1>3, <3>1, <3>2
  <2> QED BY <1>1, <2>1, TicketLeaseAssumption
<1>4. CASE y \in Lapse(ticket[t]) \cup ReviewClaim(ticket[t]) \cup ReviewLapse(ticket[t])
                  \cup ReviewEnd(ticket[t])
  <2>1. y.holder = ticket[t].holder /\ y.status = ticket[t].status
    BY <1>2, <1>4 DEF Lapse, ReviewClaim, ReviewLapse, ReviewEnd, If, Ticket
  <2> QED BY <1>1, <2>1
<1> QED BY <1>3, <1>4

(* A process that goes somewhere else than to a claim. *)
LEMMA GoElsewhere ==
    ASSUME worker \in [Workers -> WorkerState], NEW w \in Workers, NEW s, Go(w, s),
           s.pc # "claim"
    PROVE  worker'[w].pc # "claim" /\ \A v \in Workers \ {w} : worker'[v] = worker[v]
  BY DEF Go

(* Steps of a process that move no ticket. *)
LEMMA ProcessMoves ==
    ASSUME IInv, Processes, Claims, NEW w \in Workers,
           \/ WorkerStart(w) \/ _startup_sweep(w) \/ _sweep(w) \/ EnterWait(w)
           \/ WaitReturns(w) \/ Consider(w) \/ _prepare(w) \/ Edit(w) \/ StopWorking(w)
           \/ _cleanup(w) \/ WorkerStops(w)
    PROVE  Claims' /\ [Next]_ticket
<1>0. /\ worker \in [Workers -> WorkerState] /\ worker[w] \in WorkerState
      /\ faults \in Nat
  BY DEF Processes
<1>1. CASE _startup_sweep(w) \/ _sweep(w) \/ _prepare(w)
  <2>1. PICK ok \in BOOLEAN : Read(ok)
    BY <1>1 DEF _startup_sweep, _sweep, _prepare
  <2>2. worker'[w].pc # "claim" /\ \A v \in Workers \ {w} : worker'[v] = worker[v]
    <3>1. CASE _startup_sweep(w)
      <4>1. CASE Go(w, [worker[w] EXCEPT !.pc = "trees"])
        <5>2. [worker[w] EXCEPT !.pc = "trees"].pc # "claim"
          BY <1>0 DEF WorkerState, StoppedWorker
        <5> QED BY <1>0, <4>1, <5>2, GoElsewhere
      <4>2. CASE \E t \in Tickets : Go(w, [worker[w] EXCEPT !.pc = "setup", !.task = t])
        <5>1. PICK t \in Tickets : Go(w, [worker[w] EXCEPT !.pc = "setup", !.task = t])
          BY <4>2
        <5>2. [worker[w] EXCEPT !.pc = "setup", !.task = t].pc # "claim"
          BY <1>0 DEF WorkerState, StoppedWorker
        <5> QED BY <1>0, <5>1, <5>2, GoElsewhere
      <4>3. CASE Go(w, [worker[w] EXCEPT !.pc = "giveback", !.todo = JoinedClaims(w)])
        <5>2. [worker[w] EXCEPT !.pc = "giveback", !.todo = JoinedClaims(w)].pc # "claim"
          BY <1>0 DEF WorkerState, StoppedWorker
        <5> QED BY <1>0, <4>3, <5>2, GoElsewhere
      <4>4. CASE \E pc \in {"trees", "loop"} : Go(w, [worker[w] EXCEPT !.pc = pc, !.startup = pc = "trees"])
        <5>1. PICK pc \in {"trees", "loop"} : Go(w, [worker[w] EXCEPT !.pc = pc, !.startup = pc = "trees"])
          BY <4>4
        <5>2. [worker[w] EXCEPT !.pc = pc, !.startup = pc = "trees"].pc # "claim"
          BY <1>0 DEF WorkerState, StoppedWorker
        <5> QED BY <1>0, <5>1, <5>2, GoElsewhere
      <4> QED BY <3>1, <4>1, <4>2, <4>3, <4>4 DEF _startup_sweep
    <3>2. CASE _sweep(w)
      BY <1>0, <3>2 DEF _sweep, Go, WorkerState
    <3>3. CASE _prepare(w)
      <4>1. CASE Go(w, [worker[w] EXCEPT !.pc = "run", !.active = worker[w].task, !.session = TRUE])
        <5>2. [worker[w] EXCEPT !.pc = "run", !.active = worker[w].task, !.session = TRUE].pc # "claim"
          BY <1>0 DEF WorkerState, StoppedWorker
        <5> QED BY <1>0, <4>1, <5>2, GoElsewhere
      <4>2. CASE \E t \in {worker[w].task, NoTicket} : Go(w, [worker[w] EXCEPT !.pc = "release", !.active = t])
        <5>1. PICK t \in {worker[w].task, NoTicket} : Go(w, [worker[w] EXCEPT !.pc = "release", !.active = t])
          BY <4>2
        <5>2. [worker[w] EXCEPT !.pc = "release", !.active = t].pc # "claim"
          BY <1>0 DEF WorkerState, StoppedWorker
        <5> QED BY <1>0, <5>1, <5>2, GoElsewhere
      <4> QED BY <3>3, <4>1, <4>2 DEF _prepare
    <3> QED BY <1>1, <3>1, <3>2, <3>3
  <2> QED BY <1>0, <2>1, <2>2, ReadFacts, NoMove DEF Cautious
<1>2. CASE EnterWait(w) \/ WaitReturns(w)
  <2>1. UNCHANGED ticket /\ faults' \in Nat /\ (faults' = 0 => faults = 0)
    BY <1>0, <1>2, ReadFacts DEF EnterWait, WaitReturns
  <2>2. worker'[w].pc # "claim" /\ \A v \in Workers \ {w} : worker'[v] = worker[v]
    <3>1. CASE EnterWait(w)
      <4>1. CASE Go(w, StoppedWorker)
        <5>2. StoppedWorker.pc # "claim"
          BY <1>0 DEF WorkerState, StoppedWorker
        <5> QED BY <1>0, <4>1, <5>2, GoElsewhere
      <4>2. CASE Go(w, [worker[w] EXCEPT !.pc = "wait", !.held = JoinedClaims(w)])
        <5>2. [worker[w] EXCEPT !.pc = "wait", !.held = JoinedClaims(w)].pc # "claim"
          BY <1>0 DEF WorkerState, StoppedWorker
        <5> QED BY <1>0, <4>2, <5>2, GoElsewhere
      <4> QED BY <3>1, <4>1, <4>2 DEF EnterWait
    <3>2. CASE WaitReturns(w)
      <4>1. CASE Go(w, StoppedWorker)
        <5>2. StoppedWorker.pc # "claim"
          BY <1>0 DEF WorkerState, StoppedWorker
        <5> QED BY <1>0, <4>1, <5>2, GoElsewhere
      <4>2. CASE \E c \in SUBSET Tickets : Go(w, [worker[w] EXCEPT !.held = {}, !.cand = c, !.pc = IF c = {} THEN "loop" ELSE "choose"])
        <5>1. PICK c \in SUBSET Tickets : Go(w, [worker[w] EXCEPT !.held = {}, !.cand = c, !.pc = IF c = {} THEN "loop" ELSE "choose"])
          BY <4>2
        <5>2. [worker[w] EXCEPT !.held = {}, !.cand = c, !.pc = IF c = {} THEN "loop" ELSE "choose"].pc # "claim"
          BY <1>0 DEF WorkerState, StoppedWorker
        <5> QED BY <1>0, <5>1, <5>2, GoElsewhere
      <4> QED BY <3>2, <4>1, <4>2 DEF WaitReturns
    <3> QED BY <1>2, <3>1, <3>2
  <2> QED BY <2>1, <2>2, NoMove DEF Cautious
<1>3. CASE Consider(w)
  <2>1. UNCHANGED ticket /\ faults' \in Nat /\ (faults' = 0 => faults = 0)
    BY <1>0, <1>3, ReadFacts DEF Consider
  <2>2. \A v \in Workers \ {w} : worker'[v] = worker[v]
    BY <1>0, <1>3 DEF Consider, Go
  <2>3. CASE Read(FALSE)
    <3>1. faults' # 0
      BY <1>0, <2>3, ReadFacts
    <3> QED BY <2>1, <3>1, NoMove DEF Cautious
  <2>4. CASE OwnClaims(w) = {}
    <3>1. \A t \in Tickets : ticket[t].holder # w
      BY <2>4 DEF OwnClaims, Claims
    <3> QED BY <2>1, <2>2, <3>1, NoMove DEF Cautious
  <2>5. CASE ~Read(FALSE) /\ OwnClaims(w) # {}
    <3> DEFINE again == [worker[w] EXCEPT !.pc = "loop", !.cand = {}, !.task = NoTicket]
               done == [again EXCEPT !.active = NoTicket]
    <3>1. worker'[w].pc # "claim"
      <4>1. Go(w, again) \/ Go(w, done)
        BY <1>3, <2>5 DEF Consider
      <4>2. again.pc # "claim" /\ done.pc # "claim"
        BY <1>0 DEF WorkerState
      <4> HIDE DEF again, done
      <4> QED BY <1>0, <4>1, <4>2 DEF Go
    <3> QED BY <2>1, <2>2, <3>1, NoMove DEF Cautious
  <2> QED BY <2>3, <2>4, <2>5
<1>4. CASE WorkerStart(w) \/ StopWorking(w) \/ WorkerStops(w)
  <2>1. /\ worker'[w].pc = "claim" => worker[w].pc = "claim"
        /\ \A v \in Workers \ {w} : worker'[v] = worker[v]
    <3>1. CASE WorkerStart(w)
      BY <1>0, <3>1 DEF WorkerStart, Go, WorkerState, StoppedWorker
    <3>2. CASE StopWorking(w)
      BY <1>0, <3>2 DEF StopWorking, Go, WorkerState
    <3>3. CASE WorkerStops(w)
      BY <1>0, <3>3 DEF WorkerStops, Go, WorkerState, StoppedWorker
    <3> QED BY <1>4, <3>1, <3>2, <3>3
  <2> QED BY <1>4, <2>1, NoMove DEF Cautious, WorkerStart, StopWorking, WorkerStops
<1>5. CASE _cleanup(w)
  <2>1. UNCHANGED ticket /\ (faults' = 0 => faults = 0)
    BY <1>0, <1>5, ReadFacts DEF _cleanup
  <2>2. worker'[w].pc # "claim" /\ \A v \in Workers \ {w} : worker'[v] = worker[v]
    BY <1>0, <1>5 DEF _cleanup, Go, DoneWithTask, WorkerState
  <2> QED BY <2>1, <2>2, NoMove DEF Cautious
<1>6. CASE Edit(w)
  BY <1>6, NoMove DEF Edit, Cautious
<1> QED BY <1>1, <1>2, <1>3, <1>4, <1>5, <1>6

(* Giving back, releasing and submitting: the ticket leaves the worker. *)
LEMMA LeavingMoves ==
    ASSUME IInv, Processes, Claims, NEW w \in Workers,
           GiveBack(w) \/ _release(w) \/ submit_work(w)
    PROVE  Claims' /\ [Next]_ticket
<1>0. /\ worker \in [Workers -> WorkerState] /\ worker[w] \in WorkerState
      /\ faults \in Nat /\ ProcessOK(worker[w]) /\ Workers \subseteq Agents
  BY SeatAssumption DEF Processes
<1>1. CASE UNCHANGED <<ticket, faults>> /\ GiveBack(w)
  <2>1. worker'[w].pc # "claim" /\ \A v \in Workers \ {w} : worker'[v] = worker[v]
    BY <1>0, <1>1 DEF GiveBack, Go, WorkerState
  <2> QED BY <1>1, <2>1, NoMove DEF Cautious
<1>2. CASE ~(UNCHANGED <<ticket, faults>> /\ GiveBack(w))
  <2>1. PICK t \in Tickets, reply \in Replies :
          Call(reply, t, Unclaim(w, t)) \/ Call(reply, t, SubmitBy(w, t))
    BY <1>0, <1>2 DEF GiveBack, _release, submit_work, WorkerState, ProcessOK, Busy
  <2>2. worker'[w].pc # "claim" /\ \A v \in Workers \ {w} : worker'[v] = worker[v]
    <3>1. CASE GiveBack(w)
      BY <1>0, <3>1 DEF GiveBack, Go, WorkerState
    <3>2. CASE _release(w)
      BY <1>0, <3>2 DEF _release, Go, WorkerState, DoneWithTask
    <3>3. CASE submit_work(w)
      BY <1>0, <3>3 DEF submit_work, Go, WorkerState
    <3> QED BY <3>1, <3>2, <3>3
  <2>3. Cautious
    BY <1>0, <2>1, <2>2, CallFacts DEF Cautious
  <2>4. CASE UNCHANGED ticket
    BY <2>3, <2>4, NoMove
  <2>5. CASE ~UNCHANGED ticket
    <3>1. PICK y \in Release(ticket[t]) \cup Submit(ticket[t]) :
            ticket' = [ticket EXCEPT ![t] = y]
      BY <1>0, <2>1, <2>5, CallFacts DEF Unclaim, SubmitBy
    <3> QED BY <1>0, <2>3, <3>1, QuietMoves, QuietMove
  <2> QED BY <2>4, <2>5
<1> QED BY <1>1, <1>2

(* A claim: the worker held nothing, and does not try again before it has   *)
(* looked.                                                                  *)
LEMMA ClaimMoves ==
    ASSUME IInv, Processes, Claims, NEW w \in Workers, ClaimNext(w)
    PROVE  Claims' /\ [Next]_ticket
<1>0. /\ worker \in [Workers -> WorkerState] /\ worker[w] \in WorkerState
      /\ faults \in Nat /\ worker[w].task \in Tickets /\ worker[w].pc = "claim"
  BY DEF Processes, ClaimNext, ProcessOK, Busy
<1> DEFINE t == worker[w].task
<1>1. PICK reply \in Replies : Call(reply, t, {y \in Claim(ticket[t]) : y.holder = w})
  BY DEF ClaimNext
<1>2. worker'[w].pc # "claim" /\ \A v \in Workers \ {w} : worker'[v] = worker[v]
  BY <1>0 DEF ClaimNext, Go, WorkerState
<1>3. faults' \in Nat /\ (faults' = 0 => faults = 0)
  BY <1>0, <1>1, CallFacts
<1>4. CASE UNCHANGED ticket
  BY <1>2, <1>3, <1>4, NoMove DEF Cautious
<1>5. CASE ~UNCHANGED ticket
  <2>1. PICK y \in Claim(ticket[t]) : y.holder = w /\ ticket' = [ticket EXCEPT ![t] = y]
    BY <1>0, <1>1, <1>5, CallFacts
  <2>2. y.status = "claimed"
    <3>1. PICK a \in Agents :
            y = [Unheld("claimed") EXCEPT !.holder = a, !.lease = "live"]
      BY <2>1 DEF Claim, If
    <3> QED BY <3>1 DEF Unheld
  <2>3. ticket'[t] = y /\ \A u \in Tickets \ {t} : ticket'[u] = ticket[u]
    BY <1>0, <2>1 DEF IInv, TypeOK
  <2>4. Claims'
    BY <1>0, <1>2, <1>3, <2>1, <2>2, <2>3 DEF Claims
  <2>5. \A u \in Tickets : ticket'[u] \in Moves(ticket[u])
    BY <1>0, <2>1, <2>3 DEF Moves
  <2>6. ticket' \in [Tickets -> UNION {Moves(ticket[u]) : u \in Tickets}]
    <3>1. ticket' = [u \in Tickets |-> ticket'[u]]
      BY <2>1 DEF IInv, TypeOK
    <3> QED BY <2>5, <3>1
  <2> QED BY <2>4, <2>5, <2>6 DEF Next
<1> QED BY <1>4, <1>5

(* Lapses, reaping and the calls of other seats. *)
LEMMA OtherMoves ==
    ASSUME IInv, Processes, Claims, NEW t \in Tickets,
           LeaseLapses(t) \/ Reaped(t) \/ OtherSeats(t)
    PROVE  Claims' /\ [Next]_ticket
<1>0. Cautious
  BY DEF LeaseLapses, Reaped, OtherSeats, Cautious, Processes
<1>1. Workers \subseteq Agents
  BY SeatAssumption
<1>2. CASE LeaseLapses(t)
  <2>1. PICK y \in Lapse(ticket[t]) : ticket' = [ticket EXCEPT ![t] = y]
    BY <1>2 DEF LeaseLapses
  <2> QED BY <1>0, <1>1, <2>1, QuietMoves, QuietMove
<1>3. CASE Reaped(t)
  <2>1. Unheld("open") \in Release(ticket[t])
    <3>1. ticket[t].status \in Working
      BY <1>3 DEF Reaped, IInv, Sound
    <3> QED BY <3>1 DEF Release, If
  <2> QED BY <1>0, <1>1, <1>3, <2>1, QuietMoves, QuietMove DEF Reaped
<1>4. CASE OtherSeats(t)
  <2> DEFINE x == ticket[t]
             others == Agents \ (Workers \cup Reviewers)
  <2>1. PICK y \in Create(x) \cup {z \in Claim(x) : z.holder \in others}
                    \cup Cancel(x) \cup AskHuman(x) \cup Resolve(x)
                    \cup {z \in ReviewClaim(x) : z.reviewer \in others}
                    \cup ReviewLapse(x) \cup ReviewEnd(x)
                    \cup {z \in Approve(x) : z.approver \in others}
                    \cup (IF Judges(x) \cap others # {} THEN Reject(x) ELSE {})
                    \cup (IF x.holder \in others THEN Start(x) \cup Release(x) \cup Submit(x)
                                                 ELSE {}) :
          ticket' = [ticket EXCEPT ![t] = y]
    BY <1>4 DEF OtherSeats
  <2>2. CASE y \in {z \in Claim(x) : z.holder \in others}
    <3>1. y \in Moves(x) /\ y.holder \notin Workers
      BY <2>2 DEF Moves
    <3> QED BY <1>0, <2>1, <3>1, QuietMove
  <2>3. CASE y \in Start(x) /\ x.holder \in others
    <3>1. y \in Moves(x) /\ y.holder = x.holder
      BY <2>3 DEF Moves, Start, If, IInv, TypeOK, Ticket
    <3> QED BY <1>0, <2>1, <2>3, <3>1, QuietMove
  <2>4. CASE y \in Create(x) \cup Cancel(x) \cup AskHuman(x) \cup Resolve(x)
                   \cup ReviewClaim(x) \cup ReviewLapse(x) \cup ReviewEnd(x)
                   \cup Approve(x) \cup Reject(x) \cup Release(x) \cup Submit(x)
    BY <1>0, <1>1, <2>1, <2>4, QuietMoves, QuietMove
  <2> QED BY <2>1, <2>2, <2>3, <2>4
<1> QED BY <1>2, <1>3, <1>4

-----------------------------------------------------------------------------
(* The specification. *)

SeatInv == IInv /\ Processes /\ Claims

(* At first no process runs and no ticket exists. *)
LEMMA SeatsBegin == SeatInit => SeatInv
<1> SUFFICES ASSUME SeatInit PROVE SeatInv
  OBVIOUS
<1>1. IInv
  BY InitIsSound DEF SeatInit
<1>2. Processes
  <2>1. worker = [w \in Workers |-> StoppedWorker] /\ faults = 0 /\ restarts = 0
        /\ tree = [w \in Workers |-> [t \in Tickets |-> "none"]]
    BY DEF SeatInit
  <2> QED BY <2>1, StoppedOK DEF Processes, Ready, ProcessOK, TreesOK
<1>3. Claims
  <2>1. \A t \in Tickets : ticket[t].holder = NoAgent
    BY DEF SeatInit, Init, Unheld
  <2>2. \A w \in Workers : w # NoAgent
    BY SeatAssumption, TicketLeaseAssumption
  <2> QED BY <2>1, <2>2 DEF Claims
<1> QED BY <1>1, <1>2, <1>3 DEF SeatInv

(* Every step keeps the invariant and the changes that were not submitted,  *)
(* and moves tickets as TicketLease allows.                                 *)
LEMMA SeatsStep ==
    ASSUME SeatInv, [SeatNext]_vars
    PROVE  SeatInv' /\ KeepsDirty /\ [Next]_ticket
<1>0. IInv /\ TypeOK /\ Processes /\ Claims
  BY DEF SeatInv, IInv
<1>1. ASSUME NEW w \in Workers,
             WorkerStart(w) \/ WorkerProceeds(w) \/ Edit(w) \/ submit_work(w) \/ WorkerStops(w)
      PROVE  Processes' /\ KeepsDirty /\ Claims' /\ [Next]_ticket
  <2>1. Processes' /\ KeepsDirty
    BY <1>0, <1>1, StartSteps, LoopSteps, StopSteps, TreeSteps DEF WorkerProceeds
  <2>2. Claims' /\ [Next]_ticket
    BY <1>0, <1>1, ProcessMoves, LeavingMoves, ClaimMoves DEF WorkerProceeds
  <2> QED BY <2>1, <2>2
<1>2. ASSUME NEW t \in Tickets, LeaseLapses(t) \/ Reaped(t) \/ OtherSeats(t)
      PROVE  Processes' /\ KeepsDirty /\ Claims' /\ [Next]_ticket
  <2>1. UNCHANGED <<worker, tree, restarts>> /\ faults' \in Nat
    BY <1>0, <1>2 DEF LeaseLapses, Reaped, OtherSeats, Processes
  <2>2. Processes' /\ KeepsDirty
    BY <1>0, <2>1 DEF Processes, TreesOK, KeepsDirty
  <2> QED BY <1>0, <1>2, <2>2, OtherMoves
<1>3. CASE UNCHANGED vars
  <2>1. UNCHANGED <<ticket, worker, tree, faults, restarts>>
    BY <1>3 DEF vars
  <2> QED BY <1>0, <2>1 DEF SeatInv, IInv, TypeOK, Processes, TreesOK, Claims, KeepsDirty
<1>4. CASE SeatNext
  <2>1. Processes' /\ KeepsDirty /\ Claims' /\ [Next]_ticket
    BY <1>1, <1>2, <1>4 DEF SeatNext
  <2> QED BY <1>0, <2>1, StepIsSound DEF SeatInv
<1> QED BY <1>3, <1>4

(* The seats, with their crashes, lost replies and sweeps, use the tickets  *)
(* only as the board's promise allows: what TicketLeaseProofs shows about   *)
(* ownership holds for them.                                                *)
THEOREM SeatsKeepThePromise == SeatSpec => Spec
<1>1. SeatInit => Init
  BY DEF SeatInit
<1> QED BY <1>1, SeatsBegin, SeatsStep, PTL DEF SeatSpec, Spec

(* Every reachable state of the seats is well typed. *)
THEOREM SeatsTypeCorrect == SeatSpec => []SeatTypeOK
<1>1. SeatInv => SeatTypeOK
  BY DEF SeatInv, IInv, Processes, ProcessOK, TreesOK, SeatTypeOK, Busy
<1> QED BY <1>1, SeatsBegin, SeatsStep, PTL DEF SeatSpec

(* Uncommitted changes leave the disk only after Central has accepted the   *)
(* submission they belong to (_cleanup, _sweep, _prepare).                  *)
THEOREM WorkNeverLost == SeatSpec => UnsubmittedWorkKept
<1>1. SeatInv /\ [SeatNext]_vars =>
        [\A w \in Workers, t \in Tickets :
           tree[w][t] = "dirty" => tree'[w][t] # "none"]_vars
  BY SeatsStep DEF KeepsDirty
<1> QED BY <1>1, SeatsBegin, SeatsStep, PTL DEF SeatSpec, UnsubmittedWorkKept

(* As long as every call gets its reply a worker holds at most one claim,   *)
(* whatever crashes and restarts (_startup_sweep, the check before a claim).*)
THEOREM OneClaimAlways == SeatSpec => []OneClaimPerWorker
<1>1. SeatInv => OneClaimPerWorker
  <2> SUFFICES ASSUME SeatInv, faults = 0, NEW w \in Workers
               PROVE  Cardinality({t \in Tickets : ticket[t].holder = w}) <= 1
    BY DEF OneClaimPerWorker
  <2> DEFINE own == {t \in Tickets : ticket[t].holder = w}
  <2>1. CASE own = {}
    BY <2>1, FS_EmptySet
  <2>2. CASE own # {}
    <3>1. PICK t \in own : TRUE
      BY <2>2
    <3>2. own = {t}
      BY <3>1 DEF SeatInv, Claims
    <3> QED BY <3>2, FS_Singleton
  <2> QED BY <2>1, <2>2
<1> QED BY <1>1, SeatsBegin, SeatsStep, PTL DEF SeatSpec
===============================================================================
