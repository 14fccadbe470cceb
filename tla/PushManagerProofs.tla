-------------------------- MODULE PushManagerProofs --------------------------
(***************************************************************************)
(* Theorems about PushManager, for every set of targets, configurations and *)
(* concurrent requests and for every bound.                                 *)
(***************************************************************************)
EXTENDS PushManager, TLAPS

-----------------------------------------------------------------------------
(* Helpers *)

\* The placeholders of idle requests are of the right types.
LEMMA BlankType == NoTarget \in Target /\ NoSnap \in PushTarget
  BY CfgAssumption, TargetAssumption DEF NoTarget, NoSnap, PushTarget

\* Inserting a target in the store.
LEMMA PutStore ==
    ASSUME NEW t \in Target, NEW p \in PushTarget, DOMAIN store \subseteq Target,
           store \in [DOMAIN store -> PushTarget]
    PROVE  /\ DOMAIN Put(store, t, p) \subseteq Target
           /\ Put(store, t, p) \in [DOMAIN Put(store, t, p) -> PushTarget]
  BY DEF Put

\* Removing a target from the store.
LEMMA DropStore ==
    ASSUME NEW t \in Target, DOMAIN store \subseteq Target,
           store \in [DOMAIN store -> PushTarget]
    PROVE  /\ DOMAIN Drop(store, t) \subseteq Target
           /\ Drop(store, t) \in [DOMAIN Drop(store, t) -> PushTarget]
  BY DEF Drop

\* Spawning a worker adds its record and leaves the others alone.
LEMMA AppendWorker ==
    ASSUME NEW ws \in Seq(WorkerRecord), NEW r \in WorkerRecord
    PROVE  /\ Append(ws, r) \in Seq(WorkerRecord)
           /\ DOMAIN Append(ws, r) = DOMAIN ws \cup {Len(ws) + 1}
           /\ Append(ws, r)[Len(ws) + 1] = r
           /\ \A i \in DOMAIN ws : Append(ws, r)[i] = ws[i]
           /\ Len(ws) + 1 \notin DOMAIN ws
           /\ Len(ws) + 1 \in Nat \ {0}
  OBVIOUS

\* What a step may do to workers that exist: their number, their targets and
\* the types stay.
SameWorkers(ws, vs) ==
    /\ vs \in Seq(WorkerRecord)
    /\ DOMAIN vs = DOMAIN ws
    /\ \A i \in DOMAIN ws : vs[i].target = ws[i].target

\* A signal leaves the set of workers alone.
LEMMA SignalWorker ==
    ASSUME NEW ws \in Seq(WorkerRecord), NEW w \in DOMAIN ws,
           NEW x \in {"none", "sent", "dropped"}
    PROVE  SameWorkers(ws, [ws EXCEPT ![w].signal = x])
  <1>1. ws[w] \in WorkerRecord
    OBVIOUS
  <1>2. [ws[w] EXCEPT !.signal = x] \in WorkerRecord
    BY <1>1 DEF WorkerRecord
  <1>3. [ws EXCEPT ![w] = [ws[w] EXCEPT !.signal = x]] \in Seq(WorkerRecord)
    BY <1>2
  <1>4. \A i \in DOMAIN ws : ws[i] \in WorkerRecord
    OBVIOUS
  <1> QED BY <1>1, <1>3, <1>4 DEF SameWorkers, WorkerRecord

\* So does a change of a worker's state.
LEMMA MoveWorker ==
    ASSUME NEW ws \in Seq(WorkerRecord), NEW w \in DOMAIN ws,
           NEW x \in {"live", "draining", "exited"}
    PROVE  SameWorkers(ws, [ws EXCEPT ![w].st = x])
  <1>1. ws[w] \in WorkerRecord
    OBVIOUS
  <1>2. [ws[w] EXCEPT !.st = x] \in WorkerRecord
    BY <1>1 DEF WorkerRecord
  <1>3. [ws EXCEPT ![w] = [ws[w] EXCEPT !.st = x]] \in Seq(WorkerRecord)
    BY <1>2
  <1>4. \A i \in DOMAIN ws : ws[i] \in WorkerRecord
    OBVIOUS
  <1> QED BY <1>1, <1>3, <1>4 DEF SameWorkers, WorkerRecord

\* Dropping a cancel sender tells its worker, and only its worker, to stop.
LEMMA DroppedWorker ==
    ASSUME NEW ws \in Seq(WorkerRecord), NEW w \in DOMAIN ws \cup {None}
    PROVE  /\ SameWorkers(ws, Dropped(ws, w))
           /\ \A i \in DOMAIN ws : i # w => Dropped(ws, w)[i] = ws[i]
           /\ w # None => Dropped(ws, w)[w].signal # "none"
  <1>1. CASE w = None
    BY <1>1 DEF Dropped, SameWorkers, None
  <1>2. CASE w # None /\ ws[w].signal # "none"
    BY <1>2 DEF Dropped, SameWorkers
  <1>3. CASE w # None /\ ws[w].signal = "none"
    <2>1. w \in DOMAIN ws
      BY <1>3
    <2>2. SameWorkers(ws, [ws EXCEPT ![w].signal = "dropped"])
      BY <2>1, SignalWorker
    <2>3. Dropped(ws, w) = [ws EXCEPT ![w].signal = "dropped"]
      BY <1>3 DEF Dropped
    <2>4. ws[w] \in WorkerRecord
      BY <2>1
    <2> QED BY <2>1, <2>2, <2>3, <2>4 DEF WorkerRecord
  <1> QED BY <1>1, <1>2, <1>3

-----------------------------------------------------------------------------
(* The inductive invariant *)

\* Requests are accepted only once every target has been booted, and a target
\* still to be booted has no handle.
BootFirst ==
    booting # {} => /\ \A q \in Task : pc[q] = "idle"
                    /\ \A t \in booting : t \notin DOMAIN handles

\* The inductive invariant of the handle table.
Inv == TypeOK /\ BootFirst /\ NoLeak

\* The pcs at which a request owns a handle.
Holding == {"stopCancel", "stopJoin", "startCancel", "startJoin", "insert"}

\* It holds of the state the process starts in.
LEMMA InitInv == Init => Inv
  <1> SUFFICES ASSUME Init PROVE Inv
    OBVIOUS
  <1>1. TargetsOK
    BY StoredAssumption DEF Init, TargetsOK, Enabled
  <1>2. HandlesOK
    BY DEF Init, HandlesOK
  <1>3. RequestsOK
    BY BlankType DEF Init, NoRequests, RequestsOK, Labels, None
  <1>4. BootFirst
    BY DEF Init, NoRequests, BootFirst
  <1>5. NoLeak
    BY DEF Init, NoLeak
  <1> QED BY <1>1, <1>2, <1>3, <1>4, <1>5 DEF Inv, TypeOK

-----------------------------------------------------------------------------
(* Every step preserves it *)

\* A step of a worker, which touches only its record and revives nobody.
LEMMA WorkerFrame ==
    ASSUME Inv, SameWorkers(worker, worker'),
           \A w \in DOMAIN worker :
               worker'[w].st = "live" /\ worker'[w].signal = "none" =>
                   worker[w].st = "live" /\ worker[w].signal = "none",
           UNCHANGED <<store, handles, locals, booting, created, bounds,
                       tainted>>
    PROVE  Inv'
  <1> USE DEF locals, bounds
  <1>1. TargetsOK'
    BY DEF Inv, TypeOK, TargetsOK, Enabled
  <1>2. HandlesOK'
    BY DEF Inv, TypeOK, HandlesOK, SameWorkers
  <1>3. RequestsOK'
    BY DEF Inv, TypeOK, RequestsOK, SameWorkers
  <1>4. BootFirst'
    BY DEF Inv, BootFirst
  <1>5. NoLeak'
    BY DEF Inv, NoLeak, Owned, SameWorkers
  <1> QED BY <1>1, <1>2, <1>3, <1>4, <1>5 DEF Inv, TypeOK

\* A step of a request that leaves the workers, the handle table and the
\* handles held alone, at a place where no handle is held.
LEMMA RequestFrame ==
    ASSUME Inv, TargetsOK', BootFirst',
           NEW q \in Task, pc[q] \notin Holding,
           NEW l \in Labels \ Holding,
           pc' = [pc EXCEPT ![q] = l],
           op' \in [Task -> AllOps \cup {"none"}],
           NEW t \in Target, tid' = [tid EXCEPT ![q] = t],
           NEW p \in PushTarget, snap' = [snap EXCEPT ![q] = p],
           UNCHANGED <<worker, handles, held>>
    PROVE  Inv'
  <1>1. HandlesOK'
    BY DEF Inv, TypeOK, HandlesOK
  <1>2. RequestsOK'
    <2> USE DEF Inv, TypeOK, RequestsOK
    <2>1. /\ pc' \in [Task -> Labels]
          /\ tid' \in [Task -> Target]
          /\ snap' \in [Task -> PushTarget]
          /\ held' \in [Task -> Nat]
      OBVIOUS
    <2>2. held[q] = None
      BY DEF Holding
    <2>3. ASSUME NEW u \in Task
          PROVE  IF pc'[u] \in Holding
                 THEN held'[u] \in DOMAIN worker'
                      /\ worker'[held'[u]].target = tid'[u]
                 ELSE held'[u] = None
      BY <2>2 DEF Holding
    <2> QED BY <2>1, <2>3 DEF Holding
  <1>3. NoLeak'
    BY DEF Inv, NoLeak, Owned
  <1> QED BY <1>1, <1>2, <1>3 DEF Inv, TypeOK

\* Each action keeps it.
LEMMA StepInv == Inv /\ [Next]_vars => Inv'
  <1> SUFFICES ASSUME Inv, [Next]_vars PROVE Inv'
    OBVIOUS
  <1> USE DEF bounds
  <1>a. TypeOK /\ TargetsOK /\ HandlesOK /\ RequestsOK /\ BootFirst /\ NoLeak
    BY DEF Inv, TypeOK
  <1>1. ASSUME NEW t \in Target, BootStart(t)
        PROVE  Inv'
    <2>1. t \in DOMAIN store /\ store[t] \in PushTarget
      BY <1>a, <1>1 DEF BootStart, TargetsOK, Enabled
    <2>2. Spawned(t, store[t].cfg) \in WorkerRecord
      BY <2>1 DEF Spawned, WorkerRecord, PushTarget
    <2> DEFINE n == Len(worker) + 1
    <2>3. /\ worker' \in Seq(WorkerRecord)
          /\ DOMAIN worker' = DOMAIN worker \cup {n}
          /\ worker'[n] = Spawned(t, store[t].cfg)
          /\ \A i \in DOMAIN worker : worker'[i] = worker[i]
      BY <1>a, <1>1, <2>2, AppendWorker DEF BootStart, HandlesOK
    <2>4. /\ t \notin DOMAIN handles
          /\ DOMAIN handles' = DOMAIN handles \cup {t}
          /\ handles'[t] = n
          /\ \A u \in DOMAIN handles : handles'[u] = handles[u]
      BY <1>a, <1>1 DEF BootStart, BootFirst, Put
    <2>5. TargetsOK'
      BY <1>a, <1>1 DEF BootStart, TargetsOK, Enabled
    <2>6. HandlesOK'
      BY <1>a, <2>3, <2>4 DEF HandlesOK, Spawned
    <2>7. RequestsOK'
      BY <1>a, <1>1, <2>3 DEF BootStart, RequestsOK, locals
    <2>8. BootFirst'
      BY <1>a, <1>1, <2>4 DEF BootStart, BootFirst, locals
    <2>9. NoLeak'
      BY <1>a, <1>1, <2>3, <2>4 DEF BootStart, NoLeak, Owned, Spawned, locals
    <2> QED BY <2>5, <2>6, <2>7, <2>8, <2>9 DEF Inv, TypeOK
  <1>2. ASSUME NEW q \in Task, NEW t \in Target, NEW p \in PushTarget,
               CreateTarget(q, t, p)
        PROVE  Inv'
    <2>1. TargetsOK'
      BY <1>a, <1>2, PutStore DEF CreateTarget, Call, TargetsOK
    <2>2. BootFirst'
      BY <1>2 DEF CreateTarget, Call, BootFirst
    <2>3. op' \in [Task -> AllOps \cup {"none"}]
      BY <1>a, <1>2, PushOpsAssumption DEF CreateTarget, Call, RequestsOK
    <2> DEFINE l == IF p.enabled THEN "startRemove" ELSE "done"
    <2>4. l \in Labels \ Holding /\ pc[q] \notin Holding
      BY <1>2 DEF CreateTarget, Call, Labels, Holding
    <2>5. /\ pc' = [pc EXCEPT ![q] = l]
          /\ tid' = [tid EXCEPT ![q] = t]
          /\ snap' = [snap EXCEPT ![q] = p]
          /\ UNCHANGED <<worker, handles, held>>
      BY <1>2 DEF CreateTarget, Call, Goto
    <2> HIDE DEF l
    <2> QED BY <2>1, <2>2, <2>3, <2>4, <2>5, RequestFrame
  <1>3. ASSUME NEW q \in Task, NEW t \in Target, NEW p \in PushTarget,
               NEW o \in {"update", "start", "stop"}, LoadTarget(q, o, t, p)
        PROVE  Inv'
    <2>1. TargetsOK'
      BY <1>a, <1>3 DEF LoadTarget, Call, TargetsOK
    <2>2. BootFirst'
      BY <1>3 DEF LoadTarget, Call, BootFirst
    <2>3. op' \in [Task -> AllOps \cup {"none"}]
      BY <1>a, <1>3, PushOpsAssumption DEF LoadTarget, Call, RequestsOK
    <2>4. "save" \in Labels \ Holding /\ pc[q] \notin Holding
      BY <1>3 DEF LoadTarget, Call, Labels, Holding
    <2>5. /\ pc' = [pc EXCEPT ![q] = "save"]
          /\ tid' = [tid EXCEPT ![q] = t]
          /\ snap' = [snap EXCEPT ![q] = p]
          /\ UNCHANGED <<worker, handles, held>>
      BY <1>3 DEF LoadTarget, Call, Goto
    <2> QED BY <2>1, <2>2, <2>3, <2>4, <2>5, RequestFrame
  <1>4. ASSUME NEW q \in Task, NEW t \in Target, DeleteTarget(q, t)
        PROVE  Inv'
    <2>1. TargetsOK'
      BY <1>a, <1>4 DEF DeleteTarget, Call, TargetsOK
    <2>2. BootFirst'
      BY <1>4 DEF DeleteTarget, Call, BootFirst
    <2>3. op' \in [Task -> AllOps \cup {"none"}]
      BY <1>a, <1>4, PushOpsAssumption DEF DeleteTarget, Call, RequestsOK
    <2>4. "stopRemove" \in Labels \ Holding /\ pc[q] \notin Holding
      BY <1>4 DEF DeleteTarget, Call, Labels, Holding
    <2>5. /\ snap[q] \in PushTarget
          /\ snap' = [snap EXCEPT ![q] = snap[q]]
      BY <1>a, <1>4 DEF DeleteTarget, RequestsOK
    <2>6. /\ pc' = [pc EXCEPT ![q] = "stopRemove"]
          /\ tid' = [tid EXCEPT ![q] = t]
          /\ UNCHANGED <<worker, handles, held>>
      BY <1>4 DEF DeleteTarget, Call, Goto
    <2> QED BY <2>1, <2>2, <2>3, <2>4, <2>5, <2>6, RequestFrame
  <1>b. ASSUME NEW q \in Task, pc[q] # "idle"
        PROVE  booting = {}
    BY <1>a, <1>b DEF BootFirst
  <1>c. ASSUME NEW q \in Task
        PROVE  AfterStop(q) \in Labels \ Holding
    BY DEF AfterStop, Labels, Holding
  <1>5. ASSUME NEW q \in Task, SaveTarget(q)
        PROVE  Inv'
    <2>1. booting = {} /\ booting' = {}
      BY <1>5, <1>b DEF SaveTarget
    <2>2. tid[q] \in Target /\ snap[q] \in PushTarget
      BY <1>a DEF RequestsOK
    <2>3. TargetsOK'
      BY <1>a, <1>5, <2>1, <2>2, PutStore DEF SaveTarget, TargetsOK
    <2>4. BootFirst'
      BY <2>1 DEF BootFirst
    <2> DEFINE l == IF op[q] = "start" THEN "startRemove" ELSE "stopRemove"
    <2>5. l \in Labels \ Holding /\ pc[q] \notin Holding
      BY <1>5 DEF SaveTarget, Labels, Holding
    <2>6. /\ pc' = [pc EXCEPT ![q] = l]
          /\ op' \in [Task -> AllOps \cup {"none"}]
          /\ tid' = [tid EXCEPT ![q] = tid[q]]
          /\ snap' = [snap EXCEPT ![q] = snap[q]]
          /\ UNCHANGED <<worker, handles, held>>
      BY <1>a, <1>5 DEF SaveTarget, Keep, Goto, RequestsOK
    <2> HIDE DEF l
    <2> QED BY <2>2, <2>3, <2>4, <2>5, <2>6, RequestFrame
  <1>6. ASSUME NEW q \in Task, RemoveHandle(q)
        PROVE  Inv'
    <2>1. booting = {} /\ booting' = {}
      BY <1>6, <1>b DEF RemoveHandle
    <2>2. TargetsOK'
      BY <1>a, <1>6, <2>1 DEF RemoveHandle, TargetsOK
    <2>3. BootFirst'
      BY <2>1 DEF BootFirst
    <2>4. /\ tid[q] \in Target /\ snap[q] \in PushTarget
          /\ op' \in [Task -> AllOps \cup {"none"}]
          /\ tid' = [tid EXCEPT ![q] = tid[q]]
          /\ snap' = [snap EXCEPT ![q] = snap[q]]
          /\ pc[q] \notin Holding
          /\ worker' = worker
      BY <1>a, <1>6 DEF RemoveHandle, RequestsOK, Holding
    <2>5. CASE tid[q] \notin DOMAIN handles
      <3> DEFINE l == IF pc[q] = "stopRemove" THEN AfterStop(q) ELSE "spawn"
      <3>1. l \in Labels \ Holding
        BY <1>c DEF Labels, Holding
      <3>2. pc' = [pc EXCEPT ![q] = l] /\ UNCHANGED <<handles, held>>
        BY <1>6, <2>5 DEF RemoveHandle, Goto
      <3> HIDE DEF l
      <3> QED BY <2>2, <2>3, <2>4, <3>1, <3>2, RequestFrame
    <2>6. CASE tid[q] \in DOMAIN handles
      <3> DEFINE l == IF pc[q] = "stopRemove" THEN "stopCancel"
                      ELSE "startCancel"
      <3>1. l \in Labels /\ l \in Holding
        BY DEF Labels, Holding
      <3>2. /\ pc' = [pc EXCEPT ![q] = l]
            /\ held' = [held EXCEPT ![q] = handles[tid[q]]]
            /\ handles' = Drop(handles, tid[q])
        BY <1>6, <2>6 DEF RemoveHandle, Goto
      <3>3. /\ handles[tid[q]] \in DOMAIN worker
            /\ worker[handles[tid[q]]].target = tid[q]
            /\ handles[tid[q]] \in Nat
        BY <1>a, <2>6 DEF HandlesOK
      <3>4. HandlesOK'
        BY <1>a, <2>4, <3>2 DEF HandlesOK, Drop
      <3> HIDE DEF l
      <3>5. RequestsOK'
        <4>1. /\ pc' \in [Task -> Labels]
              /\ tid' \in [Task -> Target]
              /\ snap' \in [Task -> PushTarget]
              /\ held' \in [Task -> Nat]
          BY <1>a, <2>4, <3>1, <3>2, <3>3 DEF RequestsOK
        <4>2. ASSUME NEW u \in Task
              PROVE  IF pc'[u] \in Holding
                     THEN held'[u] \in DOMAIN worker'
                          /\ worker'[held'[u]].target = tid'[u]
                     ELSE held'[u] = None
          BY <1>a, <2>4, <3>1, <3>2, <3>3 DEF RequestsOK, Holding
        <4> QED BY <2>4, <4>1, <4>2 DEF RequestsOK, Holding
      <3>6. NoLeak'
        <4>1. held[q] = None
          BY <1>a, <2>4 DEF RequestsOK, Holding
        <4>2. held'[q] = handles[tid[q]]
          BY <1>a, <3>2 DEF RequestsOK
        <4>3. ASSUME NEW w \in DOMAIN worker, Owned(w) PROVE Owned(w)'
          <5>1. w # None
            BY <1>a DEF HandlesOK, None
          <5> QED BY <1>a, <3>2, <4>1, <4>3, <5>1 DEF Owned, RequestsOK
        <4>5. ASSUME NEW w \in DOMAIN worker,
                     worker[w].st = "live", worker[w].signal = "none",
                     ~Owned(w)'
              PROVE  /\ worker[w].target \in DOMAIN handles'
                     /\ handles'[worker[w].target] = w
          <5>1. ~Owned(w) /\ w # handles[tid[q]]
            <6>1. w # handles[tid[q]]
              BY <4>2, <4>5 DEF Owned
            <6> QED BY <4>3, <4>5, <6>1
          <5>2. /\ worker[w].target \in DOMAIN handles
                /\ handles[worker[w].target] = w
            BY <1>a, <4>5, <5>1 DEF NoLeak
          <5> QED BY <3>2, <5>1, <5>2 DEF Drop
        <4> QED BY <2>4, <4>5 DEF NoLeak
      <3> QED BY <2>2, <2>3, <3>4, <3>5, <3>6 DEF Inv, TypeOK
    <2> QED BY <2>5, <2>6
  <1>7. ASSUME NEW q \in Task, SendCancel(q)
        PROVE  Inv'
    <2>1. booting = {} /\ booting' = {}
      BY <1>7, <1>b DEF SendCancel
    <2>2. held[q] \in DOMAIN worker
      BY <1>a, <1>7 DEF SendCancel, RequestsOK
    <2>3. worker \in Seq(WorkerRecord)
      BY <1>a DEF HandlesOK
    <2>4. SameWorkers(worker, worker')
      BY <1>7, <2>2, <2>3, SignalWorker DEF SendCancel
    <2>5. /\ worker'[held[q]].signal = "sent"
          /\ \A w \in DOMAIN worker : w # held[q] => worker'[w] = worker[w]
      <3>1. worker[held[q]] \in WorkerRecord
        BY <2>2, <2>3
      <3> QED BY <1>7, <2>2, <2>3, <3>1 DEF SendCancel, WorkerRecord
    <2>6. TargetsOK'
      BY <1>a, <1>7, <2>1 DEF SendCancel, TargetsOK
    <2>7. HandlesOK'
      BY <1>a, <1>7, <2>4 DEF SendCancel, HandlesOK, SameWorkers
    <2>8. RequestsOK'
      BY <1>a, <1>7, <2>4 DEF SendCancel, RequestsOK, SameWorkers, Keep, Goto,
         Labels
    <2>9. NoLeak'
      BY <1>a, <1>7, <2>4, <2>5 DEF SendCancel, NoLeak, Owned, SameWorkers,
             Keep
    <2>10. BootFirst'
      BY <2>1 DEF BootFirst
    <2> QED BY <2>6, <2>7, <2>8, <2>9, <2>10 DEF Inv, TypeOK
  <1>8. ASSUME NEW q \in Task, Join(q)
        PROVE  Inv'
    <2>1. booting = {} /\ booting' = {}
      BY <1>8, <1>b DEF Join
    <2>2. /\ held[q] \in DOMAIN worker
          /\ worker[held[q]].st = "exited"
      BY <1>a, <1>8 DEF Join, RequestsOK
    <2> DEFINE l == IF pc[q] = "stopJoin" THEN AfterStop(q) ELSE "spawn"
    <2>3. l \in Labels \ Holding
      BY <1>c DEF Labels, Holding
    <2>4. /\ pc' = [pc EXCEPT ![q] = l]
          /\ held' = [held EXCEPT ![q] = None]
          /\ UNCHANGED <<store, handles, worker, op, tid, snap, created,
                         calls, restarts, tainted>>
      BY <1>8 DEF Join, Goto
    <2> HIDE DEF l
    <2>5. TargetsOK'
      BY <1>a, <2>1, <2>4 DEF TargetsOK
    <2>6. HandlesOK'
      BY <1>a, <2>4 DEF HandlesOK
    <2>7. RequestsOK'
      BY <1>a, <2>3, <2>4 DEF RequestsOK, Holding, None
    <2>8. NoLeak'
      <3>1. ASSUME NEW w \in DOMAIN worker, worker[w].st = "live", Owned(w)
            PROVE  Owned(w)'
        BY <1>a, <2>2, <2>4, <3>1 DEF Owned, RequestsOK
      <3> QED BY <1>a, <2>4, <3>1 DEF NoLeak
    <2>9. BootFirst'
      BY <2>1 DEF BootFirst
    <2> QED BY <2>5, <2>6, <2>7, <2>8, <2>9 DEF Inv, TypeOK
  <1>9. ASSUME NEW q \in Task, Spawn(q)
        PROVE  Inv'
    <2>1. booting = {} /\ booting' = {}
      BY <1>9, <1>b DEF Spawn
    <2>2. tid[q] \in Target /\ snap[q] \in PushTarget
      BY <1>a DEF RequestsOK
    <2>3. Spawned(tid[q], snap[q].cfg) \in WorkerRecord
      BY <2>2 DEF Spawned, WorkerRecord, PushTarget
    <2> DEFINE n == Len(worker) + 1
    <2>4. /\ worker' \in Seq(WorkerRecord)
          /\ DOMAIN worker' = DOMAIN worker \cup {n}
          /\ worker'[n] = Spawned(tid[q], snap[q].cfg)
          /\ \A i \in DOMAIN worker : worker'[i] = worker[i]
          /\ n \in Nat
      BY <1>a, <1>9, <2>3, AppendWorker DEF Spawn, HandlesOK
    <2>5. /\ pc' = [pc EXCEPT ![q] = "insert"]
          /\ held' = [held EXCEPT ![q] = n]
          /\ UNCHANGED <<store, handles, op, tid, snap, created, calls,
                         restarts, tainted>>
      BY <1>9 DEF Spawn, Goto
    <2>6. held[q] = None
      BY <1>a, <1>9 DEF Spawn, RequestsOK
    <2> HIDE DEF n
    <2>7. TargetsOK'
      BY <1>a, <2>1, <2>5 DEF TargetsOK
    <2>8. HandlesOK'
      BY <1>a, <2>4, <2>5 DEF HandlesOK
    <2>9. RequestsOK'
      <3>1. worker'[n].target = tid[q]
        BY <2>4 DEF Spawned
      <3> QED BY <1>a, <2>4, <2>5, <3>1 DEF RequestsOK, Labels
    <2>10. NoLeak'
      <3>1. \E u \in Task : held'[u] = n
        BY <1>a, <2>5 DEF RequestsOK
      <3>2. ASSUME NEW w \in DOMAIN worker, Owned(w) PROVE Owned(w)'
        <4>1. w # None
          BY <1>a DEF HandlesOK, None
        <4> QED BY <1>a, <2>5, <2>6, <3>2, <4>1 DEF Owned, RequestsOK
      <3> SUFFICES ASSUME NEW w \in DOMAIN worker',
                          worker'[w].st = "live", worker'[w].signal = "none"
                   PROVE  \/ /\ worker'[w].target \in DOMAIN handles'
                             /\ handles'[worker'[w].target] = w
                          \/ Owned(w)'
        BY DEF NoLeak
      <3>3. CASE w = n
        BY <3>1, <3>3 DEF Owned
      <3>4. CASE w \in DOMAIN worker
        BY <1>a, <2>4, <2>5, <3>2, <3>4 DEF NoLeak
      <3> QED BY <2>4, <3>3, <3>4
    <2>11. BootFirst'
      BY <2>1 DEF BootFirst
    <2> QED BY <2>7, <2>8, <2>9, <2>10, <2>11 DEF Inv, TypeOK
  <1>10. ASSUME NEW q \in Task, InsertHandle(q)
         PROVE  Inv'
    <2>1. booting = {} /\ booting' = {}
      BY <1>10, <1>b DEF InsertHandle
    <2> DEFINE t == tid[q]
               old == IF t \in DOMAIN handles THEN handles[t] ELSE None
    <2>2. /\ t \in Target
          /\ held[q] \in DOMAIN worker
          /\ worker[held[q]].target = t
      BY <1>a, <1>10 DEF InsertHandle, RequestsOK
    <2>3. worker \in Seq(WorkerRecord) /\ old \in DOMAIN worker \cup {None}
      BY <1>a DEF HandlesOK
    <2>4. worker' = Dropped(worker, old)
      BY <1>10 DEF InsertHandle, Dropped, None
    <2>5. /\ SameWorkers(worker, worker')
          /\ \A i \in DOMAIN worker : i # old => worker'[i] = worker[i]
          /\ old # None => worker'[old].signal # "none"
      BY <2>3, <2>4, DroppedWorker
    <2>6. /\ DOMAIN handles' = DOMAIN handles \cup {t}
          /\ handles'[t] = held[q]
          /\ \A u \in DOMAIN handles : u # t => handles'[u] = handles[u]
      BY <1>10 DEF InsertHandle, Put
    <2>7. /\ pc' = [pc EXCEPT ![q] = "done"]
          /\ held' = [held EXCEPT ![q] = None]
          /\ UNCHANGED <<store, op, tid, snap, created, calls, restarts,
                         tainted>>
      BY <1>10 DEF InsertHandle, Goto
    <2>8. TargetsOK'
      BY <1>a, <2>1, <2>7 DEF TargetsOK
    <2>9. HandlesOK'
      BY <1>a, <2>2, <2>5, <2>6 DEF HandlesOK, SameWorkers
    <2>10. RequestsOK'
      BY <1>a, <2>5, <2>7 DEF RequestsOK, SameWorkers, Labels, None
    <2>11. NoLeak'
      <3> SUFFICES ASSUME NEW w \in DOMAIN worker',
                          worker'[w].st = "live", worker'[w].signal = "none"
                   PROVE  \/ /\ worker'[w].target \in DOMAIN handles'
                             /\ handles'[worker'[w].target] = w
                          \/ Owned(w)'
        BY DEF NoLeak
      <3>1. w \in DOMAIN worker /\ w # None
        BY <1>a, <2>5 DEF SameWorkers, HandlesOK, None
      <3>2. w # old /\ worker'[w] = worker[w]
        BY <2>5, <3>1
      <3>3. CASE w = held[q]
        BY <2>2, <2>6, <3>2, <3>3
      <3>4. CASE w # held[q] /\ Owned(w)
        BY <1>a, <2>7, <3>4 DEF Owned, RequestsOK
      <3>5. CASE ~Owned(w)
        <4>1. /\ worker[w].target \in DOMAIN handles
              /\ handles[worker[w].target] = w
          BY <1>a, <3>1, <3>2, <3>5 DEF NoLeak
        <4>2. worker[w].target # t
          BY <3>2, <4>1
        <4> QED BY <2>6, <3>2, <4>1, <4>2
      <3> QED BY <3>3, <3>4, <3>5
    <2>12. BootFirst'
      BY <2>1 DEF BootFirst
    <2> QED BY <2>8, <2>9, <2>10, <2>11, <2>12 DEF Inv, TypeOK
  <1>d. ASSUME NEW q \in Task, Return(q)
        PROVE  /\ pc' = [pc EXCEPT ![q] = "idle"]
               /\ tid' = [tid EXCEPT ![q] = NoTarget]
               /\ snap' = [snap EXCEPT ![q] = NoSnap]
               /\ held' = [held EXCEPT ![q] = None]
               /\ op' \in [Task -> AllOps \cup {"none"}]
               /\ "idle" \in Labels \ Holding
               /\ NoTarget \in Target /\ NoSnap \in PushTarget
    BY <1>a, <1>d, BlankType DEF Return, RequestsOK, Labels, Holding
  <1>11. ASSUME NEW q \in Task, DeleteStored(q)
         PROVE  Inv'
    <2>1. booting = {} /\ booting' = {}
      BY <1>11, <1>b DEF DeleteStored
    <2>2. tid[q] \in Target
      BY <1>a DEF RequestsOK
    <2>3. TargetsOK'
      BY <1>a, <1>11, <2>1, <2>2, DropStore DEF DeleteStored, TargetsOK
    <2>4. BootFirst'
      BY <2>1 DEF BootFirst
    <2>5. /\ Return(q)
          /\ pc[q] \notin Holding
          /\ UNCHANGED <<worker, handles>>
      BY <1>11 DEF DeleteStored, Holding
    <2>6. held' = held
      BY <1>a, <1>d, <1>11, <2>5 DEF DeleteStored, RequestsOK, Holding
    <2> QED BY <1>d, <2>3, <2>4, <2>5, <2>6, RequestFrame
  <1>12. ASSUME NEW q \in Task, Respond(q)
         PROVE  Inv'
    <2>1. booting = {} /\ booting' = {}
      BY <1>12, <1>b DEF Respond
    <2>2. TargetsOK'
      BY <1>a, <1>12, <2>1 DEF Respond, TargetsOK
    <2>3. BootFirst'
      BY <2>1 DEF BootFirst
    <2>4. /\ Return(q)
          /\ pc[q] \notin Holding
          /\ UNCHANGED <<worker, handles>>
      BY <1>12 DEF Respond, Holding
    <2>5. held' = held
      BY <1>a, <1>d, <1>12, <2>4 DEF Respond, RequestsOK, Holding
    <2> QED BY <1>d, <2>2, <2>3, <2>4, <2>5, RequestFrame
  <1>13. ASSUME NEW q \in Task, Disconnect(q)
         PROVE  Inv'
    <2>1. booting = {} /\ booting' = {}
      BY <1>13, <1>b DEF Disconnect
    <2>2. worker \in Seq(WorkerRecord) /\ held[q] \in DOMAIN worker \cup {None}
      BY <1>a DEF HandlesOK, RequestsOK
    <2>3. /\ SameWorkers(worker, worker')
          /\ \A i \in DOMAIN worker : i # held[q] => worker'[i] = worker[i]
          /\ held[q] # None => worker'[held[q]].signal # "none"
      BY <1>13, <2>2, DroppedWorker DEF Disconnect
    <2>4. /\ Return(q)
          /\ UNCHANGED <<store, handles, created, calls, restarts>>
          /\ tainted' = tainted \cup {tid[q]}
          /\ tid[q] \in Target
      BY <1>a, <1>13 DEF Disconnect, RequestsOK
    <2>5. TargetsOK'
      BY <1>a, <2>1, <2>4 DEF TargetsOK
    <2>6. HandlesOK'
      BY <1>a, <2>3, <2>4 DEF HandlesOK, SameWorkers
    <2>7. RequestsOK'
      <3>1. /\ pc' \in [Task -> Labels]
            /\ tid' \in [Task -> Target]
            /\ snap' \in [Task -> PushTarget]
            /\ held' \in [Task -> Nat]
        BY <1>a, <1>d, <2>4 DEF RequestsOK, None
      <3>2. ASSUME NEW u \in Task
            PROVE  IF pc'[u] \in Holding
                   THEN held'[u] \in DOMAIN worker'
                        /\ worker'[held'[u]].target = tid'[u]
                   ELSE held'[u] = None
        <4>a. /\ pc \in [Task -> Labels]
              /\ tid \in [Task -> Target]
              /\ held \in [Task -> Nat]
              /\ pc' = [pc EXCEPT ![q] = "idle"]
              /\ tid' = [tid EXCEPT ![q] = NoTarget]
              /\ held' = [held EXCEPT ![q] = None]
          BY <1>a, <1>d, <2>4 DEF RequestsOK
        <4>1. CASE u = q
          BY <4>a, <4>1 DEF Holding
        <4>2. CASE u # q
          <5>1. pc'[u] = pc[u] /\ tid'[u] = tid[u] /\ held'[u] = held[u]
            BY <4>a, <4>2
          <5> QED BY <1>a, <2>3, <5>1 DEF RequestsOK, SameWorkers, Holding
        <4> QED BY <4>1, <4>2
      <3> QED BY <1>d, <2>4, <3>1, <3>2 DEF RequestsOK, Holding
    <2>8. NoLeak'
      <3> SUFFICES ASSUME NEW w \in DOMAIN worker',
                          worker'[w].st = "live", worker'[w].signal = "none"
                   PROVE  \/ /\ worker'[w].target \in DOMAIN handles'
                             /\ handles'[worker'[w].target] = w
                          \/ Owned(w)'
        BY DEF NoLeak
      <3>1. w \in DOMAIN worker /\ w # None
        BY <1>a, <2>3 DEF SameWorkers, HandlesOK, None
      <3>2. w # held[q] /\ worker'[w] = worker[w]
        BY <2>3, <3>1
      <3>3. Owned(w) => Owned(w)'
        BY <1>a, <1>d, <2>4, <3>2 DEF Owned, RequestsOK
      <3> QED BY <1>a, <2>4, <3>1, <3>2, <3>3 DEF NoLeak
    <2>9. BootFirst'
      BY <2>1 DEF BootFirst
    <2> QED BY <2>5, <2>6, <2>7, <2>8, <2>9 DEF Inv, TypeOK
  <1>e. worker \in Seq(WorkerRecord) /\ \A w \in DOMAIN worker : worker[w] \in WorkerRecord
    BY <1>a DEF HandlesOK
  <1>14. ASSUME NEW w \in DOMAIN worker, NEW x \in {"draining", "exited"},
                worker' = [worker EXCEPT ![w].st = x],
                UNCHANGED <<store, handles, locals, booting, created, bounds,
                            tainted>>
         PROVE  Inv'
    <2>1. SameWorkers(worker, worker')
      BY <1>e, <1>14, MoveWorker
    <2>2. worker[w] \in WorkerRecord
      BY <1>e
    <2>3. \A v \in DOMAIN worker :
            worker'[v].st = "live" /\ worker'[v].signal = "none" =>
                worker[v].st = "live" /\ worker[v].signal = "none"
      BY <1>e, <1>14, <2>2 DEF WorkerRecord
    <2> QED BY <1>14, <2>1, <2>3, WorkerFrame
  <1>15. ASSUME NEW w \in DOMAIN worker, WorkerStep(w) \/ WorkerFails(w)
         PROVE  Inv'
    BY <1>14, <1>15 DEF WorkerStep, WorkerFails, ObserveCancel, WorkerExit
  <1>16. CASE Restart
    <2>1. /\ worker' \in Seq(WorkerRecord)
          /\ DOMAIN worker' = DOMAIN worker
          /\ \A w \in DOMAIN worker : worker'[w].st = "exited"
      <3>1. \A w \in DOMAIN worker :
              Killed(worker[w]) \in WorkerRecord /\ Killed(worker[w]).st = "exited"
        BY <1>e DEF Killed, WorkerRecord
      <3>2. worker' = [w \in 1..Len(worker) |-> Killed(worker[w])]
        BY <1>16, <1>e DEF Restart
      <3> QED BY <1>e, <3>1, <3>2
    <2>2. TargetsOK'
      BY <1>a, <1>16 DEF Restart, TargetsOK, Enabled
    <2>3. HandlesOK'
      BY <1>16, <2>1 DEF Restart, HandlesOK
    <2>4. RequestsOK'
      BY <1>16, BlankType DEF Restart, RequestsOK, Labels, None
    <2>5. BootFirst'
      BY <1>16 DEF Restart, BootFirst
    <2>6. NoLeak'
      BY <2>1 DEF NoLeak
    <2> QED BY <2>2, <2>3, <2>4, <2>5, <2>6 DEF Inv, TypeOK
  <1>17. CASE UNCHANGED vars
    <2>1. SameWorkers(worker, worker')
      BY <1>e, <1>17 DEF vars, SameWorkers
    <2> QED BY <1>17, <2>1, WorkerFrame DEF vars
  <1> QED BY <1>1, <1>2, <1>3, <1>4, <1>5, <1>6, <1>7, <1>8, <1>9, <1>10, <1>11,
             <1>12, <1>13, <1>15, <1>16, <1>17
          DEF Next, Request, RequestStep

\* So it holds in every state.
LEMMA InvHolds == Spec => []Inv
  BY InitInv, StepInv, PTL DEF Spec

\* Type correctness: a handle in the table of PushScheduler is always the
\* handle of a worker of that target, and a request owns a handle exactly
\* while it cancels, joins or inserts it.
THEOREM PushTypeCorrect == Spec => []TypeOK
  <1>1. Inv => TypeOK
    BY DEF Inv
  <1> QED BY <1>1, InvHolds, PTL

\* No worker is leaked, however many requests on a target run at once, drop
\* their clients or overwrite each other's handles in PushScheduler::start.
THEOREM NoWorkerLeaks == Spec => []NoLeak
  <1>1. Inv => NoLeak
    BY DEF Inv
  <1> QED BY <1>1, InvHolds, PTL

-----------------------------------------------------------------------------
(* The store and the workers *)

\* Target t runs exactly when the store says so, and as the store says.
Settled(t) ==
    /\ t \in DOMAIN handles <=> t \in Enabled(store)
    /\ t \in DOMAIN handles => worker[handles[t]].cfg = store[t].cfg

\* Request q is at work on target t.
Busy(q, t) == pc[q] # "idle" /\ tid[q] = t

\* The target is stored as request q wants it.
Saved(q) == tid[q] \in DOMAIN store /\ store[tid[q]] = snap[q]

\* Where a request is in PushScheduler::stop, and in PushScheduler::start.
Stopping == {"stopRemove", "stopCancel", "stopJoin"}
Starting == {"startRemove", "startCancel", "startJoin", "spawn", "insert"}

\* What holds of the target of a request that has it to itself, at each place
\* of the request.
Stage(q) ==
    /\ op[q] = "start" => snap[q].enabled
    /\ op[q] = "stop" => ~snap[q].enabled
    /\ pc[q] = "save" => /\ op[q] \in {"update", "start", "stop"}
                         /\ Settled(tid[q])
    /\ pc[q] \in Stopping => /\ op[q] \in {"update", "stop", "delete"}
                             /\ op[q] # "delete" => Saved(q)
    /\ pc[q] \in Starting => Saved(q) /\ snap[q].enabled
    /\ pc[q] \in {"stopCancel", "stopJoin", "startCancel", "startJoin",
                  "spawn", "insert", "unstore"} => tid[q] \notin DOMAIN handles
    /\ pc[q] = "insert" => worker[held[q]].cfg = snap[q].cfg
    /\ pc[q] = "done" => Settled(tid[q])

\* A target whose requests did not overlap: one request at most is at work on
\* it, and it is settled between requests.
Orderly(t) ==
    /\ \A q, u \in Task : Busy(q, t) /\ Busy(u, t) => q = u
    /\ t \notin booting /\ (\A q \in Task : ~Busy(q, t)) => Settled(t)
    /\ \A q \in Task : Busy(q, t) => Stage(q)

\* RunningMatchesStore as it evolves; an id is in the store only after it was
\* handed out.
Matching ==
    /\ \A t \in Target \ tainted : Orderly(t)
    /\ DOMAIN store \subseteq created
    /\ \A q \in Task : pc[q] = "save" => tid[q] \in created

\* What a step leaves alone: the store and the handle table at t, ...
Untouched(t) ==
    /\ t \in DOMAIN handles' <=> t \in DOMAIN handles
    /\ t \in DOMAIN handles => handles'[t] = handles[t]
    /\ t \in DOMAIN store' <=> t \in DOMAIN store
    /\ t \in DOMAIN store => store'[t] = store[t]
\* ... the configurations of the workers there are, ...
CfgsKept ==
    /\ DOMAIN worker \subseteq DOMAIN worker'
    /\ \A w \in DOMAIN worker : worker'[w].cfg = worker[w].cfg
\* ... and the locals of a request.
LocalsKept(q) ==
    /\ pc'[q] = pc[q] /\ op'[q] = op[q] /\ tid'[q] = tid[q]
    /\ snap'[q] = snap[q] /\ held'[q] = held[q]

\* Then a settled target stays settled, ...
LEMMA SettledKept ==
    ASSUME Inv, NEW t \in Target, Untouched(t), CfgsKept, Settled(t)
    PROVE  Settled(t)'
  <1>1. t \in DOMAIN handles => handles[t] \in DOMAIN worker
    BY DEF Inv, TypeOK, HandlesOK
  <1>2. t \in Enabled(store) <=> t \in Enabled(store')
    BY DEF Enabled, Untouched
  <1>3. t \in DOMAIN handles' <=> t \in Enabled(store')
    BY <1>2 DEF Settled, Untouched
  <1>4. ASSUME t \in DOMAIN handles'
        PROVE  worker'[handles'[t]].cfg = store'[t].cfg
    <2>1. t \in DOMAIN handles /\ t \in DOMAIN store
      BY <1>4 DEF Settled, Untouched, Enabled
    <2> QED
      BY <1>1, <2>1 DEF Settled, Untouched, CfgsKept
  <1> QED
    BY <1>3, <1>4 DEF Settled, Enabled

\* ... and so does the stage of a request on it.
LEMMA StageKept ==
    ASSUME Inv, NEW u \in Task, Untouched(tid[u]), CfgsKept, LocalsKept(u),
           Stage(u)
    PROVE  Stage(u)'
  <1>1. tid[u] \in Target /\ pc[u] = "insert" => held[u] \in DOMAIN worker
    BY DEF Inv, TypeOK, RequestsOK
  <1>2. tid[u] \in Target
    BY DEF Inv, TypeOK, RequestsOK
  <1>3. Settled(tid[u]) => Settled(tid[u])'
    <2>1. PICK t \in Target : t = tid[u]
      BY <1>2
    <2>2. tid'[u] = t
      BY <2>1 DEF LocalsKept
    <2>3. Settled(t) => Settled(t)'
      BY <2>1, SettledKept
    <2> QED
      BY <2>1, <2>2, <2>3 DEF Settled
  <1>4. Saved(u) => Saved(u)'
    BY DEF Saved, Untouched, LocalsKept
  <1>5. /\ pc[u] = "save" => Settled(tid[u])'
        /\ pc[u] = "done" => Settled(tid[u])'
        /\ pc[u] = "insert" => worker'[held[u]].cfg = snap[u].cfg
    BY <1>1, <1>2, <1>3 DEF Stage, CfgsKept
  <1> QED
    BY <1>4, <1>5 DEF Stage, Untouched, LocalsKept

\* A step of request q on target t keeps everything orderly, if no other
\* request is at work on t, or t is given up as tainted, and if what holds of t
\* afterwards fits the place q has come to.
LEMMA Advances ==
    ASSUME Inv, \A t \in Target \ tainted : Orderly(t), NEW q \in Task,
           NEW t0 \in Target, CfgsKept, UNCHANGED booting,
           \A u \in Task \ {q} : LocalsKept(u),
           \A t \in Target \ {t0} : Untouched(t),
           tainted \subseteq tainted',
           pc[q] = "idle" \/ tid[q] = t0,
           pc'[q] = "idle" \/ tid'[q] = t0,
           t0 \in tainted' \/ \A u \in Task \ {q} : ~Busy(u, t0),
           t0 \in tainted' \/ IF pc'[q] = "idle" THEN Settled(t0)'
                              ELSE Stage(q)'
    PROVE  \A t \in Target \ tainted' : Orderly(t)'
  <1> SUFFICES ASSUME NEW t \in Target \ tainted' PROVE Orderly(t)'
    OBVIOUS
  <1>0. Orderly(t)
    OBVIOUS
  <1>1. ASSUME NEW u \in Task \ {q} PROVE Busy(u, t)' <=> Busy(u, t)
    BY <1>1 DEF Busy, LocalsKept
  <1>2. CASE t = t0
    <2>1. \A u \in Task \ {q} : ~Busy(u, t)'
      BY <1>1, <1>2
    <2>2. Busy(q, t)' <=> pc'[q] # "idle"
      BY <1>2 DEF Busy
    <2>3. CASE pc'[q] = "idle"
      <3>1. Settled(t)'
        BY <1>2, <2>3
      <3>2. \A u \in Task : ~Busy(u, t)'
        BY <2>1, <2>2, <2>3
      <3> QED
        BY <3>1, <3>2 DEF Orderly
    <2>4. CASE pc'[q] # "idle"
      <3>1. Stage(q)' /\ Busy(q, t)'
        BY <1>2, <2>2, <2>4
      <3> QED
        BY <2>1, <3>1 DEF Orderly
    <2> QED
      BY <2>3, <2>4
  <1>3. CASE t # t0
    <2>1. ~Busy(q, t) /\ ~Busy(q, t)'
      BY <1>3 DEF Busy
    <2>2. Untouched(t)
      BY <1>3
    <2>3. \A u, v \in Task : Busy(u, t)' /\ Busy(v, t)' => u = v
      BY <1>0, <1>1, <2>1 DEF Orderly
    <2>4. t \notin booting' /\ (\A u \in Task : ~Busy(u, t)') => Settled(t)'
      BY <1>0, <1>1, <2>1, <2>2, SettledKept DEF Orderly
    <2>5. ASSUME NEW u \in Task, Busy(u, t)' PROVE Stage(u)'
      <3>1. u # q /\ Busy(u, t)
        BY <1>1, <2>1, <2>5
      <3>2. Stage(u) /\ tid[u] = t /\ LocalsKept(u)
        BY <1>0, <3>1 DEF Orderly, Busy
      <3> QED
        BY <2>2, <3>2, StageKept
    <2> QED
      BY <2>3, <2>4, <2>5 DEF Orderly
  <1> QED
    BY <1>2, <1>3

\* A step that touches no request and no target.
LEMMA Idles ==
    ASSUME Inv, \A t \in Target \ tainted : Orderly(t), CfgsKept,
           UNCHANGED <<booting, tainted>>, \A u \in Task : LocalsKept(u),
           \A t \in Target : Untouched(t)
    PROVE  \A t \in Target \ tainted' : Orderly(t)'
  <1> SUFFICES ASSUME NEW t \in Target \ tainted' PROVE Orderly(t)'
    OBVIOUS
  <1>0. Orderly(t) /\ Untouched(t)
    OBVIOUS
  <1>1. ASSUME NEW u \in Task PROVE Busy(u, t)' <=> Busy(u, t)
    BY <1>1 DEF Busy, LocalsKept
  <1>2. \A u, v \in Task : Busy(u, t)' /\ Busy(v, t)' => u = v
    BY <1>0, <1>1 DEF Orderly
  <1>3. t \notin booting' /\ (\A u \in Task : ~Busy(u, t)') => Settled(t)'
    BY <1>0, <1>1, SettledKept DEF Orderly
  <1>4. ASSUME NEW u \in Task, Busy(u, t)' PROVE Stage(u)'
    <2>1. Stage(u) /\ tid[u] = t
      BY <1>0, <1>1, <1>4 DEF Orderly, Busy
    <2> QED
      BY <1>0, <2>1, StageKept
  <1> QED
    BY <1>2, <1>3, <1>4 DEF Orderly


\* A step of a request under way: what it must leave behind follows from the
\* stage it starts from.
LEMMA Proceeds ==
    ASSUME Inv, \A t \in Target \ tainted : Orderly(t), NEW q \in Task,
           NEW t0 \in Target, tid[q] = t0, pc[q] # "idle", CfgsKept,
           UNCHANGED <<booting, tainted>>,
           \A u \in Task \ {q} : LocalsKept(u),
           \A t \in Target \ {t0} : Untouched(t),
           pc'[q] = "idle" \/ tid'[q] = t0,
           Stage(q) => IF pc'[q] = "idle" THEN Settled(t0)' ELSE Stage(q)'
    PROVE  \A t \in Target \ tainted' : Orderly(t)'
  <1>1. t0 \notin tainted => Stage(q) /\ \A u \in Task \ {q} : ~Busy(u, t0)
    BY DEF Orderly, Busy
  <1>2. /\ t0 \in tainted' \/ \A u \in Task \ {q} : ~Busy(u, t0)
        /\ t0 \in tainted' \/ IF pc'[q] = "idle" THEN Settled(t0)'
                              ELSE Stage(q)'
    BY <1>1
  <1>3. tainted \subseteq tainted'
    OBVIOUS
  <1> QED
    BY <1>2, <1>3, Advances

\* A request arrives: whatever it overlaps with is tainted.
LEMMA Arrives ==
    ASSUME Inv, \A t \in Target \ tainted : Orderly(t), NEW q \in Task,
           NEW t0 \in Target, NEW o \in AllOps, Call(q, o, t0), CfgsKept,
           \A u \in Task \ {q} : LocalsKept(u),
           \A t \in Target \ {t0} : Untouched(t),
           pc'[q] # "idle", Settled(t0) => Stage(q)'
    PROVE  \A t \in Target \ tainted' : Orderly(t)'
  <1>1. tid'[q] = t0
    BY DEF Call, Inv, TypeOK, RequestsOK
  <1>2. t0 \in tainted' \/ \A u \in Task \ {q} : ~Busy(u, t0)
    BY DEF Call, Busy
  <1>3. tainted \subseteq tainted' /\ pc[q] = "idle" /\ booting = {}
    BY DEF Call
  <1>4. ASSUME t0 \notin tainted' PROVE Settled(t0)
    <2>1. Orderly(t0)
      BY <1>3, <1>4
    <2>2. \A u \in Task : ~Busy(u, t0)
      BY <1>2, <1>3, <1>4 DEF Busy
    <2> QED
      BY <1>3, <2>1, <2>2 DEF Orderly
  <1>5. t0 \in tainted' \/ IF pc'[q] = "idle" THEN Settled(t0)' ELSE Stage(q)'
    BY <1>4
  <1>6. UNCHANGED booting
    BY DEF Call
  <1> QED
    BY <1>1, <1>2, <1>3, <1>5, <1>6, Advances

\* At first boot every enabled target is still to be started.
LEMMA MatchingInit == Init => Matching
  <1> SUFFICES ASSUME Init PROVE Matching
    OBVIOUS
  <1>1. ASSUME NEW t \in Target PROVE Orderly(t)
    BY DEF Init, NoRequests, Orderly, Busy, Settled
  <1> QED
    BY <1>1 DEF Init, NoRequests, Matching

\* A signal to a worker leaves every configuration alone, and so does a change
\* of its state.
LEMMA MarkKeepsCfg ==
    ASSUME NEW ws \in Seq(WorkerRecord), NEW w \in DOMAIN ws, NEW x
    PROVE  /\ DOMAIN [ws EXCEPT ![w].signal = x] = DOMAIN ws
           /\ DOMAIN [ws EXCEPT ![w].st = x] = DOMAIN ws
           /\ \A i \in DOMAIN ws :
                 /\ [ws EXCEPT ![w].signal = x][i].cfg = ws[i].cfg
                 /\ [ws EXCEPT ![w].st = x][i].cfg = ws[i].cfg
  <1>1. \A i \in DOMAIN ws : ws[i] \in WorkerRecord
    OBVIOUS
  <1> QED
    BY <1>1 DEF WorkerRecord

\* Dropping a sender leaves every configuration alone too.
LEMMA DroppedKeepsCfg ==
    ASSUME NEW ws \in Seq(WorkerRecord), NEW w \in DOMAIN ws \cup {None}
    PROVE  /\ DOMAIN Dropped(ws, w) = DOMAIN ws
           /\ \A i \in DOMAIN ws : Dropped(ws, w)[i].cfg = ws[i].cfg
  <1>1. CASE w = None \/ ws[w].signal # "none"
    BY <1>1 DEF Dropped
  <1>2. CASE w # None /\ ws[w].signal = "none"
    <2>1. /\ w \in DOMAIN ws
          /\ Dropped(ws, w) = [ws EXCEPT ![w].signal = "dropped"]
      BY <1>2 DEF Dropped
    <2> QED
      BY <2>1, MarkKeepsCfg
  <1> QED
    BY <1>1, <1>2

-----------------------------------------------------------------------------
(* Every step keeps the store and the workers matched *)

\* start_enabled_targets: the target that is started settles.
LEMMA BootMatches ==
    ASSUME Inv, Matching, NEW t0 \in Target, BootStart(t0)
    PROVE  Matching'
  <1>1. /\ worker \in Seq(WorkerRecord)
        /\ Spawned(t0, store[t0].cfg) \in WorkerRecord
        /\ t0 \in Enabled(store)
        /\ \A q \in Task : pc[q] = "idle"
    BY DEF Inv, TypeOK, TargetsOK, HandlesOK, BootFirst, BootStart, Enabled,
           PushTarget, Spawned, WorkerRecord
  <1>2. PICK v : v = Append(worker, Spawned(t0, store[t0].cfg))
    OBVIOUS
  <1>3. PICK n : n = Len(worker) + 1
    OBVIOUS
  <1>4. /\ DOMAIN v = DOMAIN worker \cup {n}
        /\ v[n] = Spawned(t0, store[t0].cfg)
        /\ \A i \in DOMAIN worker : v[i] = worker[i]
    BY <1>1, <1>2, <1>3, AppendWorker
  <1>5. worker' = v /\ handles' = Put(handles, t0, n)
    BY <1>2, <1>3 DEF BootStart
  <1>6. CfgsKept
    BY <1>4, <1>5 DEF CfgsKept
  <1>7. v[n].cfg = store[t0].cfg
    BY <1>4 DEF Spawned
  <1>8. t0 \in DOMAIN handles' /\ handles'[t0] = n
    BY <1>5 DEF Put
  <1>9. UNCHANGED <<store, pc, tid, created, tainted>>
        /\ booting' = booting \ {t0}
    BY DEF BootStart, locals
  <1>10. Settled(t0)'
    BY <1>1, <1>5, <1>7, <1>8, <1>9 DEF Settled
  <1>11. ASSUME NEW t \in Target \ {t0} PROVE Untouched(t)
    BY <1>5, <1>9, <1>11 DEF Untouched, Put
  <1>12. ASSUME NEW t \in Target \ tainted' PROVE Orderly(t)'
    <2>1. \A u \in Task : ~Busy(u, t) /\ ~Busy(u, t)'
      BY <1>1, <1>9 DEF Busy
    <2>2. t \notin booting' => Settled(t)'
      <3>1. CASE t = t0
        BY <1>10, <3>1
      <3>2. CASE t # t0
        <4>1. Orderly(t) /\ Untouched(t)
          BY <1>9, <1>11, <1>12, <3>2 DEF Matching
        <4>2. t \notin booting' => Settled(t)
          BY <1>9, <2>1, <3>2, <4>1 DEF Orderly
        <4> QED
          BY <1>6, <4>1, <4>2, SettledKept
      <3> QED
        BY <3>1, <3>2
    <2> QED
      BY <2>1, <2>2 DEF Orderly
  <1> QED
    BY <1>9, <1>12 DEF Matching

\* create_target: the new target is saved, and runs only once it is started.
LEMMA CreateMatches ==
    ASSUME Inv, Matching, NEW q \in Task, NEW t0 \in Target,
           NEW p \in PushTarget, CreateTarget(q, t0, p)
    PROVE  Matching'
  <1>1. Call(q, "create", t0)
    BY DEF CreateTarget
  <1>2. /\ pc \in [Task -> Labels] /\ op \in [Task -> AllOps \cup {"none"}]
        /\ tid \in [Task -> Target] /\ snap \in [Task -> PushTarget]
    BY DEF Inv, TypeOK, RequestsOK
  <1>3. /\ op'[q] = "create" /\ tid'[q] = t0 /\ snap'[q] = p
        /\ pc'[q] = (IF p.enabled THEN "startRemove" ELSE "done")
    BY <1>1, <1>2 DEF CreateTarget, Call, Goto
  <1>4. \A u \in Task \ {q} : LocalsKept(u)
    BY <1>1, <1>2 DEF CreateTarget, Call, Goto, LocalsKept
  <1>5. CfgsKept /\ \A t \in Target \ {t0} : Untouched(t)
    BY DEF CreateTarget, CfgsKept, Untouched, Put
  <1>6. t0 \in DOMAIN store' /\ store'[t0] = p
    BY DEF CreateTarget, Put
  <1>7. ASSUME Settled(t0) PROVE Stage(q)'
    <2>1. t0 \notin DOMAIN handles
      BY <1>7 DEF Settled, Enabled, Matching, CreateTarget
    <2>2. Saved(q)'
      BY <1>3, <1>6 DEF Saved
    <2>3. ~p.enabled => Settled(t0)'
      BY <1>6, <2>1 DEF Settled, Enabled, CreateTarget
    <2>4. CASE p.enabled
      BY <1>3, <2>2, <2>4 DEF Stage, Stopping, Starting
    <2>5. CASE ~p.enabled
      BY <1>3, <2>3, <2>5 DEF Stage, Stopping, Starting, Settled
    <2> QED
      BY <2>4, <2>5
  <1>8. pc'[q] # "idle" /\ "create" \in AllOps
    BY <1>3 DEF AllOps
  <1>9. \A t \in Target \ tainted' : Orderly(t)'
    BY <1>1, <1>4, <1>5, <1>7, <1>8, Arrives DEF Matching
  <1>10. DOMAIN store' \subseteq created'
    BY DEF Matching, CreateTarget, Put
  <1>11. \A u \in Task : pc'[u] = "save" => tid'[u] \in created'
    BY <1>3, <1>4 DEF Matching, LocalsKept, CreateTarget
  <1> QED
    BY <1>9, <1>10, <1>11 DEF Matching

\* update_target, start_target and stop_target start from the stored target.
LEMMA LoadMatches ==
    ASSUME Inv, Matching, NEW q \in Task, NEW t0 \in Target,
           NEW p \in PushTarget, NEW o \in {"update", "start", "stop"},
           LoadTarget(q, o, t0, p)
    PROVE  Matching'
  <1>1. Call(q, o, t0) /\ o \in AllOps
    BY DEF LoadTarget, AllOps
  <1>2. /\ pc \in [Task -> Labels] /\ op \in [Task -> AllOps \cup {"none"}]
        /\ tid \in [Task -> Target] /\ snap \in [Task -> PushTarget]
        /\ store \in [DOMAIN store -> PushTarget]
    BY DEF Inv, TypeOK, RequestsOK, TargetsOK
  <1>3. op'[q] = o /\ tid'[q] = t0 /\ snap'[q] = p /\ pc'[q] = "save"
    BY <1>1, <1>2 DEF LoadTarget, Call, Goto
  <1>4. \A u \in Task \ {q} : LocalsKept(u)
    BY <1>1, <1>2 DEF LoadTarget, Call, Goto, LocalsKept
  <1>5. CfgsKept /\ \A t \in Target : Untouched(t)
    BY DEF LoadTarget, CfgsKept, Untouched
  <1>6. (o = "start" => p.enabled) /\ (o = "stop" => ~p.enabled)
    BY <1>2 DEF LoadTarget, PushTarget
  <1>7. ASSUME Settled(t0) PROVE Stage(q)'
    <2>1. Settled(t0)'
      BY <1>5, <1>7, SettledKept
    <2> QED
      BY <1>3, <1>6, <2>1 DEF Stage, Stopping, Starting, Settled
  <1>8. \A t \in Target \ tainted' : Orderly(t)'
    BY <1>1, <1>3, <1>4, <1>5, <1>7, Arrives DEF Matching
  <1>9. DOMAIN store' \subseteq created' /\ t0 \in created'
    BY DEF Matching, LoadTarget
  <1>10. \A u \in Task : pc'[u] = "save" => tid'[u] \in created'
    BY <1>3, <1>4, <1>9 DEF Matching, LocalsKept, LoadTarget
  <1> QED
    BY <1>8, <1>9, <1>10 DEF Matching

\* delete_target stops the target before it forgets it.
LEMMA DeleteMatches ==
    ASSUME Inv, Matching, NEW q \in Task, NEW t0 \in Target,
           DeleteTarget(q, t0)
    PROVE  Matching'
  <1>1. Call(q, "delete", t0) /\ "delete" \in AllOps
    BY DEF DeleteTarget, AllOps
  <1>2. /\ pc \in [Task -> Labels] /\ op \in [Task -> AllOps \cup {"none"}]
        /\ tid \in [Task -> Target]
    BY DEF Inv, TypeOK, RequestsOK
  <1>3. op'[q] = "delete" /\ tid'[q] = t0 /\ pc'[q] = "stopRemove"
    BY <1>1, <1>2 DEF DeleteTarget, Call, Goto
  <1>4. \A u \in Task \ {q} : LocalsKept(u)
    BY <1>1, <1>2 DEF DeleteTarget, Call, Goto, LocalsKept
  <1>5. CfgsKept /\ \A t \in Target : Untouched(t)
    BY DEF DeleteTarget, CfgsKept, Untouched
  <1>6. Stage(q)'
    BY <1>3 DEF Stage, Stopping, Starting
  <1>7. \A t \in Target \ tainted' : Orderly(t)'
    BY <1>1, <1>3, <1>4, <1>5, <1>6, Arrives DEF Matching
  <1>8. \A u \in Task : pc'[u] = "save" => tid'[u] \in created'
    BY <1>3, <1>4 DEF Matching, LocalsKept, DeleteTarget
  <1> QED
    BY <1>7, <1>8 DEF Matching, DeleteTarget

\* save_target: the edited copy is stored.
LEMMA SaveMatches ==
    ASSUME Inv, Matching, NEW q \in Task, SaveTarget(q)
    PROVE  Matching'
  <1>1. PICK t0 \in Target : t0 = tid[q]
    BY DEF Inv, TypeOK, RequestsOK
  <1>2. pc \in [Task -> Labels] /\ pc[q] = "save"
    BY DEF Inv, TypeOK, RequestsOK, SaveTarget
  <1>3. /\ UNCHANGED <<op, tid, snap, held, handles, worker, booting, created,
                       tainted>>
        /\ pc'[q] = (IF op[q] = "start" THEN "startRemove" ELSE "stopRemove")
        /\ \A u \in Task \ {q} : LocalsKept(u)
    BY <1>2 DEF SaveTarget, Keep, Goto, LocalsKept
  <1>4. CfgsKept /\ \A t \in Target \ {t0} : Untouched(t)
    BY <1>1, <1>3 DEF SaveTarget, CfgsKept, Untouched, Put
  <1>5. t0 \in DOMAIN store' /\ store'[t0] = snap[q]
    BY <1>1 DEF SaveTarget, Put
  <1>6. Saved(q)'
    BY <1>1, <1>3, <1>5 DEF Saved
  <1>7. Stage(q) => Stage(q)'
    BY <1>2, <1>3, <1>6 DEF Stage, Stopping, Starting
  <1>8. \A t \in Target \ tainted' : Orderly(t)'
    BY <1>1, <1>2, <1>3, <1>4, <1>7, Proceeds DEF Matching
  <1>9. DOMAIN store' \subseteq created'
    BY <1>1, <1>2, <1>3 DEF Matching, SaveTarget, Put
  <1>10. \A u \in Task : pc'[u] = "save" => tid'[u] \in created'
    BY <1>3 DEF Matching, LocalsKept
  <1> QED
    BY <1>8, <1>9, <1>10 DEF Matching

\* Where a request goes once its stop() is done: the target is not running,
\* and it is done with only if it is stored as stopped.
LEMMA StoppedStage ==
    ASSUME Inv, NEW q \in Task, Stage(q), pc[q] \in Stopping,
           tid[q] \notin DOMAIN handles,
           UNCHANGED <<op, tid, snap, store, handles>>,
           pc'[q] = AfterStop(q)
    PROVE  Stage(q)'
  <1>1. /\ op[q] \in {"update", "stop", "delete"}
        /\ op[q] # "delete" => Saved(q)
    BY DEF Stage
  <1>2. (op[q] # "delete" => Saved(q)') /\ tid'[q] \notin DOMAIN handles'
    BY <1>1 DEF Saved
  <1>3. CASE op[q] = "delete"
    <2>1. pc'[q] = "unstore"
      BY <1>3 DEF AfterStop
    <2> QED
      BY <1>2, <1>3, <2>1 DEF Stage, Stopping, Starting
  <1>4. CASE op[q] = "update" /\ snap[q].enabled
    <2>1. pc'[q] = "startRemove"
      BY <1>4 DEF AfterStop
    <2> QED
      BY <1>2, <1>4, <2>1 DEF Stage, Stopping, Starting
  <1>5. CASE op[q] # "delete" /\ ~(op[q] = "update" /\ snap[q].enabled)
    <2>1. pc'[q] = "done"
      BY <1>5 DEF AfterStop
    <2>2. ~snap[q].enabled
      BY <1>1, <1>5 DEF Stage
    <2>3. Settled(tid[q])'
      BY <1>1, <1>2, <1>5, <2>2 DEF Settled, Saved, Enabled
    <2> QED
      BY <1>1, <1>5, <2>1, <2>2, <2>3 DEF Stage, Stopping, Starting
  <1> QED
    BY <1>3, <1>4, <1>5

\* PushScheduler::stop takes the handle out, or finds none.
LEMMA RemoveMatches ==
    ASSUME Inv, Matching, NEW q \in Task, RemoveHandle(q)
    PROVE  Matching'
  <1>1. PICK t0 \in Target : t0 = tid[q]
    BY DEF Inv, TypeOK, RequestsOK
  <1>2. /\ pc \in [Task -> Labels] /\ held \in [Task -> Nat]
        /\ pc[q] \in {"stopRemove", "startRemove"}
    BY DEF Inv, TypeOK, RequestsOK, RemoveHandle
  <1>3. /\ UNCHANGED <<op, tid, snap, store, worker, booting, created, tainted>>
        /\ \A u \in Task \ {q} : LocalsKept(u)
    BY <1>2 DEF RemoveHandle, Goto, LocalsKept
  <1>4. CfgsKept /\ \A t \in Target \ {t0} : Untouched(t)
    BY <1>1, <1>3 DEF RemoveHandle, CfgsKept, Untouched, Drop
  <1>5. t0 \notin DOMAIN handles'
    BY <1>1 DEF RemoveHandle, Drop
  <1>6. Saved(q) => Saved(q)'
    BY <1>3 DEF Saved
  <1>7. /\ pc'[q] \notin {"idle", "save"}
        /\ Stage(q) => Stage(q)'
    <2>1. CASE t0 \in DOMAIN handles
      <3>1. pc'[q] = (IF pc[q] = "stopRemove" THEN "stopCancel"
                      ELSE "startCancel")
        BY <1>1, <1>2, <2>1 DEF RemoveHandle, Goto
      <3> QED
        BY <1>1, <1>2, <1>3, <1>5, <1>6, <3>1 DEF Stage, Stopping, Starting
    <2>2. CASE t0 \notin DOMAIN handles /\ pc[q] = "stopRemove"
      <3>1. pc'[q] = AfterStop(q) /\ UNCHANGED handles /\ pc[q] \in Stopping
        BY <1>1, <1>2, <2>2 DEF RemoveHandle, Goto, Stopping
      <3>2. Stage(q) => Stage(q)'
        BY <1>1, <1>3, <2>2, <3>1, StoppedStage
      <3> QED
        BY <3>1, <3>2 DEF AfterStop
    <2>3. CASE t0 \notin DOMAIN handles /\ pc[q] = "startRemove"
      <3>1. pc'[q] = "spawn"
        BY <1>1, <1>2, <2>3 DEF RemoveHandle, Goto
      <3> QED
        BY <1>1, <1>3, <1>5, <1>6, <2>3, <3>1 DEF Stage, Stopping, Starting
    <2> QED
      BY <1>2, <2>1, <2>2, <2>3
  <1>8. \A t \in Target \ tainted' : Orderly(t)'
    BY <1>1, <1>2, <1>3, <1>4, <1>7, Proceeds DEF Matching
  <1>9. \A u \in Task : pc'[u] = "save" => tid'[u] \in created'
    BY <1>3, <1>7 DEF Matching, LocalsKept
  <1> QED
    BY <1>3, <1>8, <1>9 DEF Matching

\* The cancel is sent, ...
LEMMA CancelMatches ==
    ASSUME Inv, Matching, NEW q \in Task, SendCancel(q)
    PROVE  Matching'
  <1>1. PICK t0 \in Target : t0 = tid[q]
    BY DEF Inv, TypeOK, RequestsOK
  <1>2. /\ pc \in [Task -> Labels] /\ worker \in Seq(WorkerRecord)
        /\ pc[q] \in {"stopCancel", "startCancel"}
        /\ held[q] \in DOMAIN worker
    BY DEF Inv, TypeOK, RequestsOK, HandlesOK, SendCancel
  <1>3. /\ UNCHANGED <<op, tid, snap, held, store, handles, booting, created,
                       tainted>>
        /\ pc'[q] = (IF pc[q] = "stopCancel" THEN "stopJoin" ELSE "startJoin")
        /\ \A u \in Task \ {q} : LocalsKept(u)
    BY <1>2 DEF SendCancel, Keep, Goto, LocalsKept
  <1>4. CfgsKept
    BY <1>2, MarkKeepsCfg DEF SendCancel, CfgsKept
  <1>5. \A t \in Target : Untouched(t)
    BY <1>3 DEF Untouched
  <1>6. Saved(q) => Saved(q)'
    BY <1>3 DEF Saved
  <1>7. Stage(q) => Stage(q)'
    BY <1>2, <1>3, <1>6 DEF Stage, Stopping, Starting
  <1>8. \A t \in Target \ tainted' : Orderly(t)'
    BY <1>1, <1>2, <1>3, <1>4, <1>5, <1>7, Proceeds DEF Matching
  <1>9. \A u \in Task : pc'[u] = "save" => tid'[u] \in created'
    BY <1>3 DEF Matching, LocalsKept
  <1> QED
    BY <1>3, <1>8, <1>9 DEF Matching

\* ... and the worker joined.
LEMMA JoinMatches ==
    ASSUME Inv, Matching, NEW q \in Task, Join(q)
    PROVE  Matching'
  <1>1. PICK t0 \in Target : t0 = tid[q]
    BY DEF Inv, TypeOK, RequestsOK
  <1>2. /\ pc \in [Task -> Labels] /\ held \in [Task -> Nat]
        /\ pc[q] \in {"stopJoin", "startJoin"}
    BY DEF Inv, TypeOK, RequestsOK, Join
  <1>3. /\ UNCHANGED <<op, tid, snap, store, handles, worker, booting, created,
                       tainted>>
        /\ pc'[q] = (IF pc[q] = "stopJoin" THEN AfterStop(q) ELSE "spawn")
        /\ \A u \in Task \ {q} : LocalsKept(u)
    BY <1>2 DEF Join, Goto, LocalsKept
  <1>4. CfgsKept /\ \A t \in Target : Untouched(t)
    BY <1>3 DEF CfgsKept, Untouched
  <1>5. Saved(q) => Saved(q)'
    BY <1>3 DEF Saved
  <1>6. /\ pc'[q] \notin {"idle", "save"}
        /\ Stage(q) => Stage(q)'
    <2>1. CASE pc[q] = "stopJoin"
      <3>1. pc'[q] = AfterStop(q) /\ pc[q] \in Stopping
        BY <1>3, <2>1 DEF Stopping
      <3>2. Stage(q) => tid[q] \notin DOMAIN handles
        BY <2>1 DEF Stage
      <3>3. Stage(q) => Stage(q)'
        BY <1>3, <3>1, <3>2, StoppedStage
      <3> QED
        BY <3>1, <3>3 DEF AfterStop
    <2>2. CASE pc[q] = "startJoin"
      <3>1. pc'[q] = "spawn"
        BY <1>3, <2>2
      <3> QED
        BY <1>3, <1>5, <2>2, <3>1 DEF Stage, Stopping, Starting
    <2> QED
      BY <1>2, <2>1, <2>2
  <1>7. \A t \in Target \ tainted' : Orderly(t)'
    BY <1>1, <1>2, <1>3, <1>4, <1>6, Proceeds DEF Matching
  <1>8. \A u \in Task : pc'[u] = "save" => tid'[u] \in created'
    BY <1>3, <1>6 DEF Matching, LocalsKept
  <1> QED
    BY <1>3, <1>7, <1>8 DEF Matching

\* PushScheduler::start spawns a worker of the configuration just stored, ...
LEMMA SpawnMatches ==
    ASSUME Inv, Matching, NEW q \in Task, Spawn(q)
    PROVE  Matching'
  <1>1. PICK t0 \in Target : t0 = tid[q]
    BY DEF Inv, TypeOK, RequestsOK
  <1>2. /\ pc \in [Task -> Labels] /\ held \in [Task -> Nat]
        /\ worker \in Seq(WorkerRecord) /\ pc[q] = "spawn"
        /\ Spawned(t0, snap[q].cfg) \in WorkerRecord
    BY <1>1 DEF Inv, TypeOK, RequestsOK, HandlesOK, Spawn, Spawned, PushTarget,
                WorkerRecord
  <1>3. PICK v : v = Append(worker, Spawned(t0, snap[q].cfg))
    OBVIOUS
  <1>4. PICK n : n = Len(worker) + 1
    OBVIOUS
  <1>5. /\ DOMAIN v = DOMAIN worker \cup {n}
        /\ v[n] = Spawned(t0, snap[q].cfg)
        /\ \A i \in DOMAIN worker : v[i] = worker[i]
    BY <1>2, <1>3, <1>4, AppendWorker
  <1>6. worker' = v /\ held' = [held EXCEPT ![q] = n]
    BY <1>1, <1>3, <1>4 DEF Spawn
  <1>7. /\ UNCHANGED <<op, tid, snap, store, handles, booting, created, tainted>>
        /\ pc' = [pc EXCEPT ![q] = "insert"]
    BY DEF Spawn, Goto
  <1>8. /\ pc'[q] = "insert" /\ held'[q] = n
        /\ \A u \in Task \ {q} : LocalsKept(u)
    BY <1>2, <1>6, <1>7 DEF LocalsKept
  <1>9. CfgsKept /\ \A t \in Target : Untouched(t)
    BY <1>5, <1>6, <1>7 DEF CfgsKept, Untouched
  <1>10. worker'[held'[q]].cfg = snap'[q].cfg
    BY <1>5, <1>6, <1>7, <1>8 DEF Spawned
  <1>11. Saved(q) => Saved(q)'
    BY <1>7 DEF Saved
  <1>12. Stage(q) => Stage(q)'
    BY <1>2, <1>7, <1>8, <1>10, <1>11 DEF Stage, Stopping, Starting
  <1>13. \A t \in Target \ tainted' : Orderly(t)'
    BY <1>1, <1>2, <1>7, <1>8, <1>9, <1>12, Proceeds DEF Matching
  <1>14. \A u \in Task : pc'[u] = "save" => tid'[u] \in created'
    BY <1>7, <1>8 DEF Matching, LocalsKept
  <1> QED
    BY <1>7, <1>13, <1>14 DEF Matching

\* ... and its handle goes into the table.
LEMMA InsertMatches ==
    ASSUME Inv, Matching, NEW q \in Task, InsertHandle(q)
    PROVE  Matching'
  <1>1. PICK t0 \in Target : t0 = tid[q]
    BY DEF Inv, TypeOK, RequestsOK
  <1>2. /\ pc \in [Task -> Labels] /\ held \in [Task -> Nat]
        /\ worker \in Seq(WorkerRecord) /\ pc[q] = "insert"
        /\ held[q] \in DOMAIN worker
        /\ \A t \in DOMAIN handles : handles[t] \in DOMAIN worker
    BY DEF Inv, TypeOK, RequestsOK, HandlesOK, InsertHandle
  <1>3. /\ UNCHANGED <<op, tid, snap, store, booting, created, tainted>>
        /\ pc'[q] = "done"
        /\ handles' = Put(handles, t0, held[q])
        /\ \A u \in Task \ {q} : LocalsKept(u)
    BY <1>1, <1>2 DEF InsertHandle, Goto, LocalsKept
  <1>4. CfgsKept
    BY <1>1, <1>2, DroppedKeepsCfg DEF InsertHandle, CfgsKept
  <1>5. \A t \in Target \ {t0} : Untouched(t)
    BY <1>3 DEF Untouched, Put
  <1>6. t0 \in DOMAIN handles' /\ handles'[t0] = held[q]
    BY <1>3 DEF Put
  <1>7. ASSUME Stage(q) PROVE Stage(q)'
    <2>1. /\ t0 \in DOMAIN store /\ store[t0] = snap[q] /\ snap[q].enabled
          /\ worker[held[q]].cfg = snap[q].cfg
      BY <1>1, <1>2, <1>7 DEF Stage, Starting, Saved
    <2>2. worker'[held[q]].cfg = snap[q].cfg
      BY <1>2, <1>4, <2>1 DEF CfgsKept
    <2>3. Settled(tid[q])'
      BY <1>1, <1>3, <1>6, <2>1, <2>2 DEF Settled, Enabled
    <2> QED
      BY <1>3, <1>7, <2>3 DEF Stage, Stopping, Starting
  <1>8. \A t \in Target \ tainted' : Orderly(t)'
    BY <1>1, <1>2, <1>3, <1>4, <1>5, <1>7, Proceeds DEF Matching
  <1>9. \A u \in Task : pc'[u] = "save" => tid'[u] \in created'
    BY <1>3 DEF Matching, LocalsKept
  <1> QED
    BY <1>3, <1>8, <1>9 DEF Matching

\* delete_target forgets a target that no longer runs.
LEMMA UnstoreMatches ==
    ASSUME Inv, Matching, NEW q \in Task, DeleteStored(q)
    PROVE  Matching'
  <1>1. PICK t0 \in Target : t0 = tid[q]
    BY DEF Inv, TypeOK, RequestsOK
  <1>2. /\ pc \in [Task -> Labels] /\ op \in [Task -> AllOps \cup {"none"}]
        /\ tid \in [Task -> Target] /\ snap \in [Task -> PushTarget]
        /\ held \in [Task -> Nat] /\ pc[q] = "unstore"
    BY DEF Inv, TypeOK, RequestsOK, DeleteStored
  <1>3. /\ UNCHANGED <<handles, worker, booting, created, tainted>>
        /\ store' = Drop(store, t0)
        /\ pc'[q] = "idle"
        /\ \A u \in Task \ {q} : LocalsKept(u)
    BY <1>1, <1>2 DEF DeleteStored, Return, LocalsKept
  <1>4. CfgsKept /\ \A t \in Target \ {t0} : Untouched(t)
    BY <1>3 DEF CfgsKept, Untouched, Drop
  <1>5. Stage(q) => Settled(t0)'
    BY <1>1, <1>2, <1>3 DEF Stage, Settled, Enabled, Drop
  <1>6. \A t \in Target \ tainted' : Orderly(t)'
    BY <1>1, <1>2, <1>3, <1>4, <1>5, Proceeds DEF Matching
  <1>7. \A u \in Task : pc'[u] = "save" => tid'[u] \in created'
    BY <1>3 DEF Matching, LocalsKept
  <1>8. DOMAIN store' \subseteq created'
    BY <1>3 DEF Matching, Drop
  <1> QED
    BY <1>6, <1>7, <1>8 DEF Matching

\* A request that is answered leaves its target settled.
LEMMA RespondMatches ==
    ASSUME Inv, Matching, NEW q \in Task, Respond(q)
    PROVE  Matching'
  <1>1. PICK t0 \in Target : t0 = tid[q]
    BY DEF Inv, TypeOK, RequestsOK
  <1>2. /\ pc \in [Task -> Labels] /\ op \in [Task -> AllOps \cup {"none"}]
        /\ tid \in [Task -> Target] /\ snap \in [Task -> PushTarget]
        /\ held \in [Task -> Nat] /\ pc[q] = "done"
    BY DEF Inv, TypeOK, RequestsOK, Respond
  <1>3. /\ UNCHANGED <<store, handles, worker, booting, created, tainted>>
        /\ pc'[q] = "idle"
        /\ \A u \in Task \ {q} : LocalsKept(u)
    BY <1>2 DEF Respond, Return, LocalsKept
  <1>4. CfgsKept /\ \A t \in Target : Untouched(t)
    BY <1>3 DEF CfgsKept, Untouched
  <1>5. Stage(q) => Settled(t0)'
    BY <1>1, <1>2, <1>4, SettledKept DEF Stage
  <1>6. \A t \in Target \ tainted' : Orderly(t)'
    BY <1>1, <1>2, <1>3, <1>4, <1>5, Proceeds DEF Matching
  <1>7. \A u \in Task : pc'[u] = "save" => tid'[u] \in created'
    BY <1>3 DEF Matching, LocalsKept
  <1> QED
    BY <1>3, <1>6, <1>7 DEF Matching

\* A request that is dropped taints its target and touches no other.
LEMMA DisconnectMatches ==
    ASSUME Inv, Matching, NEW q \in Task, Disconnect(q)
    PROVE  Matching'
  <1>1. PICK t0 \in Target : t0 = tid[q]
    BY DEF Inv, TypeOK, RequestsOK
  <1>2. /\ pc \in [Task -> Labels] /\ op \in [Task -> AllOps \cup {"none"}]
        /\ tid \in [Task -> Target] /\ snap \in [Task -> PushTarget]
        /\ held \in [Task -> Nat] /\ worker \in Seq(WorkerRecord)
        /\ held[q] \in DOMAIN worker \cup {None}
    BY DEF Inv, TypeOK, RequestsOK, HandlesOK
  <1>3. /\ UNCHANGED <<store, handles, booting, created>>
        /\ tainted' = tainted \cup {t0} /\ worker' = Dropped(worker, held[q])
        /\ pc'[q] = "idle"
        /\ \A u \in Task \ {q} : LocalsKept(u)
    BY <1>1, <1>2 DEF Disconnect, Return, LocalsKept
  <1>4. CfgsKept
    BY <1>2, <1>3, DroppedKeepsCfg DEF CfgsKept
  <1>5. \A t \in Target : Untouched(t)
    BY <1>3 DEF Untouched
  <1>6. \A t \in Target \ tainted' : Orderly(t)'
    BY <1>1, <1>3, <1>4, <1>5, Advances DEF Matching
  <1>7. \A u \in Task : pc'[u] = "save" => tid'[u] \in created'
    BY <1>3 DEF Matching, LocalsKept
  <1> QED
    BY <1>3, <1>6, <1>7 DEF Matching

\* A worker that fails, observes a cancel or exits keeps its configuration.
LEMMA WorkerMatches ==
    ASSUME Inv, Matching, NEW w \in DOMAIN worker,
           WorkerStep(w) \/ WorkerFails(w)
    PROVE  Matching'
  <1>1. worker \in Seq(WorkerRecord)
    BY DEF Inv, TypeOK, HandlesOK
  <1>2. PICK x : worker' = [worker EXCEPT ![w].st = x]
    BY DEF WorkerStep, WorkerFails, ObserveCancel, WorkerExit
  <1>3. CfgsKept
    BY <1>1, <1>2, MarkKeepsCfg DEF CfgsKept
  <1>4. UNCHANGED <<store, handles, locals, booting, created, bounds, tainted>>
    BY DEF WorkerStep, WorkerFails, ObserveCancel, WorkerExit
  <1>5. /\ \A t \in Target : Untouched(t)
        /\ \A u \in Task : LocalsKept(u)
    BY <1>4 DEF Untouched, LocalsKept, locals
  <1>6. \A t \in Target \ tainted' : Orderly(t)'
    BY <1>3, <1>4, <1>5, Idles DEF Matching
  <1> QED
    BY <1>4, <1>6 DEF Matching, locals

\* A restart forgets every request and every worker, and boots what the store
\* holds.
LEMMA RestartMatches ==
    ASSUME Inv, Matching, Restart
    PROVE  Matching'
  <1>1. ASSUME NEW t \in Target PROVE Orderly(t)'
    BY DEF Restart, Orderly, Busy, Settled
  <1> QED
    BY <1>1 DEF Restart, Matching

\* Each action keeps the store and the workers matched.
LEMMA MatchingStep == Inv /\ Matching /\ [Next]_vars => Matching'
  <1> SUFFICES ASSUME Inv, Matching, [Next]_vars PROVE Matching'
    OBVIOUS
  <1>1. ASSUME NEW q \in Task, Request(q) PROVE Matching'
    BY <1>1, CreateMatches, LoadMatches, DeleteMatches DEF Request
  <1>2. ASSUME NEW q \in Task, RequestStep(q) PROVE Matching'
    BY <1>2, SaveMatches, RemoveMatches, CancelMatches, JoinMatches,
       SpawnMatches, InsertMatches, UnstoreMatches, RespondMatches
       DEF RequestStep
  <1>3. CASE UNCHANGED vars
    <2>1. /\ UNCHANGED <<booting, tainted, store, created, pc, tid>>
          /\ CfgsKept /\ \A t \in Target : Untouched(t)
          /\ \A u \in Task : LocalsKept(u)
      BY <1>3 DEF vars, locals, CfgsKept, Untouched, LocalsKept
    <2>2. \A t \in Target \ tainted' : Orderly(t)'
      BY <2>1, Idles DEF Matching
    <2> QED
      BY <2>1, <2>2 DEF Matching
  <1> QED
    BY <1>1, <1>2, <1>3, BootMatches, DisconnectMatches, WorkerMatches,
       RestartMatches DEF Next

\* Whatever the other targets' requests do, and across restarts: at rest, a
\* target whose requests never overlapped and were never dropped runs exactly
\* when redb says it is enabled, and with the stored configuration.
THEOREM StoreDecides == Spec => []RunningMatchesStore
  <1>1. Matching => RunningMatchesStore
    BY DEF Matching, RunningMatchesStore, AtRest, Orderly, Busy, Settled
  <1>2. Spec => [](Inv /\ Matching)
    BY InitInv, StepInv, MatchingInit, MatchingStep, PTL DEF Spec
  <1> QED
    BY <1>1, <1>2, PTL
=============================================================================
