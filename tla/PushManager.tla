----------------------------- MODULE PushManager -----------------------------
(***************************************************************************)
(* The control plane of heramind-data-push: PushManager (manager.rs), the   *)
(* handle table of PushScheduler (scheduler.rs) and the life of the workers *)
(* it spawns, one per running push target.                                  *)
(*                                                                          *)
(* The API handlers call the manager under a read lock, so requests on the  *)
(* same target run concurrently: each store transaction and each critical   *)
(* section on the handle table is one action.  A client that disconnects    *)
(* drops its request's future at an await, with everything it owns.         *)
(***************************************************************************)
EXTENDS Integers, Sequences, FiniteSets

CONSTANTS
    Target,      \* push target ids
    Cfg,         \* what a user may configure (schedule, filter, endpoint...)
    Broken,      \* configurations whose worker ends as it starts
    Stored,      \* targets in the store at first boot
    Task,        \* concurrently handled requests
    Ops,         \* the requests in use, and whether clients disconnect
    MaxCalls,    \* bound: requests
    MaxRestarts  \* bound: process restarts

AllOps == {"create", "update", "start", "stop", "delete", "disconnect"}
PushTarget == [enabled: BOOLEAN, cfg: Cfg]

ASSUME CfgAssumption == Cfg # {} /\ Broken \subseteq Cfg
ASSUME TargetAssumption == Target # {}
ASSUME StoredAssumption ==
    /\ DOMAIN Stored \subseteq Target
    /\ Stored \in [DOMAIN Stored -> PushTarget]
ASSUME PushOpsAssumption == Ops \subseteq AllOps
ASSUME PushBoundAssumption == MaxCalls \in Nat /\ MaxRestarts \in Nat

VARIABLES
    store,      \* PushTargetId -> PushTarget, a partial function (redb)
    handles,    \* PushTargetId -> index of its worker, a partial function
    worker,     \* every worker spawned so far
    pc,         \* each request's next step
    op, tid, snap, held,  \* its locals
    booting,    \* targets start_enabled_targets has still to start
    created,    \* ids handed out (uuids: never handed out again)
    calls, restarts,      \* bounds
    tainted     \* history: targets whose requests overlapped or were dropped

locals == <<pc, op, tid, snap, held>>
bounds == <<calls, restarts>>
vars == <<store, handles, worker, locals, booting, created, bounds, tainted>>

None == 0
NoTarget == CHOOSE t \in Target : TRUE
NoSnap == [enabled |-> FALSE, cfg |-> CHOOSE c \in Cfg : TRUE]

Put(f, k, v) == [x \in DOMAIN f \cup {k} |-> IF x = k THEN v ELSE f[x]]
Drop(f, k) == [x \in DOMAIN f \ {k} |-> f[x]]

\* A spawned worker: `signal` is what its cancel receiver has observed, the
\* value sent by ScheduledHandle::stop or the drop of the sender.
Spawned(t, c) == [st |-> "live", target |-> t, cfg |-> c, signal |-> "none"]

\* The sender of worker w is dropped; a value sent before stays visible.
Dropped(ws, w) ==
    IF w = None \/ ws[w].signal # "none" THEN ws
    ELSE [ws EXCEPT ![w].signal = "dropped"]

Goto(q, l) == pc' = [pc EXCEPT ![q] = l]

\* The request returns.
Return(q) ==
    /\ pc' = [pc EXCEPT ![q] = "idle"]
    /\ op' = [op EXCEPT ![q] = "none"]
    /\ tid' = [tid EXCEPT ![q] = NoTarget]
    /\ snap' = [snap EXCEPT ![q] = NoSnap]
    /\ held' = [held EXCEPT ![q] = None]

Keep(q, l) == Goto(q, l) /\ UNCHANGED <<op, tid, snap, held>>

NoRequests ==
    /\ pc = [q \in Task |-> "idle"]
    /\ op = [q \in Task |-> "none"]
    /\ tid = [q \in Task |-> NoTarget]
    /\ snap = [q \in Task |-> NoSnap]
    /\ held = [q \in Task |-> None]

Enabled(s) == {t \in DOMAIN s : s[t].enabled}

Init ==
    /\ store = Stored
    /\ handles = <<>>
    /\ worker = <<>>
    /\ NoRequests
    /\ booting = Enabled(Stored)
    /\ created = DOMAIN Stored
    /\ calls = 0
    /\ restarts = 0
    /\ tainted = {}

-----------------------------------------------------------------------------
(* Start-up: start_enabled_targets, before the server accepts requests *)

BootStart(t) ==
    /\ t \in booting
    /\ worker' = Append(worker, Spawned(t, store[t].cfg))
    /\ handles' = Put(handles, t, Len(worker) + 1)
    /\ booting' = booting \ {t}
    /\ UNCHANGED <<store, locals, created, bounds, tainted>>

-----------------------------------------------------------------------------
(* Requests *)

Call(q, o, t) ==
    /\ o \in Ops
    /\ pc[q] = "idle"
    /\ booting = {}
    /\ calls < MaxCalls
    /\ calls' = calls + 1
    /\ op' = [op EXCEPT ![q] = o]
    /\ tid' = [tid EXCEPT ![q] = t]
    /\ tainted' = IF \E u \in Task \ {q} : pc[u] # "idle" /\ tid[u] = t
                  THEN tainted \cup {t} ELSE tainted
    /\ UNCHANGED <<restarts, booting>>

\* create_target: a fresh id, saved before it is started.
CreateTarget(q, t, p) ==
    /\ Call(q, "create", t)
    /\ t \notin created
    /\ created' = created \cup {t}
    /\ store' = Put(store, t, p)
    /\ snap' = [snap EXCEPT ![q] = p]
    /\ Goto(q, IF p.enabled THEN "startRemove" ELSE "done")
    /\ UNCHANGED <<handles, worker, held>>

\* update_target, start_target and stop_target load the stored target and
\* edit the copy; an unknown id is an error.
LoadTarget(q, o, t, p) ==
    /\ Call(q, o, t)
    /\ t \in DOMAIN store
    /\ o = "start" => p = [store[t] EXCEPT !.enabled = TRUE]
    /\ o = "stop" => p = [store[t] EXCEPT !.enabled = FALSE]
    /\ snap' = [snap EXCEPT ![q] = p]
    /\ Goto(q, "save")
    /\ UNCHANGED <<store, handles, worker, held, created>>

\* save_target: an upsert of the edited copy.
SaveTarget(q) ==
    /\ pc[q] = "save"
    /\ store' = Put(store, tid[q], snap[q])
    /\ Keep(q, IF op[q] = "start" THEN "startRemove" ELSE "stopRemove")
    /\ UNCHANGED <<handles, worker, booting, created, bounds, tainted>>

\* delete_target stops first and does not ask whether the target exists.
DeleteTarget(q, t) ==
    /\ Call(q, "delete", t)
    /\ t \in created
    /\ Goto(q, "stopRemove")
    /\ UNCHANGED <<store, handles, worker, snap, held, created>>

\* update_target that restarts whatever it stopped, without `if enabled`.
AfterStop_restart(q) ==
    IF op[q] = "delete" THEN "unstore"
    ELSE IF op[q] = "update" THEN "startRemove"
    ELSE "done"

\* What follows scheduler.stop when op[q] called it directly.
AfterStop(q) ==
    IF op[q] = "delete" THEN "unstore"
    ELSE IF op[q] = "update" /\ snap[q].enabled THEN "startRemove"
    ELSE "done"

\* PushScheduler::stop, from a request ("stop...") or from start ("start...").
\* The handle is taken out under the lock, the rest happens outside it.
RemoveHandle(q) ==
    /\ pc[q] \in {"stopRemove", "startRemove"}
    /\ \/ /\ tid[q] \in DOMAIN handles
          /\ held' = [held EXCEPT ![q] = handles[tid[q]]]
          /\ handles' = Drop(handles, tid[q])
          /\ Goto(q, IF pc[q] = "stopRemove" THEN "stopCancel"
                     ELSE "startCancel")
       \/ /\ tid[q] \notin DOMAIN handles
          /\ Goto(q, IF pc[q] = "stopRemove" THEN AfterStop(q) ELSE "spawn")
          /\ UNCHANGED <<handles, held>>
    /\ UNCHANGED <<store, worker, op, tid, snap, booting, created, bounds,
                   tainted>>

\* ScheduledHandle::stop without the send: only the join handle is awaited.
SendCancel_forgotten(q) ==
    /\ pc[q] \in {"stopCancel", "startCancel"}
    /\ Keep(q, IF pc[q] = "stopCancel" THEN "stopJoin" ELSE "startJoin")
    /\ UNCHANGED <<store, handles, worker, booting, created, bounds, tainted>>

SendCancel(q) ==
    /\ pc[q] \in {"stopCancel", "startCancel"}
    /\ worker' = [worker EXCEPT ![held[q]].signal = "sent"]
    /\ Keep(q, IF pc[q] = "stopCancel" THEN "stopJoin" ELSE "startJoin")
    /\ UNCHANGED <<store, handles, booting, created, bounds, tainted>>

\* The handle outlives its join.
Join_keeps(q) ==
    /\ pc[q] \in {"stopJoin", "startJoin"}
    /\ worker[held[q]].st = "exited"
    /\ Keep(q, IF pc[q] = "stopJoin" THEN AfterStop(q) ELSE "spawn")
    /\ UNCHANGED <<store, handles, worker, booting, created, bounds, tainted>>

\* join_handle.await, then the handle is dropped.
Join(q) ==
    /\ pc[q] \in {"stopJoin", "startJoin"}
    /\ worker[held[q]].st = "exited"
    /\ held' = [held EXCEPT ![q] = None]
    /\ Goto(q, IF pc[q] = "stopJoin" THEN AfterStop(q) ELSE "spawn")
    /\ UNCHANGED <<store, handles, worker, op, tid, snap, booting, created,
                   bounds, tainted>>

\* PushScheduler::start: spawn the task...
Spawn(q) ==
    /\ pc[q] = "spawn"
    /\ worker' = Append(worker, Spawned(tid[q], snap[q].cfg))
    /\ held' = [held EXCEPT ![q] = Len(worker) + 1]
    /\ Goto(q, "insert")
    /\ UNCHANGED <<store, handles, op, tid, snap, booting, created, bounds,
                   tainted>>

\* ... and insert with entry().or_insert: the handle of a concurrent start
\* stays, this worker's handle is dropped (detached, never cancelled).
InsertHandle_keepFirst(q) ==
    /\ pc[q] = "insert"
    /\ handles' = IF tid[q] \in DOMAIN handles THEN handles
                  ELSE Put(handles, tid[q], held[q])
    /\ held' = [held EXCEPT ![q] = None]
    /\ Goto(q, "done")
    /\ UNCHANGED <<store, worker, op, tid, snap, booting, created, bounds,
                   tainted>>

\* ... then insert its handle under the lock.  A handle that a concurrent
\* start put there meanwhile is dropped, and its cancel sender with it.
InsertHandle(q) ==
    /\ pc[q] = "insert"
    /\ worker' = IF tid[q] \in DOMAIN handles
                 THEN Dropped(worker, handles[tid[q]]) ELSE worker
    /\ handles' = Put(handles, tid[q], held[q])
    /\ held' = [held EXCEPT ![q] = None]
    /\ Goto(q, "done")
    /\ UNCHANGED <<store, op, tid, snap, booting, created, bounds, tainted>>

\* delete_target, after the stop.
DeleteStored(q) ==
    /\ pc[q] = "unstore"
    /\ store' = Drop(store, tid[q])
    /\ Return(q)
    /\ UNCHANGED <<handles, worker, booting, created, bounds, tainted>>

Respond(q) ==
    /\ pc[q] = "done"
    /\ Return(q)
    /\ UNCHANGED <<store, handles, worker, booting, created, bounds, tainted>>

\* The client goes away: the server drops the request's future where it
\* awaits, the handles.write() locks and the join, and with it the handle the
\* request holds, if any.
Disconnect(q) ==
    /\ "disconnect" \in Ops
    /\ pc[q] \in {"stopRemove", "startRemove", "stopJoin", "startJoin",
                  "insert"}
    /\ worker' = Dropped(worker, held[q])
    /\ tainted' = tainted \cup {tid[q]}
    /\ Return(q)
    /\ UNCHANGED <<store, handles, booting, created, bounds>>

-----------------------------------------------------------------------------
(* Workers *)

\* No destination can be created, or an interval of 0 s panics: the task ends
\* as it starts, and its handle stays.
WorkerFails(w) ==
    /\ worker[w].st = "live"
    /\ worker[w].cfg \in Broken
    /\ worker' = [worker EXCEPT ![w].st = "exited"]
    /\ UNCHANGED <<store, handles, locals, booting, created, bounds, tainted>>

\* A loop that tests the value sent, not the end of the channel.
ObserveCancel_valueOnly(w) ==
    /\ worker[w].st = "live"
    /\ worker[w].signal = "sent"
    /\ worker' = [worker EXCEPT ![w].st = "draining"]
    /\ UNCHANGED <<store, handles, locals, booting, created, bounds, tainted>>

\* The select! arm of cancel.changed(), which also resolves (with an error)
\* when the sender is gone: the worker starts its final flush.
ObserveCancel(w) ==
    /\ worker[w].st = "live"
    /\ worker[w].signal # "none"
    /\ worker' = [worker EXCEPT ![w].st = "draining"]
    /\ UNCHANGED <<store, handles, locals, booting, created, bounds, tainted>>

\* The final flush ends, after 30 s at the latest, and the task returns.
WorkerExit(w) ==
    /\ worker[w].st = "draining"
    /\ worker' = [worker EXCEPT ![w].st = "exited"]
    /\ UNCHANGED <<store, handles, locals, booting, created, bounds, tainted>>

Killed(r) == [r EXCEPT !.st = "exited", !.signal = "dropped"]

\* The process dies and starts again from the store.
Restart ==
    /\ restarts < MaxRestarts
    /\ restarts' = restarts + 1
    /\ handles' = <<>>
    /\ worker' = [w \in DOMAIN worker |-> Killed(worker[w])]
    /\ pc' = [q \in Task |-> "idle"]
    /\ op' = [q \in Task |-> "none"]
    /\ tid' = [q \in Task |-> NoTarget]
    /\ snap' = [q \in Task |-> NoSnap]
    /\ held' = [q \in Task |-> None]
    /\ booting' = Enabled(store)
    /\ tainted' = {}
    /\ UNCHANGED <<store, created, calls>>

RequestStep(q) ==
    \/ SaveTarget(q)
    \/ RemoveHandle(q)
    \/ SendCancel(q)
    \/ Join(q)
    \/ Spawn(q)
    \/ InsertHandle(q)
    \/ DeleteStored(q)
    \/ Respond(q)

WorkerStep(w) == ObserveCancel(w) \/ WorkerExit(w)

Request(q) ==
    \E t \in Target :
        \/ \E p \in PushTarget :
              \/ CreateTarget(q, t, p)
              \/ \E o \in {"update", "start", "stop"} : LoadTarget(q, o, t, p)
        \/ DeleteTarget(q, t)

Next ==
    \/ \E t \in Target : BootStart(t)
    \/ \E q \in Task : Request(q) \/ RequestStep(q) \/ Disconnect(q)
    \/ \E w \in DOMAIN worker : WorkerStep(w) \/ WorkerFails(w)
    \/ Restart

Spec == Init /\ [][Next]_vars

\* tokio polls every task that is ready, so a request that does not wait and a
\* worker that has something to observe make progress; select! picks among
\* its ready arms at random, so the cancel arm is not passed over forever.
\* Clients, disconnects and restarts owe nothing.
MaxWorkers == Cardinality(DOMAIN Stored) + Cardinality(Target) * MaxRestarts
              + MaxCalls
Fairness ==
    /\ \A q \in Task : WF_vars(RequestStep(q))
    /\ \A w \in 1..MaxWorkers : WF_vars(w \in DOMAIN worker /\ WorkerStep(w))
FairSpec == Spec /\ Fairness

-----------------------------------------------------------------------------
(* Properties *)

Labels == {"idle", "save", "stopRemove", "stopCancel", "stopJoin",
           "startRemove", "startCancel", "startJoin", "spawn", "insert",
           "unstore", "done"}
WorkerRecord == [st: {"live", "draining", "exited"}, target: Target, cfg: Cfg,
                 signal: {"none", "sent", "dropped"}]

TargetsOK ==
    /\ DOMAIN store \subseteq Target
    /\ store \in [DOMAIN store -> PushTarget]
    /\ booting \subseteq Enabled(store)
    /\ created \subseteq Target
    /\ tainted \subseteq Target
    /\ calls \in Nat
    /\ restarts \in Nat

HandlesOK ==
    /\ worker \in Seq(WorkerRecord)
    /\ DOMAIN handles \subseteq Target
    /\ \A t \in DOMAIN handles : /\ handles[t] \in DOMAIN worker
                                 /\ worker[handles[t]].target = t

RequestsOK ==
    /\ pc \in [Task -> Labels]
    /\ op \in [Task -> AllOps \cup {"none"}]
    /\ tid \in [Task -> Target]
    /\ snap \in [Task -> PushTarget]
    /\ held \in [Task -> Nat]
    /\ \A q \in Task :
          IF pc[q] \in {"stopCancel", "stopJoin", "startCancel", "startJoin",
                       "insert"}
          THEN held[q] \in DOMAIN worker /\ worker[held[q]].target = tid[q]
          ELSE held[q] = None

\* The store, the handle table and the requests hold what manager.rs and
\* scheduler.rs let them hold: every handle is the handle of a worker of its
\* own target, and a request owns one exactly while it stops or starts it.
TypeOK == TargetsOK /\ HandlesOK /\ RequestsOK

\* Some request is about to cancel worker w, or to insert its handle.
Owned(w) == \E q \in Task : held[q] = w

\* No worker is leaked: one that still runs, and that nothing has told to
\* stop, is the one the handle table names for its target, or a request holds
\* its handle.  So however starts, stops, updates, deletes and disconnects of
\* one target interleave, at rest a target pushes from one worker at most, and
\* stop() can reach it.
NoLeak ==
    \A w \in DOMAIN worker :
        worker[w].st = "live" /\ worker[w].signal = "none" =>
            \/ /\ worker[w].target \in DOMAIN handles
               /\ handles[worker[w].target] = w
            \/ Owned(w)

AtRest == booting = {} /\ \A q \in Task : pc[q] = "idle"

\* At rest, a target whose requests never overlapped and were never dropped
\* runs exactly when the store says it is enabled, with the stored
\* configuration, and after a restart as before it.
RunningMatchesStore ==
    AtRest =>
        \A t \in Target \ tainted :
            /\ t \in DOMAIN handles <=> t \in Enabled(store)
            /\ t \in DOMAIN handles =>
                   worker[handles[t]].cfg = store[t].cfg

\* What stop_push_target_handler answers, "Push target stopped": once every
\* request is answered, a target that is stored as stopped is not running.
StoppedNotRunning ==
    AtRest =>
        \A t \in DOMAIN store : ~store[t].enabled => t \notin DOMAIN handles

\* A worker that was cancelled, or whose handle was overwritten by a
\* concurrent start or dropped by a disconnect, terminates.
OrphanExits ==
    \A w \in 1..MaxWorkers :
        (w \in DOMAIN worker /\ worker[w].signal # "none")
            ~> (w \in DOMAIN worker /\ worker[w].st = "exited")

\* Every request that is not abandoned is answered: no stop waits forever for
\* a join, whoever else starts or stops the target.
RequestsReturn ==
    \A q \in Task : (pc[q] # "idle") ~> (pc[q] = "idle")

=============================================================================
