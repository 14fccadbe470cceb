-------------------------- MODULE ExtensionManager --------------------------
(***************************************************************************)
(* The manager of the isolated extensions (extension/isolated/manager.rs):  *)
(* load and unload, commands with their lazy restart, and the task that     *)
(* restarts extensions that died.  One extension id; every load makes a new *)
(* object (ExtensionProcess is the inside of one).                          *)
(*                                                                          *)
(* The tasks meet in three places: the map `extensions` behind a read-write *)
(* lock, which a command holds for reading until it has its answer and an   *)
(* unload for writing until the process has stopped; the loading lock of    *)
(* the id, a mutex in a table from which it is removed by name; and the     *)
(* info cache with the restart counters.                                    *)
(***************************************************************************)
EXTENDS Integers, Sequences, FiniteSets

CONSTANTS
    Command,      \* calls of execute_command
    Loader,       \* calls of load by the API
    Unloader,     \* calls of unload
    Scenarios,    \* bound: the calls that happen (`calls`), whether the id is
                  \* read from a manifest (`manifest`), restart_on_crash
                  \* (`restart`), what may go wrong (`faults`), and how long
                  \* the clock runs (`until`)
    MaxAttempts,  \* max_restart_attempts
    CooldownTime, \* restart_cooldown_secs
    Hour,         \* after which the budget is fresh
    Capacity,     \* notifications the death channel holds
    MaxTime,      \* bound: the clock
    MaxObject,    \* bound: objects, that is spawns
    MaxLock       \* bound: mutexes in the table of loading locks

Monitor == "monitor"
Task == Command \cup Loader \cup Unloader \cup {Monitor}
Object == 1..MaxObject
Never == -1
Free == "free"

ASSUME ManagerAssumption ==
    /\ {MaxAttempts, Hour, Capacity, MaxTime, MaxObject, MaxLock} \subseteq Nat \ {0}
    /\ CooldownTime \in 0..Hour
    /\ {Monitor, Free} \cap (Command \cup Loader \cup Unloader) = {}
    /\ Command \cap (Loader \cup Unloader) = {} /\ Loader \cap Unloader = {}
    /\ \A s \in Scenarios : s.calls \subseteq Task /\ s.until \in 0..MaxTime

VARIABLES
    scene,      \* the scenario
    now,        \* the clock
    object,     \* the objects: none, starting, up, leaving (dropped, with a
                \* child that is still there) or dead
    listening,  \* objects whose death notification is set
    heard,      \* objects whose death was notified
    bell,       \* notifications the monitor has not received; one more than
                \* the channel holds when some were overwritten
    ext,        \* `extensions`: the object under the id, or 0
    readers,    \* tasks that hold the lock of `extensions` for reading
    writer,     \* the task that holds it for writing
    info,       \* `info_cache`: restart_count and last_restart_at
    table,      \* `loading_locks`: the mutex under the id, or 0
    locks,      \* mutexes made so far
    holder,     \* the holder of each mutex
    at, mine,   \* where each task is, the mutex and the object it works on,
                \* and whether it is blocked in a write to that object
    refused,    \* history: objects for which on_crash_recovery_failed ran
    restarts,   \* history: when the extension was restarted since it was
                \* last unloaded
    lost,       \* history: objects whose notification the monitor skipped
    torn        \* history: what `load` relies on was taken away: a mutex in
                \* use left the table, or a live object the map

memory == <<ext, readers, writer, info>>
mutexes == <<table, locks, holder>>
objects == <<object, listening, heard, bell>>
history == <<refused, restarts, lost, torn>>
vars == <<scene, now, objects, memory, mutexes, at, mine, history>>

NoInfo == [present |-> FALSE, count |-> 0, last |-> Never]
NoWork == [lock |-> 0, object |-> 0, blocked |-> FALSE]

Init ==
    /\ scene \in Scenarios
    /\ now = 0
    /\ object = [o \in Object |-> IF o = 1 THEN "up" ELSE "none"]
    /\ listening = {1} /\ heard = {} /\ bell = 0
    /\ ext = 1 /\ readers = {} /\ writer = Free
    /\ info = [NoInfo EXCEPT !.present = TRUE]
    /\ table = IF scene.manifest THEN 1 ELSE 0
    /\ locks = 1
    /\ holder = [k \in 1..MaxLock |-> Free]
    /\ at = [t \in Task |-> IF t = Monitor THEN "recv" ELSE "idle"]
    /\ mine = [t \in Task |-> NoWork]
    /\ refused = {} /\ restarts = <<>> /\ lost = {} /\ torn = FALSE

Goto(t, l) == at' = [at EXCEPT ![t] = l]
Up(o) == o # 0 /\ object[o] = "up"
CanRead == writer = Free
CanWrite == writer = Free /\ readers = {}
Calls(t) == t \in scene.calls /\ at[t] = "idle"
Forget(t) == mine' = [mine EXCEPT ![t] = NoWork]
\* A notification goes into the death channel.
Ring == bell' = IF bell <= Capacity THEN bell + 1 ELSE bell

-----------------------------------------------------------------------------
(* The environment *)

Tick == /\ now < scene.until
        /\ now' = now + 1
        /\ UNCHANGED <<scene, objects, memory, mutexes, at, mine, history>>

\* A process ends by itself or by a kill (ExtensionProcess); the receiver
\* notifies the manager if it has been told where.
Dies(o) ==
    /\ object[o] = "up"
    /\ object' = [object EXCEPT ![o] = "dead"]
    /\ heard' = heard \cup ({o} \cap listening)
    /\ IF o \in listening THEN Ring ELSE UNCHANGED bell
    /\ UNCHANGED <<scene, now, listening, memory, mutexes, at, mine, history>>
\* The extensions of other ids use the same channel.
OthersDie ==
    /\ "others" \in scene.faults /\ bell <= Capacity
    /\ Ring
    /\ UNCHANGED <<scene, now, object, listening, heard, memory, mutexes, at,
                   mine, history>>

\* Drop of an object takes its child along, from a thread of its own that
\* gives the child some seconds to exit (ExtensionProcess!DropObject).
ChildGone(o) ==
    /\ object[o] = "leaving"
    /\ object' = [object EXCEPT ![o] = "dead"]
    /\ UNCHANGED bell \/ (o \in listening /\ Ring)
    /\ UNCHANGED <<scene, now, listening, heard, memory, mutexes, at, mine,
                   history>>

\* The runner does not read and its pipe is full: the write of a command, a
\* health check or a stop blocks as long as the process lives
\* (ExtensionProcess!Blocked), with the locks its task holds.
Writing == {"running", "stopping", "lazy_stopping", "count"}
Blocks(t) ==
    /\ "jam" \in scene.faults
    /\ at[t] \in Writing /\ Up(mine[t].object)
    /\ mine' = [mine EXCEPT ![t].blocked = TRUE]
    /\ UNCHANGED <<scene, now, objects, memory, mutexes, at, history>>
Blocked(t) == mine[t].blocked /\ Up(mine[t].object)

-----------------------------------------------------------------------------
(* The restart policy *)

Cooled == info.last = Never \/ now - info.last >= CooldownTime
\* The death monitor forgets the restarts of an hour ago and more, the lazy
\* restart does not.
MayRestart ==
    /\ scene.restart /\ info.present /\ Cooled
    /\ \/ info.last # Never /\ now - info.last >= Hour
       \/ info.count < MaxAttempts
MayRestartLazily ==
    scene.restart /\ info.present /\ Cooled /\ info.count < MaxAttempts
\* Only the time of the restart is noted.
CountRestart_timeOnly ==
    info' = IF info.present THEN [info EXCEPT !.last = now] ELSE info
CountRestart ==
    info' = IF info.present THEN [info EXCEPT !.count = @ + 1, !.last = now]
            ELSE info

-----------------------------------------------------------------------------
(* The table of loading locks *)

\* entry(id).or_insert_with: the mutex of the id, a new one if there is none.
TakeEntry(t) ==
    /\ table # 0 \/ locks < MaxLock
    /\ table' = IF table = 0 THEN locks + 1 ELSE table
    /\ locks' = IF table = 0 THEN locks + 1 ELSE locks
    /\ mine' = [mine EXCEPT ![t].lock = table']
    /\ UNCHANGED holder
Lock(t) == /\ holder[mine[t].lock] = Free
           /\ holder' = [holder EXCEPT ![mine[t].lock] = t]
Release(t) == [k \in DOMAIN holder |-> IF holder[k] = t THEN Free
                                       ELSE holder[k]]
\* remove(id), whoever uses the mutex.
InUse(k, t) == \E u \in Task \ {t} : mine[u].lock = k
RemoveEntry(t) == /\ table' = 0
                  /\ torn' = (torn \/ (table # 0 /\ InUse(table, t)))

-----------------------------------------------------------------------------
(* load and load_internal, for a caller of the API, the monitor or a lazy
   restart *)

\* Where a task goes on after its load, with or without an extension.
Loaded(t) == CASE t = Monitor -> "warm" [] t \in Command -> "lazy_count"
               [] OTHER -> "done"
NotLoaded(t) == IF t = Monitor THEN "recv" ELSE "done"

LoadCalled(t) ==
    /\ t \in Loader /\ Calls(t)
    /\ Goto(t, "load")
    /\ UNCHANGED <<scene, now, objects, memory, mutexes, mine, history>>

\* The fast path, or the mutex of the id; without a manifest the id is not
\* known and there is no mutex.
LoadFast(t) ==
    /\ at[t] = "load" /\ CanRead
    /\ CASE scene.manifest /\ ext # 0 /\ info.present ->
              Goto(t, Loaded(t)) /\ UNCHANGED <<mutexes, mine>>
         [] scene.manifest /\ ~(ext # 0 /\ info.present) ->
              TakeEntry(t) /\ Goto(t, "lock")
         [] OTHER -> Goto(t, "spawn") /\ UNCHANGED <<mutexes, mine>>
    /\ UNCHANGED <<scene, now, objects, memory, history>>
LoadLock(t) ==
    /\ at[t] = "lock"
    /\ Lock(t)
    /\ Goto(t, "check")
    /\ UNCHANGED <<scene, now, objects, memory, table, locks, mine, history>>
\* The second look: somebody else may have loaded it meanwhile.
LoadCheck_trusting(t) ==
    /\ at[t] = "check" /\ CanRead
    /\ Goto(t, "spawn")
    /\ UNCHANGED <<scene, now, objects, memory, mutexes, mine, history>>
LoadCheck(t) ==
    /\ at[t] = "check" /\ CanRead
    /\ IF ext = 0
       THEN Goto(t, "spawn") /\ UNCHANGED <<holder, mine>>
       ELSE /\ holder' = Release(t)
            /\ Forget(t)
            /\ Goto(t, IF info.present THEN Loaded(t) ELSE NotLoaded(t))
    /\ UNCHANGED <<scene, now, objects, memory, table, locks, history>>

LoadSpawn(t) ==
    /\ at[t] = "spawn"
    /\ \E o \in Object :
         /\ object[o] = "none" /\ \A p \in 1..(o - 1) : object[p] # "none"
         /\ object' = [object EXCEPT ![o] = "starting"]
         /\ mine' = [mine EXCEPT ![t].object = o]
    /\ Goto(t, "start")
    /\ UNCHANGED <<scene, now, listening, heard, bell, memory, mutexes,
                   history>>
LoadStarted(t) ==
    /\ at[t] = "start"
    /\ object' = [object EXCEPT ![mine[t].object] = "up"]
    /\ Goto(t, "insert")
    /\ UNCHANGED <<scene, now, listening, heard, bell, memory, mutexes, mine,
                   history>>
\* A failed start (also: no object left): the object is dropped, which leaves
\* the child of a start that timed out for a while, and the mutex leaves the
\* table.  The monitor calls the failure callback; the object that died is out
\* of the map by then.
LoadFails(t) ==
    /\ \/ at[t] = "start" /\ "fail" \in scene.faults
       \/ at[t] = "spawn" /\ object[MaxObject] # "none"
    /\ object' = [o \in Object |->
                    IF o = mine[t].object /\ at[t] = "start" THEN "leaving"
                    ELSE object[o]]
    /\ IF scene.manifest THEN RemoveEntry(t) ELSE UNCHANGED <<table, torn>>
    /\ holder' = Release(t)
    /\ Forget(t)
    /\ Goto(t, NotLoaded(t))
    /\ UNCHANGED <<scene, now, listening, heard, bell, memory, locks, refused,
                   restarts, lost>>
\* Into the map, over whatever is there.  The probe of a live object that is
\* replaced keeps it alive.
LoadInsert(t) ==
    /\ at[t] = "insert" /\ CanWrite
    /\ ext' = mine[t].object
    /\ torn' = (torn \/ Up(ext))
    /\ Goto(t, "publish")
    /\ UNCHANGED <<scene, now, objects, readers, writer, info, mutexes, mine,
                   refused, restarts, lost>>
\* A load by the monitor or a lazy restart is a restart.
NoteRestart(t) ==
    restarts' = IF t \in Loader THEN restarts ELSE Append(restarts, now)
\* The death notification, then the info with the counters it had.
LoadPublish(t) ==
    /\ at[t] = "publish"
    /\ listening' = listening \cup {mine[t].object}
    /\ Goto(t, "info")
    /\ UNCHANGED <<scene, now, object, heard, bell, memory, mutexes, mine,
                   history>>
LoadInfo(t) ==
    /\ at[t] = "info"
    /\ info' = [info EXCEPT !.present = TRUE]
    /\ NoteRestart(t)
    /\ holder' = Release(t)
    /\ Forget(t)
    /\ Goto(t, Loaded(t))
    /\ UNCHANGED <<scene, now, objects, ext, readers, writer, table, locks,
                   refused, lost, torn>>

-----------------------------------------------------------------------------
(* unload *)

\* The object leaves the map under the write lock, which is held while its
\* process stops.
UnloadTake_barging(t) ==
    /\ t \in Unloader /\ Calls(t) /\ CanRead
    /\ writer' = t
    /\ ext' = 0
    /\ mine' = [mine EXCEPT ![t].object = ext]
    /\ Goto(t, "stopping")
    /\ UNCHANGED <<scene, now, objects, readers, info, mutexes, history>>
UnloadTake(t) ==
    /\ t \in Unloader /\ Calls(t) /\ CanWrite
    /\ writer' = t
    /\ ext' = 0
    /\ mine' = [mine EXCEPT ![t].object = ext]
    /\ Goto(t, "stopping")
    /\ UNCHANGED <<scene, now, objects, readers, info, mutexes, history>>
\* The process has stopped, which its receiver may notify as a death.
UnloadDone(t) ==
    /\ at[t] = "stopping" /\ ~Blocked(t)
    /\ LET o == mine[t].object IN
       IF o = 0 THEN UNCHANGED <<object, bell, info, restarts>>
       ELSE /\ object' = [object EXCEPT ![o] = "dead"]
            /\ \/ UNCHANGED bell
               \/ Up(o) /\ o \in listening /\ Ring
            /\ info' = NoInfo
            /\ restarts' = <<>>
    /\ RemoveEntry(t)
    /\ writer' = Free
    /\ Forget(t)
    /\ Goto(t, "done")
    /\ UNCHANGED <<scene, now, listening, heard, ext, readers, locks, holder,
                   refused, lost>>

-----------------------------------------------------------------------------
(* execute_command and try_lazy_restart *)

\* The read lock is held until the command has its answer.
CommandCalled(t) ==
    /\ t \in Command /\ Calls(t) /\ CanRead
    /\ IF ext = 0 THEN Goto(t, "done") /\ UNCHANGED <<readers, mine>>
       ELSE /\ readers' = readers \cup {t}
            /\ mine' = [mine EXCEPT ![t].object = ext]
            /\ Goto(t, IF Up(ext) THEN "running" ELSE "lazy")
    /\ UNCHANGED <<scene, now, objects, ext, writer, info, mutexes, history>>
\* An answer, an error or a timeout.
CommandReturns(t) ==
    /\ at[t] = "running" /\ ~Blocked(t)
    /\ readers' = readers \ {t}
    /\ Forget(t)
    /\ Goto(t, "done")
    /\ UNCHANGED <<scene, now, objects, ext, writer, info, mutexes, history>>

\* NotRunning: the read lock is dropped, the policy asked and the mutex of the
\* id looked up.
LazyPolicy_holdRead(t) ==
    /\ at[t] = "lazy"
    /\ IF MayRestartLazily THEN TakeEntry(t) /\ Goto(t, "lazy_lock")
       ELSE Goto(t, "done") /\ Forget(t) /\ UNCHANGED mutexes
    /\ UNCHANGED <<scene, now, objects, memory, history>>
LazyPolicy(t) ==
    /\ at[t] = "lazy"
    /\ readers' = readers \ {t}
    /\ IF MayRestartLazily THEN TakeEntry(t) /\ Goto(t, "lazy_lock")
       ELSE Goto(t, "done") /\ Forget(t) /\ UNCHANGED mutexes
    /\ UNCHANGED <<scene, now, objects, ext, writer, info, history>>
LazyLock(t) ==
    /\ at[t] = "lazy_lock"
    /\ Lock(t)
    /\ Goto(t, "lazy_check")
    /\ UNCHANGED <<scene, now, objects, memory, table, locks, mine, history>>
\* Somebody else may have restarted it meanwhile.
LazyCheck(t) ==
    /\ at[t] = "lazy_check" /\ CanRead
    /\ IF Up(ext)
       THEN /\ holder' = Release(t)
            /\ mine' = [mine EXCEPT ![t] = [NoWork EXCEPT !.object = ext]]
            /\ Goto(t, "running")
       ELSE Goto(t, "lazy_stop") /\ UNCHANGED <<holder, mine>>
    /\ UNCHANGED <<scene, now, objects, memory, table, locks, history>>
\* Else whatever is under the id by now is stopped, without mark_stopping and
\* under the read lock.
LazyStop(t) ==
    /\ at[t] = "lazy_stop" /\ CanRead
    /\ readers' = readers \cup {t}
    /\ mine' = [mine EXCEPT ![t].object = ext]
    /\ Goto(t, "lazy_stopping")
    /\ UNCHANGED <<scene, now, objects, ext, writer, info, mutexes, history>>
LazyStopped(t) ==
    /\ at[t] = "lazy_stopping" /\ ~Blocked(t)
    /\ readers' = readers \ {t}
    /\ mine' = [mine EXCEPT ![t].blocked = FALSE]
    /\ object' = [o \in Object |-> IF o = mine[t].object /\ Up(o) THEN "dead"
                                   ELSE object[o]]
    /\ \/ UNCHANGED bell
       \/ Up(mine[t].object) /\ mine[t].object \in listening /\ Ring
    /\ Goto(t, "lazy_remove")
    /\ UNCHANGED <<scene, now, listening, heard, ext, writer, info, mutexes,
                   history>>
\* The object is removed and loaded again, with the mutex still held.
LazyRemove(t) ==
    /\ at[t] = "lazy_remove" /\ CanWrite
    /\ torn' = (torn \/ Up(ext))
    /\ ext' = 0
    /\ Goto(t, "load")
    /\ UNCHANGED <<scene, now, objects, readers, writer, info, mutexes, mine,
                   refused, restarts, lost>>
\* The restart is counted and the command tried again on what is in the map.
LazyCount(t) ==
    /\ at[t] = "lazy_count"
    /\ CountRestart
    /\ Goto(t, "lazy_get")
    /\ UNCHANGED <<scene, now, objects, ext, readers, writer, mutexes, mine,
                   history>>
LazyGet(t) ==
    /\ at[t] = "lazy_get" /\ CanRead
    /\ holder' = Release(t)
    /\ mine' = [mine EXCEPT ![t] = [NoWork EXCEPT !.object = ext]]
    /\ Goto(t, IF Up(ext) THEN "running" ELSE "done")
    /\ UNCHANGED <<scene, now, objects, memory, table, locks, history>>

-----------------------------------------------------------------------------
(* start_death_monitoring *)

\* A notification: is the extension dead ...
MonitorScan ==
    /\ at[Monitor] = "recv" /\ bell \in 1..Capacity /\ CanRead
    /\ bell' = bell - 1
    /\ IF ext # 0 /\ ~Up(ext)
       THEN /\ mine' = [mine EXCEPT ![Monitor].object = ext]
            /\ Goto(Monitor, "policy")
       ELSE UNCHANGED <<at, mine>>
    /\ UNCHANGED <<scene, now, object, listening, heard, memory, mutexes,
                   history>>
\* ... and may it be restarted?
MonitorPolicy_quiet ==
    /\ at[Monitor] = "policy"
    /\ Goto(Monitor, IF MayRestart THEN "remove" ELSE "recv")
    /\ Forget(Monitor)
    /\ UNCHANGED <<scene, now, objects, memory, mutexes, history>>
MonitorPolicy ==
    /\ at[Monitor] = "policy"
    /\ Goto(Monitor, IF MayRestart THEN "remove" ELSE "recv")
    /\ refused' = refused \cup
                    (IF MayRestart THEN {} ELSE {mine[Monitor].object})
    /\ Forget(Monitor)
    /\ UNCHANGED <<scene, now, objects, memory, mutexes, restarts, lost, torn>>
\* Notifications were overwritten: the monitor subscribes anew, which skips
\* the others too, and looks at no extension.
MonitorLags ==
    /\ at[Monitor] = "recv" /\ bell > Capacity
    /\ bell' = 0
    /\ lost' = lost \cup heard
    /\ UNCHANGED <<scene, now, object, listening, heard, memory, mutexes, at,
                   mine, refused, restarts, torn>>
\* Whatever is under the id by now is removed, then loaded again.
MonitorRemove ==
    /\ at[Monitor] = "remove" /\ CanWrite
    /\ torn' = (torn \/ Up(ext))
    /\ ext' = 0
    /\ Goto(Monitor, "load")
    /\ UNCHANGED <<scene, now, objects, readers, writer, info, mutexes, mine,
                   refused, restarts, lost>>
\* The warm-up health check, under the read lock.
MonitorWarm ==
    /\ at[Monitor] = "warm" /\ CanRead
    /\ readers' = readers \cup {Monitor}
    /\ mine' = [mine EXCEPT ![Monitor].object = ext]
    /\ Goto(Monitor, "count")
    /\ UNCHANGED <<scene, now, objects, ext, writer, info, mutexes, history>>
MonitorCount ==
    /\ at[Monitor] = "count" /\ ~Blocked(Monitor)
    /\ readers' = readers \ {Monitor}
    /\ CountRestart
    /\ Forget(Monitor)
    /\ Goto(Monitor, "recv")
    /\ UNCHANGED <<scene, now, objects, ext, writer, mutexes, history>>

-----------------------------------------------------------------------------
(* A client that goes away *)

\* The future of its request is dropped where it waits: its locks are
\* released; an object that is not yet in the map, or no longer, is dropped,
\* and one that just got there stays without notification and info.
Waits == {"load", "lock", "check", "spawn", "start", "insert", "publish",
          "stopping", "running", "lazy", "lazy_lock", "lazy_check",
          "lazy_stop", "lazy_stopping", "lazy_remove", "lazy_get"}
Owns(t, o) == /\ o = mine[t].object /\ object[o] \in {"starting", "up"}
              /\ at[t] \in {"start", "insert", "stopping"}
Disconnect(t) ==
    /\ "drop" \in scene.faults /\ t # Monitor
    /\ at[t] \in Waits /\ ~Blocked(t)
    /\ readers' = readers \ {t}
    /\ writer' = IF writer = t THEN Free ELSE writer
    /\ holder' = Release(t)
    /\ object' = [o \in Object |-> IF Owns(t, o) THEN "leaving" ELSE object[o]]
    /\ Forget(t)
    /\ Goto(t, "done")
    /\ UNCHANGED <<scene, now, listening, heard, bell, ext, info, table, locks,
                   history>>

-----------------------------------------------------------------------------
Load(t) == \/ LoadFast(t) \/ LoadLock(t) \/ LoadCheck(t) \/ LoadSpawn(t)
           \/ LoadStarted(t) \/ LoadFails(t) \/ LoadInsert(t) \/ LoadPublish(t)
           \/ LoadInfo(t)
Execute(t) == \/ CommandReturns(t) \/ LazyPolicy(t) \/ LazyLock(t)
              \/ LazyCheck(t) \/ LazyStop(t) \/ LazyStopped(t)
              \/ LazyRemove(t) \/ LazyCount(t) \/ LazyGet(t)
Restart == \/ MonitorScan \/ MonitorPolicy \/ MonitorLags \/ MonitorRemove
           \/ MonitorWarm \/ MonitorCount
Step(t) == Load(t) \/ Execute(t) \/ UnloadDone(t) \/ (t = Monitor /\ Restart)

Next ==
    \/ Tick \/ OthersDie
    \/ \E o \in Object : Dies(o) \/ ChildGone(o)
    \/ \E t \in Task : \/ LoadCalled(t) \/ UnloadTake(t) \/ CommandCalled(t)
                       \/ Step(t) \/ Blocks(t) \/ Disconnect(t)

\* The tasks of the runtime run: a start ends within its timeout, and so do a
\* command, a health check and a stop that are not blocked in a write
\* (ExtensionProcess!CallsReturn).  Nobody has to call, to die or to go away.
Fairness == /\ \A t \in Task : WF_vars(Step(t))
            /\ WF_vars(\E o \in Object : ChildGone(o))

Spec == Init /\ [][Next]_vars /\ Fairness

-----------------------------------------------------------------------------
(* Properties *)

Place == {"idle", "load", "lock", "check", "spawn", "start", "insert",
          "publish", "info", "done", "stopping", "running", "lazy",
          "lazy_lock", "lazy_check", "lazy_stop", "lazy_stopping",
          "lazy_remove", "lazy_count", "lazy_get", "recv", "policy",
          "remove", "warm", "count"}
Work == [lock: 0..MaxLock, object: 0..MaxObject, blocked: BOOLEAN]
Info == [present: BOOLEAN, count: Nat, last: Never..MaxTime]

\* Every variable has its type; the lock of `extensions` has readers or a
\* writer.
TypeOK ==
    /\ scene \in Scenarios
    /\ now \in 0..MaxTime
    /\ object \in [Object -> {"none", "starting", "up", "leaving", "dead"}]
    /\ listening \subseteq Object /\ heard \subseteq listening
    /\ bell \in 0..(Capacity + 1) /\ torn \in BOOLEAN
    /\ ext \in 0..MaxObject
    /\ readers \subseteq Task /\ writer \in Task \cup {Free}
    /\ writer = Free \/ readers = {}
    /\ info \in Info
    /\ table \in 0..locks /\ locks \in 0..MaxLock
    /\ holder \in [1..MaxLock -> Task \cup {Free}]
    /\ at \in [Task -> Place] /\ mine \in [Task -> Work]
    /\ refused \subseteq Object /\ lost \subseteq Object
    /\ restarts \in Seq(0..MaxTime)

\* "prevent race conditions where multiple concurrent requests could spawn
\* duplicate extension processes": the extension has at most one process that
\* is starting or in use, whoever loads and restarts it at the same time and
\* whichever of these calls is dropped, unless its mutex was taken out of the
\* table while in use, or a live object out of the map.  The child of an object
\* that was given up (a start that timed out, a dropped load or unload) is not
\* counted: it may live beside the next process until its Drop has killed it.
SingleProcess ==
    scene.manifest /\ ~torn =>
        Cardinality({o \in Object : object[o] \in {"starting", "up"}}) <= 1

\* A crash loop is cut: within an hour the manager restarts an extension that
\* has a manifest at most max_restart_attempts times, however its reloads
\* rebuild its state.  (The restarts in place of check_resources are not the
\* manager's and not counted.)
BurstBounded ==
    scene.manifest /\ ~torn =>
        \A i \in DOMAIN restarts :
            Cardinality({j \in DOMAIN restarts :
                restarts[j] \in restarts[i]..(restarts[i] + Hour - 1)})
              <= MaxAttempts

\* A task is blocked in a write to a process that lives and does not read.
Wedged == \E t \in Task : Blocked(t)
\* A task waits for a mutex whose holder waits, in the end for itself: a lazy
\* restart holds the mutex when its own load asks for it.
WaitsFor(t) == IF at[t] \in {"lock", "lazy_lock"} THEN holder[mine[t].lock]
               ELSE Free
Waiters == {t \in Task : WaitsFor(t) # Free}
Doomed(t) ==
    \E S \in SUBSET Waiters : t \in S /\ \A u \in S : WaitsFor(u) \in S

\* A death that was notified has an end: the object leaves the map or the
\* failure callback is called for it; unless the channel overflowed before the
\* monitor came to it, or the monitor waits for ever, or some write stays
\* blocked (which with one id does not keep the monitor from a dead extension,
\* but with more of them does, through the lock of `extensions`).
CrashHandled ==
    \/ \A o \in Object :
           ext = o /\ o \in heard ~> ext # o \/ o \in refused \cup lost
    \/ <>[](Wedged \/ Doomed(Monitor))

\* Every load, unload and command returns, unless some write stays blocked for
\* ever or the call itself waits for ever behind a lazy restart that waits for
\* itself.
CallsReturn ==
    \A t \in Task \ {Monitor} :
        \/ at[t] # "idle" ~> at[t] = "done"
        \/ <>[](Wedged \/ Doomed(t))

\* "Returns the isolated extension handle on success, None on failure": a lazy
\* restart that got the loading lock goes on with the handle or gives up.
LazyRestartEnds ==
    \A t \in Command : at[t] = "lazy_check" ~> at[t] \in {"running", "done"}

=============================================================================
