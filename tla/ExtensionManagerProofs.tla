----------------------- MODULE ExtensionManagerProofs -----------------------
(***************************************************************************)
(* Theorems about ExtensionManager, for every set of concurrent commands,   *)
(* loads and unloads, every restart policy and every bound.                 *)
(***************************************************************************)
EXTENDS ExtensionManager, FiniteSetTheorems, TLAPS

-----------------------------------------------------------------------------
(* The inductive invariant *)

\* Where a task works on an object of its own.
WorksOnObject ==
    \A t \in Task : at[t] \in {"start", "insert", "publish", "policy"}
                        => mine[t].object \in Object

\* Where a load is under way.
Loading == {"load", "lock", "check", "spawn", "start", "insert", "publish",
            "info"}
\* Where a lazy restart is.
Lazily == {"lazy", "lazy_lock", "lazy_check", "lazy_stop", "lazy_stopping",
           "lazy_remove", "lazy_count", "lazy_get"}

\* Which tasks can be where.
Places ==
    \A t \in Task :
        /\ at[t] \in Loading => t \notin Unloader
        /\ at[t] \in Lazily => t \in Command
        /\ at[t] \in {"recv", "policy", "remove", "warm", "count"} <=>
               t = Monitor /\ at[t] \notin Loading

\* Types and places.
Types == TypeOK /\ WorksOnObject /\ Places

\* The mutex of the id is the one in the table, as long as none was taken out.
Intact == scene.manifest /\ ~torn

\* Places without the lock.
Lockless == {"idle", "done", "running", "lazy", "stopping", "recv", "policy",
             "remove", "warm", "count"}
\* Places with it.
Guarded == {"check", "spawn", "start", "insert", "publish", "info",
            "lazy_check", "lazy_stop", "lazy_stopping", "lazy_remove"}

\* A task forgets its mutex with its work.
LockForgotten ==
    \A t \in Task :
        at[t] \in Lockless \/ (at[t] = "load" /\ t \notin Command)
            => mine[t].lock = 0

\* Mutual exclusion of the loads: everybody uses the mutex of the table, and
\* who is between its acquisition and its release is its holder.
LockOwned ==
    Intact =>
        /\ \A t \in Task : mine[t].lock \in {0, table}
        /\ \A k \in 1..MaxLock :
               holder[k] # Free => mine[holder[k]].lock = k
        /\ \A t \in Task :
               at[t] \in Guarded =>
                   mine[t].lock # 0 /\ holder[mine[t].lock] = t
        /\ \A t \in Task :
               at[t] \in {"lock", "lazy_lock"} => mine[t].lock # 0

\* Once it has started.
Aged == {"up", "leaving", "dead"}

\* What is in the map, and what is about to go there, has started.
Started ==
    /\ ext # 0 => object[ext] \in Aged
    /\ \A t \in Task : at[t] = "insert" =>
           object[mine[t].object] \in Aged

\* An unload empties the map and keeps the write lock until the process is
\* gone.
Unloading ==
    \A t \in Task : at[t] = "stopping" => writer = t /\ ext = 0

\* Where the object of a load is not yet in the map.
Creating == {"spawn", "start", "insert"}

\* A process that lives is the one in the map, or the one a load creates, or
\* the one an unload stops, and at most one of these exists.
LiveKnown ==
    Intact =>
        /\ \A o \in Object : object[o] \in {"starting", "up"} =>
               \/ ext = o
               \/ \E t \in Task : /\ mine[t].object = o
                                  /\ at[t] \in {"start", "insert", "stopping"}
        /\ \A t \in Task : at[t] \in Creating => ext = 0
        /\ \A t, u \in Task : at[t] \in Creating /\ at[u] = "stopping"
               => mine[u].object = 0

\* A lazy restart never gets past the mutex: it holds it and waits for it.
LazyWaits ==
    Intact => \A t \in Command :
        /\ at[t] \notin Loading \ {"load", "lock"}
        /\ at[t] \in {"load", "lock"} =>
               mine[t].lock # 0 /\ holder[mine[t].lock] = t

\* The restarts against the counters: in order of time, an hour apart once the
\* attempts are used up, and none uncounted but the one the monitor is about
\* to count.
Budget ==
    Intact =>
        /\ \A i \in DOMAIN restarts : restarts[i] <= now
        /\ \A i, j \in DOMAIN restarts : i < j => restarts[i] <= restarts[j]
        /\ \A i, j \in DOMAIN restarts :
               i < j /\ MaxAttempts < j => restarts[j] - restarts[i] >= Hour
        /\ ~info.present => restarts = <<>>
        /\ at[Monitor] \in {"warm", "count"} => Len(restarts) <= info.count + 1
        /\ at[Monitor] \notin {"warm", "count"} =>
               /\ Len(restarts) <= info.count
               /\ \A i \in DOMAIN restarts : restarts[i] <= info.last
        /\ at[Monitor] \in Loading \cup {"remove"} =>
               \/ Len(restarts) < MaxAttempts
               \/ \A i \in DOMAIN restarts : now - restarts[i] >= Hour

\* The inductive invariant.
IInv == /\ Types
        /\ LockForgotten /\ LockOwned
        /\ Started /\ Unloading /\ LiveKnown
        /\ LazyWaits /\ Budget

-----------------------------------------------------------------------------
(* Types *)

\* The bounds are numbers.
LEMMA Numbers ==
    /\ MaxAttempts \in Nat \ {0} /\ Hour \in Nat \ {0}
    /\ MaxTime \in Nat \ {0} /\ MaxObject \in Nat \ {0}
    /\ MaxLock \in Nat \ {0} /\ Capacity \in Nat \ {0}
    /\ CooldownTime \in Nat
  BY ManagerAssumption

\* A task is of one kind.
LEMMA Kinds ==
    /\ Monitor \in Task /\ Free \notin Task
    /\ Monitor \notin Command /\ Monitor \notin Loader
    /\ Monitor \notin Unloader
    /\ \A t \in Command : t \notin Loader /\ t \notin Unloader
    /\ \A t \in Loader : t \notin Unloader
  BY ManagerAssumption DEF Task, Monitor, Free

\* Where a task goes on after its load.
LEMMA AfterLoad ==
    ASSUME NEW t \in Task
    PROVE  /\ Loaded(t) \in {"warm", "lazy_count", "done"}
           /\ Loaded(t) = "warm" <=> t = Monitor
           /\ Loaded(t) = "lazy_count" <=> t \in Command
           /\ NotLoaded(t) \in {"recv", "done"}
           /\ NotLoaded(t) = "recv" <=> t = Monitor
  BY Kinds DEF Loaded, NotLoaded

USE Numbers DEF Object, Never

\* What a task works on may change in its parts.
LEMMA WorkTyped ==
    ASSUME mine \in [Task -> Work], NEW t \in Task
    PROVE  /\ \A o \in 0..MaxObject : mine' = [mine EXCEPT ![t].object = o]
                  => mine' \in [Task -> Work]
           /\ \A o \in 0..MaxObject :
                  mine' = [mine EXCEPT ![t] = [NoWork EXCEPT !.object = o]]
                      => mine' \in [Task -> Work]
           /\ \A b \in BOOLEAN : mine' = [mine EXCEPT ![t].blocked = b]
                  => mine' \in [Task -> Work]
           /\ Forget(t) => mine' \in [Task -> Work]
  <1>1. NoWork \in Work /\ \A w \in Work : \A o \in 0..MaxObject :
            [w EXCEPT !.object = o] \in Work
    BY DEF Work, NoWork
  <1>2. \A w \in Work : \A b \in BOOLEAN : [w EXCEPT !.blocked = b] \in Work
    BY DEF Work
  <1>3. mine[t] \in Work
    OBVIOUS
  <1> QED
    BY <1>1, <1>2, <1>3 DEF Forget

\* The channel holds what it can.
LEMMA RingTyped ==
    ASSUME TypeOK, Ring
    PROVE  bell' \in 0..(Capacity + 1)
  BY DEF TypeOK, Ring

\* So may the table, with the mutex that a task takes.
LEMMA EntryTyped ==
    ASSUME TypeOK, NEW t \in Task, TakeEntry(t)
    PROVE  /\ mine' \in [Task -> Work] /\ UNCHANGED holder
           /\ table' \in 0..locks' /\ locks' \in 0..MaxLock
  <1>1. table' \in 0..locks' /\ locks' \in 0..MaxLock
    BY SMTT(30) DEF TakeEntry, TypeOK
  <1>2. PICK k \in 0..MaxLock : mine' = [mine EXCEPT ![t].lock = k]
    <2>1. mine' = [mine EXCEPT ![t].lock = table']
      BY DEF TakeEntry
    <2>2. table' \in 0..MaxLock
      BY <1>1
    <2> QED
      BY <2>1, <2>2
  <1>3. mine' \in [Task -> Work]
    BY <1>2, ZenonT(60) DEF TypeOK, Work
  <1> QED
    BY <1>1, <1>3 DEF TakeEntry

\* The map without one entry has its type.
LEMMA RemovalTyped ==
    ASSUME TypeOK, NEW t \in Task, RemoveEntry(t)
    PROVE  table' = 0 /\ torn' \in BOOLEAN /\ (torn => torn')
  BY DEF TypeOK, RemoveEntry

\* The lock, once released, has its type.
LEMMA ReleaseTyped ==
    ASSUME TypeOK, NEW t \in Task
    PROVE  Release(t) \in [1..MaxLock -> Task \cup {Free}]
  BY DEF TypeOK, Release

\* So may the counters.
LEMMA InfoTyped ==
    ASSUME info \in Info, now \in 0..MaxTime
    PROVE  /\ info' = NoInfo => info' \in Info
           /\ info' = [info EXCEPT !.present = TRUE] => info' \in Info
           /\ CountRestart => info' \in Info
  <1>1. -1 \in -1..MaxTime
    OBVIOUS
  <1>2. info' = NoInfo => info' \in Info
    BY <1>1 DEF Info, NoInfo
  <1>3. info' = [info EXCEPT !.present = TRUE] => info' \in Info
    BY DEF Info
  <1>4. CountRestart => info' \in Info
    <2> SUFFICES ASSUME CountRestart PROVE info' \in Info
      OBVIOUS
    <2>1. CASE info.present
      <3>1. info' = [info EXCEPT !.count = @ + 1, !.last = now]
        BY <2>1 DEF CountRestart
      <3>2. now \in -1..MaxTime
        OBVIOUS
      <3>3. info.count + 1 \in Nat /\ info.present \in BOOLEAN
        BY DEF Info
      <3>4. info' = [present |-> info.present, count |-> info.count + 1,
                     last |-> now]
        BY <3>1 DEF Info
      <3> QED
        BY <3>2, <3>3, <3>4 DEF Info
    <2>2. CASE ~info.present
      BY <2>2 DEF CountRestart
    <2> QED
      BY <2>1, <2>2
  <1> QED
    BY <1>2, <1>3, <1>4

\* The first state has its types.
LEMMA InitTypes == Init => Types
  <1> SUFFICES ASSUME Init PROVE Types
    OBVIOUS
  <1>1. TypeOK
    <2>1. info \in Info
      <3>1. -1 \in -1..MaxTime
        OBVIOUS
      <3> QED
        BY <3>1 DEF Init, NoInfo, Info
    <2>2. mine \in [Task -> Work]
      BY DEF Init, Work, NoWork
    <2>3. at \in [Task -> Place]
      BY DEF Init, Place
    <2>4. table \in 0..locks /\ locks \in 0..MaxLock
      BY DEF Init
    <2>5. object \in [Object -> {"none", "starting", "up", "leaving", "dead"}]
      BY DEF Init
    <2>6. restarts \in Seq(0..MaxTime)
      BY DEF Init
    <2>7. torn \in BOOLEAN
      BY Zenon DEF Init
    <2>8. bell \in 0..(Capacity + 1)
      BY DEF Init
    <2> QED
      BY <2>8, <2>1, <2>2, <2>3, <2>4, <2>5, <2>6, <2>7 DEF Init, TypeOK
  <1>2. WorksOnObject /\ Places
    BY Kinds DEF Init, WorksOnObject, Places, Loading, Lazily, Monitor
  <1> QED
    BY <1>1, <1>2 DEF Types

\* Every step keeps the types and the places of the tasks.
LEMMA TypesStep == Types /\ [Next]_vars => Types'
  <1> SUFFICES ASSUME Types, [Next]_vars PROVE Types'
    OBVIOUS
  <1> USE DEF memory, mutexes, objects, history
  <1>1. CASE Tick
    <2>1. scene.until \in 0..MaxTime
      BY ManagerAssumption DEF Types, TypeOK
    <2> QED
      BY <1>1, <2>1 DEF Tick, Types, TypeOK, WorksOnObject, Places
  <1>2. ASSUME NEW o \in Object, Dies(o) PROVE Types'
    <2>1. bell' \in 0..(Capacity + 1)
      BY <1>2, RingTyped DEF Dies, Types, TypeOK
    <2> QED
      BY <1>2, <2>1 DEF Dies, Types, TypeOK, WorksOnObject, Places
  <1>3. CASE OthersDie
    <2>1. bell' \in 0..(Capacity + 1)
      BY <1>3, RingTyped DEF OthersDie, Types
    <2> QED
      BY <1>3, <2>1 DEF OthersDie, Types, TypeOK, WorksOnObject,
             Places
  <1>4. ASSUME NEW o \in Object, ChildGone(o) PROVE Types'
    <2>1. bell' \in 0..(Capacity + 1)
      BY <1>4, RingTyped DEF ChildGone, Types, TypeOK
    <2> QED
      BY <1>4, <2>1 DEF ChildGone, Types, TypeOK, WorksOnObject,
             Places
  <1>5. ASSUME NEW t \in Task, Blocks(t) PROVE Types'
    <2>1. mine' \in [Task -> Work]
      BY <1>5, WorkTyped DEF Blocks, Types, TypeOK
    <2>2. TypeOK'
      BY <1>5, <2>1 DEF Blocks, Types, TypeOK
    <2>3. WorksOnObject' /\ Places'
      BY <1>5 DEF Blocks, Writing, Types, TypeOK, Work, WorksOnObject,
             Places
    <2> QED
      BY <2>2, <2>3 DEF Types
  <1>6. ASSUME NEW t \in Task, LoadCalled(t) PROVE Types'
    <2>1. UNCHANGED mine
      BY <1>6 DEF LoadCalled
    <2>2. at' \in [Task -> Place]
      BY <1>6 DEF LoadCalled, Goto, Types, TypeOK, Place
    <2>3. UNCHANGED info
      BY <1>6 DEF LoadCalled
    <2>4. TypeOK'
      BY <1>6, <2>1, <2>2, <2>3 DEF LoadCalled, Calls, Types, TypeOK
    <2>5. WorksOnObject'
      BY <1>6 DEF LoadCalled, Calls, Goto, Types, TypeOK, Work, WorksOnObject
    <2>6. Places'
      BY <1>6, Kinds DEF LoadCalled, Goto, Calls, Types, TypeOK, Places,
             Loading, Lazily
    <2> QED
      BY <2>4, <2>5, <2>6 DEF Types
  <1>7. ASSUME NEW t \in Task, LoadFast(t) PROVE Types'
    <2>1. mine' \in [Task -> Work]
      BY <1>7, EntryTyped DEF LoadFast, Types, TypeOK
    <2>7. \E l \in {"warm", "lazy_count", "done", "lock", "spawn"} : Goto(t, l)
      BY <1>7, AfterLoad DEF LoadFast
    <2>2. at' \in [Task -> Place]
      BY <1>7, <2>7 DEF Goto, Types, TypeOK, Place
    <2>3. UNCHANGED info
      BY <1>7 DEF LoadFast
    <2>4. TypeOK'
      BY <1>7, <2>1, <2>2, <2>3, EntryTyped DEF LoadFast, CanRead, Types,
             TypeOK
    <2>5. WorksOnObject'
      <3>1. ASSUME NEW u \in Task, u # t
            PROVE  at'[u] = at[u] /\ mine'[u] = mine[u]
        BY <1>7, <2>7, <3>1 DEF LoadFast, Goto, TakeEntry, Types, TypeOK
      <3>2. at'[t] \in {"warm", "lazy_count", "done", "lock", "spawn"}
        BY <2>7, <1>7 DEF Goto, Types, TypeOK
      <3> QED
        BY <1>7, <3>1, <3>2 DEF Types, WorksOnObject
    <2>6. Places'
      BY <1>7, Kinds, AfterLoad, SMTT(30) DEF LoadFast, Goto, Calls, Types,
             TypeOK,
             Places, Loading, Lazily
    <2> QED
      BY <2>4, <2>5, <2>6 DEF Types
  <1>8. ASSUME NEW t \in Task, LoadLock(t) PROVE Types'
    <2>1. UNCHANGED mine
      BY <1>8 DEF LoadLock
    <2>2. at' \in [Task -> Place]
      BY <1>8 DEF LoadLock, Goto, Types, TypeOK, Place
    <2>3. UNCHANGED info
      BY <1>8 DEF LoadLock
    <2>4. TypeOK'
      BY <1>8, <2>1, <2>2, <2>3 DEF LoadLock, Lock, Types, TypeOK
    <2>5. WorksOnObject'
      BY <1>8 DEF LoadLock, Goto, Types, TypeOK, Work, WorksOnObject
    <2>6. Places'
      BY <1>8, Kinds DEF LoadLock, Goto, Calls, Types, TypeOK, Places, Loading,
             Lazily
    <2> QED
      BY <2>4, <2>5, <2>6 DEF Types
  <1>9. ASSUME NEW t \in Task, LoadCheck(t) PROVE Types'
    <2>1. mine' \in [Task -> Work]
      BY <1>9, WorkTyped DEF LoadCheck, Types, TypeOK
    <2>2. at' \in [Task -> Place]
      BY <1>9, AfterLoad, ZenonT(60) DEF LoadCheck, Goto, Types, TypeOK, Place
    <2>3. UNCHANGED info
      BY <1>9 DEF LoadCheck
    <2>4. TypeOK'
      BY <1>9, <2>1, <2>2, <2>3, ReleaseTyped, ZenonT(60) DEF LoadCheck,
             CanRead, Types,
             TypeOK
    <2>5. WorksOnObject'
      BY <1>9, AfterLoad, ZenonT(60) DEF LoadCheck, Goto, Forget, Types,
             TypeOK, Work,
             WorksOnObject
    <2>6. Places'
      BY <1>9, Kinds, AfterLoad DEF LoadCheck, Goto, Calls, Types, TypeOK,
             Places, Loading, Lazily
    <2> QED
      BY <2>4, <2>5, <2>6 DEF Types
  <1>10. ASSUME NEW t \in Task, LoadSpawn(t) PROVE Types'
    <2>1. mine' \in [Task -> Work]
      <3>1. PICK o \in Object : mine' = [mine EXCEPT ![t].object = o]
        BY <1>10, Zenon DEF LoadSpawn
      <3>2. o \in 0..MaxObject
        OBVIOUS
      <3> QED
        BY <3>1, <3>2, WorkTyped DEF Types, TypeOK
    <2>2. at' \in [Task -> Place]
      BY <1>10 DEF LoadSpawn, Goto, Types, TypeOK, Place
    <2>3. UNCHANGED info
      BY <1>10 DEF LoadSpawn
    <2>4. TypeOK'
      BY <1>10, <2>1, <2>2, <2>3 DEF LoadSpawn, Types, TypeOK
    <2>5. WorksOnObject'
      BY <1>10 DEF LoadSpawn, Goto, Types, TypeOK, Work, WorksOnObject
    <2>6. Places'
      BY <1>10, Kinds DEF LoadSpawn, Goto, Calls, Types, TypeOK, Places,
             Loading, Lazily
    <2> QED
      BY <2>4, <2>5, <2>6 DEF Types
  <1>11. ASSUME NEW t \in Task, LoadStarted(t) PROVE Types'
    <2>1. UNCHANGED mine
      BY <1>11 DEF LoadStarted
    <2>2. at' \in [Task -> Place]
      BY <1>11 DEF LoadStarted, Goto, Types, TypeOK, Place
    <2>3. UNCHANGED info
      BY <1>11 DEF LoadStarted
    <2>4. TypeOK'
      BY <1>11, <2>1, <2>2, <2>3 DEF LoadStarted, Types, TypeOK
    <2>5. WorksOnObject'
      BY <1>11 DEF LoadStarted, Goto, Types, TypeOK, Work, WorksOnObject
    <2>6. Places'
      BY <1>11, Kinds DEF LoadStarted, Goto, Calls, Types, TypeOK, Places,
             Loading, Lazily
    <2> QED
      BY <2>4, <2>5, <2>6 DEF Types
  <1>12. ASSUME NEW t \in Task, LoadFails(t) PROVE Types'
    <2>1. mine' \in [Task -> Work]
      BY <1>12, WorkTyped DEF LoadFails, Types, TypeOK
    <2>2. at' \in [Task -> Place]
      BY <1>12, AfterLoad DEF LoadFails, Goto, Types, TypeOK, Place
    <2>3. UNCHANGED info
      BY <1>12 DEF LoadFails
    <2>4. TypeOK'
      <3>1. table' \in 0..locks' /\ locks' \in 0..MaxLock /\ torn' \in BOOLEAN
        BY <1>12, RemovalTyped DEF LoadFails, Types, TypeOK
      <3>2. object' \in [Object -> {"none", "starting", "up", "leaving", "dead"}]
        BY <1>12 DEF LoadFails, Types, TypeOK
      <3>3. holder' \in [1..MaxLock -> Task \cup {Free}]
        BY <1>12, ReleaseTyped DEF LoadFails, Types
      <3> QED
        BY <1>12, <2>1, <2>2, <2>3, <3>1, <3>2, <3>3
           DEF LoadFails, Types, TypeOK
    <2>5. WorksOnObject'
      BY <1>12, AfterLoad DEF LoadFails, Forget, Goto, Types, TypeOK, Work,
             WorksOnObject
    <2>6. Places'
      BY <1>12, Kinds, AfterLoad DEF LoadFails, Goto, Calls, Types, TypeOK,
             Places, Loading, Lazily
    <2> QED
      BY <2>4, <2>5, <2>6 DEF Types
  <1>13. ASSUME NEW t \in Task, LoadInsert(t) PROVE Types'
    <2>1. UNCHANGED mine
      BY <1>13 DEF LoadInsert
    <2>2. at' \in [Task -> Place]
      BY <1>13 DEF LoadInsert, Goto, Types, TypeOK, Place
    <2>3. UNCHANGED info
      BY <1>13 DEF LoadInsert
    <2>4. TypeOK'
      <3>1. torn' \in BOOLEAN
        BY <1>13 DEF LoadInsert
      <3>2. ext' \in 0..MaxObject
        BY <1>13 DEF LoadInsert, Types, TypeOK, Work
      <3> QED
        BY <1>13, <2>1, <2>2, <2>3, <3>1, <3>2 DEF LoadInsert, Types, TypeOK
    <2>5. WorksOnObject'
      BY <1>13 DEF LoadInsert, Goto, Up, Types, TypeOK, Work, WorksOnObject
    <2>6. Places'
      BY <1>13, Kinds DEF LoadInsert, Goto, Calls, Types, TypeOK, Places,
             Loading, Lazily
    <2> QED
      BY <2>4, <2>5, <2>6 DEF Types
  <1>14. ASSUME NEW t \in Task, LoadPublish(t) PROVE Types'
    <2>1. UNCHANGED <<mine, info>>
      BY <1>14 DEF LoadPublish
    <2>2. at' \in [Task -> Place]
      BY <1>14 DEF LoadPublish, Goto, Types, TypeOK, Place
    <2>3. mine[t].object \in Object
      BY <1>14 DEF LoadPublish, Types, WorksOnObject
    <2>4. TypeOK'
      BY <1>14, <2>1, <2>2, <2>3 DEF LoadPublish, Types, TypeOK
    <2>5. WorksOnObject'
      BY <1>14 DEF LoadPublish, Goto, Types, TypeOK, Work,
             WorksOnObject
    <2>6. Places'
      BY <1>14, Kinds DEF LoadPublish, Goto, Types, TypeOK, Places,
             Loading, Lazily
    <2> QED
      BY <2>4, <2>5, <2>6 DEF Types
  <1>15. ASSUME NEW t \in Task, LoadInfo(t) PROVE Types'
    <2>1. mine' \in [Task -> Work]
      BY <1>15, WorkTyped DEF LoadInfo, Types, TypeOK
    <2>2. at' \in [Task -> Place]
      BY <1>15, AfterLoad DEF LoadInfo, Goto, Types, TypeOK, Place
    <2>3. info' \in Info
      BY <1>15, InfoTyped DEF LoadInfo, Types, TypeOK
    <2>4. TypeOK'
      <3>1. restarts' \in Seq(0..MaxTime)
        <4>1. CASE t \in Loader
          BY <1>15, <4>1 DEF LoadInfo, NoteRestart, Types, TypeOK
        <4>2. CASE t \notin Loader
          <5>1. restarts' = Append(restarts, now)
            BY <1>15, <4>2 DEF LoadInfo, NoteRestart
          <5> QED
            BY <5>1 DEF Types, TypeOK
        <4> QED
          BY <4>1, <4>2
      <3> QED
        BY <1>15, <2>1, <2>2, <2>3, <3>1, ReleaseTyped
           DEF LoadInfo, Types, TypeOK
    <2>5. WorksOnObject'
      BY <1>15, AfterLoad DEF LoadInfo, Forget, NoWork, Goto, Types, TypeOK,
             Work,
             WorksOnObject
    <2>6. Places'
      BY <1>15, Kinds, AfterLoad DEF LoadInfo, Goto, Calls, Types, TypeOK,
             Places, Loading, Lazily
    <2> QED
      BY <2>4, <2>5, <2>6 DEF Types
  <1>16. ASSUME NEW t \in Task, UnloadTake(t) PROVE Types'
    <2>1. mine' \in [Task -> Work]
      BY <1>16, ZenonT(60) DEF UnloadTake, Types, TypeOK, Work
    <2>2. at' \in [Task -> Place]
      BY <1>16 DEF UnloadTake, Goto, Types, TypeOK, Place
    <2>3. UNCHANGED info
      BY <1>16 DEF UnloadTake
    <2>4. TypeOK'
      BY <1>16, <2>1, <2>2, <2>3, SMTT(30) DEF UnloadTake, Calls, CanWrite,
             Types, TypeOK
    <2>5. WorksOnObject'
      BY <1>16 DEF UnloadTake, Calls, Goto, Types, TypeOK, Work, WorksOnObject
    <2>6. Places'
      BY <1>16, Kinds DEF UnloadTake, Goto, Calls, Types, TypeOK, Places,
             Loading, Lazily
    <2> QED
      BY <2>4, <2>5, <2>6 DEF Types
  <1>17. ASSUME NEW t \in Task, UnloadDone(t) PROVE Types'
    <2>1. mine' \in [Task -> Work]
      BY <1>17, WorkTyped DEF UnloadDone, Types, TypeOK
    <2>2. at' \in [Task -> Place]
      BY <1>17 DEF UnloadDone, Goto, Types, TypeOK, Place
    <2>3. info' \in Info
      BY <1>17, InfoTyped DEF UnloadDone, Types, TypeOK
    <2>4. TypeOK'
      <3>1. restarts' \in Seq(0..MaxTime) /\ bell' \in 0..(Capacity + 1)
        <4>1. CASE mine[t].object = 0
          BY <1>17, <4>1 DEF UnloadDone, Types, TypeOK
        <4>2. CASE mine[t].object # 0
          <5>1. restarts' = <<>> /\ (UNCHANGED bell \/ Ring)
            BY <1>17, <4>2 DEF UnloadDone
          <5>2. restarts' \in Seq(0..MaxTime)
            BY <5>1
          <5>3. bell' \in 0..(Capacity + 1)
            BY <5>1, RingTyped DEF Types, TypeOK
          <5> QED
            BY <5>2, <5>3
        <4> QED
          BY <4>1, <4>2
      <3>2. object' \in [Object -> {"none", "starting", "up", "leaving", "dead"}]
        BY <1>17 DEF UnloadDone, Types, TypeOK
      <3> QED
        <4>1. table' = 0 /\ torn' \in BOOLEAN
          BY <1>17, RemovalTyped DEF UnloadDone, Types
        <4> QED
          BY <1>17, <2>1, <2>2, <2>3, <3>1, <3>2, <4>1
             DEF UnloadDone, Types, TypeOK
    <2>5. WorksOnObject'
      BY <1>17 DEF UnloadDone, Up, Forget, Goto, Types, TypeOK, Work,
             WorksOnObject
    <2>6. Places'
      BY <1>17, Kinds DEF UnloadDone, Goto, Calls, Types, TypeOK, Places,
             Loading, Lazily
    <2> QED
      BY <2>4, <2>5, <2>6 DEF Types
  <1>18. ASSUME NEW t \in Task, CommandCalled(t) PROVE Types'
    <2>1. mine' \in [Task -> Work]
      BY <1>18, WorkTyped DEF CommandCalled, Types, TypeOK
    <2>2. at' \in [Task -> Place]
      BY <1>18, ZenonT(60) DEF CommandCalled, Goto, Types, TypeOK, Place
    <2>3. UNCHANGED info
      BY <1>18 DEF CommandCalled
    <2>4. TypeOK'
      BY <1>18, <2>1, <2>2, <2>3 DEF CommandCalled, Calls, CanRead, Up, Types,
             TypeOK
    <2>5. WorksOnObject'
      BY <1>18, ZenonT(60) DEF CommandCalled, Calls, Goto, Up, Types, TypeOK,
             Work,
             WorksOnObject
    <2>6. Places'
      BY <1>18, Kinds, SMTT(30) DEF CommandCalled, Goto, Calls, Types, TypeOK,
             Places,
             Loading, Lazily
    <2> QED
      BY <2>4, <2>5, <2>6 DEF Types
  <1>19. ASSUME NEW t \in Task, CommandReturns(t) PROVE Types'
    <2>1. mine' \in [Task -> Work]
      BY <1>19, WorkTyped DEF CommandReturns, Types, TypeOK
    <2>2. at' \in [Task -> Place]
      BY <1>19 DEF CommandReturns, Goto, Types, TypeOK, Place
    <2>3. UNCHANGED info
      BY <1>19 DEF CommandReturns
    <2>4. TypeOK'
      BY <1>19, <2>1, <2>2, <2>3 DEF CommandReturns, Types, TypeOK
    <2>5. WorksOnObject'
      BY <1>19 DEF CommandReturns, Forget, Goto, Types, TypeOK, Work,
             WorksOnObject
    <2>6. Places'
      BY <1>19, Kinds DEF CommandReturns, Goto, Calls, Types, TypeOK, Places,
             Loading, Lazily
    <2> QED
      BY <2>4, <2>5, <2>6 DEF Types
  <1>20. ASSUME NEW t \in Task, LazyPolicy(t) PROVE Types'
    <2>1. mine' \in [Task -> Work]
      BY <1>20, EntryTyped, WorkTyped DEF LazyPolicy, Types, TypeOK
    <2>2. at' \in [Task -> Place]
      BY <1>20, SMTT(30) DEF LazyPolicy, Goto, Types, TypeOK, Place
    <2>3. UNCHANGED info
      BY <1>20 DEF LazyPolicy
    <2>4. TypeOK'
      BY <1>20, <2>1, <2>2, <2>3, EntryTyped DEF LazyPolicy, Types, TypeOK
    <2>5. WorksOnObject'
      BY <1>20, ZenonT(60) DEF LazyPolicy, TakeEntry, Goto, Forget, Types,
             TypeOK, Work,
             WorksOnObject
    <2>6. Places'
      BY <1>20, Kinds DEF LazyPolicy, Goto, Calls, Types, TypeOK, Places,
             Loading, Lazily
    <2> QED
      BY <2>4, <2>5, <2>6 DEF Types
  <1>21. ASSUME NEW t \in Task, LazyLock(t) PROVE Types'
    <2>1. UNCHANGED mine
      BY <1>21 DEF LazyLock
    <2>2. at' \in [Task -> Place]
      BY <1>21 DEF LazyLock, Goto, Types, TypeOK, Place
    <2>3. UNCHANGED info
      BY <1>21 DEF LazyLock
    <2>4. TypeOK'
      BY <1>21, <2>1, <2>2, <2>3 DEF LazyLock, Lock, Types, TypeOK
    <2>5. WorksOnObject'
      BY <1>21 DEF LazyLock, Goto, Types, TypeOK, Work, WorksOnObject
    <2>6. Places'
      BY <1>21, Kinds DEF LazyLock, Goto, Calls, Types, TypeOK, Places,
             Loading, Lazily
    <2> QED
      BY <2>4, <2>5, <2>6 DEF Types
  <1>22. ASSUME NEW t \in Task, LazyCheck(t) PROVE Types'
    <2>1. mine' \in [Task -> Work]
      BY <1>22, WorkTyped DEF LazyCheck, Types, TypeOK
    <2>2. at' \in [Task -> Place]
      BY <1>22, ZenonT(60) DEF LazyCheck, Goto, Types, TypeOK, Place
    <2>3. UNCHANGED info
      BY <1>22 DEF LazyCheck
    <2>4. TypeOK'
      <3>1. holder' \in [1..MaxLock -> Task \cup {Free}]
        BY <1>22, ReleaseTyped DEF LazyCheck, Types, TypeOK
      <3> QED
        BY <1>22, <2>1, <2>2, <2>3, <3>1 DEF LazyCheck, Types, TypeOK
    <2>5. WorksOnObject'
      BY <1>22, ZenonT(60) DEF LazyCheck, Goto, Up, Types, TypeOK, Work,
             WorksOnObject
    <2>6. Places'
      BY <1>22, Kinds DEF LazyCheck, Goto, Calls, Types, TypeOK, Places,
             Loading, Lazily
    <2> QED
      BY <2>4, <2>5, <2>6 DEF Types
  <1>23. ASSUME NEW t \in Task, LazyStop(t) PROVE Types'
    <2>1. mine' \in [Task -> Work]
      BY <1>23, WorkTyped DEF LazyStop, Types, TypeOK
    <2>2. at' \in [Task -> Place]
      BY <1>23 DEF LazyStop, Goto, Types, TypeOK, Place
    <2>4. TypeOK'
      BY <1>23, <2>1, <2>2 DEF LazyStop, CanRead, Types, TypeOK
    <2>5. WorksOnObject'
      BY <1>23 DEF LazyStop, Goto, Forget, NoWork, Types, TypeOK, Work,
             WorksOnObject
    <2>6. Places'
      BY <1>23, Kinds DEF LazyStop, Goto, Types, TypeOK, Places, Loading,
             Lazily
    <2> QED
      BY <2>4, <2>5, <2>6 DEF Types
  <1>24. ASSUME NEW t \in Task, LazyStopped(t) PROVE Types'
    <2>1. mine' \in [Task -> Work]
      BY <1>24, WorkTyped DEF LazyStopped, Types, TypeOK
    <2>2. at' \in [Task -> Place]
      BY <1>24 DEF LazyStopped, Goto, Types, TypeOK, Place
    <2>4. TypeOK'
      <3>1. bell' \in 0..(Capacity + 1)
        BY <1>24, RingTyped DEF LazyStopped, Types, TypeOK
      <3> QED
        BY <1>24, <2>1, <2>2, <3>1 DEF LazyStopped, Types, TypeOK
    <2>5. WorksOnObject'
      BY <1>24 DEF LazyStopped, Goto, Forget, NoWork, Types, TypeOK, Work,
             WorksOnObject
    <2>6. Places'
      BY <1>24, Kinds DEF LazyStopped, Goto, Types, TypeOK, Places, Loading,
             Lazily
    <2> QED
      BY <2>4, <2>5, <2>6 DEF Types
  <1>25. ASSUME NEW t \in Task, LazyRemove(t) PROVE Types'
    <2>1. UNCHANGED mine
      BY <1>25 DEF LazyRemove
    <2>2. at' \in [Task -> Place]
      BY <1>25 DEF LazyRemove, Goto, Types, TypeOK, Place
    <2>3. UNCHANGED info
      BY <1>25 DEF LazyRemove
    <2>4. TypeOK'
      BY <1>25, <2>1, <2>2, <2>3 DEF LazyRemove, CanWrite, Up, Types, TypeOK
    <2>5. WorksOnObject'
      BY <1>25 DEF LazyRemove, Goto, Up, Types, TypeOK, Work, WorksOnObject
    <2>6. Places'
      BY <1>25, Kinds DEF LazyRemove, Goto, Calls, Types, TypeOK, Places,
             Loading, Lazily
    <2> QED
      BY <2>4, <2>5, <2>6 DEF Types
  <1>26. ASSUME NEW t \in Task, LazyCount(t) PROVE Types'
    <2>1. UNCHANGED mine
      BY <1>26 DEF LazyCount
    <2>2. at' \in [Task -> Place]
      BY <1>26 DEF LazyCount, Goto, Types, TypeOK, Place
    <2>3. info' \in Info
      BY <1>26, InfoTyped DEF LazyCount, Types, TypeOK
    <2>4. TypeOK'
      BY <1>26, <2>1, <2>2, <2>3 DEF LazyCount, Types, TypeOK
    <2>5. WorksOnObject'
      BY <1>26 DEF LazyCount, Goto, Types, TypeOK, WorksOnObject
    <2>6. Places'
      BY <1>26, Kinds DEF LazyCount, Goto, Types, TypeOK, Places,
             Loading, Lazily
    <2> QED
      BY <2>4, <2>5, <2>6 DEF Types
  <1>27. ASSUME NEW t \in Task, LazyGet(t) PROVE Types'
    <2>1. mine' \in [Task -> Work]
      BY <1>27, WorkTyped DEF LazyGet, Types, TypeOK
    <2>2. at' \in [Task -> Place]
      BY <1>27 DEF LazyGet, Goto, Types, TypeOK, Place
    <2>4. TypeOK'
      BY <1>27, <2>1, <2>2, ReleaseTyped DEF LazyGet, Types, TypeOK
    <2>5. WorksOnObject'
      BY <1>27 DEF LazyGet, Goto, Forget, NoWork, Types, TypeOK, Work,
             WorksOnObject
    <2>6. Places'
      BY <1>27, Kinds DEF LazyGet, Goto, Types, TypeOK, Places, Loading, Lazily
    <2> QED
      BY <2>4, <2>5, <2>6 DEF Types
  <1>28. CASE MonitorScan
    <2>1. mine' \in [Task -> Work]
      BY <1>28, Kinds, WorkTyped DEF MonitorScan, Types, TypeOK
    <2>2. at' \in [Task -> Place]
      BY <1>28, Kinds DEF MonitorScan, Goto, Types, TypeOK, Place
    <2>4. TypeOK'
      <3>1. bell' \in 0..(Capacity + 1)
        BY <1>28 DEF MonitorScan
      <3> QED
        BY <1>28, <2>1, <2>2, <3>1 DEF MonitorScan, Types, TypeOK
    <2>5. WorksOnObject'
      <3>1. CASE ext # 0 /\ ~Up(ext)
        <4>1. /\ at' = [at EXCEPT ![Monitor] = "policy"]
              /\ mine' = [mine EXCEPT ![Monitor].object = ext]
          BY <1>28, <3>1 DEF MonitorScan, Goto
        <4>2. ext \in Object
          BY <3>1 DEF Types, TypeOK
        <4> QED
          BY <4>1, <4>2 DEF Types, TypeOK, Work, WorksOnObject
      <3>2. CASE ~(ext # 0 /\ ~Up(ext))
        BY <1>28, <3>2 DEF MonitorScan, Types, WorksOnObject
      <3> QED
        BY <3>1, <3>2
    <2>6. Places'
      BY <1>28, Kinds DEF MonitorScan, Goto, Types, TypeOK, Places, Loading,
             Lazily
    <2> QED
      BY <2>4, <2>5, <2>6 DEF Types
  <1>29. CASE MonitorPolicy
    <2>1. mine' \in [Task -> Work]
      BY <1>29, Kinds, WorkTyped DEF MonitorPolicy, Types, TypeOK
    <2>2. at' \in [Task -> Place]
      BY <1>29, Kinds DEF MonitorPolicy, Goto, Types, TypeOK, Place
    <2>4. TypeOK'
      <3>1. mine[Monitor].object # 0
        BY <1>29, Kinds DEF MonitorPolicy, Types, WorksOnObject
      <3>2. mine[Monitor].object \in Object
        BY <3>1, Kinds DEF Types, TypeOK, Work
      <3> QED
        BY <1>29, <2>1, <2>2, <3>2
           DEF MonitorPolicy, Types, TypeOK
    <2>5. WorksOnObject'
      BY <1>29, Kinds DEF MonitorPolicy, Goto, Forget, NoWork, Types, TypeOK,
             Work,
             WorksOnObject
    <2>6. Places'
      BY <1>29, Kinds DEF MonitorPolicy, Goto, Types, TypeOK, Places, Loading,
             Lazily
    <2> QED
      BY <2>4, <2>5, <2>6 DEF Types
  <1>30. CASE MonitorLags
    <2>1. bell' \in 0..(Capacity + 1)
      BY <1>30 DEF MonitorLags
    <2> QED
      BY <1>30, <2>1 DEF MonitorLags, Types, TypeOK, WorksOnObject,
             Places
  <1>31. CASE MonitorRemove
    <2>1. UNCHANGED mine
      BY <1>31 DEF MonitorRemove
    <2>2. at' \in [Task -> Place]
      BY <1>31, Kinds DEF MonitorRemove, Goto, Types, TypeOK, Place
    <2>3. UNCHANGED info
      BY <1>31 DEF MonitorRemove
    <2>4. TypeOK'
      BY <1>31, <2>1, <2>2, <2>3, Kinds DEF MonitorRemove, CanWrite, Up, Types,
             TypeOK
    <2>5. WorksOnObject'
      BY <1>31 DEF MonitorRemove, Goto, Up, Types, TypeOK, Work, WorksOnObject
    <2>6. Places'
      BY <1>31, Kinds DEF MonitorRemove, Goto, Calls, Types, TypeOK, Places,
             Loading, Lazily
    <2> QED
      BY <2>4, <2>5, <2>6 DEF Types
  <1>32. CASE MonitorWarm
    <2>1. mine' \in [Task -> Work]
      BY <1>32, Kinds, WorkTyped DEF MonitorWarm, Types, TypeOK
    <2>2. at' \in [Task -> Place]
      BY <1>32, Kinds DEF MonitorWarm, Goto, Types, TypeOK, Place
    <2>4. TypeOK'
      BY <1>32, <2>1, <2>2, Kinds DEF MonitorWarm, CanRead, Types,
             TypeOK
    <2>5. WorksOnObject'
      BY <1>32, Kinds DEF MonitorWarm, Goto, Forget, NoWork, Types, TypeOK,
             Work,
             WorksOnObject
    <2>6. Places'
      BY <1>32, Kinds DEF MonitorWarm, Goto, Types, TypeOK, Places, Loading,
             Lazily
    <2> QED
      BY <2>4, <2>5, <2>6 DEF Types
  <1>33. CASE MonitorCount
    <2>1. mine' \in [Task -> Work]
      BY <1>33, Kinds, WorkTyped DEF MonitorCount, Types, TypeOK
    <2>2. at' \in [Task -> Place]
      BY <1>33, Kinds DEF MonitorCount, Goto, Types, TypeOK, Place
    <2>4. TypeOK'
      <3>1. info' \in Info
        BY <1>33, InfoTyped DEF MonitorCount, Types, TypeOK
      <3> QED
        BY <1>33, <2>1, <2>2, <3>1 DEF MonitorCount, Types, TypeOK
    <2>5. WorksOnObject'
      BY <1>33, Kinds DEF MonitorCount, Goto, Forget, NoWork, Types, TypeOK,
             Work,
             WorksOnObject
    <2>6. Places'
      BY <1>33, Kinds DEF MonitorCount, Goto, Types, TypeOK, Places, Loading,
             Lazily
    <2> QED
      BY <2>4, <2>5, <2>6 DEF Types
  <1>34. ASSUME NEW t \in Task, Disconnect(t) PROVE Types'
    <2>1. mine' \in [Task -> Work]
      BY <1>34, WorkTyped DEF Disconnect, Types, TypeOK
    <2>2. at' \in [Task -> Place]
      BY <1>34 DEF Disconnect, Goto, Types, TypeOK, Place
    <2>4. TypeOK'
      <3>1. object' \in [Object -> {"none", "starting", "up", "leaving", "dead"}]
        BY <1>34 DEF Disconnect, Types, TypeOK
      <3>2. readers' \subseteq Task /\ writer' \in Task \cup {Free}
            /\ (writer' = Free \/ readers' = {})
        BY <1>34 DEF Disconnect, Types, TypeOK
      <3> QED
        BY <1>34, <2>1, <2>2, <3>1, <3>2, ReleaseTyped
           DEF Disconnect, Types, TypeOK
    <2>5. WorksOnObject'
      BY <1>34 DEF Disconnect, Goto, Forget, NoWork, Types, TypeOK, Work,
             WorksOnObject
    <2>6. Places'
      BY <1>34, Kinds DEF Disconnect, Goto, Types, TypeOK, Places, Loading,
             Lazily
    <2> QED
      BY <2>4, <2>5, <2>6 DEF Types
  <1>35. CASE UNCHANGED vars
    BY <1>35 DEF vars, Types, TypeOK, WorksOnObject, Places
  <1> QED
    BY <1>1, <1>2, <1>3, <1>4, <1>5, <1>6, <1>7, <1>8, <1>9, <1>10, <1>11,
       <1>12, <1>13, <1>14, <1>15, <1>16, <1>17, <1>18, <1>19, <1>20, <1>21,
       <1>22, <1>23, <1>24, <1>25, <1>26, <1>27, <1>28, <1>29, <1>30, <1>31,
       <1>32, <1>33, <1>34, <1>35
       DEF Next, Step, Load, Execute, Restart

-----------------------------------------------------------------------------
(* The loading lock *)

\* The monitor looks at the map without a mutex.
LEMMA ScanKeeps ==
    ASSUME Types, MonitorScan
    PROVE  /\ \A u \in Task : mine'[u].lock = mine[u].lock
           /\ \A u \in Task \ {Monitor} : at'[u] = at[u]
           /\ at[Monitor] = "recv" /\ at'[Monitor] \in {"recv", "policy"}
  <1>0. at \in [Task -> Place] /\ mine \in [Task -> Work] /\ Monitor \in Task
    BY Kinds DEF Types, TypeOK
  <1>1. CASE ext # 0 /\ ~Up(ext)
    <2>1. /\ at' = [at EXCEPT ![Monitor] = "policy"] /\ at[Monitor] = "recv"
          /\ mine' = [mine EXCEPT ![Monitor].object = ext]
      BY <1>1 DEF MonitorScan, Goto
    <2> QED
      BY <1>0, <2>1 DEF Work
  <1>2. CASE ~(ext # 0 /\ ~Up(ext))
    <2>1. UNCHANGED <<at, mine>> /\ at[Monitor] = "recv"
      BY <1>2 DEF MonitorScan
    <2> QED
      BY <1>0, <2>1
  <1> QED
    BY <1>1, <1>2

\* A task that gives up its work or ends it forgets the mutex.
LEMMA ForgottenStep == Types /\ LockForgotten /\ [Next]_vars => LockForgotten'
  <1> SUFFICES ASSUME Types /\ LockForgotten, [Next]_vars PROVE LockForgotten'
    OBVIOUS
  <1> USE DEF memory, mutexes, objects, history
  <1> USE DEF Types, TypeOK, Work, LockForgotten, Lockless
  <1>1. CASE Tick
    BY <1>1, Kinds DEF Tick
  <1>2. ASSUME NEW o \in Object, Dies(o) PROVE LockForgotten'
    BY <1>2, Kinds DEF Dies
  <1>3. CASE OthersDie
    BY <1>3 DEF OthersDie
  <1>4. ASSUME NEW o \in Object, ChildGone(o) PROVE LockForgotten'
    BY <1>4 DEF ChildGone
  <1>5. ASSUME NEW t \in Task, Blocks(t) PROVE LockForgotten'
    <2>1. \A u \in Task : mine'[u].lock = mine[u].lock
      BY <1>5 DEF Blocks
    <2> QED
      BY <1>5, <2>1 DEF Blocks
  <1>6. ASSUME NEW t \in Task, LoadCalled(t) PROVE LockForgotten'
    BY <1>6, Kinds DEF LoadCalled, Calls, Goto
  <1>7. ASSUME NEW t \in Task, LoadFast(t) PROVE LockForgotten'
    <2>1. CASE TakeEntry(t) /\ Goto(t, "lock")
      <3>1. \A u \in Task \ {t} : mine'[u] = mine[u]
        BY <2>1 DEF TakeEntry
      <3>2. \A u \in Task : at'[u] = IF u = t THEN "lock" ELSE at[u]
        BY <2>1 DEF Goto
      <3> QED
        BY <3>1, <3>2
    <2>2. CASE UNCHANGED mine /\ Goto(t, Loaded(t))
      BY <1>7, <2>2, AfterLoad, Kinds, ZenonT(60) DEF LoadFast, Goto
    <2>3. CASE UNCHANGED mine /\ Goto(t, "spawn")
      BY <2>3 DEF Goto
    <2> QED
      BY <1>7, <2>1, <2>2, <2>3 DEF LoadFast
  <1>8. ASSUME NEW t \in Task, LoadLock(t) PROVE LockForgotten'
    BY <1>8, Kinds DEF LoadLock, Lock, Goto
  <1>9. ASSUME NEW t \in Task, LoadCheck(t) PROVE LockForgotten'
    BY <1>9, AfterLoad, Kinds DEF LoadCheck, Goto, Release, Forget, NoWork
  <1>10. ASSUME NEW t \in Task, LoadSpawn(t) PROVE LockForgotten'
    BY <1>10, Kinds DEF LoadSpawn, Goto
  <1>11. ASSUME NEW t \in Task, LoadStarted(t) PROVE LockForgotten'
    BY <1>11, Kinds DEF LoadStarted, Goto
  <1>12. ASSUME NEW t \in Task, LoadFails(t) PROVE LockForgotten'
    BY <1>12, Kinds DEF LoadFails, RemoveEntry, Release, Forget, NoWork, Goto,
           InUse
  <1>13. ASSUME NEW t \in Task, LoadInsert(t) PROVE LockForgotten'
    BY <1>13, Kinds DEF LoadInsert, CanWrite, Goto, Up
  <1>14. ASSUME NEW t \in Task, LoadPublish(t) PROVE LockForgotten'
    BY <1>14, Kinds DEF LoadPublish, Goto
  <1>15. ASSUME NEW t \in Task, LoadInfo(t) PROVE LockForgotten'
    BY <1>15, AfterLoad, Kinds DEF LoadInfo, Forget, NoWork, Goto
  <1>16. ASSUME NEW t \in Task, UnloadTake(t) PROVE LockForgotten'
    BY <1>16, Kinds, SMTT(30) DEF UnloadTake, Calls, CanWrite, Goto
  <1>17. ASSUME NEW t \in Task, UnloadDone(t) PROVE LockForgotten'
    BY <1>17, Kinds DEF UnloadDone, Up, NoInfo, RemoveEntry, InUse, Forget,
           NoWork,
           Goto
  <1>18. ASSUME NEW t \in Task, CommandCalled(t) PROVE LockForgotten'
    BY <1>18, Kinds, SMTT(30) DEF CommandCalled, Calls, Goto, Up
  <1>19. ASSUME NEW t \in Task, CommandReturns(t) PROVE LockForgotten'
    BY <1>19, Kinds DEF CommandReturns, Forget, NoWork, Goto
  <1>20. ASSUME NEW t \in Task, LazyPolicy(t) PROVE LockForgotten'
    <2>1. CASE TakeEntry(t) /\ Goto(t, "lazy_lock")
      <3>1. \A u \in Task \ {t} : mine'[u] = mine[u]
        BY <2>1 DEF TakeEntry
      <3>2. \A u \in Task : at'[u] = IF u = t THEN "lazy_lock" ELSE at[u]
        BY <2>1 DEF Goto
      <3> QED
        BY <3>1, <3>2
    <2>2. CASE Forget(t) /\ Goto(t, "done")
      BY <2>2 DEF Forget, NoWork, Goto
    <2> QED
      BY <1>20, <2>1, <2>2 DEF LazyPolicy
  <1>21. ASSUME NEW t \in Task, LazyLock(t) PROVE LockForgotten'
    BY <1>21, Kinds DEF LazyLock, Lock, Goto
  <1>22. ASSUME NEW t \in Task, LazyCheck(t) PROVE LockForgotten'
    <2>1. CASE Up(ext)
      <3>1. /\ mine' = [mine EXCEPT ![t] = [NoWork EXCEPT !.object = ext]]
            /\ at' = [at EXCEPT ![t] = "running"]
        BY <1>22, <2>1 DEF LazyCheck, Goto
      <3>2. mine'[t].lock = 0 /\ \A u \in Task \ {t} : mine'[u] = mine[u]
        BY <3>1 DEF NoWork
      <3> QED
        BY <3>1, <3>2
    <2>2. CASE ~Up(ext)
      BY <1>22, <2>2 DEF LazyCheck, Goto
    <2> QED
      BY <2>1, <2>2
  <1>23. ASSUME NEW t \in Task, LazyStop(t) PROVE LockForgotten'
    BY <1>23, Kinds DEF LazyStop, Goto
  <1>24. ASSUME NEW t \in Task, LazyStopped(t) PROVE LockForgotten'
    BY <1>24, Kinds DEF LazyStopped, Goto
  <1>25. ASSUME NEW t \in Task, LazyRemove(t) PROVE LockForgotten'
    BY <1>25, Kinds DEF LazyRemove, Goto, Places, Lazily
  <1>26. ASSUME NEW t \in Task, LazyCount(t) PROVE LockForgotten'
    BY <1>26, Kinds DEF LazyCount, Goto
  <1>27. ASSUME NEW t \in Task, LazyGet(t) PROVE LockForgotten'
    BY <1>27, Kinds DEF LazyGet, NoWork, Goto
  <1>28. CASE MonitorScan
    BY <1>28, ScanKeeps, Kinds
  <1>29. CASE MonitorPolicy
    BY <1>29, Kinds DEF MonitorPolicy, Forget, NoWork, Goto
  <1>30. CASE MonitorLags
    BY <1>30 DEF MonitorLags
  <1>31. CASE MonitorRemove
    BY <1>31, Kinds DEF MonitorRemove, CanWrite, Goto, Up
  <1>32. CASE MonitorWarm
    BY <1>32, Kinds DEF MonitorWarm, Goto
  <1>33. CASE MonitorCount
    BY <1>33, Kinds DEF MonitorCount, Forget, NoWork, Goto
  <1>34. ASSUME NEW t \in Task, Disconnect(t) PROVE LockForgotten'
    BY <1>34, Kinds DEF Disconnect, Forget, NoWork, Goto
  <1>35. CASE UNCHANGED vars
    BY <1>35 DEF vars
  <1> QED
    BY <1>1, <1>2, <1>3, <1>4, <1>5, <1>6, <1>7, <1>8, <1>9, <1>10, <1>11,
       <1>12, <1>13, <1>14, <1>15, <1>16, <1>17, <1>18, <1>19, <1>20, <1>21,
       <1>22, <1>23, <1>24, <1>25, <1>26, <1>27, <1>28, <1>29, <1>30, <1>31,
       <1>32, <1>33, <1>34, <1>35
       DEF Next, Step, Load, Execute, Restart

\* What a task leaves of the others' work.
OthersKept(t) ==
    /\ at'[t] \notin Guarded \cup {"lock", "lazy_lock"}
    /\ mine'[t].lock = 0
    /\ \A u \in Task \ {t} : at'[u] = at[u] /\ mine'[u].lock = mine[u].lock
    /\ scene' = scene /\ (torn => torn')

\* A task may go without the mutex, with it in the table or not.
LEMMA OwnedLeft ==
    ASSUME Types, LockOwned, NEW t \in Task, OthersKept(t),
           \/ holder' = Release(t)
           \/ holder' = holder /\ mine[t].lock = 0,
           UNCHANGED table \/ RemoveEntry(t)
    PROVE  LockOwned'
  <1> SUFFICES ASSUME Intact' PROVE LockOwned'
    BY DEF LockOwned
  <1>0. Intact
    BY DEF Intact, OthersKept, Types, TypeOK
  <1>1. \A k \in 1..MaxLock :
            holder'[k] # Free => holder'[k] = holder[k] /\ holder[k] # t
    <2>1. CASE holder' = Release(t)
      BY <2>1 DEF Release, Types, TypeOK
    <2>2. CASE holder' = holder /\ mine[t].lock = 0
      BY <2>2, <1>0 DEF LockOwned
    <2> QED
      BY <2>1, <2>2
  <1>2. \A u \in Task \ {t} : mine[u].lock \in {0, table'}
    <2>1. CASE RemoveEntry(t)
      <3>1. table = 0 \/ ~InUse(table, t)
        BY <2>1, Zenon DEF RemoveEntry, Intact
      <3> QED
        BY <1>0, <3>1 DEF InUse, LockOwned
    <2>2. CASE UNCHANGED table
      BY <2>2, <1>0 DEF LockOwned
    <2> QED
      BY <2>1, <2>2
  <1>3. \A u \in Task \ {t} : \A k \in 1..MaxLock :
            holder[k] = u => holder'[k] = u
    <2>1. CASE holder' = Release(t)
      BY <2>1 DEF Release, Types, TypeOK
    <2> QED
      BY <2>1
  <1>4. \A u \in Task : mine'[u].lock \in {0, table'}
    BY <1>2 DEF OthersKept
  <1>5. \A k \in 1..MaxLock : holder'[k] # Free => mine'[holder'[k]].lock = k
    <2> SUFFICES ASSUME NEW k \in 1..MaxLock, holder'[k] # Free
                 PROVE  mine'[holder'[k]].lock = k
      OBVIOUS
    <2>1. holder'[k] = holder[k] /\ holder[k] \in Task \ {t}
      BY <1>1 DEF Types, TypeOK
    <2>2. mine[holder[k]].lock = k
      BY <1>0, <2>1 DEF LockOwned
    <2> QED
      BY <2>1, <2>2 DEF OthersKept
  <1>6. \A u \in Task : at'[u] \in Guarded =>
            mine'[u].lock # 0 /\ holder'[mine'[u].lock] = u
    <2> SUFFICES ASSUME NEW u \in Task, at'[u] \in Guarded
                 PROVE  mine'[u].lock # 0 /\ holder'[mine'[u].lock] = u
      OBVIOUS
    <2>1. u \in Task \ {t} /\ at[u] \in Guarded /\ mine'[u].lock = mine[u].lock
      BY DEF OthersKept
    <2>2. mine[u].lock # 0 /\ holder[mine[u].lock] = u
      BY <2>1, <1>0 DEF LockOwned
    <2>3. mine[u].lock \in 1..MaxLock
      BY <2>2 DEF Types, TypeOK, Work
    <2> QED
      BY <2>1, <2>2, <2>3, <1>3
  <1>7. \A u \in Task : at'[u] \in {"lock", "lazy_lock"} => mine'[u].lock # 0
    BY <1>0 DEF OthersKept, LockOwned
  <1> QED
    BY <1>4, <1>5, <1>6, <1>7 DEF LockOwned

\* A task may go on with the mutex it has.
LEMMA OwnedStays ==
    ASSUME Types, LockOwned, NEW t \in Task, UNCHANGED <<scene, table, holder>>,
           torn => torn', \A u \in Task : mine'[u].lock = mine[u].lock,
           \A u \in Task \ {t} : at'[u] = at[u],
           at'[t] \in Guarded => at[t] \in Guarded,
           at'[t] \notin {"lock", "lazy_lock"}
    PROVE  LockOwned'
  <1> SUFFICES ASSUME Intact' PROVE LockOwned'
    BY DEF LockOwned
  <1>0. Intact
    BY DEF Intact
  <1>1. \A u \in Task : mine'[u].lock \in {0, table'}
    BY <1>0 DEF LockOwned
  <1>2. \A k \in 1..MaxLock : holder'[k] # Free => mine'[holder'[k]].lock = k
    <2>1. \A k \in 1..MaxLock : holder[k] # Free => holder[k] \in Task
      BY DEF Types, TypeOK
    <2> QED
      BY <1>0, <2>1 DEF LockOwned
  <1>3. \A u \in Task : at'[u] \in Guarded =>
            mine'[u].lock # 0 /\ holder'[mine'[u].lock] = u
    BY <1>0 DEF LockOwned
  <1>4. \A u \in Task : at'[u] \in {"lock", "lazy_lock"} => mine'[u].lock # 0
    BY <1>0 DEF LockOwned
  <1> QED
    BY <1>1, <1>2, <1>3, <1>4 DEF LockOwned

\* A task may take the mutex of the table, or put a new one there.
LEMMA OwnedTaken ==
    ASSUME Types, LockOwned, NEW t \in Task, TakeEntry(t), UNCHANGED <<scene, torn>>,
           at'[t] \in {"lock", "lazy_lock"},
           \A u \in Task \ {t} : at'[u] = at[u]
    PROVE  LockOwned'
  <1> SUFFICES ASSUME Intact' PROVE LockOwned'
    BY DEF LockOwned
  <1>0. Intact
    BY DEF Intact
  <1>1. /\ \A u \in Task \ {t} : mine'[u] = mine[u]
        /\ mine'[t].lock = table' /\ table' # 0 /\ UNCHANGED holder
    BY DEF TakeEntry, Types, TypeOK, Work
  <1>2. table # 0 => table' = table
    BY DEF TakeEntry
  <1>3. \A u \in Task : mine[u].lock = 0 \/ (mine[u].lock = table /\ table # 0)
    BY <1>0 DEF LockOwned
  <1>4. \A u \in Task : mine'[u].lock \in {0, table'}
    BY <1>1, <1>2, <1>3
  <1>5. \A k \in 1..MaxLock : holder[k] # Free => mine'[holder[k]].lock = k
    <2> SUFFICES ASSUME NEW k \in 1..MaxLock, holder[k] # Free
                 PROVE  mine'[holder[k]].lock = k
      OBVIOUS
    <2>1. holder[k] \in Task /\ mine[holder[k]].lock = k /\ k # 0
      BY <1>0 DEF LockOwned, Types, TypeOK
    <2>2. table = k
      BY <2>1, <1>3
    <2> QED
      BY <2>1, <2>2, <1>1, <1>2
  <1>6. \A u \in Task : at'[u] \in Guarded =>
            u # t /\ mine[u].lock # 0 /\ holder[mine[u].lock] = u
    BY <1>0 DEF LockOwned, Guarded
  <1>7. \A u \in Task : at'[u] \in {"lock", "lazy_lock"} => mine'[u].lock # 0
    BY <1>0, <1>1 DEF LockOwned
  <1> QED
    BY <1>1, <1>4, <1>5, <1>6, <1>7 DEF LockOwned

\* Mutual exclusion is kept.
LEMMA OwnedStep == IInv /\ [Next]_vars => LockOwned'
  <1> SUFFICES ASSUME IInv, [Next]_vars PROVE LockOwned'
    OBVIOUS
  <1>0. Types /\ LockForgotten /\ LockOwned /\ LazyWaits
    BY DEF IInv
  <1> USE DEF memory, mutexes, objects, history
  <1> USE DEF Types, TypeOK, Work, LockOwned, Guarded, Intact
  <1>1. CASE Tick
    BY <1>1, <1>0, Kinds DEF Tick
  <1>2. ASSUME NEW o \in Object, Dies(o) PROVE LockOwned'
    BY <1>2, <1>0, Kinds DEF Dies
  <1>3. CASE OthersDie
    BY <1>3, <1>0, Kinds DEF OthersDie
  <1>4. ASSUME NEW o \in Object, ChildGone(o) PROVE LockOwned'
    BY <1>4, <1>0, Kinds DEF ChildGone
  <1>5. ASSUME NEW t \in Task, Blocks(t) PROVE LockOwned'
    <2>1. \A u \in Task : mine'[u].lock = mine[u].lock
      BY <1>5, <1>0 DEF Blocks
    <2>2. /\ \A u \in Task \ {t} : at'[u] = at[u]
          /\ at'[t] \in Guarded => at[t] \in Guarded
          /\ at'[t] \notin {"lock", "lazy_lock"}
      BY <1>5, <1>0 DEF Blocks, Goto, Writing
    <2>3. UNCHANGED <<scene, table, holder, torn>>
      BY <1>5 DEF Blocks
    <2> QED
      BY <1>0, <2>1, <2>2, <2>3, OwnedStays
  <1>6. ASSUME NEW t \in Task, LoadCalled(t) PROVE LockOwned'
    BY <1>6, <1>0, Kinds DEF LoadCalled, Calls, Goto
  <1>7. ASSUME NEW t \in Task, LoadFast(t) PROVE LockOwned'
    <2>1. CASE TakeEntry(t) /\ Goto(t, "lock")
      BY <1>7, <2>1, <1>0, OwnedTaken, ZenonT(60) DEF LoadFast, Goto
    <2>2. CASE UNCHANGED <<mutexes, mine>> /\ Goto(t, Loaded(t))
      <3>1. at'[t] \notin Guarded \cup {"lock", "lazy_lock"}
        BY <2>2, <1>0, AfterLoad DEF Goto
      <3> QED
        BY <1>7, <2>2, <3>1, <1>0, SMTT(30) DEF LoadFast, Goto
    <2>3. CASE UNCHANGED <<mutexes, mine>> /\ ~scene.manifest
      BY <1>7, <2>3 DEF LoadFast
    <2> QED
      BY <1>7, <2>1, <2>2, <2>3 DEF LoadFast
  <1>8. ASSUME NEW t \in Task, LoadLock(t) PROVE LockOwned'
    BY <1>8, <1>0, Kinds DEF LoadLock, Lock, Goto
  <1>9. ASSUME NEW t \in Task, LoadCheck(t) PROVE LockOwned'
    <2>1. CASE ext = 0
      BY <1>9, <2>1, <1>0 DEF LoadCheck, Goto
    <2>2. CASE ext # 0
      <3>1. OthersKept(t)
        BY <1>9, <1>0, <2>2, AfterLoad, SMTT(30) DEF LoadCheck, Goto, Forget,
               NoWork,
               OthersKept
      <3> QED
        BY <1>9, <2>2, <3>1, <1>0, OwnedLeft DEF LoadCheck
    <2> QED
      BY <2>1, <2>2
  <1>10. ASSUME NEW t \in Task, LoadSpawn(t) PROVE LockOwned'
    BY <1>10, <1>0, Kinds, SMTT(30) DEF LoadSpawn, Goto
  <1>11. ASSUME NEW t \in Task, LoadStarted(t) PROVE LockOwned'
    BY <1>11, <1>0, Kinds DEF LoadStarted, Goto
  <1>12. ASSUME NEW t \in Task, LoadFails(t) PROVE LockOwned'
    <2>1. OthersKept(t)
      BY <1>12, <1>0, AfterLoad, RemovalTyped, ZenonT(60) DEF LoadFails, Goto,
             Forget, NoWork,
             OthersKept
    <2> QED
      BY <1>12, <2>1, <1>0, OwnedLeft DEF LoadFails
  <1>13. ASSUME NEW t \in Task, LoadInsert(t) PROVE LockOwned'
    BY <1>13, <1>0, Kinds DEF LoadInsert, CanWrite, Goto, Up
  <1>14. ASSUME NEW t \in Task, LoadPublish(t) PROVE LockOwned'
    BY <1>14, <1>0, Kinds DEF LoadPublish, Goto
  <1>15. ASSUME NEW t \in Task, LoadInfo(t) PROVE LockOwned'
    <2>1. OthersKept(t)
      BY <1>15, <1>0, AfterLoad, ZenonT(60) DEF LoadInfo, Goto, Forget, NoWork,
             OthersKept
    <2> QED
      BY <1>15, <2>1, <1>0, OwnedLeft DEF LoadInfo
  <1>16. ASSUME NEW t \in Task, UnloadTake(t) PROVE LockOwned'
    BY <1>16, <1>0, Kinds, SMTT(30) DEF UnloadTake, Calls, CanWrite, Goto
  <1>17. ASSUME NEW t \in Task, UnloadDone(t) PROVE LockOwned'
    <2>1. OthersKept(t)
      BY <1>17, <1>0, RemovalTyped DEF UnloadDone, Goto, Forget, NoWork,
             OthersKept
    <2>2. mine[t].lock = 0
      BY <1>17, <1>0 DEF UnloadDone, LockForgotten, Lockless
    <2> QED
      BY <1>17, <2>1, <2>2, <1>0, OwnedLeft DEF UnloadDone
  <1>18. ASSUME NEW t \in Task, CommandCalled(t) PROVE LockOwned'
    <2>1. mine[t].lock = 0
      BY <1>18, <1>0 DEF CommandCalled, Calls, LockForgotten, Lockless
    <2>2. OthersKept(t)
      BY <1>18, <1>0, <2>1, SMTT(30) DEF CommandCalled, Goto, OthersKept
    <2> QED
      BY <1>18, <2>1, <2>2, <1>0, OwnedLeft DEF CommandCalled
  <1>19. ASSUME NEW t \in Task, CommandReturns(t) PROVE LockOwned'
    <2>1. OthersKept(t)
      BY <1>19, <1>0 DEF CommandReturns, Goto, Forget, NoWork, OthersKept
    <2>2. mine[t].lock = 0
      BY <1>19, <1>0 DEF CommandReturns, LockForgotten, Lockless
    <2> QED
      BY <1>19, <2>1, <2>2, <1>0, OwnedLeft DEF CommandReturns
  <1>20. ASSUME NEW t \in Task, LazyPolicy(t) PROVE LockOwned'
    <2>1. CASE TakeEntry(t) /\ Goto(t, "lazy_lock")
      BY <1>20, <2>1, <1>0, OwnedTaken DEF LazyPolicy, Goto
    <2>2. CASE Forget(t) /\ Goto(t, "done") /\ UNCHANGED mutexes
      <3>1. OthersKept(t)
        BY <1>20, <1>0, <2>2 DEF LazyPolicy, Goto, Forget, NoWork, OthersKept
      <3>2. mine[t].lock = 0
        BY <1>20, <1>0 DEF LazyPolicy, LockForgotten, Lockless
      <3> QED
        BY <2>2, <3>1, <3>2, <1>0, OwnedLeft
    <2> QED
      BY <1>20, <2>1, <2>2 DEF LazyPolicy
  <1>21. ASSUME NEW t \in Task, LazyLock(t) PROVE LockOwned'
    BY <1>21, <1>0, Kinds DEF LazyLock, Lock, Goto
  <1>22. ASSUME NEW t \in Task, LazyCheck(t) PROVE LockOwned'
    <2>1. CASE Up(ext)
      <3>1. OthersKept(t)
        BY <1>22, <1>0, <2>1, SMTT(30) DEF LazyCheck, NoWork, Goto, OthersKept
      <3> QED
        BY <1>22, <2>1, <3>1, <1>0, OwnedLeft DEF LazyCheck
    <2>2. CASE ~Up(ext)
      <3>1. UNCHANGED <<scene, table, holder, torn, mine>>
            /\ at' = [at EXCEPT ![t] = "lazy_stop"] /\ at[t] = "lazy_check"
        BY <1>22, <2>2 DEF LazyCheck, Goto
      <3> QED
        BY <1>0, <3>1, OwnedStays
    <2> QED
      BY <2>1, <2>2
  <1>23. ASSUME NEW t \in Task, LazyStop(t) PROVE LockOwned'
    <2>1. \A u \in Task : mine'[u].lock = mine[u].lock
      BY <1>23, <1>0 DEF LazyStop
    <2>2. /\ \A u \in Task \ {t} : at'[u] = at[u]
          /\ at'[t] \in Guarded => at[t] \in Guarded
          /\ at'[t] \notin {"lock", "lazy_lock"}
      BY <1>23, <1>0 DEF LazyStop, Goto
    <2>3. UNCHANGED <<scene, table, holder, torn>>
      BY <1>23 DEF LazyStop
    <2> QED
      BY <1>0, <2>1, <2>2, <2>3, OwnedStays
  <1>24. ASSUME NEW t \in Task, LazyStopped(t) PROVE LockOwned'
    <2>1. \A u \in Task : mine'[u].lock = mine[u].lock
      BY <1>24, <1>0 DEF LazyStopped
    <2>2. /\ \A u \in Task \ {t} : at'[u] = at[u]
          /\ at'[t] \in Guarded => at[t] \in Guarded
          /\ at'[t] \notin {"lock", "lazy_lock"}
      BY <1>24, <1>0 DEF LazyStopped, Goto
    <2>3. UNCHANGED <<scene, table, holder, torn>>
      BY <1>24 DEF LazyStopped
    <2> QED
      BY <1>0, <2>1, <2>2, <2>3, OwnedStays
  <1>25. ASSUME NEW t \in Task, LazyRemove(t) PROVE LockOwned'
    BY <1>25, <1>0, Kinds DEF LazyRemove, CanWrite, Goto, Up
  <1>26. ASSUME NEW t \in Task, LazyCount(t) PROVE LockOwned'
    BY <1>26, <1>0, Kinds DEF LazyCount, Goto
  <1>27. ASSUME NEW t \in Task, LazyGet(t) PROVE LockOwned'
    <2>1. OthersKept(t)
      BY <1>27, <1>0 DEF LazyGet, Goto, Forget, NoWork, OthersKept
    <2> QED
      BY <1>27, <2>1, <1>0, OwnedLeft DEF LazyGet
  <1>28. CASE MonitorScan
    <2>1. UNCHANGED <<scene, table, holder, torn>>
      BY <1>28 DEF MonitorScan
    <2> QED
      BY <1>28, <1>0, <2>1, Kinds, ScanKeeps, OwnedStays
  <1>29. CASE MonitorPolicy
    <2>1. OthersKept(Monitor)
      BY <1>29, <1>0, Kinds DEF MonitorPolicy, Goto, Forget, NoWork, OthersKept
    <2>2. mine[Monitor].lock = 0
      BY <1>29, <1>0, Kinds DEF MonitorPolicy, LockForgotten, Lockless
    <2> QED
      BY <1>29, <2>1, <2>2, <1>0, OwnedLeft, Kinds DEF MonitorPolicy
  <1>30. CASE MonitorLags
    BY <1>30, <1>0, Kinds DEF MonitorLags
  <1>31. CASE MonitorRemove
    BY <1>31, <1>0, Kinds DEF MonitorRemove, CanWrite, Goto, Up
  <1>32. CASE MonitorWarm
    BY <1>32, <1>0, Kinds, SMTT(30) DEF MonitorWarm, Goto
  <1>33. CASE MonitorCount
    <2>1. OthersKept(Monitor)
      BY <1>33, <1>0, Kinds DEF MonitorCount, Goto, Forget, NoWork, OthersKept
    <2>2. mine[Monitor].lock = 0
      BY <1>33, <1>0, Kinds DEF MonitorCount, LockForgotten, Lockless
    <2> QED
      BY <1>33, <2>1, <2>2, <1>0, OwnedLeft, Kinds DEF MonitorCount
  <1>34. ASSUME NEW t \in Task, Disconnect(t) PROVE LockOwned'
    <2>1. OthersKept(t)
      BY <1>34, <1>0 DEF Disconnect, Goto, Forget, NoWork, OthersKept
    <2> QED
      BY <1>34, <2>1, <1>0, OwnedLeft DEF Disconnect
  <1>35. CASE UNCHANGED vars
    BY <1>35, <1>0 DEF vars
  <1> QED
    BY <1>1, <1>2, <1>3, <1>4, <1>5, <1>6, <1>7, <1>8, <1>9, <1>10, <1>11,
       <1>12, <1>13, <1>14, <1>15, <1>16, <1>17, <1>18, <1>19, <1>20, <1>21,
       <1>22, <1>23, <1>24, <1>25, <1>26, <1>27, <1>28, <1>29, <1>30, <1>31,
       <1>32, <1>33, <1>34, <1>35
       DEF Next, Step, Load, Execute, Restart

\* What a step of one task leaves to the others: where they are, what they work
\* on and the mutexes they hold.
Elsewhere(t) ==
    /\ \A u \in Task \ {t} : at'[u] = at[u] /\ mine'[u] = mine[u]
    /\ \A u \in Task \ {t} : \A k \in 1..MaxLock :
           holder[k] = u => holder'[k] = u
    /\ scene' = scene /\ (torn => torn')

\* A step of task t.
Acts(t) == \/ LoadCalled(t) \/ UnloadTake(t) \/ CommandCalled(t) \/ Step(t)
           \/ Blocks(t) \/ Disconnect(t)

\* A lock that another task holds is not released.
LEMMA ReleaseElsewhere ==
    ASSUME Types, NEW t \in Task
    PROVE  /\ \A u \in Task \ {t} : \A k \in 1..MaxLock :
                  holder[k] = u => Release(t)[k] = u
           /\ Lock(t) => \A u \in Task \ {t} : \A k \in 1..MaxLock :
                  holder[k] = u => holder'[k] = u
  BY Kinds DEF Types, TypeOK, Release, Lock

\* A task does not change the work of the others.
LEMMA StepsApart ==
    ASSUME Types, NEW t \in Task, Acts(t)
    PROVE  Elsewhere(t)
  <1> USE DEF memory, mutexes, objects, history, Types, TypeOK, Goto, Elsewhere
  <1>1. CASE Blocks(t)
    BY <1>1, ReleaseElsewhere DEF Blocks
  <1>2. CASE LoadCalled(t)
    BY <1>2, ReleaseElsewhere DEF LoadCalled
  <1>3. CASE LoadFast(t)
    BY <1>3, ReleaseElsewhere, SMTT(30) DEF LoadFast, TakeEntry
  <1>4. CASE LoadLock(t)
    BY <1>4, ReleaseElsewhere DEF LoadLock
  <1>5. CASE LoadCheck(t)
    BY <1>5, ReleaseElsewhere DEF LoadCheck, Forget
  <1>6. CASE LoadSpawn(t)
    BY <1>6, ReleaseElsewhere DEF LoadSpawn
  <1>7. CASE LoadStarted(t)
    BY <1>7, ReleaseElsewhere DEF LoadStarted
  <1>8. CASE LoadFails(t)
    BY <1>8, ReleaseElsewhere DEF LoadFails, Forget, RemoveEntry
  <1>9. CASE LoadInsert(t)
    BY <1>9, ReleaseElsewhere DEF LoadInsert
  <1>10. CASE LoadPublish(t)
    BY <1>10, ReleaseElsewhere DEF LoadPublish
  <1>11. CASE LoadInfo(t)
    BY <1>11, ReleaseElsewhere, ZenonT(60) DEF LoadInfo, Forget
  <1>12. CASE UnloadTake(t)
    BY <1>12, ReleaseElsewhere DEF UnloadTake
  <1>13. CASE UnloadDone(t)
    BY <1>13, ReleaseElsewhere DEF UnloadDone, Forget, RemoveEntry
  <1>14. CASE CommandCalled(t)
    BY <1>14, ReleaseElsewhere, SMTT(30) DEF CommandCalled
  <1>15. CASE CommandReturns(t)
    BY <1>15, ReleaseElsewhere DEF CommandReturns, Forget
  <1>16. CASE LazyPolicy(t)
    BY <1>16, ReleaseElsewhere, SMTT(30) DEF LazyPolicy, TakeEntry, Forget
  <1>17. CASE LazyLock(t)
    BY <1>17, ReleaseElsewhere DEF LazyLock
  <1>18. CASE LazyCheck(t)
    BY <1>18, ReleaseElsewhere, SMTT(30) DEF LazyCheck
  <1>19. CASE LazyStop(t)
    BY <1>19, ReleaseElsewhere DEF LazyStop
  <1>20. CASE LazyStopped(t)
    BY <1>20, ReleaseElsewhere DEF LazyStopped
  <1>21. CASE LazyRemove(t)
    BY <1>21, ReleaseElsewhere DEF LazyRemove
  <1>22. CASE LazyCount(t)
    BY <1>22, ReleaseElsewhere DEF LazyCount
  <1>23. CASE LazyGet(t)
    BY <1>23, ReleaseElsewhere, ZenonT(60) DEF LazyGet
  <1>24. CASE t = Monitor /\ MonitorScan
    BY <1>24, ReleaseElsewhere, SMTT(30) DEF MonitorScan
  <1>25. CASE t = Monitor /\ MonitorPolicy
    BY <1>25, ReleaseElsewhere DEF MonitorPolicy, Forget
  <1>26. CASE t = Monitor /\ MonitorLags
    BY <1>26, ReleaseElsewhere DEF MonitorLags
  <1>27. CASE t = Monitor /\ MonitorRemove
    BY <1>27, ReleaseElsewhere DEF MonitorRemove
  <1>28. CASE t = Monitor /\ MonitorWarm
    BY <1>28, ReleaseElsewhere DEF MonitorWarm
  <1>29. CASE t = Monitor /\ MonitorCount
    BY <1>29, ReleaseElsewhere DEF MonitorCount, Forget
  <1>30. CASE Disconnect(t)
    BY <1>30, ReleaseElsewhere DEF Disconnect, Forget
  <1> QED
    BY <1>1, <1>2, <1>3, <1>4, <1>5, <1>6, <1>7, <1>8, <1>9, <1>10, <1>11,
       <1>12, <1>13, <1>14, <1>15, <1>16, <1>17, <1>18, <1>19, <1>20, <1>21,
       <1>22, <1>23, <1>24, <1>25, <1>26, <1>27, <1>28, <1>29, <1>30
       DEF Acts, Step, Load, Execute, Restart

\* A lazy restart stays before its own mutex, whatever another task does.
LEMMA WaitsKept ==
    ASSUME Types, LazyWaits, NEW t \in Task, Elsewhere(t),
           Intact /\ t \in Command => at'[t] \notin Loading
    PROVE  LazyWaits'
  <1> SUFFICES ASSUME Intact', NEW u \in Command, u # t
               PROVE  /\ at'[u] \notin Loading \ {"load", "lock"}
                      /\ at'[u] \in {"load", "lock"} =>
                             mine'[u].lock # 0 /\ holder'[mine'[u].lock] = u
    BY DEF LazyWaits, Elsewhere, Intact, Loading
  <1>1. Intact /\ u \in Task
    BY DEF Intact, Elsewhere, Task
  <1>2. at'[u] = at[u] /\ mine'[u] = mine[u]
    BY <1>1 DEF Elsewhere
  <1>3. at[u] \notin Loading \ {"load", "lock"}
    BY <1>1 DEF LazyWaits
  <1>4. ASSUME at[u] \in {"load", "lock"}
        PROVE  mine[u].lock # 0 /\ holder'[mine[u].lock] = u
    <2>1. mine[u].lock # 0 /\ holder[mine[u].lock] = u
      BY <1>1, <1>4 DEF LazyWaits
    <2>2. mine[u].lock \in 1..MaxLock
      BY <1>1, <2>1 DEF Types, TypeOK, Work
    <2> QED
      BY <1>1, <2>1, <2>2 DEF Elsewhere
  <1> QED
    BY <1>2, <1>3, <1>4

\* No step lets a lazy restart pass its own mutex.
LEMMA LazyStep == IInv /\ [Next]_vars => LazyWaits'
  <1> SUFFICES ASSUME IInv, [Next]_vars PROVE LazyWaits'
    OBVIOUS
  <1>0. Types /\ LockForgotten /\ LockOwned /\ LazyWaits
    BY DEF IInv
  <1> USE DEF memory, mutexes, objects, history
  <1>1. CASE Tick
    BY <1>1, <1>0, Kinds DEF Tick, LazyWaits, Intact, Types, TypeOK
  <1>2. ASSUME NEW o \in Object, Dies(o) PROVE LazyWaits'
    BY <1>2, <1>0, Kinds DEF Dies, LazyWaits, Intact, Types, TypeOK
  <1>3. CASE OthersDie
    BY <1>3, <1>0, Kinds DEF OthersDie, LazyWaits, Intact, Types, TypeOK
  <1>4. ASSUME NEW o \in Object, ChildGone(o) PROVE LazyWaits'
    BY <1>4, <1>0, Kinds DEF ChildGone, LazyWaits, Intact, Types, TypeOK
  <1>5. ASSUME NEW t \in Task, Blocks(t) PROVE LazyWaits'
    <2>1. Intact /\ t \in Command => at'[t] \notin Loading
      BY <1>5 DEF Blocks, Writing, Loading
    <2> QED
      BY <1>5, <1>0, <2>1, StepsApart, WaitsKept DEF Acts
  <1>6. ASSUME NEW t \in Task, LoadCalled(t) PROVE LazyWaits'
    <2>1. Intact /\ t \in Command => at'[t] \notin Loading
      BY <1>6, <1>0, Kinds DEF LoadCalled, Goto, Loading, LazyWaits, Types,
             TypeOK,
             LazyWaits, Intact, Types, TypeOK
    <2> QED
      BY <1>6, <1>0, <2>1, StepsApart, WaitsKept DEF Acts, Step, Load, Execute
  <1>7. ASSUME NEW t \in Task, LoadFast(t) PROVE LazyWaits'
    <2> SUFFICES ASSUME Intact, t \in Command, at'[t] # "lazy_count"
                 PROVE  LazyWaits'
      <3>1. CASE Intact /\ t \in Command /\ at'[t] = "lazy_count"
        BY <1>7, <1>0, <3>1, StepsApart, WaitsKept DEF Acts, Step, Load,
               Loading
      <3>2. CASE ~(Intact /\ t \in Command)
        BY <1>7, <1>0, <3>2, StepsApart, WaitsKept DEF Acts, Step, Load
      <3> QED
        BY <3>1, <3>2
    <2>1. mine[t].lock # 0 /\ holder[mine[t].lock] = t /\ mine[t].lock = table
      BY <1>7, <1>0 DEF LoadFast, LazyWaits, LockOwned
    <2>2. TakeEntry(t) /\ Goto(t, "lock")
      BY <1>7, <1>0, AfterLoad DEF LoadFast, Intact, Goto, Types, TypeOK
    <2>3. mine'[t].lock = mine[t].lock /\ UNCHANGED holder /\ at'[t] = "lock"
      BY <1>0, <2>1, <2>2 DEF TakeEntry, Goto, Types, TypeOK, Work
    <2>4. Elsewhere(t)
      BY <1>7, <1>0, StepsApart DEF Acts, Step, Load
    <2>5. \A u \in Task \ {t} : at'[u] = at[u] /\ mine'[u] = mine[u]
      BY <2>4 DEF Elsewhere
    <2> QED
      BY <1>0, <2>1, <2>3, <2>5 DEF LazyWaits, Task
  <1>8. ASSUME NEW t \in Task, LoadLock(t) PROVE LazyWaits'
    <2>1. ~(Intact /\ t \in Command)
      BY <1>8, <1>0, Kinds DEF LoadLock, Lock, LazyWaits, LazyWaits, Intact,
             Types, TypeOK
    <2> QED
      BY <1>8, <1>0, <2>1, StepsApart, WaitsKept DEF Acts, Step, Load
  <1>9. ASSUME NEW t \in Task, LoadCheck(t) PROVE LazyWaits'
    <2>1. Intact /\ t \in Command => at'[t] \notin Loading
      BY <1>9, <1>0, AfterLoad DEF LoadCheck, Goto, Loading, LazyWaits, Types,
             TypeOK
    <2> QED
      BY <1>9, <1>0, <2>1, StepsApart, WaitsKept DEF Acts, Step, Load, Execute
  <1>10. ASSUME NEW t \in Task, LoadSpawn(t) PROVE LazyWaits'
    <2>1. Intact /\ t \in Command => at'[t] \notin Loading
      BY <1>10, <1>0 DEF LoadSpawn, Goto, Loading, LazyWaits, Types, TypeOK
    <2> QED
      BY <1>10, <1>0, <2>1, StepsApart, WaitsKept DEF Acts, Step, Load, Execute
  <1>11. ASSUME NEW t \in Task, LoadStarted(t) PROVE LazyWaits'
    <2>1. Intact /\ t \in Command => at'[t] \notin Loading
      BY <1>11, <1>0 DEF LoadStarted, Goto, Loading, LazyWaits, Types, TypeOK
    <2> QED
      BY <1>11, <1>0, <2>1, StepsApart, WaitsKept DEF Acts, Step, Load, Execute
  <1>12. ASSUME NEW t \in Task, LoadFails(t) PROVE LazyWaits'
    <2>1. Intact /\ t \in Command => at'[t] \notin Loading
      BY <1>12, <1>0, AfterLoad DEF LoadFails, Goto, Loading, LazyWaits, Types,
             TypeOK
    <2> QED
      BY <1>12, <1>0, <2>1, StepsApart, WaitsKept DEF Acts, Step, Load, Execute
  <1>13. ASSUME NEW t \in Task, LoadInsert(t) PROVE LazyWaits'
    <2>1. Intact /\ t \in Command => at'[t] \notin Loading
      BY <1>13, <1>0 DEF LoadInsert, Goto, Loading, LazyWaits, Types, TypeOK
    <2> QED
      BY <1>13, <1>0, <2>1, StepsApart, WaitsKept DEF Acts, Step, Load, Execute
  <1>14. ASSUME NEW t \in Task, LoadPublish(t) PROVE LazyWaits'
    <2>1. Intact /\ t \in Command => at'[t] \notin Loading
      BY <1>14, <1>0 DEF LoadPublish, Goto, Loading, LazyWaits, Types, TypeOK
    <2> QED
      BY <1>14, <1>0, <2>1, StepsApart, WaitsKept DEF Acts, Step, Load, Execute
  <1>15. ASSUME NEW t \in Task, LoadInfo(t) PROVE LazyWaits'
    <2>1. Intact /\ t \in Command => at'[t] \notin Loading
      BY <1>15, <1>0, AfterLoad DEF LoadInfo, Goto, Loading, LazyWaits, Types,
             TypeOK
    <2> QED
      BY <1>15, <1>0, <2>1, StepsApart, WaitsKept DEF Acts, Step, Load, Execute
  <1>16. ASSUME NEW t \in Task, UnloadTake(t) PROVE LazyWaits'
    <2>1. Intact /\ t \in Command => at'[t] \notin Loading
      BY <1>16, <1>0, Kinds DEF UnloadTake, Goto, Loading, LazyWaits, Types,
             TypeOK,
             LazyWaits, Intact, Types, TypeOK
    <2> QED
      BY <1>16, <1>0, <2>1, StepsApart, WaitsKept DEF Acts, Step, Load, Execute
  <1>17. ASSUME NEW t \in Task, UnloadDone(t) PROVE LazyWaits'
    <2>1. Intact /\ t \in Command => at'[t] \notin Loading
      BY <1>17, <1>0 DEF UnloadDone, Goto, Loading, LazyWaits, Types, TypeOK
    <2> QED
      BY <1>17, <1>0, <2>1, StepsApart, WaitsKept DEF Acts, Step, Load, Execute
  <1>18. ASSUME NEW t \in Task, CommandCalled(t) PROVE LazyWaits'
    <2>1. Intact /\ t \in Command => at'[t] \notin Loading
      BY <1>18, <1>0 DEF CommandCalled, Goto, Loading, LazyWaits, Types, TypeOK
    <2> QED
      BY <1>18, <1>0, <2>1, StepsApart, WaitsKept DEF Acts, Step, Load, Execute
  <1>19. ASSUME NEW t \in Task, CommandReturns(t) PROVE LazyWaits'
    <2>1. Intact /\ t \in Command => at'[t] \notin Loading
      BY <1>19, <1>0 DEF CommandReturns, Goto, Loading, LazyWaits, Types,
             TypeOK
    <2> QED
      BY <1>19, <1>0, <2>1, StepsApart, WaitsKept DEF Acts, Step, Load, Execute
  <1>20. ASSUME NEW t \in Task, LazyPolicy(t) PROVE LazyWaits'
    <2>1. Intact /\ t \in Command => at'[t] \notin Loading
      BY <1>20, <1>0 DEF LazyPolicy, Goto, Loading, LazyWaits, Types, TypeOK
    <2> QED
      BY <1>20, <1>0, <2>1, StepsApart, WaitsKept DEF Acts, Step, Load, Execute
  <1>21. ASSUME NEW t \in Task, LazyLock(t) PROVE LazyWaits'
    <2>1. Intact /\ t \in Command => at'[t] \notin Loading
      BY <1>21, <1>0 DEF LazyLock, Goto, Loading, LazyWaits, Types, TypeOK
    <2> QED
      BY <1>21, <1>0, <2>1, StepsApart, WaitsKept DEF Acts, Step, Load, Execute
  <1>22. ASSUME NEW t \in Task, LazyCheck(t) PROVE LazyWaits'
    <2>1. Intact /\ t \in Command => at'[t] \notin Loading
      BY <1>22, <1>0 DEF LazyCheck, Goto, Loading, LazyWaits, Types, TypeOK
    <2> QED
      BY <1>22, <1>0, <2>1, StepsApart, WaitsKept DEF Acts, Step, Load, Execute
  <1>23. ASSUME NEW t \in Task, LazyStop(t) PROVE LazyWaits'
    <2>1. Intact /\ t \in Command => at'[t] \notin Loading
      BY <1>23, <1>0 DEF LazyStop, Goto, Loading, LazyWaits, Types, TypeOK
    <2> QED
      BY <1>23, <1>0, <2>1, StepsApart, WaitsKept DEF Acts, Step, Load, Execute
  <1>24. ASSUME NEW t \in Task, LazyStopped(t) PROVE LazyWaits'
    <2>1. Intact /\ t \in Command => at'[t] \notin Loading
      BY <1>24, <1>0 DEF LazyStopped, Goto, Loading, LazyWaits, Types, TypeOK
    <2> QED
      BY <1>24, <1>0, <2>1, StepsApart, WaitsKept DEF Acts, Step, Load, Execute
  <1>25. ASSUME NEW t \in Task, LazyRemove(t) PROVE LazyWaits'
    <2>1. Intact => mine[t].lock # 0 /\ holder[mine[t].lock] = t
      BY <1>25, <1>0 DEF LazyRemove, LockOwned, Guarded
    <2>2. at' = [at EXCEPT ![t] = "load"] /\ UNCHANGED <<scene, mine, holder>>
          /\ (torn => torn')
      BY <1>25 DEF LazyRemove, Goto
    <2> QED
      BY <1>0, <2>1, <2>2 DEF LazyWaits, Intact, Types, TypeOK, Task
  <1>26. ASSUME NEW t \in Task, LazyCount(t) PROVE LazyWaits'
    <2>1. Intact /\ t \in Command => at'[t] \notin Loading
      BY <1>26, <1>0 DEF LazyCount, Goto, Loading, LazyWaits, Types, TypeOK
    <2> QED
      BY <1>26, <1>0, <2>1, StepsApart, WaitsKept DEF Acts, Step, Load, Execute
  <1>27. ASSUME NEW t \in Task, LazyGet(t) PROVE LazyWaits'
    <2>1. Intact /\ t \in Command => at'[t] \notin Loading
      BY <1>27, <1>0 DEF LazyGet, Goto, Loading, LazyWaits, Types, TypeOK
    <2> QED
      BY <1>27, <1>0, <2>1, StepsApart, WaitsKept DEF Acts, Step, Load, Execute
  <1>28. CASE MonitorScan
    <2>1. Elsewhere(Monitor)
      BY <1>28, <1>0, Kinds, StepsApart DEF Acts, Step, Restart
    <2> QED
      BY <1>0, <2>1, Kinds, WaitsKept
  <1>29. CASE MonitorPolicy
    <2>1. Elsewhere(Monitor)
      BY <1>29, <1>0, Kinds, StepsApart DEF Acts, Step, Restart
    <2> QED
      BY <1>0, <2>1, Kinds, WaitsKept
  <1>30. CASE MonitorLags
    <2>1. Elsewhere(Monitor)
      BY <1>30, <1>0, Kinds, StepsApart DEF Acts, Step, Restart
    <2> QED
      BY <1>0, <2>1, Kinds, WaitsKept
  <1>31. CASE MonitorRemove
    <2>1. Elsewhere(Monitor)
      BY <1>31, <1>0, Kinds, StepsApart DEF Acts, Step, Restart
    <2> QED
      BY <1>0, <2>1, Kinds, WaitsKept
  <1>32. CASE MonitorWarm
    <2>1. Elsewhere(Monitor)
      BY <1>32, <1>0, Kinds, StepsApart DEF Acts, Step, Restart
    <2> QED
      BY <1>0, <2>1, Kinds, WaitsKept
  <1>33. CASE MonitorCount
    <2>1. Elsewhere(Monitor)
      BY <1>33, <1>0, Kinds, StepsApart DEF Acts, Step, Restart
    <2> QED
      BY <1>0, <2>1, Kinds, WaitsKept
  <1>34. ASSUME NEW t \in Task, Disconnect(t) PROVE LazyWaits'
    <2>1. Intact /\ t \in Command => at'[t] \notin Loading
      BY <1>34, <1>0 DEF Disconnect, Goto, Loading, LazyWaits, Types, TypeOK
    <2> QED
      BY <1>34, <1>0, <2>1, StepsApart, WaitsKept DEF Acts, Step, Load, Execute
  <1>35. CASE UNCHANGED vars
    BY <1>35, <1>0 DEF vars, LazyWaits, Intact
  <1> QED
    BY <1>1, <1>2, <1>3, <1>4, <1>5, <1>6, <1>7, <1>8, <1>9, <1>10, <1>11,
       <1>12, <1>13, <1>14, <1>15, <1>16, <1>17, <1>18, <1>19, <1>20, <1>21,
       <1>22, <1>23, <1>24, <1>25, <1>26, <1>27, <1>28, <1>29, <1>30, <1>31,
       <1>32, <1>33, <1>34, <1>35
       DEF Next, Step, Load, Execute, Restart

-----------------------------------------------------------------------------
(* The processes *)

\* A process that has started does not go back to its start.
LEMMA Ageing ==
    Types /\ [Next]_vars =>
        \A p \in Object :
            object[p] \in Aged => object'[p] \in Aged
  <1> SUFFICES ASSUME Types, [Next]_vars, NEW p \in Object,
                      object[p] \in Aged
               PROVE  object'[p] \in Aged
    OBVIOUS
  <1> USE DEF memory, mutexes, objects, history, Types, TypeOK, Aged
  <1>1. ASSUME NEW o \in Object, Dies(o) PROVE object'[p] \in Aged
    BY <1>1 DEF Dies
  <1>2. ASSUME NEW t \in Task, LoadSpawn(t) PROVE object'[p] \in Aged
    BY <1>2 DEF LoadSpawn
  <1>3. ASSUME NEW t \in Task, LoadStarted(t)
        PROVE  object'[p] \in Aged
    BY <1>3 DEF LoadStarted
  <1>4. ASSUME NEW t \in Task, LoadFails(t) PROVE object'[p] \in Aged
    BY <1>4 DEF LoadFails
  <1>5. ASSUME NEW t \in Task, UnloadDone(t)
        PROVE  object'[p] \in Aged
    BY <1>5 DEF UnloadDone
  <1>6. ASSUME NEW t \in Task, LazyStopped(t) PROVE object'[p] \in Aged
    BY <1>6 DEF LazyStopped
  <1>7. ASSUME NEW o \in Object, ChildGone(o) PROVE object'[p] \in Aged
    BY <1>7 DEF ChildGone
  <1>8. ASSUME NEW t \in Task, Disconnect(t) PROVE object'[p] \in Aged
    BY <1>8 DEF Disconnect
  <1>9. CASE UNCHANGED object
    BY <1>9
  <1> QED
    BY <1>1, <1>2, <1>3, <1>4, <1>5, <1>6, <1>7, <1>8, <1>9
       DEF Next, Step, Load, Execute, Restart, vars, Tick, OthersDie,
           Blocks, LoadCalled, LoadFast, LoadLock, LoadCheck, LoadInsert,
           LoadPublish, LoadInfo, UnloadTake, CommandCalled, CommandReturns,
           LazyPolicy, LazyLock, LazyCheck, LazyStop, LazyRemove, LazyCount,
           LazyGet, MonitorScan, MonitorPolicy, MonitorLags, MonitorRemove,
           MonitorWarm, MonitorCount

\* A task that inserts nothing and is not about to leaves it so.
LEMMA StartedKept ==
    ASSUME Types, Started, NEW t \in Task, Elsewhere(t),
           \A p \in Object : object[p] \in Aged => object'[p] \in Aged,
           at'[t] # "insert", ext' = ext
    PROVE  Started'
  <1>1. ext' # 0 => object'[ext'] \in Aged
    <2>1. ext \in 0..MaxObject
      BY DEF Types, TypeOK
    <2> QED
      BY <2>1 DEF Started
  <1>2. ASSUME NEW u \in Task, at'[u] = "insert"
        PROVE  object'[mine'[u].object] \in Aged
    <2>1. u # t /\ at[u] = "insert" /\ mine'[u] = mine[u]
      BY <1>2 DEF Elsewhere
    <2>2. mine[u].object \in Object /\ object[mine[u].object] \in Aged
      BY <2>1 DEF Types, WorksOnObject, Started
    <2> QED
      BY <2>1, <2>2
  <1> QED
    BY <1>1, <1>2 DEF Started

\* What is in the map has started.
LEMMA StartedStep == Types /\ Started /\ [Next]_vars => Started'
  <1> SUFFICES ASSUME Types /\ Started, [Next]_vars PROVE Started'
    OBVIOUS
  <1>0. \A p \in Object :
            object[p] \in Aged => object'[p] \in Aged
    BY Ageing
  <1> USE DEF memory, mutexes, objects, history
  <1> USE DEF Types, TypeOK, Work, WorksOnObject, Started, Aged
  <1>1. CASE Tick
    BY <1>1, <1>0 DEF Tick
  <1>2. ASSUME NEW o \in Object, Dies(o) PROVE Started'
    BY <1>2, <1>0 DEF Dies
  <1>3. CASE OthersDie
    BY <1>3, <1>0 DEF OthersDie
  <1>4. ASSUME NEW o \in Object, ChildGone(o) PROVE Started'
    BY <1>4, <1>0 DEF ChildGone
  <1>5. ASSUME NEW t \in Task, Blocks(t) PROVE Started'
    <2>1. Elsewhere(t)
      BY <1>5, StepsApart DEF Acts, Step, Load, Execute, Restart
    <2>2. at'[t] # "insert" /\ ext' = ext
      BY <1>5 DEF Blocks, Goto, Writing
    <2> QED
      BY <1>0, <2>1, <2>2, StartedKept
  <1>6. ASSUME NEW t \in Task, LoadCalled(t) PROVE Started'
    BY <1>6, <1>0 DEF LoadCalled, Calls, Goto
  <1>7. ASSUME NEW t \in Task, LoadFast(t) PROVE Started'
    BY <1>7, AfterLoad, <1>0, ZenonT(60) DEF LoadFast, Goto, TakeEntry
  <1>8. ASSUME NEW t \in Task, LoadLock(t) PROVE Started'
    BY <1>8, <1>0 DEF LoadLock, Lock, Goto
  <1>9. ASSUME NEW t \in Task, LoadCheck(t) PROVE Started'
    BY <1>9, AfterLoad, <1>0, ZenonT(60) DEF LoadCheck, Goto, Release, Forget
  <1>10. ASSUME NEW t \in Task, LoadSpawn(t) PROVE Started'
    <2>1. Elsewhere(t)
      BY <1>10, StepsApart DEF Acts, Step, Load, Execute
    <2> QED
      BY <1>10, <1>0, <2>1, SMTT(30) DEF LoadSpawn, Goto, Elsewhere
  <1>11. ASSUME NEW t \in Task, LoadStarted(t) PROVE Started'
    <2>1. Elsewhere(t)
      BY <1>11, StepsApart DEF Acts, Step, Load, Execute
    <2> QED
      BY <1>11, <1>0, <2>1 DEF LoadStarted, Goto, Elsewhere
  <1>12. ASSUME NEW t \in Task, LoadFails(t) PROVE Started'
    <2>1. Elsewhere(t)
      BY <1>12, StepsApart DEF Acts, Step, Load
    <2>2. at'[t] # "insert" /\ ext' = ext
      BY <1>12, AfterLoad DEF LoadFails, Goto
    <2> QED
      BY <1>0, <2>1, <2>2, StartedKept
  <1>13. ASSUME NEW t \in Task, LoadInsert(t) PROVE Started'
    BY <1>13, <1>0 DEF LoadInsert, CanWrite, Goto, Up
  <1>14. ASSUME NEW t \in Task, LoadPublish(t) PROVE Started'
    <2>1. Elsewhere(t)
      BY <1>14, StepsApart DEF Acts, Step, Load, Execute, Restart
    <2>2. at'[t] # "insert" /\ ext' = ext
      BY <1>14 DEF LoadPublish, Goto
    <2> QED
      BY <1>0, <2>1, <2>2, StartedKept
  <1>15. ASSUME NEW t \in Task, LoadInfo(t) PROVE Started'
    <2>1. Elsewhere(t)
      BY <1>15, StepsApart DEF Acts, Step, Load, Execute, Restart
    <2>2. at'[t] # "insert" /\ ext' = ext
      BY <1>15, AfterLoad DEF LoadInfo, Goto
    <2> QED
      BY <1>0, <2>1, <2>2, StartedKept
  <1>16. ASSUME NEW t \in Task, UnloadTake(t) PROVE Started'
    BY <1>16, <1>0 DEF UnloadTake, Calls, CanWrite, Goto
  <1>17. ASSUME NEW t \in Task, UnloadDone(t) PROVE Started'
    <2>1. Elsewhere(t)
      BY <1>17, StepsApart DEF Acts, Step, Load, Execute
    <2> QED
      BY <1>17, <1>0, <2>1, SMTT(30) DEF UnloadDone, Goto, Elsewhere
  <1>18. ASSUME NEW t \in Task, CommandCalled(t) PROVE Started'
    BY <1>18, <1>0, SMTT(30) DEF CommandCalled, Calls, Goto, Up
  <1>19. ASSUME NEW t \in Task, CommandReturns(t) PROVE Started'
    BY <1>19, <1>0 DEF CommandReturns, Forget, Goto
  <1>20. ASSUME NEW t \in Task, LazyPolicy(t) PROVE Started'
    BY <1>20, <1>0, ZenonT(60) DEF LazyPolicy, TakeEntry, Goto, Forget
  <1>21. ASSUME NEW t \in Task, LazyLock(t) PROVE Started'
    BY <1>21, <1>0 DEF LazyLock, Lock, Goto
  <1>22. ASSUME NEW t \in Task, LazyCheck(t) PROVE Started'
    BY <1>22, <1>0, ZenonT(60) DEF LazyCheck, Release, Goto, Up
  <1>23. ASSUME NEW t \in Task, LazyStop(t) PROVE Started'
    <2>1. Elsewhere(t)
      BY <1>23, StepsApart DEF Acts, Step, Load, Execute, Restart
    <2>2. at'[t] # "insert" /\ ext' = ext
      BY <1>23 DEF LazyStop, Goto
    <2> QED
      BY <1>0, <2>1, <2>2, StartedKept
  <1>24. ASSUME NEW t \in Task, LazyStopped(t) PROVE Started'
    <2>1. Elsewhere(t)
      BY <1>24, StepsApart DEF Acts, Step, Load, Execute, Restart
    <2>2. at'[t] # "insert" /\ ext' = ext
      BY <1>24 DEF LazyStopped, Goto
    <2> QED
      BY <1>0, <2>1, <2>2, StartedKept
  <1>25. ASSUME NEW t \in Task, LazyRemove(t) PROVE Started'
    BY <1>25, <1>0 DEF LazyRemove, CanWrite, Goto, Up
  <1>26. ASSUME NEW t \in Task, LazyCount(t) PROVE Started'
    <2>1. Elsewhere(t)
      BY <1>26, StepsApart DEF Acts, Step, Load, Execute, Restart
    <2>2. at'[t] # "insert" /\ ext' = ext
      BY <1>26 DEF LazyCount, Goto
    <2> QED
      BY <1>0, <2>1, <2>2, StartedKept
  <1>27. ASSUME NEW t \in Task, LazyGet(t) PROVE Started'
    <2>1. Elsewhere(t)
      BY <1>27, StepsApart DEF Acts, Step, Load, Execute, Restart
    <2>2. at'[t] # "insert" /\ ext' = ext
      BY <1>27 DEF LazyGet, Goto
    <2> QED
      BY <1>0, <2>1, <2>2, StartedKept
  <1>28. CASE MonitorScan
    <2>1. Elsewhere(Monitor)
      BY <1>28, Kinds, StepsApart DEF Acts, Step, Load, Execute, Restart
    <2>2. at'[Monitor] # "insert" /\ ext' = ext
      BY <1>28, Kinds DEF MonitorScan, Goto
    <2> QED
      BY <1>0, <2>1, <2>2, Kinds, StartedKept
  <1>29. CASE MonitorPolicy
    <2>1. Elsewhere(Monitor)
      BY <1>29, Kinds, StepsApart DEF Acts, Step, Load, Execute, Restart
    <2>2. at'[Monitor] # "insert" /\ ext' = ext
      BY <1>29, Kinds DEF MonitorPolicy, Goto
    <2> QED
      BY <1>0, <2>1, <2>2, Kinds, StartedKept
  <1>30. CASE MonitorLags
    BY <1>30, <1>0 DEF MonitorLags
  <1>31. CASE MonitorRemove
    BY <1>31, <1>0 DEF MonitorRemove, CanWrite, Goto, Up
  <1>32. CASE MonitorWarm
    <2>1. Elsewhere(Monitor)
      BY <1>32, Kinds, StepsApart DEF Acts, Step, Load, Execute, Restart
    <2>2. at'[Monitor] # "insert" /\ ext' = ext
      BY <1>32, Kinds DEF MonitorWarm, Goto
    <2> QED
      BY <1>0, <2>1, <2>2, Kinds, StartedKept
  <1>33. CASE MonitorCount
    <2>1. Elsewhere(Monitor)
      BY <1>33, Kinds, StepsApart DEF Acts, Step, Load, Execute, Restart
    <2>2. at'[Monitor] # "insert" /\ ext' = ext
      BY <1>33, Kinds DEF MonitorCount, Goto
    <2> QED
      BY <1>0, <2>1, <2>2, Kinds, StartedKept
  <1>34. ASSUME NEW t \in Task, Disconnect(t) PROVE Started'
    <2>1. Elsewhere(t)
      BY <1>34, StepsApart DEF Acts, Step, Load, Execute, Restart
    <2>2. at'[t] # "insert" /\ ext' = ext
      BY <1>34 DEF Disconnect, Goto
    <2> QED
      BY <1>0, <2>1, <2>2, StartedKept
  <1>35. CASE UNCHANGED vars
    BY <1>35 DEF vars
  <1> QED
    BY <1>1, <1>2, <1>3, <1>4, <1>5, <1>6, <1>7, <1>8, <1>9, <1>10, <1>11,
       <1>12, <1>13, <1>14, <1>15, <1>16, <1>17, <1>18, <1>19, <1>20, <1>21,
       <1>22, <1>23, <1>24, <1>25, <1>26, <1>27, <1>28, <1>29, <1>30, <1>31,
       <1>32, <1>33, <1>34, <1>35
       DEF Next, Step, Load, Execute, Restart

\* An unload has the map for itself.
LEMMA UnloadingStep == Types /\ Unloading /\ [Next]_vars => Unloading'
  <1> SUFFICES ASSUME Types /\ Unloading, [Next]_vars PROVE Unloading'
    OBVIOUS
  <1> USE DEF memory, mutexes, objects, history
  <1> USE DEF Types, TypeOK, Unloading
  <1>1. CASE Tick
    BY <1>1, Kinds DEF Tick
  <1>2. ASSUME NEW o \in Object, Dies(o) PROVE Unloading'
    BY <1>2, Kinds DEF Dies
  <1>3. CASE OthersDie
    BY <1>3, Kinds DEF OthersDie
  <1>4. ASSUME NEW o \in Object, ChildGone(o) PROVE Unloading'
    BY <1>4, Kinds DEF ChildGone
  <1>5. ASSUME NEW t \in Task, Blocks(t) PROVE Unloading'
    BY <1>5, Kinds DEF Blocks
  <1>6. ASSUME NEW t \in Task, LoadCalled(t) PROVE Unloading'
    BY <1>6, Kinds DEF LoadCalled, Calls, Goto
  <1>7. ASSUME NEW t \in Task, LoadFast(t) PROVE Unloading'
    <2>1. at'[t] # "stopping" /\ \A u \in Task \ {t} : at'[u] = at[u]
      BY <1>7, AfterLoad DEF LoadFast, Goto
    <2>2. UNCHANGED <<writer, ext>>
      BY <1>7 DEF LoadFast
    <2> QED
      BY <2>1, <2>2
  <1>8. ASSUME NEW t \in Task, LoadLock(t) PROVE Unloading'
    BY <1>8, Kinds DEF LoadLock, Lock, Goto
  <1>9. ASSUME NEW t \in Task, LoadCheck(t) PROVE Unloading'
    BY <1>9, AfterLoad, Kinds, SMTT(30) DEF LoadCheck, Goto, Release, Forget
  <1>10. ASSUME NEW t \in Task, LoadSpawn(t) PROVE Unloading'
    BY <1>10, Kinds DEF LoadSpawn, Goto
  <1>11. ASSUME NEW t \in Task, LoadStarted(t) PROVE Unloading'
    BY <1>11, Kinds DEF LoadStarted, Goto
  <1>12. ASSUME NEW t \in Task, LoadFails(t) PROVE Unloading'
    BY <1>12, AfterLoad DEF LoadFails, Goto
  <1>13. ASSUME NEW t \in Task, LoadInsert(t) PROVE Unloading'
    BY <1>13, Kinds DEF LoadInsert, CanWrite, Goto, Up
  <1>14. ASSUME NEW t \in Task, LoadPublish(t) PROVE Unloading'
    BY <1>14, Kinds DEF LoadPublish, Goto
  <1>15. ASSUME NEW t \in Task, LoadInfo(t) PROVE Unloading'
    BY <1>15, AfterLoad DEF LoadInfo, Goto
  <1>16. ASSUME NEW t \in Task, UnloadTake(t) PROVE Unloading'
    BY <1>16, Kinds DEF UnloadTake, Calls, CanWrite, Goto
  <1>17. ASSUME NEW t \in Task, UnloadDone(t) PROVE Unloading'
    BY <1>17, Kinds DEF UnloadDone, Up, NoInfo, RemoveEntry, InUse, Forget,
           Goto
  <1>18. ASSUME NEW t \in Task, CommandCalled(t) PROVE Unloading'
    BY <1>18, Kinds DEF CommandCalled, Calls, Goto, Up
  <1>19. ASSUME NEW t \in Task, CommandReturns(t) PROVE Unloading'
    BY <1>19, Kinds DEF CommandReturns, Forget, Goto
  <1>20. ASSUME NEW t \in Task, LazyPolicy(t) PROVE Unloading'
    BY <1>20, Kinds DEF LazyPolicy, TakeEntry, Goto, Forget
  <1>21. ASSUME NEW t \in Task, LazyLock(t) PROVE Unloading'
    BY <1>21, Kinds DEF LazyLock, Lock, Goto
  <1>22. ASSUME NEW t \in Task, LazyCheck(t) PROVE Unloading'
    BY <1>22, Kinds DEF LazyCheck, Release, Goto, Up
  <1>23. ASSUME NEW t \in Task, LazyStop(t) PROVE Unloading'
    BY <1>23, Kinds DEF LazyStop, Goto
  <1>24. ASSUME NEW t \in Task, LazyStopped(t) PROVE Unloading'
    BY <1>24, Kinds DEF LazyStopped, Goto
  <1>25. ASSUME NEW t \in Task, LazyRemove(t) PROVE Unloading'
    BY <1>25, Kinds DEF LazyRemove, CanWrite, Goto, Up
  <1>26. ASSUME NEW t \in Task, LazyCount(t) PROVE Unloading'
    BY <1>26, Kinds DEF LazyCount, Goto
  <1>27. ASSUME NEW t \in Task, LazyGet(t) PROVE Unloading'
    BY <1>27, Kinds DEF LazyGet, Goto
  <1>28. CASE MonitorScan
    BY <1>28, Kinds DEF MonitorScan, Goto
  <1>29. CASE MonitorPolicy
    BY <1>29, Kinds DEF MonitorPolicy, Goto
  <1>30. CASE MonitorLags
    BY <1>30, Kinds DEF MonitorLags
  <1>31. CASE MonitorRemove
    BY <1>31, Kinds DEF MonitorRemove, CanWrite, Goto, Up
  <1>32. CASE MonitorWarm
    BY <1>32, Kinds DEF MonitorWarm, Goto
  <1>33. CASE MonitorCount
    BY <1>33, Kinds DEF MonitorCount, Goto
  <1>34. ASSUME NEW t \in Task, Disconnect(t) PROVE Unloading'
    BY <1>34, Kinds DEF Disconnect, Goto
  <1>35. CASE UNCHANGED vars
    BY <1>35 DEF vars
  <1> QED
    BY <1>1, <1>2, <1>3, <1>4, <1>5, <1>6, <1>7, <1>8, <1>9, <1>10, <1>11,
       <1>12, <1>13, <1>14, <1>15, <1>16, <1>17, <1>18, <1>19, <1>20, <1>21,
       <1>22, <1>23, <1>24, <1>25, <1>26, <1>27, <1>28, <1>29, <1>30, <1>31,
       <1>32, <1>33, <1>34, <1>35
       DEF Next, Step, Load, Execute, Restart

\* The object has a process.
Live(o) == object[o] \in {"starting", "up"}

\* A load that creates a process is the only one.
LEMMA OneCreates ==
    ASSUME Types, LockOwned, Intact, NEW t \in Task, NEW u \in Task,
           at[t] \in Creating, at[u] \in Creating
    PROVE  t = u
  <1>1. /\ at[t] \in Guarded /\ at[u] \in Guarded
    BY DEF Creating, Guarded
  <1>2. /\ mine[t].lock # 0 /\ holder[mine[t].lock] = t
        /\ mine[u].lock # 0 /\ holder[mine[u].lock] = u
    BY <1>1 DEF LockOwned
  <1>3. mine[t].lock \in {0, table} /\ mine[u].lock \in {0, table}
    BY DEF LockOwned
  <1> QED
    BY <1>2, <1>3

\* Nobody stops a process while the lock of the map is free.
LEMMA NobodyStops ==
    ASSUME Unloading, writer = Free
    PROVE  \A t \in Task : at[t] # "stopping"
  BY Kinds DEF Unloading

\* A task that neither creates nor stops a process leaves the others' alone.
LEMMA KnownKept ==
    ASSUME Types, LiveKnown, NEW t \in Task, Elsewhere(t),
           Intact /\ Intact' =>
                     /\ at'[t] \notin Creating \cup {"stopping"}
                     /\ \A o \in Object : Live(o)' =>
                            /\ Live(o)
                            /\ \/ at[t] \notin {"start", "insert", "stopping"}
                               \/ mine[t].object # o
                     /\ ext' = ext \/ (ext' = 0 /\ \A o \in Object :
                                                       ext = o => ~Live(o))
    PROVE  LiveKnown'
  <1> SUFFICES ASSUME Intact' PROVE LiveKnown'
    BY DEF LiveKnown
  <1>0. Intact
    BY DEF Intact, Elsewhere
  <1>1. ASSUME NEW o \in Object, Live(o)'
        PROVE  \/ ext' = o
               \/ \E u \in Task : /\ mine'[u].object = o
                                  /\ at'[u] \in {"start", "insert", "stopping"}
    <2>1. Live(o)
      BY <1>0, <1>1
    <2>2. CASE ext = o
      BY <1>0, <2>1, <2>2
    <2>3. CASE \E u \in Task : /\ mine[u].object = o
                               /\ at[u] \in {"start", "insert", "stopping"}
      <3>1. PICK u \in Task : /\ mine[u].object = o
                              /\ at[u] \in {"start", "insert", "stopping"}
        BY <2>3
      <3>2. u # t
        BY <1>0, <1>1, <3>1
      <3> QED
        BY <3>1, <3>2 DEF Elsewhere
    <2> QED
      BY <1>0, <2>1, <2>2, <2>3 DEF LiveKnown, Live
  <1>2. \A u \in Task : at'[u] \in Creating => ext' = 0
    BY <1>0 DEF LiveKnown, Elsewhere
  <1>3. \A u, v \in Task : at'[u] \in Creating /\ at'[v] = "stopping"
            => mine'[v].object = 0
    BY <1>0 DEF LiveKnown, Elsewhere
  <1> QED
    BY <1>1, <1>2, <1>3 DEF LiveKnown, Live

\* Every process that lives stays known.
LEMMA KnownStep == IInv /\ [Next]_vars => LiveKnown'
  <1> SUFFICES ASSUME IInv, [Next]_vars PROVE LiveKnown'
    OBVIOUS
  <1>0. /\ Types /\ LockOwned /\ LazyWaits
        /\ Started /\ Unloading /\ LiveKnown
    BY DEF IInv
  <1> USE DEF memory, mutexes, objects, history
  <1>1. CASE Tick
    BY <1>1, <1>0 DEF Tick, LiveKnown, Intact
  <1>2. ASSUME NEW o \in Object, Dies(o) PROVE LiveKnown'
    BY <1>2, <1>0 DEF Dies, LiveKnown, Intact, Types, TypeOK
  <1>3. CASE OthersDie
    BY <1>3, <1>0 DEF OthersDie, LiveKnown, Intact
  <1>4. ASSUME NEW o \in Object, ChildGone(o) PROVE LiveKnown'
    BY <1>4, <1>0 DEF ChildGone, LiveKnown, Intact, Types, TypeOK
  <1>5. ASSUME NEW t \in Task, Blocks(t) PROVE LiveKnown'
    <2>1. /\ \A u \in Task : mine'[u].object = mine[u].object
          /\ UNCHANGED <<scene, torn, object, ext, at>>
      BY <1>5, <1>0 DEF Blocks, Types, TypeOK, Work
    <2> QED
      BY <1>0, <2>1 DEF LiveKnown, Intact
  <1>6. ASSUME NEW t \in Task, LoadCalled(t) PROVE LiveKnown'
    <2>1. Elsewhere(t)
      BY <1>6, <1>0, StepsApart DEF Acts, Step, Load, Execute, Restart
    <2>2. Intact => at'[t] \notin Creating \cup {"stopping"}
      BY <1>6, <1>0 DEF LoadCalled, Goto, Creating, Types, TypeOK, Intact
    <2>3. \A o \in Object : Live(o)' =>
              /\ Live(o)
              /\ \/ at[t] \notin {"start", "insert", "stopping"}
                 \/ mine[t].object # o
      BY <1>6, <1>0 DEF LoadCalled, Calls, Live, Types, TypeOK
    <2>4. ext' = ext
      BY <1>6 DEF LoadCalled
    <2> QED
      BY <1>0, <2>1, <2>2, <2>3, <2>4, KnownKept
  <1>7. ASSUME NEW t \in Task, LoadFast(t) PROVE LiveKnown'
    <2>1. Elsewhere(t)
      BY <1>7, <1>0, StepsApart DEF Acts, Step, Load, Execute, Restart
    <2>2. Intact => at'[t] \notin Creating \cup {"stopping"}
      BY <1>7, <1>0, AfterLoad DEF LoadFast, Goto, Creating, Types, TypeOK,
             Intact
    <2>3. \A o \in Object : Live(o)' =>
              /\ Live(o)
              /\ \/ at[t] \notin {"start", "insert", "stopping"}
                 \/ mine[t].object # o
      BY <1>7, <1>0 DEF LoadFast, Calls, Live, Types, TypeOK
    <2>4. ext' = ext
      BY <1>7 DEF LoadFast
    <2> QED
      BY <1>0, <2>1, <2>2, <2>3, <2>4, KnownKept
  <1>8. ASSUME NEW t \in Task, LoadLock(t) PROVE LiveKnown'
    <2>1. Elsewhere(t)
      BY <1>8, <1>0, StepsApart DEF Acts, Step, Load, Execute, Restart
    <2>2. Intact => at'[t] \notin Creating \cup {"stopping"}
      BY <1>8, <1>0 DEF LoadLock, Goto, Creating, Types, TypeOK, Intact
    <2>3. \A o \in Object : Live(o)' =>
              /\ Live(o)
              /\ \/ at[t] \notin {"start", "insert", "stopping"}
                 \/ mine[t].object # o
      BY <1>8, <1>0 DEF LoadLock, Calls, Live, Types, TypeOK
    <2>4. ext' = ext
      BY <1>8 DEF LoadLock
    <2> QED
      BY <1>0, <2>1, <2>2, <2>3, <2>4, KnownKept
  <1>9. ASSUME NEW t \in Task, LoadCheck(t) PROVE LiveKnown'
    <2>1. Elsewhere(t)
      BY <1>9, <1>0, StepsApart DEF Acts, Step, Load
    <2>2. \A u \in Task : at[u] # "stopping"
      BY <1>9, <1>0, NobodyStops DEF LoadCheck, CanRead
    <2>3. ext' = ext /\ object' = object /\ (at'[t] \in Creating => ext = 0)
          /\ at'[t] # "stopping"
      BY <1>9, <1>0, AfterLoad DEF LoadCheck, Goto, Creating, Types, TypeOK
    <2>4. at[t] \notin {"start", "insert", "stopping"}
      BY <1>9 DEF LoadCheck
    <2> QED
      BY <1>0, <2>1, <2>2, <2>3, <2>4
         DEF LiveKnown, Elsewhere, Intact
  <1>10. ASSUME NEW t \in Task, LoadSpawn(t) PROVE LiveKnown'
    <2>1. Elsewhere(t)
      BY <1>10, <1>0, StepsApart DEF Acts, Step, Load
    <2>2. PICK o \in Object : /\ object[o] = "none"
                             /\ object' = [object EXCEPT ![o] = "starting"]
                             /\ mine' = [mine EXCEPT ![t].object = o]
      BY <1>10 DEF LoadSpawn
    <2>3. /\ at'[t] = "start" /\ at[t] = "spawn" /\ ext' = ext
          /\ mine'[t].object = o
      BY <1>10, <2>2, <1>0 DEF LoadSpawn, Goto, Types, TypeOK, Work
    <2>4. \A p \in Object \ {o} : object'[p] = object[p]
      BY <2>2, <1>0 DEF Types, TypeOK
    <2> SUFFICES ASSUME Intact' PROVE LiveKnown'
      BY DEF LiveKnown
    <2>5. Intact
      BY <2>1 DEF Elsewhere, Intact
    <2>6. ASSUME NEW p \in Object, object'[p] \in {"starting", "up"}
          PROVE  \/ ext' = p
                 \/ \E u \in Task : /\ mine'[u].object = p
                                    /\ at'[u] \in {"start", "insert", "stopping"}
      <3>1. CASE p = o
        BY <3>1, <2>3
      <3>2. CASE p # o
        BY <3>2, <2>1, <2>3, <2>4, <2>5, <2>6, <1>0 DEF LiveKnown, Elsewhere
      <3> QED
        BY <3>1, <3>2
    <2>7. /\ \A u \in Task : at'[u] \in Creating => ext' = 0
          /\ \A u, v \in Task : at'[u] \in Creating /\ at'[v] = "stopping"
                 => mine'[v].object = 0
      BY <1>0, <2>1, <2>3, <2>5 DEF LiveKnown, Elsewhere, Creating
    <2> QED
      BY <2>6, <2>7 DEF LiveKnown
  <1>11. ASSUME NEW t \in Task, LoadStarted(t) PROVE LiveKnown'
    <2>1. Elsewhere(t)
      BY <1>11, <1>0, StepsApart DEF Acts, Step, Load
    <2>2. /\ at'[t] = "insert" /\ at[t] = "start" /\ ext' = ext
          /\ mine' = mine
          /\ object' = [object EXCEPT ![mine[t].object] = "up"]
      BY <1>11, <1>0 DEF LoadStarted, Goto, Types, TypeOK
    <2>3. \A p \in Object : p # mine[t].object => object'[p] = object[p]
      BY <2>2, <1>0 DEF Types, TypeOK
    <2> SUFFICES ASSUME Intact' PROVE LiveKnown'
      BY DEF LiveKnown
    <2>5. Intact
      BY <2>1 DEF Elsewhere, Intact
    <2>6. ASSUME NEW p \in Object, object'[p] \in {"starting", "up"}
          PROVE  \/ ext' = p
                 \/ \E u \in Task : /\ mine'[u].object = p
                                    /\ at'[u] \in {"start", "insert", "stopping"}
      <3>1. CASE p = mine[t].object
        BY <3>1, <2>2
      <3>2. CASE p # mine[t].object
        BY <3>2, <2>1, <2>2, <2>3, <2>5, <2>6, <1>0 DEF LiveKnown, Elsewhere
      <3> QED
        BY <3>1, <3>2
    <2>7. /\ \A u \in Task : at'[u] \in Creating => ext' = 0
          /\ \A u, v \in Task : at'[u] \in Creating /\ at'[v] = "stopping"
                 => mine'[v].object = 0
      BY <1>0, <2>1, <2>2, <2>5 DEF LiveKnown, Elsewhere, Creating
    <2> QED
      BY <2>6, <2>7 DEF LiveKnown
  <1>12. ASSUME NEW t \in Task, LoadFails(t) PROVE LiveKnown'
    <2>1. Elsewhere(t)
      BY <1>12, <1>0, StepsApart DEF Acts, Step, Load
    <2>2. at'[t] \notin Creating \cup {"stopping"} /\ ext' = ext
      BY <1>12, <1>0, AfterLoad DEF LoadFails, Goto, Creating, Types, TypeOK
    <2>3. \A o \in Object : Live(o)' =>
              /\ Live(o)
              /\ \/ at[t] \notin {"start", "insert", "stopping"}
                 \/ mine[t].object # o
      BY <1>12, <1>0 DEF LoadFails, Live, Types, TypeOK
    <2> QED
      BY <1>0, <2>1, <2>2, <2>3, KnownKept
  <1>13. ASSUME NEW t \in Task, LoadInsert(t) PROVE LiveKnown'
    <2>1. Elsewhere(t)
      BY <1>13, <1>0, StepsApart DEF Acts, Step, Load
    <2>2. /\ at'[t] = "publish" /\ at[t] = "insert" /\ ext' = mine[t].object
          /\ UNCHANGED object
      BY <1>13, <1>0 DEF LoadInsert, Goto, Types, TypeOK
    <2> SUFFICES ASSUME Intact' PROVE LiveKnown'
      BY DEF LiveKnown
    <2>5. Intact
      BY <2>1 DEF Elsewhere, Intact
    <2>3. ext = 0
      BY <2>2, <2>5, <1>0 DEF LiveKnown, Creating
    <2>4. \A u \in Task : at'[u] \notin Creating
      <3> SUFFICES ASSUME NEW u \in Task, at'[u] \in Creating PROVE FALSE
        OBVIOUS
      <3>1. u # t
        BY <2>2 DEF Creating
      <3>2. at[u] \in Creating /\ at[t] \in Creating
        BY <3>1, <2>1, <2>2 DEF Elsewhere, Creating
      <3> QED
        BY <3>1, <3>2, <2>5, <1>0, OneCreates
    <2>6. ASSUME NEW p \in Object, object'[p] \in {"starting", "up"}
          PROVE  \/ ext' = p
                 \/ \E u \in Task : /\ mine'[u].object = p
                                    /\ at'[u] \in {"start", "insert", "stopping"}
      BY <2>1, <2>2, <2>3, <2>5, <2>6, <1>0 DEF LiveKnown, Elsewhere
    <2> QED
      BY <2>4, <2>6 DEF LiveKnown
  <1>14. ASSUME NEW t \in Task, LoadPublish(t) PROVE LiveKnown'
    <2>1. Elsewhere(t)
      BY <1>14, <1>0, StepsApart DEF Acts, Step, Load, Execute, Restart
    <2>2. Intact => at'[t] \notin Creating \cup {"stopping"}
      BY <1>14, <1>0, AfterLoad DEF LoadPublish, Goto, Creating, Types, TypeOK,
             Intact
    <2>3. \A o \in Object : Live(o)' =>
              /\ Live(o)
              /\ \/ at[t] \notin {"start", "insert", "stopping"}
                 \/ mine[t].object # o
      BY <1>14, <1>0 DEF LoadPublish, Calls, Live, Types, TypeOK
    <2>4. ext' = ext
      BY <1>14 DEF LoadPublish
    <2> QED
      BY <1>0, <2>1, <2>2, <2>3, <2>4, KnownKept
  <1>15. ASSUME NEW t \in Task, LoadInfo(t) PROVE LiveKnown'
    <2>1. Elsewhere(t)
      BY <1>15, <1>0, StepsApart DEF Acts, Step, Load, Execute, Restart
    <2>2. Intact => at'[t] \notin Creating \cup {"stopping"}
      BY <1>15, <1>0, AfterLoad DEF LoadInfo, Goto, Creating, Types, TypeOK,
             Intact
    <2>3. \A o \in Object : Live(o)' =>
              /\ Live(o)
              /\ \/ at[t] \notin {"start", "insert", "stopping"}
                 \/ mine[t].object # o
      BY <1>15, <1>0 DEF LoadInfo, Calls, Live, Types, TypeOK
    <2>4. ext' = ext
      BY <1>15 DEF LoadInfo
    <2> QED
      BY <1>0, <2>1, <2>2, <2>3, <2>4, KnownKept
  <1>16. ASSUME NEW t \in Task, UnloadTake(t) PROVE LiveKnown'
    <2>1. Elsewhere(t)
      BY <1>16, <1>0, StepsApart DEF Acts
    <2>2. /\ at'[t] = "stopping" /\ at[t] = "idle" /\ ext' = 0
          /\ UNCHANGED object /\ mine'[t].object = ext
      BY <1>16, <1>0 DEF UnloadTake, Calls, Goto, Types, TypeOK, Work
    <2>3. \A u \in Task : at[u] # "stopping"
      BY <1>16, <1>0, NobodyStops DEF UnloadTake, CanWrite
    <2> SUFFICES ASSUME Intact' PROVE LiveKnown'
      BY DEF LiveKnown
    <2>5. Intact
      BY <2>1 DEF Elsewhere, Intact
    <2>6. ASSUME NEW p \in Object, object'[p] \in {"starting", "up"}
          PROVE  \/ ext' = p
                 \/ \E u \in Task : /\ mine'[u].object = p
                                    /\ at'[u] \in {"start", "insert", "stopping"}
      BY <2>1, <2>2, <2>5, <2>6, <1>0 DEF LiveKnown, Elsewhere
    <2>7. \A u, v \in Task : at'[u] \in Creating /\ at'[v] = "stopping"
              => mine'[v].object = 0
      BY <2>1, <2>2, <2>3, <2>5, <1>0 DEF LiveKnown, Elsewhere, Creating
    <2> QED
      BY <2>2, <2>6, <2>7 DEF LiveKnown
  <1>17. ASSUME NEW t \in Task, UnloadDone(t) PROVE LiveKnown'
    <2>1. Elsewhere(t)
      BY <1>17, <1>0, StepsApart DEF Acts, Step, Load
    <2>2. at'[t] \notin Creating \cup {"stopping"} /\ ext' = ext
      BY <1>17, <1>0, AfterLoad DEF UnloadDone, Goto, Creating, Types, TypeOK
    <2>3. \A o \in Object : Live(o)' => Live(o) /\ mine[t].object # o
      BY <1>17, <1>0 DEF UnloadDone, Live, Types, TypeOK, Work
    <2> QED
      BY <1>0, <2>1, <2>2, <2>3, KnownKept
  <1>18. ASSUME NEW t \in Task, CommandCalled(t) PROVE LiveKnown'
    <2>1. Elsewhere(t)
      BY <1>18, <1>0, StepsApart DEF Acts, Step, Load, Execute, Restart
    <2>2. Intact => at'[t] \notin Creating \cup {"stopping"}
      BY <1>18, <1>0 DEF CommandCalled, Goto, Creating, Types, TypeOK, Intact
    <2>3. \A o \in Object : Live(o)' =>
              /\ Live(o)
              /\ \/ at[t] \notin {"start", "insert", "stopping"}
                 \/ mine[t].object # o
      BY <1>18, <1>0 DEF CommandCalled, Calls, Live, Types, TypeOK
    <2>4. ext' = ext
      BY <1>18 DEF CommandCalled
    <2> QED
      BY <1>0, <2>1, <2>2, <2>3, <2>4, KnownKept
  <1>19. ASSUME NEW t \in Task, CommandReturns(t) PROVE LiveKnown'
    <2>1. Elsewhere(t)
      BY <1>19, <1>0, StepsApart DEF Acts, Step, Load, Execute, Restart
    <2>2. Intact => at'[t] \notin Creating \cup {"stopping"}
      BY <1>19, <1>0 DEF CommandReturns, Goto, Creating, Types, TypeOK, Intact
    <2>3. \A o \in Object : Live(o)' =>
              /\ Live(o)
              /\ \/ at[t] \notin {"start", "insert", "stopping"}
                 \/ mine[t].object # o
      BY <1>19, <1>0 DEF CommandReturns, Calls, Live, Types, TypeOK
    <2>4. ext' = ext
      BY <1>19 DEF CommandReturns
    <2> QED
      BY <1>0, <2>1, <2>2, <2>3, <2>4, KnownKept
  <1>20. ASSUME NEW t \in Task, LazyPolicy(t) PROVE LiveKnown'
    <2>1. Elsewhere(t)
      BY <1>20, <1>0, StepsApart DEF Acts, Step, Load, Execute, Restart
    <2>2. Intact => at'[t] \notin Creating \cup {"stopping"}
      BY <1>20, <1>0 DEF LazyPolicy, Goto, Creating, Types, TypeOK, Intact
    <2>3. \A o \in Object : Live(o)' =>
              /\ Live(o)
              /\ \/ at[t] \notin {"start", "insert", "stopping"}
                 \/ mine[t].object # o
      BY <1>20, <1>0 DEF LazyPolicy, Calls, Live, Types, TypeOK
    <2>4. ext' = ext
      BY <1>20 DEF LazyPolicy
    <2> QED
      BY <1>0, <2>1, <2>2, <2>3, <2>4, KnownKept
  <1>21. ASSUME NEW t \in Task, LazyLock(t) PROVE LiveKnown'
    <2>1. Elsewhere(t)
      BY <1>21, <1>0, StepsApart DEF Acts, Step, Load, Execute, Restart
    <2>2. Intact => at'[t] \notin Creating \cup {"stopping"}
      BY <1>21, <1>0 DEF LazyLock, Goto, Creating, Types, TypeOK, Intact
    <2>3. \A o \in Object : Live(o)' =>
              /\ Live(o)
              /\ \/ at[t] \notin {"start", "insert", "stopping"}
                 \/ mine[t].object # o
      BY <1>21, <1>0 DEF LazyLock, Calls, Live, Types, TypeOK
    <2>4. ext' = ext
      BY <1>21 DEF LazyLock
    <2> QED
      BY <1>0, <2>1, <2>2, <2>3, <2>4, KnownKept
  <1>22. ASSUME NEW t \in Task, LazyCheck(t) PROVE LiveKnown'
    <2>1. Elsewhere(t)
      BY <1>22, <1>0, StepsApart DEF Acts, Step, Load, Execute, Restart
    <2>2. Intact => at'[t] \notin Creating \cup {"stopping"}
      BY <1>22, <1>0 DEF LazyCheck, Goto, Creating, Types, TypeOK, Intact
    <2>3. \A o \in Object : Live(o)' =>
              /\ Live(o)
              /\ \/ at[t] \notin {"start", "insert", "stopping"}
                 \/ mine[t].object # o
      BY <1>22, <1>0 DEF LazyCheck, Calls, Live, Types, TypeOK
    <2>4. ext' = ext
      BY <1>22 DEF LazyCheck
    <2> QED
      BY <1>0, <2>1, <2>2, <2>3, <2>4, KnownKept
  <1>23. ASSUME NEW t \in Task, LazyStop(t) PROVE LiveKnown'
    <2>1. Elsewhere(t)
      BY <1>23, <1>0, StepsApart DEF Acts, Step, Load, Execute, Restart
    <2>2. Intact => at'[t] \notin Creating \cup {"stopping"}
      BY <1>23, <1>0 DEF LazyStop, Goto, Creating, Types, TypeOK, Intact
    <2>3. \A o \in Object : Live(o)' =>
              /\ Live(o)
              /\ \/ at[t] \notin {"start", "insert", "stopping"}
                 \/ mine[t].object # o
      BY <1>23, <1>0 DEF LazyStop, Calls, Live, Types, TypeOK
    <2>4. ext' = ext
      BY <1>23 DEF LazyStop
    <2> QED
      BY <1>0, <2>1, <2>2, <2>3, <2>4, KnownKept
  <1>24. ASSUME NEW t \in Task, LazyStopped(t) PROVE LiveKnown'
    <2>1. Elsewhere(t)
      BY <1>24, <1>0, StepsApart DEF Acts, Step, Load, Execute, Restart
    <2>2. Intact => at'[t] \notin Creating \cup {"stopping"}
      BY <1>24, <1>0 DEF LazyStopped, Goto, Creating, Types, TypeOK, Intact
    <2>3. \A o \in Object : Live(o)' =>
              /\ Live(o)
              /\ \/ at[t] \notin {"start", "insert", "stopping"}
                 \/ mine[t].object # o
      BY <1>24, <1>0 DEF LazyStopped, Live, Types, TypeOK
    <2>4. ext' = ext
      BY <1>24 DEF LazyStopped
    <2> QED
      BY <1>0, <2>1, <2>2, <2>3, <2>4, KnownKept
  <1>25. ASSUME NEW t \in Task, LazyRemove(t) PROVE LiveKnown'
    <2>1. Elsewhere(t)
      BY <1>25, <1>0, StepsApart DEF Acts, Step, Execute, Restart
    <2>2. at'[t] = "load" /\ UNCHANGED object
      BY <1>25, <1>0 DEF LazyRemove, Goto, Types, TypeOK
    <2>3. Intact' => ext' = 0 /\ \A o \in Object : ext = o => ~Live(o)
      <3>1. Intact' => ~Up(ext)
        BY <1>25, Zenon DEF LazyRemove, Intact
      <3>2. ext' = 0
        BY <1>25 DEF LazyRemove
      <3> QED
        BY <1>0, <3>1, <3>2 DEF Up, Started, Aged, Live
    <2> QED
      BY <1>25, <1>0, <2>1, <2>2, <2>3, KnownKept DEF LazyRemove, Creating,
             Live
  <1>26. ASSUME NEW t \in Task, LazyCount(t) PROVE LiveKnown'
    <2>1. Elsewhere(t)
      BY <1>26, <1>0, StepsApart DEF Acts, Step, Load, Execute, Restart
    <2>2. Intact => at'[t] \notin Creating \cup {"stopping"}
      BY <1>26, <1>0 DEF LazyCount, Goto, Creating, Types, TypeOK, Intact
    <2>3. \A o \in Object : Live(o)' =>
              /\ Live(o)
              /\ \/ at[t] \notin {"start", "insert", "stopping"}
                 \/ mine[t].object # o
      BY <1>26, <1>0 DEF LazyCount, Calls, Live, Types, TypeOK
    <2>4. ext' = ext
      BY <1>26 DEF LazyCount
    <2> QED
      BY <1>0, <2>1, <2>2, <2>3, <2>4, KnownKept
  <1>27. ASSUME NEW t \in Task, LazyGet(t) PROVE LiveKnown'
    <2>1. Elsewhere(t)
      BY <1>27, <1>0, StepsApart DEF Acts, Step, Load, Execute, Restart
    <2>2. Intact => at'[t] \notin Creating \cup {"stopping"}
      BY <1>27, <1>0 DEF LazyGet, Goto, Creating, Types, TypeOK, Intact
    <2>3. \A o \in Object : Live(o)' =>
              /\ Live(o)
              /\ \/ at[t] \notin {"start", "insert", "stopping"}
                 \/ mine[t].object # o
      BY <1>27, <1>0 DEF LazyGet, Live, Types, TypeOK
    <2>4. ext' = ext
      BY <1>27 DEF LazyGet
    <2> QED
      BY <1>0, <2>1, <2>2, <2>3, <2>4, KnownKept
  <1>28. CASE MonitorScan
    <2>1. Elsewhere(Monitor)
      BY <1>28, <1>0, Kinds, StepsApart DEF Acts, Step, Load, Execute, Restart
    <2>2. Intact => at'[Monitor] \notin Creating \cup {"stopping"}
      BY <1>28, <1>0, Kinds DEF MonitorScan, Goto, Creating, Types, TypeOK,
             Intact
    <2>3. \A o \in Object : Live(o)' =>
              /\ Live(o)
              /\ \/ at[Monitor] \notin {"start", "insert", "stopping"}
                 \/ mine[Monitor].object # o
      BY <1>28, <1>0, Kinds DEF MonitorScan, Calls, Live, Types, TypeOK
    <2>4. ext' = ext
      BY <1>28 DEF MonitorScan
    <2> QED
      BY <1>0, <2>1, <2>2, <2>3, <2>4, Kinds, KnownKept
  <1>29. CASE MonitorPolicy
    <2>1. Elsewhere(Monitor)
      BY <1>29, <1>0, Kinds, StepsApart DEF Acts, Step, Load, Execute, Restart
    <2>2. Intact => at'[Monitor] \notin Creating \cup {"stopping"}
      BY <1>29, <1>0, Kinds DEF MonitorPolicy, Goto, Creating, Types, TypeOK,
             Intact
    <2>3. \A o \in Object : Live(o)' =>
              /\ Live(o)
              /\ \/ at[Monitor] \notin {"start", "insert", "stopping"}
                 \/ mine[Monitor].object # o
      BY <1>29, <1>0, Kinds DEF MonitorPolicy, Live, Types, TypeOK
    <2>4. ext' = ext
      BY <1>29 DEF MonitorPolicy
    <2> QED
      BY <1>0, <2>1, <2>2, <2>3, <2>4, Kinds, KnownKept
  <1>30. CASE MonitorLags
    <2>1. Elsewhere(Monitor)
      BY <1>30, <1>0, Kinds, StepsApart DEF Acts, Step, Load, Execute, Restart
    <2>2. Intact => at'[Monitor] \notin Creating \cup {"stopping"}
      BY <1>30, <1>0, Kinds DEF MonitorLags, Goto, Creating, Types, TypeOK,
             Intact
    <2>3. \A o \in Object : Live(o)' =>
              /\ Live(o)
              /\ \/ at[Monitor] \notin {"start", "insert", "stopping"}
                 \/ mine[Monitor].object # o
      BY <1>30, <1>0, Kinds DEF MonitorLags, Live, Types, TypeOK
    <2>4. ext' = ext
      BY <1>30 DEF MonitorLags
    <2> QED
      BY <1>0, <2>1, <2>2, <2>3, <2>4, Kinds, KnownKept
  <1>31. CASE MonitorRemove
    <2>1. Elsewhere(Monitor)
      BY <1>31, <1>0, Kinds, StepsApart DEF Acts, Step, Execute, Restart
    <2>2. at'[Monitor] = "load" /\ UNCHANGED object
      BY <1>31, <1>0, Kinds DEF MonitorRemove, Goto, Types, TypeOK
    <2>3. Intact' => ext' = 0 /\ \A o \in Object : ext = o => ~Live(o)
      <3>1. Intact' => ~Up(ext)
        BY <1>31, Zenon DEF MonitorRemove, Intact
      <3>2. ext' = 0
        BY <1>31 DEF MonitorRemove
      <3> QED
        BY <1>0, <3>1, <3>2 DEF Up, Started, Aged, Live
    <2> QED
      BY <1>31, <1>0, <2>1, <2>2, <2>3, Kinds, KnownKept DEF MonitorRemove,
             Creating, Live
  <1>32. CASE MonitorWarm
    <2>1. Elsewhere(Monitor)
      BY <1>32, <1>0, Kinds, StepsApart DEF Acts, Step, Load, Execute, Restart
    <2>2. Intact => at'[Monitor] \notin Creating \cup {"stopping"}
      BY <1>32, <1>0, Kinds DEF MonitorWarm, Goto, Creating, Types, TypeOK,
             Intact
    <2>3. \A o \in Object : Live(o)' =>
              /\ Live(o)
              /\ \/ at[Monitor] \notin {"start", "insert", "stopping"}
                 \/ mine[Monitor].object # o
      BY <1>32, <1>0, Kinds DEF MonitorWarm, Calls, Live, Types, TypeOK
    <2>4. ext' = ext
      BY <1>32 DEF MonitorWarm
    <2> QED
      BY <1>0, <2>1, <2>2, <2>3, <2>4, Kinds, KnownKept
  <1>33. CASE MonitorCount
    <2>1. Elsewhere(Monitor)
      BY <1>33, <1>0, Kinds, StepsApart DEF Acts, Step, Load, Execute, Restart
    <2>2. Intact => at'[Monitor] \notin Creating \cup {"stopping"}
      BY <1>33, <1>0, Kinds DEF MonitorCount, Goto, Creating, Types, TypeOK,
             Intact
    <2>3. \A o \in Object : Live(o)' =>
              /\ Live(o)
              /\ \/ at[Monitor] \notin {"start", "insert", "stopping"}
                 \/ mine[Monitor].object # o
      BY <1>33, <1>0, Kinds DEF MonitorCount, Calls, Live, Types, TypeOK
    <2>4. ext' = ext
      BY <1>33 DEF MonitorCount
    <2> QED
      BY <1>0, <2>1, <2>2, <2>3, <2>4, Kinds, KnownKept
  <1>34. ASSUME NEW t \in Task, Disconnect(t) PROVE LiveKnown'
    <2>1. Elsewhere(t)
      BY <1>34, <1>0, StepsApart DEF Acts, Step, Load, Execute, Restart
    <2>2. Intact => at'[t] \notin Creating \cup {"stopping"}
      BY <1>34, <1>0 DEF Disconnect, Goto, Creating, Types, TypeOK, Intact
    <2>3. \A o \in Object : Live(o)' =>
              /\ Live(o)
              /\ \/ at[t] \notin {"start", "insert", "stopping"}
                 \/ mine[t].object # o
      BY <1>34, <1>0 DEF Disconnect, Live, Owns, Types, TypeOK
    <2>4. ext' = ext
      BY <1>34 DEF Disconnect
    <2> QED
      BY <1>0, <2>1, <2>2, <2>3, <2>4, KnownKept
  <1>35. CASE UNCHANGED vars
    BY <1>35, <1>0 DEF vars, LiveKnown, Intact
  <1> QED
    BY <1>1, <1>2, <1>3, <1>4, <1>5, <1>6, <1>7, <1>8, <1>9, <1>10, <1>11,
       <1>12, <1>13, <1>14, <1>15, <1>16, <1>17, <1>18, <1>19, <1>20, <1>21,
       <1>22, <1>23, <1>24, <1>25, <1>26, <1>27, <1>28, <1>29, <1>30, <1>31,
       <1>32, <1>33, <1>34, <1>35
       DEF Next, Step, Load, Execute, Restart

-----------------------------------------------------------------------------
(* The restart budget *)

\* The monitor is in a load or in its own loop.
LEMMA MonitorAt ==
    ASSUME Types
    PROVE  at[Monitor] \in Loading \cup {"recv", "policy", "remove", "warm", "count"}
  BY Kinds DEF Types, Places

\* The budget does not depend on what leaves the counters alone, if the monitor
\* stays where it is, goes on in its load or comes out of it.
LEMMA BudgetKept ==
    ASSUME Types, Budget, UNCHANGED <<restarts, now, info, scene>>,
           torn => torn',
           \/ at'[Monitor] = at[Monitor]
           \/ /\ at[Monitor] \in Loading \cup {"remove"}
              /\ at'[Monitor] \in Loading \cup {"recv", "warm"}
           \/ at[Monitor] = "recv" /\ at'[Monitor] = "policy"
    PROVE  Budget'
  <1> SUFFICES ASSUME Intact' PROVE Budget'
    BY DEF Budget
  <1>1. Intact
    BY DEF Intact
  <1>2. CASE at'[Monitor] = at[Monitor]
    BY <1>1, <1>2 DEF Budget
  <1>3. CASE /\ at[Monitor] \in Loading \cup {"remove"}
             /\ at'[Monitor] \in Loading \cup {"recv", "warm"}
    <2>1. at[Monitor] \notin {"warm", "count"}
      BY <1>3 DEF Loading
    <2>2. info.count \in Nat /\ Len(restarts) \in Nat
      BY DEF Types, TypeOK, Info
    <2> QED
      BY <1>1, <1>3, <2>1, <2>2 DEF Budget
  <1>4. CASE at[Monitor] = "recv" /\ at'[Monitor] = "policy"
    BY <1>1, <1>4 DEF Budget, Loading
  <1> QED
    BY <1>2, <1>3, <1>4

\* The numbers the budget compares.
LEMMA BudgetNumbers ==
    ASSUME Types
    PROVE  /\ now \in Nat /\ info.count \in Nat /\ info.last \in Int
           /\ info.present \in BOOLEAN
           /\ restarts \in Seq(Nat) /\ Len(restarts) \in Nat
           /\ DOMAIN restarts = 1..Len(restarts)
           /\ \A i \in DOMAIN restarts : restarts[i] \in Nat
  <1>1. restarts \in Seq(0..MaxTime)
    BY DEF Types, TypeOK
  <1>2. \A i \in 1..Len(restarts) : restarts[i] \in 0..MaxTime
    BY <1>1
  <1>3. Len(restarts) \in Nat /\ DOMAIN restarts = 1..Len(restarts)
    BY <1>1
  <1>4. restarts \in Seq(Nat)
    BY <1>1, <1>2, <1>3
  <1>5. now \in Nat /\ info.count \in Nat /\ info.last \in Int
    BY DEF Types, TypeOK, Info
  <1>6. info.present \in BOOLEAN
    BY DEF Types, TypeOK, Info
  <1> QED
    BY <1>2, <1>3, <1>4, <1>5, <1>6

\* A restart by the monitor has been granted: the attempts are not used up, or
\* the last one is an hour old.
LEMMA BudgetSpent ==
    ASSUME Types, Budget, at[Monitor] \in Loading,
           restarts' = Append(restarts, now), UNCHANGED <<now, scene>>,
           torn => torn', at'[Monitor] = "warm",
           info' = [info EXCEPT !.present = TRUE]
    PROVE  Budget'
  <1> SUFFICES ASSUME Intact' PROVE Budget'
    BY DEF Budget
  <1>0. Intact /\ at[Monitor] \notin {"warm", "count"}
    BY DEF Intact, Loading
  <1> DEFINE n == Len(restarts) + 1
  <1>1. /\ DOMAIN restarts' = 1..n /\ Len(restarts') = n
        /\ restarts'[n] = now
        /\ \A i \in 1..n : i # n => i \in DOMAIN restarts /\ restarts'[i] = restarts[i]
    BY BudgetNumbers, SMTT(30)
  <1>2. info'.present = TRUE /\ info'.count = info.count
    BY DEF Types, TypeOK, Info
  <1>3. \A i \in DOMAIN restarts' : restarts'[i] <= now'
    BY <1>0, <1>1, BudgetNumbers, SMTT(30) DEF Budget
  <1>4. \A i, j \in DOMAIN restarts' : i < j => restarts'[i] <= restarts'[j]
    BY <1>0, <1>1, BudgetNumbers, SMTT(30) DEF Budget
  <1>5. \A i, j \in DOMAIN restarts' :
            i < j /\ MaxAttempts < j => restarts'[j] - restarts'[i] >= Hour
    <2> SUFFICES ASSUME NEW i \in 1..n, NEW j \in 1..n, i < j, MaxAttempts < j
                 PROVE  restarts'[j] - restarts'[i] >= Hour
      BY <1>1
    <2>1. i # n
      BY BudgetNumbers
    <2>2. CASE j = n
      <3>1. ~(Len(restarts) < MaxAttempts)
        BY <2>2, BudgetNumbers
      <3>2. now - restarts[i] >= Hour
        BY <1>0, <1>1, <2>1, <3>1 DEF Budget
      <3> QED
        BY <1>1, <2>1, <2>2, <3>2
    <2>3. CASE j # n
      BY <1>0, <1>1, <2>1, <2>3 DEF Budget
    <2> QED
      BY <2>2, <2>3
  <1>6. Len(restarts') <= info'.count + 1
    BY <1>0, <1>1, <1>2, BudgetNumbers DEF Budget
  <1> QED
    BY <1>2, <1>3, <1>4, <1>5, <1>6 DEF Budget, Loading

\* A counted restart is in the budget.
LEMMA BudgetCounted ==
    ASSUME Types, Budget, CountRestart, UNCHANGED <<restarts, now, scene>>,
           torn => torn',
           \/ at'[Monitor] = at[Monitor]
           \/ at[Monitor] = "count" /\ at'[Monitor] = "recv"
    PROVE  Budget'
  <1> SUFFICES ASSUME Intact' PROVE Budget'
    BY DEF Budget
  <1>0. Intact
    BY DEF Intact
  <1>1. CASE ~info.present
    <2>1. restarts = <<>> /\ UNCHANGED info
      BY <1>0, <1>1 DEF Budget, CountRestart
    <2>2. Len(restarts) = 0 /\ DOMAIN restarts = {}
      BY <2>1
    <2> QED
      BY <1>0, <2>1, <2>2, BudgetNumbers DEF Budget, Loading
  <1>2. CASE info.present
    <2>1. info'.present = info.present /\ info'.count = info.count + 1
          /\ info'.last = now
      BY <1>2 DEF CountRestart, Types, TypeOK, Info
    <2> QED
      <3>1. /\ \A i \in DOMAIN restarts : restarts[i] <= info'.last
            /\ Len(restarts) <= info'.count
        BY <1>0, <2>1, BudgetNumbers DEF Budget
      <3>2. Len(restarts) <= info'.count + 1
        BY <2>1, <3>1, BudgetNumbers
      <3> QED
        BY <1>0, <1>2, <2>1, <3>1, <3>2 DEF Budget, Loading
  <1> QED
    BY <1>1, <1>2

\* Every step stays within the budget.
LEMMA BudgetStep == IInv /\ [Next]_vars => Budget'
  <1> SUFFICES ASSUME IInv, [Next]_vars PROVE Budget'
    OBVIOUS
  <1>0. Types /\ LazyWaits /\ Budget
    BY DEF IInv
  <1> USE DEF memory, mutexes, objects, history
  <1>1. CASE Tick
    <2>1. now' = now + 1 /\ UNCHANGED <<scene, info, at, restarts, torn>>
      BY <1>1 DEF Tick
    <2> QED
      BY <1>0, <2>1, BudgetNumbers, SMTT(30) DEF Budget, Intact
  <1>2. ASSUME NEW o \in Object, Dies(o) PROVE Budget'
    BY <1>2, <1>0, BudgetKept DEF Dies
  <1>3. CASE OthersDie
    BY <1>3, <1>0, BudgetKept DEF OthersDie
  <1>4. ASSUME NEW o \in Object, ChildGone(o) PROVE Budget'
    BY <1>4, <1>0, BudgetKept DEF ChildGone
  <1>5. ASSUME NEW t \in Task, Blocks(t) PROVE Budget'
    BY <1>5, <1>0, BudgetKept DEF Blocks
  <1>6. ASSUME NEW t \in Task, LoadCalled(t) PROVE Budget'
    <2>1. Elsewhere(t)
      BY <1>6, <1>0, StepsApart DEF Acts, Step, Load, Execute
    <2>2. t = Monitor => /\ at[Monitor] \in Loading
                         /\ at'[Monitor] \in Loading \cup {"recv", "warm"}
      BY <1>6, <1>0, Kinds, MonitorAt DEF LoadCalled, Calls, Goto, Loading,
             Types, TypeOK
    <2>3. UNCHANGED <<restarts, now, info>>
      BY <1>6 DEF LoadCalled
    <2> QED
      BY <1>0, <2>1, <2>2, <2>3, Kinds, BudgetKept DEF Elsewhere
  <1>7. ASSUME NEW t \in Task, LoadFast(t) PROVE Budget'
    <2>1. Elsewhere(t)
      BY <1>7, <1>0, StepsApart DEF Acts, Step, Load, Execute
    <2>2. t = Monitor => /\ at[Monitor] \in Loading
                         /\ at'[Monitor] \in Loading \cup {"recv", "warm"}
      BY <1>7, <1>0, Kinds, MonitorAt, AfterLoad DEF LoadFast, Calls, Goto,
             Loading, Types, TypeOK
    <2>3. UNCHANGED <<restarts, now, info>>
      BY <1>7 DEF LoadFast
    <2> QED
      BY <1>0, <2>1, <2>2, <2>3, Kinds, BudgetKept DEF Elsewhere
  <1>8. ASSUME NEW t \in Task, LoadLock(t) PROVE Budget'
    <2>1. Elsewhere(t)
      BY <1>8, <1>0, StepsApart DEF Acts, Step, Load, Execute
    <2>2. t = Monitor => /\ at[Monitor] \in Loading
                         /\ at'[Monitor] \in Loading \cup {"recv", "warm"}
      BY <1>8, <1>0, Kinds, MonitorAt DEF LoadLock, Calls, Goto, Loading,
             Types, TypeOK
    <2>3. UNCHANGED <<restarts, now, info>>
      BY <1>8 DEF LoadLock
    <2> QED
      BY <1>0, <2>1, <2>2, <2>3, Kinds, BudgetKept DEF Elsewhere
  <1>9. ASSUME NEW t \in Task, LoadCheck(t) PROVE Budget'
    <2>1. Elsewhere(t)
      BY <1>9, <1>0, StepsApart DEF Acts, Step, Load, Execute
    <2>2. t = Monitor => /\ at[Monitor] \in Loading
                         /\ at'[Monitor] \in Loading \cup {"recv", "warm"}
      BY <1>9, <1>0, Kinds, MonitorAt, AfterLoad DEF LoadCheck, Calls, Goto,
             Loading, Types, TypeOK
    <2>3. UNCHANGED <<restarts, now, info>>
      BY <1>9 DEF LoadCheck
    <2> QED
      BY <1>0, <2>1, <2>2, <2>3, Kinds, BudgetKept DEF Elsewhere
  <1>10. ASSUME NEW t \in Task, LoadSpawn(t) PROVE Budget'
    <2>1. Elsewhere(t)
      BY <1>10, <1>0, StepsApart DEF Acts, Step, Load, Execute
    <2>2. t = Monitor => /\ at[Monitor] \in Loading
                         /\ at'[Monitor] \in Loading \cup {"recv", "warm"}
      BY <1>10, <1>0, Kinds, MonitorAt DEF LoadSpawn, Calls, Goto, Loading,
             Types, TypeOK
    <2>3. UNCHANGED <<restarts, now, info>>
      BY <1>10 DEF LoadSpawn
    <2> QED
      BY <1>0, <2>1, <2>2, <2>3, Kinds, BudgetKept DEF Elsewhere
  <1>11. ASSUME NEW t \in Task, LoadStarted(t) PROVE Budget'
    <2>1. Elsewhere(t)
      BY <1>11, <1>0, StepsApart DEF Acts, Step, Load, Execute
    <2>2. t = Monitor => /\ at[Monitor] \in Loading
                         /\ at'[Monitor] \in Loading \cup {"recv", "warm"}
      BY <1>11, <1>0, Kinds, MonitorAt DEF LoadStarted, Calls, Goto, Loading,
             Types, TypeOK
    <2>3. UNCHANGED <<restarts, now, info>>
      BY <1>11 DEF LoadStarted
    <2> QED
      BY <1>0, <2>1, <2>2, <2>3, Kinds, BudgetKept DEF Elsewhere
  <1>12. ASSUME NEW t \in Task, LoadFails(t) PROVE Budget'
    <2>1. Elsewhere(t)
      BY <1>12, <1>0, StepsApart DEF Acts, Step, Load, Execute
    <2>2. t = Monitor => /\ at[Monitor] \in Loading
                         /\ at'[Monitor] \in Loading \cup {"recv", "warm"}
      BY <1>12, <1>0, Kinds, MonitorAt, AfterLoad DEF LoadFails, Calls, Goto,
             Loading, Types, TypeOK
    <2>3. UNCHANGED <<restarts, now, info>>
      BY <1>12 DEF LoadFails
    <2> QED
      BY <1>0, <2>1, <2>2, <2>3, Kinds, BudgetKept DEF Elsewhere
  <1>13. ASSUME NEW t \in Task, LoadInsert(t) PROVE Budget'
    <2>1. Elsewhere(t)
      BY <1>13, <1>0, StepsApart DEF Acts, Step, Load, Execute
    <2>2. t = Monitor => /\ at[Monitor] \in Loading
                         /\ at'[Monitor] \in Loading \cup {"recv", "warm"}
      BY <1>13, <1>0, Kinds, MonitorAt DEF LoadInsert, Calls, Goto, Loading,
             Types, TypeOK
    <2>3. UNCHANGED <<restarts, now, info>>
      BY <1>13 DEF LoadInsert
    <2> QED
      BY <1>0, <2>1, <2>2, <2>3, Kinds, BudgetKept DEF Elsewhere
  <1>14. ASSUME NEW t \in Task, LoadPublish(t) PROVE Budget'
    <2>1. Elsewhere(t)
      BY <1>14, <1>0, StepsApart DEF Acts, Step, Load, Execute
    <2>2. t = Monitor => /\ at[Monitor] \in Loading
                         /\ at'[Monitor] \in Loading \cup {"recv", "warm"}
      BY <1>14, <1>0, Kinds, MonitorAt DEF LoadPublish, Calls, Goto, Loading,
             Types, TypeOK
    <2>3. UNCHANGED <<restarts, now, info>>
      BY <1>14 DEF LoadPublish
    <2> QED
      BY <1>0, <2>1, <2>2, <2>3, Kinds, BudgetKept DEF Elsewhere
  <1>15. ASSUME NEW t \in Task, LoadInfo(t) PROVE Budget'
    <2>1. Elsewhere(t)
      BY <1>15, <1>0, StepsApart DEF Acts, Step, Load
    <2>2. CASE t = Monitor
      <3>1. at[Monitor] \in Loading /\ at'[Monitor] = "warm"
        BY <1>15, <2>2, <1>0, Kinds, AfterLoad
           DEF LoadInfo, Loading, Goto, Types, TypeOK
      <3> QED
        BY <1>15, <1>0, <2>1, <2>2, <3>1, Kinds, BudgetSpent
           DEF LoadInfo, NoteRestart, Elsewhere
    <2>3. CASE t \in Command
      BY <1>15, <1>0, <2>1, <2>3 DEF LoadInfo, LazyWaits, Loading, Budget,
             Intact,
             Elsewhere
    <2>4. CASE t \in Loader
      <3>1. /\ info'.present /\ info'.count = info.count
            /\ info'.last = info.last
        BY <1>15, <1>0 DEF LoadInfo, Types, TypeOK, Info
      <3>2. at'[Monitor] = at[Monitor] /\ scene' = scene /\ (torn => torn')
        BY <2>1, <2>4, Kinds DEF Elsewhere
      <3>3. UNCHANGED <<restarts, now>>
        BY <1>15, <2>4 DEF LoadInfo, NoteRestart
      <3> QED
        BY <1>0, <3>1, <3>2, <3>3 DEF Budget, Intact
    <2>5. t \notin Unloader
      BY <1>15, <1>0 DEF LoadInfo, Types, Places, Loading
    <2> QED
      BY <2>2, <2>3, <2>4, <2>5 DEF Task
  <1>16. ASSUME NEW t \in Task, UnloadTake(t) PROVE Budget'
    <2>1. Elsewhere(t)
      BY <1>16, <1>0, StepsApart DEF Acts, Step, Load, Execute
    <2>2. t = Monitor => /\ at[Monitor] \in Loading
                         /\ at'[Monitor] \in Loading \cup {"recv", "warm"}
      BY <1>16, <1>0, Kinds, MonitorAt DEF UnloadTake, Calls, Goto, Loading,
             Types, TypeOK
    <2>3. UNCHANGED <<restarts, now, info>>
      BY <1>16 DEF UnloadTake
    <2> QED
      BY <1>0, <2>1, <2>2, <2>3, Kinds, BudgetKept DEF Elsewhere
  <1>17. ASSUME NEW t \in Task, UnloadDone(t) PROVE Budget'
    <2>1. Elsewhere(t)
      BY <1>17, <1>0, StepsApart DEF Acts, Step
    <2>2. t # Monitor
      BY <1>17, <1>0, MonitorAt DEF UnloadDone, Loading
    <2>3. at'[Monitor] = at[Monitor] /\ scene' = scene /\ (torn => torn')
          /\ now' = now
      BY <1>17, <2>1, <2>2, Kinds DEF Elsewhere, UnloadDone
    <2>4. CASE mine[t].object = 0
      BY <1>17, <1>0, <2>3, <2>4, BudgetKept DEF UnloadDone
    <2>5. CASE mine[t].object # 0
      <3>1. info' = NoInfo /\ restarts' = <<>>
        BY <1>17, <2>5 DEF UnloadDone
      <3>2. info'.count = 0 /\ Len(restarts') = 0 /\ DOMAIN restarts' = {}
        BY <3>1 DEF NoInfo
      <3> QED
        BY <2>3, <3>1, <3>2 DEF Budget
    <2> QED
      BY <2>4, <2>5
  <1>18. ASSUME NEW t \in Task, CommandCalled(t) PROVE Budget'
    <2>1. Elsewhere(t)
      BY <1>18, <1>0, StepsApart DEF Acts, Step, Load, Execute
    <2>2. t = Monitor => /\ at[Monitor] \in Loading
                         /\ at'[Monitor] \in Loading \cup {"recv", "warm"}
      BY <1>18, <1>0, Kinds, MonitorAt DEF CommandCalled, Calls, Goto, Loading,
             Types, TypeOK
    <2>3. UNCHANGED <<restarts, now, info>>
      BY <1>18 DEF CommandCalled
    <2> QED
      BY <1>0, <2>1, <2>2, <2>3, Kinds, BudgetKept DEF Elsewhere
  <1>19. ASSUME NEW t \in Task, CommandReturns(t) PROVE Budget'
    <2>1. Elsewhere(t)
      BY <1>19, <1>0, StepsApart DEF Acts, Step, Load, Execute
    <2>2. t = Monitor => /\ at[Monitor] \in Loading
                         /\ at'[Monitor] \in Loading \cup {"recv", "warm"}
      BY <1>19, <1>0, Kinds, MonitorAt DEF CommandReturns, Calls, Goto,
             Loading, Types, TypeOK
    <2>3. UNCHANGED <<restarts, now, info>>
      BY <1>19 DEF CommandReturns
    <2> QED
      BY <1>0, <2>1, <2>2, <2>3, Kinds, BudgetKept DEF Elsewhere
  <1>20. ASSUME NEW t \in Task, LazyPolicy(t) PROVE Budget'
    <2>1. Elsewhere(t)
      BY <1>20, <1>0, StepsApart DEF Acts, Step, Load, Execute
    <2>2. t = Monitor => /\ at[Monitor] \in Loading
                         /\ at'[Monitor] \in Loading \cup {"recv", "warm"}
      BY <1>20, <1>0, Kinds, MonitorAt DEF LazyPolicy, Calls, Goto, Loading,
             Types, TypeOK
    <2>3. UNCHANGED <<restarts, now, info>>
      BY <1>20 DEF LazyPolicy
    <2> QED
      BY <1>0, <2>1, <2>2, <2>3, Kinds, BudgetKept DEF Elsewhere
  <1>21. ASSUME NEW t \in Task, LazyLock(t) PROVE Budget'
    <2>1. Elsewhere(t)
      BY <1>21, <1>0, StepsApart DEF Acts, Step, Load, Execute
    <2>2. t = Monitor => /\ at[Monitor] \in Loading
                         /\ at'[Monitor] \in Loading \cup {"recv", "warm"}
      BY <1>21, <1>0, Kinds, MonitorAt DEF LazyLock, Calls, Goto, Loading,
             Types, TypeOK
    <2>3. UNCHANGED <<restarts, now, info>>
      BY <1>21 DEF LazyLock
    <2> QED
      BY <1>0, <2>1, <2>2, <2>3, Kinds, BudgetKept DEF Elsewhere
  <1>22. ASSUME NEW t \in Task, LazyCheck(t) PROVE Budget'
    <2>1. Elsewhere(t)
      BY <1>22, <1>0, StepsApart DEF Acts, Step, Load, Execute
    <2>2. t = Monitor => /\ at[Monitor] \in Loading
                         /\ at'[Monitor] \in Loading \cup {"recv", "warm"}
      BY <1>22, <1>0, Kinds, MonitorAt DEF LazyCheck, Calls, Goto, Loading,
             Types, TypeOK
    <2>3. UNCHANGED <<restarts, now, info>>
      BY <1>22 DEF LazyCheck
    <2> QED
      BY <1>0, <2>1, <2>2, <2>3, Kinds, BudgetKept DEF Elsewhere
  <1>23. ASSUME NEW t \in Task, LazyStop(t) PROVE Budget'
    <2>1. Elsewhere(t)
      BY <1>23, <1>0, StepsApart DEF Acts, Step, Load, Execute
    <2>2. t = Monitor => /\ at[Monitor] \in Loading
                         /\ at'[Monitor] \in Loading \cup {"recv", "warm"}
      BY <1>23, <1>0, Kinds, MonitorAt DEF LazyStop, Calls, Goto, Loading,
             Types, TypeOK
    <2>3. UNCHANGED <<restarts, now, info>>
      BY <1>23 DEF LazyStop
    <2> QED
      BY <1>0, <2>1, <2>2, <2>3, Kinds, BudgetKept DEF Elsewhere
  <1>24. ASSUME NEW t \in Task, LazyStopped(t) PROVE Budget'
    <2>1. Elsewhere(t)
      BY <1>24, <1>0, StepsApart DEF Acts, Step, Load, Execute
    <2>2. t = Monitor => /\ at[Monitor] \in Loading
                         /\ at'[Monitor] \in Loading \cup {"recv", "warm"}
      BY <1>24, <1>0, Kinds, MonitorAt DEF LazyStopped, Calls, Goto, Loading,
             Types, TypeOK
    <2>3. UNCHANGED <<restarts, now, info>>
      BY <1>24 DEF LazyStopped
    <2> QED
      BY <1>0, <2>1, <2>2, <2>3, Kinds, BudgetKept DEF Elsewhere
  <1>25. ASSUME NEW t \in Task, LazyRemove(t) PROVE Budget'
    <2>1. Elsewhere(t)
      BY <1>25, <1>0, StepsApart DEF Acts, Step, Load, Execute
    <2>2. t = Monitor => /\ at[Monitor] \in Loading
                         /\ at'[Monitor] \in Loading \cup {"recv", "warm"}
      BY <1>25, <1>0, Kinds, MonitorAt DEF LazyRemove, Calls, Goto, Loading,
             Types, TypeOK
    <2>3. UNCHANGED <<restarts, now, info>>
      BY <1>25 DEF LazyRemove
    <2> QED
      BY <1>0, <2>1, <2>2, <2>3, Kinds, BudgetKept DEF Elsewhere
  <1>26. ASSUME NEW t \in Task, LazyCount(t) PROVE Budget'
    <2>1. Elsewhere(t)
      BY <1>26, <1>0, StepsApart DEF Acts, Step, Execute
    <2>2. t # Monitor
      BY <1>26, <1>0, MonitorAt DEF LazyCount, Loading
    <2> QED
      BY <1>26, <1>0, <2>1, <2>2, Kinds, BudgetCounted DEF LazyCount, Elsewhere
  <1>27. ASSUME NEW t \in Task, LazyGet(t) PROVE Budget'
    <2>1. Elsewhere(t)
      BY <1>27, <1>0, StepsApart DEF Acts, Step, Load, Execute
    <2>2. t = Monitor => /\ at[Monitor] \in Loading
                         /\ at'[Monitor] \in Loading \cup {"recv", "warm"}
      BY <1>27, <1>0, Kinds, MonitorAt DEF LazyGet, Calls, Goto, Loading,
             Types, TypeOK
    <2>3. UNCHANGED <<restarts, now, info>>
      BY <1>27 DEF LazyGet
    <2> QED
      BY <1>0, <2>1, <2>2, <2>3, Kinds, BudgetKept DEF Elsewhere
  <1>28. CASE MonitorScan
    <2>1. UNCHANGED <<restarts, now, info, scene, torn>>
      BY <1>28 DEF MonitorScan
    <2> QED
      BY <1>28, <1>0, <2>1, ScanKeeps, BudgetKept
  <1>29. CASE MonitorPolicy
    <2>1. at'[Monitor] \in {"remove", "recv"} /\ at[Monitor] = "policy"
          /\ (at'[Monitor] = "remove" => MayRestart)
          /\ UNCHANGED <<restarts, now, info, scene, torn>>
      BY <1>29, <1>0, Kinds DEF MonitorPolicy, Goto, Types, TypeOK
    <2>2. CASE at'[Monitor] = "recv"
      BY <1>0, <2>1, <2>2 DEF Budget, Intact, Loading
    <2>3. CASE at'[Monitor] = "remove"
      <3> SUFFICES ASSUME Intact PROVE Budget'
        BY <2>1 DEF Budget, Intact
      <3>1. /\ Len(restarts) <= info.count
            /\ \A i \in DOMAIN restarts : restarts[i] <= info.last
        BY <1>0, <2>1 DEF Budget
      <3>2. \/ Len(restarts) < MaxAttempts
            \/ \A i \in DOMAIN restarts : now - restarts[i] >= Hour
        BY <1>0, <2>1, <2>3, <3>1, BudgetNumbers, SMTT(30) DEF MayRestart
      <3> QED
        BY <1>0, <2>1, <2>3, <3>1, <3>2 DEF Budget
    <2> QED
      BY <2>1, <2>2, <2>3
  <1>30. CASE MonitorLags
    BY <1>30, <1>0, BudgetKept DEF MonitorLags
  <1>31. CASE MonitorRemove
    <2>1. at[Monitor] = "remove" /\ at'[Monitor] = "load"
      BY <1>31, <1>0, Kinds DEF MonitorRemove, Goto, Types, TypeOK
    <2>2. UNCHANGED <<restarts, now, info, scene>> /\ (torn => torn')
      BY <1>31 DEF MonitorRemove
    <2> QED
      BY <1>0, <2>1, <2>2, BudgetKept DEF Loading
  <1>32. CASE MonitorWarm
    <2>1. /\ at[Monitor] = "warm" /\ at'[Monitor] = "count"
          /\ UNCHANGED <<restarts, now, info, scene, torn>>
      BY <1>32, <1>0, Kinds DEF MonitorWarm, Goto, Types, TypeOK
    <2> QED
      BY <1>0, <2>1 DEF Budget, Intact, Loading
  <1>33. CASE MonitorCount
    <2>1. /\ at[Monitor] = "count" /\ at'[Monitor] = "recv"
          /\ UNCHANGED <<restarts, now, scene, torn>> /\ CountRestart
      BY <1>33, <1>0, Kinds DEF MonitorCount, Goto, Types, TypeOK
    <2> QED
      BY <1>0, <2>1, BudgetCounted
  <1>34. ASSUME NEW t \in Task, Disconnect(t) PROVE Budget'
    <2>1. Elsewhere(t)
      BY <1>34, <1>0, StepsApart DEF Acts, Step, Load, Execute
    <2>2. t = Monitor => /\ at[Monitor] \in Loading
                         /\ at'[Monitor] \in Loading \cup {"recv", "warm"}
      BY <1>34, <1>0, Kinds, MonitorAt DEF Disconnect, Calls, Goto, Loading,
             Types, TypeOK
    <2>3. UNCHANGED <<restarts, now, info>>
      BY <1>34 DEF Disconnect
    <2> QED
      BY <1>0, <2>1, <2>2, <2>3, Kinds, BudgetKept DEF Elsewhere
  <1>35. CASE UNCHANGED vars
    BY <1>35, <1>0, BudgetKept DEF vars
  <1> QED
    BY <1>1, <1>2, <1>3, <1>4, <1>5, <1>6, <1>7, <1>8, <1>9, <1>10, <1>11,
       <1>12, <1>13, <1>14, <1>15, <1>16, <1>17, <1>18, <1>19, <1>20, <1>21,
       <1>22, <1>23, <1>24, <1>25, <1>26, <1>27, <1>28, <1>29, <1>30, <1>31,
       <1>32, <1>33, <1>34, <1>35
       DEF Next, Step, Load, Execute, Restart

-----------------------------------------------------------------------------
(* Theorems *)

\* The first state satisfies the inductive invariant.
LEMMA InitIInv == Init => IInv
  <1> SUFFICES ASSUME Init PROVE IInv
    OBVIOUS
  <1>1. Types
    BY InitTypes
  <1>2. /\ \A t \in Task : /\ at[t] \in {"idle", "recv"}
                           /\ mine[t].lock = 0 /\ mine[t].object = 0
        /\ at[Monitor] = "recv"
    BY Kinds DEF Init, NoWork
  <1>3. LockForgotten
    BY <1>2 DEF LockForgotten
  <1>4. LockOwned
    BY <1>2 DEF LockOwned, Guarded, Init
  <1>5. Started /\ Unloading
    BY <1>2 DEF Started, Aged, Unloading, Init
  <1>6. LiveKnown
    BY <1>2 DEF LiveKnown, Creating, Init
  <1>7. LazyWaits
    BY <1>2 DEF LazyWaits, Loading, Task
  <1>8. Budget
    <2>1. info.present /\ info.count = 0
      BY DEF Init, NoInfo
    <2>2. restarts = <<>> /\ Len(restarts) = 0 /\ DOMAIN restarts = {}
      BY DEF Init
    <2> QED
      BY <1>2, <2>1, <2>2 DEF Budget, Loading
  <1> QED
    BY <1>1, <1>3, <1>4, <1>5, <1>6, <1>7, <1>8 DEF IInv

\* Every step keeps it.
LEMMA StepIInv == IInv /\ [Next]_vars => IInv'
  BY TypesStep, ForgottenStep, OwnedStep, StartedStep, UnloadingStep,
     KnownStep, LazyStep, BudgetStep DEF IInv

\* The inductive invariant holds in every state.
THEOREM Invariance == Spec => []IInv
  BY InitIInv, StepIInv, PTL DEF Spec

\* Every variable keeps its type, and the lock of the map has readers or a
\* writer, whatever commands, loads, unloads and the monitor do at once.
THEOREM TypeCorrect == Spec => []TypeOK
  <1>1. IInv => TypeOK
    BY DEF IInv, Types
  <1> QED
    BY <1>1, Invariance, PTL

\* Two processes that live are one.
LEMMA LiveIsOne ==
    ASSUME IInv, Intact, NEW o \in Object, NEW p \in Object, Live(o), Live(p)
    PROVE  o = p
  <1> DEFINE Has(t, x) == /\ mine[t].object = x
                          /\ at[t] \in {"start", "insert", "stopping"}
  <1>0. Types /\ LockOwned /\ Unloading /\ LiveKnown
    BY DEF IInv
  <1>1. /\ ext = o \/ \E t \in Task : Has(t, o)
        /\ ext = p \/ \E t \in Task : Has(t, p)
    BY <1>0 DEF LiveKnown, Live
  <1>2. \A t \in Task : at[t] \in {"start", "insert", "stopping"} => ext = 0
    BY <1>0 DEF LiveKnown, Unloading, Creating
  <1>3. ASSUME NEW t \in Task, NEW u \in Task, Has(t, o), Has(u, p)
        PROVE  o = p
    <2>1. CASE at[t] = "stopping" /\ at[u] = "stopping"
      BY <1>0, <1>3, <2>1 DEF Unloading
    <2>2. CASE at[t] = "stopping" /\ at[u] # "stopping"
      BY <1>0, <1>3, <2>2 DEF LiveKnown, Creating
    <2>3. CASE at[t] # "stopping" /\ at[u] = "stopping"
      BY <1>0, <1>3, <2>3 DEF LiveKnown, Creating
    <2>4. CASE at[t] # "stopping" /\ at[u] # "stopping"
      BY <1>0, <1>3, <2>4, OneCreates DEF Creating
    <2> QED
      BY <2>1, <2>2, <2>3, <2>4
  <1> QED
    BY <1>1, <1>2, <1>3

\* "prevent race conditions where multiple concurrent requests could spawn
\* duplicate extension processes": whoever loads, restarts, unloads or calls an
\* extension at the same time, and whichever of these calls is dropped, it has
\* at most one process that is starting or in use.  (The child of an object
\* that was given up is not counted until Drop has killed it.)
THEOREM OneProcess == Spec => []SingleProcess
  <1>1. IInv => SingleProcess
    <2> SUFFICES ASSUME IInv, scene.manifest /\ ~torn
                 PROVE  Cardinality({o \in Object : Live(o)}) <= 1
      BY DEF SingleProcess, Live
    <2> DEFINE L == {o \in Object : Live(o)}
    <2>1. CASE L = {}
      BY <2>1, FS_EmptySet
    <2>2. CASE L # {}
      <3>1. PICK o \in Object : Live(o)
        BY <2>2
      <3>2. L = {o}
        BY <3>1, LiveIsOne DEF Intact
      <3>3. Cardinality(L) = 1
        BY <3>2, FS_Singleton
      <3> QED
        BY <3>3
    <2> QED
      BY <2>1, <2>2
  <1> QED
    BY <1>1, Invariance, PTL

\* A crash loop is cut: in any hour the manager restarts an extension that has
\* a manifest at most max_restart_attempts times, however the restarts of the
\* monitor and the lazy ones interleave with loads, unloads and dropped calls.
THEOREM BurstsAreCut == Spec => []BurstBounded
  <1>1. IInv => BurstBounded
    <2> SUFFICES ASSUME IInv, scene.manifest /\ ~torn, NEW i \in DOMAIN restarts
                 PROVE  Cardinality({j \in DOMAIN restarts :
                            restarts[j] \in restarts[i]..(restarts[i] + Hour - 1)})
                          <= MaxAttempts
      BY DEF BurstBounded
    <2> DEFINE J == {j \in DOMAIN restarts :
                        restarts[j] \in restarts[i]..(restarts[i] + Hour - 1)}
    <2>0. Types /\ Budget /\ Intact
      BY DEF IInv, Intact
    <2>1. /\ DOMAIN restarts \subseteq Nat \ {0}
          /\ \A j \in DOMAIN restarts : restarts[j] \in Nat
      BY <2>0, BudgetNumbers
    <2>2. \A j, k \in J : j < k => k <= MaxAttempts
      <3> SUFFICES ASSUME NEW j \in J, NEW k \in J, j < k, MaxAttempts < k
                   PROVE  FALSE
        BY <2>1
      <3>1. restarts[k] - restarts[j] >= Hour
        BY <2>0 DEF Budget
      <3> QED
        BY <2>1, <3>1
    <2>3. CASE J \subseteq 1..MaxAttempts
      <3>1. /\ IsFiniteSet(1..MaxAttempts)
            /\ Cardinality(1..MaxAttempts) = MaxAttempts
        BY FS_Interval
      <3> QED
        BY <2>3, <3>1, FS_Subset
    <2>4. CASE ~(J \subseteq 1..MaxAttempts)
      <3>1. PICK k \in J : MaxAttempts < k
        BY <2>1, <2>4
      <3>2. J = {k}
        BY <2>1, <2>2, <3>1
      <3>3. Cardinality(J) = 1
        BY <3>2, FS_Singleton
      <3> QED
        BY <3>3
    <2> QED
      BY <2>3, <2>4
  <1> QED
    BY <1>1, Invariance, PTL

=============================================================================
