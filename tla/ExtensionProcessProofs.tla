----------------------- MODULE ExtensionProcessProofs -----------------------
(***************************************************************************)
(* Theorems about ExtensionProcess, for every finite set of calls of every  *)
(* kind, every limit and pipe, and any number of spawns.                    *)
(***************************************************************************)
EXTENDS ExtensionProcess, FiniteSetTheorems, SequenceTheorems, TLAPS

-----------------------------------------------------------------------------
(* The inductive invariant *)

\* Where the owner of the object, the health monitor and a call can be.
OwnerPlace == {"spawn", "init", "ready", "publish", "serve", "drop",
               "dropping", "gone", "stop", "bye", "ack"}
MonitorPlace == {"off", "sleep", "send", "wait", "kill", "exit"}
CallerPlace == {"idle", "count", "check", "overrun", "spawn", "init", "ready",
                "register", "send", "wait", "kill", "done"}
\* Where a call is in check_resources, the restart in place included.
Checking == {"check", "overrun", "spawn", "init", "ready"}
\* Where the load of the object is under way, or has failed.
Unpublished == {"spawn", "init", "ready", "drop", "dropping"}

\* What the place of a call says about its kind.
Fits(c, l) == /\ l \in Checking => Kind(c) \in Checked
              /\ l = "count" => Kind(c) = "batch"
              /\ l = "kill" => Kind(c) = "command"

\* The tasks are where they can be; the object is handed out after its start;
\* the probe gives up with its last failure.
Tasks ==
    /\ scene \in Scenarios
    /\ pc \in [Task -> OwnerPlace \cup MonitorPlace \cup CallerPlace]
    /\ pc["owner"] \in OwnerPlace
    /\ pc["monitor"] \in MonitorPlace
    /\ \A c \in Caller : pc[c] \in CallerPlace /\ Fits(c, pc[c])
    /\ pc["owner"] \in Unpublished => pc["monitor"] = "off"
    /\ failures \in 0..MaxFailures
    /\ pc["monitor"] \in {"off", "sleep", "send", "wait"} =>
           failures < MaxFailures

\* What is on the pipes to and from a child.
InMessage == Id \cup {"init", "bye", "stale"}
OutMessage == Id \cup {"ready", "refuse", "ack", "stale"}
\* The processes and their pipes.
Pipes ==
    /\ proc \in [Epoch -> {None, "up", "hung", "dead", "cut"}]
    /\ inbox \in [Epoch -> Seq(InMessage)]
    /\ outbox \in [Epoch -> Seq(OutMessage)]

\* What the receiver of a request can hold.
Slot == {None, "open", "closed", "answer", "ready", "refuse", "ack"}
\* The table of requests in flight.
Table == pending \subseteq Id /\ slot \in [Id -> Slot]

\* What a call can return.
Result == {None, "not_running", "too_many", "send_error", "answer", "closed",
           "timeout", "crashed", "dropped"}
\* Locks, flags, counters and results.
Rest ==
    /\ lock \in Task \cup {Free}
    /\ running \in BOOLEAN /\ listening \in BOOLEAN /\ checked \in BOOLEAN
    /\ notified \subseteq Epoch
    /\ crashes \in Nat
    /\ res \in [Caller -> Result]

\* The epochs: `process`, `stdin` and `shutdown_tx` hold epochs there have
\* been, the first and the last of them the same one; a receiver that was
\* signalled is not that of the child; a child whose flag is up has a
\* receiver, and the flag is up without a child only after a failed load.
Epochs ==
    /\ epoch \in 0..MaxEpoch
    /\ handle \in 0..epoch /\ stdin \in 0..epoch /\ shutTx = handle
    /\ recv \in [Epoch -> {None, "loop", "exit", "done"}]
    /\ shut \in [Epoch -> BOOLEAN]
    /\ \A e \in Epoch : shut[e] => e <= epoch /\ e # handle
    /\ \A e \in Epoch : recv[e] # None => e <= epoch
    /\ running /\ handle # 0 => recv[handle] = "loop"
    /\ running /\ handle = 0 =>
           pc["owner"] \in {"dropping", "gone"} /\ pc["monitor"] = "off"

\* active_requests counts the calls inside, of which the commands keep to the
\* limit.
Counting ==
    /\ active = Cardinality(Inside("command")) + Cardinality(Inside("batch"))
    /\ Limit > 0 => Cardinality(Inside("command")) <= Limit

\* The inductive invariant.
Types == Tasks /\ Pipes /\ Table /\ Rest /\ Epochs
IInv == Types /\ LiveIsRunning /\ TableOwned /\ Counting

-----------------------------------------------------------------------------
(* Types *)

\* Who runs `start`.
Starter == Caller \cup {"owner"}

\* The tasks are apart.
LEMMA Apart ==
    /\ "owner" \notin Caller /\ "monitor" \notin Caller
    /\ Zero \notin Caller /\ Ping \notin Caller
    /\ \A c \in Caller : c # "owner" /\ c # "monitor" /\ c # Ping /\ c # Zero
  BY ProcessAssumption DEF Zero, Ping

\* A call moves to a place that fits its kind.
LEMMA CallerMoves ==
    ASSUME Tasks, NEW c \in Caller, NEW l \in CallerPlace, Goto(c, l),
           Fits(c, l), UNCHANGED <<scene, failures>>
    PROVE  Tasks'
  <1>1. pc' \in [Task -> OwnerPlace \cup MonitorPlace \cup CallerPlace]
    BY DEF Tasks, Goto
  <1>2. /\ pc'["owner"] = pc["owner"] /\ pc'["monitor"] = pc["monitor"]
        /\ pc'[c] = l /\ \A d \in Caller : d # c => pc'[d] = pc[d]
    BY Apart DEF Tasks, Goto, Task
  <1>3. \A d \in Caller : Fits(d, pc[d])'
    BY <1>2 DEF Tasks, Fits, Kind
  <1> QED
    BY <1>1, <1>2, <1>3 DEF Tasks

\* The owner moves, and forward once the object is handed out.
LEMMA OwnerMoves ==
    ASSUME Tasks, NEW l \in OwnerPlace, Goto("owner", l),
           l \in Unpublished => pc["monitor"] = "off",
           UNCHANGED <<scene, failures>>
    PROVE  Tasks'
  <1>1. pc' \in [Task -> OwnerPlace \cup MonitorPlace \cup CallerPlace]
    BY DEF Tasks, Goto
  <1>2. /\ pc'["owner"] = l /\ pc'["monitor"] = pc["monitor"]
        /\ \A d \in Caller : pc'[d] = pc[d]
    BY Apart DEF Tasks, Goto, Task
  <1>3. \A d \in Caller : Fits(d, pc[d])'
    BY <1>2 DEF Tasks, Fits, Kind
  <1> QED
    BY <1>1, <1>2, <1>3 DEF Tasks

\* The probe moves, below its last failure or to its end.
LEMMA MonitorMoves ==
    ASSUME Tasks, NEW l \in MonitorPlace, Goto("monitor", l), UNCHANGED scene,
           pc["owner"] \in Unpublished => l = "off",
           failures' \in 0..MaxFailures,
           l \in {"off", "sleep", "send", "wait"} => failures' < MaxFailures
    PROVE  Tasks'
  <1>1. pc' \in [Task -> OwnerPlace \cup MonitorPlace \cup CallerPlace]
    BY DEF Tasks, Goto
  <1>2. /\ pc'["monitor"] = l /\ pc'["owner"] = pc["owner"]
        /\ \A d \in Caller : pc'[d] = pc[d]
    BY Apart DEF Tasks, Goto, Task
  <1>3. \A d \in Caller : Fits(d, pc[d])'
    BY <1>2 DEF Tasks, Fits, Kind
  <1> QED
    BY <1>1, <1>2, <1>3 DEF Tasks

\* A failed start moves its task.
LEMMA StartFailedMoves ==
    ASSUME Tasks, NEW t \in Starter, pc[t] \in {"spawn", "init", "ready"},
           StartFailed(t), UNCHANGED <<scene, failures>>
    PROVE  Tasks'
  <1>1. CASE t = "owner"
    BY <1>1, OwnerMoves DEF StartFailed, OwnerPlace, Tasks, Unpublished
  <1>2. CASE t # "owner"
    BY <1>2, CallerMoves
       DEF StartFailed, CallerPlace, Starter, Fits, Checking
  <1> QED
    BY <1>1, <1>2

\* A failed probe moves the monitor.
LEMMA ProbeFailedMoves ==
    ASSUME Tasks, pc["monitor"] \in {"sleep", "send", "wait"}, ProbeFailed,
           UNCHANGED scene
    PROVE  Tasks'
  <1>1. failures' = failures + 1 /\ failures + 1 \in 0..MaxFailures
    BY ProcessAssumption DEF Tasks, ProbeFailed
  <1>2. pc["owner"] \notin Unpublished
    BY DEF Tasks
  <1>3. CASE failures' >= MaxFailures
    BY <1>1, <1>2, <1>3, MonitorMoves DEF ProbeFailed, MonitorPlace
  <1>4. CASE ~(failures' >= MaxFailures)
    BY <1>1, <1>2, <1>4, MonitorMoves, ProcessAssumption
       DEF ProbeFailed, MonitorPlace
  <1> QED
    BY <1>3, <1>4

\* Every step keeps the tasks where they can be.
LEMMA TasksStep ==
    ASSUME Types, [Next]_vars
    PROVE  Tasks'
  <1>0. Tasks
    BY DEF Types
  <1>1. ASSUME NEW e \in Epoch, RunnerHandle(e) PROVE Tasks'
    BY <1>1, <1>0 DEF RunnerHandle, counters, Tasks, Fits, Kind
  <1>2. ASSUME NEW e \in Epoch, RunnerHangs(e) PROVE Tasks'
    BY <1>2, <1>0 DEF RunnerHangs, counters, Tasks, Fits, Kind
  <1>3. ASSUME NEW e \in Epoch, RunnerDies(e) PROVE Tasks'
    BY <1>3, <1>0 DEF RunnerDies, counters, Tasks, Fits, Kind
  <1>4. ASSUME NEW e \in Epoch, ReceiverQuits(e) PROVE Tasks'
    BY <1>4, <1>0 DEF ReceiverQuits, counters, Tasks, Fits, Kind
  <1>5. ASSUME NEW e \in Epoch, ReceiverRoute(e) PROVE Tasks'
    BY <1>5, <1>0 DEF ReceiverRoute, counters, Tasks, Fits, Kind
  <1>6. ASSUME NEW e \in Epoch, ReceiverEof(e) PROVE Tasks'
    BY <1>6, <1>0 DEF ReceiverEof, counters, Tasks, Fits, Kind
  <1>7. ASSUME NEW e \in Epoch, ReceiverExit(e) PROVE Tasks'
    BY <1>7, <1>0 DEF ReceiverExit, counters, Tasks, Fits, Kind
  <1>8. ASSUME NEW t \in Starter, Spawn(t) PROVE Tasks'
    <2>1. CASE t = "owner"
      BY <1>8, <1>0, <2>1, OwnerMoves
         DEF Spawn, Tasks, OwnerPlace, Unpublished, counters
    <2>2. CASE t # "owner"
      BY <1>8, <1>0, <2>2, CallerMoves
         DEF Spawn, Starter, Tasks, CallerPlace, Fits, Checking, counters
    <2> QED
      BY <2>1, <2>2
  <1>9. ASSUME NEW t \in Starter, SpawnFails(t) PROVE Tasks'
    BY <1>9, <1>0, StartFailedMoves DEF SpawnFails, counters
  <1>10. ASSUME NEW t \in Starter, SendInit(t) PROVE Tasks'
    <2>1. CASE StartFailed(t)
      BY <1>10, <1>0, <2>1, StartFailedMoves DEF SendInit, counters
    <2>2. CASE Goto(t, "ready") /\ t = "owner"
      BY <1>10, <1>0, <2>2, OwnerMoves
         DEF SendInit, Tasks, OwnerPlace, Unpublished, counters
    <2>3. CASE Goto(t, "ready") /\ t # "owner"
      BY <1>10, <1>0, <2>3, CallerMoves
         DEF SendInit, Starter, Tasks, CallerPlace, Fits, Checking, counters
    <2> QED
      BY <1>10, <2>1, <2>2, <2>3 DEF SendInit
  <1>11. ASSUME NEW t \in Starter, Ready(t) PROVE Tasks'
    <2>1. CASE t = "owner"
      BY <1>11, <1>0, <2>1, OwnerMoves
         DEF Ready, Tasks, OwnerPlace, Unpublished
    <2>2. CASE t # "owner"
      BY <1>11, <1>0, <2>2, CallerMoves
         DEF Ready, Starter, Tasks, CallerPlace, Fits, Checking
    <2> QED
      BY <2>1, <2>2
  <1>12. ASSUME NEW t \in Starter, Refused(t) PROVE Tasks'
    BY <1>12, <1>0, StartFailedMoves DEF Refused, counters
  <1>13. ASSUME NEW t \in Starter, StartTimeout(t) PROVE Tasks'
    BY <1>13, <1>0, StartFailedMoves DEF StartTimeout, counters
  <1>14. ASSUME Publish PROVE Tasks'
    <2>1. CASE pc["monitor"] = "off"
      <3>1. PICK l \in {"sleep", "exit"} : Goto("monitor", l)
        BY <1>14, <2>1 DEF Publish
      <3> QED
        BY <1>14, <1>0, <2>1, <3>1, MonitorMoves
           DEF Publish, Tasks, MonitorPlace, Unpublished, counters
    <2>2. CASE pc["monitor"] # "off"
      BY <1>14, <1>0, <2>2, OwnerMoves
         DEF Publish, OwnerPlace, Unpublished, counters
    <2> QED
      BY <2>1, <2>2
  <1>15. ASSUME DropObject PROVE Tasks'
    BY <1>15, <1>0, OwnerMoves DEF DropObject, OwnerPlace, Unpublished,
           Tasks, counters
  <1>16. ASSUME DropKills PROVE Tasks'
    BY <1>16, <1>0, OwnerMoves DEF DropKills, OwnerPlace, Unpublished,
           counters
  <1>17. ASSUME MarkStopping PROVE Tasks'
    BY <1>17, <1>0, OwnerMoves DEF MarkStopping, OwnerPlace, Unpublished,
           counters
  <1>18. ASSUME StopLock PROVE Tasks'
    BY <1>18, <1>0, OwnerMoves DEF StopLock, OwnerPlace, Unpublished,
           counters
  <1>19. ASSUME StopSend PROVE Tasks'
    BY <1>19, <1>0, OwnerMoves DEF StopSend, OwnerPlace, Unpublished,
           counters
  <1>20. ASSUME StopKill PROVE Tasks'
    BY <1>20, <1>0, OwnerMoves DEF StopKill, OwnerPlace, Unpublished,
           counters
  <1>21. ASSUME NEW c \in Caller, Enter(c) PROVE Tasks'
    <2>1. PICK l \in {"done", "count", "check", "register"} :
              Goto(c, l) /\ Fits(c, l)
      BY <1>21 DEF Enter, Return, Fits, Checking, Checked
    <2> QED
      BY <1>21, <1>0, <2>1, CallerMoves DEF Enter, CallerPlace
  <1>22. ASSUME NEW c \in Caller, CountBatch(c) PROVE Tasks'
    BY <1>22, <1>0, CallerMoves DEF CountBatch, CallerPlace, Fits, Checking,
           counters, Return
  <1>23. ASSUME NEW c \in Caller, SendCall(c) PROVE Tasks'
    BY <1>23, <1>0, CallerMoves DEF SendCall, CallerPlace, Fits, Checking,
           counters, Return
  <1>24. ASSUME NEW c \in Caller, Receive(c) PROVE Tasks'
    BY <1>24, <1>0, CallerMoves DEF Receive, CallerPlace, Fits, Checking,
           counters, Return
  <1>25. ASSUME NEW c \in Caller, CallTimeout(c) PROVE Tasks'
    BY <1>25, <1>0, CallerMoves DEF CallTimeout, CallerPlace, Fits, Checking,
           counters, Return
  <1>26. ASSUME NEW c \in Caller, CommandKills(c) PROVE Tasks'
    BY <1>26, <1>0, CallerMoves DEF CommandKills, CallerPlace, Fits,
           Checking, counters, Return
  <1>27. ASSUME NEW c \in Caller, CallDropped(c) PROVE Tasks'
    BY <1>27, <1>0, CallerMoves DEF CallDropped, CallerPlace, Fits, Checking,
           counters, Return
  <1>28. ASSUME NEW c \in Caller, CheckPasses(c) PROVE Tasks'
    BY <1>28, <1>0, CallerMoves DEF CheckPasses, CallerPlace, Fits, Checking,
           counters, Return
  <1>29. ASSUME NEW c \in Caller, CheckFindsExit(c) PROVE Tasks'
    BY <1>29, <1>0, CallerMoves DEF CheckFindsExit, CallerPlace, Fits,
           Checking, counters, Return
  <1>30. ASSUME NEW c \in Caller, CheckFindsOverrun(c) PROVE Tasks'
    <2>1. Fits(c, "overrun")
      BY <1>30, <1>0 DEF CheckFindsOverrun, Tasks, Fits, Checking
    <2> QED
      BY <1>30, <1>0, <2>1, CallerMoves DEF CheckFindsOverrun, CallerPlace
  <1>31. ASSUME NEW c \in Caller, OverrunKills(c) PROVE Tasks'
    <2>1. Fits(c, "spawn") /\ Fits(c, "done")
      BY <1>31, <1>0 DEF OverrunKills, Tasks, Fits, Checking
    <2> QED
      BY <1>31, <1>0, <2>1, CallerMoves DEF OverrunKills, Return, CallerPlace
  <1>32. ASSUME ProbeEnds PROVE Tasks'
    BY <1>32, <1>0, MonitorMoves DEF ProbeEnds, MonitorPlace, Unpublished,
           Tasks, counters
  <1>33. ASSUME ProbeSkips PROVE Tasks'
    BY <1>33, <1>0, ProcessAssumption DEF ProbeSkips, Tasks, Fits, Kind
  <1>34. ASSUME ProbeSend PROVE Tasks'
    <2>1. CASE ProbeFailed
      BY <1>34, <1>0, <2>1, ProbeFailedMoves DEF ProbeSend
    <2>2. ASSUME NEW l \in {"send", "wait"}, Goto("monitor", l),
                 UNCHANGED failures
          PROVE  Tasks'
      BY <1>34, <1>0, <2>2, MonitorMoves DEF ProbeSend, Tasks, MonitorPlace
    <2> QED
      BY <1>34, <2>1, <2>2 DEF ProbeSend
  <1>35. ASSUME ProbeAnswered PROVE Tasks'
    BY <1>35, <1>0, MonitorMoves, ProcessAssumption DEF ProbeAnswered,
           MonitorPlace, Unpublished, Tasks, counters
  <1>36. ASSUME ProbeTimeout PROVE Tasks'
    BY <1>36, <1>0, ProbeFailedMoves DEF ProbeTimeout
  <1>37. ASSUME ProbeKills PROVE Tasks'
    BY <1>37, <1>0, MonitorMoves DEF ProbeKills, MonitorPlace, Unpublished,
           Tasks, counters
  <1>38. CASE UNCHANGED vars
    BY <1>38, <1>0 DEF vars, counters, Tasks, Fits, Kind
  <1> QED
    BY <1>1, <1>2, <1>3, <1>4, <1>5, <1>6, <1>7, <1>8, <1>9, <1>10, <1>11,
       <1>12, <1>13, <1>14, <1>15, <1>16, <1>17, <1>18, <1>19, <1>20, <1>21,
       <1>22, <1>23, <1>24, <1>25, <1>26, <1>27, <1>28, <1>29, <1>30, <1>31,
       <1>32, <1>33, <1>34, <1>35, <1>36, <1>37, <1>38
       DEF Next,
           Receiver, Owner, Start, CallBody, Probe, Starter

\* The epochs are numbers from 1 on.
LEMMA EpochNumbers ==
    ASSUME Epochs
    PROVE  /\ epoch \in Nat /\ handle \in Nat /\ stdin \in Nat
           /\ MaxEpoch \in Nat
           /\ \A e : e \in Epoch <=> e \in Nat /\ e # 0 /\ e <= MaxEpoch
           /\ handle # 0 => handle \in Epoch
           /\ stdin # 0 => stdin \in Epoch
  BY ProcessAssumption DEF Epochs, Epoch

\* A message that is sent is in the pipe.
LEMMA SendTyped ==
    ASSUME Pipes, Epochs, NEW m \in InMessage, Send(m)
    PROVE  inbox' \in [Epoch -> Seq(InMessage)]
  <1>1. stdin \in Epoch
    BY EpochNumbers DEF Send, Alive
  <1>2. Append(inbox[stdin], m) \in Seq(InMessage)
    BY <1>1 DEF Pipes
  <1> QED
    BY <1>1, <1>2 DEF Pipes, Send

\* A kill leaves processes and pipes.
LEMMA TerminateTyped ==
    ASSUME Pipes, Terminate
    PROVE  /\ proc' \in [Epoch -> {None, "up", "hung", "dead", "cut"}]
           /\ inbox' \in [Epoch -> Seq(InMessage)]
  <1>1. <<>> \in Seq(InMessage)
    OBVIOUS
  <1> QED
    BY <1>1 DEF Pipes, Terminate

\* A pipe stays one when the answers to a probe go stale in it.
LEMMA AbandonTyped ==
    ASSUME NEW S, "stale" \in S, NEW b \in [Epoch -> Seq(S)]
    PROVE  Abandon(b) \in [Epoch -> Seq(S)]
  <1>1. ASSUME NEW e \in Epoch
        PROVE  [k \in DOMAIN b[e] |->
                   IF b[e][k] = Ping THEN "stale" ELSE b[e][k]] \in Seq(S)
    <2>1. b[e] \in Seq(S)
      OBVIOUS
    <2>2. /\ Len(b[e]) \in Nat /\ DOMAIN b[e] = 1..Len(b[e])
          /\ \A k \in 1..Len(b[e]) : b[e][k] \in S
      BY <2>1, ElementOfSeq, LenProperties
    <2>3. [k \in DOMAIN b[e] |-> IF b[e][k] = Ping THEN "stale" ELSE b[e][k]]
              \in [1..Len(b[e]) -> S]
      BY <2>2
    <2> QED
      BY <2>2, <2>3, SeqDef
  <1> QED
    BY <1>1 DEF Abandon

\* Every step keeps the pipes.
LEMMA PipesStep ==
    ASSUME Types, [Next]_vars
    PROVE  Pipes'
  <1>0. Pipes /\ Epochs
    BY DEF Types
  <1>1. ASSUME NEW e \in Epoch, RunnerHandle(e) PROVE Pipes'
    <2>1. inbox[e] \in Seq(InMessage) /\ inbox[e] # <<>>
          /\ outbox[e] \in Seq(OutMessage)
      BY <1>1, <1>0 DEF RunnerHandle, Pipes
    <2>2. Head(inbox[e]) \in InMessage /\ Tail(inbox[e]) \in Seq(InMessage)
      BY <2>1
    <2>3. PICK answer \in OutMessage :
              outbox' = [outbox EXCEPT ![e] = Append(@, answer)]
      BY <1>1, <2>2 DEF RunnerHandle, InMessage, OutMessage
    <2>4. Append(outbox[e], answer) \in Seq(OutMessage)
      BY <2>1
    <2> QED
      BY <1>1, <1>0, <2>2, <2>3, <2>4 DEF RunnerHandle, Pipes
  <1>2. ASSUME NEW e \in Epoch, RunnerHangs(e) PROVE Pipes'
    BY <1>2, <1>0 DEF RunnerHangs, pipes, Pipes
  <1>3. ASSUME NEW e \in Epoch, RunnerDies(e) PROVE Pipes'
    <2>1. <<>> \in Seq(InMessage)
      OBVIOUS
    <2>2. proc' \in [Epoch -> {None, "up", "hung", "dead", "cut"}]
      BY <1>3, <1>0 DEF RunnerDies, Pipes
    <2> QED
      BY <1>3, <1>0, <2>1, <2>2 DEF RunnerDies, Pipes
  <1>4. ASSUME NEW e \in Epoch, ReceiverQuits(e) PROVE Pipes'
    BY <1>4, <1>0 DEF ReceiverQuits, pipes, Pipes
  <1>5. ASSUME NEW e \in Epoch, ReceiverRoute(e) PROVE Pipes'
    <2>1. Tail(outbox[e]) \in Seq(OutMessage)
      BY <1>5, <1>0 DEF ReceiverRoute, Pipes
    <2> QED
      BY <1>5, <1>0, <2>1 DEF ReceiverRoute, Pipes
  <1>6. ASSUME NEW e \in Epoch, ReceiverEof(e) PROVE Pipes'
    BY <1>6, <1>0 DEF ReceiverEof, pipes, Pipes
  <1>7. ASSUME NEW e \in Epoch, ReceiverExit(e) PROVE Pipes'
    <2>1. <<>> \in Seq(OutMessage)
      OBVIOUS
    <2> QED
      BY <1>7, <1>0, <2>1 DEF ReceiverExit, Pipes
  <1>8. ASSUME NEW t \in Starter, Spawn(t) PROVE Pipes'
    <2>1. epoch + 1 \in Epoch
      BY <1>8, <1>0, EpochNumbers DEF Spawn
    <2> QED
      BY <1>8, <1>0, <2>1 DEF Spawn, Pipes
  <1>9. ASSUME NEW t \in Starter, SpawnFails(t) PROVE Pipes'
    BY <1>9, <1>0 DEF SpawnFails, pipes, Pipes
  <1>10. ASSUME NEW t \in Starter, SendInit(t) PROVE Pipes'
    <2>1. "init" \in InMessage
      BY DEF InMessage, Id
    <2>2. inbox' \in [Epoch -> Seq(InMessage)]
      BY <1>10, <1>0, <2>1, SendTyped DEF SendInit, Pipes
    <2> QED
      BY <1>10, <1>0, <2>2 DEF SendInit, Pipes
  <1>11. ASSUME NEW t \in Starter, Ready(t) PROVE Pipes'
    BY <1>11, <1>0 DEF Ready, pipes, Pipes
  <1>12. ASSUME NEW t \in Starter, Refused(t) PROVE Pipes'
    BY <1>12, <1>0, TerminateTyped DEF Refused, KillInternal, Pipes
  <1>13. ASSUME NEW t \in Starter, StartTimeout(t) PROVE Pipes'
    BY <1>13, <1>0 DEF StartTimeout, pipes, Pipes
  <1>14. ASSUME Publish PROVE Pipes'
    BY <1>14, <1>0 DEF Publish, pipes, Pipes
  <1>15. ASSUME DropObject PROVE Pipes'
    BY <1>15, <1>0 DEF DropObject, pipes, Pipes
  <1>16. ASSUME DropKills PROVE Pipes'
    <2>1. <<>> \in Seq(InMessage)
      OBVIOUS
    <2> QED
      BY <1>16, <1>0, <2>1 DEF DropKills, Pipes
  <1>17. ASSUME MarkStopping PROVE Pipes'
    BY <1>17, <1>0 DEF MarkStopping, pipes, Pipes
  <1>18. ASSUME StopLock PROVE Pipes'
    BY <1>18, <1>0 DEF StopLock, pipes, Pipes
  <1>19. ASSUME StopSend PROVE Pipes'
    <2>1. "bye" \in InMessage
      BY DEF InMessage, Id
    <2>2. inbox' \in [Epoch -> Seq(InMessage)]
      BY <1>19, <1>0, <2>1, SendTyped DEF StopSend, Pipes
    <2> QED
      BY <1>19, <1>0, <2>2 DEF StopSend, Pipes
  <1>20. ASSUME StopKill PROVE Pipes'
    BY <1>20, <1>0, TerminateTyped DEF StopKill, Pipes
  <1>21. ASSUME NEW c \in Caller, Enter(c) PROVE Pipes'
    BY <1>21, <1>0 DEF Enter, pipes, Pipes
  <1>22. ASSUME NEW c \in Caller, CountBatch(c) PROVE Pipes'
    BY <1>22, <1>0 DEF CountBatch, pipes, Pipes
  <1>23. ASSUME NEW c \in Caller, SendCall(c) PROVE Pipes'
    <2>1. c \in InMessage
      BY <1>23 DEF InMessage, Id
    <2>2. inbox' \in [Epoch -> Seq(InMessage)]
      BY <1>23, <1>0, <2>1, SendTyped DEF SendCall, Pipes
    <2> QED
      BY <1>23, <1>0, <2>2 DEF SendCall, Pipes
  <1>24. ASSUME NEW c \in Caller, Receive(c) PROVE Pipes'
    BY <1>24, <1>0 DEF Receive, pipes, Pipes
  <1>25. ASSUME NEW c \in Caller, CallTimeout(c) PROVE Pipes'
    BY <1>25, <1>0 DEF CallTimeout, pipes, Pipes
  <1>26. ASSUME NEW c \in Caller, CommandKills(c) PROVE Pipes'
    BY <1>26, <1>0, TerminateTyped DEF CommandKills, KillInternal, Pipes
  <1>27. ASSUME NEW c \in Caller, CallDropped(c) PROVE Pipes'
    BY <1>27, <1>0 DEF CallDropped, pipes, Pipes
  <1>28. ASSUME NEW c \in Caller, CheckPasses(c) PROVE Pipes'
    BY <1>28, <1>0 DEF CheckPasses, pipes, Pipes
  <1>29. ASSUME NEW c \in Caller, CheckFindsExit(c) PROVE Pipes'
    BY <1>29, <1>0, TerminateTyped DEF CheckFindsExit, KillInternal, Pipes
  <1>30. ASSUME NEW c \in Caller, CheckFindsOverrun(c) PROVE Pipes'
    BY <1>30, <1>0 DEF CheckFindsOverrun, pipes, Pipes
  <1>31. ASSUME NEW c \in Caller, OverrunKills(c) PROVE Pipes'
    BY <1>31, <1>0, TerminateTyped DEF OverrunKills, KillInternal, Pipes
  <1>32. ASSUME ProbeEnds PROVE Pipes'
    BY <1>32, <1>0 DEF ProbeEnds, pipes, Pipes
  <1>33. ASSUME ProbeSkips PROVE Pipes'
    BY <1>33, <1>0 DEF ProbeSkips, pipes, Pipes
  <1>34. ASSUME ProbeSend PROVE Pipes'
    <2>1. Ping \in InMessage
      BY DEF InMessage, Id
    <2>2. inbox' \in [Epoch -> Seq(InMessage)]
      BY <1>34, <1>0, <2>1, SendTyped DEF ProbeSend, Pipes
    <2> QED
      BY <1>34, <1>0, <2>2 DEF ProbeSend, Pipes
  <1>35. ASSUME ProbeAnswered PROVE Pipes'
    BY <1>35, <1>0 DEF ProbeAnswered, pipes, Pipes
  <1>36. ASSUME ProbeTimeout PROVE Pipes'
    <2>1. "stale" \in InMessage /\ "stale" \in OutMessage
      BY DEF InMessage, OutMessage
    <2>2. /\ inbox' \in [Epoch -> Seq(InMessage)]
          /\ outbox' \in [Epoch -> Seq(OutMessage)]
      BY <1>36, <1>0, <2>1, AbandonTyped DEF ProbeTimeout, Pipes
    <2> QED
      BY <1>36, <1>0, <2>2 DEF ProbeTimeout, Pipes
  <1>37. ASSUME ProbeKills PROVE Pipes'
    BY <1>37, <1>0, TerminateTyped DEF ProbeKills, KillInternal, Pipes
  <1>38. CASE UNCHANGED vars
    BY <1>38, <1>0 DEF vars, pipes, Pipes
  <1> QED
    BY <1>1, <1>2, <1>3, <1>4, <1>5, <1>6, <1>7, <1>8, <1>9, <1>10, <1>11,
       <1>12, <1>13, <1>14, <1>15, <1>16, <1>17, <1>18, <1>19, <1>20, <1>21,
       <1>22, <1>23, <1>24, <1>25, <1>26, <1>27, <1>28, <1>29, <1>30, <1>31,
       <1>32, <1>33, <1>34, <1>35, <1>36, <1>37, <1>38
       DEF Next,
           Receiver, Owner, Start, CallBody, Probe, Starter

\* The operations of the table keep its type.
LEMMA TableTyped ==
    ASSUME Table
    PROVE  /\ \A i \in Id : Register(i) => Table'
           /\ \A i \in Id : Cancel(i) => Table'
           /\ \A i \in Id, v \in Slot : Complete(i, v) => Table'
           /\ CancelAll => Table'
           /\ UNCHANGED table => Table'
  BY DEF Table, Slot, Register, Cancel, Complete, CancelAll, table

\* The ids of the requests.
LEMMA Ids == Zero \in Id /\ Ping \in Id /\ Caller \subseteq Id
  BY DEF Id

\* Every step keeps the table.
LEMMA TableStep ==
    ASSUME Types, [Next]_vars
    PROVE  Table'
  <1>0. Table
    BY DEF Types
  <1>1. ASSUME NEW e \in Epoch, RunnerHandle(e) PROVE Table'
    BY <1>1, <1>0, TableTyped DEF RunnerHandle, table
  <1>2. ASSUME NEW e \in Epoch, RunnerHangs(e) PROVE Table'
    BY <1>2, <1>0, TableTyped DEF RunnerHangs, table
  <1>3. ASSUME NEW e \in Epoch, RunnerDies(e) PROVE Table'
    BY <1>3, <1>0, TableTyped DEF RunnerDies, table
  <1>4. ASSUME NEW e \in Epoch, ReceiverQuits(e) PROVE Table'
    BY <1>4, <1>0, TableTyped DEF ReceiverQuits, table
  <1>5. ASSUME NEW e \in Epoch, ReceiverRoute(e) PROVE Table'
    <2>1. {"ready", "refuse", "ack", "answer"} \subseteq Slot
      BY DEF Slot
    <2>2. \/ \E v \in {"ready", "refuse", "ack"} : Complete(Zero, v)
          \/ \E i \in Id : Complete(i, "answer")
          \/ UNCHANGED table
      BY <1>5 DEF ReceiverRoute
    <2> QED
      BY <1>0, <2>1, <2>2, Ids, TableTyped
  <1>6. ASSUME NEW e \in Epoch, ReceiverEof(e) PROVE Table'
    BY <1>6, <1>0, TableTyped DEF ReceiverEof, table
  <1>7. ASSUME NEW e \in Epoch, ReceiverExit(e) PROVE Table'
    BY <1>7, <1>0, Ids, TableTyped DEF ReceiverExit
  <1>8. ASSUME NEW t \in Starter, Spawn(t) PROVE Table'
    BY <1>8, <1>0, TableTyped DEF Spawn, table
  <1>9. ASSUME NEW t \in Starter, SpawnFails(t) PROVE Table'
    BY <1>9, <1>0, TableTyped DEF SpawnFails, table
  <1>10. ASSUME NEW t \in Starter, SendInit(t) PROVE Table'
    BY <1>10, <1>0, Ids, TableTyped DEF SendInit, table
  <1>11. ASSUME NEW t \in Starter, Ready(t) PROVE Table'
    BY <1>11, <1>0, Ids, TableTyped DEF Ready, table
  <1>12. ASSUME NEW t \in Starter, Refused(t) PROVE Table'
    BY <1>12, <1>0, Ids, TableTyped DEF Refused, KillInternal
  <1>13. ASSUME NEW t \in Starter, StartTimeout(t) PROVE Table'
    BY <1>13, <1>0, Ids, TableTyped DEF StartTimeout, table
  <1>14. ASSUME Publish PROVE Table'
    BY <1>14, <1>0, TableTyped DEF Publish, table
  <1>15. ASSUME DropObject PROVE Table'
    BY <1>15, <1>0, TableTyped DEF DropObject, table
  <1>16. ASSUME DropKills PROVE Table'
    BY <1>16, <1>0, TableTyped DEF DropKills, table
  <1>17. ASSUME MarkStopping PROVE Table'
    BY <1>17, <1>0, TableTyped DEF MarkStopping, table
  <1>18. ASSUME StopLock PROVE Table'
    BY <1>18, <1>0, Ids, TableTyped DEF StopLock, table
  <1>19. ASSUME StopSend PROVE Table'
    BY <1>19, <1>0, TableTyped DEF StopSend, table
  <1>20. ASSUME StopKill PROVE Table'
    BY <1>20, <1>0, Ids, TableTyped DEF StopKill
  <1>21. ASSUME NEW c \in Caller, Enter(c) PROVE Table'
    BY <1>21, <1>0, TableTyped DEF Enter, table
  <1>22. ASSUME NEW c \in Caller, CountBatch(c) PROVE Table'
    BY <1>22, <1>0, TableTyped DEF CountBatch, table
  <1>23. ASSUME NEW c \in Caller, SendCall(c) PROVE Table'
    BY <1>23, <1>0, Ids, TableTyped DEF SendCall, table
  <1>24. ASSUME NEW c \in Caller, Receive(c) PROVE Table'
    BY <1>24, <1>0, Ids, TableTyped DEF Receive, table
  <1>25. ASSUME NEW c \in Caller, CallTimeout(c) PROVE Table'
    <2>1. CASE Kind(c) \in Forgetful
      BY <1>25, <1>0, <2>1, Ids DEF CallTimeout, Table, Slot
    <2>2. CASE Kind(c) \notin Forgetful
      BY <1>25, <1>0, <2>2, Ids, TableTyped DEF CallTimeout
    <2> QED
      BY <2>1, <2>2
  <1>26. ASSUME NEW c \in Caller, CommandKills(c) PROVE Table'
    BY <1>26, <1>0, Ids, TableTyped DEF CommandKills, KillInternal
  <1>27. ASSUME NEW c \in Caller, CallDropped(c) PROVE Table'
    BY <1>27, <1>0, Ids DEF CallDropped, Table, Slot
  <1>28. ASSUME NEW c \in Caller, CheckPasses(c) PROVE Table'
    BY <1>28, <1>0, TableTyped DEF CheckPasses, table
  <1>29. ASSUME NEW c \in Caller, CheckFindsExit(c) PROVE Table'
    BY <1>29, <1>0, Ids, TableTyped DEF CheckFindsExit, KillInternal
  <1>30. ASSUME NEW c \in Caller, CheckFindsOverrun(c) PROVE Table'
    BY <1>30, <1>0, TableTyped DEF CheckFindsOverrun, table
  <1>31. ASSUME NEW c \in Caller, OverrunKills(c) PROVE Table'
    BY <1>31, <1>0, Ids, TableTyped DEF OverrunKills, KillInternal
  <1>32. ASSUME ProbeEnds PROVE Table'
    BY <1>32, <1>0, TableTyped DEF ProbeEnds, table
  <1>33. ASSUME ProbeSkips PROVE Table'
    BY <1>33, <1>0, TableTyped DEF ProbeSkips, table
  <1>34. ASSUME ProbeSend PROVE Table'
    BY <1>34, <1>0, Ids, TableTyped DEF ProbeSend, table
  <1>35. ASSUME ProbeAnswered PROVE Table'
    BY <1>35, <1>0, Ids, TableTyped DEF ProbeAnswered, table
  <1>36. ASSUME ProbeTimeout PROVE Table'
    BY <1>36, <1>0, Ids, TableTyped DEF ProbeTimeout, table
  <1>37. ASSUME ProbeKills PROVE Table'
    BY <1>37, <1>0, Ids, TableTyped DEF ProbeKills, KillInternal
  <1>38. CASE UNCHANGED vars
    BY <1>38, <1>0 DEF vars, table, Table
  <1> QED
    BY <1>1, <1>2, <1>3, <1>4, <1>5, <1>6, <1>7, <1>8, <1>9, <1>10, <1>11,
       <1>12, <1>13, <1>14, <1>15, <1>16, <1>17, <1>18, <1>19, <1>20, <1>21,
       <1>22, <1>23, <1>24, <1>25, <1>26, <1>27, <1>28, <1>29, <1>30, <1>31,
       <1>32, <1>33, <1>34, <1>35, <1>36, <1>37, <1>38
       DEF Next,
           Receiver, Owner, Start, CallBody, Probe, Starter

\* Every step keeps locks, flags, counters and results.
LEMMA RestStep ==
    ASSUME Types, [Next]_vars
    PROVE  Rest'
  <1>0. Rest
    BY DEF Types
  <1>1. ASSUME NEW e \in Epoch, RunnerHandle(e) PROVE Rest'
    BY <1>1, <1>0 DEF RunnerHandle, flags, counters, Rest
  <1>2. ASSUME NEW e \in Epoch, RunnerHangs(e) PROVE Rest'
    BY <1>2, <1>0 DEF RunnerHangs, flags, counters, Rest
  <1>3. ASSUME NEW e \in Epoch, RunnerDies(e) PROVE Rest'
    BY <1>3, <1>0 DEF RunnerDies, flags, counters, Rest
  <1>4. ASSUME NEW e \in Epoch, ReceiverQuits(e) PROVE Rest'
    BY <1>4, <1>0 DEF ReceiverQuits, flags, counters, Rest
  <1>5. ASSUME NEW e \in Epoch, ReceiverRoute(e) PROVE Rest'
    BY <1>5, <1>0 DEF ReceiverRoute, flags, counters, Rest
  <1>6. ASSUME NEW e \in Epoch, ReceiverEof(e) PROVE Rest'
    BY <1>6, <1>0 DEF ReceiverEof, flags, counters, Rest
  <1>7. ASSUME NEW e \in Epoch, ReceiverExit(e) PROVE Rest'
    BY <1>7, <1>0 DEF ReceiverExit, flags, counters, Rest
  <1>8. ASSUME NEW t \in Starter, Spawn(t) PROVE Rest'
    BY <1>8, <1>0 DEF Spawn, Starter, Task, flags, counters, Rest
  <1>9. ASSUME NEW t \in Starter, SpawnFails(t) PROVE Rest'
    <2>1. res' \in [Caller -> Result]
      BY <1>9, <1>0 DEF SpawnFails, StartFailed, Starter, Rest, Result
    <2> QED
      BY <1>9, <1>0, <2>1 DEF SpawnFails, flags, counters, Rest
  <1>10. ASSUME NEW t \in Starter, SendInit(t) PROVE Rest'
    <2>1. res' \in [Caller -> Result]
      BY <1>10, <1>0 DEF SendInit, StartFailed, Starter, Rest, Result
    <2> QED
      BY <1>10, <1>0, <2>1 DEF SendInit, flags, counters, Rest
  <1>11. ASSUME NEW t \in Starter, Ready(t) PROVE Rest'
    BY <1>11, <1>0 DEF Ready, flags, counters, Rest
  <1>12. ASSUME NEW t \in Starter, Refused(t) PROVE Rest'
    <2>1. res' \in [Caller -> Result]
      BY <1>12, <1>0 DEF Refused, StartFailed, Starter, Rest, Result
    <2> QED
      BY <1>12, <1>0, <2>1 DEF Refused, flags, counters, KillInternal, Rest
  <1>13. ASSUME NEW t \in Starter, StartTimeout(t) PROVE Rest'
    <2>1. res' \in [Caller -> Result]
      BY <1>13, <1>0 DEF StartTimeout, StartFailed, Starter, Rest, Result
    <2> QED
      BY <1>13, <1>0, <2>1 DEF StartTimeout, flags, counters, Rest
  <1>14. ASSUME Publish PROVE Rest'
    BY <1>14, <1>0 DEF Publish, flags, counters, Rest
  <1>15. ASSUME DropObject PROVE Rest'
    BY <1>15, <1>0 DEF DropObject, flags, counters, Rest
  <1>16. ASSUME DropKills PROVE Rest'
    BY <1>16, <1>0 DEF DropKills, flags, counters, Rest
  <1>17. ASSUME MarkStopping PROVE Rest'
    BY <1>17, <1>0 DEF MarkStopping, flags, counters, Rest
  <1>18. ASSUME StopLock PROVE Rest'
    BY <1>18, <1>0 DEF StopLock, Task, flags, counters, Rest
  <1>19. ASSUME StopSend PROVE Rest'
    BY <1>19, <1>0 DEF StopSend, flags, counters, Rest
  <1>20. ASSUME StopKill PROVE Rest'
    BY <1>20, <1>0 DEF StopKill, flags, counters, Rest
  <1>21. ASSUME NEW c \in Caller, Enter(c) PROVE Rest'
    <2>1. res' \in [Caller -> Result]
      BY <1>21, <1>0 DEF Enter, Return, Rest, Result
    <2> QED
      BY <1>21, <1>0, <2>1 DEF Enter, flags, Rest
  <1>22. ASSUME NEW c \in Caller, CountBatch(c) PROVE Rest'
    BY <1>22, <1>0 DEF CountBatch, flags, counters, Rest
  <1>23. ASSUME NEW c \in Caller, SendCall(c) PROVE Rest'
    <2>1. res' \in [Caller -> Result]
      BY <1>23, <1>0 DEF SendCall, Return, Rest, Result
    <2> QED
      BY <1>23, <1>0, <2>1 DEF SendCall, flags, Rest
  <1>24. ASSUME NEW c \in Caller, Receive(c) PROVE Rest'
    <2>1. res' \in [Caller -> Result]
      BY <1>24, <1>0 DEF Receive, Return, Rest, Result
    <2> QED
      BY <1>24, <1>0, <2>1 DEF Receive, flags, Rest
  <1>25. ASSUME NEW c \in Caller, CallTimeout(c) PROVE Rest'
    <2>1. res' \in [Caller -> Result]
      BY <1>25, <1>0 DEF CallTimeout, Return, Rest, Result
    <2> QED
      BY <1>25, <1>0, <2>1 DEF CallTimeout, flags, Rest
  <1>26. ASSUME NEW c \in Caller, CommandKills(c) PROVE Rest'
    <2>1. res' \in [Caller -> Result]
      BY <1>26, <1>0 DEF CommandKills, Return, Rest, Result
    <2> QED
      BY <1>26, <1>0, <2>1 DEF CommandKills, KillInternal, flags, Rest
  <1>27. ASSUME NEW c \in Caller, CallDropped(c) PROVE Rest'
    <2>1. res' \in [Caller -> Result]
      BY <1>27, <1>0 DEF CallDropped, Return, Rest, Result
    <2> QED
      BY <1>27, <1>0, <2>1 DEF CallDropped, flags, Rest
  <1>28. ASSUME NEW c \in Caller, CheckPasses(c) PROVE Rest'
    BY <1>28, <1>0 DEF CheckPasses, flags, counters, Rest
  <1>29. ASSUME NEW c \in Caller, CheckFindsExit(c) PROVE Rest'
    <2>1. res' \in [Caller -> Result]
      BY <1>29, <1>0 DEF CheckFindsExit, Return, Rest, Result
    <2>2. crashes' \in Nat
      BY <1>29, <1>0 DEF CheckFindsExit, Rest
    <2>3. running' \in BOOLEAN /\ checked' \in BOOLEAN
      BY <1>29, <1>0 DEF CheckFindsExit, KillInternal, Rest
    <2> QED
      BY <1>29, <1>0, <2>1, <2>2, <2>3 DEF CheckFindsExit, Rest
  <1>30. ASSUME NEW c \in Caller, CheckFindsOverrun(c) PROVE Rest'
    BY <1>30, <1>0 DEF CheckFindsOverrun, flags, counters, Rest
  <1>31. ASSUME NEW c \in Caller, OverrunKills(c) PROVE Rest'
    <2>1. res' \in [Caller -> Result]
      BY <1>31, <1>0 DEF OverrunKills, Return, Rest, Result
    <2>2. crashes' \in Nat
      BY <1>31, <1>0 DEF OverrunKills, Rest
    <2>3. running' \in BOOLEAN /\ checked' \in BOOLEAN
      BY <1>31, <1>0 DEF OverrunKills, KillInternal, Rest
    <2> QED
      BY <1>31, <1>0, <2>1, <2>2, <2>3 DEF OverrunKills, Rest
  <1>32. ASSUME ProbeEnds PROVE Rest'
    BY <1>32, <1>0 DEF ProbeEnds, flags, counters, Rest
  <1>33. ASSUME ProbeSkips PROVE Rest'
    BY <1>33, <1>0 DEF ProbeSkips, flags, counters, Rest
  <1>34. ASSUME ProbeSend PROVE Rest'
    BY <1>34, <1>0 DEF ProbeSend, flags, counters, Rest
  <1>35. ASSUME ProbeAnswered PROVE Rest'
    BY <1>35, <1>0 DEF ProbeAnswered, flags, counters, Rest
  <1>36. ASSUME ProbeTimeout PROVE Rest'
    BY <1>36, <1>0 DEF ProbeTimeout, flags, counters, Rest
  <1>37. ASSUME ProbeKills PROVE Rest'
    <2>1. crashes' \in Nat
      BY <1>37, <1>0 DEF ProbeKills, Rest
    <2>2. running' \in BOOLEAN
      BY <1>37, <1>0 DEF ProbeKills, KillInternal, Rest
    <2> QED
      BY <1>37, <1>0, <2>1, <2>2 DEF ProbeKills, Rest
  <1>38. CASE UNCHANGED vars
    BY <1>38, <1>0 DEF vars, flags, counters, Rest
  <1> QED
    BY <1>1, <1>2, <1>3, <1>4, <1>5, <1>6, <1>7, <1>8, <1>9, <1>10, <1>11,
       <1>12, <1>13, <1>14, <1>15, <1>16, <1>17, <1>18, <1>19, <1>20, <1>21,
       <1>22, <1>23, <1>24, <1>25, <1>26, <1>27, <1>28, <1>29, <1>30, <1>31,
       <1>32, <1>33, <1>34, <1>35, <1>36, <1>37, <1>38
       DEF Next,
           Receiver, Owner, Start, CallBody, Probe, Starter

-----------------------------------------------------------------------------
(* The epochs *)

\* A load that failed: nobody was given the object.
Failed == pc["owner"] \in {"dropping", "gone"} /\ pc["monitor"] = "off"

\* A failed load is final.
LEMMA FailedStays ==
    ASSUME Tasks, [Next]_vars, Failed
    PROVE  Failed'
  <1>0. Tasks /\ Failed
    OBVIOUS
  <1>1. ASSUME NEW e \in Epoch, RunnerHandle(e) PROVE Failed'
    BY <1>1, <1>0 DEF RunnerHandle, Failed
  <1>2. ASSUME NEW e \in Epoch, RunnerHangs(e) PROVE Failed'
    BY <1>2, <1>0 DEF RunnerHangs, Failed
  <1>3. ASSUME NEW e \in Epoch, RunnerDies(e) PROVE Failed'
    BY <1>3, <1>0 DEF RunnerDies, Failed
  <1>4. ASSUME NEW e \in Epoch, ReceiverQuits(e) PROVE Failed'
    BY <1>4, <1>0 DEF ReceiverQuits, Failed
  <1>5. ASSUME NEW e \in Epoch, ReceiverRoute(e) PROVE Failed'
    BY <1>5, <1>0 DEF ReceiverRoute, Failed
  <1>6. ASSUME NEW e \in Epoch, ReceiverEof(e) PROVE Failed'
    BY <1>6, <1>0 DEF ReceiverEof, Failed
  <1>7. ASSUME NEW e \in Epoch, ReceiverExit(e) PROVE Failed'
    BY <1>7, <1>0 DEF ReceiverExit, Failed
  <1>8. ASSUME NEW t \in Starter, Spawn(t) PROVE Failed'
    BY <1>8, <1>0, Apart DEF Spawn, Failed, Starter, StartFailed, Goto,
           Tasks, Task
  <1>9. ASSUME NEW t \in Starter, SpawnFails(t) PROVE Failed'
    BY <1>9, <1>0, Apart DEF SpawnFails, Failed, Starter, StartFailed, Goto,
           Tasks, Task
  <1>10. ASSUME NEW t \in Starter, SendInit(t) PROVE Failed'
    BY <1>10, <1>0, Apart DEF SendInit, Failed, Starter, StartFailed, Goto,
           Tasks, Task
  <1>11. ASSUME NEW t \in Starter, Ready(t) PROVE Failed'
    BY <1>11, <1>0, Apart DEF Ready, Failed, Starter, StartFailed, Goto,
           Tasks, Task
  <1>12. ASSUME NEW t \in Starter, Refused(t) PROVE Failed'
    BY <1>12, <1>0, Apart DEF Refused, Failed, Starter, StartFailed, Goto,
           Tasks, Task
  <1>13. ASSUME NEW t \in Starter, StartTimeout(t) PROVE Failed'
    BY <1>13, <1>0, Apart DEF StartTimeout, Failed, Starter, StartFailed,
           Goto, Tasks, Task
  <1>14. ASSUME Publish PROVE Failed'
    BY <1>14, <1>0 DEF Publish, Failed, Goto, Tasks, Task
  <1>15. ASSUME DropObject PROVE Failed'
    BY <1>15, <1>0 DEF DropObject, Failed, Goto, Tasks, Task
  <1>16. ASSUME DropKills PROVE Failed'
    BY <1>16, <1>0 DEF DropKills, Failed, Goto, Tasks, Task
  <1>17. ASSUME MarkStopping PROVE Failed'
    BY <1>17, <1>0 DEF MarkStopping, Failed, Goto, Tasks, Task
  <1>18. ASSUME StopLock PROVE Failed'
    BY <1>18, <1>0 DEF StopLock, Failed, Goto, Tasks, Task
  <1>19. ASSUME StopSend PROVE Failed'
    BY <1>19, <1>0 DEF StopSend, Failed, Goto, Tasks, Task
  <1>20. ASSUME StopKill PROVE Failed'
    BY <1>20, <1>0 DEF StopKill, Failed, Goto, Tasks, Task
  <1>21. ASSUME NEW c \in Caller, Enter(c) PROVE Failed'
    BY <1>21, <1>0, Apart DEF Enter, Failed, Return, Goto, Tasks, Task
  <1>22. ASSUME NEW c \in Caller, CountBatch(c) PROVE Failed'
    BY <1>22, <1>0, Apart DEF CountBatch, Failed, Return, Goto, Tasks, Task
  <1>23. ASSUME NEW c \in Caller, SendCall(c) PROVE Failed'
    BY <1>23, <1>0, Apart DEF SendCall, Failed, Return, Goto, Tasks, Task
  <1>24. ASSUME NEW c \in Caller, Receive(c) PROVE Failed'
    BY <1>24, <1>0, Apart DEF Receive, Failed, Return, Goto, Tasks, Task
  <1>25. ASSUME NEW c \in Caller, CallTimeout(c) PROVE Failed'
    BY <1>25, <1>0, Apart DEF CallTimeout, Failed, Return, Goto, Tasks, Task
  <1>26. ASSUME NEW c \in Caller, CommandKills(c) PROVE Failed'
    BY <1>26, <1>0, Apart DEF CommandKills, Failed, Return, Goto, Tasks, Task
  <1>27. ASSUME NEW c \in Caller, CallDropped(c) PROVE Failed'
    BY <1>27, <1>0, Apart DEF CallDropped, Failed, Return, Goto, Tasks, Task
  <1>28. ASSUME NEW c \in Caller, CheckPasses(c) PROVE Failed'
    BY <1>28, <1>0, Apart DEF CheckPasses, Failed, Return, Goto, Tasks, Task
  <1>29. ASSUME NEW c \in Caller, CheckFindsExit(c) PROVE Failed'
    BY <1>29, <1>0, Apart DEF CheckFindsExit, Failed, Return, Goto, Tasks,
           Task
  <1>30. ASSUME NEW c \in Caller, CheckFindsOverrun(c) PROVE Failed'
    BY <1>30, <1>0, Apart DEF CheckFindsOverrun, Failed, Return, Goto, Tasks,
           Task
  <1>31. ASSUME NEW c \in Caller, OverrunKills(c) PROVE Failed'
    BY <1>31, <1>0, Apart DEF OverrunKills, Failed, Return, Goto, Tasks, Task
  <1>32. ASSUME ProbeEnds PROVE Failed'
    BY <1>32, <1>0 DEF ProbeEnds, Failed, ProbeFailed, Goto, Tasks, Task
  <1>33. ASSUME ProbeSkips PROVE Failed'
    BY <1>33, <1>0 DEF ProbeSkips, Failed, ProbeFailed, Goto, Tasks, Task
  <1>34. ASSUME ProbeSend PROVE Failed'
    BY <1>34, <1>0 DEF ProbeSend, Failed, ProbeFailed, Goto, Tasks, Task
  <1>35. ASSUME ProbeAnswered PROVE Failed'
    BY <1>35, <1>0 DEF ProbeAnswered, Failed, ProbeFailed, Goto, Tasks, Task
  <1>36. ASSUME ProbeTimeout PROVE Failed'
    BY <1>36, <1>0 DEF ProbeTimeout, Failed, ProbeFailed, Goto, Tasks, Task
  <1>37. ASSUME ProbeKills PROVE Failed'
    BY <1>37, <1>0 DEF ProbeKills, Failed, ProbeFailed, Goto, Tasks, Task
  <1>38. CASE UNCHANGED vars
    BY <1>38, <1>0 DEF vars, Failed
  <1> QED
    BY <1>1, <1>2, <1>3, <1>4, <1>5, <1>6, <1>7, <1>8, <1>9, <1>10, <1>11,
       <1>12, <1>13, <1>14, <1>15, <1>16, <1>17, <1>18, <1>19, <1>20, <1>21,
       <1>22, <1>23, <1>24, <1>25, <1>26, <1>27, <1>28, <1>29, <1>30, <1>31,
       <1>32, <1>33, <1>34, <1>35, <1>36, <1>37, <1>38
       DEF Next,
           Receiver, Owner, Start, CallBody, Probe, Starter

\* What leaves processes and threads alone keeps the epochs.
LEMMA EpochsKept ==
    ASSUME Epochs, UNCHANGED <<process, recv, shut>>, running' => running,
           Failed => Failed'
    PROVE  Epochs'
  <1>1. UNCHANGED <<epoch, handle, stdin, shutTx>>
    BY DEF process
  <1> QED
    BY <1>1 DEF Epochs, Failed

\* A kill keeps them: the receiver it signals is no longer that of the child.
LEMMA EpochsKilled ==
    ASSUME Epochs, shut' = [e \in Epoch |-> shut[e] \/ e = shutTx],
           shutTx' = 0, handle' = 0, UNCHANGED <<epoch, recv>>,
           stdin' \in {0, stdin}, ~running' \/ Failed'
    PROVE  Epochs'
  <1>1. \A e \in Epoch : e # 0 /\ e \in Nat
    BY EpochNumbers
  <1>2. shut' \in [Epoch -> BOOLEAN]
    BY Zenon DEF Epochs
  <1>3. \A e \in Epoch : shut'[e] => e <= epoch' /\ e # handle'
    BY <1>1, EpochNumbers DEF Epochs
  <1>4. handle' = 0 /\ shutTx' = 0 /\ stdin' \in 0..epoch'
    BY EpochNumbers DEF Epochs
  <1> QED
    BY <1>2, <1>3, <1>4 DEF Epochs, Failed

\* So does a receiver that is not that of the running child.
LEMMA EpochsReceived ==
    ASSUME Epochs, NEW e \in Epoch, NEW s \in {"loop", "exit", "done"},
           recv[e] # None, recv' = [recv EXCEPT ![e] = s],
           UNCHANGED <<process, shut>>, running' => running, Failed => Failed',
           ~running' \/ e # handle \/ s = "loop"
    PROVE  Epochs'
  <1>1. UNCHANGED <<epoch, handle, stdin, shutTx>>
    BY DEF process
  <1>2. recv' \in [Epoch -> {None, "loop", "exit", "done"}]
    BY DEF Epochs
  <1>3. \A d \in Epoch : recv'[d] # None => d <= epoch
    BY DEF Epochs
  <1>4. running' /\ handle # 0 => recv'[handle] = "loop"
    BY EpochNumbers DEF Epochs
  <1> QED
    BY <1>1, <1>2, <1>3, <1>4 DEF Epochs, Failed

\* Every step keeps the epochs.
LEMMA EpochsStep ==
    ASSUME Types, [Next]_vars
    PROVE  Epochs'
  <1>0. Tasks /\ Epochs /\ (Failed => Failed')
    BY FailedStays DEF Types
  <1>1. ASSUME NEW e \in Epoch, RunnerHandle(e) PROVE Epochs'
    BY <1>1, <1>0, EpochsKept DEF RunnerHandle, threads, flags
  <1>2. ASSUME NEW e \in Epoch, RunnerHangs(e) PROVE Epochs'
    BY <1>2, <1>0, EpochsKept DEF RunnerHangs, threads, flags
  <1>3. ASSUME NEW e \in Epoch, RunnerDies(e) PROVE Epochs'
    BY <1>3, <1>0, EpochsKept DEF RunnerDies, threads, flags
  <1>4. ASSUME NEW e \in Epoch, ReceiverQuits(e) PROVE Epochs'
    <2>1. recv[e] # None /\ e # handle
      BY <1>4, <1>0 DEF ReceiverQuits, Epochs, None
    <2> QED
      BY <1>4, <1>0, <2>1, EpochsReceived DEF ReceiverQuits, flags
  <1>5. ASSUME NEW e \in Epoch, ReceiverRoute(e) PROVE Epochs'
    <2>1. recv[e] # None /\ (shut[e] => e # handle)
      BY <1>5, <1>0 DEF ReceiverRoute, Epochs, None
    <2> QED
      BY <1>5, <1>0, <2>1, EpochsReceived DEF ReceiverRoute, flags
  <1>6. ASSUME NEW e \in Epoch, ReceiverEof(e) PROVE Epochs'
    <2>1. recv[e] # None
      BY <1>6 DEF ReceiverEof, None
    <2> QED
      BY <1>6, <1>0, <2>1, EpochsReceived DEF ReceiverEof
  <1>7. ASSUME NEW e \in Epoch, ReceiverExit(e) PROVE Epochs'
    <2>1. recv[e] # None /\ (running => e # handle)
      BY <1>7, <1>0, EpochNumbers DEF ReceiverExit, Epochs, None
    <2> QED
      BY <1>7, <1>0, <2>1, EpochsReceived DEF ReceiverExit, flags
  <1>8. ASSUME NEW t \in Starter, Spawn(t) PROVE Epochs'
    <2>1. epoch + 1 \in Epoch /\ epoch + 1 \in 0..MaxEpoch
      BY <1>8, <1>0, EpochNumbers DEF Spawn
    <2>2. /\ epoch' = epoch + 1 /\ handle' = epoch + 1
          /\ stdin' = epoch + 1 /\ shutTx' = epoch + 1
          /\ recv' = [recv EXCEPT ![epoch + 1] = "loop"] /\ UNCHANGED shut
      BY <1>8 DEF Spawn
    <2>3. \A d \in Epoch : shut[d] => d <= epoch + 1 /\ d # epoch + 1
      BY <1>0, EpochNumbers DEF Epochs
    <2>4. \A d \in Epoch : recv'[d] # None => d <= epoch + 1
      BY <1>0, <2>1, <2>2, EpochNumbers DEF Epochs
    <2>5. handle' # 0 /\ handle' \in 0..epoch' /\ recv'[handle'] = "loop"
      BY <1>0, <2>1, <2>2, EpochNumbers DEF Epochs
    <2>6. recv' \in [Epoch -> {None, "loop", "exit", "done"}]
      BY <1>0, <2>2 DEF Epochs
    <2> QED
      BY <1>0, <2>1, <2>2, <2>3, <2>4, <2>5, <2>6 DEF Epochs
  <1>9. ASSUME NEW t \in Starter, SpawnFails(t) PROVE Epochs'
    BY <1>9, <1>0, EpochsKept DEF SpawnFails, threads, flags
  <1>10. ASSUME NEW t \in Starter, SendInit(t) PROVE Epochs'
    BY <1>10, <1>0, EpochsKept DEF SendInit, threads, flags
  <1>11. ASSUME NEW t \in Starter, Ready(t) PROVE Epochs'
    BY <1>11, <1>0, EpochsKept DEF Ready, threads, flags
  <1>12. ASSUME NEW t \in Starter, Refused(t) PROVE Epochs'
    BY <1>12, <1>0, EpochsKilled DEF Refused, KillInternal, Terminate
  <1>13. ASSUME NEW t \in Starter, StartTimeout(t) PROVE Epochs'
    BY <1>13, <1>0, EpochsKept DEF StartTimeout, threads, flags
  <1>14. ASSUME Publish PROVE Epochs'
    BY <1>14, <1>0, EpochsKept DEF Publish, threads, flags
  <1>15. ASSUME DropObject PROVE Epochs'
    <2>1. Failed'
      BY <1>15, <1>0 DEF DropObject, Goto, Failed, Tasks, Task, Unpublished
    <2> QED
      BY <1>15, <1>0, <2>1, EpochsKilled DEF DropObject
  <1>16. ASSUME DropKills PROVE Epochs'
    BY <1>16, <1>0, EpochsKept DEF DropKills, threads, flags
  <1>17. ASSUME MarkStopping PROVE Epochs'
    BY <1>17, <1>0, EpochsKept DEF MarkStopping, threads, flags
  <1>18. ASSUME StopLock PROVE Epochs'
    BY <1>18, <1>0, EpochsKept DEF StopLock, threads, flags
  <1>19. ASSUME StopSend PROVE Epochs'
    BY <1>19, <1>0, EpochsKept DEF StopSend, threads, flags
  <1>20. ASSUME StopKill PROVE Epochs'
    BY <1>20, <1>0, EpochsKilled DEF StopKill, Terminate
  <1>21. ASSUME NEW c \in Caller, Enter(c) PROVE Epochs'
    BY <1>21, <1>0, EpochsKept DEF Enter, threads, flags
  <1>22. ASSUME NEW c \in Caller, CountBatch(c) PROVE Epochs'
    BY <1>22, <1>0, EpochsKept DEF CountBatch, threads, flags
  <1>23. ASSUME NEW c \in Caller, SendCall(c) PROVE Epochs'
    BY <1>23, <1>0, EpochsKept DEF SendCall, threads, flags
  <1>24. ASSUME NEW c \in Caller, Receive(c) PROVE Epochs'
    BY <1>24, <1>0, EpochsKept DEF Receive, threads, flags
  <1>25. ASSUME NEW c \in Caller, CallTimeout(c) PROVE Epochs'
    BY <1>25, <1>0, EpochsKept DEF CallTimeout, threads, flags
  <1>26. ASSUME NEW c \in Caller, CommandKills(c) PROVE Epochs'
    <2>1. CASE handle # 0
      BY <1>26, <1>0, <2>1, EpochsKilled DEF CommandKills, KillInternal, Terminate
    <2>2. CASE handle = 0
      BY <1>26, <1>0, <2>2, EpochsKept DEF CommandKills, process
    <2> QED
      BY <2>1, <2>2
  <1>27. ASSUME NEW c \in Caller, CallDropped(c) PROVE Epochs'
    BY <1>27, <1>0, EpochsKept DEF CallDropped, threads, flags
  <1>28. ASSUME NEW c \in Caller, CheckPasses(c) PROVE Epochs'
    BY <1>28, <1>0, EpochsKept DEF CheckPasses, threads, flags
  <1>29. ASSUME NEW c \in Caller, CheckFindsExit(c) PROVE Epochs'
    BY <1>29, <1>0, EpochsKilled DEF CheckFindsExit, KillInternal, Terminate
  <1>30. ASSUME NEW c \in Caller, CheckFindsOverrun(c) PROVE Epochs'
    BY <1>30, <1>0, EpochsKept DEF CheckFindsOverrun, threads, flags
  <1>31. ASSUME NEW c \in Caller, OverrunKills(c) PROVE Epochs'
    BY <1>31, <1>0, EpochsKilled DEF OverrunKills, KillInternal, Terminate
  <1>32. ASSUME ProbeEnds PROVE Epochs'
    BY <1>32, <1>0, EpochsKept DEF ProbeEnds, threads, flags
  <1>33. ASSUME ProbeSkips PROVE Epochs'
    BY <1>33, <1>0, EpochsKept DEF ProbeSkips, threads, flags
  <1>34. ASSUME ProbeSend PROVE Epochs'
    BY <1>34, <1>0, EpochsKept DEF ProbeSend, threads, flags
  <1>35. ASSUME ProbeAnswered PROVE Epochs'
    BY <1>35, <1>0, EpochsKept DEF ProbeAnswered, threads, flags
  <1>36. ASSUME ProbeTimeout PROVE Epochs'
    BY <1>36, <1>0, EpochsKept DEF ProbeTimeout, threads, flags
  <1>37. ASSUME ProbeKills PROVE Epochs'
    <2>1. CASE handle # 0
      BY <1>37, <1>0, <2>1, EpochsKilled DEF ProbeKills, KillInternal, Terminate
    <2>2. CASE handle = 0
      BY <1>37, <1>0, <2>2, EpochsKept DEF ProbeKills, process
    <2> QED
      BY <2>1, <2>2
  <1>38. CASE UNCHANGED vars
    BY <1>38, <1>0, EpochsKept DEF vars, threads, flags, process
  <1> QED
    BY <1>1, <1>2, <1>3, <1>4, <1>5, <1>6, <1>7, <1>8, <1>9, <1>10, <1>11,
       <1>12, <1>13, <1>14, <1>15, <1>16, <1>17, <1>18, <1>19, <1>20, <1>21,
       <1>22, <1>23, <1>24, <1>25, <1>26, <1>27, <1>28, <1>29, <1>30, <1>31,
       <1>32, <1>33, <1>34, <1>35, <1>36, <1>37, <1>38
       DEF Next,
           Receiver, Owner, Start, CallBody, Probe, Starter

\* Types and epochs, in every step.
LEMMA TypesStep ==
    ASSUME Types, [Next]_vars
    PROVE  Types'
  BY TasksStep, PipesStep, TableStep, RestStep, EpochsStep DEF Types

\* ... and at the beginning.
LEMMA TypesInit ==
    ASSUME Init
    PROVE  Types
  <1>1. pc \in [Task -> {"spawn", "off", "idle"}]
    BY DEF Init
  <1>2. /\ pc["owner"] = "spawn" /\ pc["monitor"] = "off"
        /\ \A c \in Caller : pc[c] = "idle"
    BY Apart DEF Init, Task
  <1>3. Tasks
    <2>1. {"spawn", "off", "idle"}
              \subseteq OwnerPlace \cup MonitorPlace \cup CallerPlace
      BY DEF OwnerPlace, MonitorPlace, CallerPlace
    <2>2. pc \in [Task -> OwnerPlace \cup MonitorPlace \cup CallerPlace]
      BY <1>1, <2>1
    <2>3. scene \in Scenarios /\ failures = 0 /\ MaxFailures \in Nat \ {0}
      BY ProcessAssumption DEF Init
    <2>4. \A c \in Caller : pc[c] \in CallerPlace /\ Fits(c, pc[c])
      BY <1>2 DEF CallerPlace, Fits, Checking
    <2> QED
      BY <1>2, <2>2, <2>3, <2>4 DEF Tasks, OwnerPlace, MonitorPlace
  <1>4. Pipes
    <2>1. <<>> \in Seq(InMessage) /\ <<>> \in Seq(OutMessage)
      OBVIOUS
    <2> QED
      BY <2>1 DEF Init, Pipes
  <1>5. Table
    BY DEF Init, Table, Slot
  <1>6. Rest
    BY DEF Init, Rest, Result
  <1>7. Epochs
    BY ProcessAssumption DEF Init, Epochs, Epoch
  <1> QED
    BY <1>3, <1>4, <1>5, <1>6, <1>7 DEF Types

-----------------------------------------------------------------------------
(* No live process is written off *)

\* What neither clears the flag nor moves the owner off its way to a stop.
LEMMA LiveKept ==
    ASSUME LiveIsRunning, UNCHANGED <<handle, epoch>>, running => running',
           \A e \in Epoch : Alive(e)' => Alive(e),
           handle # 0 => handle \in Epoch,
           pc["owner"] \in {"stop", "bye", "ack", "drop"} =>
               pc'["owner"] \in {"stop", "bye", "ack", "drop"}
    PROVE  LiveIsRunning'
  BY DEF LiveIsRunning, Alive

\* Every step keeps it.
LEMMA LiveStep ==
    ASSUME Types, LiveIsRunning, [Next]_vars
    PROVE  LiveIsRunning'
  <1>0. /\ LiveIsRunning /\ Tasks /\ Epochs /\ Pipes
        /\ handle # 0 => handle \in Epoch
    BY EpochNumbers DEF Types
  <1>1. ASSUME NEW e \in Epoch, RunnerHandle(e) PROVE LiveIsRunning'
    BY <1>1, <1>0, LiveKept DEF RunnerHandle, process, flags, Alive, Pipes
  <1>2. ASSUME NEW e \in Epoch, RunnerHangs(e) PROVE LiveIsRunning'
    BY <1>2, <1>0, LiveKept DEF RunnerHangs, process, flags, Alive, Pipes
  <1>3. ASSUME NEW e \in Epoch, RunnerDies(e) PROVE LiveIsRunning'
    BY <1>3, <1>0, LiveKept DEF RunnerDies, process, flags, Alive, Pipes
  <1>4. ASSUME NEW e \in Epoch, ReceiverQuits(e) PROVE LiveIsRunning'
    BY <1>4, <1>0, LiveKept DEF ReceiverQuits, process, pipes, flags, Alive
  <1>5. ASSUME NEW e \in Epoch, ReceiverRoute(e) PROVE LiveIsRunning'
    BY <1>5, <1>0, LiveKept DEF ReceiverRoute, process, pipes, flags, Alive
  <1>6. ASSUME NEW e \in Epoch, ReceiverEof(e) PROVE LiveIsRunning'
    <2>1. recv[e] = "loop" /\ proc[e] \in {"dead", "cut"} /\ ~running'
          /\ UNCHANGED <<epoch, handle, proc, pc>>
      BY <1>6 DEF ReceiverEof, process, pipes
    <2>2. e \in Nat /\ e # 0 /\ e <= epoch /\ handle <= epoch
          /\ epoch \in Nat /\ handle \in Nat
      BY <1>0, <2>1, EpochNumbers DEF Epochs, None
    <2>3. handle # 0 /\ e # handle => epoch > 1
      BY <2>2
    <2> QED
      BY <2>1, <2>3 DEF LiveIsRunning, Alive
  <1>7. ASSUME NEW e \in Epoch, ReceiverExit(e) PROVE LiveIsRunning'
    BY <1>7, <1>0, LiveKept DEF ReceiverExit, process, pipes, flags, Alive
  <1>8. ASSUME NEW t \in Starter, Spawn(t) PROVE LiveIsRunning'
    BY <1>8, <1>0 DEF Spawn, LiveIsRunning
  <1>9. ASSUME NEW t \in Starter, SpawnFails(t) PROVE LiveIsRunning'
    BY <1>9, <1>0, Apart, LiveKept DEF SpawnFails, Starter, StartFailed,
           Goto, Tasks, Task, process, pipes, flags, Alive
  <1>10. ASSUME NEW t \in Starter, SendInit(t) PROVE LiveIsRunning'
    BY <1>10, <1>0, Apart, LiveKept DEF SendInit, Starter, StartFailed, Goto,
           Tasks, Task, process, pipes, flags, Alive
  <1>11. ASSUME NEW t \in Starter, Ready(t) PROVE LiveIsRunning'
    BY <1>11, <1>0, Apart, LiveKept DEF Ready, Starter, StartFailed, Goto,
           Tasks, Task, process, pipes, flags, Alive
  <1>12. ASSUME NEW t \in Starter, Refused(t) PROVE LiveIsRunning'
    BY <1>12 DEF Refused, KillInternal, Terminate, LiveIsRunning
  <1>13. ASSUME NEW t \in Starter, StartTimeout(t) PROVE LiveIsRunning'
    BY <1>13, <1>0, Apart, LiveKept DEF StartTimeout, Starter, StartFailed,
           Goto, Tasks, Task, process, pipes, flags, Alive
  <1>14. ASSUME Publish PROVE LiveIsRunning'
    BY <1>14, <1>0, LiveKept DEF Publish, Goto, Tasks, Task, process, pipes,
           flags, Alive
  <1>15. ASSUME DropObject PROVE LiveIsRunning'
    BY <1>15 DEF DropObject, LiveIsRunning
  <1>16. ASSUME DropKills PROVE LiveIsRunning'
    BY <1>16, <1>0, LiveKept DEF DropKills, Goto, Tasks, Task, process,
           flags, Alive, Pipes
  <1>17. ASSUME MarkStopping PROVE LiveIsRunning'
    BY <1>17, <1>0 DEF MarkStopping, Goto, Tasks, Task, LiveIsRunning
  <1>18. ASSUME StopLock PROVE LiveIsRunning'
    <2>1. CASE handle = 0
      BY <1>18, <2>1 DEF StopLock, process, LiveIsRunning
    <2>2. CASE handle # 0
      BY <1>18, <1>0, <2>2, LiveKept
         DEF StopLock, Goto, Tasks, Task, process, pipes, flags, Alive
    <2> QED
      BY <2>1, <2>2
  <1>19. ASSUME StopSend PROVE LiveIsRunning'
    BY <1>19, <1>0, LiveKept DEF StopSend, Goto, Tasks, Task, process, pipes,
           flags, Alive
  <1>20. ASSUME StopKill PROVE LiveIsRunning'
    BY <1>20 DEF StopKill, Terminate, LiveIsRunning
  <1>21. ASSUME NEW c \in Caller, Enter(c) PROVE LiveIsRunning'
    BY <1>21, <1>0, Apart, LiveKept DEF Enter, Return, Goto, Tasks, Task,
           process, pipes, flags, Alive
  <1>22. ASSUME NEW c \in Caller, CountBatch(c) PROVE LiveIsRunning'
    BY <1>22, <1>0, Apart, LiveKept DEF CountBatch, Return, Goto, Tasks,
           Task, process, pipes, flags, Alive
  <1>23. ASSUME NEW c \in Caller, SendCall(c) PROVE LiveIsRunning'
    BY <1>23, <1>0, Apart, LiveKept DEF SendCall, Return, Goto, Tasks, Task,
           process, pipes, flags, Alive
  <1>24. ASSUME NEW c \in Caller, Receive(c) PROVE LiveIsRunning'
    BY <1>24, <1>0, Apart, LiveKept DEF Receive, Return, Goto, Tasks, Task,
           process, pipes, flags, Alive
  <1>25. ASSUME NEW c \in Caller, CallTimeout(c) PROVE LiveIsRunning'
    BY <1>25, <1>0, Apart, LiveKept DEF CallTimeout, Return, Goto, Tasks,
           Task, process, pipes, flags, Alive
  <1>26. ASSUME NEW c \in Caller, CommandKills(c) PROVE LiveIsRunning'
    <2>1. CASE handle # 0
      BY <1>26, <2>1 DEF CommandKills, KillInternal, Terminate, LiveIsRunning
    <2>2. CASE handle = 0
      BY <1>26, <2>2 DEF CommandKills, LiveIsRunning
    <2> QED
      BY <2>1, <2>2
  <1>27. ASSUME NEW c \in Caller, CallDropped(c) PROVE LiveIsRunning'
    BY <1>27, <1>0, Apart, LiveKept DEF CallDropped, Return, Goto, Tasks,
           Task, process, pipes, flags, Alive
  <1>28. ASSUME NEW c \in Caller, CheckPasses(c) PROVE LiveIsRunning'
    BY <1>28, <1>0, Apart, LiveKept DEF CheckPasses, Return, Goto, Tasks,
           Task, process, pipes, flags, Alive
  <1>29. ASSUME NEW c \in Caller, CheckFindsExit(c) PROVE LiveIsRunning'
    BY <1>29 DEF CheckFindsExit, KillInternal, Terminate, LiveIsRunning
  <1>30. ASSUME NEW c \in Caller, CheckFindsOverrun(c) PROVE LiveIsRunning'
    BY <1>30, <1>0, Apart, LiveKept DEF CheckFindsOverrun, Return, Goto,
           Tasks, Task, process, pipes, flags, Alive
  <1>31. ASSUME NEW c \in Caller, OverrunKills(c) PROVE LiveIsRunning'
    BY <1>31 DEF OverrunKills, KillInternal, Terminate, LiveIsRunning
  <1>32. ASSUME ProbeEnds PROVE LiveIsRunning'
    BY <1>32, <1>0, LiveKept DEF ProbeEnds, ProbeFailed, Goto, Tasks, Task,
           process, pipes, flags, Alive
  <1>33. ASSUME ProbeSkips PROVE LiveIsRunning'
    BY <1>33, <1>0, LiveKept DEF ProbeSkips, ProbeFailed, Goto, Tasks, Task,
           process, pipes, flags, Alive
  <1>34. ASSUME ProbeSend PROVE LiveIsRunning'
    BY <1>34, <1>0, LiveKept DEF ProbeSend, ProbeFailed, Goto, Tasks, Task,
           process, pipes, flags, Alive
  <1>35. ASSUME ProbeAnswered PROVE LiveIsRunning'
    BY <1>35, <1>0, LiveKept DEF ProbeAnswered, ProbeFailed, Goto, Tasks,
           Task, process, pipes, flags, Alive
  <1>36. ASSUME ProbeTimeout PROVE LiveIsRunning'
    BY <1>36, <1>0, LiveKept DEF ProbeTimeout, ProbeFailed, Goto, Tasks,
           Task, process, pipes, flags, Alive
  <1>37. ASSUME ProbeKills PROVE LiveIsRunning'
    <2>1. CASE handle # 0
      BY <1>37, <2>1 DEF ProbeKills, KillInternal, Terminate, LiveIsRunning
    <2>2. CASE handle = 0
      BY <1>37, <2>2 DEF ProbeKills, LiveIsRunning
    <2> QED
      BY <2>1, <2>2
  <1>38. CASE UNCHANGED vars
    BY <1>38, <1>0, LiveKept DEF vars, process, pipes, flags, Alive
  <1> QED
    BY <1>1, <1>2, <1>3, <1>4, <1>5, <1>6, <1>7, <1>8, <1>9, <1>10, <1>11,
       <1>12, <1>13, <1>14, <1>15, <1>16, <1>17, <1>18, <1>19, <1>20, <1>21,
       <1>22, <1>23, <1>24, <1>25, <1>26, <1>27, <1>28, <1>29, <1>30, <1>31,
       <1>32, <1>33, <1>34, <1>35, <1>36, <1>37, <1>38
       DEF Next,
           Receiver, Owner, Start, CallBody, Probe, Starter

-----------------------------------------------------------------------------
(* The table of requests in flight *)

\* An entry of a call is that of a waiting one, or one of the known leaks.
Owned(c) ==
    c \in pending =>
        \/ pc[c] \in {"send", "wait"}
        \/ /\ pc[c] = "done"
           /\ \/ res[c] \in {"send_error", "dropped"}
              \/ res[c] = "timeout" /\ Kind(c) \in Forgetful
\* The entry of a health check is that of the one under way.
PingOwned == Ping \in pending => pc["monitor"] \in {"send", "wait"}

\* TableOwned, call by call.
LEMMA OwnedOne ==
    /\ TableOwned => PingOwned /\ \A c \in Caller : Owned(c)
    /\ PingOwned' /\ (\A c \in Caller : Owned(c)') => TableOwned'
  <1>1. TableOwned => PingOwned /\ \A c \in Caller : Owned(c)
    BY DEF TableOwned, Waiting, Leaked, Owned, PingOwned
  <1>2. PingOwned' /\ (\A c \in Caller : Owned(c)') => TableOwned'
    BY DEF TableOwned, Waiting, Leaked, Owned, PingOwned
  <1> QED
    BY <1>1, <1>2

\* A step of anybody but a call adds no entry of one.
LEMMA OwnedByOthers ==
    ASSUME TableOwned, UNCHANGED <<scene, res>>, PingOwned',
           \A c \in Caller : /\ c \in pending' => c \in pending
                             /\ pc'[c] = pc[c]
    PROVE  TableOwned'
  BY OwnedOne DEF Owned, Kind

\* A step of a call touches its own entry.
LEMMA OwnedByCaller ==
    ASSUME Tasks, TableOwned, NEW c \in Caller, NEW l, Goto(c, l),
           UNCHANGED scene, Owned(c)', Ping \in pending' => Ping \in pending,
           \A d \in Caller : d # c => /\ d \in pending' => d \in pending
                                      /\ res'[d] = res[d]
    PROVE  TableOwned'
  <1>1. /\ \A d \in Caller : d # c => pc'[d] = pc[d]
        /\ pc'["monitor"] = pc["monitor"]
    BY Apart DEF Goto, Tasks, Task
  <1>2. PingOwned'
    BY <1>1, OwnedOne DEF PingOwned
  <1>3. ASSUME NEW d \in Caller PROVE Owned(d)'
    <2>1. CASE d = c
      BY <2>1
    <2>2. CASE d # c
      BY <1>1, <2>2, OwnedOne DEF Owned, Kind
    <2> QED
      BY <2>1, <2>2
  <1> QED
    BY <1>2, <1>3, OwnedOne

\* Every step keeps it.
LEMMA OwnedStep ==
    ASSUME Types, TableOwned, [Next]_vars
    PROVE  TableOwned'
  <1>0. /\ TableOwned /\ PingOwned /\ (\A c \in Caller : Owned(c))
        /\ Tasks /\ Rest
    BY OwnedOne DEF Types
  <1>1. ASSUME NEW e \in Epoch, RunnerHandle(e) PROVE TableOwned'
    BY <1>1, <1>0, OwnedByOthers DEF RunnerHandle, table, PingOwned
  <1>2. ASSUME NEW e \in Epoch, RunnerHangs(e) PROVE TableOwned'
    BY <1>2, <1>0, OwnedByOthers DEF RunnerHangs, table, PingOwned
  <1>3. ASSUME NEW e \in Epoch, RunnerDies(e) PROVE TableOwned'
    BY <1>3, <1>0, OwnedByOthers DEF RunnerDies, table, PingOwned
  <1>4. ASSUME NEW e \in Epoch, ReceiverQuits(e) PROVE TableOwned'
    BY <1>4, <1>0, OwnedByOthers DEF ReceiverQuits, table, PingOwned
  <1>5. ASSUME NEW e \in Epoch, ReceiverRoute(e) PROVE TableOwned'
    <2>1. pending' \subseteq pending /\ UNCHANGED <<pc, res, scene>>
      BY <1>5 DEF ReceiverRoute, Complete, table
    <2> QED
      BY <1>0, <2>1, OwnedByOthers DEF PingOwned
  <1>6. ASSUME NEW e \in Epoch, ReceiverEof(e) PROVE TableOwned'
    BY <1>6, <1>0, OwnedByOthers DEF ReceiverEof, table, PingOwned
  <1>7. ASSUME NEW e \in Epoch, ReceiverExit(e) PROVE TableOwned'
    BY <1>7, <1>0, OwnedByOthers DEF ReceiverExit, CancelAll, PingOwned
  <1>8. ASSUME NEW t \in Starter, Spawn(t) PROVE TableOwned'
    <2>1. pending' \subseteq pending \cup {Zero} /\ UNCHANGED scene
      BY <1>8 DEF Spawn, table
    <2>2. CASE t = "owner"
      <3>1. /\ pc'["monitor"] = pc["monitor"] /\ UNCHANGED res
            /\ \A c \in Caller : pc'[c] = pc[c]
        BY <1>8, <1>0, <2>2, Apart DEF Spawn, Goto, Tasks, Task
      <3> QED
        BY <1>0, <2>1, <3>1, Apart, OwnedByOthers DEF PingOwned, Zero, Ping
    <2>3. CASE t # "owner"
      <3>1. t \in Caller /\ t \notin pending
        BY <1>8, <1>0, <2>3 DEF Spawn, Starter, Owned
      <3>2. PICK l : Goto(t, l)
        BY <1>8, <2>3 DEF Spawn
      <3>3. \A d \in Caller : d # t => res'[d] = res[d]
        BY <1>8, <1>0, <2>3 DEF Spawn, Rest
      <3>4. t \notin pending' /\ (Ping \in pending' => Ping \in pending)
            /\ \A d \in Caller : d \in pending' => d \in pending
        BY <2>1, <3>1, Apart DEF Zero, Ping
      <3>5. Owned(t)'
        BY <3>4 DEF Owned
      <3> QED
        BY <1>0, <2>1, <3>1, <3>2, <3>3, <3>4, <3>5, OwnedByCaller
    <2> QED
      BY <2>2, <2>3
  <1>9. ASSUME NEW t \in Starter, SpawnFails(t) PROVE TableOwned'
    <2>1. pending' \subseteq pending \cup {Zero} /\ UNCHANGED scene
      BY <1>9 DEF SpawnFails, table
    <2>2. CASE t = "owner"
      <3>1. /\ pc'["monitor"] = pc["monitor"] /\ UNCHANGED res
            /\ \A c \in Caller : pc'[c] = pc[c]
        BY <1>9, <1>0, <2>2, Apart DEF SpawnFails, StartFailed, Goto, Tasks,
               Task
      <3> QED
        BY <1>0, <2>1, <3>1, Apart, OwnedByOthers DEF PingOwned, Zero, Ping
    <2>3. CASE t # "owner"
      <3>1. t \in Caller /\ t \notin pending
        BY <1>9, <1>0, <2>3 DEF SpawnFails, Starter, Owned
      <3>2. PICK l : Goto(t, l)
        BY <1>9, <2>3 DEF SpawnFails, StartFailed
      <3>3. \A d \in Caller : d # t => res'[d] = res[d]
        BY <1>9, <1>0, <2>3 DEF SpawnFails, StartFailed, Rest
      <3>4. t \notin pending' /\ (Ping \in pending' => Ping \in pending)
            /\ \A d \in Caller : d \in pending' => d \in pending
        BY <2>1, <3>1, Apart DEF Zero, Ping
      <3>5. Owned(t)'
        BY <3>4 DEF Owned
      <3> QED
        BY <1>0, <2>1, <3>1, <3>2, <3>3, <3>4, <3>5, OwnedByCaller
    <2> QED
      BY <2>2, <2>3
  <1>10. ASSUME NEW t \in Starter, SendInit(t) PROVE TableOwned'
    <2>1. pending' \subseteq pending \cup {Zero} /\ UNCHANGED scene
      BY <1>10 DEF SendInit, Register
    <2>2. CASE t = "owner"
      <3>1. /\ pc'["monitor"] = pc["monitor"] /\ UNCHANGED res
            /\ \A c \in Caller : pc'[c] = pc[c]
        BY <1>10, <1>0, <2>2, Apart DEF SendInit, StartFailed, Goto, Tasks,
               Task
      <3> QED
        BY <1>0, <2>1, <3>1, Apart, OwnedByOthers DEF PingOwned, Zero, Ping
    <2>3. CASE t # "owner"
      <3>1. t \in Caller /\ t \notin pending
        BY <1>10, <1>0, <2>3 DEF SendInit, Starter, Owned
      <3>2. PICK l : Goto(t, l)
        BY <1>10, <2>3 DEF SendInit, StartFailed
      <3>3. \A d \in Caller : d # t => res'[d] = res[d]
        BY <1>10, <1>0, <2>3 DEF SendInit, StartFailed, Rest
      <3>4. t \notin pending' /\ (Ping \in pending' => Ping \in pending)
            /\ \A d \in Caller : d \in pending' => d \in pending
        BY <2>1, <3>1, Apart DEF Zero, Ping
      <3>5. Owned(t)'
        BY <3>4 DEF Owned
      <3> QED
        BY <1>0, <2>1, <3>1, <3>2, <3>3, <3>4, <3>5, OwnedByCaller
    <2> QED
      BY <2>2, <2>3
  <1>11. ASSUME NEW t \in Starter, Ready(t) PROVE TableOwned'
    <2>1. pending' \subseteq pending \cup {Zero} /\ UNCHANGED scene
      BY <1>11 DEF Ready, Cancel
    <2>2. CASE t = "owner"
      <3>1. /\ pc'["monitor"] = pc["monitor"] /\ UNCHANGED res
            /\ \A c \in Caller : pc'[c] = pc[c]
        BY <1>11, <1>0, <2>2, Apart DEF Ready, Goto, Tasks, Task
      <3> QED
        BY <1>0, <2>1, <3>1, Apart, OwnedByOthers DEF PingOwned, Zero, Ping
    <2>3. CASE t # "owner"
      <3>1. t \in Caller /\ t \notin pending
        BY <1>11, <1>0, <2>3 DEF Ready, Starter, Owned
      <3>2. PICK l : Goto(t, l)
        BY <1>11, <2>3 DEF Ready
      <3>3. \A d \in Caller : d # t => res'[d] = res[d]
        BY <1>11, <1>0, <2>3 DEF Ready, Rest
      <3>4. t \notin pending' /\ (Ping \in pending' => Ping \in pending)
            /\ \A d \in Caller : d \in pending' => d \in pending
        BY <2>1, <3>1, Apart DEF Zero, Ping
      <3>5. Owned(t)'
        BY <3>4 DEF Owned
      <3> QED
        BY <1>0, <2>1, <3>1, <3>2, <3>3, <3>4, <3>5, OwnedByCaller
    <2> QED
      BY <2>2, <2>3
  <1>12. ASSUME NEW t \in Starter, Refused(t) PROVE TableOwned'
    <2>1. pending' \subseteq pending \cup {Zero} /\ UNCHANGED scene
      BY <1>12 DEF Refused, KillInternal, CancelAll
    <2>2. CASE t = "owner"
      <3>1. /\ pc'["monitor"] = pc["monitor"] /\ UNCHANGED res
            /\ \A c \in Caller : pc'[c] = pc[c]
        BY <1>12, <1>0, <2>2, Apart DEF Refused, StartFailed, Goto, Tasks, Task
      <3> QED
        BY <1>0, <2>1, <3>1, Apart, OwnedByOthers DEF PingOwned, Zero, Ping
    <2>3. CASE t # "owner"
      <3>1. t \in Caller /\ t \notin pending
        BY <1>12, <1>0, <2>3 DEF Refused, Starter, Owned
      <3>2. PICK l : Goto(t, l)
        BY <1>12, <2>3 DEF Refused, StartFailed
      <3>3. \A d \in Caller : d # t => res'[d] = res[d]
        BY <1>12, <1>0, <2>3 DEF Refused, StartFailed, Rest
      <3>4. t \notin pending' /\ (Ping \in pending' => Ping \in pending)
            /\ \A d \in Caller : d \in pending' => d \in pending
        BY <2>1, <3>1, Apart DEF Zero, Ping
      <3>5. Owned(t)'
        BY <3>4 DEF Owned
      <3> QED
        BY <1>0, <2>1, <3>1, <3>2, <3>3, <3>4, <3>5, OwnedByCaller
    <2> QED
      BY <2>2, <2>3
  <1>13. ASSUME NEW t \in Starter, StartTimeout(t) PROVE TableOwned'
    <2>1. pending' \subseteq pending \cup {Zero} /\ UNCHANGED scene
      BY <1>13 DEF StartTimeout, Cancel
    <2>2. CASE t = "owner"
      <3>1. /\ pc'["monitor"] = pc["monitor"] /\ UNCHANGED res
            /\ \A c \in Caller : pc'[c] = pc[c]
        BY <1>13, <1>0, <2>2, Apart DEF StartTimeout, StartFailed, Goto, Tasks,
               Task
      <3> QED
        BY <1>0, <2>1, <3>1, Apart, OwnedByOthers DEF PingOwned, Zero, Ping
    <2>3. CASE t # "owner"
      <3>1. t \in Caller /\ t \notin pending
        BY <1>13, <1>0, <2>3 DEF StartTimeout, Starter, Owned
      <3>2. PICK l : Goto(t, l)
        BY <1>13, <2>3 DEF StartTimeout, StartFailed
      <3>3. \A d \in Caller : d # t => res'[d] = res[d]
        BY <1>13, <1>0, <2>3 DEF StartTimeout, StartFailed, Rest
      <3>4. t \notin pending' /\ (Ping \in pending' => Ping \in pending)
            /\ \A d \in Caller : d \in pending' => d \in pending
        BY <2>1, <3>1, Apart DEF Zero, Ping
      <3>5. Owned(t)'
        BY <3>4 DEF Owned
      <3> QED
        BY <1>0, <2>1, <3>1, <3>2, <3>3, <3>4, <3>5, OwnedByCaller
    <2> QED
      BY <2>2, <2>3
  <1>14. ASSUME Publish PROVE TableOwned'
    BY <1>14, <1>0, Apart, OwnedByOthers DEF Publish, Goto, Tasks, Task,
           table, PingOwned
  <1>15. ASSUME DropObject PROVE TableOwned'
    BY <1>15, <1>0, Apart, OwnedByOthers DEF DropObject, Goto, Tasks, Task,
           table, PingOwned
  <1>16. ASSUME DropKills PROVE TableOwned'
    BY <1>16, <1>0, Apart, OwnedByOthers DEF DropKills, Goto, Tasks, Task,
           table, PingOwned
  <1>17. ASSUME MarkStopping PROVE TableOwned'
    BY <1>17, <1>0, Apart, OwnedByOthers DEF MarkStopping, Goto, Tasks, Task,
           table, PingOwned
  <1>18. ASSUME StopLock PROVE TableOwned'
    <2>1. /\ pc'["monitor"] = pc["monitor"] /\ UNCHANGED <<scene, res>>
          /\ \A c \in Caller : pc'[c] = pc[c]
      BY <1>18, <1>0, Apart DEF StopLock, Goto, Tasks, Task
    <2>2. pending' \subseteq pending \cup {Zero}
      BY <1>18 DEF StopLock, Register, table
    <2> QED
      BY <1>0, <2>1, <2>2, Apart, OwnedByOthers DEF PingOwned, Zero, Ping
  <1>19. ASSUME StopSend PROVE TableOwned'
    BY <1>19, <1>0, Apart, OwnedByOthers DEF StopSend, Goto, Tasks, Task,
           table, PingOwned
  <1>20. ASSUME StopKill PROVE TableOwned'
    BY <1>20, <1>0, Apart, OwnedByOthers DEF StopKill, Goto, Tasks, Task,
           CancelAll, PingOwned
  <1>21. ASSUME NEW c \in Caller, Enter(c) PROVE TableOwned'
    <2>1. c \notin pending
      BY <1>21, <1>0 DEF Enter, Owned
    <2>2. pending' \subseteq pending /\ UNCHANGED scene
      BY <1>21 DEF Enter, table
    <2>3. PICK l : Goto(c, l)
      BY <1>21 DEF Enter, Return
    <2>4. Owned(c)' /\ \A d \in Caller : d # c => res'[d] = res[d]
      BY <1>21, <1>0, <2>1, <2>2 DEF Enter, Return, Rest, Owned
    <2> QED
      BY <1>0, <2>2, <2>3, <2>4, OwnedByCaller
  <1>22. ASSUME NEW c \in Caller, CountBatch(c) PROVE TableOwned'
    <2>1. c \notin pending
      BY <1>22, <1>0 DEF CountBatch, Owned
    <2>2. pending' \subseteq pending /\ UNCHANGED scene
      BY <1>22 DEF CountBatch, table
    <2>3. PICK l : Goto(c, l)
      BY <1>22 DEF CountBatch, Return
    <2>4. Owned(c)' /\ \A d \in Caller : d # c => res'[d] = res[d]
      BY <1>22, <1>0, <2>1, <2>2 DEF CountBatch, Return, Rest, Owned
    <2> QED
      BY <1>0, <2>2, <2>3, <2>4, OwnedByCaller
  <1>23. ASSUME NEW c \in Caller, SendCall(c) PROVE TableOwned'
    <2>1. /\ pending' \subseteq pending \cup {c} /\ UNCHANGED scene
          /\ Ping \in pending' => Ping \in pending
      BY <1>23, Apart DEF SendCall, Register, table
    <2>2. PICK l \in {"wait", "done", "send"} :
              Goto(c, l) /\ (l = "done" => Return(c, "send_error"))
      BY <1>23 DEF SendCall, Return
    <2>3. Owned(c)'
      BY <1>0, <2>2 DEF Return, Goto, Tasks, Task, Rest, Owned
    <2>4. \A d \in Caller : d # c => res'[d] = res[d]
      BY <1>23, <1>0 DEF SendCall, Return, Rest
    <2> QED
      BY <1>0, <2>1, <2>2, <2>3, <2>4, OwnedByCaller
  <1>24. ASSUME NEW c \in Caller, Receive(c) PROVE TableOwned'
    <2>1. c \notin pending' /\ pending' \subseteq pending /\ UNCHANGED scene
      BY <1>24 DEF Receive, Cancel
    <2>2. Owned(c)' /\ \A d \in Caller : d # c => res'[d] = res[d]
      BY <1>24, <1>0, <2>1 DEF Receive, Return, Rest, Owned
    <2> QED
      BY <1>24, <1>0, <2>1, <2>2, OwnedByCaller DEF Receive, Return
  <1>25. ASSUME NEW c \in Caller, CallTimeout(c) PROVE TableOwned'
    <2>1. pending' \subseteq pending /\ UNCHANGED scene
      BY <1>25 DEF CallTimeout, Cancel
    <2>2. PICK l : Goto(c, l)
      BY <1>25 DEF CallTimeout, Return
    <2>3. \A d \in Caller : d # c => res'[d] = res[d]
      BY <1>25, <1>0 DEF CallTimeout, Return, Rest
    <2>4. Owned(c)'
      <3>1. CASE Kind(c) \in Forgetful
        BY <1>25, <1>0, <3>1
           DEF CallTimeout, Return, Goto, Tasks, Task, Rest, Owned, Kind, Forgetful
      <3>2. CASE Kind(c) \notin Forgetful
        BY <1>25, <3>2 DEF CallTimeout, Cancel, Owned
      <3> QED
        BY <3>1, <3>2
    <2> QED
      BY <1>0, <2>1, <2>2, <2>3, <2>4, OwnedByCaller
  <1>26. ASSUME NEW c \in Caller, CommandKills(c) PROVE TableOwned'
    <2>1. c \notin pending
      BY <1>26, <1>0 DEF CommandKills, Owned
    <2>2. pending' \subseteq pending /\ UNCHANGED scene
      BY <1>26 DEF CommandKills, KillInternal, CancelAll, table
    <2>3. PICK l : Goto(c, l)
      BY <1>26 DEF CommandKills, Return
    <2>4. Owned(c)' /\ \A d \in Caller : d # c => res'[d] = res[d]
      BY <1>26, <1>0, <2>1, <2>2 DEF CommandKills, Return, Rest, Owned
    <2> QED
      BY <1>0, <2>2, <2>3, <2>4, OwnedByCaller
  <1>27. ASSUME NEW c \in Caller, CallDropped(c) PROVE TableOwned'
    <2>1. pending' \subseteq pending /\ UNCHANGED scene
      BY <1>27 DEF CallDropped
    <2>2. Owned(c)' /\ \A d \in Caller : d # c => res'[d] = res[d]
      BY <1>27, <1>0 DEF CallDropped, Return, Goto, Tasks, Task, Rest, Owned
    <2> QED
      BY <1>27, <1>0, <2>1, <2>2, OwnedByCaller DEF CallDropped, Return
  <1>28. ASSUME NEW c \in Caller, CheckPasses(c) PROVE TableOwned'
    <2>1. c \notin pending
      BY <1>28, <1>0 DEF CheckPasses, Owned
    <2>2. pending' \subseteq pending /\ UNCHANGED scene
      BY <1>28 DEF CheckPasses, table
    <2>3. PICK l : Goto(c, l)
      BY <1>28 DEF CheckPasses, Return
    <2>4. Owned(c)' /\ \A d \in Caller : d # c => res'[d] = res[d]
      BY <1>28, <1>0, <2>1, <2>2 DEF CheckPasses, Return, Rest, Owned
    <2> QED
      BY <1>0, <2>2, <2>3, <2>4, OwnedByCaller
  <1>29. ASSUME NEW c \in Caller, CheckFindsExit(c) PROVE TableOwned'
    <2>1. c \notin pending
      BY <1>29, <1>0 DEF CheckFindsExit, Owned
    <2>2. pending' \subseteq pending /\ UNCHANGED scene
      BY <1>29 DEF CheckFindsExit, KillInternal, CancelAll
    <2>3. PICK l : Goto(c, l)
      BY <1>29 DEF CheckFindsExit, Return
    <2>4. Owned(c)' /\ \A d \in Caller : d # c => res'[d] = res[d]
      BY <1>29, <1>0, <2>1, <2>2 DEF CheckFindsExit, Return, Rest, Owned
    <2> QED
      BY <1>0, <2>2, <2>3, <2>4, OwnedByCaller
  <1>30. ASSUME NEW c \in Caller, CheckFindsOverrun(c) PROVE TableOwned'
    <2>1. c \notin pending
      BY <1>30, <1>0 DEF CheckFindsOverrun, Owned
    <2>2. pending' \subseteq pending /\ UNCHANGED scene
      BY <1>30 DEF CheckFindsOverrun, table
    <2>3. PICK l : Goto(c, l)
      BY <1>30 DEF CheckFindsOverrun, Return
    <2>4. Owned(c)' /\ \A d \in Caller : d # c => res'[d] = res[d]
      BY <1>30, <1>0, <2>1, <2>2 DEF CheckFindsOverrun, Return, Rest, Owned
    <2> QED
      BY <1>0, <2>2, <2>3, <2>4, OwnedByCaller
  <1>31. ASSUME NEW c \in Caller, OverrunKills(c) PROVE TableOwned'
    <2>1. c \notin pending
      BY <1>31, <1>0 DEF OverrunKills, Owned
    <2>2. pending' \subseteq pending /\ UNCHANGED scene
      BY <1>31 DEF OverrunKills, KillInternal, CancelAll
    <2>3. PICK l : Goto(c, l)
      BY <1>31 DEF OverrunKills, Return
    <2>4. Owned(c)' /\ \A d \in Caller : d # c => res'[d] = res[d]
      BY <1>31, <1>0, <2>1, <2>2 DEF OverrunKills, Return, Rest, Owned
    <2> QED
      BY <1>0, <2>2, <2>3, <2>4, OwnedByCaller
  <1>32. ASSUME ProbeEnds PROVE TableOwned'
    <2>1. Ping \notin pending
      BY <1>32, <1>0 DEF ProbeEnds, PingOwned
    <2> QED
      BY <1>32, <1>0, <2>1, Apart, OwnedByOthers
         DEF ProbeEnds, Goto, Tasks, Task, table, PingOwned
  <1>33. ASSUME ProbeSkips PROVE TableOwned'
    BY <1>33, <1>0, OwnedByOthers DEF ProbeSkips, table, PingOwned
  <1>34. ASSUME ProbeSend PROVE TableOwned'
    <2>1. /\ UNCHANGED <<scene, res>>
          /\ \A c \in Caller : pc'[c] = pc[c]
      BY <1>34, <1>0, Apart DEF ProbeSend, ProbeFailed, Goto, Tasks, Task
    <2>2. pending' \subseteq pending \cup {Ping}
      BY <1>34 DEF ProbeSend, Register, Cancel
    <2>3. PingOwned'
      <3>1. CASE Cancel(Ping)
        BY <3>1 DEF Cancel, PingOwned
      <3>2. ASSUME NEW l \in {"send", "wait"}, Goto("monitor", l)
            PROVE  PingOwned'
        BY <1>0, <3>2 DEF Goto, Tasks, Task, PingOwned
      <3> QED
        BY <1>34, <3>1, <3>2 DEF ProbeSend
    <2> QED
      BY <1>0, <2>1, <2>2, <2>3, Apart, OwnedByOthers
  <1>35. ASSUME ProbeAnswered PROVE TableOwned'
    BY <1>35, <1>0, Apart, OwnedByOthers DEF ProbeAnswered, Goto, Tasks,
           Task, Cancel, PingOwned
  <1>36. ASSUME ProbeTimeout PROVE TableOwned'
    BY <1>36, <1>0, Apart, OwnedByOthers DEF ProbeTimeout, Goto, Tasks, Task,
           ProbeFailed, Cancel, PingOwned
  <1>37. ASSUME ProbeKills PROVE TableOwned'
    <2>1. Ping \notin pending
      BY <1>37, <1>0 DEF ProbeKills, PingOwned
    <2>2. pending' \subseteq pending
      BY <1>37 DEF ProbeKills, KillInternal, CancelAll, table
    <2> QED
      BY <1>37, <1>0, <2>1, <2>2, Apart, OwnedByOthers
         DEF ProbeKills, Goto, Tasks, Task, PingOwned
  <1>38. CASE UNCHANGED vars
    BY <1>38, <1>0, OwnedByOthers DEF vars, table, PingOwned
  <1> QED
    BY <1>1, <1>2, <1>3, <1>4, <1>5, <1>6, <1>7, <1>8, <1>9, <1>10, <1>11,
       <1>12, <1>13, <1>14, <1>15, <1>16, <1>17, <1>18, <1>19, <1>20, <1>21,
       <1>22, <1>23, <1>24, <1>25, <1>26, <1>27, <1>28, <1>29, <1>30, <1>31,
       <1>32, <1>33, <1>34, <1>35, <1>36, <1>37, <1>38
       DEF Next,
           Receiver, Owner, Start, CallBody, Probe, Starter

-----------------------------------------------------------------------------
(* active_requests *)

\* Where a call of a counted kind is counted.
Counts == {"register", "send", "wait", "kill"}

\* The sets of the calls inside are finite.
LEMMA InsideFinite ==
    ASSUME NEW k
    PROVE  /\ IsFiniteSet(Inside(k)) /\ Cardinality(Inside(k)) \in Nat
           /\ Inside(k) \subseteq Caller
  <1>1. Inside(k) \subseteq Caller
    BY DEF Inside
  <1>2. IsFiniteSet(Inside(k))
    BY <1>1, ProcessAssumption, FS_Subset
  <1> QED
    BY <1>1, <1>2, FS_CardinalityType

\* Nobody enters or leaves.
LEMMA CountSame ==
    ASSUME Counting, UNCHANGED <<scene, active>>,
           \A c \in Caller : \/ Kind(c) \notin Counted
                             \/ pc'[c] \in Counts <=> pc[c] \in Counts
    PROVE  Counting'
  <1>1. Inside("command")' = Inside("command")
    BY DEF Inside, Kind, Counted, Counts
  <1>2. Inside("batch")' = Inside("batch")
    BY DEF Inside, Kind, Counted, Counts
  <1> QED
    BY <1>1, <1>2 DEF Counting

\* One call enters, a command below the limit.
LEMMA CountIn ==
    ASSUME Counting, NEW c \in Caller, Kind(c) \in Counted,
           pc[c] \notin Counts, pc'[c] \in Counts,
           \A d \in Caller : d # c => pc'[d] = pc[d],
           UNCHANGED scene, active' = active + 1,
           Kind(c) = "command" /\ Limit > 0 => active < Limit
    PROVE  Counting'
  <1>1. /\ Limit \in Nat
        /\ Cardinality(Inside("command")) \in Nat
        /\ Cardinality(Inside("batch")) \in Nat
        /\ IsFiniteSet(Inside("command")) /\ IsFiniteSet(Inside("batch"))
    BY InsideFinite, ProcessAssumption
  <1>2. CASE Kind(c) = "command"
    <2>1. /\ Inside("command")' = Inside("command") \cup {c}
          /\ Inside("batch")' = Inside("batch") /\ c \notin Inside("command")
      BY <1>2 DEF Inside, Kind, Counts
    <2>2. Cardinality(Inside("command") \cup {c})
              = Cardinality(Inside("command")) + 1
      BY <1>1, <2>1, FS_AddElement
    <2> QED
      BY <1>1, <1>2, <2>1, <2>2 DEF Counting
  <1>3. CASE Kind(c) = "batch"
    <2>1. /\ Inside("batch")' = Inside("batch") \cup {c}
          /\ Inside("command")' = Inside("command") /\ c \notin Inside("batch")
      BY <1>3 DEF Inside, Kind, Counts
    <2>2. Cardinality(Inside("batch") \cup {c})
              = Cardinality(Inside("batch")) + 1
      BY <1>1, <2>1, FS_AddElement
    <2>3. /\ Cardinality(Inside("batch"))' = Cardinality(Inside("batch")) + 1
          /\ Cardinality(Inside("command"))' = Cardinality(Inside("command"))
      BY <2>1, <2>2
    <2>4. /\ active = Cardinality(Inside("command"))
                         + Cardinality(Inside("batch"))
          /\ Limit > 0 => Cardinality(Inside("command")) <= Limit
      BY DEF Counting
    <2>5. /\ active' = Cardinality(Inside("command"))'
                         + Cardinality(Inside("batch"))'
          /\ Limit > 0 => Cardinality(Inside("command"))' <= Limit
      BY <1>1, <2>3, <2>4
    <2> QED
      BY <2>5 DEF Counting
  <1> QED
    BY <1>2, <1>3 DEF Counted

\* One call leaves.
LEMMA CountOut ==
    ASSUME Counting, NEW c \in Caller, Kind(c) \in Counted,
           pc[c] \in Counts, pc'[c] \notin Counts,
           \A d \in Caller : d # c => pc'[d] = pc[d],
           UNCHANGED scene, active' = active - 1
    PROVE  Counting'
  <1>1. /\ Limit \in Nat
        /\ Cardinality(Inside("command")) \in Nat
        /\ Cardinality(Inside("batch")) \in Nat
        /\ IsFiniteSet(Inside("command")) /\ IsFiniteSet(Inside("batch"))
    BY InsideFinite, ProcessAssumption
  <1>2. CASE Kind(c) = "command"
    <2>1. /\ Inside("command")' = Inside("command") \ {c}
          /\ Inside("batch")' = Inside("batch") /\ c \in Inside("command")
      BY <1>2 DEF Inside, Kind, Counts
    <2>2. Cardinality(Inside("command") \ {c})
              = Cardinality(Inside("command")) - 1
      BY <1>1, <2>1, FS_RemoveElement
    <2>3. /\ Cardinality(Inside("command"))' = Cardinality(Inside("command")) - 1
          /\ Cardinality(Inside("batch"))' = Cardinality(Inside("batch"))
      BY <2>1, <2>2
    <2>4. /\ active = Cardinality(Inside("command"))
                         + Cardinality(Inside("batch"))
          /\ Limit > 0 => Cardinality(Inside("command")) <= Limit
      BY DEF Counting
    <2>5. /\ active' = Cardinality(Inside("command"))'
                         + Cardinality(Inside("batch"))'
          /\ Limit > 0 => Cardinality(Inside("command"))' <= Limit
      BY <1>1, <2>3, <2>4
    <2> QED
      BY <2>5 DEF Counting
  <1>3. CASE Kind(c) = "batch"
    <2>1. /\ Inside("batch")' = Inside("batch") \ {c}
          /\ Inside("command")' = Inside("command") /\ c \in Inside("batch")
      BY <1>3 DEF Inside, Kind, Counts
    <2>2. Cardinality(Inside("batch") \ {c})
              = Cardinality(Inside("batch")) - 1
      BY <1>1, <2>1, FS_RemoveElement
    <2>3. /\ Cardinality(Inside("batch"))' = Cardinality(Inside("batch")) - 1
          /\ Cardinality(Inside("command"))' = Cardinality(Inside("command"))
      BY <2>1, <2>2
    <2>4. /\ active = Cardinality(Inside("command"))
                         + Cardinality(Inside("batch"))
          /\ Limit > 0 => Cardinality(Inside("command")) <= Limit
      BY DEF Counting
    <2>5. /\ active' = Cardinality(Inside("command"))'
                         + Cardinality(Inside("batch"))'
          /\ Limit > 0 => Cardinality(Inside("command"))' <= Limit
      BY <1>1, <2>3, <2>4
    <2> QED
      BY <2>5 DEF Counting
  <1> QED
    BY <1>2, <1>3 DEF Counted

\* A call that ends gives its place back, if its kind has one.
LEMMA CountEnds ==
    ASSUME Tasks, Counting, NEW c \in Caller, pc[c] \in Counts,
           NEW r, Return(c, r), Uncount(c), UNCHANGED scene
    PROVE  Counting'
  <1>1. pc'[c] = "done" /\ \A d \in Caller : d # c => pc'[d] = pc[d]
    BY DEF Return, Goto, Tasks, Task
  <1>2. Counting => active \in Int
    BY InsideFinite DEF Counting
  <1>3. CASE Kind(c) \in Counted
    BY <1>1, <1>3, CountOut DEF Uncount, Counts
  <1>4. CASE Kind(c) \notin Counted
    BY <1>1, <1>2, <1>4, CountSame DEF Uncount
  <1> QED
    BY <1>3, <1>4

\* Every step keeps the count.
LEMMA CountStep ==
    ASSUME Types, Counting, [Next]_vars
    PROVE  Counting'
  <1>0. Tasks /\ Counting
    BY DEF Types
  <1>1. ASSUME NEW e \in Epoch, RunnerHandle(e) PROVE Counting'
    BY <1>1, <1>0, CountSame DEF RunnerHandle, counters
  <1>2. ASSUME NEW e \in Epoch, RunnerHangs(e) PROVE Counting'
    BY <1>2, <1>0, CountSame DEF RunnerHangs, counters
  <1>3. ASSUME NEW e \in Epoch, RunnerDies(e) PROVE Counting'
    BY <1>3, <1>0, CountSame DEF RunnerDies, counters
  <1>4. ASSUME NEW e \in Epoch, ReceiverQuits(e) PROVE Counting'
    BY <1>4, <1>0, CountSame DEF ReceiverQuits, counters
  <1>5. ASSUME NEW e \in Epoch, ReceiverRoute(e) PROVE Counting'
    BY <1>5, <1>0, CountSame DEF ReceiverRoute, counters
  <1>6. ASSUME NEW e \in Epoch, ReceiverEof(e) PROVE Counting'
    BY <1>6, <1>0, CountSame DEF ReceiverEof, counters
  <1>7. ASSUME NEW e \in Epoch, ReceiverExit(e) PROVE Counting'
    BY <1>7, <1>0, CountSame DEF ReceiverExit, counters
  <1>8. ASSUME NEW t \in Starter, Spawn(t) PROVE Counting'
    <2>1. UNCHANGED <<scene, active>> /\ pc[t] \in {"spawn", "init", "ready"}
      BY <1>8 DEF Spawn, counters
    <2>2. \A d \in Caller : d # t => pc'[d] = pc[d]
      BY <1>8, <1>0, Apart DEF Spawn, Starter, Goto, Tasks, Task
    <2>3. t \in Caller => Kind(t) \notin Counted
      BY <1>0, <2>1 DEF Tasks, Fits, Checking, Checked, Counted
    <2> QED
      BY <1>0, <2>1, <2>2, <2>3, CountSame
  <1>9. ASSUME NEW t \in Starter, SpawnFails(t) PROVE Counting'
    <2>1. UNCHANGED <<scene, active>> /\ pc[t] \in {"spawn", "init", "ready"}
      BY <1>9 DEF SpawnFails, counters
    <2>2. \A d \in Caller : d # t => pc'[d] = pc[d]
      BY <1>9, <1>0, Apart DEF SpawnFails, Starter, StartFailed, Goto, Tasks,
             Task
    <2>3. t \in Caller => Kind(t) \notin Counted
      BY <1>0, <2>1 DEF Tasks, Fits, Checking, Checked, Counted
    <2> QED
      BY <1>0, <2>1, <2>2, <2>3, CountSame
  <1>10. ASSUME NEW t \in Starter, SendInit(t) PROVE Counting'
    <2>1. UNCHANGED <<scene, active>> /\ pc[t] \in {"spawn", "init", "ready"}
      BY <1>10 DEF SendInit, counters
    <2>2. \A d \in Caller : d # t => pc'[d] = pc[d]
      BY <1>10, <1>0, Apart DEF SendInit, Starter, StartFailed, Goto, Tasks,
             Task
    <2>3. t \in Caller => Kind(t) \notin Counted
      BY <1>0, <2>1 DEF Tasks, Fits, Checking, Checked, Counted
    <2> QED
      BY <1>0, <2>1, <2>2, <2>3, CountSame
  <1>11. ASSUME NEW t \in Starter, Ready(t) PROVE Counting'
    <2>1. UNCHANGED <<scene, active>> /\ pc[t] \in {"spawn", "init", "ready"}
      BY <1>11 DEF Ready, counters
    <2>2. \A d \in Caller : d # t => pc'[d] = pc[d]
      BY <1>11, <1>0, Apart DEF Ready, Starter, Goto, Tasks, Task
    <2>3. t \in Caller => Kind(t) \notin Counted
      BY <1>0, <2>1 DEF Tasks, Fits, Checking, Checked, Counted
    <2> QED
      BY <1>0, <2>1, <2>2, <2>3, CountSame
  <1>12. ASSUME NEW t \in Starter, Refused(t) PROVE Counting'
    <2>1. UNCHANGED <<scene, active>> /\ pc[t] \in {"spawn", "init", "ready"}
      BY <1>12 DEF Refused, counters
    <2>2. \A d \in Caller : d # t => pc'[d] = pc[d]
      BY <1>12, <1>0, Apart DEF Refused, Starter, StartFailed, Goto, Tasks,
             Task
    <2>3. t \in Caller => Kind(t) \notin Counted
      BY <1>0, <2>1 DEF Tasks, Fits, Checking, Checked, Counted
    <2> QED
      BY <1>0, <2>1, <2>2, <2>3, CountSame
  <1>13. ASSUME NEW t \in Starter, StartTimeout(t) PROVE Counting'
    <2>1. UNCHANGED <<scene, active>> /\ pc[t] \in {"spawn", "init", "ready"}
      BY <1>13 DEF StartTimeout, counters
    <2>2. \A d \in Caller : d # t => pc'[d] = pc[d]
      BY <1>13, <1>0, Apart DEF StartTimeout, Starter, StartFailed, Goto,
             Tasks, Task
    <2>3. t \in Caller => Kind(t) \notin Counted
      BY <1>0, <2>1 DEF Tasks, Fits, Checking, Checked, Counted
    <2> QED
      BY <1>0, <2>1, <2>2, <2>3, CountSame
  <1>14. ASSUME Publish PROVE Counting'
    BY <1>14, <1>0, Apart, CountSame DEF Publish, Goto, Tasks, Task, counters
  <1>15. ASSUME DropObject PROVE Counting'
    BY <1>15, <1>0, Apart, CountSame DEF DropObject, Goto, Tasks, Task,
           counters
  <1>16. ASSUME DropKills PROVE Counting'
    BY <1>16, <1>0, Apart, CountSame DEF DropKills, Goto, Tasks, Task,
           counters
  <1>17. ASSUME MarkStopping PROVE Counting'
    BY <1>17, <1>0, Apart, CountSame DEF MarkStopping, Goto, Tasks, Task,
           counters
  <1>18. ASSUME StopLock PROVE Counting'
    BY <1>18, <1>0, Apart, CountSame DEF StopLock, Goto, Tasks, Task,
           counters
  <1>19. ASSUME StopSend PROVE Counting'
    BY <1>19, <1>0, Apart, CountSame DEF StopSend, Goto, Tasks, Task,
           counters
  <1>20. ASSUME StopKill PROVE Counting'
    BY <1>20, <1>0, Apart, CountSame DEF StopKill, Goto, Tasks, Task,
           counters
  <1>21. ASSUME NEW c \in Caller, Enter(c) PROVE Counting'
    <2>1. CASE active' = active /\ pc'[c] \notin Counts
      <3>1. \A d \in Caller : d # c => pc'[d] = pc[d]
        BY <1>21, <1>0 DEF Enter, Return, Goto, Tasks, Task
      <3>2. pc[c] \notin Counts /\ UNCHANGED scene
        BY <1>21 DEF Enter, Counts
      <3> QED
        BY <1>0, <2>1, <3>1, <3>2, CountSame
    <2>2. CASE /\ Kind(c) = "command" /\ active' = active + 1
               /\ Limit > 0 => active < Limit
               /\ Goto(c, "register")
      <3>1. pc'[c] \in Counts /\ \A d \in Caller : d # c => pc'[d] = pc[d]
        BY <1>0, <2>2 DEF Counts, Goto, Tasks, Task
      <3> QED
        BY <1>21, <1>0, <2>2, <3>1, CountIn DEF Enter, Counts, Counted
    <2>3. CASE Kind(c) \notin Counted /\ active' = active /\ Goto(c, "register")
      <3>1. \A d \in Caller : d # c => pc'[d] = pc[d]
        BY <1>0, <2>3 DEF Goto, Tasks, Task
      <3> QED
        BY <1>21, <1>0, <2>3, <3>1, CountSame DEF Enter
    <2> QED
      <3>1. CASE \E r : Return(c, r) /\ UNCHANGED active
        BY <1>0, <2>1, <3>1 DEF Return, Goto, Tasks, Task, Counts
      <3>2. CASE ~\E r : Return(c, r) /\ UNCHANGED active
        <4>1. /\ Goto(c, CASE Kind(c) = "batch" -> "count"
                           [] Kind(c) \in Checked -> "check"
                           [] OTHER -> "register")
              /\ active' = active + IF Kind(c) = "command" THEN 1 ELSE 0
              /\ ~(Kind(c) \in Counted /\ Limit > 0 /\ active >= Limit)
          BY <1>21, <3>2 DEF Enter
        <4>2. active \in Int /\ Limit \in Int
          BY <1>0, InsideFinite, ProcessAssumption DEF Counting
        <4>3. CASE Kind(c) = "command"
          BY <2>2, <4>1, <4>2, <4>3 DEF Counted, Checked
        <4>4. CASE Kind(c) = "batch" \/ Kind(c) \in Checked
          <5>1. active' = active
            BY <4>1, <4>2, <4>4 DEF Checked
          <5>2. pc'[c] \in {"count", "check"}
            BY <1>0, <4>1, <4>4 DEF Goto, Tasks, Task
          <5> QED
            BY <2>1, <5>1, <5>2 DEF Counts
        <4>5. CASE Kind(c) \notin {"command", "batch"} \cup Checked
          BY <2>3, <4>1, <4>2, <4>5 DEF Counted
        <4> QED
          BY <4>3, <4>4, <4>5
      <3> QED
        BY <3>1, <3>2
  <1>22. ASSUME NEW c \in Caller, CountBatch(c) PROVE Counting'
    <2>1. /\ pc'[c] \in Counts /\ \A d \in Caller : d # c => pc'[d] = pc[d]
          /\ pc[c] \notin Counts
      BY <1>22, <1>0 DEF CountBatch, Counts, Goto, Tasks, Task
    <2>2. Kind(c) = "batch"
      BY <1>22, <1>0 DEF CountBatch, Tasks, Fits
    <2> QED
      BY <1>22, <1>0, <2>1, <2>2, CountIn DEF CountBatch, Counted
  <1>23. ASSUME NEW c \in Caller, SendCall(c) PROVE Counting'
    <2>1. pc[c] \in Counts /\ UNCHANGED scene
      BY <1>23 DEF SendCall, Counts
    <2>2. CASE Return(c, "send_error") /\ Uncount(c)
      BY <1>0, <2>1, <2>2, CountEnds
    <2>3. ASSUME NEW l \in {"wait", "send"}, Goto(c, l), UNCHANGED active
          PROVE  Counting'
      BY <1>0, <2>1, <2>3, CountSame DEF Counts, Goto, Tasks, Task
    <2> QED
      BY <1>23, <2>2, <2>3 DEF SendCall
  <1>24. ASSUME NEW c \in Caller, Receive(c) PROVE Counting'
    BY <1>24, <1>0, CountEnds DEF Receive, Counts
  <1>25. ASSUME NEW c \in Caller, CallTimeout(c) PROVE Counting'
    <2>1. CASE Kind(c) = "command"
      BY <1>25, <1>0, <2>1, CountSame DEF CallTimeout, Counts, Goto, Tasks,
             Task
    <2>2. CASE Kind(c) # "command"
      BY <1>25, <1>0, <2>2, CountEnds DEF CallTimeout, Counts
    <2> QED
      BY <2>1, <2>2
  <1>26. ASSUME NEW c \in Caller, CommandKills(c) PROVE Counting'
    BY <1>26, <1>0, CountEnds DEF CommandKills, Counts
  <1>27. ASSUME NEW c \in Caller, CallDropped(c) PROVE Counting'
    <2>1. CASE pc[c] \in Counts
      BY <1>27, <1>0, <2>1, CountEnds DEF CallDropped
    <2>2. CASE pc[c] \notin Counts
      <3>1. Kind(c) \notin Counted
        BY <1>27, <1>0, <2>2 DEF CallDropped, Writing, Counts, Tasks, Fits,
               CallerPlace, Checking, Checked, Counted
      <3>2. \A d \in Caller : d # c => pc'[d] = pc[d]
        BY <1>27, <1>0 DEF CallDropped, Return, Goto, Tasks, Task
      <3>3. active \in Int
        BY <1>0, InsideFinite DEF Counting
      <3> QED
        BY <1>27, <1>0, <3>1, <3>2, <3>3, CountSame DEF CallDropped, Uncount
    <2> QED
      BY <2>1, <2>2
  <1>28. ASSUME NEW c \in Caller, CheckPasses(c) PROVE Counting'
    <2>1. Kind(c) \notin Counted
      BY <1>28, <1>0 DEF CheckPasses, Tasks, Fits, Checking, Checked, Counted
    <2>2. \A d \in Caller : d # c => pc'[d] = pc[d]
      BY <1>28, <1>0 DEF CheckPasses, Return, Goto, Tasks, Task
    <2> QED
      BY <1>28, <1>0, <2>1, <2>2, CountSame DEF CheckPasses
  <1>29. ASSUME NEW c \in Caller, CheckFindsExit(c) PROVE Counting'
    <2>1. Kind(c) \notin Counted
      BY <1>29, <1>0 DEF CheckFindsExit, Tasks, Fits, Checking, Checked,
             Counted
    <2>2. \A d \in Caller : d # c => pc'[d] = pc[d]
      BY <1>29, <1>0 DEF CheckFindsExit, Return, Goto, Tasks, Task
    <2> QED
      BY <1>29, <1>0, <2>1, <2>2, CountSame DEF CheckFindsExit
  <1>30. ASSUME NEW c \in Caller, CheckFindsOverrun(c) PROVE Counting'
    <2>1. Kind(c) \notin Counted
      BY <1>30, <1>0 DEF CheckFindsOverrun, Tasks, Fits, Checking, Checked,
             Counted
    <2>2. \A d \in Caller : d # c => pc'[d] = pc[d]
      BY <1>30, <1>0 DEF CheckFindsOverrun, Return, Goto, Tasks, Task
    <2> QED
      BY <1>30, <1>0, <2>1, <2>2, CountSame DEF CheckFindsOverrun
  <1>31. ASSUME NEW c \in Caller, OverrunKills(c) PROVE Counting'
    <2>1. Kind(c) \notin Counted
      BY <1>31, <1>0 DEF OverrunKills, Tasks, Fits, Checking, Checked, Counted
    <2>2. \A d \in Caller : d # c => pc'[d] = pc[d]
      BY <1>31, <1>0 DEF OverrunKills, Return, Goto, Tasks, Task
    <2> QED
      BY <1>31, <1>0, <2>1, <2>2, CountSame DEF OverrunKills
  <1>32. ASSUME ProbeEnds PROVE Counting'
    BY <1>32, <1>0, Apart, CountSame DEF ProbeEnds, ProbeFailed, Goto, Tasks,
           Task, counters
  <1>33. ASSUME ProbeSkips PROVE Counting'
    BY <1>33, <1>0, CountSame DEF ProbeSkips, counters
  <1>34. ASSUME ProbeSend PROVE Counting'
    BY <1>34, <1>0, Apart, CountSame DEF ProbeSend, ProbeFailed, Goto, Tasks,
           Task, counters
  <1>35. ASSUME ProbeAnswered PROVE Counting'
    BY <1>35, <1>0, Apart, CountSame DEF ProbeAnswered, ProbeFailed, Goto,
           Tasks, Task, counters
  <1>36. ASSUME ProbeTimeout PROVE Counting'
    BY <1>36, <1>0, Apart, CountSame DEF ProbeTimeout, ProbeFailed, Goto,
           Tasks, Task, counters
  <1>37. ASSUME ProbeKills PROVE Counting'
    BY <1>37, <1>0, Apart, CountSame DEF ProbeKills, ProbeFailed, Goto,
           Tasks, Task, counters
  <1>38. CASE UNCHANGED vars
    BY <1>38, <1>0, CountSame DEF vars, counters
  <1> QED
    BY <1>1, <1>2, <1>3, <1>4, <1>5, <1>6, <1>7, <1>8, <1>9, <1>10, <1>11,
       <1>12, <1>13, <1>14, <1>15, <1>16, <1>17, <1>18, <1>19, <1>20, <1>21,
       <1>22, <1>23, <1>24, <1>25, <1>26, <1>27, <1>28, <1>29, <1>30, <1>31,
       <1>32, <1>33, <1>34, <1>35, <1>36, <1>37, <1>38
       DEF Next,
           Receiver, Owner, Start, CallBody, Probe, Starter

-----------------------------------------------------------------------------
(* The theorems *)

\* The inductive invariant holds at first,
LEMMA InvInit ==
    ASSUME Init
    PROVE  IInv
  <1>1. LiveIsRunning
    BY DEF Init, LiveIsRunning
  <1>2. TableOwned
    BY DEF Init, TableOwned, Leaked
  <1>3. Counting
    <2>1. \A c \in Caller : pc[c] = "idle"
      BY Apart DEF Init, Task
    <2>2. Inside("command") = {} /\ Inside("batch") = {}
      BY <2>1 DEF Inside
    <2>3. Limit \in Nat /\ active = 0
      BY ProcessAssumption DEF Init
    <2> QED
      BY <2>2, <2>3, FS_EmptySet DEF Counting
  <1> QED
    BY <1>1, <1>2, <1>3, TypesInit DEF IInv

\* ... every step keeps it,
LEMMA InvStep ==
    ASSUME IInv, [Next]_vars
    PROVE  IInv'
  BY TypesStep, LiveStep, OwnedStep, CountStep DEF IInv

\* ... and it says what the properties say.
LEMMA InvImplies ==
    ASSUME IInv
    PROVE  TypeOK /\ ServedWhileRunning /\ LiveIsRunning /\ TableOwned
           /\ ActiveBacked
  <1>1. /\ Cardinality(Inside("command")) \in Nat
        /\ Cardinality(Inside("batch")) \in Nat
        /\ IsFiniteSet(Inside("command")) /\ IsFiniteSet(Inside("batch"))
        /\ Inside("command") \subseteq Caller
        /\ Inside("batch") \subseteq Caller
    BY InsideFinite
  <1>2. active \in 0..Cardinality(Caller)
    <2>1. Inside("command") \cap Inside("batch") = {}
      BY DEF Inside
    <2>2. Cardinality(Inside("command") \cup Inside("batch"))
              = Cardinality(Inside("command")) + Cardinality(Inside("batch"))
      BY <1>1, <2>1, FS_Union, FS_EmptySet
    <2>3. /\ Cardinality(Inside("command") \cup Inside("batch"))
                 <= Cardinality(Caller)
          /\ Cardinality(Caller) \in Nat
      BY <1>1, ProcessAssumption, FS_Subset, FS_CardinalityType
    <2> QED
      BY <1>1, <2>2, <2>3 DEF IInv, Counting
  <1>3. TypeOK
    <2>1. /\ inbox \in [Epoch -> Seq(Id \cup {"init", "bye", "stale"})]
          /\ outbox \in [Epoch -> Seq(Id \cup {"ready", "refuse", "ack",
                                               "stale"})]
          /\ proc \in [Epoch -> {None, "up", "hung", "dead", "cut"}]
      BY DEF IInv, Types, Pipes, InMessage, OutMessage
    <2>2. /\ epoch \in 0..MaxEpoch /\ {handle, stdin, shutTx} \subseteq 0..epoch
          /\ recv \in [Epoch -> {None, "loop", "exit", "done"}]
          /\ shut \in [Epoch -> BOOLEAN]
      BY DEF IInv, Types, Epochs
    <2>3. /\ lock \in Task \cup {Free} /\ notified \subseteq Epoch
          /\ crashes \in Nat
          /\ res \in [Caller -> {None, "not_running", "too_many",
                        "send_error", "answer", "closed", "timeout",
                        "crashed", "dropped"}]
      BY DEF IInv, Types, Rest, Result
    <2>4. {running, listening, checked} \subseteq BOOLEAN
      BY Zenon DEF IInv, Types, Rest
    <2>5. /\ pending \subseteq Id
          /\ slot \in [Id -> {None, "open", "closed", "answer", "ready",
                              "refuse", "ack"}]
      BY DEF IInv, Types, Table, Slot
    <2>6. scene \in Scenarios /\ failures \in 0..MaxFailures
      BY DEF IInv, Types, Tasks
    <2>7. pc \in [Task -> {"off", "idle", "spawn", "init", "ready", "publish",
                        "serve", "drop", "dropping", "gone", "stop", "bye",
                        "ack", "count", "check", "overrun", "register",
                        "send", "wait", "kill", "done", "sleep", "exit"}]
      BY DEF IInv, Types, Tasks, OwnerPlace, MonitorPlace, CallerPlace
    <2> QED
      BY <1>2, <2>1, <2>2, <2>3, <2>4, <2>5, <2>6, <2>7 DEF TypeOK
  <1>4. ServedWhileRunning
    BY DEF IInv, Types, Epochs, ServedWhileRunning
  <1>5. ActiveBacked
    <2>1. Limit \in Nat
      BY ProcessAssumption
    <2>2. Inside("batch") = {} => Cardinality(Inside("batch")) = 0
      BY FS_EmptySet
    <2> QED
      BY <1>1, <2>1, <2>2 DEF IInv, Counting, ActiveBacked
  <1> QED
    BY <1>3, <1>4, <1>5 DEF IInv

\* The inductive invariant of the extension process (process.rs and
\* in_flight.rs), for all interleavings of its callers, threads and monitors.
THEOREM Invariance == Spec => []IInv
  BY InvInit, InvStep, PTL DEF Spec

\* Every variable keeps its type: active_requests never drops below zero nor
\* counts more calls than there are, and the probe stops at its last failure.
THEOREM TypeCorrect == Spec => []TypeOK
  BY Invariance, InvImplies, PTL

\* Callers that see `running` in a published object have a child to talk to
\* whose receiver thread will see its end.
THEOREM RunningIsServed == Spec => []ServedWhileRunning
  BY Invariance, InvImplies, PTL

\* A live child whose flag is down is being stopped or dropped, or came from a
\* restart in place: no first process is written off.
THEOREM NoneWrittenOff == Spec => []LiveIsRunning
  BY Invariance, InvImplies, PTL

\* InFlightRequests holds the waiting requests and, of the others, only those
\* of failed sends, of streaming calls that timed out and of calls whose client
\* hung up.
THEOREM EntriesOwned == Spec => []TableOwned
  BY Invariance, InvImplies, PTL

\* active_requests counts exactly the calls inside, and exceeds the limit by
\* batches only.
THEOREM CountExact == Spec => []ActiveBacked
  BY Invariance, InvImplies, PTL

=============================================================================
