-------------------------- MODULE ExtensionProcess --------------------------
(***************************************************************************)
(* One isolated extension (extension/isolated/process.rs, in_flight.rs):    *)
(* the runner process and its two pipes, the receiver thread, the table of  *)
(* requests in flight, the callers, the liveness probe, the memory check    *)
(* with its restart in place, and the stop of an unload.                    *)
(*                                                                          *)
(* The runner answers in order, may hang, may refuse to start and may die   *)
(* at any point, also in the middle of a frame.  Every spawn is an epoch    *)
(* with pipes and a receiver thread of its own; all other state is shared   *)
(* by the epochs.  A timeout may fire at any time, and a client that        *)
(* disconnects drops the future of its call at any of its awaits.           *)
(***************************************************************************)
EXTENDS Integers, Sequences, FiniteSets

CONSTANTS
    Caller,        \* calls, each with the request id of its own
    Scenarios,     \* bound: the kind of each call (`kind`), whether the
                   \* extension is stopped (`stop`), whether it is probed
                   \* (`probe`), and what may go wrong (`faults`)
    Limit,         \* max_concurrent_requests, 0 for no limit
    MaxFailures,   \* health_check_max_failures
    MaxAttempts,   \* max_restart_attempts
    Pipe,          \* messages the stdin pipe holds
    MaxEpoch       \* bound: spawns

None == "none"
Zero == "zero"     \* request id 0, of Ready and ShutdownAck
Ping == "ping"     \* the request id of the current probe
Kinds == {"command", "batch", "query", "oneshot", "chunk", "session"}
Epoch == 1..MaxEpoch
Task == Caller \cup {"owner", "monitor"}
Id == Caller \cup {Zero, Ping}

ASSUME ProcessAssumption ==
    /\ Limit \in Nat
    /\ {MaxFailures, MaxAttempts, Pipe, MaxEpoch} \subseteq Nat \ {0}
    /\ IsFiniteSet(Caller)
    /\ Caller \cap {"owner", "monitor", Zero, Ping} = {}
    /\ \A s \in Scenarios : s.kind \in [Caller -> Kinds \cup {None}]

VARIABLES
    scene,      \* the scenario
    epoch,      \* spawns so far
    proc,       \* the process of each epoch
    inbox,      \* stdin of each epoch: messages the runner has not handled
    outbox,     \* stdout of each epoch: frames the receiver has not read
    recv,       \* the receiver thread of each epoch
    shut,       \* its shutdown channel holds a signal
    handle,     \* `process`: the epoch whose Child it holds, or 0
    stdin,      \* the epoch of `stdin`, or 0
    shutTx,     \* the epoch of `shutdown_tx`, or 0
    lock,       \* the task that holds the mutex of `process`
    running,    \* the flag `running`
    listening,  \* `death_tx` is set
    notified,   \* epochs whose death was notified
    pending,    \* InFlightRequests::pending
    slot,       \* the oneshot channel of each request
    active,     \* active_requests
    crashes,    \* consecutive_crashes
    checked,    \* last_resource_check is set
    failures,   \* consecutive_failures of the probe
    pc, res     \* the tasks, and what their calls returned

pipes == <<proc, inbox, outbox>>
threads == <<recv, shut>>
process == <<epoch, handle, stdin, shutTx>>
table == <<pending, slot>>
counters == <<active, crashes, checked, failures>>
flags == <<running, listening, notified>>
vars == <<scene, process, pipes, threads, lock, flags, table, counters,
          pc, res>>

Free == "free"

Init ==
    /\ scene \in Scenarios
    /\ epoch = 0 /\ handle = 0 /\ stdin = 0 /\ shutTx = 0
    /\ proc = [e \in Epoch |-> None]
    /\ inbox = [e \in Epoch |-> <<>>]
    /\ outbox = [e \in Epoch |-> <<>>]
    /\ recv = [e \in Epoch |-> None]
    /\ shut = [e \in Epoch |-> FALSE]
    /\ lock = Free
    /\ running = FALSE /\ listening = FALSE /\ notified = {}
    /\ pending = {} /\ slot = [i \in Id |-> None]
    /\ active = 0 /\ crashes = 0 /\ checked = FALSE /\ failures = 0
    /\ pc = [t \in Task |-> CASE t = "owner" -> "spawn"
                              [] t = "monitor" -> "off"
                              [] OTHER -> "idle"]
    /\ res = [c \in Caller |-> None]

Kind(c) == scene.kind[c]
Counted == {"command", "batch"}     \* hold active_requests
Checked == {"oneshot", "chunk"}     \* call check_resources first
Forgetful == {"chunk", "session"}   \* wait without wait_with_timeout
Alive(e) == e # 0 /\ proc[e] \in {"up", "hung"}
Goto(t, l) == pc' = [pc EXCEPT ![t] = l]

-----------------------------------------------------------------------------
(* The table of requests in flight *)

\* Insert a request whose oneshot channel is open.
Register(i) == /\ pending' = pending \cup {i}
               /\ slot' = [slot EXCEPT ![i] = "open"]

\* complete: the answer v reaches the request that is still registered.
Complete(i, v) == /\ pending' = pending \ {i}
                  /\ slot' = IF i \in pending THEN [slot EXCEPT ![i] = v]
                             ELSE slot

\* cancel_all: the dropped senders wake their callers.
CancelAll == /\ pending' = {}
             /\ slot' = [i \in Id |-> IF i \in pending THEN "closed"
                                      ELSE slot[i]]

\* wait_with_timeout on a timeout (and, when the channel was closed, on an
\* entry that is gone already).
Cancel_keep(i) == /\ pending' = pending
                  /\ slot' = [slot EXCEPT ![i] = None]
Cancel(i) == /\ pending' = pending \ {i}
             /\ slot' = [slot EXCEPT ![i] = None]

-----------------------------------------------------------------------------
(* The runner process (heramind-extension-runner) *)

\* The runner handles one message at a time: Init is answered with Ready or
\* an error, Shutdown with ShutdownAck and an exit, the rest with an answer.
RunnerHandle(e) ==
    /\ proc[e] = "up" /\ inbox[e] # <<>>
    /\ LET m == Head(inbox[e]) IN
       /\ inbox' = [inbox EXCEPT ![e] = Tail(@)]
       /\ \E answer \in CASE m = "init" -> {"ready"} \cup
                                          ({"refuse"} \cap scene.faults)
                          [] m = "bye" -> {"ack"}
                          [] OTHER -> {m} :
              outbox' = [outbox EXCEPT ![e] = Append(@, answer)]
       /\ proc' = [proc EXCEPT ![e] = IF m = "bye" THEN "dead" ELSE @]
    /\ UNCHANGED <<scene, process, threads, lock, flags, table, counters,
                   pc, res>>

RunnerHangs(e) ==
    /\ "hang" \in scene.faults /\ proc[e] = "up"
    /\ proc' = [proc EXCEPT ![e] = "hung"]
    /\ UNCHANGED <<scene, process, inbox, outbox, threads, lock, flags, table,
                   counters, pc, res>>

\* A crash, between two frames or ("cut") within one.
RunnerDies(e) ==
    /\ proc[e] \in {"up", "hung"}
    /\ \E how \in {"dead"} \cup ({"cut"} \cap scene.faults) :
           proc' = [proc EXCEPT ![e] = how]
    /\ inbox' = [inbox EXCEPT ![e] = <<>>]
    /\ UNCHANGED <<scene, process, outbox, threads, lock, flags, table,
                   counters, pc, res>>

-----------------------------------------------------------------------------
(* The receiver thread of an epoch *)

\* The thread finds the shutdown signal at the top of its loop.
ReceiverQuits(e) ==
    /\ recv[e] = "loop" /\ shut[e]
    /\ recv' = [recv EXCEPT ![e] = "exit"]
    /\ UNCHANGED <<scene, process, pipes, shut, lock, flags, table, counters,
                   pc, res>>

\* A frame is read and routed; what has no request id goes to request 0.  A
\* signal that came meanwhile is found at the top.
ReceiverRoute(e) ==
    /\ recv[e] = "loop" /\ outbox[e] # <<>>
    /\ LET m == Head(outbox[e]) IN
         CASE m \in {"ready", "refuse", "ack"} -> Complete(Zero, m)
           [] m \in Id -> Complete(m, "answer")
           [] OTHER -> UNCHANGED table
    /\ outbox' = [outbox EXCEPT ![e] = Tail(@)]
    /\ recv' = [recv EXCEPT ![e] = IF shut[e] THEN "exit" ELSE "loop"]
    /\ UNCHANGED <<scene, process, proc, inbox, shut, lock, flags, counters,
                   pc, res>>

\* The thread blocks in its read until the end of file: between two frames the
\* manager is notified, within a frame it is not.
ReceiverEof_silent(e) ==
    /\ recv[e] = "loop" /\ outbox[e] = <<>> /\ proc[e] \in {"dead", "cut"}
    /\ running' = FALSE
    /\ recv' = [recv EXCEPT ![e] = "exit"]
    /\ UNCHANGED <<scene, process, pipes, shut, lock, listening, notified,
                   table, counters, pc, res>>
ReceiverEof(e) ==
    /\ recv[e] = "loop" /\ outbox[e] = <<>> /\ proc[e] \in {"dead", "cut"}
    /\ running' = FALSE
    /\ notified' = notified \cup
                     IF proc[e] = "dead" /\ listening THEN {e} ELSE {}
    /\ recv' = [recv EXCEPT ![e] = "exit"]
    /\ UNCHANGED <<scene, process, pipes, shut, lock, listening, table,
                   counters, pc, res>>

ReceiverExit(e) ==
    /\ recv[e] = "exit"
    /\ CancelAll
    /\ recv' = [recv EXCEPT ![e] = "done"]
    /\ outbox' = [outbox EXCEPT ![e] = <<>>]
    /\ UNCHANGED <<scene, process, proc, inbox, shut, lock, flags, counters,
                   pc, res>>

-----------------------------------------------------------------------------
(* start, stop and kill_internal *)

\* The process of the handle, if there is one, is killed and its receiver
\* signalled.
Terminate_signalOnly ==
    /\ shut' = [e \in Epoch |-> shut[e] \/ e = shutTx]
    /\ shutTx' = 0
    /\ UNCHANGED <<proc, inbox, handle>>
Terminate ==
    /\ shut' = [e \in Epoch |-> shut[e] \/ e = shutTx]
    /\ shutTx' = 0
    /\ proc' = [e \in Epoch |-> IF e = handle /\ Alive(e) THEN "dead"
                                ELSE proc[e]]
    /\ inbox' = [e \in Epoch |-> IF e = handle THEN <<>> ELSE inbox[e]]
    /\ handle' = 0

\* kill_internal, under the lock of `process`.
KillInternal_keepRunning == Terminate /\ CancelAll /\ UNCHANGED running
KillInternal == Terminate /\ CancelAll /\ running' = FALSE

\* A message is too much for the pipe of a runner that does not read: the
\* write blocks, with the lock of stdin.
Jammed == Alive(stdin) /\ Len(inbox[stdin]) >= Pipe
Writing == {"init", "send", "bye"}    \* a task waits for stdin, or writes

\* send_message: the message is in the pipe, or the call fails; a write into
\* the full pipe of a live process blocks.  The retries of
\* send_message_with_retry are further tries of the same step.
Send(m) == /\ Alive(stdin) /\ ~Jammed
           /\ inbox' = [inbox EXCEPT ![stdin] = Append(@, m)]
SendFails == ~Alive(stdin)

\* start, up to the receiver thread.  A child already there is an error, and
\* so is a runner that cannot be spawned.
Spawn(t) ==
    /\ pc[t] = "spawn" /\ lock = Free /\ handle = 0 /\ epoch < MaxEpoch
    /\ epoch' = epoch + 1
    /\ proc' = [proc EXCEPT ![epoch'] = "up"]
    /\ recv' = [recv EXCEPT ![epoch'] = "loop"]
    /\ handle' = epoch' /\ stdin' = epoch' /\ shutTx' = epoch'
    /\ running' = TRUE
    /\ lock' = t
    /\ Goto(t, "init")
    /\ UNCHANGED <<scene, inbox, outbox, shut, listening, notified, table,
                   counters, res>>

\* What a failed start leads to: load drops the object, a call gives up.
StartFailed(t) ==
    /\ Goto(t, IF t = "owner" THEN "drop" ELSE "done")
    /\ res' = IF t = "owner" THEN res ELSE [res EXCEPT ![t] = "crashed"]
SpawnFails(t) ==
    /\ pc[t] = "spawn" /\ lock = Free
    /\ handle # 0 \/ epoch = MaxEpoch \/ "spawn" \in scene.faults
    /\ StartFailed(t)
    /\ UNCHANGED <<scene, process, pipes, threads, lock, flags, table,
                   counters>>

\* Request 0 is registered, then Init is sent.
SendInit(t) ==
    /\ pc[t] = "init"
    /\ Register(Zero)
    /\ \/ /\ Send("init")
          /\ Goto(t, "ready")
          /\ UNCHANGED <<lock, res>>
       \/ /\ SendFails
          /\ lock' = Free
          /\ StartFailed(t)
          /\ UNCHANGED inbox
    /\ UNCHANGED <<scene, process, proc, outbox, threads, flags, counters>>

\* Ready: record_successful_start.
Ready(t) ==
    /\ pc[t] = "ready" /\ slot[Zero] = "ready"
    /\ Cancel(Zero)
    /\ crashes' = 0
    /\ lock' = Free
    /\ Goto(t, IF t = "owner" THEN "publish" ELSE "register")
    /\ UNCHANGED <<scene, process, pipes, threads, flags, active, checked,
                   failures, res>>
\* An error or an unexpected answer: the process is killed.
Refused(t) ==
    /\ pc[t] = "ready" /\ slot[Zero] \in {"refuse", "ack"}
    /\ KillInternal
    /\ lock' = Free
    /\ StartFailed(t)
    /\ UNCHANGED <<scene, epoch, stdin, outbox, recv, listening, notified,
                   counters>>
\* Startup timeout or a closed channel: the process is left as it is.
StartTimeout(t) ==
    /\ pc[t] = "ready" /\ slot[Zero] \in {"open", "closed"}
    /\ Cancel(Zero)
    /\ lock' = Free
    /\ StartFailed(t)
    /\ UNCHANGED <<scene, process, pipes, threads, flags, counters>>

\* load_internal hands the object out, starts its probe (if there is one) and
\* only then sets the death notification.
Publish ==
    /\ pc["owner"] = "publish"
    /\ \/ /\ pc["monitor"] = "off"
          /\ Goto("monitor", IF scene.probe THEN "sleep" ELSE "exit")
          /\ UNCHANGED listening
       \/ /\ pc["monitor"] # "off"
          /\ listening' = TRUE
          /\ Goto("owner", "serve")
    /\ UNCHANGED <<scene, process, pipes, threads, lock, running, notified,
                   table, counters, res>>

\* Drop of an object whose start failed.  Its channels go with it, so the
\* receiver finds the shutdown channel disconnected; its child is taken by a
\* thread and lives on ...
DropObject ==
    /\ pc["owner"] = "drop" /\ lock = Free
    /\ shut' = [e \in Epoch |-> shut[e] \/ e = shutTx]
    /\ shutTx' = 0 /\ stdin' = 0 /\ handle' = 0
    /\ Goto("owner", "dropping")
    /\ UNCHANGED <<scene, epoch, pipes, recv, lock, flags, table,
                   counters, res>>
\* ... until it exits or, after three seconds, the thread kills it.
DropKills ==
    /\ pc["owner"] = "dropping"
    /\ proc' = [e \in Epoch |-> IF e = epoch /\ Alive(e) THEN "dead"
                                ELSE proc[e]]
    /\ inbox' = [e \in Epoch |-> IF e = epoch THEN <<>> ELSE inbox[e]]
    /\ Goto("owner", "gone")
    /\ UNCHANGED <<scene, process, outbox, threads, lock, flags, table,
                   counters, res>>

\* unload: mark_stopping, then stop.
MarkStopping ==
    /\ scene.stop /\ pc["owner"] = "serve"
    /\ running' = FALSE
    /\ Goto("owner", "stop")
    /\ UNCHANGED <<scene, process, pipes, threads, lock, listening, notified,
                   table, counters, res>>
\* stop: the lock, and request 0; without a process there is nothing to stop.
StopLock ==
    /\ pc["owner"] = "stop" /\ lock = Free
    /\ IF handle = 0
       THEN Goto("owner", "gone") /\ UNCHANGED <<lock, table>>
       ELSE /\ Register(Zero)
            /\ lock' = "owner"
            /\ Goto("owner", "bye")
    /\ UNCHANGED <<scene, process, pipes, threads, flags, counters, res>>
\* Shutdown is sent, whatever becomes of it.
StopSend ==
    /\ pc["owner"] = "bye"
    /\ Send("bye") \/ (SendFails /\ UNCHANGED inbox)
    /\ Goto("owner", "ack")
    /\ UNCHANGED <<scene, process, proc, outbox, threads, lock, flags, table,
                   counters, res>>
\* With the ShutdownAck or after two seconds: the receiver is signalled, the
\* process waited for and killed if need be.
StopKill ==
    /\ pc["owner"] = "ack"
    /\ Terminate
    /\ stdin' = 0
    /\ running' = FALSE
    /\ CancelAll
    /\ lock' = Free
    /\ Goto("owner", "gone")
    /\ UNCHANGED <<scene, epoch, outbox, recv, listening, notified, counters,
                   res>>

-----------------------------------------------------------------------------
(* The calls *)

Return(c, r) == /\ Goto(c, "done")
                /\ res' = [res EXCEPT ![c] = r]
\* The scope guard gives the request back.
Uncount(c) == active' = active - IF Kind(c) \in Counted THEN 1 ELSE 0

\* The checks at the head of a call.  execute_command takes its place below
\* the limit at once, execute_batch_ipc in two steps.
Enter_unlimited(c) ==
    /\ pc[c] = "idle" /\ Kind(c) # None /\ pc["monitor"] # "off"
    /\ CASE ~running -> Return(c, "not_running") /\ UNCHANGED active
         [] OTHER ->
              /\ Goto(c, CASE Kind(c) = "batch" -> "count"
                           [] Kind(c) \in Checked -> "check"
                           [] OTHER -> "register")
              /\ active' = active + IF Kind(c) = "command" THEN 1 ELSE 0
              /\ UNCHANGED res
    /\ UNCHANGED <<scene, process, pipes, threads, lock, flags, table,
                   crashes, checked, failures>>
Enter(c) ==
    /\ pc[c] = "idle" /\ Kind(c) # None /\ pc["monitor"] # "off"
    /\ CASE ~running ->
              Return(c, "not_running") /\ UNCHANGED active
         [] running /\ Kind(c) \in Counted /\ Limit > 0 /\ active >= Limit ->
              Return(c, "too_many") /\ UNCHANGED active
         [] OTHER ->
              /\ Goto(c, CASE Kind(c) = "batch" -> "count"
                           [] Kind(c) \in Checked -> "check"
                           [] OTHER -> "register")
              /\ active' = active + IF Kind(c) = "command" THEN 1 ELSE 0
              /\ UNCHANGED res
    /\ UNCHANGED <<scene, process, pipes, threads, lock, flags, table,
                   crashes, checked, failures>>
CountBatch(c) ==
    /\ pc[c] = "count"
    /\ active' = active + 1
    /\ Goto(c, "register")
    /\ UNCHANGED <<scene, process, pipes, threads, lock, flags, table,
                   crashes, checked, failures, res>>

\* The request is registered and sent.  A send that fails leaves the entry in
\* the table; one that blocks has it there already.
SendCall(c) ==
    /\ \/ pc[c] = "register" /\ Register(c)
       \/ pc[c] = "send" /\ ~Jammed /\ UNCHANGED table
    /\ \/ /\ Send(c)
          /\ Goto(c, "wait")
          /\ UNCHANGED <<active, res>>
       \/ /\ SendFails
          /\ Return(c, "send_error")
          /\ Uncount(c)
          /\ UNCHANGED inbox
       \/ /\ Jammed
          /\ Goto(c, "send")
          /\ UNCHANGED <<active, res, inbox>>
    /\ UNCHANGED <<scene, process, proc, outbox, threads, lock, flags,
                   crashes, checked, failures>>

\* The answer, or the channel closed by a cancel_all.
Receive(c) ==
    /\ pc[c] = "wait" /\ slot[c] \in {"answer", "closed"}
    /\ Return(c, slot[c])
    /\ Uncount(c)
    /\ Cancel(c)
    /\ UNCHANGED <<scene, process, pipes, threads, lock, flags, crashes,
                   checked, failures>>

\* The timeout of a call; the streaming calls do not cancel their entry.  A
\* command goes on to kill the process.
CallTimeout(c) ==
    /\ pc[c] = "wait" /\ slot[c] = "open"
    /\ IF Kind(c) \in Forgetful
       THEN slot' = [slot EXCEPT ![c] = None] /\ UNCHANGED pending
       ELSE Cancel(c)
    /\ IF Kind(c) = "command"
       THEN Goto(c, "kill") /\ UNCHANGED <<res, active>>
       ELSE Return(c, "timeout") /\ Uncount(c)
    /\ UNCHANGED <<scene, process, pipes, threads, lock, flags, crashes,
                   checked, failures>>
CommandKills_someone(c) ==
    /\ pc[c] = "kill" /\ lock = Free /\ handle # 0
    /\ KillInternal
    /\ Return(c, "timeout")
    /\ Uncount(c)
    /\ UNCHANGED <<scene, epoch, stdin, outbox, recv, lock, listening,
                   notified, crashes, checked, failures>>
CommandKills(c) ==
    /\ pc[c] = "kill" /\ lock = Free
    /\ IF handle # 0 THEN KillInternal
       ELSE UNCHANGED <<handle, shutTx, proc, inbox, shut, running, table>>
    /\ Return(c, "timeout")
    /\ Uncount(c)
    /\ UNCHANGED <<scene, epoch, stdin, outbox, recv, lock, listening,
                   notified, crashes, checked, failures>>

\* The client disconnects and the future is dropped where it awaits: the
\* answer (whose entry nobody removes), the lock of `process`, the lock of
\* stdin (that a blocked write holds), or the answer to Init of a restart in
\* place, which gives the lock back.  The scope guard still counts down; the
\* kill of a timeout is not made.
CallDropped(c) ==
    /\ "drop" \in scene.faults
    /\ \/ pc[c] \in {"wait", "kill", "check", "overrun", "spawn", "ready"}
       \/ pc[c] = "init" /\ ~Jammed
       \/ pc[c] \in Writing /\ \E t \in Task \ {c} : pc[t] \in Writing
    /\ slot' = [slot EXCEPT ![c] = None]
    /\ lock' = IF lock = c THEN Free ELSE lock
    /\ Return(c, "dropped")
    /\ Uncount(c)
    /\ UNCHANGED <<scene, process, pipes, threads, flags, pending, crashes,
                   checked, failures>>

-----------------------------------------------------------------------------
(* check_resources *)

\* Not looked at again within two seconds; no process; or memory is fine.  A
\* child the receiver has reaped already cannot be waited for and passes too.
CheckPasses(c) ==
    /\ pc[c] = "check"
    /\ checked \/ handle = 0 \/ lock = Free
    /\ handle \in Epoch /\ ~checked =>
           Alive(handle) \/ recv[handle] \in {"exit", "done"}
    /\ checked' = TRUE
    /\ Goto(c, "register")
    /\ UNCHANGED <<scene, process, pipes, threads, lock, flags, table, active,
                   crashes, failures, res>>
\* The process has exited.
CheckFindsExit(c) ==
    /\ pc[c] = "check" /\ lock = Free /\ handle # 0 /\ ~Alive(handle)
    /\ checked' = TRUE
    /\ KillInternal
    /\ crashes' = crashes + 1
    /\ Return(c, "crashed")
    /\ UNCHANGED <<scene, epoch, stdin, outbox, recv, lock, listening,
                   notified, active, failures>>
\* Above the memory limit ...
CheckFindsOverrun(c) ==
    /\ pc[c] = "check" /\ "memory" \in scene.faults
    /\ lock = Free /\ Alive(handle)
    /\ checked' = TRUE
    /\ Goto(c, "overrun")
    /\ UNCHANGED <<scene, process, pipes, threads, lock, flags, table, active,
                   crashes, failures, res>>
\* ... the process is killed, and started again in place unless
\* restart_on_crash is off or the crashes add up to a loop
\* (should_allow_restart).
OverrunKills(c) ==
    /\ pc[c] = "overrun" /\ lock = Free
    /\ KillInternal
    /\ crashes' = crashes + 1
    /\ IF crashes' >= MaxAttempts \/ "final" \in scene.faults
       THEN Return(c, "crashed")
       ELSE Goto(c, "spawn") /\ UNCHANGED res
    /\ UNCHANGED <<scene, epoch, stdin, outbox, recv, lock, listening,
                   notified, active, checked, failures>>

-----------------------------------------------------------------------------
(* The liveness probe: spawn_health_monitor and ping *)

\* An answer to a probe that was given up is an answer to no request.
Abandon(b) == [e \in Epoch |-> [k \in DOMAIN b[e] |->
                  IF b[e][k] = Ping THEN "stale" ELSE b[e][k]]]

ProbeFailed_late == /\ failures' = failures + 1
                    /\ Goto("monitor", IF failures' > MaxFailures THEN "kill"
                                       ELSE "sleep")
ProbeFailed == /\ failures' = failures + 1
               /\ Goto("monitor", IF failures' >= MaxFailures THEN "kill"
                                  ELSE "sleep")
\* The sleep is over: the probe ends with the process and is skipped while
\* any request is in flight.  A ping that cannot be sent cancels its entry.
ProbeEnds ==
    /\ pc["monitor"] = "sleep" /\ ~running
    /\ Goto("monitor", "exit")
    /\ UNCHANGED <<scene, process, pipes, threads, lock, flags, table,
                   counters, res>>
ProbeSkips ==
    /\ pc["monitor"] = "sleep" /\ running /\ pending # {}
    /\ failures' = 0
    /\ UNCHANGED <<scene, process, pipes, threads, lock, flags, table, active,
                   crashes, checked, pc, res>>
ProbeSend ==
    /\ \/ pc["monitor"] = "sleep" /\ running /\ pending = {}
       \/ pc["monitor"] = "send" /\ ~Jammed
    /\ \/ /\ Send(Ping)
          /\ Register(Ping)
          /\ Goto("monitor", "wait")
          /\ UNCHANGED failures
       \/ /\ SendFails
          /\ Cancel(Ping)
          /\ ProbeFailed
          /\ UNCHANGED inbox
       \/ /\ Jammed
          /\ Register(Ping)
          /\ Goto("monitor", "send")
          /\ UNCHANGED <<inbox, failures>>
    /\ UNCHANGED <<scene, process, proc, outbox, threads, lock, flags, active,
                   crashes, checked, res>>

ProbeAnswered ==
    /\ pc["monitor"] = "wait" /\ slot[Ping] = "answer"
    /\ Cancel(Ping)
    /\ failures' = 0
    /\ Goto("monitor", "sleep")
    /\ UNCHANGED <<scene, process, pipes, threads, lock, flags, active,
                   crashes, checked, res>>
ProbeTimeout_keep ==
    /\ pc["monitor"] = "wait" /\ slot[Ping] \in {"open", "closed"}
    /\ slot' = [slot EXCEPT ![Ping] = None]
    /\ inbox' = Abandon(inbox) /\ outbox' = Abandon(outbox)
    /\ ProbeFailed
    /\ UNCHANGED <<scene, process, proc, threads, lock, flags, pending,
                   active, crashes, checked, res>>
ProbeTimeout ==
    /\ pc["monitor"] = "wait" /\ slot[Ping] \in {"open", "closed"}
    /\ Cancel(Ping)
    /\ inbox' = Abandon(inbox) /\ outbox' = Abandon(outbox)
    /\ ProbeFailed
    /\ UNCHANGED <<scene, process, proc, threads, lock, flags, active,
                   crashes, checked, res>>
\* record_crash, then the kill.
ProbeKills ==
    /\ pc["monitor"] = "kill" /\ lock = Free
    /\ crashes' = crashes + 1
    /\ IF handle # 0 THEN KillInternal
       ELSE UNCHANGED <<handle, shutTx, proc, inbox, shut, running, table>>
    /\ Goto("monitor", "exit")
    /\ UNCHANGED <<scene, epoch, stdin, outbox, recv, lock, listening,
                   notified, active, checked, failures, res>>

-----------------------------------------------------------------------------
Receiver(e) == ReceiverQuits(e) \/ ReceiverRoute(e) \/ ReceiverEof(e)
                 \/ ReceiverExit(e)
Start(t) == Spawn(t) \/ SpawnFails(t) \/ SendInit(t) \/ Ready(t)
              \/ Refused(t) \/ StartTimeout(t)
Owner == Start("owner") \/ Publish \/ DropObject \/ DropKills \/ StopLock
           \/ StopSend \/ StopKill
CallBody(c) ==
    \/ CountBatch(c) \/ SendCall(c) \/ Receive(c)
    \/ CallTimeout(c) \/ CommandKills(c)
    \/ CheckPasses(c) \/ CheckFindsExit(c) \/ CheckFindsOverrun(c)
    \/ OverrunKills(c) \/ Start(c)
Probe == \/ ProbeEnds \/ ProbeSkips \/ ProbeSend \/ ProbeAnswered
         \/ ProbeTimeout \/ ProbeKills

Next ==
    \/ \E e \in Epoch : \/ RunnerHandle(e) \/ RunnerHangs(e) \/ RunnerDies(e)
                        \/ Receiver(e)
    \/ Owner \/ MarkStopping
    \/ \E c \in Caller : Enter(c) \/ CallBody(c) \/ CallDropped(c)
    \/ Probe

\* The host's threads and tasks run and its timers fire; the runner need not
\* do anything, and nobody has to call, to hang up or to unload.
Fairness == /\ \A e \in Epoch : WF_vars(Receiver(e))
            /\ WF_vars(Owner)
            /\ \A c \in Caller : WF_vars(CallBody(c))
            /\ WF_vars(Probe)

Spec == Init /\ [][Next]_vars /\ Fairness

-----------------------------------------------------------------------------
(* Properties *)

\* Every variable has its type; active_requests and the failed probes stay in
\* their bounds.
TypeOK ==
    /\ scene \in Scenarios
    /\ epoch \in 0..MaxEpoch
    /\ {handle, stdin, shutTx} \subseteq 0..epoch
    /\ proc \in [Epoch -> {None, "up", "hung", "dead", "cut"}]
    /\ inbox \in [Epoch -> Seq(Id \cup {"init", "bye", "stale"})]
    /\ outbox \in [Epoch -> Seq(Id \cup {"ready", "refuse", "ack", "stale"})]
    /\ recv \in [Epoch -> {None, "loop", "exit", "done"}]
    /\ shut \in [Epoch -> BOOLEAN]
    /\ lock \in Task \cup {Free}
    /\ {running, listening, checked} \subseteq BOOLEAN
    /\ notified \subseteq Epoch
    /\ pending \subseteq Id
    /\ slot \in [Id -> {None, "open", "closed", "answer", "ready", "refuse",
                        "ack"}]
    /\ active \in 0..Cardinality(Caller) /\ crashes \in Nat
    /\ failures \in 0..MaxFailures
    /\ pc \in [Task -> {"off", "idle", "spawn", "init", "ready", "publish",
                        "serve", "drop", "dropping", "gone", "stop", "bye",
                        "ack", "count", "check", "overrun", "register",
                        "send", "wait", "kill", "done", "sleep", "exit"}]
    /\ res \in [Caller -> {None, "not_running", "too_many", "send_error",
                           "answer", "closed", "timeout", "crashed",
                           "dropped"}]

\* The flag callers trust: while `running` is set in a published object and no
\* start, stop or kill is under way, the process has a handle to kill it by
\* and a receiver thread that will see its end, whatever its epoch.
ServedWhileRunning ==
    running /\ lock = Free /\ pc["monitor"] # "off" =>
        handle # 0 /\ recv[handle] = "loop"

\* Conversely no live process is written off: a child that is alive while the
\* flag is down is being stopped, is dropped with its object, or came from a
\* restart in place (whose flag the receiver of the process before may clear).
LiveIsRunning ==
    handle # 0 /\ Alive(handle) /\ ~running =>
        \/ pc["owner"] \in {"stop", "bye", "ack", "drop"}
        \/ epoch > 1

\* The table of requests in flight holds the waiting requests and nothing
\* else, except what a streaming call left on its timeout, a call left whose
\* message could not be sent or whose client hung up, or a start whose Init
\* could not be sent or that was dropped.
Waiting == {c \in Caller : pc[c] \in {"send", "wait"}}
Leaked == {c \in pending \cap Caller : pc[c] = "done"}
TableOwned ==
    /\ pending \cap Caller \subseteq Waiting \cup Leaked
    /\ \A c \in Leaked : \/ res[c] \in {"send_error", "dropped"}
                         \/ res[c] = "timeout" /\ Kind(c) \in Forgetful
    /\ Ping \in pending => pc["monitor"] \in {"send", "wait"}

\* active_requests counts exactly the calls inside execute_command and
\* execute_batch_ipc, and passes the limit (if there is one) only by batches,
\* which check it before they count.
Inside(k) == {c \in Caller : /\ Kind(c) = k
                             /\ pc[c] \in {"register", "send", "wait", "kill"}}
ActiveBacked ==
    /\ active = Cardinality(Inside("command")) + Cardinality(Inside("batch"))
    /\ Limit > 0 => active <= Limit + Cardinality(Inside("batch"))
    /\ Limit > 0 /\ Inside("batch") = {} => active <= Limit

\* Every call returns, whatever the runner does, unless a write is blocked in
\* the full pipe of a runner that does not read.
Blocked == Jammed /\ \E t \in Task : pc[t] \in Writing
CallsReturn ==
    \A c \in Caller : pc[c] \notin {"idle", "done"} ~> pc[c] = "done" \/ Blocked

\* The probe turns a hang into a death: a hung process that has a probe is
\* killed, unless a write is blocked, a call or a start left an entry in the
\* table (the probe waits for an empty one) or the probe found `running`
\* cleared.
LeftOver == Leaked # {} \/ (Zero \in pending /\ lock = Free)
HangKilled ==
    \A e \in Epoch :
        proc[e] = "hung" /\ e = handle /\ pc["monitor"] \notin {"off", "exit"}
            ~> \/ proc[e] # "hung" \/ pc["monitor"] = "exit"
               \/ LeftOver \/ Blocked

\* A process that dies by itself is announced to the manager, unless a kill or
\* a stop signals the receiver first.
CrashAnnounced ==
    \A e \in Epoch :
        proc[e] = "dead" /\ listening /\ recv[e] = "loop"
            ~> e \in notified \/ shut[e]
=============================================================================
