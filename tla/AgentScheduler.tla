--------------------------- MODULE AgentScheduler ---------------------------
(***************************************************************************)
(* AI agents: the scheduler (ai_agent/scheduler.rs), the event trigger      *)
(* (executor/event_trigger.rs), the status protocol around an execution     *)
(* (executor/mod.rs, ai_agent/mod.rs) and the API handlers that edit an     *)
(* agent (handlers/agents.rs).                                              *)
(*                                                                          *)
(* Every execution is a task (Exec) started by the tick loop, by an event   *)
(* or by hand; they share a global and a per-backend semaphore and one      *)
(* persisted status per agent, which each of them overwrites.  What the LLM *)
(* does is the outcome of the execution.  One call of the agent store is    *)
(* one step; the store may refuse a status write (an error of the database) *)
(* and a client may hang up while a handler works on its request.           *)
(***************************************************************************)
EXTENDS Integers, FiniteSets

CONSTANTS
    Agent,          \* agent ids
    Exec,           \* execution tasks, numbers
    Request,        \* API requests in progress
    Schedule,       \* schedule_type of each agent
    Priority,       \* priority of each agent
    Backend,        \* llm_backend_id of each agent
    Late,           \* the removals of a slot guard that a lock may defer
    Scenarios,      \* bound: the agents a run starts with (`store`) and how
                    \* often <<operation, agent>> happens in it (`ops`); with
                    \* a <<"refuse", agent>>, writes of its status may fail
    MaxConcurrent,  \* SchedulerConfig::max_concurrent
    MaxPerBackend,  \* SchedulerConfig::max_concurrent_per_backend
    Interval,       \* interval_seconds
    Cooldown,       \* COOLDOWN_SECS of the event trigger
    Retention,      \* age at which a dedup entry is dropped
    MaxTime         \* bound: the clock

Never == -1     \* i64::MAX
Nobody == "nobody"

ASSUME AgentAssumption ==
    /\ Exec \subseteq Nat /\ IsFiniteSet(Request) /\ Nobody \notin Agent
    /\ Schedule \in [Agent -> {"interval", "event", "manual"}]
    /\ Priority \in [Agent -> Nat]
    /\ DOMAIN Backend = Agent
ASSUME LimitAssumption ==
    /\ {MaxConcurrent, MaxPerBackend, Interval} \subseteq Nat \ {0}
    /\ {Cooldown, Retention, MaxTime} \subseteq Nat
    /\ Cooldown <= Retention
ASSUME ScenarioAssumption == \A s \in Scenarios :
    /\ s.store \subseteq Agent
    /\ s.ops \in [DOMAIN s.ops -> Nat]
    /\ \A x \in DOMAIN s.ops : x[1] = "create" => x[2] \notin s.store
ASSUME LateAssumption == {} \in Late /\ Late \subseteq SUBSET {"slot", "handle"}

VARIABLES
    now,        \* the clock
    status,     \* persisted: status of each agent
    started,    \* AiAgentManager::running
    running,    \* AgentScheduler::running, the flag the tick loop reads
    stopping,   \* stop() has still to drain the handles
    tasks,      \* scheduled tasks, a partial function
    slots,      \* running_executions
    handles,    \* running_task_handles: agent -> task, partial
    recent,     \* recent_executions: agent -> time, partial
    loop,       \* the tick loop
    listener,   \* the event listener
    exec,       \* the execution tasks
    request,    \* the API requests
    sweep,      \* the start-up sweep of Executing agents is still to run
    ops,        \* the operations of the scenario still to happen
    leaked,     \* history: slots whose task was aborted before its first poll
    unsaved,    \* history: agents whose status an execution failed to write
    clash       \* history: agents on which a request met an execution (or what
                \* one left, a row in Executing), another request or a start, or
                \* was dropped; that ran by hand while not Active; or that a
                \* start failed to reset

flags == <<started, running, stopping>>
sched == <<tasks, slots, handles, loop>>
history == <<leaked, unsaved, clash>>
vars == <<now, status, flags, sched, recent, listener, exec, request, sweep,
          ops, history>>

\* AgentStatus, but for Stopped, which nothing writes.
Statuses == {"Absent", "Active", "Paused", "Executing", "Error", "Completed"}

NoExec == [pc |-> "free", agent |-> Nobody, kind |-> "sched", try |-> 1,
           failed |-> FALSE, owes |-> {}, aborted |-> FALSE]
NoRequest == [op |-> "none", agent |-> Nobody, pc |-> "free",
              snap |-> "Absent"]
LoopOff == [pc |-> "off", due |-> {}]

Put(f, k, v) == [x \in DOMAIN f \cup {k} |-> IF x = k THEN v ELSE f[x]]
Drop(f, S) == [x \in DOMAIN f \ S |-> f[x]]

\* update_agent_status: a row that is gone stays gone.
Write(a, s) == [status EXCEPT ![a] = IF @ = "Absent" THEN @ ELSE s]

Init ==
    /\ now = 0
    /\ \E s \in Scenarios :
           /\ status = [a \in Agent |-> IF a \in s.store THEN "Active"
                                        ELSE "Absent"]
           /\ ops = s.ops
    /\ started = FALSE /\ running = FALSE /\ stopping = FALSE
    /\ tasks = <<>> /\ slots = {} /\ handles = <<>> /\ loop = LoopOff
    /\ recent = <<>>
    /\ listener = Nobody
    /\ exec = [e \in Exec |-> NoExec]
    /\ request = [q \in Request |-> NoRequest]
    /\ sweep = FALSE
    /\ leaked = {} /\ unsaved = {} /\ clash = {}

Op(o, a) == /\ <<o, a>> \in DOMAIN ops /\ ops[<<o, a>>] > 0
            /\ ops' = [ops EXCEPT ![<<o, a>>] = @ - 1]

\* A write of the status fails; what the row says stays.
MayRefuse(a) == <<"refuse", a>> \in DOMAIN ops
Refused(a) == /\ MayRefuse(a)
              /\ unsaved' = unsaved \cup {a}
              /\ UNCHANGED status

-----------------------------------------------------------------------------
(* Scheduling: schedule_agent, the tick loop and reserve_due_tasks *)

\* calculate_next_execution, and the task schedule_agent inserts.
ScheduledTask(a, s) ==
    [next |-> IF Schedule[a] = "interval" THEN now + Interval ELSE Never,
     enabled |-> s = "Active"]

\* The catch-up without its last interval.
UpdateNext_behind(t) ==
    LET scheduled == t.next + Interval
    IN  IF scheduled > now THEN scheduled
        ELSE scheduled + ((now - scheduled) \div Interval) * Interval
\* update_next_execution: the next point of the grid, whatever was missed.
UpdateNext(t) ==
    LET scheduled == t.next + Interval
    IN  IF scheduled > now THEN scheduled
        ELSE scheduled + ((now - scheduled) \div Interval + 1) * Interval

\* Bound: the start-up sweep, spawned at the start, runs within the first
\* second.
Tick ==
    /\ Op("tick", Nobody)
    /\ now < MaxTime /\ ~sweep
    /\ now' = now + 1
    /\ UNCHANGED <<status, flags, sched, recent, listener, exec, request,
                   sweep, leaked, unsaved>>

\* The loop reads the running flag at each tick and ends once it is down.
LoopCheck ==
    /\ loop.pc = "idle"
    /\ loop' = [loop EXCEPT !.pc = IF running THEN "reserve" ELSE "off"]
    /\ UNCHANGED <<now, status, flags, tasks, slots, handles, recent, listener,
                   exec, request, sweep, ops, leaked, unsaved>>

Due == {a \in DOMAIN tasks : /\ tasks[a].enabled
                             /\ tasks[a].next # Never
                             /\ now >= tasks[a].next}

\* Agents are taken by descending priority as long as fewer than MaxConcurrent
\* slots are used; an agent that has a slot already uses no further one.
Picks == {P \in SUBSET Due :
    /\ \A a \in P, b \in Due \ P : Priority[a] >= Priority[b]
    /\ P # Due => Cardinality(slots \cup P) >= MaxConcurrent
    /\ P # {} => \E last \in P :
           /\ \A a \in P : Priority[a] >= Priority[last]
           /\ Cardinality(slots \cup (P \ {last})) < MaxConcurrent}

LoopReserve ==
    /\ loop.pc = "reserve"
    /\ \E P \in Picks :
           /\ slots' = slots \cup P
           /\ tasks' = [a \in DOMAIN tasks |->
                          IF a \in P
                          THEN [tasks[a] EXCEPT !.next = UpdateNext(tasks[a])]
                          ELSE tasks[a]]
           /\ loop' = [pc |-> IF P = {} THEN "idle" ELSE "spawn", due |-> P]
    /\ UNCHANGED <<now, status, flags, handles, recent, listener, exec,
                   request, sweep, ops, leaked, unsaved>>

\* Task ids mean nothing: a new task takes the least free one.
IsNext(e) == /\ exec[e].pc = "free"
             /\ \A x \in Exec : x < e => exec[x].pc # "free"
Spawned(a, kind) ==
    [NoExec EXCEPT !.pc = "queued", !.agent = a, !.kind = kind]

\* The task is spawned and its handle stored under one lock; the handle of an
\* execution of the same agent that still runs is overwritten.
LoopSpawn(a, e) ==
    /\ loop.pc = "spawn" /\ a \in loop.due
    /\ IsNext(e)
    /\ exec' = [exec EXCEPT ![e] = Spawned(a, "sched")]
    /\ handles' = Put(handles, a, e)
    /\ loop' = [pc |-> IF loop.due = {a} THEN "idle" ELSE "spawn",
                due |-> loop.due \ {a}]
    /\ UNCHANGED <<now, status, flags, tasks, slots, recent, listener, request,
                   sweep, ops, leaked, unsaved>>

-----------------------------------------------------------------------------
(* The event path: check_and_trigger_data_event *)

\* refresh_event_agents caches the Active event agents; the event's source
\* matches agent a only.
EventArrives(a) ==
    /\ Op("event", a)
    /\ listener = Nobody
    /\ Schedule[a] = "event" /\ status[a] = "Active"
    /\ listener' = a
    /\ UNCHANGED <<now, status, flags, sched, recent, exec, request, sweep,
                   leaked, unsaved>>

Fresh == {a \in DOMAIN recent : now - recent[a] < Retention}
InCooldown(a) == a \in Fresh /\ now - recent[a] < Cooldown

EventTrigger(e) ==
    /\ listener # Nobody
    /\ listener' = Nobody
    /\ LET kept == Drop(recent, DOMAIN recent \ Fresh)
       IN  IF InCooldown(listener)
           THEN recent' = kept /\ UNCHANGED exec
           ELSE /\ IsNext(e)
                /\ recent' = Put(kept, listener, now)
                /\ exec' = [exec EXCEPT ![e] = Spawned(listener, "event")]
    /\ UNCHANGED <<now, status, flags, sched, request, sweep, ops, leaked, unsaved>>

-----------------------------------------------------------------------------
(* One execution: permits, the status protocol of execute_agent, the return *)

Go(e, pc) == exec' = [exec EXCEPT ![e].pc = pc]
Quiet == UNCHANGED <<now, flags, tasks, loop, listener, request, sweep, ops>>
Only(e) == Quiet /\ UNCHANGED <<slots, handles, recent, leaked, unsaved>>

Rewriting == {"rewrite", "demote"}
Working == {"start", "body", "return"} \cup Rewriting
HoldsGlobal(e) == /\ exec[e].kind # "manual"
                  /\ exec[e].pc \in Working \cup {"backend"}
\* On the event path the backend permit is a temporary, dropped at once.
HoldsBackend(e, b) == /\ exec[e].kind = "sched" /\ exec[e].pc \in Working
                      /\ Backend[exec[e].agent] = b

\* The first poll: from here on the slot guard exists.
Poll(e) ==
    /\ exec[e].pc = "queued"
    /\ Go(e, "global")
    /\ Only(e) /\ UNCHANGED status

\* Event executions that take no global permit.
AcquireGlobal_schedOnly(e) ==
    /\ exec[e].pc = "global"
    /\ exec[e].kind = "sched"
           => Cardinality({x \in Exec : HoldsGlobal(x)}) < MaxConcurrent
    /\ Go(e, "backend")
    /\ Only(e) /\ UNCHANGED status
\* The scheduler's task then looks the agent up and ends if it is gone; the
\* agent's status is not looked at.
AcquireGlobal(e) ==
    /\ exec[e].pc = "global"
    /\ Cardinality({x \in Exec : HoldsGlobal(x)}) < MaxConcurrent
    /\ Go(e, IF exec[e].kind = "sched" /\ status[exec[e].agent] = "Absent"
             THEN "return" ELSE "backend")
    /\ Only(e) /\ UNCHANGED status

\* execute_agent begins: Executing is written, whatever the status was, and
\* the status guard is armed; or the write fails and so does the execution.
Execute(e) ==
    /\ \/ /\ status' = Write(exec[e].agent, "Executing")
          /\ Go(e, "body")
       \/ /\ MayRefuse(exec[e].agent)
          /\ exec' = [exec EXCEPT ![e].pc = "return", ![e].failed = TRUE]
          /\ UNCHANGED status
    /\ Only(e)

AcquireBackend(e) ==
    /\ exec[e].pc = "backend"
    /\ LET b == Backend[exec[e].agent]
       IN  Cardinality({x \in Exec : HoldsBackend(x, b)}) < MaxPerBackend
    /\ Execute(e)

\* A retry, or an execution by hand, calls execute_agent.
StartExecution(e) == exec[e].pc = "start" /\ Execute(e)

\* What the caller of execute_agent takes for a failure: any Failed record on
\* the event path, only an Err elsewhere.
Failure(kind, out) == IF kind = "event" THEN out # "ok" ELSE out = "err"

\* execute_agent ends.  The record cannot be saved, and the armed guard resets
\* the status from a task of its own; or it completed, or failed, panicked or
\* timed out (a Failed record): the record is saved, the guard disarmed and the
\* status written, Error for a permanent failure, else Active ...
FinishExecution(e, out) ==
    /\ exec[e].pc = "body"
    /\ \/ /\ out = "err"
          /\ exec' = [exec EXCEPT ![e].failed = Failure(exec[e].kind, out),
                                  ![e].pc = "return",
                                  ![e].owes = @ \cup {"status"}]
          /\ UNCHANGED status
       \/ /\ out # "err"
          /\ exec' = [exec EXCEPT ![e].failed = Failure(exec[e].kind, out),
                                  ![e].pc = "return"]
          /\ status' = Write(exec[e].agent,
                             IF out = "permanent" THEN "Error" ELSE "Active")
       \/ /\ out # "err" /\ MayRefuse(exec[e].agent)
          /\ exec' = [exec EXCEPT ![e].failed = Failure(exec[e].kind, out),
                                  ![e].pc = IF out = "permanent" THEN "demote"
                                            ELSE "rewrite"]
          /\ UNCHANGED status
    /\ Only(e)
\* ... or, when that write fails, once more after 100 ms, without a guard.
Rewrite(e) ==
    /\ exec[e].pc \in Rewriting
    /\ \/ /\ status' = Write(exec[e].agent, IF exec[e].pc = "demote"
                                           THEN "Error" ELSE "Active")
          /\ UNCHANGED unsaved
       \/ Refused(exec[e].agent)
    /\ Go(e, "return")
    /\ Quiet /\ UNCHANGED <<slots, handles, recent, leaked>>

\* The guard before it kept the handle map.
ReleaseSlot_slotOnly(e, late) ==
    /\ slots' = IF "slot" \in late THEN slots ELSE slots \ {exec[e].agent}
    /\ UNCHANGED handles
\* RunningSlotGuard::drop: each removal happens at once or, if the lock is
\* taken, later (`late`).  It is keyed by the agent, not by the task.
ReleaseSlot(e, late) ==
    LET mine == {exec[e].agent}
    IN  /\ slots' = IF "slot" \in late THEN slots ELSE slots \ mine
        /\ handles' = IF "handle" \in late THEN handles ELSE Drop(handles, mine)

Ended(x, debts) ==
    IF x.owes \cup debts = {} THEN NoExec
    ELSE [NoExec EXCEPT !.pc = "ended", !.agent = x.agent, !.kind = x.kind,
                        !.owes = x.owes \cup debts]

\* The scheduler's task ends: max_retries is 0 in every agent.
EndScheduled(e, late) ==
    /\ exec[e].kind = "sched" /\ exec[e].pc = "return"
    /\ exec' = [exec EXCEPT ![e] = Ended(@, late)]
    /\ ReleaseSlot(e, late)
    /\ Quiet /\ UNCHANGED <<status, recent, leaked, unsaved>>

\* Retries without a limit.
RetryEvent_unbounded(e) ==
    /\ exec[e].kind = "event" /\ exec[e].pc = "return"
    /\ exec[e].failed
    /\ exec' = [exec EXCEPT ![e].pc = "start", ![e].try = @ + 1]
    /\ Only(e) /\ UNCHANGED status
\* execute_with_retry: one more attempt after a failure, permits kept.
RetryEvent(e) ==
    /\ exec[e].kind = "event" /\ exec[e].pc = "return"
    /\ exec[e].failed /\ exec[e].try = 1
    /\ exec' = [exec EXCEPT ![e].pc = "start", ![e].try = 2]
    /\ Only(e) /\ UNCHANGED status

\* A second failure clears the cooldown of the agent.
EndEvent(e) ==
    /\ exec[e].kind = "event" /\ exec[e].pc = "return"
    /\ exec[e].failed => exec[e].try = 2
    /\ recent' = IF exec[e].failed THEN Drop(recent, {exec[e].agent})
                 ELSE recent
    /\ exec' = [exec EXCEPT ![e] = Ended(@, {})]
    /\ Quiet /\ UNCHANGED <<status, slots, handles, leaked, unsaved>>

\* execute_agent_now: Executing is written before execute_agent is called (or
\* cannot be, and nothing is run); no permit is taken.
ManualStart(a, e) ==
    /\ Op("manual", a)
    /\ IsNext(e) /\ status[a] # "Absent"
    /\ \/ /\ status' = Write(a, "Executing")
          /\ exec' = [exec EXCEPT ![e] = [Spawned(a, "manual")
                                              EXCEPT !.pc = "start"]]
       \/ MayRefuse(a) /\ UNCHANGED <<status, exec>>
    /\ UNCHANGED <<now, flags, sched, recent, listener, request, sweep,
                   leaked, unsaved>>

\* mark_manual_execution, then the second status write.
ManualEnd(e) ==
    /\ exec[e].kind = "manual" /\ exec[e].pc = "return"
    /\ LET a == exec[e].agent
       IN  /\ recent' = IF Schedule[a] = "event" /\ status[a] # "Absent"
                        THEN Put(Drop(recent, DOMAIN recent \ Fresh), a, now)
                        ELSE recent
           /\ \/ /\ status' = Write(a, IF exec[e].failed THEN "Error"
                                       ELSE IF Schedule[a] = "manual"
                                       THEN "Completed" ELSE "Active")
                 /\ UNCHANGED unsaved
              \/ Refused(a)
    /\ exec' = [exec EXCEPT ![e] = Ended(@, {})]
    /\ Quiet /\ UNCHANGED <<slots, handles, leaked>>

\* Between the two tries of the last write no guard is armed.
NotWritten(e) == unsaved' = IF exec[e].pc \in Rewriting
                            THEN unsaved \cup {exec[e].agent} ELSE unsaved
\* An execution without a status guard.
Unwind_noStatusGuard(e, late) ==
    /\ exec[e].aborted /\ exec[e].pc # "ended"
    /\ LET guarded == exec[e].kind = "sched" /\ exec[e].pc # "queued"
       IN  /\ exec' = [exec EXCEPT ![e] =
                          Ended(@, IF guarded THEN late ELSE {})]
           /\ IF guarded THEN ReleaseSlot(e, late) ELSE UNCHANGED <<slots,
                                                                    handles>>
    /\ NotWritten(e)
    /\ Quiet /\ UNCHANGED <<status, recent, leaked>>
\* A slot removed at the end of the task body instead of by a guard.
Unwind_noSlotGuard(e, late) ==
    /\ exec[e].aborted /\ exec[e].pc # "ended"
    /\ exec' = [exec EXCEPT ![e] =
                  Ended(@, IF exec[e].pc = "body" THEN {"status"} ELSE {})]
    /\ NotWritten(e)
    /\ Quiet /\ UNCHANGED <<status, slots, handles, recent, leaked>>
\* An aborted task is dropped at an await: its permits are released, an armed
\* status guard spawns the reset, and the slot guard runs, if the task was
\* ever polled.
Unwind(e, late) ==
    /\ exec[e].aborted /\ exec[e].pc # "ended"
    /\ LET guarded == exec[e].kind = "sched" /\ exec[e].pc # "queued"
           debts == (IF exec[e].pc = "body" THEN {"status"} ELSE {})
                    \cup (IF guarded THEN late ELSE {})
       IN  /\ exec' = [exec EXCEPT ![e] = Ended(@, debts)]
           /\ IF guarded THEN ReleaseSlot(e, late) ELSE UNCHANGED <<slots,
                                                                    handles>>
           /\ leaked' = IF exec[e].kind = "sched" /\ ~guarded
                        THEN leaked \cup {exec[e].agent} ELSE leaked
    /\ NotWritten(e)
    /\ Quiet /\ UNCHANGED <<status, recent>>

Paid(x, d) == IF x.pc = "ended" /\ x.owes = {d} THEN NoExec
              ELSE [x EXCEPT !.owes = @ \ {d}]

\* A deferred clean-up runs: the status reset (whose failure is ignored), the
\* slot or the handle.
PayDebt(e, d) ==
    /\ d \in exec[e].owes
    /\ \/ /\ status' = IF d = "status" THEN Write(exec[e].agent, "Active")
                       ELSE status
          /\ UNCHANGED unsaved
       \/ d = "status" /\ Refused(exec[e].agent)
    /\ slots' = IF d = "slot" THEN slots \ {exec[e].agent} ELSE slots
    /\ handles' = IF d = "handle" THEN Drop(handles, {exec[e].agent})
                  ELSE handles
    /\ exec' = [exec EXCEPT ![e] = Paid(@, d)]
    /\ Quiet /\ UNCHANGED <<recent, leaked>>

-----------------------------------------------------------------------------
(* Manager and process: start, stop, shutdown, crash *)

\* reload_active_agents without reset_stale_executing_agents.
ManagerStart_noReset(R) ==
    /\ ~started /\ loop.pc = "off"
    /\ started' = TRUE /\ running' = TRUE /\ sweep' = TRUE
    /\ LET live == {a \in Agent : status[a] = "Active"
                                  /\ Schedule[a] # "event"}
       IN  tasks' = [a \in DOMAIN tasks \cup live |->
                       IF a \in live THEN ScheduledTask(a, "Active")
                       ELSE tasks[a]]
    /\ loop' = [loop EXCEPT !.pc = "idle"]
    /\ UNCHANGED <<now, stopping, status, slots, handles, recent, listener,
                   exec, request, ops, leaked, unsaved>>
\* Executing and Error agents become Active (but R, whose reset fails), the
\* Active ones are scheduled and the tick loop starts.  Bound: the loop of an
\* earlier run has ended.
Stale == {a \in Agent : status[a] \in {"Executing", "Error"}}
ManagerStart(R) ==
    /\ ~started /\ loop.pc = "off"
    /\ started' = TRUE /\ running' = TRUE /\ sweep' = TRUE
    /\ status' = [a \in Agent |-> IF a \in Stale \ R THEN "Active"
                                  ELSE status[a]]
    /\ LET live == {a \in Agent : status'[a] = "Active"
                                  /\ Schedule[a] # "event"}
       IN  tasks' = [a \in DOMAIN tasks \cup live |->
                       IF a \in live THEN ScheduledTask(a, "Active")
                       ELSE tasks[a]]
    /\ loop' = [loop EXCEPT !.pc = "idle"]
    /\ UNCHANGED <<now, stopping, slots, handles, recent, listener, exec,
                   request, ops, leaked, unsaved>>

\* The event listener's own start-up sweep, a task that may run late.
StartupSweep ==
    /\ sweep
    /\ sweep' = FALSE
    /\ \E R \in SUBSET {a \in Agent : MayRefuse(a)} :
           status' = [a \in Agent |-> IF status[a] = "Executing" /\ a \notin R
                                     THEN "Active" ELSE status[a]]
    /\ UNCHANGED <<now, flags, sched, recent, listener, exec, request, ops,
                   leaked, unsaved>>

\* stop() lowers the flags, then drains the handles and aborts their tasks.
StopFlag ==
    /\ Op("stop", Nobody)
    /\ started /\ ~stopping
    /\ started' = FALSE /\ running' = FALSE /\ stopping' = TRUE
    /\ UNCHANGED <<now, status, sched, recent, listener, exec, request, sweep,
                   leaked, unsaved>>

StopDrain ==
    /\ stopping /\ stopping' = FALSE
    /\ exec' = [e \in Exec |->
                  IF \E a \in DOMAIN handles : handles[a] = e
                  THEN [exec[e] EXCEPT !.aborted = TRUE] ELSE exec[e]]
    /\ handles' = <<>>
    /\ UNCHANGED <<now, status, started, running, tasks, slots, recent, loop,
                   listener, request, sweep, ops, leaked, unsaved>>

\* abort_event_tasks, at shutdown.
AbortEvents ==
    /\ Op("shutdown", Nobody)
    /\ exec' = [e \in Exec |->
                  IF /\ exec[e].kind = "event"
                     /\ exec[e].pc \notin {"free", "ended"}
                  THEN [exec[e] EXCEPT !.aborted = TRUE] ELSE exec[e]]
    /\ UNCHANGED <<now, status, flags, sched, recent, listener, request, sweep,
                   leaked, unsaved>>

\* The process dies: what is in memory is gone.
Crash ==
    /\ Op("crash", Nobody)
    /\ started' = FALSE /\ running' = FALSE /\ stopping' = FALSE
    /\ sweep' = FALSE
    /\ tasks' = <<>> /\ slots' = {} /\ handles' = <<>> /\ loop' = LoopOff
    /\ recent' = <<>> /\ listener' = Nobody
    /\ exec' = [e \in Exec |-> NoExec]
    /\ request' = [q \in Request |-> NoRequest]
    /\ leaked' = {}
    /\ UNCHANGED <<now, status, unsaved>>

-----------------------------------------------------------------------------
(* The API handlers.  Each store or scheduler call is a step of its own. *)

Begin(q, op, a, pc, snap) ==
    request' = [request EXCEPT ![q] = [op |-> op, agent |-> a, pc |-> pc,
                                       snap |-> snap]]
Finish(q) == request' = [request EXCEPT ![q] = NoRequest]
Handler == UNCHANGED <<now, flags, slots, handles, loop, recent, exec, sweep,
                       leaked, unsaved>>

\* create_agent: the agent is saved as Active, then scheduled.
Create(q, a) ==
    /\ Op("create", a)
    /\ request[q].pc = "free"
    /\ status[a] = "Absent"
    /\ status' = [status EXCEPT ![a] = "Active"]
    /\ Begin(q, "create", a, "sync", "Active")
    /\ Handler /\ UNCHANGED <<tasks, listener>>

\* set_agent_status: the status is written, then the scheduler is told.
SetStatus(q, a, s) ==
    /\ Op("status", a)
    /\ request[q].pc = "free"
    /\ status' = Write(a, s)
    /\ Begin(q, "status", a, "sync", s)
    /\ Handler /\ UNCHANGED <<tasks, listener>>

\* update_agent reads the agent, applies the request to what it read and saves
\* the whole record.  The request carries a status or, in an edit, none.
UpdateRead(q, a, s) ==
    /\ request[q].pc = "free" /\ status[a] # "Absent"
    /\ \/ Op("edit", a) /\ s = status[a]
       \/ Op("update", a) /\ s \in {"Active", "Paused", "Error"}
    /\ Begin(q, "update", a, "save", s)
    /\ Handler /\ UNCHANGED <<status, tasks, listener>>

UpdateSave(q) ==
    /\ request[q].op = "update" /\ request[q].pc = "save"
    /\ status' = [status EXCEPT ![request[q].agent] = request[q].snap]
    /\ request' = [request EXCEPT ![q].pc = "sync"]
    /\ Handler /\ UNCHANGED <<tasks, listener, ops>>

\* What the scheduler is told by the request that holds status s.
Sync(op, a, s) ==
    CASE op = "status" /\ s = "Active" ->
            IF status[a] # "Absent" /\ Schedule[a] # "event"
            THEN Put(tasks, a, ScheduledTask(a, status[a])) ELSE tasks
      [] op = "status" /\ s = "Paused" -> Drop(tasks, {a})
      [] op \in {"create", "update"} /\ s = "Active" /\ Schedule[a] # "event" ->
            Put(tasks, a, ScheduledTask(a, s))
      [] op = "update" /\ s # "Active" -> Drop(tasks, {a})
      [] OTHER -> tasks

\* An update that leaves the old task of an agent that is not Active.
SyncScheduler_keepTask(q) ==
    LET r == request[q]
    IN  /\ r.op \in {"create", "status", "update"} /\ r.pc = "sync"
        /\ tasks' = IF r.op = "update" /\ r.snap # "Active" THEN tasks
                    ELSE Sync(r.op, r.agent, r.snap)
        /\ Finish(q)
        /\ Handler /\ UNCHANGED <<status, listener, ops>>
SyncScheduler(q) ==
    LET r == request[q]
    IN  /\ r.op \in {"create", "status", "update"} /\ r.pc = "sync"
        /\ tasks' = Sync(r.op, r.agent, r.snap)
        /\ Finish(q)
        /\ Handler /\ UNCHANGED <<status, listener, ops>>

\* delete_agent: unschedule, drop from the event cache, delete the row.
Delete(q, a) ==
    /\ Op("delete", a)
    /\ request[q].pc = "free" /\ status[a] # "Absent"
    /\ tasks' = Drop(tasks, {a})
    /\ Begin(q, "delete", a, "cache", status[a])
    /\ Handler /\ UNCHANGED <<status, listener>>

DeleteCache(q) ==
    /\ request[q].op = "delete" /\ request[q].pc = "cache"
    /\ listener' = IF listener = request[q].agent THEN Nobody ELSE listener
    /\ request' = [request EXCEPT ![q].pc = "store"]
    /\ Handler /\ UNCHANGED <<status, tasks, ops>>

DeleteStore(q) ==
    /\ request[q].op = "delete" /\ request[q].pc = "store"
    /\ status' = [status EXCEPT ![request[q].agent] = "Absent"]
    /\ Finish(q)
    /\ Handler /\ UNCHANGED <<tasks, listener, ops>>

\* The client hangs up: the handler is dropped at an await, its calls before
\* that made, those after it not.  The scheduler's part of an update is two.
Disconnect(q) ==
    LET r == request[q]
    IN  /\ r.pc # "free" /\ Op("drop", r.agent)
        /\ \/ UNCHANGED tasks
           \/ /\ r.op = "update" /\ r.pc = "sync"
              /\ tasks' = Drop(tasks, {r.agent})
        /\ Finish(q)
        /\ Handler /\ UNCHANGED <<status, listener>>

-----------------------------------------------------------------------------
Outcomes == {"ok", "transient", "permanent", "err"}

Execution(e) ==
    \/ Poll(e) \/ AcquireGlobal(e) \/ AcquireBackend(e) \/ StartExecution(e)
    \/ \E out \in Outcomes : FinishExecution(e, out)
    \/ \E late \in Late : EndScheduled(e, late)
    \/ Rewrite(e) \/ RetryEvent(e) \/ EndEvent(e) \/ ManualEnd(e)

Cleanup(e) ==
    \/ \E late \in Late : Unwind(e, late)
    \/ \E d \in {"status", "slot", "handle"} : PayDebt(e, d)

Scheduling ==
    \/ LoopCheck \/ LoopReserve
    \/ \E a \in Agent, e \in Exec : LoopSpawn(a, e)
    \/ \E e \in Exec : EventTrigger(e)

Handling(q) ==
    UpdateSave(q) \/ SyncScheduler(q) \/ DeleteCache(q) \/ DeleteStore(q)

Environment ==
    \/ Tick
    \/ \E a \in Agent : EventArrives(a)
    \/ \E a \in Agent, e \in Exec : ManualStart(a, e)
    \/ \E q \in Request, a \in Agent :
           \/ Create(q, a) \/ Delete(q, a)
           \/ \E s \in {"Active", "Paused", "Error"} : SetStatus(q, a, s)
           \/ \E s \in Statuses : UpdateRead(q, a, s)
    \/ StartupSweep \/ StopFlag \/ StopDrain \/ AbortEvents \/ Crash

\* Whom an agent is busy with: executions reserved, running or unwinding, and
\* the requests about it.
Execs(a) == {e \in Exec : exec[e].agent = a}
Requests(a) == {q \in Request : request[q].agent = a}
InUse(a) == a \in loop.due \/ Execs(a) # {} \/ listener = a
Contended(a) == /\ Requests(a) # {}
                /\ \/ InUse(a) \/ status[a] = "Executing"
                   \/ Cardinality(Requests(a)) > 1 \/ ~started

\* An agent that is neither Active nor scheduled is run by hand.
Revived == {a \in Agent \ DOMAIN tasks :
                /\ status[a] \notin {"Active", "Executing"}
                /\ status'[a] = "Executing"}
Noting(S) ==
    clash' = clash \cup S \cup Revived \cup {a \in Agent : Contended(a)'}

Next ==
    \/ /\ \/ Environment \/ Scheduling
          \/ \E e \in Exec : Execution(e) \/ Cleanup(e)
          \/ \E q \in Request : Handling(q)
       /\ Noting({})
    \/ \E R \in SUBSET {a \in Stale : MayRefuse(a)} : ManagerStart(R) /\ Noting(R)
    \/ \E q \in Request : Disconnect(q) /\ Noting({request[q].agent})

Spec == Init /\ [][Next]_vars

-----------------------------------------------------------------------------
(* Properties *)

TaskRecord == [next: {Never} \cup 0..(MaxTime + Interval), enabled: BOOLEAN]
LoopRecord == [pc: {"off", "idle", "reserve", "spawn"}, due: SUBSET Agent]
ExecRecord == [pc: {"free", "queued", "global", "backend", "ended"} \cup Working,
               agent: Agent \cup {Nobody},
               kind: {"sched", "event", "manual"}, try: 1..2,
               failed: BOOLEAN, owes: SUBSET {"status", "slot", "handle"},
               aborted: BOOLEAN]
RequestRecord == [op: {"none", "create", "status", "update", "delete"},
                  agent: Agent \cup {Nobody},
                  pc: {"free", "save", "sync", "cache", "store"},
                  snap: Statuses]

\* Every variable has its type.
TypeOK ==
    /\ now \in 0..MaxTime /\ ops \in [DOMAIN ops -> Nat]
    /\ status \in [Agent -> Statuses]
    /\ started \in BOOLEAN /\ running \in BOOLEAN /\ stopping \in BOOLEAN
    /\ sweep \in BOOLEAN
    /\ DOMAIN tasks \subseteq Agent
    /\ \A a \in DOMAIN tasks : tasks[a] \in TaskRecord
    /\ slots \subseteq Agent
    /\ DOMAIN handles \subseteq Agent
    /\ \A a \in DOMAIN handles : handles[a] \in Exec
    /\ DOMAIN recent \subseteq Agent
    /\ \A a \in DOMAIN recent : recent[a] \in 0..MaxTime
    /\ loop \in LoopRecord
    /\ listener \in Agent \cup {Nobody}
    /\ exec \in [Exec -> ExecRecord]
    /\ request \in [Request -> RequestRecord]
    /\ leaked \subseteq Agent /\ unsaved \subseteq Agent /\ clash \subseteq Agent

\* No agent is stuck in Executing: while the manager runs, an agent whose row
\* says Executing has an execution that will still write the status, or a
\* reset that is on its way (the status guard), whether the execution ended,
\* failed or was aborted; unless the write that was to end it failed (both
\* tries, the guard's reset, the one by hand), the task was aborted between two
\* tries, or a request wrote the row meanwhile.
WritesStatus(e) == \/ exec[e].pc \in {"body"} \cup Rewriting
                   \/ exec[e].kind = "manual" /\ exec[e].pc # "free"
                   \/ "status" \in exec[e].owes
ExecutingBacked ==
    started => \A a \in Agent :
        status[a] = "Executing" =>
            \/ a \in unsaved \cup clash
            \/ \E e \in Execs(a) : WritesStatus(e)

\* Store and scheduler agree: once everything about it has settled, an Active
\* interval agent has an enabled task, across restarts, failures and aborts,
\* unless a request and an execution met on it, a request about it was dropped
\* or its reset at a start failed.
Settled(a) == started /\ Requests(a) = {} /\ ~InUse(a)
IsScheduled(a) == a \in DOMAIN tasks /\ tasks[a].enabled
ActiveScheduled ==
    \A a \in Agent :
        Settled(a) /\ status[a] = "Active" /\ Schedule[a] = "interval"
            => IsScheduled(a) \/ a \in clash

\* Conversely a paused or deleted agent has no task left in the scheduler.
PausedIdle ==
    \A a \in Agent :
        Settled(a) /\ status[a] \in {"Paused", "Absent"}
            => a \notin DOMAIN tasks \/ a \in clash

\* No slot leaks: a slot of running_executions belongs to an execution that is
\* about to be spawned, runs, or has its removal pending, except those whose
\* task stop() aborted before its first poll.
SlotBacked ==
    slots \subseteq loop.due \cup leaked \cup
        {exec[e].agent : e \in {x \in Exec :
            /\ exec[x].kind = "sched"
            /\ exec[x].pc \in {"free", "ended"} => "slot" \in exec[x].owes}}

\* stop() never aborts the wrong task: a handle in the map is that of an
\* execution of its agent that has not ended.
HandlesLive ==
    \A a \in DOMAIN handles :
        /\ exec[handles[a]].agent = a
        /\ exec[handles[a]].pc = "ended" => "handle" \in exec[handles[a]].owes

\* Scheduled and event executions together stay below the global limit.
GlobalCap ==
    Cardinality({e \in Exec : /\ exec[e].kind # "manual"
                              /\ exec[e].pc \in Working}) <= MaxConcurrent

\* A reservation moves the task to the first point of its grid after now, also
\* when several intervals were missed, and a task that is passed over for lack
\* of a slot stays due.
ReservedOnGrid ==
    [][loop.pc = "reserve" /\ loop'.pc = "spawn" =>
        \A a \in DOMAIN tasks :
            tasks'[a].next # tasks[a].next =>
                /\ a \in loop'.due
                /\ (tasks'[a].next - tasks[a].next) % Interval = 0
                /\ now < tasks'[a].next
                /\ tasks'[a].next <= now + Interval]_tasks
=============================================================================
