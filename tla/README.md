# A TLA+ verification of HeraMind's automation core

HeraMind is an edge IoT platform: devices, extensions and transforms publish
metrics on an event bus; a rule engine turns them into actions; a data-push
subsystem forwards them to webhooks and MQTT brokers; agents run language
models on a schedule; extensions run in processes of their own. This directory
models the four subsystems that keep promises under concurrency, the **rule
engine**, the **data push**, the **agent scheduler** and the **isolated
extensions**, checks them with TLC on small instances and proves every safety
property that the passing runs check with TLAPS, for every instance.

`PROJECT.json` is the index: components, runs, the source lines each definition
translates, hazards, findings, theorems.

## 1. Inventory

| Component | State | Operations | What is hard |
|---|---|---|---|
| Rule engine `heramind-rules/src/engine.rs` | rules map, subscription index, cooldowns, failure counters, value cache, history, each behind its own `parking_lot` lock | `on_data_update`, `evaluate_and_fire`, `execute_rule`, add, update, remove, `set_enabled` | locks are taken one at a time, so a rule is cloned, evaluated, claimed, acted on and written back in separate critical sections while other tasks do the same; saves happen outside the lock |
| Rule handlers `heramind-api/src/handlers/rules.rs` | none | create, import, full and partial update, delete, enable, trigger | read-modify-write across two lock acquisitions; engine first, store afterwards |
| Rule listeners, cron loop, start-up load `server/types.rs` | cron window | device and extension listeners, 30 s tick, `list_all` | several tasks call the engine at once; only the store survives a restart |
| Rule store `heramind-rules/src/store.rs` | redb tables | save, delete, list | last write wins, and writes may come out of order |
| Push manager `heramind-data-push/src/manager.rs` and its handlers | targets in redb | create, update, start, stop, delete, start at boot | save, then scheduler call, with nothing held across both; a client's disconnect drops the future |
| Push scheduler `scheduler.rs` | handle table | start, stop; the worker loops | stop joins outside the lock; an overwritten handle drops its cancel sender |
| Push worker `scheduler.rs`, `filter.rs` | receiver, change map, dedup keys, buffer, permits | receive, filter, batch, flush, deliver with retry, drain | `select!` races, detached deliveries, lag, bounded maps, a final flush with a time limit |
| Event bus `heramind-core/src/eventbus.rs` | broadcast ring | publish, recv | drops the oldest under lag |
| Agent scheduler `heramind-agent/src/ai_agent/scheduler.rs`, manager `mod.rs` | scheduled tasks, `running_executions` (slots), task handles, a global and per-backend semaphores | schedule, unschedule, tick loop, start, stop | slots and handles are keyed by agent, not by task; guards that may clean up later; abort at any await |
| Event trigger `executor/event_trigger.rs` | cache of event agents, `recent_executions` | listener, cooldown, one retry | the same agent by event, by hand and by schedule |
| Agent executor `executor/mod.rs` | the persisted status | `execute_agent` with its status guard | every execution overwrites the one status of the agent, also the pause made meanwhile |
| Agent handlers `handlers/agents.rs` | none | create, update, status, delete, execute | store first, scheduler afterwards; whole records written back |
| Isolated extension `heramind-core/src/extension/isolated/process.rs`, `in_flight.rs` | child process, two pipes, receiver thread, `running`, requests in flight, `active_requests` | start, stop, kill, the calls, `check_resources`, the probe | answers, timeouts, kill and death race; a restart in place shares flags and table with the old receiver |
| Extension manager `isolated/manager.rs` | map of extensions, info cache, loading locks | load, unload, `execute_command` with a lazy restart, death monitor | three locks, one of them removed by name while in use; two ways to restart |
| Messages, devices, storage, transforms, API, LLM backends, CLI, web | | | mostly I/O, prompts or wiring; see `PROJECT.json` |

How they meet: a device metric goes to the bus; the device and extension
listeners cache its value and call `on_data_update`; each push worker has its
own receiver on the same bus. A transform publishes its result twice, under its
own and under the device's namespace. HTTP handlers run on tasks of their own
and call the engine, the push manager, the agent manager and the extension
manager concurrently with all of it. Rules, push targets and agents are rebuilt
from redb at start-up. The bus also feeds the event trigger of the agents; the
receiver thread of an extension tells the death monitor when its process ends.

What makes each of them correct:

* rules: a rule fires at most once per cooldown, whoever evaluates it; a rule
  that always fails is paced; `for_duration` counts only time in which the
  condition held; the trigger count is exact; the index never goes stale; the
  store says what the engine does;
* push control: no worker runs out of reach; every request is answered; a
  target runs when the store says so;
* push data: in-flight work is bounded; every accepted event has one fate;
  batches keep their order; logs end; a partial batch is flushed; a worker that
  is told to stop stops;
* agents: no agent is stuck in Executing; store and scheduler agree once things
  have settled; slots and handles belong to live executions; the global limit
  holds; missed intervals are caught up on the grid;
* extensions: the flag `running` means a served process; the request table
  holds the waiting requests; calls return; a hung process is killed; a process
  that dies by itself is announced, and an announced death handled; one process
  per extension is in use, and a crash loop is cut. A process that the probe, a
  timeout or a stop kills need not be announced: the signal of the kill may
  reach its receiver first, although the comments at `process.rs` 1340-1342 and
  2895-2898 expect a notification there.

## 2. Modules

```
RuleEngine  <-- RuleEngineProofs
            <-- MCRuleEngine      RuleFiring RuleRestart
                                  RuleUpdateRace RuleSaveRace
PushManager <-- PushManagerProofs
            <-- MCPushManager     PushLifecycle PushStopRace
PushWorker  --> PushWorkerLife    (refinement)
            <-- PushWorkerProofs
            <-- MCPushWorker      PushDelivery PushInflight
AgentScheduler   <-- AgentSchedulerProofs
                 <-- MCAgentScheduler     AgentRuns
ExtensionProcess <-- ExtensionProcessProofs
                 <-- MCExtensionProcess   ExtensionCalls
ExtensionManager <-- ExtensionManagerProofs
                 <-- MCExtensionManager   ExtensionRestarts ExtensionSelfLock
```

**RuleEngine.** `rules`, `subscription_index`, `cooldowns`, `failures`,
`value`, `history` are the engine's maps, `rule_store` the redb store. Each
`t \in Task` is a tokio task; `pc[t]` is its place in the entry point `via[t]`,
`snap[t]` the clone of the rule it works on, `pend[t]` the snapshot it will
save. An action is one critical section, so interleavings between lock
acquisitions are exactly those of the code. `evaluate_and_fire` (`via = "data"`)
and `execute_rule` (`"call"`, `"cron"`) share their steps and differ in guards:
only the data path looks at `enabled` and requires a condition, only
`execute_rule` counts failures and refunds. `Restart` may strike between any
two steps. `audit` is a history variable that only properties read.

Abstractions: a condition is the conjunction of its leaves; the actions of a
rule together end with some success, only failures, or there are none; the
entries of an index list are taken in any order (the code has a fixed but
arbitrary `HashMap` order); names, `last_triggered`, DSL previews, published
events and persisted history are left out, as are store errors and panics
inside an evaluation. A body's `state` field is taken as empty on create and
import. A request for an unknown rule (404) changes nothing and is no step.

**PushManager.** `store`, `handles` and every spawned worker as a record
(`st`, `signal`). Each request is a `Task`; store transactions and critical
sections on the handle table are actions. `held[q]` is the handle a request
owns between taking it out and joining, or between spawning and inserting.
`Disconnect` drops a request at its await points with whatever it holds.
A configuration in `Broken` is one whose worker ends as it starts (no
destination, no bus, a zero interval) while its handle stays.
`test_target`, logs and listings are left out; `stop_all` has no caller.

**PushWorker.** One target over successive runs. `loop` is the worker's task,
`delivery` every delivery ever started with its log status; immediate
deliveries are detached tasks, batches are awaited by the loop. `bus` is the
worker's receiver, lag included. Durations are not modelled: a timer may fire
at any time after it is armed, which includes every real timing. The patterns
and event types of a filter are reduced to the set of sources it lets through,
a template to whether it renders, a 429 to an error (it only changes the
backoff's length). A process crash is in PushManager, not here. The bus never
closes, since the worker's task holds it. `Retain`, the `buffer.retain` of
`flush_batch`, says which positions stay instead of how the list is walked, so
that it can be reasoned about; MCPushWorker assumes that it is
`SelectSeq(es, NotRaw)` on every batch of up to four events, and TLC evaluates
that assumption before its runs.

**PushWorkerLife.** What PushManager assumes of a worker: it runs until its
cancel channel says something, then drains, then returns. `PushWorker` is shown
to implement it (`LivesAsScheduled`), which is what allows PushManager to treat
a worker as three states.

**AgentScheduler.** `status` is the persisted status of each agent; `tasks`,
`slots`, `handles` are the scheduler's maps, `recent` the dedup map of the
event trigger. Each `exec[e]` is an execution task of one of three kinds
(scheduled, event, manual) that moves from queued over the permits to
`execute_agent` and its return; `owes` holds what its guards deferred (the
status reset, the slot, the handle). Stop drains the handles and aborts,
shutdown aborts the event tasks, and `Unwind` is the drop of an aborted task at
an await, with or without its guards. Requests write the store and tell the
scheduler in separate steps, and `Disconnect` drops a request between the two.
A scenario with `"refuse"` lets the writes of a status fail: the one
that begins an execution, the one that ends it and its retry (`Rewrite`, with
the guard disarmed), the reset of the guard (`PayDebt`), those of an execution
by hand and those of a start. `clash`, `leaked` and `unsaved` are histories.

Abstractions: a read-modify-write inside one store call is one step (the call
is a read and a write transaction); a request whose own store call fails
changes nothing and is no step; an execution by hand runs in a task that its
handler spawns, so a disconnect does not end it; the LLM's work is its outcome
(completed, transient or permanent failure, unsaved record); an event matches
one agent and an agent one source; schedules are interval, event or manual
(cron differs only in the next time); `max_retries` is 0, so the scheduler's
in-place retry is not there; a new start waits until the tick loop of the last
run has seen the flag; the start-up sweep, spawned at the start, runs before
the first second is over.

**ExtensionProcess.** One `IsolatedExtension`. A spawn is an epoch with its own
process, pipes and receiver thread (`proc`, `inbox`, `outbox`, `recv`);
`running`, `pending`, `active` and the rest are the fields the epochs share.
`pc` is the place of each caller, of the owner (start, publish, stop or drop)
and of the probe. The runner answers in order (its message pump) or refuses;
that it hangs, or dies between frames or within one, is left to the
environment. A timeout may fire whenever its task waits, which includes every
real timing. `CallDropped` is a client that hangs up: the handler's future is
dropped where it awaits, and the entry of its request stays in the table.
`DropObject` hands the child of a failed start to a thread, and `DropKills`,
later, is that thread.

Abstractions: registering a request and writing it is one step unless the
write blocks; six kinds of call stand for all, by whether they count against
the limit, check resources and cancel their entry on a timeout; a pipe holds
`Pipe` messages; an overrun of memory happens once per check; the branch at
80 % of the memory limit, which sends the runner a `gc_memory` command, is left
out; `Drop` gets the lock of the process (`try_lock`; an owner drops the object
when nobody else holds it). The session registry, push output, event push
and the capability requests of an extension do not touch this state.

**ExtensionManager.** One extension id; objects are what `load` creates, each
starting, up, leaving (given up, with a child that its `Drop` has not killed
yet) or dead; the inside is ExtensionProcess. `ext` is the entry of the map
under its read-write lock, `table` the entry of `loading_locks` with its
mutexes, `info` the restart counters, `at` the place of each task: commands,
loads, unloads and the death monitor. `bell` counts the notifications in the
death channel, which holds `Capacity` and is shared with the extensions of
other ids (`OthersDie`); when it overflows, `MonitorLags` subscribes anew and
skips what waits. `Blocks` is a write into the full pipe of a runner that does
not read, with the locks its task holds, and `Disconnect` a client that hangs
up. `torn` records that a mutex in use was taken out of the table or a live
object out of the map, `lost` the deaths whose notification was skipped.

Abstractions: a capability provider is configured, without which no death is
announced; the monitor scans the one id (others are the noise in the channel);
the descriptor and subscription requests of a load are part of its start.

## 3. Runs

| Run | Instance | Shows |
|---|---|---|
| RuleFiring | 1 rule, 1 source named twice in its condition, 2 tasks (symmetric), clock 0..2, 3 calls | TypeOK, IndexFresh, EarlyFiresPaid, FiresAccounted, SinceAfterUnmet, NoDoubleFire |
| RuleRestart | 2 rules, 2 sources, 1 task, 4 calls, 1 crash | StoreInSync when calls do not overlap |
| PushLifecycle | 1 target, 2 configurations (one broken), 2 concurrent requests, 3 calls, 1 restart, disconnects | TypeOK, NoLeak, RunningMatchesStore, OrphanExits, RequestsReturn |
| PushDelivery | 3 sources (one raw, two the twins of a transform), 3 events, 2 runs, 1 permit, buffer cap 2, change map cap 2, bus capacity 2; immediate, unrenderable, batched and interval configurations | TypeOK, PermitCap, OneFate, LogTerminal, BatchesInOrder, BufferDrains, LivesAsScheduled |
| AgentRuns | 3 agents (two interval, one event), 2 executions, 2 requests, 1 permit, interval 2; a scenario of ticks alone with the clock to 7, and fourteen that pair the operations within four ticks: update, edit, status, delete, create, manual, event, a dropped request, a store that refuses, stop, shutdown, crash | TypeOK, ExecutingBacked, ActiveScheduled, PausedIdle, SlotBacked, HandlesLive, GlobalCap, ReservedOnGrid |
| ExtensionCalls | 2 calls, 2 spawns, limit 1, pipe of 2, 2 failed probes; nine scenarios over the kinds of call, stop, probe and the faults cut, spawn, refuse, hang, memory, final (no restart on crash) and drop (clients hang up) | TypeOK, ServedWhileRunning, LiveIsRunning, TableOwned, ActiveBacked, CallsReturn, HangKilled, CrashAnnounced |
| ExtensionRestarts | 2 commands, 1 load, 1 unload and the monitor, 3 objects, a channel of 1, 1 attempt per hour of 2, clock 0..2; eight scenarios over the calls, with failing starts, clients that hang up, blocked writes, deaths of other extensions, no manifest, no restart on crash | TypeOK, SingleProcess, BurstBounded, CrashHandled, CallsReturn |

Why the bounds are enough to matter. Every cooldown and `for_duration` is at
most 2, so the clock covers before, at and after the window. Two tasks are what
each race needs, and a source named twice gives one task two evaluations of the
same rule in one call. Three calls let a third actor disturb two that race.
Each cap of PushDelivery is below the number of events, so every limit is hit:
the permit, the buffer cap (reached before `batch_size`), the eviction, the
lag. A scenario names the operations of a behaviour, and TLC explores every
interleaving of them with the ticks, executions, failures and clean-ups; a
product of all operations would only add behaviours that pair operations no
property relates. In AgentRuns an interval of 2 and a clock to 7 let an agent
miss up to two points of its grid and be reserved between two of them, where a
step of one second or a next time counted from now would leave the grid; four
ticks make an agent due twice, so it overlaps with its own earlier execution,
and one permit makes the second execution wait. In ExtensionCalls a limit of 1
is passed by two batches and not by two commands, a batch beside a command
shows both, a second spawn gives the late receiver of the first, and two
messages fill the pipe. In ExtensionRestarts one attempt per hour makes the
policy refuse the second restart and the clock reaches the fresh budget; a
channel of 1 overflows as soon as a death elsewhere meets one here (the code's
holds 16), and three objects leave room for the child of a given-up start
beside the next process. The theorems of section 5 have no bounds.

Five runs are expected to be violated: each states what a comment, the
changelog or a response says, and TLC shows a behaviour of the code against it.

| Run | Property | What happens |
|---|---|---|
| RuleUpdateRace | SinceAfterUnmetAlways | an update handler writes back the `condition_since` it read before an evaluation reset it |
| RuleSaveRace | StoreInSync | a save made after the rules lock was released overwrites a newer one: a disabled rule is enabled again after a restart |
| PushStopRace | StoppedNotRunning | a start racing a stop: both are answered, the target runs and is stored as stopped |
| PushInflight | PermitCapPerTarget | the permits belong to a run, the comment says per target; a restarted target has up to twice the cap in flight |
| ExtensionSelfLock | LazyRestartEnds | the comment promises a handle or None; `try_lazy_restart` holds the loading mutex when it calls `load`, which waits for that mutex, so a command whose extension died never returns |

These are also why three properties carry a condition: SinceAfterUnmet and
FiresAccounted speak of rules no handler replaced, RunningMatchesStore of
targets whose requests did not overlap.

One more divergence needs no interleaving and has no run: the changelog
(965-966) says that the cooldown is refunded when all actions of a firing fail,
and `evaluate_and_fire`, the path of every data-change rule, never does it;
only `execute_rule` refunds, which is what the model says.

### Exceptions the properties name

The agent and extension properties hold up to exceptions, each a behaviour of
the code that the model reproduces (drop the exception and TLC shows it, but
for the one noted below):

* `clash` (ActiveScheduled, PausedIdle, ExecutingBacked): an edit of a running
  agent saves the record it read, status Executing included, and unschedules
  it; the end of the execution makes it Active without a task. A pause or a
  delete during an execution, a request about an agent whose row was left in
  Executing, and requests that overlap, end in the same way. So does a client
  that hangs up between the store write and the call of the scheduler, and an
  agent whose reset at a start fails is not among the Active ones that are
  scheduled.
* `unsaved` (ExecutingBacked): the write that ends an execution failed twice,
  was aborted between its tries (the guard is disarmed by then), or the guard's
  own reset failed; the code logs "Agent may be stuck in Executing status" and
  the agent stays there until the next start.
* `leaked` (SlotBacked): stop() aborts a task that was never polled, so its
  slot guard does not exist and the slot stays.
* `epoch > 1` (LiveIsRunning): after a restart in place the receiver of the old
  process may clear `running` of the new one.
* `Leaked`, `LeftOver` (TableOwned, HangKilled): a streaming call that times
  out, a call whose message cannot be sent or whose client hangs up, and a start
  whose Init cannot be sent or that is dropped, leave their entry in the table,
  and the probe skips while there is one.
* `Blocked`, `Wedged` (both CallsReturn, HangKilled, CrashHandled): a blocking
  write to the full pipe of a runner that does not read. The task keeps its
  locks, so the manager's commands, loads and unloads wait with it. CrashHandled
  needs this one only when extensions of several ids share the lock of the map,
  which is beyond the one id of the model.
* `shut[e]` (CrashAnnounced): a kill or a stop signals the receiver before it
  has seen the end of the process.
* `lost` (CrashHandled): the death channel overflowed and the monitor skipped
  the notification.
* `torn` (SingleProcess, BurstBounded): unload or a failed load removes the
  loading mutex while another task uses it, or a restart removes a live object.
  The child of a given-up object is not counted by SingleProcess.
* `Doomed` (CallsReturn, CrashHandled): a task waits for a mutex whose holder,
  in the end, waits for itself. Only the tasks of such a chain are exempt. Every
  lazy restart of an extension with a manifest that reaches its load ends there
  (ExtensionSelfLock).

Clients that hang up are modelled in PushManager, AgentScheduler,
ExtensionProcess and ExtensionManager. BurstBounded speaks of the restarts of
the manager; those in place of `check_resources` have a counter of their own
(`crashes`).

GlobalCap speaks of the global permit only: a manual execution takes none, and
the backend permit of an event execution is dropped as soon as it is acquired.

All runs use `CHECK_DEADLOCK FALSE`: the bounds on time, calls, events and runs
end every behaviour; that nobody waits for ever is what RequestsReturn,
OrphanExits, LivesAsScheduled and the two CallsReturn say, up to the exceptions
above.

## 4. Fairness

* PushManager: weak fairness of each request's own steps and of each worker's
  reaction to its cancel channel. tokio polls every ready task; the final flush
  has a 30 s limit, so `WorkerExit` comes. Clients, disconnects and restarts
  are not fair.
* PushWorker: weak fairness of each delivery (a webhook send has a request
  timeout, an MQTT one bounded waits; a backoff is a sleep) and of the task's
  return; strong fairness of the timer and cancel arms of `select!`, which
  chooses among ready arms at random, so an arm that is ready again and again
  is taken even if events keep the other arm ready. Publishers, stops and
  starts are not fair.
* ExtensionProcess: weak fairness of each receiver thread, of the owner, of each
  call (its wait has a timeout) and of the probe. The runner is not fair: it may
  hang or never answer, and a write into its full pipe is then not enabled.
  Nobody has to call, to hang up or to unload. The thread of `Drop` is part of
  the owner: it kills after three seconds.
* ExtensionManager: weak fairness of each task's own steps: a start ends within
  its timeout, and a command, a health check and a stop end unless they block
  in a write (`Blocked`, for as long as the process lives), which is what
  ExtensionProcess!CallsReturn shows of a call and its owner's fairness of a
  stop. The thread of `Drop` is fair. Deaths, blocked writes, disconnects, time
  and the arrival of calls are not.
* RuleEngine, AgentScheduler: no liveness is claimed.

## 5. Proofs

Six modules of theorems, one per component, each for every value of the
constants. What they assume is in the `ASSUME`s of the component's module, and
TLC evaluates those on every run: constants have their types, bounds are
natural numbers, limits are at least 1, defaults are chosen from non-empty
sets, names do not collide. Sets may be infinite except where a theorem counts
their members: the tasks of RuleEngine, the requests of AgentScheduler and the
callers of ExtensionProcess are finite.

Every invariant and every action property of a passing run is a theorem.

| Module | Theorem | States |
|---|---|---|
| RuleEngineProofs | TypeCorrect, IndexAlwaysFresh, NoDoubleFireHolds, SinceAfterUnmetHolds | TypeOK, IndexFresh, NoDoubleFire, SinceAfterUnmet |
| | NoFireUncounted, PacingHolds, NothingUnsaved | FiresAccounted, EarlyFiresPaid, StoreInSync |
| PushManagerProofs | PushTypeCorrect, NoWorkerLeaks, StoreDecides | TypeOK, NoLeak, RunningMatchesStore |
| PushWorkerProofs | TypeCorrect, PermitsHold, LogsAreTerminal, NoneLostOrDoubled, BatchOrder | TypeOK, PermitCap, LogTerminal, OneFate, BatchesInOrder |
| | LivesSafely | `Spec => Life!Spec`, the refinement without its fairness |
| AgentSchedulerProofs | TypeCorrect, NoSlotLeaks, HandlesAreLive, LimitKept | TypeOK, SlotBacked, HandlesLive, GlobalCap |
| | NoneStuckExecuting, ActiveAreScheduled, PausedAreIdle, ReservationsOnGrid | ExecutingBacked, ActiveScheduled, PausedIdle, ReservedOnGrid |
| ExtensionProcessProofs | TypeCorrect, RunningIsServed, NoneWrittenOff, EntriesOwned, CountExact | TypeOK, ServedWhileRunning, LiveIsRunning, TableOwned, ActiveBacked |
| ExtensionManagerProofs | TypeCorrect, OneProcess, BurstsAreCut | TypeOK, SingleProcess, BurstBounded |

The arguments, and why each invariant needs its strengthening:

**RuleEngine.** `TypeOK` is inductive as it stands.

* `IndexFresh` is inductive relative to it. Steps that write `rules` either
  keep every definition, and then `SameIndex` says the index is unchanged, or
  leave the task at `"rebuild"`, where the property claims nothing; the rebuild
  reads and writes in one critical section.
* `NoDoubleFire` is an action property. `cooldowns` may be emptied by a refund
  or a removal of another task, so it needs `ClaimHeld`: a rule whose last claim
  is not excused still has that claim in `cooldowns`. `ClaimGuard` then turns
  the test inside `try_claim_cooldown` into the claim.
* `SinceAfterUnmet` needs `UnmetPast` (no evaluation lies in the future), since
  a clock started now must be no older than the last unmet evaluation.
* `FiresAccounted` and `EarlyFiresPaid` are counts and are proved together
  (`Tallies`). The first is inductive: a claim adds the task to `FiringOn(r)`,
  `update_rule_state_after_trigger` moves it from there to `trigger_count`. The
  second is not: it forgets the refunds that have been granted and not used.
  `RefundsPaid` counts them, those given (`excuse = "refund"`) and those still
  to be given (`RefundingOn(r)`), against the streaks of failures; `ClaimHeld`
  says that only such a refund makes an early claim possible.
* `StoreInSync` is proved under the conditions of its run: one task, and no
  import, which saves nothing. `Behind(t)` says for each place of the task by
  which record the store is behind the rules, and it is always the one the task
  is about to save or delete. RuleSaveRace shows that two tasks break it.

**PushManager.** `Inv == TypeOK /\ BootFirst /\ NoLeak`. `BootFirst` says that
while targets are being started at boot there are no requests and those targets
have no handle, without which a boot start could overwrite a handle. Ownership
(`held`) is part of the type invariant. RunningMatchesStore speaks of states at
rest only; `Matching` says what holds in between. A target that is not tainted
has one request at work on it at most, and `Stage(q)` gives, for each place of
that request, what it has already done: the store has its copy (`Saved`), the
handle is out, the new worker has the stored configuration. A target with no
request and past boot is `Settled`. A new id is not yet in the store because
ids in the store were handed out before. `Advances`, `Proceeds` and `Arrives`
carry over all targets and requests a step does not touch, so that each action
proves only what it does to its own target.

**PushWorker.** The invariant has a part per question. `Shape` and `Memory`
bound the loop, the change map and the dedup keys; `Bounded` holds the buffer
below its cap while the loop collects; `Logged` adds to LogTerminal that a
backoff still has an attempt left; `Permits` says that no delivery belongs to a
run to come. OneFate and BatchesInOrder need `Ordered` (ids rise in the channel
and what was accepted is older than what waits there) and `Flushing` (a batch
under way is exactly the buffer, and the loop waits for it), without which a
failed batch could be sent twice or overtaken. `Fated` states OneFate without
cardinalities. LivesSafely maps the loop onto the three states of
PushWorkerLife step by step.

**AgentScheduler.** `Shaped` ties the fields of executions and requests to
their place. `HandleInv` adds to HandlesLive that nobody has aborted the
execution, which is what makes an overwritten or removed handle harmless;
`PermitInv` is GlobalCap with the finiteness of the holders. ActiveScheduled and
PausedIdle are about settled agents; between, `ClashNoted` says that a request
that meets an execution, another request or a start is on record in `clash`,
`RequestInv` what an unmet request has left in the store and the scheduler, and
`TaskInv` that the two agree for an agent nothing has met. ReservedOnGrid is an
action property, from the arithmetic of `update_next_execution` for every
interval. ExecutingBacked is `BackedInv`, proved beside these: each way an
execution can end either writes the status, owes the write, or puts the agent
in `unsaved`; a request or a start that leaves a row in Executing puts it in
`clash`, for which `Contended` has to look at the status as well as at what is
busy.

**ExtensionProcess.** `Epochs` is the heart: which epochs the fields name, that
a receiver that was signalled is not that of the current child, and that a
child whose flag is up has a receiver in its loop. ServedWhileRunning follows.
TableOwned is inductive with the places of the calls (`Fits`); ActiveBacked
needs the two kinds of counted call apart (`Counting`), since only commands
check the limit.

**ExtensionManager.** SingleProcess is mutual exclusion: `LockOwned` says that
as long as the mutex of the id was not taken out of its table everybody uses
that one and whoever is between its acquisition and its release holds it;
`LiveKnown` that a live process is the one in the map, the one a load creates or
the one an unload stops, and that these exclude each other. A dropped call
releases what it holds and leaves its object to `Drop`, which is why a child
that is leaving is not counted. `LazyWaits` records
that a lazy restart waits for the mutex it holds, so only the monitor restarts;
`Budget` relates the restarts made to the counters, with the one restart the
monitor has made and not counted yet.

TLC checked each inductive invariant, or the parts added to the run's own
properties, on the run's instance before it was proved.

Only model-checked: liveness under fairness (OrphanExits, RequestsReturn,
BufferDrains, HangKilled, CrashAnnounced, CrashHandled and both CallsReturn),
the fairness part of LivesAsScheduled, and the five violations. `RetainSelects`
compares an operator with a recursive one of the library and stays an
assumption that TLC evaluates. No module uses recursion.

## 6. Not modelled

The models cover the control of four subsystems and a small part of the
repository's lines. Most of the rest keeps no promise under concurrency that a
model checker could reach:

* validator and dry-run test of rules, DSL preview, cron and time-zone
  arithmetic, template and payload contents: pure conversions without state;
* HTTP, MQTT and device adapters, time-series storage, package installation,
  self-update, CLI: I/O against other programs;
* prompts, tool loops, memory and streaming of language models: data;
* authentication, listings, settings and other handlers: one store call each;
* of the extension runner all but its message pump: what an extension computes
  is I/O, and when it hangs or crashes is up to the environment of
  ExtensionProcess; sessions, push output, capability requests and the
  `gc_memory` command of an extension;
* errors of the stores other than those of an agent's status writes: a request
  whose own save fails is answered with an error and changes nothing;
* SDK, bindings and web front end: clients.

Two known effects are modelled without a property: an event that arrives
together with the stop signal is lost (`Receive`), and a transform's two copies
have different dedup keys (`VirtualKey`). By design cooldowns and failure counts
of rules do not survive a restart. Hazards without a property say why in
`PROJECT.json`.

## 7. Plan

1. ExtensionProcess as the refinement of what ExtensionManager assumes of an
   object (starting, up, dead), as PushWorkerLife is for PushManager, with its
   safety part proved.
2. Action properties worth stating beside the invariants: what a restart may
   not bring back, what an unload may not stop.
3. Device-status emitter as a further caller of `on_data_update`; the MQTT
   adapter's reconnect; message channels.
