----------------------------- MODULE PushWorker -----------------------------
(***************************************************************************)
(* The data plane of heramind-data-push: the worker that PushScheduler      *)
(* spawns for one target (spawn_event_driven, spawn_interval), its filter   *)
(* (filter.rs), its batch buffer and its deliveries (deliver_with_retry,    *)
(* flush_batch), over successive runs of the target.                        *)
(*                                                                          *)
(* Immediate deliveries are detached tasks that outlive the loop; a batch   *)
(* is delivered inline and the loop waits for it.  Durations are not        *)
(* modelled: a timer may fire at any time after it is armed.                *)
(***************************************************************************)
EXTENDS Integers, Sequences, FiniteSets

CONSTANTS
    Source, Value, Stamp,  \* what an event carries
    Raw,          \* the sources that are `_raw` payload dumps
    Twin,         \* <<transform source, device source>> of a virtual metric
    Configs,      \* configurations the target may be started with
    MaxInflight,  \* DATA_PUSH_MAX_INFLIGHT_DELIVERIES
    MaxBuffer,    \* DATA_PUSH_MAX_BUFFER_ENTRIES
    MaxLast,      \* MAX_LAST_VALUES
    BusCapacity,  \* slots of the broadcast channel
    MaxEvents,    \* bound: events published
    MaxRuns       \* bound: starts of the target

Modes == {"immediate", "batch", "interval"}
\* `renders`: the target's template can be rendered.
Config == [mode: Modes, batch_size: Nat, max_retries: Nat,
           filter: SUBSET Source, only_changes: BOOLEAN, renders: BOOLEAN]

ASSUME ConfigAssumption == Configs # {} /\ Configs \subseteq Config
ASSUME SourceAssumption ==
    Raw \subseteq Source /\ Twin \in Source \X Source /\ Twin[1] # Twin[2]
ASSUME WorkerBoundAssumption ==
    /\ {MaxInflight, MaxBuffer, MaxLast, BusCapacity} \subseteq Nat \ {0}
    /\ {MaxEvents, MaxRuns} \subseteq Nat

VARIABLES
    bus,          \* what the worker's receiver has still to read
    published,    \* number of events published
    run,          \* number of the current run of the target
    cfg,          \* its configuration
    loop,         \* where the worker's task is
    cancel,       \* what its cancel receiver can observe
    last_values,  \* DataSourceMatcher: last value per source, partial
    recent,       \* recent_virtual: the keys seen within the window
    buffer,       \* events waiting for a batch
    delivery,     \* every delivery started so far, of every run
    accepted, dropped, raw   \* history: event ids the loop took, refused
                             \* under backpressure, or left out as raw

filters == <<last_values, recent>>
fates == <<accepted, dropped, raw>>
vars == <<bus, published, run, cfg, loop, cancel, filters, buffer, delivery,
          fates>>

Event == [id: Nat, source: Source, value: Value, ts: Stamp, virtual: BOOLEAN]
Ids(es) == {es[i].id : i \in DOMAIN es}

Init ==
    /\ bus = <<>>
    /\ published = 0
    /\ run = 1
    /\ cfg \in Configs
    /\ loop = "select"
    /\ cancel = "none"
    /\ last_values = <<>>
    /\ recent = {}
    /\ buffer = <<>>
    /\ delivery = <<>>
    /\ accepted = {} /\ dropped = {} /\ raw = {}

-----------------------------------------------------------------------------
(* The event bus: a broadcast channel that drops the oldest under lag *)

Enqueue(es) ==
    LET all == bus \o es
        lost == IF Len(all) > BusCapacity THEN Len(all) - BusCapacity ELSE 0
    IN  bus' = SubSeq(all, lost + 1, Len(all))

\* A device or an extension publishes a metric.
Publish(s, v, ts) ==
    /\ s # Twin[1]
    /\ published < MaxEvents
    /\ loop # "exited"
    /\ published' = published + 1
    /\ Enqueue(<<[id |-> published + 1, source |-> s, value |-> v, ts |-> ts,
                  virtual |-> FALSE]>>)
    /\ UNCHANGED <<run, cfg, loop, cancel, filters, buffer, delivery, fates>>

\* A transform publishes its metric under its own and the device's namespace.
PublishTransform(v, ts) ==
    /\ published + 1 < MaxEvents
    /\ loop # "exited"
    /\ published' = published + 2
    /\ Enqueue([i \in 1..2 |->
                   [id |-> published + i, source |-> Twin[i], value |-> v,
                    ts |-> ts, virtual |-> TRUE]])
    /\ UNCHANGED <<run, cfg, loop, cancel, filters, buffer, delivery, fates>>

-----------------------------------------------------------------------------
(* Filtering: DataSourceMatcher::should_push, then is_duplicate_virtual *)

ShouldPush(e) ==
    /\ e.source \in cfg.filter
    /\ cfg.only_changes /\ e.source \in DOMAIN last_values
           => last_values[e.source] # e.value

\* The map before it was bounded.
Remember_unbounded(e) ==
    last_values' = [s \in DOMAIN last_values \cup {e.source} |->
                       IF s = e.source THEN e.value ELSE last_values[s]]

\* The value is noted; at the cap a new source first evicts half the map, in
\* no particular order.
Remember(e) ==
    \E kept \in SUBSET DOMAIN last_values :
        /\ IF /\ Cardinality(DOMAIN last_values) >= MaxLast
              /\ e.source \notin DOMAIN last_values
           THEN Cardinality(kept) = MaxLast \div 2
           ELSE kept = DOMAIN last_values
        /\ last_values' = [s \in kept \cup {e.source} |->
                              IF s = e.source THEN e.value ELSE last_values[s]]

VirtualKey(e) == <<e.source, e.value, e.ts>>
DuplicateVirtual(e) == e.virtual /\ VirtualKey(e) \in recent

\* The VIRTUAL_DEDUP_WINDOW_SECS of a key pass.
WindowPasses(k) ==
    /\ k \in recent
    /\ recent' = recent \ {k}
    /\ UNCHANGED <<bus, published, run, cfg, loop, cancel, last_values, buffer,
                   delivery, fates>>

-----------------------------------------------------------------------------
(* Deliveries *)

\* A delivery whose first send has begun.  `kind` is how it was started: a
\* detached task, a flush by the loop, or the flush of a worker that stops.
\* A task first renders the template; an item of a batch that cannot be
\* rendered falls back to plain JSON.
Sending(kind, es) ==
    [kind |-> kind, run |-> run, events |-> es, retries |-> cfg.max_retries,
     renders |-> kind # "task" \/ cfg.renders,
     attempts |-> 1, st |-> "sending", log |-> "none"]

Deliveries == DOMAIN delivery
InFlight(k) == {d \in Deliveries : /\ delivery[d].kind = "task"
                                   /\ delivery[d].run = k
                                   /\ delivery[d].st \in {"sending", "backoff"}}
Inline(d) == delivery[d].kind # "task"
Open(d) == delivery[d].st \in {"sending", "backoff"}

\* Is the stop signal visible to delivery d?  A run only ends cancelled, and
\* the final flush is given no cancel receiver.
Cancelled(d) ==
    /\ delivery[d].kind # "final"
    /\ delivery[d].run = run => cancel # "none"

\* As it would be if only a success cleared the buffer.
Finish_keepsBuffer(d, log) ==
    /\ delivery' = [delivery EXCEPT ![d].st = "ended", ![d].log = log]
    /\ \/ Inline(d) /\ log = "Success" /\ buffer' = <<>>
       \/ Inline(d) /\ log = "Failed" /\ buffer' = buffer
       \/ ~Inline(d) /\ buffer' = buffer
    /\ loop' = IF Inline(d) /\ loop = "flush" THEN "select" ELSE loop

\* The terminal log entry is saved.  An inline delivery clears the buffer
\* whatever its outcome, and the loop goes on.
Finish(d, log) ==
    /\ delivery' = [delivery EXCEPT ![d].st = "ended", ![d].log = log]
    /\ buffer' = IF Inline(d) THEN <<>> ELSE buffer
    /\ loop' = IF Inline(d) /\ loop = "flush" THEN "select" ELSE loop

\* deliver_with_retry returns the rendering error before it makes a log entry.
RenderFails(d) ==
    /\ delivery[d].st = "sending"
    /\ ~delivery[d].renders
    /\ Finish(d, "none")
    /\ UNCHANGED <<bus, published, run, cfg, cancel, filters, fates>>

SendSucceeds(d) ==
    /\ delivery[d].st = "sending"
    /\ delivery[d].renders
    /\ Finish(d, "Success")
    /\ UNCHANGED <<bus, published, run, cfg, cancel, filters, fates>>

\* The loop bound written 0..max_retries: the last failure is still logged as
\* Retrying when the loop falls through.
SendFails_exclusive(d) ==
    /\ delivery[d].st = "sending"
    /\ delivery[d].renders
    /\ \/ /\ delivery[d].attempts < delivery[d].retries
          /\ delivery' = [delivery EXCEPT ![d].st = "backoff",
                                          ![d].log = "Retrying"]
          /\ UNCHANGED <<buffer, loop>>
       \/ /\ delivery[d].attempts >= delivery[d].retries
          /\ Finish(d, "Retrying")
    /\ UNCHANGED <<bus, published, run, cfg, cancel, filters, fates>>

\* An error (a 429 only changes the length of the backoff): retry while
\* attempt < max_retries, attempts being attempt + 1.
SendFails(d) ==
    /\ delivery[d].st = "sending"
    /\ delivery[d].renders
    /\ \/ /\ delivery[d].attempts <= delivery[d].retries
          /\ delivery' = [delivery EXCEPT ![d].st = "backoff",
                                          ![d].log = "Retrying"]
          /\ UNCHANGED <<buffer, loop>>
       \/ /\ delivery[d].attempts > delivery[d].retries
          /\ Finish(d, "Failed")
    /\ UNCHANGED <<bus, published, run, cfg, cancel, filters, fates>>

\* sleep_or_cancel: the backoff elapses (even if the stop signal is there too:
\* select! takes either), or the signal ends it.
BackoffElapses(d) ==
    /\ delivery[d].st = "backoff"
    /\ delivery' = [delivery EXCEPT ![d].st = "sending", ![d].attempts = @ + 1]
    /\ UNCHANGED <<bus, published, run, cfg, loop, cancel, filters, buffer,
                   fates>>

BackoffCancelled(d) ==
    /\ delivery[d].st = "backoff"
    /\ Cancelled(d)
    /\ Finish(d, "Failed")
    /\ UNCHANGED <<bus, published, run, cfg, cancel, filters, fates>>

-----------------------------------------------------------------------------
(* The loop *)

NotRaw(e) == e.source \notin Raw
\* The n-th smallest of a set of positions.
Nth(P, n) == CHOOSE i \in P : Cardinality({j \in P : j <= i}) = n
\* buffer.retain: what is not raw, in its order (SelectSeq in a form that can
\* be reasoned about).
Retain(es) ==
    LET P == {i \in DOMAIN es : NotRaw(es[i])}
    IN  [n \in 1..Cardinality(P) |-> es[Nth(P, n)]]

\* flush_batch on buffer `es`: `_raw` entries are left out, and a batch of
\* nothing else is not delivered.
FlushBatch(kind, es) ==
    LET kept == Retain(es) IN
    /\ raw' = raw \cup (Ids(es) \ Ids(kept))
    /\ buffer' = kept
    /\ \/ /\ kept = <<>>
          /\ loop' = IF kind = "final" THEN "final" ELSE "select"
          /\ UNCHANGED delivery
       \/ /\ kept # <<>>
          /\ loop' = kind
          /\ delivery' = Append(delivery, Sending(kind, kept))

\* The loop leaves select! for good: a final flush, if there is anything to
\* flush, then Exit.
Teardown ==
    \/ buffer # <<>> /\ FlushBatch("final", buffer)
    \/ buffer = <<>> /\ loop' = "final" /\ UNCHANGED <<buffer, delivery, raw>>

\* Immediate delivery without the cap: every event gets a task.
Immediate_uncapped(e) ==
    /\ delivery' = Append(delivery, Sending("task", <<e>>))
    /\ UNCHANGED <<buffer, loop, dropped, raw>>

\* Immediate delivery: a detached task that owns one of the run's permits, or
\* the event is dropped.
Immediate(e) ==
    /\ \/ /\ Cardinality(InFlight(run)) < MaxInflight
          /\ delivery' = Append(delivery, Sending("task", <<e>>))
          /\ UNCHANGED dropped
       \/ /\ Cardinality(InFlight(run)) >= MaxInflight
          /\ dropped' = dropped \cup {e.id}
          /\ UNCHANGED delivery
    /\ UNCHANGED <<buffer, loop, raw>>

\* Newest first, as a stack.
Batch_reversed(e) ==
    LET full == <<e>> \o buffer IN
    /\ \/ /\ cfg.mode = "batch"
          /\ Len(full) >= cfg.batch_size \/ Len(full) >= MaxBuffer
          /\ FlushBatch("flush", full)
       \/ /\ cfg.mode = "batch" => /\ Len(full) < cfg.batch_size
                                   /\ Len(full) < MaxBuffer
          /\ buffer' = full
          /\ UNCHANGED <<loop, delivery, raw>>
    /\ UNCHANGED dropped

\* Batched delivery: flush at batch_size or at the hard cap.  An interval
\* target only collects.
Batch(e) ==
    LET full == Append(buffer, e) IN
    /\ \/ /\ cfg.mode = "batch"
          /\ Len(full) >= cfg.batch_size \/ Len(full) >= MaxBuffer
          /\ FlushBatch("flush", full)
       \/ /\ cfg.mode = "batch" => /\ Len(full) < cfg.batch_size
                                   /\ Len(full) < MaxBuffer
          /\ buffer' = full
          /\ UNCHANGED <<loop, delivery, raw>>
    /\ UNCHANGED dropped

\* An event passes the matcher; a duplicate virtual metric goes no further
\* (but its value has been noted).
Accept(e) ==
    /\ Remember(e)
    /\ \/ /\ DuplicateVirtual(e)
          /\ UNCHANGED <<recent, loop, buffer, delivery, fates>>
       \/ /\ ~DuplicateVirtual(e)
          /\ recent' = IF e.virtual THEN recent \cup {VirtualKey(e)} ELSE recent
          /\ accepted' = accepted \cup {e.id}
          /\ \/ cfg.mode = "immediate" /\ Immediate(e)
             \/ cfg.mode # "immediate" /\ Batch(e)

\* The rx.recv() arm.  It looks for a stop signal first (a dropped sender does
\* not show there), and then loses the event it has just received.
Receive ==
    LET e == Head(bus) IN
    /\ loop = "select"
    /\ bus # <<>>
    /\ bus' = Tail(bus)
    /\ \/ /\ cancel = "sent"
          /\ Teardown
          /\ UNCHANGED <<filters, accepted, dropped>>
       \/ /\ cancel # "sent"
          /\ ShouldPush(e)
          /\ Accept(e)
       \/ /\ cancel # "sent"
          /\ ~ShouldPush(e)
          /\ UNCHANGED <<loop, filters, buffer, delivery, fates>>
    /\ UNCHANGED <<published, run, cfg, cancel>>

\* No timer: a batch is flushed when it is full.
FlushTimer_full ==
    /\ loop = "select"
    /\ cfg.mode # "immediate"
    /\ Len(buffer) >= cfg.batch_size
    /\ buffer # <<>>
    /\ FlushBatch("flush", buffer)
    /\ UNCHANGED <<bus, published, run, cfg, cancel, filters, accepted, dropped>>

\* The timer arm: batch_interval after the first event of a batch, or the
\* tick of an interval target.
FlushTimer ==
    /\ loop = "select"
    /\ cfg.mode # "immediate"
    /\ buffer # <<>>
    /\ FlushBatch("flush", buffer)
    /\ UNCHANGED <<bus, published, run, cfg, cancel, filters, accepted, dropped>>

\* An arm that waits for the value and not for the end of the channel.
ObserveCancel_valueOnly ==
    /\ loop = "select"
    /\ cancel = "sent"
    /\ Teardown
    /\ UNCHANGED <<bus, published, run, cfg, cancel, filters, accepted, dropped>>

\* The cancel.changed() arm.
ObserveCancel ==
    /\ loop = "select"
    /\ cancel # "none"
    /\ Teardown
    /\ UNCHANGED <<bus, published, run, cfg, cancel, filters, accepted, dropped>>

\* The final flush exceeds its 30 s: its future is dropped where it stands.
FinalTimeout(d) ==
    /\ loop = "final"
    /\ delivery[d].kind = "final"
    /\ delivery[d].run = run
    /\ Open(d)
    /\ delivery' = [delivery EXCEPT ![d].st = "torn"]
    /\ buffer' = <<>>
    /\ UNCHANGED <<bus, published, run, cfg, loop, cancel, filters, fates>>

\* The task returns, and its receiver goes with it.
Exit ==
    /\ loop = "final"
    /\ buffer = <<>>
    /\ loop' = "exited"
    /\ bus' = <<>>
    /\ UNCHANGED <<published, run, cfg, cancel, filters, buffer, delivery,
                   fates>>

-----------------------------------------------------------------------------
(* The scheduler's side: stop or an overwritten handle, and the next start *)

\* ScheduledHandle::stop sends; the sender is dropped with its handle, also
\* by a request that is abandoned after it sent.
Signal(s) ==
    /\ loop # "exited"
    /\ cancel = "none" \/ (cancel = "sent" /\ s = "dropped")
    /\ cancel' = s
    /\ UNCHANGED <<bus, published, run, cfg, loop, filters, buffer, delivery,
                   fates>>

\* start() after stop() has joined the worker: fresh locals and permits.
Start(c) ==
    /\ loop = "exited"
    /\ run < MaxRuns
    /\ run' = run + 1
    /\ cfg' = c
    /\ loop' = "select"
    /\ cancel' = "none"
    /\ last_values' = <<>>
    /\ recent' = {}
    /\ UNCHANGED <<bus, published, buffer, delivery, fates>>

DeliveryStep(d) ==
    \/ RenderFails(d)
    \/ SendSucceeds(d)
    \/ SendFails(d)
    \/ BackoffElapses(d)
    \/ BackoffCancelled(d)

Next ==
    \/ \E s \in Source, v \in Value, ts \in Stamp : Publish(s, v, ts)
    \/ \E v \in Value, ts \in Stamp : PublishTransform(v, ts)
    \/ \E k \in recent : WindowPasses(k)
    \/ \E d \in Deliveries : DeliveryStep(d) \/ FinalTimeout(d)
    \/ Receive
    \/ FlushTimer
    \/ ObserveCancel
    \/ Exit
    \/ \E s \in {"sent", "dropped"} : Signal(s)
    \/ \E c \in Configs : Start(c)

Spec == Init /\ [][Next]_vars

\* Every send ends (the destinations bound it by a timeout) and every backoff
\* elapses; the loop is polled; and select! picks among its ready arms at
\* random, so an arm that is ready again and again is taken.  Publishers,
\* stops and starts owe nothing.
Fairness ==
    /\ \A d \in 1..MaxEvents : WF_vars(d \in Deliveries /\ DeliveryStep(d))
    /\ WF_vars(Exit)
    /\ SF_vars(FlushTimer)
    /\ SF_vars(ObserveCancel)
FairSpec == Spec /\ Fairness

-----------------------------------------------------------------------------
(* Properties *)

DeliveryRecord ==
    [kind: {"task", "flush", "final"}, run: Nat, events: Seq(Event),
     retries: Nat, renders: BOOLEAN, attempts: Nat,
     st: {"sending", "backoff", "ended", "torn"},
     log: {"none", "Retrying", "Success", "Failed"}]

\* Every piece of the worker's state has the type scheduler.rs and filter.rs
\* give it, the channel and the two bounded collections within their caps: the
\* batch buffer never exceeds DATA_PUSH_MAX_BUFFER_ENTRIES nor the change map
\* MAX_LAST_VALUES.
TypeOK ==
    /\ bus \in Seq(Event) /\ Len(bus) <= BusCapacity
    /\ published \in 0..MaxEvents
    /\ run \in 1..(MaxRuns + 1)
    /\ cfg \in Configs
    /\ loop \in {"select", "flush", "final", "exited"}
    /\ cancel \in {"none", "sent", "dropped"}
    /\ DOMAIN last_values \subseteq Source
    /\ \A s \in DOMAIN last_values : last_values[s] \in Value
    /\ Cardinality(DOMAIN last_values) <= MaxLast
    /\ recent \subseteq Source \X Value \X Stamp
    /\ buffer \in Seq(Event)
    /\ cfg.mode = "batch" => Len(buffer) <= MaxBuffer
    /\ delivery \in Seq(DeliveryRecord)
    /\ accepted \cup dropped \cup raw \subseteq 1..MaxEvents

\* One run of a target never has more deliveries in flight than permits, so a
\* dead endpoint cannot pile up tasks however fast events arrive.
PermitCap ==
    \A k \in 1..run : Cardinality(InFlight(k)) <= MaxInflight

\* The same over all runs of a target, as the comment on the constant has it:
\* "Per-target concurrent in-flight deliveries for the immediate push path."
PermitCapPerTarget ==
    Cardinality(UNION {InFlight(k) : k \in 1..run}) <= MaxInflight

Carrying(id) == {d \in Deliveries : id \in Ids(delivery[d].events)}

\* Every event the filter let through has exactly one fate, also across failed
\* batches, stops and restarts of the target: it waits in the buffer of a
\* running worker, or one delivery carries it, or it was dropped under
\* backpressure, or left out as raw.  None is lost without trace and none is
\* put in two deliveries.
OneFate ==
    \A id \in accepted :
        /\ Cardinality(Carrying(id)) <= 1
        /\ \/ Carrying(id) # {}
           \/ id \in dropped \cup raw
           \/ id \in Ids(buffer) /\ loop # "exited"

\* A delivery that is over has been sent at most max_retries + 1 times and its
\* log says Success or Failed.  Two exceptions: a task whose template does not
\* render is never logged, and a final flush can be torn from its log by the
\* 30 s limit.
LogTerminal ==
    \A d \in Deliveries :
        /\ delivery[d].attempts <= delivery[d].retries + 1
        /\ delivery[d].st = "ended" =>
               \/ delivery[d].log \in {"Success", "Failed"}
               \/ ~delivery[d].renders
        /\ delivery[d].st = "torn" => delivery[d].kind = "final"

\* Batches leave in the order of their events, one at a time: whatever fails
\* or retries, a later batch starts only when the earlier one is over, and
\* carries only later events.  (Immediate deliveries may overtake each other.)
BatchesInOrder ==
    \A d \in Deliveries : Inline(d) =>
        /\ \A i, j \in DOMAIN delivery[d].events :
               i < j => delivery[d].events[i].id < delivery[d].events[j].id
        /\ \A c \in Deliveries : Inline(c) /\ c < d =>
               /\ ~Open(c)
               /\ \A x \in Ids(delivery[c].events), y \in Ids(delivery[d].events) :
                      x < y

\* A partial batch is not kept forever: the timer, or the teardown, flushes
\* what the buffer holds.
BufferDrains == (buffer # <<>>) ~> (buffer = <<>>)

-----------------------------------------------------------------------------
(* What PushManager knows of a worker *)

\* Its life as the control plane sees it.
Life == INSTANCE PushWorkerLife
    WITH st <- IF loop \in {"select", "flush"} THEN "live"
               ELSE IF loop = "final" THEN "draining" ELSE "exited",
         signal <- cancel

\* The worker lives as PushManager assumes: it drains only when told to stop,
\* and once told it always drains and exits, dead endpoint or not.
LivesAsScheduled == Life!FairSpec

=============================================================================
