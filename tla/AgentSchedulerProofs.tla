------------------------ MODULE AgentSchedulerProofs ------------------------
(***************************************************************************)
(* Theorems about AgentScheduler, for every set of agents, executions and   *)
(* requests, every limit and every interval.                                *)
(***************************************************************************)
EXTENDS AgentScheduler, FiniteSetTheorems, TLAPS

-----------------------------------------------------------------------------
(* The inductive invariant *)

\* An execution is about an agent or does not exist; one by hand owes no more
\* than a status and is not aborted; one that has ended owes something.
GoodExec(x) ==
    /\ x \in ExecRecord
    /\ IF x.pc = "free" THEN x = NoExec ELSE x.agent \in Agent
    /\ x.kind = "manual" => x.owes \subseteq {"status"} /\ ~x.aborted
    /\ x.pc = "ended" => x.owes # {}

\* A request is about an agent or does not exist.
GoodRequest(r) ==
    /\ r \in RequestRecord
    /\ IF r.pc = "free" THEN r = NoRequest ELSE r.agent \in Agent

\* Every execution and every request is well formed, and only the loop that
\* spawns has reservations.
Shaped ==
    /\ \A e \in Exec : GoodExec(exec[e])
    /\ \A q \in Request : GoodRequest(request[q])
    /\ loop.pc # "spawn" => loop.due = {}

\* Types and shapes.
Types == TypeOK /\ Shaped

\* A handle is that of a scheduled execution that nobody has aborted.
HandleInv ==
    \A a \in DOMAIN handles :
        LET x == exec[handles[a]]
        IN  /\ x.agent = a /\ x.kind = "sched" /\ ~x.aborted
            /\ x.pc # "free"
            /\ x.pc = "ended" => "handle" \in x.owes

\* The permits of the global semaphore.
Holders == {e \in Exec : HoldsGlobal(e)}
\* There are no more of them than the semaphore has.
PermitInv == IsFiniteSet(Holders) /\ Cardinality(Holders) <= MaxConcurrent

\* A request that meets an execution or an agent that says Executing, another
\* request or a start is noted; and so is one that read Executing.
ClashNoted ==
    /\ \A a \in Agent : Contended(a) => a \in clash
    /\ \A q \in Request :
           request[q].op = "update" /\ request[q].snap = "Executing"
               => request[q].agent \in clash

\* What a request left in the store and in the scheduler is still there when
\* it tells the scheduler, unless it was met.
RequestOK(q) ==
    LET r == request[q]
    IN  r.pc # "free" /\ r.agent \notin clash =>
            /\ r.op = "create" => status[r.agent] = "Active"
                                  /\ r.snap = "Active" /\ r.pc = "sync"
            /\ r.op = "status" =>
                   /\ r.snap \in {"Active", "Paused", "Error"}
                   /\ \/ status[r.agent] = r.snap
                      \/ /\ status[r.agent] = "Absent"
                         /\ r.agent \notin DOMAIN tasks
            /\ r.op = "update" => r.snap # "Absent"
            /\ r.op = "update" /\ r.pc = "sync" => status[r.agent] = r.snap
            /\ r.op = "delete" => r.agent \notin DOMAIN tasks
\* No request has lost track of its agent.
RequestInv == \A q \in Request : RequestOK(q)

\* Only an agent that is run by hand can be Completed.
CompletedByHand ==
    /\ \A a \in Agent : status[a] = "Completed" => Schedule[a] = "manual"
    /\ \A q \in Request : request[q].snap = "Completed" /\ request[q].pc # "free"
            => Schedule[request[q].agent] = "manual"

\* Store and scheduler, for an agent that nothing has met.
TaskOK(a) ==
    a \notin clash =>
        /\ InUse(a) => status[a] \notin {"Paused", "Absent"}
        /\ a \in DOMAIN tasks => tasks[a].enabled
        /\ Requests(a) = {} /\ status[a] \in {"Paused", "Absent"}
               => a \notin DOMAIN tasks
        /\ (/\ started /\ Schedule[a] = "interval" /\ Requests(a) = {}
            /\ status[a] \in {"Active", "Executing"} \/ InUse(a))
               => IsScheduled(a)
\* Store and scheduler agree.
TaskInv == \A a \in Agent : TaskOK(a)

\* The inductive invariant.
IInv == /\ Types
        /\ HandleInv /\ SlotBacked /\ PermitInv
        /\ ClashNoted /\ ExecutingBacked
        /\ RequestInv /\ CompletedByHand /\ TaskInv

-----------------------------------------------------------------------------
(* The operators *)

\* The limits are numbers.
LEMMA Numbers ==
    /\ MaxConcurrent \in Nat \ {0} /\ Interval \in Nat \ {0}
    /\ Cooldown \in Nat /\ Retention \in Nat /\ MaxTime \in Nat
  BY LimitAssumption

\* A map with one more entry, and with fewer.
LEMMA PutDef ==
    ASSUME NEW f, NEW k, NEW v
    PROVE  /\ DOMAIN Put(f, k, v) = DOMAIN f \cup {k}
           /\ Put(f, k, v)[k] = v
           /\ \A x \in DOMAIN f : x # k => Put(f, k, v)[x] = f[x]
  BY DEF Put

\* A map with fewer entries.
LEMMA DropDef ==
    ASSUME NEW f, NEW S
    PROVE  /\ DOMAIN Drop(f, S) = DOMAIN f \ S
           /\ \A x \in DOMAIN f \ S : Drop(f, S)[x] = f[x]
  BY DEF Drop

\* The empty map.
LEMMA EmptyMap == DOMAIN <<>> = {}
  OBVIOUS

\* update_agent_status changes one agent, if it is there.
LEMMA WriteDef ==
    ASSUME status \in [Agent -> Statuses], NEW a \in Agent, NEW s \in Statuses
    PROVE  /\ Write(a, s) \in [Agent -> Statuses]
           /\ Write(a, s)[a] = IF status[a] = "Absent" THEN "Absent" ELSE s
           /\ \A b \in Agent : b # a => Write(a, s)[b] = status[b]
  BY DEF Write, Statuses

\* The bounds on the operations stay numbers.
LEMMA OpTyped ==
    ASSUME ops \in [DOMAIN ops -> Nat], NEW o, NEW a, Op(o, a)
    PROVE  ops' \in [DOMAIN ops' -> Nat]
  BY DEF Op

\* A clash is not forgotten.
LEMMA ClashGrows ==
    ASSUME clash \subseteq Agent, NEW S \in SUBSET Agent, Noting(S)
    PROVE  /\ clash \subseteq clash' /\ clash' \subseteq Agent
           /\ S \subseteq clash' /\ Revived \subseteq clash'
           /\ \A a \in Agent : Contended(a)' => a \in clash'
  BY DEF Noting, Revived

\* No step forgets one.
LEMMA ClashKept ==
    ASSUME [Next]_vars
    PROVE  clash \subseteq clash'
  BY DEF Next, Noting, vars, history

\* Nor does a step forget a status that could not be written.
LEMMA UnsavedKept ==
    ASSUME [Next]_vars
    PROVE  unsaved \subseteq unsaved'
  <1>1. CASE Environment
    BY <1>1 DEF Environment, Tick, EventArrives, ManualStart, Create, Delete,
           SetStatus, UpdateRead, Handler, StartupSweep, StopFlag, StopDrain,
           AbortEvents, Crash
  <1>2. CASE Scheduling
    BY <1>2 DEF Scheduling, LoopCheck, LoopReserve, LoopSpawn, EventTrigger
  <1>3. ASSUME NEW e \in Exec, Execution(e) \/ Cleanup(e)
        PROVE  unsaved \subseteq unsaved'
    <2>1. CASE Execution(e)
      BY <2>1 DEF Execution, Poll, AcquireGlobal, AcquireBackend,
             StartExecution, Execute, FinishExecution, EndScheduled, Rewrite,
             RetryEvent, EndEvent, ManualEnd, Only, Refused
    <2>2. CASE Cleanup(e)
      BY <2>2 DEF Cleanup, Unwind, PayDebt, NotWritten, Refused
    <2> QED
      BY <1>3, <2>1, <2>2
  <1>4. ASSUME NEW q \in Request, Handling(q) \/ Disconnect(q)
        PROVE  unsaved \subseteq unsaved'
    BY <1>4 DEF Handling, UpdateSave, SyncScheduler, DeleteCache, DeleteStore,
           Disconnect, Handler
  <1>5. ASSUME NEW R, ManagerStart(R)
        PROVE  unsaved \subseteq unsaved'
    BY <1>5 DEF ManagerStart
  <1>6. CASE UNCHANGED vars
    BY <1>6 DEF vars, history
  <1> QED
    BY <1>1, <1>2, <1>3, <1>4, <1>5, <1>6 DEF Next

\* The records an execution can be.
LEMMA ExecRecordHas ==
    ASSUME NEW p \in {"free", "queued", "global", "backend", "ended"}
                     \cup Working,
           NEW a \in Agent \cup {Nobody},
           NEW k \in {"sched", "event", "manual"}, NEW n \in 1..2,
           NEW f \in BOOLEAN, NEW D \in SUBSET {"status", "slot", "handle"},
           NEW b \in BOOLEAN
    PROVE  [pc |-> p, agent |-> a, kind |-> k, try |-> n, failed |-> f,
            owes |-> D, aborted |-> b] \in ExecRecord
  BY DEF ExecRecord

\* A free place for an execution is well formed.
LEMMA NoExecGood == GoodExec(NoExec)
  BY DEF GoodExec, NoExec, ExecRecord, Nobody

\* A new execution is well formed.
LEMMA SpawnedGood ==
    ASSUME NEW a \in Agent, NEW k \in {"sched", "event", "manual"},
           NEW p \in {"queued", "start"}, NEW x,
           x = [pc |-> p, agent |-> a, kind |-> k, try |-> 1,
                failed |-> FALSE, owes |-> {}, aborted |-> FALSE]
    PROVE  /\ GoodExec(x) /\ x.agent = a /\ x.kind = k /\ x.pc = p
           /\ x.owes = {} /\ ~x.aborted
  <1>2. /\ x.agent = a /\ x.kind = k /\ x.pc = p
        /\ x.owes = {} /\ ~x.aborted
    OBVIOUS
  <1>3. x \in ExecRecord
    <2>1. p \in {"free", "queued", "global", "backend", "ended"} \cup Working
      BY DEF Working
    <2>2. /\ a \in Agent \cup {Nobody}
          /\ {} \in SUBSET {"status", "slot", "handle"}
      OBVIOUS
    <2>3. 1 \in 1..2 /\ FALSE \in BOOLEAN
      OBVIOUS
    <2>4. [pc |-> p, agent |-> a, kind |-> k, try |-> 1, failed |-> FALSE,
           owes |-> {}, aborted |-> FALSE] \in ExecRecord
      BY <2>1, <2>2, <2>3, ExecRecordHas, Zenon
    <2> QED
      BY <2>4
  <1> QED
    BY <1>2, <1>3 DEF GoodExec

\* What is left of an execution that ends: nothing, or what it owes.
LEMMA EndedGood ==
    ASSUME NEW x, GoodExec(x), x.pc # "free",
           NEW D \in SUBSET {"status", "slot", "handle"},
           x.kind = "manual" => D \subseteq {"status"}
    PROVE  /\ GoodExec(Ended(x, D))
           /\ Ended(x, D).pc \in {"free", "ended"} /\ ~Ended(x, D).aborted
           /\ Ended(x, D).owes = x.owes \cup D
           /\ Ended(x, D) = NoExec \/ Ended(x, D).agent = x.agent
           /\ Ended(x, D).kind \in {x.kind, "sched"}
           /\ Ended(x, D).pc = "ended" <=> x.owes \cup D # {}
           /\ Ended(x, D).pc = "ended" => /\ Ended(x, D).agent = x.agent
                                          /\ Ended(x, D).kind = x.kind
  <1>1. CASE x.owes \cup D = {}
    BY <1>1, NoExecGood DEF Ended, NoExec
  <1>2. CASE x.owes \cup D # {}
    <2>1. Ended(x, D) =
            [pc |-> "ended", agent |-> x.agent, kind |-> x.kind, try |-> 1,
             failed |-> FALSE, owes |-> x.owes \cup D, aborted |-> FALSE]
      BY <1>2 DEF Ended, NoExec
    <2>2. /\ Ended(x, D).pc = "ended" /\ Ended(x, D).agent = x.agent
          /\ Ended(x, D).kind = x.kind /\ Ended(x, D).owes = x.owes \cup D
          /\ ~Ended(x, D).aborted
      BY <2>1
    <2>3. Ended(x, D) \in ExecRecord
      <3>1. /\ x.agent \in Agent \cup {Nobody}
            /\ x.kind \in {"sched", "event", "manual"}
            /\ x.owes \cup D \in SUBSET {"status", "slot", "handle"}
        BY DEF GoodExec, ExecRecord
      <3> QED
        BY <2>1, <3>1 DEF ExecRecord
    <2> QED
      BY <1>2, <2>2, <2>3 DEF GoodExec
  <1> QED
    BY <1>1, <1>2

\* One execution changes, to a good one.
OneExec(e) ==
    /\ exec' \in [Exec -> ExecRecord]
    /\ \A x \in Exec : GoodExec(exec'[x])
    /\ \A x \in Exec : x # e => exec'[x] = exec[x]

\* A single execution is replaced by a good one.
LEMMA OneExecDef ==
    ASSUME Types, NEW e \in Exec, NEW r, GoodExec(r),
           exec' = [exec EXCEPT ![e] = r]
    PROVE  OneExec(e) /\ exec'[e] = r
  BY DEF Types, TypeOK, Shaped, OneExec, GoodExec

\* What a step within an execution changes of it.
Same(e, F) ==
    /\ "agent" \in F => exec'[e].agent = exec[e].agent
    /\ "kind" \in F => exec'[e].kind = exec[e].kind
    /\ "owes" \in F => exec'[e].owes = exec[e].owes
    /\ "aborted" \in F => exec'[e].aborted = exec[e].aborted

\* An execution that exists is about an agent.
LEMMA Busy ==
    ASSUME Types, NEW e \in Exec, exec[e].pc # "free"
    PROVE  exec[e].agent \in Agent
  BY DEF Types, Shaped, GoodExec

\* The record of an execution that goes on.
LEMMA UpdateGood ==
    ASSUME NEW x, GoodExec(x), x.pc # "free",
           NEW r \in ExecRecord, r.pc # "free",
           r.agent = x.agent, r.kind = x.kind, r.aborted = x.aborted,
           r.owes \subseteq x.owes \/ r.owes \subseteq x.owes \cup {"status"},
           r.pc = "ended" => r.owes # {}
    PROVE  GoodExec(r)
  BY DEF GoodExec

\* An execution that goes on with another place, result or debts.
Revision(x, f, p, D) == [x EXCEPT !.failed = f, !.pc = p, !.owes = D]

\* It is well formed.
LEMMA Revised ==
    ASSUME NEW x, GoodExec(x), x.pc # "free", NEW f, f \in BOOLEAN,
           NEW p, p \in Working,
           NEW D, D = x.owes \/ D = x.owes \cup {"status"}
    PROVE  LET r == Revision(x, f, p, D)
           IN  /\ GoodExec(r) /\ r.pc = p /\ r.agent = x.agent
               /\ r.kind = x.kind /\ r.owes = D /\ r.aborted = x.aborted
  <1> DEFINE r == Revision(x, f, p, D)
  <1>1. x \in ExecRecord /\ D \in SUBSET {"status", "slot", "handle"}
    BY DEF GoodExec, ExecRecord
  <1>2. /\ r.pc = p /\ r.agent = x.agent /\ r.kind = x.kind
        /\ r.owes = D /\ r.aborted = x.aborted
    BY <1>1 DEF ExecRecord, Revision
  <1>3. r \in ExecRecord /\ p \notin {"free", "ended"}
    BY <1>1 DEF ExecRecord, Revision, Working, Rewriting
  <1> HIDE DEF r
  <1>4. GoodExec(r)
    BY <1>2, <1>3, UpdateGood
  <1> QED
    BY <1>2, <1>4 DEF r

\* A step to the next place of an execution.
LEMMA GoDoes ==
    ASSUME Types, NEW e \in Exec, exec[e].pc # "free",
           NEW p \in {"global", "backend"} \cup Working, Go(e, p)
    PROVE  /\ OneExec(e) /\ exec'[e].pc = p
           /\ Same(e, {"agent", "kind", "owes", "aborted"})
  <1> DEFINE r == [exec[e] EXCEPT !.pc = p]
  <1>1. GoodExec(exec[e]) /\ exec[e] \in ExecRecord
    BY DEF Types, Shaped, GoodExec
  <1>2. p \notin {"free", "ended"}
    BY DEF Working, Rewriting
  <1>3. /\ r.pc = p /\ r.agent = exec[e].agent
        /\ r.kind = exec[e].kind /\ r.owes = exec[e].owes
        /\ r.aborted = exec[e].aborted
    BY <1>1 DEF ExecRecord
  <1>4. r \in ExecRecord
    BY <1>1 DEF ExecRecord
  <1>5. GoodExec(r)
    BY <1>1, <1>2, <1>3, <1>4, UpdateGood
  <1>6. exec' = [exec EXCEPT ![e] = r]
    BY DEF Go
  <1>7. OneExec(e) /\ exec'[e] = r
    BY <1>5, <1>6, OneExecDef
  <1> QED
    BY <1>3, <1>7 DEF Same

\* A task is spawned by the tick loop or by an event.
LEMMA SpawnDoes ==
    ASSUME Types, NEW e \in Exec, NEW a \in Agent,
           NEW k \in {"sched", "event"},
           exec' = [exec EXCEPT ![e] = Spawned(a, k)]
    PROVE  /\ OneExec(e) /\ exec'[e].pc = "queued" /\ exec'[e].agent = a
           /\ exec'[e].kind = k /\ exec'[e].owes = {} /\ ~exec'[e].aborted
  <1>1. Spawned(a, k) =
            [pc |-> "queued", agent |-> a, kind |-> k, try |-> 1,
             failed |-> FALSE, owes |-> {}, aborted |-> FALSE]
    <2>1. Spawned(a, k) = [Spawned(a, k) EXCEPT !.pc = "queued"]
      BY DEF Spawned, NoExec
    <2>2. PICK r : r = [Spawned(a, k) EXCEPT !.pc = "queued"]
      OBVIOUS
    <2>3. r = [pc |-> "queued", agent |-> a, kind |-> k, try |-> 1,
             failed |-> FALSE, owes |-> {}, aborted |-> FALSE]
      BY <2>2 DEF Spawned, NoExec
    <2> QED
      BY <2>1, <2>2, <2>3
  <1>2. /\ GoodExec(Spawned(a, k)) /\ Spawned(a, k).agent = a
        /\ Spawned(a, k).kind = k /\ Spawned(a, k).pc = "queued"
        /\ Spawned(a, k).owes = {} /\ ~Spawned(a, k).aborted
    BY <1>1, SpawnedGood
  <1> QED
    BY <1>2, OneExecDef

\* execute_agent begins, or its first write fails.
LEMMA ExecuteDoes ==
    ASSUME Types, NEW e \in Exec, exec[e].pc # "free", Execute(e)
    PROVE  /\ OneExec(e) /\ Same(e, {"agent", "kind", "owes", "aborted"})
           /\ \/ /\ exec'[e].pc = "body"
                 /\ status' = Write(exec[e].agent, "Executing")
              \/ exec'[e].pc = "return" /\ UNCHANGED status
  <1>1. CASE Go(e, "body") /\ status' = Write(exec[e].agent, "Executing")
    BY <1>1, GoDoes DEF Working
  <1>2. CASE /\ exec' = [exec EXCEPT ![e].pc = "return", ![e].failed = TRUE]
             /\ UNCHANGED status
    <2> DEFINE x == exec[e]
    <2>1. GoodExec(x) /\ x \in ExecRecord /\ x.pc # "free"
      BY DEF Types, Shaped, GoodExec
    <2>2. PICK f \in BOOLEAN, p \in Working, D \in {x.owes} :
              /\ p = "return"
              /\ exec' = [exec EXCEPT ![e] = Revision(x, f, p, D)]
      <3>1. /\ exec' = [exec EXCEPT ![e] = Revision(x, TRUE, "return", x.owes)]
            /\ "return" \in Working
        BY <1>2, <2>1 DEF ExecRecord, Working, Revision
      <3> QED
        BY <3>1
    <2> HIDE DEF x
    <2> DEFINE r == Revision(x, f, p, D)
    <2>3. /\ GoodExec(r) /\ r.pc = "return" /\ r.agent = x.agent
          /\ r.kind = x.kind /\ r.owes = x.owes /\ r.aborted = x.aborted
      BY <2>1, <2>2, Revised
    <2>4. OneExec(e) /\ exec'[e] = r
      BY <2>2, <2>3, OneExecDef
    <2> QED
      BY <1>2, <2>2, <2>3, <2>4 DEF Same, x
  <1> QED
    BY <1>1, <1>2 DEF Execute

\* An execution is started by hand, unless the first write fails.
LEMMA ManualDoes ==
    ASSUME Types, NEW e \in Exec, NEW a \in Agent, ManualStart(a, e)
    PROVE  \/ UNCHANGED <<status, exec>>
           \/ /\ OneExec(e) /\ exec'[e].pc = "start" /\ exec'[e].agent = a
              /\ exec'[e].kind = "manual" /\ exec'[e].owes = {}
              /\ ~exec'[e].aborted /\ status' = Write(a, "Executing")
  <1> SUFFICES ASSUME /\ status' = Write(a, "Executing")
                      /\ exec' = [exec EXCEPT ![e] =
                                    [Spawned(a, "manual") EXCEPT !.pc = "start"]]
               PROVE  /\ OneExec(e) /\ exec'[e].pc = "start"
                      /\ exec'[e].agent = a /\ exec'[e].kind = "manual"
                      /\ exec'[e].owes = {} /\ ~exec'[e].aborted
    BY DEF ManualStart
  <1>1. PICK r : r = [Spawned(a, "manual") EXCEPT !.pc = "start"]
    OBVIOUS
  <1>2. /\ GoodExec(r) /\ r.agent = a /\ r.kind = "manual" /\ r.pc = "start"
        /\ r.owes = {} /\ ~r.aborted
    <2>1. r = [pc |-> "start", agent |-> a, kind |-> "manual", try |-> 1,
               failed |-> FALSE, owes |-> {}, aborted |-> FALSE]
      BY <1>1 DEF Spawned, NoExec
    <2> QED
      BY <2>1, SpawnedGood
  <1>3. exec' = [exec EXCEPT ![e] = r]
    BY <1>1
  <1> QED
    BY <1>2, <1>3, OneExecDef

\* execute_agent ends: the status is written, or the reset is left to be done,
\* or the write is to be tried once more.
LEMMA FinishDoes ==
    ASSUME Types, NEW e \in Exec, NEW out \in Outcomes,
           FinishExecution(e, out)
    PROVE  /\ OneExec(e) /\ Same(e, {"agent", "kind", "aborted"})
           /\ exec[e].owes \subseteq exec'[e].owes
           /\ \/ /\ exec'[e].pc = "return" /\ "status" \in exec'[e].owes
                 /\ UNCHANGED status
              \/ /\ exec'[e].pc = "return"
                 /\ \E s \in {"Error", "Active"} :
                        status' = Write(exec[e].agent, s)
              \/ exec'[e].pc \in Rewriting /\ UNCHANGED status
  <1> DEFINE f == Failure(exec[e].kind, out)
             x == exec[e]
  <1>1. GoodExec(x) /\ x \in ExecRecord /\ x.pc = "body"
    BY DEF Types, Shaped, GoodExec, FinishExecution
  <1>2. f \in BOOLEAN
    BY <1>1 DEF Failure, ExecRecord
  <1>3. PICK p \in {"return"} \cup Rewriting,
             D \in {x.owes, x.owes \cup {"status"}} :
           /\ exec' = [exec EXCEPT ![e] = Revision(x, f, p, D)]
           /\ \/ p = "return" /\ "status" \in D /\ UNCHANGED status
              \/ /\ p = "return"
                 /\ \E s \in {"Error", "Active"} : status' = Write(x.agent, s)
              \/ p \in Rewriting /\ UNCHANGED status
    <2>1. [x EXCEPT !.failed = f, !.pc = "return"] =
              Revision(x, f, "return", x.owes)
      BY <1>1 DEF ExecRecord, Revision
    <2>2. \A p \in Rewriting : [x EXCEPT !.failed = f, !.pc = p] =
              Revision(x, f, p, x.owes)
      BY <1>1 DEF ExecRecord, Revision
    <2>3. CASE out = "err"
      <3>1. exec' = [exec EXCEPT ![e] = Revision(x, f, "return",
                                                 x.owes \cup {"status"})]
        BY <1>1, <2>3 DEF FinishExecution, Revision, ExecRecord
      <3>2. UNCHANGED status
        BY <2>3 DEF FinishExecution
      <3> QED
        BY <3>1, <3>2
    <2>4. CASE /\ exec' = [exec EXCEPT ![e].failed = f, ![e].pc = "return"]
               /\ status' = Write(x.agent, IF out = "permanent" THEN "Error"
                                           ELSE "Active")
      BY <2>1, <2>4
    <2>5. CASE /\ exec' = [exec EXCEPT ![e].failed = f, ![e].pc =
                             IF out = "permanent" THEN "demote" ELSE "rewrite"]
               /\ UNCHANGED status
      <3> HIDE DEF f, x
      <3>1. PICK p \in Rewriting :
                exec' = [exec EXCEPT ![e].failed = f, ![e].pc = p]
        BY <2>5 DEF Rewriting
      <3>2. exec' = [exec EXCEPT ![e] = [x EXCEPT !.failed = f, !.pc = p]]
        BY <3>1 DEF x
      <3> QED
        BY <2>2, <2>5, <3>1, <3>2
    <2> QED
      BY <2>3, <2>4, <2>5 DEF FinishExecution
  <1> DEFINE r == Revision(x, f, p, D)
  <1> HIDE DEF f, x
  <1>4. /\ GoodExec(r) /\ r.pc = p /\ r.agent = x.agent /\ r.kind = x.kind
        /\ r.owes = D /\ r.aborted = x.aborted
    <2>1. p \in Working
      BY DEF Working
    <2> QED
      BY <1>1, <1>2, <1>3, <2>1, Revised
  <1>5. OneExec(e) /\ exec'[e] = r
    BY <1>3, <1>4, OneExecDef
  <1> QED
    BY <1>3, <1>4, <1>5 DEF Same, x

\* The second try of the last write.
LEMMA RewriteDoes ==
    ASSUME Types, NEW e \in Exec, Rewrite(e)
    PROVE  /\ OneExec(e) /\ exec'[e].pc = "return" /\ exec[e].pc \in Rewriting
           /\ Same(e, {"agent", "kind", "owes", "aborted"})
           /\ \/ /\ UNCHANGED unsaved
                 /\ \E s \in {"Error", "Active"} :
                        status' = Write(exec[e].agent, s)
              \/ /\ UNCHANGED status
                 /\ unsaved' = unsaved \cup {exec[e].agent}
  <1>1. exec[e].pc \in Rewriting /\ exec[e].pc # "free" /\ Go(e, "return")
    BY DEF Rewrite, Rewriting
  <1>2. \/ /\ UNCHANGED unsaved
           /\ \E s \in {"Error", "Active"} : status' = Write(exec[e].agent, s)
        \/ UNCHANGED status /\ unsaved' = unsaved \cup {exec[e].agent}
    BY DEF Rewrite, Refused
  <1> QED
    BY <1>1, <1>2, GoDoes DEF Working

\* A second attempt.
LEMMA RetryDoes ==
    ASSUME Types, NEW e \in Exec, RetryEvent(e)
    PROVE  /\ OneExec(e) /\ exec'[e].pc = "start"
           /\ Same(e, {"agent", "kind", "owes", "aborted"})
  <1> DEFINE r == [exec[e] EXCEPT !.pc = "start", !.try = 2]
  <1>1. GoodExec(exec[e]) /\ exec[e] \in ExecRecord /\ exec[e].pc = "return"
    BY DEF Types, Shaped, GoodExec, RetryEvent
  <1>2. exec' = [exec EXCEPT ![e] = r]
    BY DEF RetryEvent
  <1>3. /\ r.pc = "start" /\ r.agent = exec[e].agent
        /\ r.kind = exec[e].kind /\ r.owes = exec[e].owes
        /\ r.aborted = exec[e].aborted
    BY <1>1 DEF ExecRecord
  <1>4. r \in ExecRecord
    <2>1. 2 \in 1..2 /\ "start" \in Working
      BY DEF Working
    <2> QED
      BY <1>1, <2>1 DEF ExecRecord
  <1>5. GoodExec(r)
    BY <1>1, <1>3, <1>4, UpdateGood
  <1> HIDE DEF r
  <1>6. OneExec(e) /\ exec'[e] = r
    BY <1>2, <1>5, OneExecDef
  <1> QED
    BY <1>3, <1>6 DEF Same

\* A task ends and may leave clean-ups to be done.
LEMMA EndDoes ==
    ASSUME Types, NEW e \in Exec, exec[e].pc # "free",
           NEW D \in SUBSET {"status", "slot", "handle"},
           exec[e].kind = "manual" => D \subseteq {"status"},
           exec' = [exec EXCEPT ![e] = Ended(@, D)]
    PROVE  /\ OneExec(e)
           /\ exec'[e].pc \in {"free", "ended"} /\ ~exec'[e].aborted
           /\ exec'[e].owes = exec[e].owes \cup D
           /\ exec'[e].pc = "ended" <=> exec[e].owes \cup D # {}
           /\ exec'[e].pc = "ended" => Same(e, {"agent", "kind"})
  <1> DEFINE r == Ended(exec[e], D)
  <1>1. GoodExec(exec[e])
    BY DEF Types, Shaped
  <1>2. /\ GoodExec(r) /\ r.pc \in {"free", "ended"} /\ ~r.aborted
        /\ r.owes = exec[e].owes \cup D
        /\ r.pc = "ended" <=> exec[e].owes \cup D # {}
        /\ r.pc = "ended" => r.agent = exec[e].agent /\ r.kind = exec[e].kind
    BY <1>1, EndedGood
  <1>3. exec' = [exec EXCEPT ![e] = r]
    OBVIOUS
  <1> HIDE DEF r
  <1>4. OneExec(e) /\ exec'[e] = r
    BY <1>2, <1>3, OneExecDef, ZenonT(60)
  <1> QED
    BY <1>2, <1>4 DEF Same

\* A clean-up is done.
LEMMA PayDoes ==
    ASSUME Types, NEW e \in Exec, NEW d \in {"status", "slot", "handle"},
           PayDebt(e, d)
    PROVE  /\ OneExec(e) /\ exec[e].pc # "free" /\ exec[e].agent \in Agent
           /\ exec'[e].owes = exec[e].owes \ {d}
           /\ exec'[e].pc \in {exec[e].pc, "free"}
           /\ exec'[e].pc = "free" =>
                  exec[e].pc = "ended" /\ exec[e].owes = {d}
           /\ exec'[e].pc # "free" => Same(e, {"agent", "kind", "aborted"})
  <1> DEFINE r == Paid(exec[e], d)
  <1>1. GoodExec(exec[e]) /\ exec[e] \in ExecRecord /\ d \in exec[e].owes
    BY DEF Types, Shaped, GoodExec, PayDebt
  <1>2. exec' = [exec EXCEPT ![e] = r]
    BY DEF PayDebt
  <1>3. exec[e].pc # "free" /\ exec[e].agent \in Agent
    BY <1>1 DEF GoodExec, NoExec
  <1>4. /\ GoodExec(r) /\ r.owes = exec[e].owes \ {d}
        /\ r.pc \in {exec[e].pc, "free"}
        /\ r.pc = "free" => exec[e].pc = "ended" /\ exec[e].owes = {d}
        /\ r.pc # "free" => /\ r.agent = exec[e].agent
                            /\ r.kind = exec[e].kind
                            /\ r.aborted = exec[e].aborted
    <2>1. CASE exec[e].pc = "ended" /\ exec[e].owes = {d}
      BY <2>1, NoExecGood DEF NoExec, Paid
    <2>2. CASE ~(exec[e].pc = "ended" /\ exec[e].owes = {d})
      <3> DEFINE u == [exec[e] EXCEPT !.owes = @ \ {d}]
      <3>1. r = u
        BY <2>2 DEF Paid
      <3>2. /\ u.pc = exec[e].pc /\ u.agent = exec[e].agent
            /\ u.kind = exec[e].kind /\ u.owes = exec[e].owes \ {d}
            /\ u.aborted = exec[e].aborted
        BY <1>1 DEF ExecRecord
      <3>3. u \in ExecRecord
        BY <1>1 DEF ExecRecord
      <3>4. u.pc = "ended" => u.owes # {}
        BY <1>1, <2>2, <3>2
      <3> HIDE DEF u
      <3>5. GoodExec(u)
        BY <1>1, <1>3, <3>2, <3>3, <3>4, UpdateGood
      <3> QED
        BY <1>3, <3>1, <3>2, <3>5
    <2> QED
      BY <2>1, <2>2
  <1> HIDE DEF r
  <1>5. OneExec(e) /\ exec'[e] = r
    BY <1>2, <1>4, OneExecDef
  <1> QED
    BY <1>3, <1>4, <1>5 DEF Same

\* An abort marks tasks that are not by hand.
LEMMA AbortDoes ==
    ASSUME Types, NEW S, \A x \in Exec : x \in S => exec[x].pc # "free"
                                             /\ exec[x].kind # "manual",
           exec' = [x \in Exec |-> IF x \in S
                                   THEN [exec[x] EXCEPT !.aborted = TRUE]
                                   ELSE exec[x]]
    PROVE  /\ exec' \in [Exec -> ExecRecord]
           /\ \A x \in Exec : /\ GoodExec(exec'[x]) /\ exec'[x].pc = exec[x].pc
                              /\ Same(x, {"agent", "kind", "owes"})
           /\ \A x \in Exec : x \notin S => exec'[x] = exec[x]
  <1>1. ASSUME NEW x \in Exec
        PROVE  /\ exec'[x] \in ExecRecord /\ GoodExec(exec'[x])
               /\ exec'[x].pc = exec[x].pc
               /\ Same(x, {"agent", "kind", "owes"})
               /\ x \notin S => exec'[x] = exec[x]
    <2>1. GoodExec(exec[x]) /\ exec[x] \in ExecRecord
      BY DEF Types, Shaped, GoodExec
    <2>2. CASE x \notin S
      BY <2>1, <2>2 DEF Same
    <2>3. CASE x \in S
      <3> DEFINE r == [exec[x] EXCEPT !.aborted = TRUE]
      <3>1. /\ r.pc = exec[x].pc /\ r.agent = exec[x].agent
            /\ r.kind = exec[x].kind /\ r.owes = exec[x].owes
        BY <2>1 DEF ExecRecord
      <3>2. r \in ExecRecord
        BY <2>1 DEF ExecRecord
      <3>3. exec'[x] = r
        BY <2>3
      <3> HIDE DEF r
      <3>4. GoodExec(r)
        BY <2>1, <2>3, <3>1, <3>2 DEF GoodExec
      <3> QED
        BY <2>3, <3>1, <3>2, <3>3, <3>4 DEF Same
    <2> QED
      BY <2>2, <2>3
  <1> QED
    BY <1>1

-----------------------------------------------------------------------------
(* The grid of an interval *)

\* How many intervals fit.
LEMMA Division ==
    ASSUME NEW d \in Nat, NEW i \in Nat \ {0}
    PROVE  /\ d \div i \in Nat
           /\ (d \div i) * i <= d /\ d < (d \div i) * i + i
  OBVIOUS

\* A multiple is divided without remainder.
LEMMA Multiple ==
    ASSUME NEW k \in Nat, NEW i \in Nat \ {0}
    PROVE  (k * i) % i = 0
  OBVIOUS

\* A task that is due moves to the first point of its grid after now.
LEMMA GridNext ==
    ASSUME now \in Nat, NEW t, t.next \in Nat, t.next <= now
    PROVE  /\ UpdateNext(t) \in Nat
           /\ now < UpdateNext(t) /\ UpdateNext(t) <= now + Interval
           /\ (UpdateNext(t) - t.next) % Interval = 0
  <1> DEFINE n == t.next + Interval
             q == (now - n) \div Interval
  <1> USE Numbers
  <1>1. CASE n > now
    <2>1. UpdateNext(t) = n /\ UpdateNext(t) - t.next = 1 * Interval
      BY <1>1 DEF UpdateNext
    <2> QED
      BY <1>1, <2>1, Multiple
  <1>2. CASE ~(n > now)
    <2>1. UpdateNext(t) = n + (q + 1) * Interval
      BY <1>2 DEF UpdateNext
    <2>2. /\ q \in Nat /\ q * Interval <= now - n
          /\ now - n < q * Interval + Interval
      <3>1. now - n \in Nat
        BY <1>2
      <3> HIDE DEF n
      <3> QED
        BY <3>1, Division
    <2>3. (q + 1) * Interval = q * Interval + Interval
          /\ (q + 2) * Interval = q * Interval + Interval + Interval
      BY <2>2
    <2>4. UpdateNext(t) - t.next = (q + 2) * Interval /\ q + 2 \in Nat
      BY <2>1, <2>2, <2>3
    <2>5. ((q + 2) * Interval) % Interval = 0
      BY <2>2, Multiple
    <2>6. q * Interval \in Nat
      BY <2>2
    <2> HIDE DEF q
    <2> QED
      BY <2>1, <2>2, <2>3, <2>4, <2>5, <2>6
  <1> QED
    BY <1>1, <1>2

-----------------------------------------------------------------------------
(* Types *)

\* Maps keep their types.
LEMMA MapTyped ==
    ASSUME NEW T, NEW f, DOMAIN f \subseteq Agent,
           \A x \in DOMAIN f : f[x] \in T
    PROVE  /\ \A a \in Agent, v \in T :
                  /\ DOMAIN Put(f, a, v) \subseteq Agent
                  /\ \A x \in DOMAIN Put(f, a, v) : Put(f, a, v)[x] \in T
           /\ \A S : /\ DOMAIN Drop(f, S) \subseteq Agent
                     /\ \A x \in DOMAIN Drop(f, S) : Drop(f, S)[x] \in T
  BY DEF Put, Drop

\* A task that is scheduled has its type.
LEMMA TaskTyped ==
    ASSUME TypeOK, NEW a \in Agent, NEW s
    PROVE  ScheduledTask(a, s) \in TaskRecord
  <1>1. (s = "Active") \in BOOLEAN
    OBVIOUS
  <1>2. (IF Schedule[a] = "interval" THEN now + Interval ELSE Never)
            \in {Never} \cup 0..(MaxTime + Interval)
    BY Numbers DEF TypeOK, Never
  <1> QED
    BY <1>1, <1>2 DEF ScheduledTask, TaskRecord

\* The scheduler is told nothing that is not a task.
LEMMA SyncTyped ==
    ASSUME TypeOK, NEW a \in Agent, NEW op, NEW s
    PROVE  /\ DOMAIN Sync(op, a, s) \subseteq Agent
           /\ \A x \in DOMAIN Sync(op, a, s) : Sync(op, a, s)[x] \in TaskRecord
  <1>1. \A u : /\ DOMAIN Put(tasks, a, ScheduledTask(a, u)) \subseteq Agent
               /\ \A x \in DOMAIN Put(tasks, a, ScheduledTask(a, u)) :
                      Put(tasks, a, ScheduledTask(a, u))[x] \in TaskRecord
    BY TaskTyped, MapTyped DEF TypeOK
  <1>2. /\ DOMAIN Drop(tasks, {a}) \subseteq Agent
        /\ \A x \in DOMAIN Drop(tasks, {a}) : Drop(tasks, {a})[x] \in TaskRecord
    BY MapTyped DEF TypeOK
  <1>3. /\ DOMAIN tasks \subseteq Agent
        /\ \A x \in DOMAIN tasks : tasks[x] \in TaskRecord
    BY DEF TypeOK
  <1>4. \/ Sync(op, a, s) = tasks \/ Sync(op, a, s) = Drop(tasks, {a})
        \/ \E u : Sync(op, a, s) = Put(tasks, a, ScheduledTask(a, u))
    BY DEF Sync
  <1> QED
    BY <1>1, <1>2, <1>3, <1>4

\* A reservation touches the times of tasks that are due and nothing else.
LEMMA ReservedTyped ==
    ASSUME TypeOK, LoopReserve
    PROVE  /\ DOMAIN tasks' = DOMAIN tasks
           /\ \A a \in DOMAIN tasks : /\ tasks'[a] \in TaskRecord
                                      /\ tasks'[a].enabled = tasks[a].enabled
           /\ loop' \in LoopRecord /\ (loop'.pc # "spawn" => loop'.due = {})
           /\ loop'.due \subseteq Due /\ slots' = slots \cup loop'.due
  <1>1. PICK P \in Picks :
          /\ slots' = slots \cup P
          /\ tasks' = [a \in DOMAIN tasks |->
                         IF a \in P
                         THEN [tasks[a] EXCEPT !.next = UpdateNext(tasks[a])]
                         ELSE tasks[a]]
          /\ loop' = [pc |-> IF P = {} THEN "idle" ELSE "spawn", due |-> P]
    BY DEF LoopReserve
  <1>2. P \subseteq Due /\ Due \subseteq Agent
    BY DEF Picks, Due, TypeOK
  <1>3. ASSUME NEW a \in DOMAIN tasks
        PROVE  tasks'[a] \in TaskRecord /\ tasks'[a].enabled = tasks[a].enabled
    <2>1. tasks[a] \in TaskRecord
      BY DEF TypeOK
    <2>2. CASE a \in P
      <3>1. tasks[a].next \in Nat /\ tasks[a].next <= now /\ now \in Nat
        BY <1>2, <2>1, <2>2, Numbers DEF Due, TaskRecord, TypeOK, Never
      <3>2. UpdateNext(tasks[a]) \in {Never} \cup 0..(MaxTime + Interval)
        <4>1. /\ UpdateNext(tasks[a]) \in Nat
              /\ UpdateNext(tasks[a]) <= now + Interval
          BY <3>1, GridNext
        <4> QED
          BY <4>1, Numbers DEF TypeOK
      <3>3. tasks'[a] = [tasks[a] EXCEPT !.next = UpdateNext(tasks[a])]
        BY <1>1, <2>2
      <3> QED
        BY <2>1, <3>2, <3>3 DEF TaskRecord
    <2>3. CASE a \notin P
      BY <1>1, <2>1, <2>3
    <2> QED
      BY <2>2, <2>3
  <1>4. loop' \in LoopRecord /\ (loop'.pc # "spawn" => loop'.due = {})
        /\ loop'.due = P
    BY <1>1, <1>2 DEF LoopRecord
  <1> QED
    BY <1>1, <1>2, <1>3, <1>4

\* One request changes, to a good one.
OneRequest(q) ==
    /\ request' \in [Request -> RequestRecord]
    /\ \A x \in Request : GoodRequest(request'[x])
    /\ \A x \in Request : x # q => request'[x] = request[x]

\* A free place for a request is well formed.
LEMMA NoRequestGood == GoodRequest(NoRequest)
  BY DEF GoodRequest, NoRequest, RequestRecord, Nobody, Statuses

\* A single request is replaced by a good one.
LEMMA OneRequestDef ==
    ASSUME Types, NEW q \in Request, NEW r, GoodRequest(r),
           request' = [request EXCEPT ![q] = r]
    PROVE  OneRequest(q) /\ request'[q] = r
  BY DEF Types, TypeOK, Shaped, OneRequest, GoodRequest

\* A request begins.
LEMMA BeginDoes ==
    ASSUME Types, NEW q \in Request, NEW a \in Agent,
           NEW op \in {"create", "status", "update", "delete"},
           NEW pc \in {"save", "sync", "cache", "store"},
           NEW s \in Statuses, Begin(q, op, a, pc, s)
    PROVE  /\ OneRequest(q) /\ request'[q].op = op /\ request'[q].agent = a
           /\ request'[q].pc = pc /\ request'[q].snap = s
  <1>1. PICK r : r = [op |-> op, agent |-> a, pc |-> pc, snap |-> s]
    OBVIOUS
  <1>2. /\ r \in RequestRecord /\ r.op = op /\ r.agent = a /\ r.pc = pc
        /\ r.snap = s
    BY <1>1 DEF RequestRecord
  <1>3. GoodRequest(r)
    BY <1>2 DEF GoodRequest
  <1>4. request' = [request EXCEPT ![q] = r]
    BY <1>1 DEF Begin
  <1> QED
    BY <1>2, <1>3, <1>4, OneRequestDef

\* A request goes on to its next call.
LEMMA MoveDoes ==
    ASSUME Types, NEW q \in Request, request[q].pc # "free",
           NEW pc \in {"save", "sync", "cache", "store"},
           request' = [request EXCEPT ![q].pc = pc]
    PROVE  /\ OneRequest(q) /\ request'[q].op = request[q].op
           /\ request'[q].agent = request[q].agent
           /\ request'[q].pc = pc /\ request'[q].snap = request[q].snap
  <1>1. PICK r : r = [request[q] EXCEPT !.pc = pc]
    OBVIOUS
  <1>2. request[q] \in RequestRecord /\ request[q].agent \in Agent
    BY DEF Types, Shaped, GoodRequest
  <1>3. /\ r \in RequestRecord /\ r.op = request[q].op
        /\ r.agent = request[q].agent /\ r.pc = pc /\ r.snap = request[q].snap
    BY <1>1, <1>2 DEF RequestRecord
  <1>4. GoodRequest(r)
    BY <1>2, <1>3 DEF GoodRequest
  <1>5. request' = [request EXCEPT ![q] = r]
    BY <1>1
  <1> QED
    BY <1>3, <1>4, <1>5, OneRequestDef, ZenonT(60)

\* A request ends.
LEMMA ReturnDoes ==
    ASSUME Types, NEW q \in Request, Finish(q)
    PROVE  OneRequest(q) /\ request'[q] = NoRequest
  BY NoRequestGood, OneRequestDef DEF Finish

\* The first state has its types.
LEMMA InitTypes == Init => Types
  <1> SUFFICES ASSUME Init PROVE Types
    OBVIOUS
  <1>1. \A e \in Exec : exec[e] = NoExec /\ GoodExec(exec[e])
    BY NoExecGood DEF Init
  <1>2. \A q \in Request : request[q] = NoRequest /\ GoodRequest(request[q])
    BY NoRequestGood DEF Init
  <1>3. exec \in [Exec -> ExecRecord]
    BY <1>1 DEF Init, GoodExec
  <1>4. request \in [Request -> RequestRecord]
    BY <1>2 DEF Init, GoodRequest
  <1>5. loop \in LoopRecord /\ loop.due = {}
    BY DEF Init, LoopOff, LoopRecord
  <1>6. /\ status \in [Agent -> Statuses] /\ ops \in [DOMAIN ops -> Nat]
    <2>1. PICK s \in Scenarios :
            /\ status = [a \in Agent |-> IF a \in s.store THEN "Active"
                                         ELSE "Absent"]
            /\ ops = s.ops
      BY DEF Init
    <2>2. status \in [Agent -> Statuses]
      BY <2>1 DEF Statuses
    <2>3. ops \in [DOMAIN ops -> Nat]
      BY <2>1, ScenarioAssumption
    <2> QED
      BY <2>2, <2>3
  <1>7. started \in BOOLEAN /\ running \in BOOLEAN /\ stopping \in BOOLEAN
        /\ sweep \in BOOLEAN
    BY Zenon DEF Init
  <1>8. DOMAIN tasks = {} /\ DOMAIN handles = {} /\ DOMAIN recent = {}
    BY EmptyMap DEF Init
  <1>9. TypeOK
    BY <1>3, <1>4, <1>5, <1>6, <1>7, <1>8, Numbers DEF Init, TypeOK
  <1> QED
    BY <1>1, <1>2, <1>5, <1>9 DEF Types, Shaped

\* The cooldowns keep their type.
LEMMA DropRecent ==
    ASSUME TypeOK, NEW a \in Agent, NEW S
    PROVE  /\ DOMAIN Put(Drop(recent, S), a, now) \subseteq Agent
           /\ \A x \in DOMAIN Put(Drop(recent, S), a, now) :
                  Put(Drop(recent, S), a, now)[x] \in 0..MaxTime
  BY DEF TypeOK, Put, Drop

\* Every step keeps the types.
LEMMA TypesStep ==
    Types /\ HandleInv /\ [Next]_vars => Types'
  <1> SUFFICES ASSUME Types /\ HandleInv, [Next]_vars PROVE Types'
    OBVIOUS
  <1>0. Types /\ TypeOK /\ Shaped
    BY DEF Types
  <1> USE DEF flags, sched, history, Types
  <1>1. CASE Tick /\ Noting({})
    <2>1. now' \in 0..MaxTime /\ ops' \in [DOMAIN ops' -> Nat]
      <3>1. now' \in 0..MaxTime
        BY <1>1, <1>0, Numbers DEF Tick, TypeOK
      <3>2. ops' \in [DOMAIN ops' -> Nat]
        BY <1>1, <1>0, OpTyped DEF Tick, TypeOK
      <3> QED
        BY <3>1, <3>2
    <2> QED
      BY <1>1, <1>0, <2>1, ClashGrows
         DEF Tick, TypeOK, Shaped, OneExec, OneRequest, Only, Quiet, Handler
  <1>2. CASE LoopCheck /\ Noting({})
    <2>1. loop' \in LoopRecord /\ (loop'.pc # "spawn" => loop'.due = {})
      BY <1>2, <1>0 DEF LoopCheck, TypeOK, LoopRecord, Shaped
    <2> QED
      BY <1>2, <1>0, <2>1, ClashGrows
         DEF LoopCheck, TypeOK, Shaped, OneExec, OneRequest, Only, Quiet,
             Handler
  <1>3. CASE LoopReserve /\ Noting({})
    <2>1. /\ slots' \subseteq Agent /\ loop' \in LoopRecord
          /\ loop'.pc # "spawn" => loop'.due = {}
      BY <1>3, <1>0, ReservedTyped DEF TypeOK, Due
    <2>2. /\ DOMAIN tasks' \subseteq Agent
          /\ \A x \in DOMAIN tasks' : tasks'[x] \in TaskRecord
      BY <1>3, <1>0, ReservedTyped DEF TypeOK
    <2> QED
      BY <1>3, <1>0, <2>1, <2>2, ClashGrows
         DEF LoopReserve, TypeOK, Shaped, OneExec, OneRequest, Only, Quiet,
             Handler
  <1>4. ASSUME NEW a \in Agent, NEW e \in Exec, LoopSpawn(a, e), Noting({})
        PROVE  Types'
    <2>1. OneExec(e)
      BY <1>4, <1>0, SpawnDoes DEF LoopSpawn
    <2>2. /\ DOMAIN handles' \subseteq Agent
          /\ \A x \in DOMAIN handles' : handles'[x] \in Exec
      BY <1>4, <1>0, MapTyped DEF LoopSpawn, TypeOK
    <2>3. loop' \in LoopRecord /\ (loop'.pc # "spawn" => loop'.due = {})
      BY <1>4, <1>0 DEF LoopSpawn, TypeOK, LoopRecord
    <2> QED
      BY <1>4, <1>0, <2>1, <2>2, <2>3, ClashGrows
         DEF LoopSpawn, TypeOK, Shaped, OneExec, OneRequest, Only, Quiet,
             Handler
  <1>5. ASSUME NEW a \in Agent, EventArrives(a), Noting({})
        PROVE  Types'
    <2>1. ops' \in [DOMAIN ops' -> Nat]
      BY <1>5, <1>0, OpTyped DEF EventArrives, TypeOK
    <2> QED
      BY <1>5, <1>0, <2>1, ClashGrows
         DEF EventArrives, TypeOK, Shaped, OneExec, OneRequest, Only, Quiet,
             Handler
  <1>6. ASSUME NEW e \in Exec, EventTrigger(e), Noting({})
        PROVE  Types'
    <2>1. listener \in Agent
      BY <1>6, <1>0 DEF EventTrigger, TypeOK
    <2>2. exec' = exec \/ OneExec(e)
      BY <1>6, <1>0, <2>1, SpawnDoes DEF EventTrigger
    <2>3. /\ DOMAIN recent' \subseteq Agent
          /\ \A x \in DOMAIN recent' : recent'[x] \in 0..MaxTime
      BY <1>6, <1>0, <2>1, MapTyped, DropRecent, ZenonT(60) DEF EventTrigger,
             TypeOK
    <2> QED
      BY <1>6, <1>0, <2>1, <2>2, <2>3, ClashGrows
         DEF EventTrigger, TypeOK, Shaped, OneExec, OneRequest, Only, Quiet,
             Handler
  <1>7. ASSUME NEW e \in Exec, Poll(e), Noting({})
        PROVE  Types'
    <2>1. exec[e].agent \in Agent /\ exec[e].pc # "free"
      BY <1>7, <1>0 DEF Poll, Shaped, GoodExec, NoExec, Working
    <2>2. OneExec(e)
      BY <1>7, <1>0, <2>1, GoDoes DEF Poll
    <2> QED
      BY <1>7, <1>0, <2>1, <2>2, ClashGrows
         DEF Poll, TypeOK, Shaped, OneExec, OneRequest, Only, Quiet, Handler
  <1>8. ASSUME NEW e \in Exec, AcquireGlobal(e), Noting({})
        PROVE  Types'
    <2>1. exec[e].agent \in Agent /\ exec[e].pc # "free"
      BY <1>8, <1>0 DEF AcquireGlobal, Shaped, GoodExec, NoExec, Working
    <2>2. OneExec(e)
      BY <1>8, <1>0, <2>1, GoDoes DEF AcquireGlobal, Working
    <2> QED
      BY <1>8, <1>0, <2>1, <2>2, ClashGrows
         DEF AcquireGlobal, TypeOK, Shaped, OneExec, OneRequest, Only, Quiet,
             Handler
  <1>9. ASSUME NEW e \in Exec, AcquireBackend(e), Noting({})
        PROVE  Types'
    <2>1. exec[e].agent \in Agent /\ exec[e].pc # "free"
      BY <1>9, <1>0 DEF AcquireBackend, Shaped, GoodExec, NoExec, Working
    <2>2. OneExec(e)
      BY <1>9, <1>0, <2>1, ExecuteDoes DEF AcquireBackend
    <2>3. status' \in [Agent -> Statuses]
      BY <1>9, <1>0, <2>1, WriteDef DEF AcquireBackend, Execute, TypeOK,
             Statuses
    <2> QED
      BY <1>9, <1>0, <2>1, <2>2, <2>3, ClashGrows
         DEF AcquireBackend, Execute, TypeOK, Shaped, OneExec, OneRequest,
             Only, Quiet, Handler
  <1>10. ASSUME NEW e \in Exec, StartExecution(e), Noting({})
        PROVE  Types'
    <2>1. exec[e].agent \in Agent /\ exec[e].pc # "free"
      BY <1>10, <1>0 DEF StartExecution, Shaped, GoodExec, NoExec, Working
    <2>2. OneExec(e)
      BY <1>10, <1>0, <2>1, ExecuteDoes DEF StartExecution
    <2>3. status' \in [Agent -> Statuses]
      BY <1>10, <1>0, <2>1, WriteDef DEF StartExecution, Execute, TypeOK,
             Statuses
    <2> QED
      BY <1>10, <1>0, <2>1, <2>2, <2>3, ClashGrows
         DEF StartExecution, Execute, TypeOK, Shaped, OneExec, OneRequest,
             Only, Quiet, Handler
  <1>11. ASSUME NEW e \in Exec, NEW out \in Outcomes, FinishExecution(e, out),
                Noting({})
        PROVE  Types'
    <2>1. exec[e].agent \in Agent /\ exec[e].pc # "free"
      BY <1>11, <1>0 DEF FinishExecution, Shaped, GoodExec, NoExec, Working
    <2>2. OneExec(e)
      BY <1>11, <1>0, FinishDoes
    <2>3. status' \in [Agent -> Statuses]
      BY <1>11, <1>0, <2>1, WriteDef DEF FinishExecution, TypeOK, Statuses
    <2> QED
      BY <1>11, <1>0, <2>1, <2>2, <2>3, ClashGrows
         DEF FinishExecution, TypeOK, Shaped, OneExec, OneRequest, Only, Quiet,
             Handler
  <1>12. ASSUME NEW e \in Exec, Rewrite(e), Noting({})
        PROVE  Types'
    <2>1. OneExec(e) /\ exec[e].agent \in Agent
      BY <1>12, <1>0, RewriteDoes, Busy DEF Rewriting
    <2>2. status' \in [Agent -> Statuses] /\ unsaved' \subseteq Agent
      <3>1. unsaved' \subseteq Agent
        BY <1>12, <1>0, <2>1, RewriteDoes DEF TypeOK
      <3>2. CASE \E s \in {"Error", "Active"} : status' = Write(exec[e].agent, s)
        BY <1>0, <2>1, <3>1, <3>2, WriteDef DEF TypeOK, Statuses
      <3>3. CASE UNCHANGED status
        BY <1>0, <3>1, <3>3 DEF TypeOK
      <3> QED
        BY <1>12, <1>0, <3>2, <3>3, RewriteDoes
    <2> QED
      BY <1>12, <1>0, <2>1, <2>2, ClashGrows
         DEF Rewrite, TypeOK, Shaped, OneExec, Quiet
  <1>13. ASSUME NEW e \in Exec, NEW late \in Late, EndScheduled(e, late),
                Noting({})
        PROVE  Types'
    <2>1. exec[e].agent \in Agent /\ exec[e].pc # "free"
      BY <1>13, <1>0 DEF EndScheduled, Shaped, GoodExec, NoExec, Working
    <2>2. OneExec(e)
      BY <1>13, <1>0, <2>1, EndDoes, LateAssumption DEF EndScheduled
    <2>3. /\ DOMAIN handles' \subseteq Agent
          /\ \A x \in DOMAIN handles' : handles'[x] \in Exec
      BY <1>13, <1>0, MapTyped, ZenonT(60) DEF EndScheduled, ReleaseSlot,
             TypeOK
    <2>4. slots' \subseteq Agent
      BY <1>13, <1>0 DEF EndScheduled, ReleaseSlot, TypeOK
    <2> QED
      BY <1>13, <1>0, <2>1, <2>2, <2>3, <2>4, ClashGrows
         DEF EndScheduled, ReleaseSlot, TypeOK, Shaped, OneExec, OneRequest,
             Only, Quiet, Handler
  <1>14. ASSUME NEW e \in Exec, RetryEvent(e), Noting({})
        PROVE  Types'
    <2>1. OneExec(e)
      BY <1>14, <1>0, RetryDoes
    <2> QED
      BY <1>14, <1>0, <2>1, ClashGrows
         DEF RetryEvent, TypeOK, Shaped, OneExec, OneRequest, Only, Quiet,
             Handler
  <1>15. ASSUME NEW e \in Exec, EndEvent(e), Noting({})
        PROVE  Types'
    <2>1. exec[e].agent \in Agent /\ exec[e].pc # "free"
      BY <1>15, <1>0 DEF EndEvent, Shaped, GoodExec, NoExec, Working
    <2>2. OneExec(e)
      BY <1>15, <1>0, <2>1, EndDoes DEF EndEvent
    <2>3. /\ DOMAIN recent' \subseteq Agent
          /\ \A x \in DOMAIN recent' : recent'[x] \in 0..MaxTime
      BY <1>15, <1>0, MapTyped DEF EndEvent, TypeOK
    <2> QED
      BY <1>15, <1>0, <2>1, <2>2, <2>3, ClashGrows
         DEF EndEvent, TypeOK, Shaped, OneExec, OneRequest, Only, Quiet,
             Handler
  <1>16. ASSUME NEW a \in Agent, NEW e \in Exec, ManualStart(a, e), Noting({})
        PROVE  Types'
    <2>1. UNCHANGED exec \/ OneExec(e)
      BY <1>16, <1>0, ManualDoes
    <2>2. status' \in [Agent -> Statuses]
      BY <1>16, <1>0, WriteDef DEF ManualStart, TypeOK, Statuses
    <2>3. ops' \in [DOMAIN ops' -> Nat]
      BY <1>16, <1>0, OpTyped, SMTT(30) DEF ManualStart, TypeOK
    <2> QED
      BY <1>16, <1>0, <2>1, <2>2, <2>3, ClashGrows
         DEF ManualStart, TypeOK, Shaped, OneExec, OneRequest, Only, Quiet,
             Handler
  <1>17. ASSUME NEW e \in Exec, ManualEnd(e), Noting({})
        PROVE  Types'
    <2>1. exec[e].agent \in Agent /\ exec[e].pc # "free"
      BY <1>17, <1>0 DEF ManualEnd, Shaped, GoodExec, NoExec, Working
    <2>2. OneExec(e)
      BY <1>17, <1>0, <2>1, EndDoes DEF ManualEnd
    <2>3. status' \in [Agent -> Statuses] /\ unsaved' \subseteq Agent
      BY <1>17, <1>0, <2>1, WriteDef DEF ManualEnd, Refused, TypeOK, Statuses
    <2>4. /\ DOMAIN recent' \subseteq Agent
          /\ \A x \in DOMAIN recent' : recent'[x] \in 0..MaxTime
      BY <1>17, <1>0, <2>1, MapTyped, DropRecent DEF ManualEnd, TypeOK
    <2> QED
      BY <1>17, <1>0, <2>1, <2>2, <2>3, <2>4, ClashGrows
         DEF ManualEnd, TypeOK, Shaped, OneExec, OneRequest, Only, Quiet,
             Handler
  <1>18. ASSUME NEW e \in Exec, NEW late \in Late, Unwind(e, late), Noting({})
        PROVE  Types'
    <2>0. exec[e].pc # "free" /\ exec[e].agent \in Agent
          /\ exec[e].kind # "manual"
      <3>1. GoodExec(exec[e]) /\ exec[e].aborted
        BY <1>18, <1>0 DEF Unwind, Shaped
      <3> QED
        BY <3>1 DEF GoodExec, NoExec
    <2>1. PICK D \in SUBSET {"status", "slot", "handle"} :
              exec' = [exec EXCEPT ![e] = Ended(@, D)]
      BY <1>18, LateAssumption DEF Unwind
    <2>2. OneExec(e)
      BY <1>0, <2>0, <2>1, EndDoes
    <2>3. /\ DOMAIN handles' \subseteq Agent
          /\ \A x \in DOMAIN handles' : handles'[x] \in Exec
      <3>1. handles' = handles \/ \E S : handles' = Drop(handles, S)
        BY <1>18 DEF Unwind, ReleaseSlot
      <3> QED
        BY <1>0, <3>1, MapTyped DEF TypeOK
    <2>4. /\ slots' \subseteq Agent /\ leaked' \subseteq Agent
          /\ unsaved' \subseteq Agent
      BY <1>18, <1>0, <2>0 DEF Unwind, ReleaseSlot, NotWritten, TypeOK
    <2> QED
      BY <1>18, <1>0, <2>2, <2>3, <2>4, ClashGrows
         DEF Unwind, TypeOK, Shaped, OneExec, Quiet
  <1>19. ASSUME NEW e \in Exec, NEW d \in {"status", "slot", "handle"},
                PayDebt(e, d), Noting({})
        PROVE  Types'
    <2>1. OneExec(e) /\ exec[e].agent \in Agent
      BY <1>19, <1>0, PayDoes
    <2>2. status' \in [Agent -> Statuses] /\ unsaved' \subseteq Agent
      BY <1>19, <1>0, <2>1, WriteDef DEF PayDebt, Refused, TypeOK, Statuses
    <2>3. /\ DOMAIN handles' \subseteq Agent
          /\ \A x \in DOMAIN handles' : handles'[x] \in Exec
      BY <1>19, <1>0, MapTyped, ZenonT(60) DEF PayDebt, TypeOK
    <2>4. slots' \subseteq Agent
      BY <1>19, <1>0 DEF PayDebt, TypeOK
    <2> QED
      BY <1>19, <1>0, <2>1, <2>2, <2>3, <2>4, ClashGrows
         DEF PayDebt, TypeOK, Shaped, OneExec, OneRequest, Only, Quiet, Handler
  <1>20. ASSUME NEW R \in SUBSET {b \in Stale : MayRefuse(b)}, ManagerStart(R),
                Noting(R)
        PROVE  Types'
    <2>0. clash' \subseteq Agent
      BY <1>20, <1>0, ClashGrows DEF Stale, TypeOK
    <2>1. status' \in [Agent -> Statuses]
      BY <1>20, <1>0 DEF ManagerStart, TypeOK, Statuses
    <2>2. /\ DOMAIN tasks' \subseteq Agent
          /\ \A x \in DOMAIN tasks' : tasks'[x] \in TaskRecord
      BY <1>20, <1>0, TaskTyped DEF ManagerStart, TypeOK
    <2>3. loop' \in LoopRecord /\ (loop'.pc # "spawn" => loop'.due = {})
      BY <1>20, <1>0 DEF ManagerStart, TypeOK, LoopRecord, Shaped
    <2>4. started' \in BOOLEAN /\ running' \in BOOLEAN /\ sweep' \in BOOLEAN
      BY <1>20, <1>0, Zenon DEF ManagerStart
    <2> QED
      BY <1>20, <1>0, <2>0, <2>1, <2>2, <2>3, <2>4
         DEF ManagerStart, TypeOK, Shaped, OneExec, OneRequest, Only, Quiet,
             Handler
  <1>21. CASE StartupSweep /\ Noting({})
    <2>1. status' \in [Agent -> Statuses]
      BY <1>21, <1>0 DEF StartupSweep, TypeOK, Statuses
    <2>2. sweep' \in BOOLEAN
      BY <1>21, <1>0, Zenon DEF StartupSweep
    <2> QED
      BY <1>21, <1>0, <2>1, <2>2, ClashGrows
         DEF StartupSweep, TypeOK, Shaped, OneExec, OneRequest, Only, Quiet,
             Handler
  <1>22. CASE StopFlag /\ Noting({})
    <2>1. ops' \in [DOMAIN ops' -> Nat]
      BY <1>22, <1>0, OpTyped DEF StopFlag, TypeOK
    <2>2. started' \in BOOLEAN /\ running' \in BOOLEAN /\ stopping' \in BOOLEAN
      BY <1>22, <1>0, Zenon DEF StopFlag
    <2> QED
      BY <1>22, <1>0, <2>1, <2>2, ClashGrows
         DEF StopFlag, TypeOK, Shaped, OneExec, OneRequest, Only, Quiet,
             Handler
  <1>23. CASE StopDrain /\ Noting({})
    <2> DEFINE S == {handles[a] : a \in DOMAIN handles}
    <2>1. exec' = [x \in Exec |-> IF x \in S
                                 THEN [exec[x] EXCEPT !.aborted = TRUE]
                                 ELSE exec[x]]
      BY <1>23 DEF StopDrain
    <2>2. \A x \in Exec : x \in S => exec[x].pc # "free" /\ exec[x].kind # "manual"
      BY DEF HandleInv
    <2>3. exec' \in [Exec -> ExecRecord] /\ \A x \in Exec : GoodExec(exec'[x])
      BY <1>0, <2>1, <2>2, AbortDoes
    <2>4. DOMAIN handles' = {}
      BY <1>23, EmptyMap DEF StopDrain
    <2>5. stopping' \in BOOLEAN
      BY <1>23, Zenon DEF StopDrain
    <2> QED
      BY <1>23, <1>0, <2>3, <2>4, <2>5, ClashGrows DEF StopDrain, TypeOK,
             Shaped
  <1>24. CASE AbortEvents /\ Noting({})
    <2> DEFINE S == {x \in Exec : /\ exec[x].kind = "event"
                                  /\ exec[x].pc \notin {"free", "ended"}}
    <2>1. exec' = [x \in Exec |-> IF x \in S
                                 THEN [exec[x] EXCEPT !.aborted = TRUE]
                                 ELSE exec[x]]
      BY <1>24 DEF AbortEvents
    <2>2. exec' \in [Exec -> ExecRecord] /\ \A x \in Exec : GoodExec(exec'[x])
      BY <1>0, <2>1, AbortDoes
    <2>3. ops' \in [DOMAIN ops' -> Nat]
      BY <1>24, <1>0, OpTyped DEF AbortEvents, TypeOK
    <2> QED
      BY <1>24, <1>0, <2>2, <2>3, ClashGrows DEF AbortEvents, TypeOK, Shaped
  <1>25. CASE Crash /\ Noting({})
    <2>1. \A e \in Exec : exec'[e] = NoExec /\ GoodExec(exec'[e])
      BY <1>25, NoExecGood DEF Crash
    <2>2. \A q \in Request : request'[q] = NoRequest /\ GoodRequest(request'[q])
      BY <1>25, NoRequestGood DEF Crash
    <2>3. /\ exec' \in [Exec -> ExecRecord]
          /\ request' \in [Request -> RequestRecord]
      BY <1>25, <2>1, <2>2 DEF Crash, GoodExec, GoodRequest
    <2>4. loop' \in LoopRecord /\ loop'.due = {}
      BY <1>25 DEF Crash, LoopOff, LoopRecord
    <2>5. started' \in BOOLEAN /\ running' \in BOOLEAN /\ stopping' \in BOOLEAN
          /\ sweep' \in BOOLEAN
      BY <1>25, Zenon DEF Crash
    <2>6. DOMAIN tasks' = {} /\ DOMAIN handles' = {} /\ DOMAIN recent' = {}
      BY <1>25, EmptyMap DEF Crash
    <2>7. ops' \in [DOMAIN ops' -> Nat]
      BY <1>25, <1>0, OpTyped DEF Crash, TypeOK
    <2> QED
      BY <1>25, <1>0, <2>1, <2>2, <2>3, <2>4, <2>5, <2>6, <2>7, ClashGrows
         DEF Crash, TypeOK, Shaped
  <1>26. ASSUME NEW q \in Request, NEW a \in Agent, Create(q, a), Noting({})
        PROVE  Types'
    <2>1. OneRequest(q)
      BY <1>26, <1>0, BeginDoes DEF Create, Statuses
    <2>2. status' \in [Agent -> Statuses]
      BY <1>26, <1>0 DEF Create, TypeOK, Statuses
    <2>3. ops' \in [DOMAIN ops' -> Nat]
      BY <1>26, <1>0, OpTyped DEF Create, TypeOK
    <2> QED
      BY <1>26, <1>0, <2>1, <2>2, <2>3, ClashGrows
         DEF Create, TypeOK, Shaped, OneExec, OneRequest, Only, Quiet, Handler
  <1>27. ASSUME NEW q \in Request, NEW a \in Agent,
                NEW s \in {"Active", "Paused", "Error"}, SetStatus(q, a, s),
                Noting({})
        PROVE  Types'
    <2>1. OneRequest(q)
      BY <1>27, <1>0, BeginDoes DEF SetStatus, Statuses
    <2>2. status' \in [Agent -> Statuses]
      BY <1>27, <1>0, WriteDef DEF SetStatus, TypeOK, Statuses
    <2>3. ops' \in [DOMAIN ops' -> Nat]
      BY <1>27, <1>0, OpTyped DEF SetStatus, TypeOK
    <2> QED
      BY <1>27, <1>0, <2>1, <2>2, <2>3, ClashGrows
         DEF SetStatus, TypeOK, Shaped, OneExec, OneRequest, Only, Quiet,
             Handler
  <1>28. ASSUME NEW q \in Request, NEW a \in Agent, NEW s \in Statuses,
                UpdateRead(q, a, s), Noting({})
        PROVE  Types'
    <2>1. OneRequest(q)
      BY <1>28, <1>0, BeginDoes DEF UpdateRead
    <2>2. ops' \in [DOMAIN ops' -> Nat]
      BY <1>28, <1>0, OpTyped DEF UpdateRead, TypeOK
    <2> QED
      BY <1>28, <1>0, <2>1, <2>2, ClashGrows
         DEF UpdateRead, TypeOK, Shaped, OneExec, OneRequest, Only, Quiet,
             Handler
  <1>29. ASSUME NEW q \in Request, UpdateSave(q), Noting({})
        PROVE  Types'
    <2>1. OneRequest(q)
      BY <1>29, <1>0, MoveDoes DEF UpdateSave
    <2>2. status' \in [Agent -> Statuses]
      BY <1>29, <1>0 DEF UpdateSave, TypeOK, RequestRecord
    <2> QED
      BY <1>29, <1>0, <2>1, <2>2, ClashGrows
         DEF UpdateSave, TypeOK, Shaped, OneExec, OneRequest, Only, Quiet,
             Handler
  <1>30. ASSUME NEW q \in Request, SyncScheduler(q), Noting({})
        PROVE  Types'
    <2>1. OneRequest(q)
      BY <1>30, <1>0, ReturnDoes DEF SyncScheduler
    <2>2. request[q].agent \in Agent
      BY <1>30, <1>0 DEF SyncScheduler, Shaped, GoodRequest
    <2>3. /\ DOMAIN tasks' \subseteq Agent
          /\ \A x \in DOMAIN tasks' : tasks'[x] \in TaskRecord
      BY <1>30, <1>0, <2>2, SyncTyped DEF SyncScheduler
    <2> QED
      BY <1>30, <1>0, <2>1, <2>2, <2>3, ClashGrows
         DEF SyncScheduler, TypeOK, Shaped, OneExec, OneRequest, Only, Quiet,
             Handler
  <1>31. ASSUME NEW q \in Request, NEW a \in Agent, Delete(q, a), Noting({})
        PROVE  Types'
    <2>1. OneRequest(q)
      BY <1>31, <1>0, BeginDoes DEF Delete, TypeOK
    <2>2. /\ DOMAIN tasks' \subseteq Agent
          /\ \A x \in DOMAIN tasks' : tasks'[x] \in TaskRecord
      BY <1>31, <1>0, MapTyped DEF Delete, TypeOK
    <2>3. ops' \in [DOMAIN ops' -> Nat]
      BY <1>31, <1>0, OpTyped DEF Delete, TypeOK
    <2> QED
      BY <1>31, <1>0, <2>1, <2>2, <2>3, ClashGrows
         DEF Delete, TypeOK, Shaped, OneExec, OneRequest, Only, Quiet, Handler
  <1>32. ASSUME NEW q \in Request, DeleteCache(q), Noting({})
        PROVE  Types'
    <2>1. OneRequest(q)
      BY <1>32, <1>0, MoveDoes DEF DeleteCache
    <2> QED
      BY <1>32, <1>0, <2>1, ClashGrows
         DEF DeleteCache, TypeOK, Shaped, OneExec, OneRequest, Only, Quiet,
             Handler
  <1>33. ASSUME NEW q \in Request, DeleteStore(q), Noting({})
        PROVE  Types'
    <2>1. OneRequest(q)
      BY <1>33, <1>0, ReturnDoes DEF DeleteStore
    <2>2. status' \in [Agent -> Statuses]
      BY <1>33, <1>0 DEF DeleteStore, TypeOK, Statuses
    <2> QED
      BY <1>33, <1>0, <2>1, <2>2, ClashGrows
         DEF DeleteStore, TypeOK, Shaped, OneExec, OneRequest, Only, Quiet,
             Handler
  <1>34. ASSUME NEW q \in Request, Disconnect(q), Noting({request[q].agent})
        PROVE  Types'
    <2>1. OneRequest(q) /\ request[q].agent \in Agent
      BY <1>34, <1>0, ReturnDoes DEF Disconnect, Shaped, GoodRequest
    <2>2. /\ DOMAIN tasks' \subseteq Agent
          /\ \A x \in DOMAIN tasks' : tasks'[x] \in TaskRecord
      BY <1>34, <1>0, MapTyped DEF Disconnect, TypeOK
    <2>3. ops' \in [DOMAIN ops' -> Nat] /\ clash' \subseteq Agent
      <3>1. ops' \in [DOMAIN ops' -> Nat]
        BY <1>34, <1>0, OpTyped DEF Disconnect, TypeOK
      <3>2. clash' \subseteq Agent
        BY <1>34, <1>0, <2>1, ClashGrows DEF TypeOK
      <3> QED
        BY <3>1, <3>2
    <2> QED
      BY <1>34, <1>0, <2>1, <2>2, <2>3
         DEF Disconnect, TypeOK, Shaped, OneRequest, Handler
  <1>35. CASE UNCHANGED vars
    BY <1>35, <1>0 DEF vars, TypeOK, Shaped
  <1> QED
    BY <1>1, <1>2, <1>3, <1>4, <1>5, <1>6, <1>7, <1>8, <1>9, <1>10, <1>11,
       <1>12, <1>13, <1>14, <1>15, <1>16, <1>17, <1>18, <1>19, <1>20, <1>21,
       <1>22, <1>23, <1>24, <1>25, <1>26, <1>27, <1>28, <1>29, <1>30, <1>31,
       <1>32, <1>33, <1>34, <1>35
       DEF Next, Environment, Scheduling, Execution, Cleanup, Handling

-----------------------------------------------------------------------------
(* Handles *)

\* A handle that stays when those of one agent go is not that of its task.
LEMMA HandleDropped ==
    ASSUME HandleInv, NEW e, handles' = Drop(handles, {exec[e].agent})
    PROVE  \A b \in DOMAIN handles' : /\ b \in DOMAIN handles
                                      /\ handles[b] # e
                                      /\ handles'[b] = handles[b]
  <1>1. /\ DOMAIN handles' = DOMAIN handles \ {exec[e].agent}
        /\ \A b \in DOMAIN handles' : handles'[b] = handles[b]
    BY DEF Drop
  <1>2. \A b \in DOMAIN handles : exec[handles[b]].agent = b
    BY DEF HandleInv
  <1> QED
    BY <1>1, <1>2

\* A handle stays that of a live execution of its agent.
LEMMA HandleStep ==
    Types /\ HandleInv /\ [Next]_vars => HandleInv'
  <1> SUFFICES ASSUME Types /\ HandleInv, [Next]_vars PROVE HandleInv'
    OBVIOUS
  <1>0. Types /\ TypeOK /\ Shaped
    BY DEF Types
  <1>1. CASE Tick /\ Noting({})
    BY <1>1 DEF Tick, flags, sched, Only, Quiet, HandleInv
  <1>2. CASE LoopCheck /\ Noting({})
    BY <1>2 DEF LoopCheck, flags, sched, Only, Quiet, HandleInv
  <1>3. CASE LoopReserve /\ Noting({})
    BY <1>3 DEF LoopReserve, flags, sched, Only, Quiet, HandleInv
  <1>4. ASSUME NEW a \in Agent, NEW e \in Exec, LoopSpawn(a, e), Noting({})
        PROVE  HandleInv'
    <2>1. /\ OneExec(e) /\ exec'[e].pc = "queued" /\ exec'[e].agent = a
          /\ exec'[e].kind = "sched" /\ ~exec'[e].aborted
      BY <1>4, <1>0, SpawnDoes DEF LoopSpawn
    <2>2. exec[e].pc = "free" /\ handles' = Put(handles, a, e)
      BY <1>4 DEF LoopSpawn, IsNext
    <2>3. \A b \in DOMAIN handles : handles[b] # e /\ handles[b] \in Exec
      BY <1>0, <2>2 DEF HandleInv, TypeOK
    <2> QED
      <3>1. /\ DOMAIN handles' = DOMAIN handles \cup {a} /\ handles'[a] = e
            /\ \A b \in DOMAIN handles : b # a => handles'[b] = handles[b]
        BY <2>2 DEF Put
      <3> QED
        BY <1>0, <2>1, <2>3, <3>1 DEF HandleInv, OneExec
  <1>5. ASSUME NEW a \in Agent, EventArrives(a), Noting({})
        PROVE  HandleInv'
    BY <1>5 DEF EventArrives, flags, sched, Only, Quiet, HandleInv
  <1>6. ASSUME NEW e \in Exec, EventTrigger(e), Noting({})
        PROVE  HandleInv'
    <2>1. UNCHANGED handles /\ listener \in Agent
      BY <1>6, <1>0 DEF EventTrigger, sched, TypeOK
    <2>2. CASE UNCHANGED exec
      BY <2>1, <2>2 DEF HandleInv
    <2>3. CASE exec' # exec
      <3>1. /\ exec[e].pc = "free"
            /\ exec' = [exec EXCEPT ![e] = Spawned(listener, "event")]
        BY <1>6, <2>3 DEF EventTrigger, IsNext
      <3>2. OneExec(e)
        BY <1>0, <2>1, <3>1, SpawnDoes
      <3> QED
        BY <1>0, <2>1, <3>1, <3>2 DEF HandleInv, OneExec, TypeOK
    <2> QED
      BY <2>2, <2>3
  <1>7. ASSUME NEW e \in Exec, Poll(e), Noting({})
        PROVE  HandleInv'
    <2>1. /\ OneExec(e) /\ exec'[e].pc \notin {"free", "ended"}
          /\ Same(e, {"agent", "kind", "owes", "aborted"})
      BY <1>7, <1>0, GoDoes DEF Poll, Working
    <2>2. UNCHANGED handles
      BY <1>7 DEF Poll, flags, sched, Only, Quiet
    <2> QED
      BY <1>0, <2>1, <2>2 DEF HandleInv, OneExec, Same, TypeOK
  <1>8. ASSUME NEW e \in Exec, AcquireGlobal(e), Noting({})
        PROVE  HandleInv'
    <2>1. /\ OneExec(e) /\ exec'[e].pc \notin {"free", "ended"}
          /\ Same(e, {"agent", "kind", "owes", "aborted"})
      BY <1>8, <1>0, GoDoes DEF AcquireGlobal, Working, Working
    <2>2. UNCHANGED handles
      BY <1>8 DEF AcquireGlobal, flags, sched, Only, Quiet
    <2> QED
      BY <1>0, <2>1, <2>2 DEF HandleInv, OneExec, Same, TypeOK
  <1>9. ASSUME NEW e \in Exec, AcquireBackend(e), Noting({})
        PROVE  HandleInv'
    <2>1. /\ OneExec(e) /\ exec'[e].pc \notin {"free", "ended"}
          /\ Same(e, {"agent", "kind", "owes", "aborted"})
      BY <1>9, <1>0, ExecuteDoes DEF AcquireBackend
    <2>2. UNCHANGED handles
      BY <1>9 DEF AcquireBackend, Execute, flags, sched, Only, Quiet
    <2> QED
      BY <1>0, <2>1, <2>2 DEF HandleInv, OneExec, Same, TypeOK
  <1>10. ASSUME NEW e \in Exec, StartExecution(e), Noting({})
        PROVE  HandleInv'
    <2>1. /\ OneExec(e) /\ exec'[e].pc \notin {"free", "ended"}
          /\ Same(e, {"agent", "kind", "owes", "aborted"})
      BY <1>10, <1>0, ExecuteDoes DEF StartExecution
    <2>2. UNCHANGED handles
      BY <1>10 DEF StartExecution, Execute, flags, sched, Only, Quiet
    <2> QED
      BY <1>0, <2>1, <2>2 DEF HandleInv, OneExec, Same, TypeOK
  <1>11. ASSUME NEW e \in Exec, NEW out \in Outcomes, FinishExecution(e, out),
                Noting({})
        PROVE  HandleInv'
    <2>1. /\ OneExec(e) /\ exec'[e].pc \in {"return"} \cup Rewriting
          /\ Same(e, {"agent", "kind", "aborted"})
          /\ exec[e].owes \subseteq exec'[e].owes
      BY <1>11, <1>0, FinishDoes DEF Same
    <2>2. UNCHANGED handles
      BY <1>11 DEF FinishExecution, Only
    <2> QED
      BY <1>0, <2>1, <2>2 DEF HandleInv, OneExec, Same, TypeOK, Rewriting
  <1>12. ASSUME NEW e \in Exec, Rewrite(e), Noting({})
        PROVE  HandleInv'
    <2>1. /\ OneExec(e) /\ exec'[e].pc = "return"
          /\ Same(e, {"agent", "kind", "owes", "aborted"})
      BY <1>12, <1>0, RewriteDoes
    <2>2. UNCHANGED handles
      BY <1>12 DEF Rewrite
    <2> QED
      BY <1>0, <2>1, <2>2 DEF HandleInv, OneExec, Same, TypeOK
  <1>13. ASSUME NEW e \in Exec, NEW late \in Late, EndScheduled(e, late),
                Noting({})
        PROVE  HandleInv'
    <2>1. /\ OneExec(e) /\ exec'[e].pc \in {"free", "ended"}
          /\ ~exec'[e].aborted /\ exec'[e].owes = exec[e].owes \cup late
          /\ exec'[e].pc = "ended" <=> exec[e].owes \cup late # {}
          /\ exec'[e].pc = "ended" => Same(e, {"agent", "kind"})
      BY <1>13, <1>0, EndDoes, LateAssumption DEF EndScheduled
    <2>2. handles' = IF "handle" \in late THEN handles
                     ELSE Drop(handles, {exec[e].agent})
      BY <1>13 DEF EndScheduled, ReleaseSlot
    <2>3. CASE "handle" \in late
      BY <1>0, <2>1, <2>2, <2>3 DEF HandleInv, OneExec, Same, TypeOK
    <2>4. CASE "handle" \notin late
      <3>1. \A b \in DOMAIN handles' : /\ b \in DOMAIN handles /\ handles[b] # e
                                       /\ handles'[b] = handles[b]
        <4>1. handles' = Drop(handles, {exec[e].agent})
          BY <2>2, <2>4
        <4> QED
          BY <4>1, HandleDropped
      <3> QED
        BY <1>0, <2>1, <3>1 DEF HandleInv, OneExec, TypeOK
    <2> QED
      BY <2>3, <2>4
  <1>14. ASSUME NEW e \in Exec, RetryEvent(e), Noting({})
        PROVE  HandleInv'
    <2>1. /\ OneExec(e) /\ exec'[e].pc = "start"
          /\ Same(e, {"agent", "kind", "owes", "aborted"})
      BY <1>14, <1>0, RetryDoes
    <2>2. UNCHANGED handles
      BY <1>14 DEF RetryEvent, Only
    <2> QED
      BY <1>0, <2>1, <2>2 DEF HandleInv, OneExec, Same, TypeOK
  <1>15. ASSUME NEW e \in Exec, EndEvent(e), Noting({})
        PROVE  HandleInv'
    <2>1. OneExec(e)
      BY <1>15, <1>0, EndDoes DEF EndEvent
    <2>2. UNCHANGED handles /\ exec[e].kind # "sched"
      BY <1>15 DEF EndEvent
    <2> QED
      BY <1>0, <2>1, <2>2 DEF HandleInv, OneExec, TypeOK
  <1>16. ASSUME NEW a \in Agent, NEW e \in Exec, ManualStart(a, e), Noting({})
        PROVE  HandleInv'
    <2>1. /\ UNCHANGED exec \/ OneExec(e)
          /\ exec[e].pc = "free" /\ UNCHANGED handles
      BY <1>16, <1>0, ManualDoes DEF ManualStart, IsNext, sched
    <2> QED
      BY <1>0, <2>1 DEF HandleInv, OneExec, TypeOK
  <1>17. ASSUME NEW e \in Exec, ManualEnd(e), Noting({})
        PROVE  HandleInv'
    <2>1. OneExec(e)
      BY <1>17, <1>0, EndDoes DEF ManualEnd
    <2>2. UNCHANGED handles /\ exec[e].kind # "sched"
      BY <1>17 DEF ManualEnd
    <2> QED
      BY <1>0, <2>1, <2>2 DEF HandleInv, OneExec, TypeOK
  <1>18. ASSUME NEW e \in Exec, NEW late \in Late, Unwind(e, late), Noting({})
        PROVE  HandleInv'
    <2>0. exec[e].pc # "free" /\ exec[e].kind # "manual" /\ exec[e].aborted
      <3>1. GoodExec(exec[e]) /\ exec[e].aborted
        BY <1>18, <1>0 DEF Unwind, Shaped
      <3> QED
        BY <3>1 DEF GoodExec, NoExec
    <2>1. PICK D \in SUBSET {"status", "slot", "handle"} :
              exec' = [exec EXCEPT ![e] = Ended(@, D)]
      BY <1>18, LateAssumption DEF Unwind
    <2>2. OneExec(e)
      BY <1>0, <2>0, <2>1, EndDoes
    <2>3. handles' = handles \/ handles' = Drop(handles, {exec[e].agent})
      BY <1>18 DEF Unwind, ReleaseSlot
    <2>4. \A b \in DOMAIN handles' : /\ b \in DOMAIN handles /\ handles[b] # e
                                     /\ handles'[b] = handles[b]
      <3>1. CASE handles' = handles
        BY <2>0, <3>1 DEF HandleInv
      <3>2. CASE handles' = Drop(handles, {exec[e].agent})
        BY <3>2, HandleDropped
      <3> QED
        BY <2>3, <3>1, <3>2
    <2> QED
      BY <1>0, <2>2, <2>4 DEF HandleInv, OneExec, TypeOK
  <1>19. ASSUME NEW e \in Exec, NEW d \in {"status", "slot", "handle"},
                PayDebt(e, d), Noting({})
        PROVE  HandleInv'
    <2>1. /\ OneExec(e) /\ exec'[e].owes = exec[e].owes \ {d}
          /\ exec'[e].pc \in {exec[e].pc, "free"}
          /\ exec'[e].pc = "free" => exec[e].pc = "ended" /\ exec[e].owes = {d}
          /\ exec'[e].pc # "free" => Same(e, {"agent", "kind", "aborted"})
      BY <1>19, <1>0, PayDoes
    <2>2. CASE d # "handle"
      <3>1. UNCHANGED handles
        BY <1>19, <2>2 DEF PayDebt
      <3> QED
        BY <1>0, <2>1, <2>2, <3>1 DEF HandleInv, OneExec, Same, TypeOK
    <2>3. CASE d = "handle"
      <3>1. \A b \in DOMAIN handles' : /\ b \in DOMAIN handles /\ handles[b] # e
                                       /\ handles'[b] = handles[b]
        <4>1. handles' = Drop(handles, {exec[e].agent})
          BY <1>19, <2>3 DEF PayDebt
        <4> QED
          BY <4>1, HandleDropped
      <3> QED
        BY <1>0, <2>1, <3>1 DEF HandleInv, OneExec, TypeOK
    <2> QED
      BY <2>2, <2>3
  <1>20. ASSUME NEW R \in SUBSET {b \in Stale : MayRefuse(b)}, ManagerStart(R),
                Noting(R)
        PROVE  HandleInv'
    BY <1>20 DEF ManagerStart, flags, sched, Only, Quiet, HandleInv
  <1>21. CASE StartupSweep /\ Noting({})
    BY <1>21 DEF StartupSweep, flags, sched, Only, Quiet, HandleInv
  <1>22. CASE StopFlag /\ Noting({})
    BY <1>22 DEF StopFlag, flags, sched, Only, Quiet, HandleInv
  <1>23. CASE StopDrain /\ Noting({})
    <2>1. DOMAIN handles' = {}
      BY <1>23, EmptyMap DEF StopDrain
    <2> QED
      BY <2>1 DEF HandleInv
  <1>24. CASE AbortEvents /\ Noting({})
    <2>1. \A x \in Exec : exec[x].kind = "sched" => exec'[x] = exec[x]
      BY <1>24 DEF AbortEvents
    <2>2. UNCHANGED handles
      BY <1>24 DEF AbortEvents, sched
    <2> QED
      BY <1>0, <2>1, <2>2 DEF HandleInv, TypeOK
  <1>25. CASE Crash /\ Noting({})
    <2>1. DOMAIN handles' = {}
      BY <1>25, EmptyMap DEF Crash
    <2> QED
      BY <2>1 DEF HandleInv
  <1>26. ASSUME NEW q \in Request, NEW a \in Agent, Create(q, a), Noting({})
        PROVE  HandleInv'
    BY <1>26 DEF Create, Handler, flags, sched, Only, Quiet, HandleInv
  <1>27. ASSUME NEW q \in Request, NEW a \in Agent,
                NEW s \in {"Active", "Paused", "Error"}, SetStatus(q, a, s),
                Noting({})
        PROVE  HandleInv'
    BY <1>27 DEF SetStatus, Handler, flags, sched, Only, Quiet, HandleInv
  <1>28. ASSUME NEW q \in Request, NEW a \in Agent, NEW s \in Statuses,
                UpdateRead(q, a, s), Noting({})
        PROVE  HandleInv'
    BY <1>28 DEF UpdateRead, Handler, flags, sched, Only, Quiet, HandleInv
  <1>29. ASSUME NEW q \in Request, UpdateSave(q), Noting({})
        PROVE  HandleInv'
    BY <1>29 DEF UpdateSave, Handler, flags, sched, Only, Quiet, HandleInv
  <1>30. ASSUME NEW q \in Request, SyncScheduler(q), Noting({})
        PROVE  HandleInv'
    BY <1>30 DEF SyncScheduler, Handler, flags, sched, Only, Quiet, HandleInv
  <1>31. ASSUME NEW q \in Request, NEW a \in Agent, Delete(q, a), Noting({})
        PROVE  HandleInv'
    BY <1>31 DEF Delete, Handler, flags, sched, Only, Quiet, HandleInv
  <1>32. ASSUME NEW q \in Request, DeleteCache(q), Noting({})
        PROVE  HandleInv'
    BY <1>32 DEF DeleteCache, Handler, flags, sched, Only, Quiet, HandleInv
  <1>33. ASSUME NEW q \in Request, DeleteStore(q), Noting({})
        PROVE  HandleInv'
    BY <1>33 DEF DeleteStore, Handler, flags, sched, Only, Quiet, HandleInv
  <1>34. ASSUME NEW q \in Request, Disconnect(q), Noting({request[q].agent})
        PROVE  HandleInv'
    BY <1>34 DEF Disconnect, Handler, HandleInv
  <1>35. CASE UNCHANGED vars
    BY <1>35 DEF vars, sched, HandleInv
  <1> QED
    BY <1>1, <1>2, <1>3, <1>4, <1>5, <1>6, <1>7, <1>8, <1>9, <1>10, <1>11,
       <1>12, <1>13, <1>14, <1>15, <1>16, <1>17, <1>18, <1>19, <1>20, <1>21,
       <1>22, <1>23, <1>24, <1>25, <1>26, <1>27, <1>28, <1>29, <1>30, <1>31,
       <1>32, <1>33, <1>34, <1>35
       DEF Next, Environment, Scheduling, Execution, Cleanup, Handling

-----------------------------------------------------------------------------
(* Slots *)

\* SlotBacked, slot by slot.
Owns(e) == /\ exec[e].kind = "sched"
           /\ exec[e].pc \in {"free", "ended"} => "slot" \in exec[e].owes
\* A slot is reserved, leaked, or that of an execution.
Owned(a) == \/ a \in loop.due \/ a \in leaked
            \/ \E e \in Exec : Owns(e) /\ exec[e].agent = a
\* Every slot is.
SlotInv == \A a \in slots : Owned(a)

\* This is SlotBacked.
LEMMA SlotsOwned == SlotBacked <=> SlotInv
  BY DEF SlotBacked, SlotInv, Owned, Owns

\* No free place owns a slot.
LEMMA FreeOwnsNone ==
    ASSUME Types, NEW e \in Exec, exec[e].pc = "free"
    PROVE  ~Owns(e)
  <1>1. exec[e] = NoExec
    BY DEF Types, Shaped, GoodExec
  <1> QED
    BY <1>1 DEF Owns, NoExec

\* A step of one execution: its slot stays owned, or goes.
LEMMA SlotKept ==
    ASSUME SlotInv, NEW e \in Exec, OneExec(e), slots' \subseteq slots,
           UNCHANGED loop, leaked \subseteq leaked',
           Owns(e) => \/ exec[e].agent \notin slots' \/ exec[e].agent \in leaked'
                      \/ Owns(e)' /\ exec'[e].agent = exec[e].agent
    PROVE  SlotInv'
  <1> SUFFICES ASSUME NEW a \in slots' PROVE Owned(a)'
    BY DEF SlotInv
  <1>1. Owned(a)
    BY DEF SlotInv
  <1>2. CASE a \in loop.due \/ a \in leaked
    BY <1>2 DEF Owned
  <1>3. CASE \E x \in Exec : Owns(x) /\ exec[x].agent = a
    <2>1. PICK x \in Exec : Owns(x) /\ exec[x].agent = a
      BY <1>3
    <2>2. CASE x = e
      BY <2>1, <2>2 DEF Owned
    <2>3. CASE x # e
      <3>1. exec'[x] = exec[x]
        BY <2>3 DEF OneExec
      <3>2. Owns(x)' /\ exec'[x].agent = a
        BY <2>1, <3>1 DEF Owns
      <3> QED
        BY <3>2 DEF Owned
    <2> QED
      BY <2>2, <2>3
  <1> QED
    BY <1>1, <1>2, <1>3 DEF Owned

\* Nothing but clocks, rows and requests changes, or tasks are told to end.
LEMMA SlotSame ==
    ASSUME SlotInv, UNCHANGED <<slots, leaked>>, loop.due \subseteq loop'.due,
           \A x \in Exec : /\ exec'[x].pc = exec[x].pc
                           /\ Same(x, {"agent", "kind", "owes"})
    PROVE  SlotInv'
  BY DEF SlotInv, Owned, Owns, Same

\* Two ways to abort tasks, neither of which does anything else to them.
LEMMA Aborted ==
    ASSUME Types, HandleInv, StopDrain \/ AbortEvents
    PROVE  /\ exec' \in [Exec -> ExecRecord]
           /\ \A x \in Exec : /\ GoodExec(exec'[x]) /\ exec'[x].pc = exec[x].pc
                              /\ Same(x, {"agent", "kind", "owes"})
  <1>1. CASE StopDrain
    <2> DEFINE S == {e \in Exec : \E a \in DOMAIN handles : handles[a] = e}
    <2>1. exec' = [x \in Exec |-> IF x \in S
                                  THEN [exec[x] EXCEPT !.aborted = TRUE]
                                  ELSE exec[x]]
      BY <1>1 DEF StopDrain
    <2>2. \A x \in S : exec[x].pc # "free" /\ exec[x].kind # "manual"
      BY DEF HandleInv
    <2> HIDE DEF S
    <2> QED
      BY <2>1, <2>2, AbortDoes
  <1>2. CASE AbortEvents
    <2> DEFINE S == {e \in Exec : /\ exec[e].kind = "event"
                                  /\ exec[e].pc \notin {"free", "ended"}}
    <2>1. exec' = [x \in Exec |-> IF x \in S
                                  THEN [exec[x] EXCEPT !.aborted = TRUE]
                                  ELSE exec[x]]
      BY <1>2 DEF AbortEvents
    <2>2. \A x \in S : exec[x].pc # "free" /\ exec[x].kind # "manual"
      OBVIOUS
    <2> HIDE DEF S
    <2> QED
      BY <2>1, <2>2, AbortDoes
  <1> QED
    BY <1>1, <1>2

\* A slot stays owned.
LEMMA SlotStep ==
    Types /\ HandleInv /\ SlotInv /\ [Next]_vars => SlotInv'
  <1> SUFFICES ASSUME Types /\ HandleInv /\ SlotInv, [Next]_vars PROVE SlotInv'
    OBVIOUS
  <1>0. Types /\ TypeOK /\ Shaped
    BY DEF Types
  <1>1. CASE Tick /\ Noting({})
    <2>1. /\ UNCHANGED <<slots, leaked, exec>> /\ loop'.due = loop.due
      BY <1>1, <1>0 DEF Tick, flags, sched, Only, Quiet, TypeOK, LoopRecord
    <2> QED
      BY <2>1, SlotSame DEF Same
  <1>2. CASE LoopCheck /\ Noting({})
    <2>1. /\ UNCHANGED <<slots, leaked, exec>> /\ loop'.due = loop.due
      BY <1>2, <1>0 DEF LoopCheck, flags, sched, Only, Quiet, TypeOK,
             LoopRecord
    <2> QED
      BY <2>1, SlotSame DEF Same
  <1>3. CASE LoopReserve /\ Noting({})
    <2>1. /\ UNCHANGED <<leaked, exec>> /\ slots' = slots \cup loop'.due
          /\ loop.due = {}
      BY <1>3, <1>0, ReservedTyped DEF LoopReserve, Shaped
    <2> QED
      BY <2>1 DEF SlotInv, Owned, Owns
  <1>4. ASSUME NEW a \in Agent, NEW e \in Exec, LoopSpawn(a, e), Noting({})
        PROVE  SlotInv'
    <2>1. /\ OneExec(e) /\ exec'[e].pc = "queued" /\ exec'[e].agent = a
          /\ exec'[e].kind = "sched"
      BY <1>4, <1>0, SpawnDoes DEF LoopSpawn
    <2>2. /\ UNCHANGED <<slots, leaked>> /\ loop'.due = loop.due \ {a}
          /\ exec[e].pc = "free"
      BY <1>4 DEF LoopSpawn, IsNext
    <2>3. ~Owns(e) /\ Owns(e)'
      BY <1>0, <2>1, <2>2, FreeOwnsNone DEF Owns
    <2>4. \A x \in Exec : Owns(x) => Owns(x)' /\ exec'[x].agent = exec[x].agent
      BY <2>1, <2>3 DEF OneExec, Owns
    <2> QED
      BY <2>1, <2>2, <2>3, <2>4 DEF SlotInv, Owned
  <1>5. ASSUME NEW a \in Agent, EventArrives(a), Noting({})
        PROVE  SlotInv'
    <2>1. /\ UNCHANGED <<slots, leaked, exec>> /\ loop'.due = loop.due
      BY <1>5, <1>0 DEF EventArrives, flags, sched, Only, Quiet, TypeOK,
             LoopRecord
    <2> QED
      BY <2>1, SlotSame DEF Same
  <1>6. ASSUME NEW e \in Exec, EventTrigger(e), Noting({})
        PROVE  SlotInv'
    <2>1. /\ UNCHANGED <<slots, loop, leaked>> /\ listener \in Agent
      BY <1>6, <1>0 DEF EventTrigger, sched, TypeOK
    <2>2. CASE UNCHANGED exec
      BY <2>1, <2>2, SlotSame DEF Same
    <2>3. CASE exec' # exec
      <3>1. /\ exec[e].pc = "free"
            /\ exec' = [exec EXCEPT ![e] = Spawned(listener, "event")]
        BY <1>6, <2>3 DEF EventTrigger, IsNext
      <3>2. OneExec(e) /\ ~Owns(e)
        BY <1>0, <2>1, <3>1, SpawnDoes, FreeOwnsNone
      <3> QED
        BY <2>1, <3>2, SlotKept
    <2> QED
      BY <2>2, <2>3
  <1>7. ASSUME NEW e \in Exec, Poll(e), Noting({})
        PROVE  SlotInv'
    <2>1. /\ OneExec(e)
          /\ exec'[e].pc = "global"
          /\ Same(e, {"agent", "kind", "owes", "aborted"})
      BY <1>7, <1>0, GoDoes DEF Poll, Working
    <2>2. UNCHANGED <<slots, loop, leaked>>
      BY <1>7 DEF Poll, flags, sched, Only, Quiet
    <2>3. Owns(e) => Owns(e)'
      BY <2>1 DEF Owns, Same
    <2> QED
      BY <2>1, <2>2, <2>3, SlotKept DEF Same
  <1>8. ASSUME NEW e \in Exec, AcquireGlobal(e), Noting({})
        PROVE  SlotInv'
    <2>1. /\ OneExec(e)
          /\ exec'[e].pc \in {"return", "backend"}
          /\ Same(e, {"agent", "kind", "owes", "aborted"})
      BY <1>8, <1>0, GoDoes DEF AcquireGlobal, Working
    <2>2. UNCHANGED <<slots, loop, leaked>>
      BY <1>8 DEF AcquireGlobal, flags, sched, Only, Quiet
    <2>3. Owns(e) => Owns(e)'
      BY <2>1 DEF Owns, Same
    <2> QED
      BY <2>1, <2>2, <2>3, SlotKept DEF Same
  <1>9. ASSUME NEW e \in Exec, AcquireBackend(e), Noting({})
        PROVE  SlotInv'
    <2>1. /\ OneExec(e)
          /\ exec'[e].pc \in {"body", "return"}
          /\ Same(e, {"agent", "kind", "owes", "aborted"})
      BY <1>9, <1>0, ExecuteDoes DEF AcquireBackend
    <2>2. UNCHANGED <<slots, loop, leaked>>
      BY <1>9 DEF AcquireBackend, Execute, flags, sched, Only, Quiet
    <2>3. Owns(e) => Owns(e)'
      BY <2>1 DEF Owns, Same
    <2> QED
      BY <2>1, <2>2, <2>3, SlotKept DEF Same
  <1>10. ASSUME NEW e \in Exec, StartExecution(e), Noting({})
        PROVE  SlotInv'
    <2>1. /\ OneExec(e)
          /\ exec'[e].pc \in {"body", "return"}
          /\ Same(e, {"agent", "kind", "owes", "aborted"})
      BY <1>10, <1>0, ExecuteDoes DEF StartExecution
    <2>2. UNCHANGED <<slots, loop, leaked>>
      BY <1>10 DEF StartExecution, Execute, flags, sched, Only, Quiet
    <2>3. Owns(e) => Owns(e)'
      BY <2>1 DEF Owns, Same
    <2> QED
      BY <2>1, <2>2, <2>3, SlotKept DEF Same
  <1>11. ASSUME NEW e \in Exec, NEW out \in Outcomes, FinishExecution(e, out),
                Noting({})
        PROVE  SlotInv'
    <2>1. /\ OneExec(e)
          /\ exec'[e].pc \in {"return"} \cup Rewriting
          /\ Same(e, {"agent", "kind"})
      BY <1>11, <1>0, FinishDoes DEF Same
    <2>2. UNCHANGED <<slots, loop, leaked>>
      BY <1>11 DEF FinishExecution, flags, sched, Only, Quiet
    <2>3. Owns(e) => Owns(e)'
      BY <2>1 DEF Owns, Same, Rewriting
    <2> QED
      BY <2>1, <2>2, <2>3, SlotKept DEF Same
  <1>12. ASSUME NEW e \in Exec, Rewrite(e), Noting({})
        PROVE  SlotInv'
    <2>1. /\ OneExec(e)
          /\ exec'[e].pc = "return"
          /\ Same(e, {"agent", "kind", "owes", "aborted"})
      BY <1>12, <1>0, RewriteDoes
    <2>2. UNCHANGED <<slots, loop, leaked>> /\ exec[e].pc \in Rewriting
      BY <1>12 DEF Rewrite, Quiet
    <2>3. Owns(e) => Owns(e)'
      BY <2>1, <2>2 DEF Owns, Same, Rewriting
    <2> QED
      BY <2>1, <2>2, <2>3, SlotKept DEF Same
  <1>13. ASSUME NEW e \in Exec, NEW late \in Late, EndScheduled(e, late),
                Noting({})
        PROVE  SlotInv'
    <2>1. /\ OneExec(e)
          /\ exec'[e].pc \in {"free", "ended"}
          /\ exec'[e].owes = exec[e].owes \cup late
          /\ exec'[e].pc = "ended" <=> exec[e].owes \cup late # {}
          /\ exec'[e].pc = "ended" => Same(e, {"agent", "kind"})
      BY <1>13, <1>0, EndDoes, LateAssumption DEF EndScheduled
    <2>2. /\ slots' = IF "slot" \in late THEN slots
                      ELSE slots \ {exec[e].agent}
          /\ UNCHANGED <<loop, leaked>>
      BY <1>13 DEF EndScheduled, ReleaseSlot, Quiet
    <2>3. CASE "slot" \in late
      <3>1. exec'[e].pc = "ended" /\ "slot" \in exec'[e].owes
        BY <2>1, <2>3
      <3>2. Owns(e) => Owns(e)' /\ exec'[e].agent = exec[e].agent
        BY <2>1, <3>1 DEF Owns, Same
      <3> QED
        BY <2>1, <2>2, <2>3, <3>2, SlotKept
    <2>4. CASE "slot" \notin late
      <3>1. slots' \subseteq slots /\ exec[e].agent \notin slots'
        BY <2>2, <2>4
      <3> QED
        BY <2>1, <2>2, <3>1, SlotKept
    <2> QED
      BY <2>3, <2>4
  <1>14. ASSUME NEW e \in Exec, RetryEvent(e), Noting({})
        PROVE  SlotInv'
    <2>1. /\ OneExec(e)
          /\ exec'[e].pc = "start"
          /\ Same(e, {"agent", "kind", "owes"})
      BY <1>14, <1>0, RetryDoes DEF Same
    <2>2. UNCHANGED <<slots, loop, leaked>>
      BY <1>14 DEF RetryEvent, flags, sched, Only, Quiet
    <2>3. Owns(e) => Owns(e)'
      BY <2>1 DEF Owns, Same
    <2> QED
      BY <2>1, <2>2, <2>3, SlotKept DEF Same
  <1>15. ASSUME NEW e \in Exec, EndEvent(e), Noting({})
        PROVE  SlotInv'
    <2>1. /\ OneExec(e)
          /\ exec'[e].pc \in {"free", "ended"}
          /\ exec'[e].owes = exec[e].owes \cup {}
          /\ exec'[e].pc = "ended" <=> exec[e].owes \cup {} # {}
          /\ exec'[e].pc = "ended" => Same(e, {"agent", "kind"})
      BY <1>15, <1>0, EndDoes DEF EndEvent
    <2>2. UNCHANGED <<slots, loop, leaked>> /\ ~Owns(e)
      BY <1>15 DEF EndEvent, flags, sched, Only, Quiet, Owns
    <2> QED
      BY <2>1, <2>2, SlotKept
  <1>16. ASSUME NEW a \in Agent, NEW e \in Exec, ManualStart(a, e), Noting({})
        PROVE  SlotInv'
    <2>1. /\ \/ UNCHANGED exec
             \/ OneExec(e) /\ exec[e].pc = "free"
          /\ UNCHANGED <<slots, loop, leaked>>
      BY <1>16, <1>0, ManualDoes DEF ManualStart, IsNext, sched
    <2>2. CASE UNCHANGED exec
      BY <2>1, <2>2, SlotSame DEF Same
    <2>3. CASE OneExec(e) /\ exec[e].pc = "free"
      <3>1. ~Owns(e)
        BY <1>0, <2>3, FreeOwnsNone
      <3> QED
        BY <2>1, <2>3, <3>1, SlotKept
    <2> QED
      BY <2>1, <2>2, <2>3
  <1>17. ASSUME NEW e \in Exec, ManualEnd(e), Noting({})
        PROVE  SlotInv'
    <2>1. /\ OneExec(e)
          /\ exec'[e].pc \in {"free", "ended"}
          /\ exec'[e].owes = exec[e].owes \cup {}
          /\ exec'[e].pc = "ended" <=> exec[e].owes \cup {} # {}
          /\ exec'[e].pc = "ended" => Same(e, {"agent", "kind"})
      BY <1>17, <1>0, EndDoes DEF ManualEnd
    <2>2. UNCHANGED <<slots, loop, leaked>> /\ ~Owns(e)
      BY <1>17 DEF ManualEnd, flags, sched, Only, Quiet, Owns
    <2> QED
      BY <2>1, <2>2, SlotKept
  <1>18. ASSUME NEW e \in Exec, NEW late \in Late, Unwind(e, late), Noting({})
        PROVE  SlotInv'
    <2>0. exec[e].pc # "free" /\ exec[e].kind # "manual" /\ exec[e].aborted
      <3>1. GoodExec(exec[e]) /\ exec[e].aborted
        BY <1>18, <1>0 DEF Unwind, Shaped
      <3> QED
        BY <3>1 DEF GoodExec, NoExec
    <2> DEFINE guarded == exec[e].kind = "sched" /\ exec[e].pc # "queued"
               D == (IF exec[e].pc = "body" THEN {"status"} ELSE {})
                        \cup (IF guarded THEN late ELSE {})
    <2>1. /\ OneExec(e) /\ exec'[e].owes = exec[e].owes \cup D
          /\ exec'[e].pc \in {"free", "ended"}
          /\ exec'[e].pc = "ended" <=> exec[e].owes \cup D # {}
          /\ exec'[e].pc = "ended" => Same(e, {"agent", "kind"})
      <3>1. D \in SUBSET {"status", "slot", "handle"}
        BY LateAssumption
      <3>2. exec' = [exec EXCEPT ![e] = Ended(@, D)]
        BY <1>18 DEF Unwind
      <3> HIDE DEF D
      <3> QED
        BY <1>0, <2>0, <3>1, <3>2, EndDoes
    <2>2. UNCHANGED loop /\ leaked \subseteq leaked'
      BY <1>18 DEF Unwind, Quiet
    <2>3. CASE guarded /\ "slot" \in late
      <3>1. UNCHANGED slots
        BY <1>18, <2>3 DEF Unwind, ReleaseSlot
      <3>2. exec'[e].pc = "ended" /\ "slot" \in exec'[e].owes
        BY <2>1, <2>3
      <3>3. Owns(e)' /\ exec'[e].agent = exec[e].agent
        BY <2>1, <2>3, <3>2 DEF Owns, Same
      <3> QED
        BY <2>1, <2>2, <3>1, <3>3, SlotKept
    <2>4. CASE guarded /\ "slot" \notin late
      <3>1. slots' = slots \ {exec[e].agent}
        BY <1>18, <2>4 DEF Unwind, ReleaseSlot
      <3>2. slots' \subseteq slots /\ exec[e].agent \notin slots'
        BY <3>1
      <3> QED
        BY <2>1, <2>2, <3>2, SlotKept
    <2>5. CASE ~guarded
      <3>1. /\ UNCHANGED slots
            /\ exec[e].kind = "sched" => exec[e].agent \in leaked'
        BY <1>18, <2>5 DEF Unwind
      <3>2. Owns(e) => exec[e].agent \in leaked'
        BY <3>1 DEF Owns
      <3> QED
        BY <2>1, <2>2, <3>1, <3>2, SlotKept
    <2> QED
      BY <2>3, <2>4, <2>5
  <1>19. ASSUME NEW e \in Exec, NEW d \in {"status", "slot", "handle"},
                PayDebt(e, d), Noting({})
        PROVE  SlotInv'
    <2>1. /\ OneExec(e)
          /\ exec'[e].owes = exec[e].owes \ {d}
          /\ exec'[e].pc \in {exec[e].pc, "free"}
          /\ exec'[e].pc = "free" => exec[e].pc = "ended" /\ exec[e].owes = {d}
          /\ exec'[e].pc # "free" => Same(e, {"agent", "kind"})
      BY <1>19, <1>0, PayDoes DEF Same
    <2>2. /\ slots' = IF d = "slot" THEN slots \ {exec[e].agent} ELSE slots
          /\ UNCHANGED <<loop, leaked>>
      BY <1>19 DEF PayDebt, Quiet
    <2>3. CASE d = "slot"
      <3>1. slots' \subseteq slots /\ exec[e].agent \notin slots'
        BY <2>2, <2>3
      <3> QED
        BY <2>1, <2>2, <3>1, SlotKept
    <2>4. CASE d # "slot"
      <3>1. Owns(e) => Owns(e)' /\ exec'[e].agent = exec[e].agent
        <4>1. exec[e].pc # "free"
          BY <1>19, <1>0, PayDoes
        <4> QED
          BY <2>1, <2>4, <4>1 DEF Owns, Same
      <3> QED
        BY <2>1, <2>2, <2>4, <3>1, SlotKept
    <2> QED
      BY <2>3, <2>4
  <1>20. ASSUME NEW R \in SUBSET {b \in Stale : MayRefuse(b)}, ManagerStart(R),
                Noting(R)
        PROVE  SlotInv'
    <2>1. /\ UNCHANGED <<slots, leaked, exec>> /\ loop'.due = loop.due
      BY <1>20, <1>0 DEF ManagerStart, flags, sched, Only, Quiet, TypeOK,
             LoopRecord
    <2> QED
      BY <2>1, SlotSame DEF Same
  <1>21. CASE StartupSweep /\ Noting({})
    <2>1. /\ UNCHANGED <<slots, leaked, exec>> /\ loop'.due = loop.due
      BY <1>21, <1>0 DEF StartupSweep, flags, sched, Only, Quiet, TypeOK,
             LoopRecord
    <2> QED
      BY <2>1, SlotSame DEF Same
  <1>22. CASE StopFlag /\ Noting({})
    <2>1. /\ UNCHANGED <<slots, leaked, exec>> /\ loop'.due = loop.due
      BY <1>22, <1>0 DEF StopFlag, flags, sched, Only, Quiet, TypeOK,
             LoopRecord
    <2> QED
      BY <2>1, SlotSame DEF Same
  <1>23. CASE StopDrain /\ Noting({})
    <2>1. UNCHANGED <<slots, leaked, loop>>
      BY <1>23 DEF StopDrain
    <2> QED
      BY <1>23, <2>1, Aborted, SlotSame
  <1>24. CASE AbortEvents /\ Noting({})
    <2>1. UNCHANGED <<slots, leaked, loop>>
      BY <1>24 DEF AbortEvents, sched
    <2> QED
      BY <1>24, <2>1, Aborted, SlotSame
  <1>25. CASE Crash /\ Noting({})
    BY <1>25 DEF Crash, SlotInv
  <1>26. ASSUME NEW q \in Request, NEW a \in Agent, Create(q, a), Noting({})
        PROVE  SlotInv'
    <2>1. /\ UNCHANGED <<slots, leaked, exec>> /\ loop'.due = loop.due
      BY <1>26, <1>0 DEF Create, Handler, flags, sched, Only, Quiet, TypeOK,
             LoopRecord
    <2> QED
      BY <2>1, SlotSame DEF Same
  <1>27. ASSUME NEW q \in Request, NEW a \in Agent,
                NEW s \in {"Active", "Paused", "Error"}, SetStatus(q, a, s),
                Noting({})
        PROVE  SlotInv'
    <2>1. /\ UNCHANGED <<slots, leaked, exec>> /\ loop'.due = loop.due
      BY <1>27, <1>0 DEF SetStatus, Handler, flags, sched, Only, Quiet, TypeOK,
             LoopRecord
    <2> QED
      BY <2>1, SlotSame DEF Same
  <1>28. ASSUME NEW q \in Request, NEW a \in Agent, NEW s \in Statuses,
                UpdateRead(q, a, s), Noting({})
        PROVE  SlotInv'
    <2>1. /\ UNCHANGED <<slots, leaked, exec>> /\ loop'.due = loop.due
      BY <1>28, <1>0 DEF UpdateRead, Handler, flags, sched, Only, Quiet,
             TypeOK, LoopRecord
    <2> QED
      BY <2>1, SlotSame DEF Same
  <1>29. ASSUME NEW q \in Request, UpdateSave(q), Noting({})
        PROVE  SlotInv'
    <2>1. /\ UNCHANGED <<slots, leaked, exec>> /\ loop'.due = loop.due
      BY <1>29, <1>0 DEF UpdateSave, Handler, flags, sched, Only, Quiet,
             TypeOK, LoopRecord
    <2> QED
      BY <2>1, SlotSame DEF Same
  <1>30. ASSUME NEW q \in Request, SyncScheduler(q), Noting({})
        PROVE  SlotInv'
    <2>1. /\ UNCHANGED <<slots, leaked, exec>> /\ loop'.due = loop.due
      BY <1>30, <1>0 DEF SyncScheduler, Handler, flags, sched, Only, Quiet,
             TypeOK, LoopRecord
    <2> QED
      BY <2>1, SlotSame DEF Same
  <1>31. ASSUME NEW q \in Request, NEW a \in Agent, Delete(q, a), Noting({})
        PROVE  SlotInv'
    <2>1. /\ UNCHANGED <<slots, leaked, exec>> /\ loop'.due = loop.due
      BY <1>31, <1>0 DEF Delete, Handler, flags, sched, Only, Quiet, TypeOK,
             LoopRecord
    <2> QED
      BY <2>1, SlotSame DEF Same
  <1>32. ASSUME NEW q \in Request, DeleteCache(q), Noting({})
        PROVE  SlotInv'
    <2>1. /\ UNCHANGED <<slots, leaked, exec>> /\ loop'.due = loop.due
      BY <1>32, <1>0 DEF DeleteCache, Handler, flags, sched, Only, Quiet,
             TypeOK, LoopRecord
    <2> QED
      BY <2>1, SlotSame DEF Same
  <1>33. ASSUME NEW q \in Request, DeleteStore(q), Noting({})
        PROVE  SlotInv'
    <2>1. /\ UNCHANGED <<slots, leaked, exec>> /\ loop'.due = loop.due
      BY <1>33, <1>0 DEF DeleteStore, Handler, flags, sched, Only, Quiet,
             TypeOK, LoopRecord
    <2> QED
      BY <2>1, SlotSame DEF Same
  <1>34. ASSUME NEW q \in Request, Disconnect(q), Noting({request[q].agent})
        PROVE  SlotInv'
    <2>1. UNCHANGED <<slots, leaked, exec, loop>>
      BY <1>34 DEF Disconnect, Handler
    <2> QED
      BY <2>1, SlotSame DEF Same
  <1>35. CASE UNCHANGED vars
    BY <1>35 DEF vars, sched, history, SlotInv, Owned, Owns
  <1> QED
    BY <1>1, <1>2, <1>3, <1>4, <1>5, <1>6, <1>7, <1>8, <1>9, <1>10, <1>11,
       <1>12, <1>13, <1>14, <1>15, <1>16, <1>17, <1>18, <1>19, <1>20, <1>21,
       <1>22, <1>23, <1>24, <1>25, <1>26, <1>27, <1>28, <1>29, <1>30, <1>31,
       <1>32, <1>33, <1>34, <1>35
       DEF Next, Environment, Scheduling, Execution, Cleanup, Handling

-----------------------------------------------------------------------------
(* Permits *)

\* Fewer holders are not more than there are permits.
LEMMA FewerHolders ==
    ASSUME PermitInv, Holders' \subseteq Holders
    PROVE  PermitInv'
  <1>1. IsFiniteSet(Holders') /\ Cardinality(Holders') <= Cardinality(Holders)
    BY FS_Subset DEF PermitInv
  <1>2. Cardinality(Holders) \in Nat /\ Cardinality(Holders') \in Nat
    BY <1>1, FS_CardinalityType DEF PermitInv
  <1> QED
    BY <1>1, <1>2, Numbers DEF PermitInv

\* A step that gives no execution a permit.
LEMMA PermitKept ==
    ASSUME PermitInv, NEW e \in Exec, OneExec(e),
           HoldsGlobal(e)' => HoldsGlobal(e)
    PROVE  PermitInv'
  <1>1. Holders' \subseteq Holders
    BY DEF Holders, OneExec, HoldsGlobal
  <1> QED
    BY <1>1, FewerHolders

\* Executions that stay where they are.
LEMMA PermitSame ==
    ASSUME PermitInv,
           \A x \in Exec : exec'[x].pc = exec[x].pc /\ Same(x, {"kind"})
    PROVE  PermitInv'
  <1>1. Holders' \subseteq Holders
    BY DEF Holders, Same, HoldsGlobal
  <1> QED
    BY <1>1, FewerHolders

\* A task that unwinds: what it leaves to be done.
LEMMA UnwindDoes ==
    ASSUME Types, NEW e \in Exec, NEW late \in Late, Unwind(e, late)
    PROVE  /\ OneExec(e) /\ exec[e].pc # "free" /\ exec[e].kind # "manual"
           /\ exec'[e].pc \in {"free", "ended"}
           /\ exec[e].owes \subseteq exec'[e].owes
           /\ exec[e].pc = "body" => "status" \in exec'[e].owes
           /\ exec[e].pc \in Rewriting => exec[e].agent \in unsaved'
           /\ exec'[e].pc = "ended" <=> exec'[e].owes # {}
           /\ exec'[e].pc = "ended" => Same(e, {"agent", "kind"})
  <1>0. exec[e].pc # "free" /\ exec[e].kind # "manual" /\ exec[e].aborted
    <2>1. GoodExec(exec[e]) /\ exec[e].aborted
      BY DEF Unwind, Types, Shaped
    <2> QED
      BY <2>1 DEF GoodExec, NoExec
  <1> DEFINE guarded == exec[e].kind = "sched" /\ exec[e].pc # "queued"
             D == (IF exec[e].pc = "body" THEN {"status"} ELSE {})
                      \cup (IF guarded THEN late ELSE {})
  <1>1. /\ D \in SUBSET {"status", "slot", "handle"}
        /\ exec[e].pc = "body" => "status" \in D
    BY LateAssumption
  <1>2. exec' = [exec EXCEPT ![e] = Ended(@, D)]
    BY DEF Unwind
  <1> HIDE DEF D
  <1>3. /\ OneExec(e) /\ exec'[e].pc \in {"free", "ended"}
        /\ exec'[e].owes = exec[e].owes \cup D
        /\ exec'[e].pc = "ended" <=> exec[e].owes \cup D # {}
        /\ exec'[e].pc = "ended" => Same(e, {"agent", "kind"})
    BY <1>0, <1>1, <1>2, EndDoes
  <1> QED
    BY <1>0, <1>1, <1>3 DEF Unwind, NotWritten

\* No step gives out more permits than there are.
LEMMA PermitStep ==
    Types /\ HandleInv /\ PermitInv /\ [Next]_vars => PermitInv'
  <1> SUFFICES ASSUME Types /\ HandleInv /\ PermitInv, [Next]_vars
               PROVE  PermitInv'
    OBVIOUS
  <1>0. Types /\ TypeOK /\ Shaped
    BY DEF Types
  <1>1. CASE Tick /\ Noting({})
    <2>1. UNCHANGED exec
      BY <1>1 DEF Tick, flags, sched, Only, Quiet
    <2> QED
      BY <2>1, PermitSame DEF Same
  <1>2. CASE LoopCheck /\ Noting({})
    <2>1. UNCHANGED exec
      BY <1>2 DEF LoopCheck, flags, sched, Only, Quiet
    <2> QED
      BY <2>1, PermitSame DEF Same
  <1>3. CASE LoopReserve /\ Noting({})
    <2>1. UNCHANGED exec
      BY <1>3 DEF LoopReserve, flags, sched, Only, Quiet
    <2> QED
      BY <2>1, PermitSame DEF Same
  <1>4. ASSUME NEW a \in Agent, NEW e \in Exec, LoopSpawn(a, e), Noting({})
        PROVE  PermitInv'
    <2>1. OneExec(e) /\ exec'[e].pc = "queued"
      BY <1>4, <1>0, SpawnDoes DEF LoopSpawn
    <2> QED
      BY <2>1, PermitKept DEF HoldsGlobal, Working, Rewriting
  <1>5. ASSUME NEW a \in Agent, EventArrives(a), Noting({})
        PROVE  PermitInv'
    <2>1. UNCHANGED exec
      BY <1>5 DEF EventArrives, flags, sched, Only, Quiet
    <2> QED
      BY <2>1, PermitSame DEF Same
  <1>6. ASSUME NEW e \in Exec, EventTrigger(e), Noting({})
        PROVE  PermitInv'
    <2>1. listener \in Agent
      BY <1>6, <1>0 DEF EventTrigger, TypeOK
    <2>2. CASE UNCHANGED exec
      BY <2>2, PermitSame DEF Same
    <2>3. CASE exec' # exec
      <3>1. exec' = [exec EXCEPT ![e] = Spawned(listener, "event")]
        BY <1>6, <2>3 DEF EventTrigger
      <3>2. OneExec(e) /\ exec'[e].pc = "queued"
        BY <1>0, <2>1, <3>1, SpawnDoes
      <3> QED
        BY <3>2, PermitKept DEF HoldsGlobal, Working, Rewriting
    <2> QED
      BY <2>2, <2>3
  <1>7. ASSUME NEW e \in Exec, Poll(e), Noting({})
        PROVE  PermitInv'
    <2>1. /\ OneExec(e)
          /\ exec'[e].pc = "global"
          /\ Same(e, {"agent", "kind", "owes", "aborted"})
      BY <1>7, <1>0, GoDoes DEF Poll, Working
    <2>2. ~HoldsGlobal(e)'
      BY <2>1 DEF HoldsGlobal, Working, Rewriting
    <2> QED
      BY <2>1, <2>2, PermitKept
  <1>8. ASSUME NEW e \in Exec, AcquireGlobal(e), Noting({})
        PROVE  PermitInv'
    <2>1. /\ OneExec(e)
          /\ exec'[e].pc \in {"return", "backend"}
          /\ Same(e, {"agent", "kind", "owes", "aborted"})
      BY <1>8, <1>0, GoDoes DEF AcquireGlobal, Working
    <2>2. Cardinality(Holders) < MaxConcurrent
      BY <1>8 DEF AcquireGlobal, Holders
    <2>3. Holders' \subseteq Holders \cup {e}
      BY <2>1 DEF Holders, OneExec, HoldsGlobal
    <2>4. /\ IsFiniteSet(Holders \cup {e}) /\ Cardinality(Holders) \in Nat
          /\ Cardinality(Holders \cup {e}) <= Cardinality(Holders) + 1
      BY FS_AddElement, FS_CardinalityType, SMTT(30) DEF PermitInv
    <2>5. /\ IsFiniteSet(Holders')
          /\ Cardinality(Holders') <= Cardinality(Holders \cup {e})
      BY <2>3, <2>4, FS_Subset
    <2>6. /\ Cardinality(Holders') \in Nat
          /\ Cardinality(Holders \cup {e}) \in Nat
      BY <2>4, <2>5, FS_CardinalityType
    <2> QED
      BY <2>2, <2>4, <2>5, <2>6, Numbers DEF PermitInv
  <1>9. ASSUME NEW e \in Exec, AcquireBackend(e), Noting({})
        PROVE  PermitInv'
    <2>1. /\ OneExec(e)
          /\ exec'[e].pc \in {"body", "return"}
          /\ Same(e, {"agent", "kind", "owes", "aborted"})
      BY <1>9, <1>0, ExecuteDoes DEF AcquireBackend
    <2>2. HoldsGlobal(e)' => HoldsGlobal(e)
      BY <1>9, <2>1 DEF HoldsGlobal, Working, Same, AcquireBackend
    <2> QED
      BY <2>1, <2>2, PermitKept
  <1>10. ASSUME NEW e \in Exec, StartExecution(e), Noting({})
        PROVE  PermitInv'
    <2>1. /\ OneExec(e)
          /\ exec'[e].pc \in {"body", "return"}
          /\ Same(e, {"agent", "kind", "owes", "aborted"})
      BY <1>10, <1>0, ExecuteDoes DEF StartExecution
    <2>2. HoldsGlobal(e)' => HoldsGlobal(e)
      BY <1>10, <2>1 DEF HoldsGlobal, Working, Same, StartExecution
    <2> QED
      BY <2>1, <2>2, PermitKept
  <1>11. ASSUME NEW e \in Exec, NEW out \in Outcomes, FinishExecution(e, out),
                Noting({})
        PROVE  PermitInv'
    <2>1. /\ OneExec(e)
          /\ exec'[e].pc \in {"return"} \cup Rewriting
          /\ Same(e, {"agent", "kind"})
      BY <1>11, <1>0, FinishDoes DEF Same
    <2>2. HoldsGlobal(e)' => HoldsGlobal(e)
      BY <1>11, <2>1 DEF HoldsGlobal, Working, Same, FinishExecution
    <2> QED
      BY <2>1, <2>2, PermitKept
  <1>12. ASSUME NEW e \in Exec, Rewrite(e), Noting({})
        PROVE  PermitInv'
    <2>1. /\ OneExec(e)
          /\ exec'[e].pc = "return" /\ exec[e].pc \in Rewriting
          /\ Same(e, {"agent", "kind", "owes", "aborted"})
      BY <1>12, <1>0, RewriteDoes
    <2>2. HoldsGlobal(e)' => HoldsGlobal(e)
      BY <2>1 DEF HoldsGlobal, Working, Same
    <2> QED
      BY <2>1, <2>2, PermitKept
  <1>13. ASSUME NEW e \in Exec, NEW late \in Late, EndScheduled(e, late),
                Noting({})
        PROVE  PermitInv'
    <2>1. /\ OneExec(e)
          /\ exec'[e].pc \in {"free", "ended"}
          /\ exec'[e].owes = exec[e].owes \cup late
          /\ exec'[e].pc = "ended" <=> exec[e].owes \cup late # {}
          /\ exec'[e].pc = "ended" => Same(e, {"agent", "kind"})
      BY <1>13, <1>0, EndDoes, LateAssumption DEF EndScheduled
    <2>2. ~HoldsGlobal(e)'
      BY <2>1 DEF HoldsGlobal, Working, Rewriting
    <2> QED
      BY <2>1, <2>2, PermitKept
  <1>14. ASSUME NEW e \in Exec, RetryEvent(e), Noting({})
        PROVE  PermitInv'
    <2>1. /\ OneExec(e)
          /\ exec'[e].pc = "start"
          /\ Same(e, {"agent", "kind", "owes"})
      BY <1>14, <1>0, RetryDoes DEF Same
    <2>2. HoldsGlobal(e)' => HoldsGlobal(e)
      BY <1>14, <2>1 DEF HoldsGlobal, Working, Same, RetryEvent
    <2> QED
      BY <2>1, <2>2, PermitKept
  <1>15. ASSUME NEW e \in Exec, EndEvent(e), Noting({})
        PROVE  PermitInv'
    <2>1. /\ OneExec(e)
          /\ exec'[e].pc \in {"free", "ended"}
          /\ exec'[e].owes = exec[e].owes \cup {}
          /\ exec'[e].pc = "ended" <=> exec[e].owes \cup {} # {}
          /\ exec'[e].pc = "ended" => Same(e, {"agent", "kind"})
      BY <1>15, <1>0, EndDoes DEF EndEvent
    <2>2. ~HoldsGlobal(e)'
      BY <2>1 DEF HoldsGlobal, Working, Rewriting
    <2> QED
      BY <2>1, <2>2, PermitKept
  <1>16. ASSUME NEW a \in Agent, NEW e \in Exec, ManualStart(a, e), Noting({})
        PROVE  PermitInv'
    <2>1. \/ UNCHANGED exec
          \/ OneExec(e) /\ exec'[e].kind = "manual"
      BY <1>16, <1>0, ManualDoes
    <2>2. CASE UNCHANGED exec
      BY <2>2, PermitSame DEF Same
    <2>3. CASE OneExec(e) /\ exec'[e].kind = "manual"
      BY <2>3, PermitKept DEF HoldsGlobal
    <2> QED
      BY <2>1, <2>2, <2>3
  <1>17. ASSUME NEW e \in Exec, ManualEnd(e), Noting({})
        PROVE  PermitInv'
    <2>1. /\ OneExec(e)
          /\ exec'[e].pc \in {"free", "ended"}
          /\ exec'[e].owes = exec[e].owes \cup {}
          /\ exec'[e].pc = "ended" <=> exec[e].owes \cup {} # {}
          /\ exec'[e].pc = "ended" => Same(e, {"agent", "kind"})
      BY <1>17, <1>0, EndDoes DEF ManualEnd
    <2>2. ~HoldsGlobal(e)'
      BY <2>1 DEF HoldsGlobal, Working, Rewriting
    <2> QED
      BY <2>1, <2>2, PermitKept
  <1>18. ASSUME NEW e \in Exec, NEW late \in Late, Unwind(e, late), Noting({})
        PROVE  PermitInv'
    <2>1. OneExec(e) /\ exec'[e].pc \in {"free", "ended"}
      BY <1>18, <1>0, UnwindDoes
    <2> QED
      BY <2>1, PermitKept DEF HoldsGlobal, Working, Rewriting
  <1>19. ASSUME NEW e \in Exec, NEW d \in {"status", "slot", "handle"},
                PayDebt(e, d), Noting({})
        PROVE  PermitInv'
    <2>1. /\ OneExec(e)
          /\ exec'[e].owes = exec[e].owes \ {d}
          /\ exec'[e].pc \in {exec[e].pc, "free"}
          /\ exec'[e].pc = "free" => exec[e].pc = "ended" /\ exec[e].owes = {d}
          /\ exec'[e].pc # "free" => Same(e, {"agent", "kind"})
      BY <1>19, <1>0, PayDoes DEF Same
    <2>2. HoldsGlobal(e)' => HoldsGlobal(e)
      BY <2>1 DEF HoldsGlobal, Working, Rewriting, Same
    <2> QED
      BY <2>1, <2>2, PermitKept
  <1>20. ASSUME NEW R \in SUBSET {b \in Stale : MayRefuse(b)}, ManagerStart(R),
                Noting(R)
        PROVE  PermitInv'
    <2>1. UNCHANGED exec
      BY <1>20 DEF ManagerStart, flags, sched, Only, Quiet
    <2> QED
      BY <2>1, PermitSame DEF Same
  <1>21. CASE StartupSweep /\ Noting({})
    <2>1. UNCHANGED exec
      BY <1>21 DEF StartupSweep, flags, sched, Only, Quiet
    <2> QED
      BY <2>1, PermitSame DEF Same
  <1>22. CASE StopFlag /\ Noting({})
    <2>1. UNCHANGED exec
      BY <1>22 DEF StopFlag, flags, sched, Only, Quiet
    <2> QED
      BY <2>1, PermitSame DEF Same
  <1>23. CASE StopDrain /\ Noting({})
    BY <1>23, Aborted, PermitSame DEF Same
  <1>24. CASE AbortEvents /\ Noting({})
    BY <1>24, Aborted, PermitSame DEF Same
  <1>25. CASE Crash /\ Noting({})
    <2>1. \A x \in Exec : exec'[x] = NoExec
      BY <1>25 DEF Crash
    <2>2. Holders' \subseteq Holders
      BY <2>1 DEF Holders, HoldsGlobal, NoExec, Working, Rewriting
    <2> QED
      BY <2>2, FewerHolders
  <1>26. ASSUME NEW q \in Request, NEW a \in Agent, Create(q, a), Noting({})
        PROVE  PermitInv'
    <2>1. UNCHANGED exec
      BY <1>26 DEF Create, Handler, flags, sched, Only, Quiet
    <2> QED
      BY <2>1, PermitSame DEF Same
  <1>27. ASSUME NEW q \in Request, NEW a \in Agent,
                NEW s \in {"Active", "Paused", "Error"}, SetStatus(q, a, s),
                Noting({})
        PROVE  PermitInv'
    <2>1. UNCHANGED exec
      BY <1>27 DEF SetStatus, Handler, flags, sched, Only, Quiet
    <2> QED
      BY <2>1, PermitSame DEF Same
  <1>28. ASSUME NEW q \in Request, NEW a \in Agent, NEW s \in Statuses,
                UpdateRead(q, a, s), Noting({})
        PROVE  PermitInv'
    <2>1. UNCHANGED exec
      BY <1>28 DEF UpdateRead, Handler, flags, sched, Only, Quiet
    <2> QED
      BY <2>1, PermitSame DEF Same
  <1>29. ASSUME NEW q \in Request, UpdateSave(q), Noting({})
        PROVE  PermitInv'
    <2>1. UNCHANGED exec
      BY <1>29 DEF UpdateSave, Handler, flags, sched, Only, Quiet
    <2> QED
      BY <2>1, PermitSame DEF Same
  <1>30. ASSUME NEW q \in Request, SyncScheduler(q), Noting({})
        PROVE  PermitInv'
    <2>1. UNCHANGED exec
      BY <1>30 DEF SyncScheduler, Handler, flags, sched, Only, Quiet
    <2> QED
      BY <2>1, PermitSame DEF Same
  <1>31. ASSUME NEW q \in Request, NEW a \in Agent, Delete(q, a), Noting({})
        PROVE  PermitInv'
    <2>1. UNCHANGED exec
      BY <1>31 DEF Delete, Handler, flags, sched, Only, Quiet
    <2> QED
      BY <2>1, PermitSame DEF Same
  <1>32. ASSUME NEW q \in Request, DeleteCache(q), Noting({})
        PROVE  PermitInv'
    <2>1. UNCHANGED exec
      BY <1>32 DEF DeleteCache, Handler, flags, sched, Only, Quiet
    <2> QED
      BY <2>1, PermitSame DEF Same
  <1>33. ASSUME NEW q \in Request, DeleteStore(q), Noting({})
        PROVE  PermitInv'
    <2>1. UNCHANGED exec
      BY <1>33 DEF DeleteStore, Handler, flags, sched, Only, Quiet
    <2> QED
      BY <2>1, PermitSame DEF Same
  <1>34. ASSUME NEW q \in Request, Disconnect(q), Noting({request[q].agent})
        PROVE  PermitInv'
    <2>1. UNCHANGED exec
      BY <1>34 DEF Disconnect, Handler
    <2> QED
      BY <2>1, PermitSame DEF Same
  <1>35. CASE UNCHANGED vars
    <2>1. UNCHANGED exec
      BY <1>35 DEF vars
    <2> QED
      BY <2>1, PermitSame DEF Same
  <1> QED
    BY <1>1, <1>2, <1>3, <1>4, <1>5, <1>6, <1>7, <1>8, <1>9, <1>10, <1>11,
       <1>12, <1>13, <1>14, <1>15, <1>16, <1>17, <1>18, <1>19, <1>20, <1>21,
       <1>22, <1>23, <1>24, <1>25, <1>26, <1>27, <1>28, <1>29, <1>30, <1>31,
       <1>32, <1>33, <1>34, <1>35
       DEF Next, Environment, Scheduling, Execution, Cleanup, Handling

-----------------------------------------------------------------------------
(* The status of an agent *)

\* ExecutingBacked, agent by agent.
Backed(a) == \/ a \in unsaved \cup clash
             \/ \E e \in Exec : exec[e].agent = a /\ WritesStatus(e)
\* Every agent that says Executing is.
BackedInv ==
    started => \A a \in Agent : status[a] = "Executing" => Backed(a)

\* This is ExecutingBacked.
LEMMA BackedDef == ExecutingBacked <=> BackedInv
  BY DEF ExecutingBacked, BackedInv, Backed, Execs

\* No free place writes a status.
LEMMA FreeWritesNone ==
    ASSUME Types, NEW e \in Exec, exec[e].pc = "free"
    PROVE  ~WritesStatus(e)
  <1>1. exec[e] = NoExec
    BY DEF Types, Shaped, GoodExec
  <1> QED
    BY <1>1 DEF WritesStatus, Rewriting, NoExec

\* A step of one execution that will still write the status, or has just done.
LEMMA BackedKept ==
    ASSUME BackedInv, NEW e \in Exec, OneExec(e), clash \subseteq clash',
           unsaved \subseteq unsaved', UNCHANGED started,
           WritesStatus(e) => \/ status'[exec[e].agent] # "Executing"
                              \/ exec[e].agent \in unsaved'
                              \/ /\ WritesStatus(e)'
                                 /\ exec'[e].agent = exec[e].agent,
           \A a \in Agent : status'[a] = "Executing" =>
               status[a] = "Executing" \/ Backed(a)'
    PROVE  BackedInv'
  <1> SUFFICES ASSUME started', NEW a \in Agent, status'[a] = "Executing"
               PROVE  Backed(a)'
    BY DEF BackedInv
  <1>1. CASE status[a] = "Executing"
    <2>1. Backed(a)
      BY <1>1 DEF BackedInv
    <2>2. CASE a \in unsaved' \cup clash'
      BY <2>2 DEF Backed
    <2>3. CASE \E x \in Exec : exec[x].agent = a /\ WritesStatus(x)
      <3>1. PICK x \in Exec : exec[x].agent = a /\ WritesStatus(x)
        BY <2>3
      <3>2. \/ a \in unsaved'
            \/ WritesStatus(x)' /\ exec'[x].agent = a
        BY <3>1 DEF OneExec, WritesStatus
      <3> QED
        BY <3>2 DEF Backed
    <2> QED
      BY <2>1, <2>2, <2>3 DEF Backed
  <1> QED
    BY <1>1

\* The executions go on as they were; no row becomes Executing.
LEMMA BackedSame ==
    ASSUME BackedInv, clash \subseteq clash', unsaved \subseteq unsaved',
           started' => started,
           \A x \in Exec : /\ exec'[x].pc = exec[x].pc
                           /\ Same(x, {"agent", "kind", "owes"}),
           \A a \in Agent : status'[a] = "Executing" =>
               status[a] = "Executing" \/ a \in clash'
    PROVE  BackedInv'
  BY DEF BackedInv, Backed, WritesStatus, Same

\* An agent that says Executing stays backed.
LEMMA BackedStep ==
    Types /\ HandleInv /\ ClashNoted /\ BackedInv /\ [Next]_vars => BackedInv'
  <1> SUFFICES ASSUME Types /\ HandleInv /\ ClashNoted /\ BackedInv,
                      [Next]_vars
               PROVE  BackedInv'
    OBVIOUS
  <1>0. Types /\ TypeOK /\ Shaped
    BY DEF Types
  <1>c. [Next]_vars => clash \subseteq clash'
    BY <1>0, ClashKept
  <1>u. [Next]_vars => unsaved \subseteq unsaved'
    BY UnsavedKept
  <1>1. CASE Tick /\ Noting({})
    <2>1. UNCHANGED <<exec, status, started>>
      BY <1>1 DEF Tick, flags, sched, Only, Quiet
    <2> QED
      BY <1>c, <1>u, <2>1, BackedSame DEF Same
  <1>2. CASE LoopCheck /\ Noting({})
    <2>1. UNCHANGED <<exec, status, started>>
      BY <1>2 DEF LoopCheck, flags, sched, Only, Quiet
    <2> QED
      BY <1>c, <1>u, <2>1, BackedSame DEF Same
  <1>3. CASE LoopReserve /\ Noting({})
    <2>1. UNCHANGED <<exec, status, started>>
      BY <1>3 DEF LoopReserve, flags, sched, Only, Quiet
    <2> QED
      BY <1>c, <1>u, <2>1, BackedSame DEF Same
  <1>4. ASSUME NEW a \in Agent, NEW e \in Exec, LoopSpawn(a, e), Noting({})
        PROVE  BackedInv'
    <2>1. OneExec(e) /\ UNCHANGED <<status, started>> /\ exec[e].pc = "free"
      BY <1>4, <1>0, SpawnDoes DEF LoopSpawn, IsNext, flags
    <2>2. ~WritesStatus(e)
      BY <1>0, <2>1, FreeWritesNone
    <2> QED
      BY <1>c, <1>u, <2>1, <2>2, BackedKept
  <1>5. ASSUME NEW a \in Agent, EventArrives(a), Noting({})
        PROVE  BackedInv'
    <2>1. UNCHANGED <<exec, status, started>>
      BY <1>5 DEF EventArrives, flags, sched, Only, Quiet
    <2> QED
      BY <1>c, <1>u, <2>1, BackedSame DEF Same
  <1>6. ASSUME NEW e \in Exec, EventTrigger(e), Noting({})
        PROVE  BackedInv'
    <2>1. listener \in Agent /\ UNCHANGED <<status, started>>
      BY <1>6, <1>0 DEF EventTrigger, TypeOK, flags
    <2>2. CASE UNCHANGED exec
      BY <1>c, <1>u, <2>1, <2>2, BackedSame DEF Same
    <2>3. CASE exec' # exec
      <3>1. /\ exec' = [exec EXCEPT ![e] = Spawned(listener, "event")]
            /\ exec[e].pc = "free"
        BY <1>6, <2>3 DEF EventTrigger, IsNext
      <3>2. OneExec(e) /\ ~WritesStatus(e)
        BY <1>0, <2>1, <3>1, SpawnDoes, FreeWritesNone
      <3> QED
        BY <1>c, <1>u, <2>1, <3>2, BackedKept
    <2> QED
      BY <2>2, <2>3
  <1>7. ASSUME NEW e \in Exec, Poll(e), Noting({})
        PROVE  BackedInv'
    <2>1. /\ OneExec(e)
          /\ exec'[e].pc = "global"
          /\ Same(e, {"agent", "kind", "owes", "aborted"})
      BY <1>7, <1>0, GoDoes DEF Poll, Working
    <2>2. UNCHANGED <<status, started>> /\ exec[e].pc = "queued"
      BY <1>7 DEF Poll, Only, Quiet, flags
    <2>3. WritesStatus(e) => WritesStatus(e)' /\ exec'[e].agent = exec[e].agent
      BY <2>1, <2>2 DEF WritesStatus, Rewriting, Same
    <2> QED
      BY <1>c, <1>u, <2>1, <2>2, <2>3, BackedKept
  <1>8. ASSUME NEW e \in Exec, AcquireGlobal(e), Noting({})
        PROVE  BackedInv'
    <2>1. /\ OneExec(e)
          /\ exec'[e].pc \in {"return", "backend"}
          /\ Same(e, {"agent", "kind", "owes", "aborted"})
      BY <1>8, <1>0, GoDoes DEF AcquireGlobal, Working
    <2>2. UNCHANGED <<status, started>> /\ exec[e].pc = "global"
      BY <1>8 DEF AcquireGlobal, Only, Quiet, flags
    <2>3. WritesStatus(e) => WritesStatus(e)' /\ exec'[e].agent = exec[e].agent
      BY <2>1, <2>2 DEF WritesStatus, Rewriting, Same
    <2> QED
      BY <1>c, <1>u, <2>1, <2>2, <2>3, BackedKept
  <1>9. ASSUME NEW e \in Exec, AcquireBackend(e), Noting({})
        PROVE  BackedInv'
    <2>1. /\ OneExec(e) /\ Same(e, {"agent", "kind", "owes", "aborted"})
          /\ \/ /\ exec'[e].pc = "body"
                /\ status' = Write(exec[e].agent, "Executing")
             \/ exec'[e].pc = "return" /\ UNCHANGED status
      BY <1>9, <1>0, ExecuteDoes DEF AcquireBackend
    <2>2. /\ UNCHANGED started /\ exec[e].pc = "backend"
          /\ exec[e].agent \in Agent /\ "Executing" \in Statuses
      BY <1>9, <1>0, Busy
         DEF AcquireBackend, Execute, Only, Quiet, flags, Statuses
    <2>3. CASE /\ exec'[e].pc = "body"
               /\ status' = Write(exec[e].agent, "Executing")
      <3>1. \A b \in Agent : b # exec[e].agent => status'[b] = status[b]
        BY <1>0, <2>2, <2>3, WriteDef DEF TypeOK
      <3>2. /\ Backed(exec[e].agent)' /\ WritesStatus(e)'
            /\ exec'[e].agent = exec[e].agent
        BY <2>1, <2>3 DEF WritesStatus, Backed, Same
      <3> QED
        BY <1>c, <1>u, <2>1, <2>2, <3>1, <3>2, BackedKept
    <2>4. CASE exec'[e].pc = "return" /\ UNCHANGED status
      <3>1. WritesStatus(e) => WritesStatus(e)' /\ exec'[e].agent = exec[e].agent
        BY <2>1, <2>2, <2>4 DEF WritesStatus, Rewriting, Same
      <3> QED
        BY <1>c, <1>u, <2>1, <2>2, <2>4, <3>1, BackedKept
    <2> QED
      BY <2>1, <2>3, <2>4
  <1>10. ASSUME NEW e \in Exec, StartExecution(e), Noting({})
        PROVE  BackedInv'
    <2>1. /\ OneExec(e) /\ Same(e, {"agent", "kind", "owes", "aborted"})
          /\ \/ /\ exec'[e].pc = "body"
                /\ status' = Write(exec[e].agent, "Executing")
             \/ exec'[e].pc = "return" /\ UNCHANGED status
      BY <1>10, <1>0, ExecuteDoes DEF StartExecution
    <2>2. /\ UNCHANGED started /\ exec[e].pc = "start"
          /\ exec[e].agent \in Agent /\ "Executing" \in Statuses
      BY <1>10, <1>0, Busy
         DEF StartExecution, Execute, Only, Quiet, flags, Statuses
    <2>3. CASE /\ exec'[e].pc = "body"
               /\ status' = Write(exec[e].agent, "Executing")
      <3>1. \A b \in Agent : b # exec[e].agent => status'[b] = status[b]
        BY <1>0, <2>2, <2>3, WriteDef DEF TypeOK
      <3>2. /\ Backed(exec[e].agent)' /\ WritesStatus(e)'
            /\ exec'[e].agent = exec[e].agent
        BY <2>1, <2>3 DEF WritesStatus, Backed, Same
      <3> QED
        BY <1>c, <1>u, <2>1, <2>2, <3>1, <3>2, BackedKept
    <2>4. CASE exec'[e].pc = "return" /\ UNCHANGED status
      <3>1. WritesStatus(e) => WritesStatus(e)' /\ exec'[e].agent = exec[e].agent
        BY <2>1, <2>2, <2>4 DEF WritesStatus, Rewriting, Same
      <3> QED
        BY <1>c, <1>u, <2>1, <2>2, <2>4, <3>1, BackedKept
    <2> QED
      BY <2>1, <2>3, <2>4
  <1>11. ASSUME NEW e \in Exec, NEW out \in Outcomes, FinishExecution(e, out),
                Noting({})
        PROVE  BackedInv'
    <2>1. /\ OneExec(e) /\ Same(e, {"agent", "kind", "aborted"})
          /\ \/ /\ exec'[e].pc = "return" /\ "status" \in exec'[e].owes
                /\ UNCHANGED status
             \/ \E s \in {"Error", "Active"} :
                    status' = Write(exec[e].agent, s)
             \/ exec'[e].pc \in Rewriting /\ UNCHANGED status
      BY <1>11, <1>0, FinishDoes
    <2>2. UNCHANGED started /\ exec[e].agent \in Agent
      BY <1>11, <1>0, Busy DEF FinishExecution, Only, Quiet, flags
    <2>3. CASE /\ UNCHANGED status
               /\ "status" \in exec'[e].owes \/ exec'[e].pc \in Rewriting
      <3>1. WritesStatus(e)' /\ exec'[e].agent = exec[e].agent
        BY <2>1, <2>3 DEF WritesStatus, Same
      <3> QED
        BY <1>c, <1>u, <2>1, <2>2, <2>3, <3>1, BackedKept
    <2>4. CASE \E s \in {"Error", "Active"} : status' = Write(exec[e].agent, s)
      <3>1. /\ status'[exec[e].agent] # "Executing"
            /\ \A b \in Agent : b # exec[e].agent => status'[b] = status[b]
        BY <1>0, <2>2, <2>4, SMTT(30) DEF Write, TypeOK
      <3> QED
        BY <1>c, <1>u, <2>1, <2>2, <3>1, BackedKept
    <2> QED
      BY <2>1, <2>3, <2>4
  <1>12. ASSUME NEW e \in Exec, Rewrite(e), Noting({})
        PROVE  BackedInv'
    <2>1. OneExec(e)
      BY <1>12, <1>0, RewriteDoes
    <2>2. UNCHANGED started /\ exec[e].agent \in Agent
      BY <1>12, <1>0, Busy DEF Rewrite, Rewriting, Quiet, flags
    <2>3. /\ \/ status'[exec[e].agent] # "Executing"
             \/ exec[e].agent \in unsaved'
          /\ \A b \in Agent : b # exec[e].agent => status'[b] = status[b]
          /\ \/ status'[exec[e].agent] = status[exec[e].agent]
             \/ status'[exec[e].agent] # "Executing"
      <3>1. CASE \E s \in {"Error", "Active"} : status' = Write(exec[e].agent, s)
        BY <1>0, <2>2, <3>1, SMTT(30) DEF Write, TypeOK
      <3>2. CASE UNCHANGED status /\ unsaved' = unsaved \cup {exec[e].agent}
        BY <2>2, <3>2
      <3> QED
        BY <1>12, <1>0, <3>1, <3>2, RewriteDoes
    <2> QED
      BY <1>c, <1>u, <2>1, <2>2, <2>3, BackedKept
  <1>13. ASSUME NEW e \in Exec, NEW late \in Late, EndScheduled(e, late),
                Noting({})
        PROVE  BackedInv'
    <2>1. /\ OneExec(e)
          /\ exec'[e].pc \in {"free", "ended"}
          /\ exec'[e].owes = exec[e].owes \cup late
          /\ exec'[e].pc = "ended" <=> exec[e].owes \cup late # {}
          /\ exec'[e].pc = "ended" => Same(e, {"agent", "kind"})
      BY <1>13, <1>0, EndDoes, LateAssumption DEF EndScheduled
    <2>2. /\ UNCHANGED <<status, started>> /\ exec[e].pc = "return"
          /\ exec[e].kind # "manual"
      BY <1>13 DEF EndScheduled, Quiet, flags
    <2>3. WritesStatus(e) => WritesStatus(e)' /\ exec'[e].agent = exec[e].agent
      BY <2>1, <2>2 DEF WritesStatus, Rewriting, Same
    <2> QED
      BY <1>c, <1>u, <2>1, <2>2, <2>3, BackedKept
  <1>14. ASSUME NEW e \in Exec, RetryEvent(e), Noting({})
        PROVE  BackedInv'
    <2>1. /\ OneExec(e)
          /\ exec'[e].pc = "start"
          /\ Same(e, {"agent", "kind", "owes"})
      BY <1>14, <1>0, RetryDoes DEF Same
    <2>2. UNCHANGED <<status, started>> /\ exec[e].pc = "return"
      BY <1>14 DEF RetryEvent, Only, Quiet, flags
    <2>3. WritesStatus(e) => WritesStatus(e)' /\ exec'[e].agent = exec[e].agent
      BY <2>1, <2>2 DEF WritesStatus, Rewriting, Same
    <2> QED
      BY <1>c, <1>u, <2>1, <2>2, <2>3, BackedKept
  <1>15. ASSUME NEW e \in Exec, EndEvent(e), Noting({})
        PROVE  BackedInv'
    <2>1. /\ OneExec(e)
          /\ exec'[e].pc \in {"free", "ended"}
          /\ exec'[e].owes = exec[e].owes \cup {}
          /\ exec'[e].pc = "ended" <=> exec[e].owes \cup {} # {}
          /\ exec'[e].pc = "ended" => Same(e, {"agent", "kind"})
      BY <1>15, <1>0, EndDoes DEF EndEvent
    <2>2. /\ UNCHANGED <<status, started>> /\ exec[e].pc = "return"
          /\ exec[e].kind # "manual"
      BY <1>15 DEF EndEvent, Quiet, flags
    <2>3. WritesStatus(e) => WritesStatus(e)' /\ exec'[e].agent = exec[e].agent
      BY <2>1, <2>2 DEF WritesStatus, Rewriting, Same
    <2> QED
      BY <1>c, <1>u, <2>1, <2>2, <2>3, BackedKept
  <1>16. ASSUME NEW a \in Agent, NEW e \in Exec, ManualStart(a, e), Noting({})
        PROVE  BackedInv'
    <2>1. exec[e].pc = "free" /\ UNCHANGED started /\ "Executing" \in Statuses
      BY <1>16 DEF ManualStart, IsNext, flags, Statuses
    <2>2. CASE UNCHANGED <<status, exec>>
      BY <1>c, <1>u, <2>1, <2>2, BackedSame DEF Same
    <2>3. CASE /\ OneExec(e) /\ exec'[e].pc = "start" /\ exec'[e].agent = a
               /\ exec'[e].kind = "manual" /\ status' = Write(a, "Executing")
      <3>1. \A b \in Agent : b # a => status'[b] = status[b]
        BY <1>0, <2>1, <2>3, WriteDef DEF TypeOK
      <3>2. ~WritesStatus(e) /\ Backed(a)'
        BY <1>0, <2>1, <2>3, FreeWritesNone DEF WritesStatus, Backed
      <3> QED
        BY <1>c, <1>u, <2>1, <2>3, <3>1, <3>2, BackedKept
    <2> QED
      BY <1>16, <1>0, <2>2, <2>3, ManualDoes
  <1>17. ASSUME NEW e \in Exec, ManualEnd(e), Noting({})
        PROVE  BackedInv'
    <2>1. /\ OneExec(e)
          /\ exec'[e].pc \in {"free", "ended"}
          /\ exec'[e].owes = exec[e].owes \cup {}
          /\ exec'[e].pc = "ended" <=> exec[e].owes \cup {} # {}
          /\ exec'[e].pc = "ended" => Same(e, {"agent", "kind"})
      BY <1>17, <1>0, EndDoes DEF ManualEnd
    <2>2. /\ UNCHANGED started /\ exec[e].agent \in Agent
          /\ {"Error", "Active", "Completed"} \subseteq Statuses
      BY <1>17, <1>0, Busy DEF ManualEnd, Quiet, flags, Statuses
    <2>3. CASE UNCHANGED status /\ exec[e].agent \in unsaved'
      BY <1>c, <1>u, <2>1, <2>2, <2>3, BackedKept
    <2>4. CASE \E s \in {"Error", "Active", "Completed"} :
                   status' = Write(exec[e].agent, s)
      <3>1. PICK s \in {"Error", "Active", "Completed"} :
                status' = Write(exec[e].agent, s)
        BY <2>4
      <3>2. /\ status'[exec[e].agent] \in {"Absent", s}
            /\ \A b \in Agent : b # exec[e].agent => status'[b] = status[b]
        BY <1>0, <2>2, <3>1 DEF Write, TypeOK
      <3> QED
        BY <1>c, <1>u, <2>1, <2>2, <3>2, BackedKept
    <2> QED
      BY <1>17, <2>3, <2>4 DEF ManualEnd, Refused
  <1>18. ASSUME NEW e \in Exec, NEW late \in Late, Unwind(e, late), Noting({})
        PROVE  BackedInv'
    <2>1. /\ OneExec(e) /\ exec[e].kind # "manual"
          /\ exec[e].owes \subseteq exec'[e].owes
          /\ exec[e].pc = "body" => "status" \in exec'[e].owes
          /\ exec'[e].owes # {} => Same(e, {"agent", "kind"})
      BY <1>18, <1>0, UnwindDoes
    <2>2. UNCHANGED <<status, started>>
      BY <1>18 DEF Unwind, Quiet, flags
    <2>3. exec[e].pc \in Rewriting => exec[e].agent \in unsaved'
      BY <1>18 DEF Unwind, NotWritten
    <2>4. WritesStatus(e) => \/ exec[e].agent \in unsaved'
                             \/ /\ WritesStatus(e)'
                                /\ exec'[e].agent = exec[e].agent
      BY <2>1, <2>3 DEF WritesStatus, Same
    <2> QED
      BY <1>c, <1>u, <2>1, <2>2, <2>4, BackedKept
  <1>19. ASSUME NEW e \in Exec, NEW d \in {"status", "slot", "handle"},
                PayDebt(e, d), Noting({})
        PROVE  BackedInv'
    <2>1. /\ OneExec(e)
          /\ exec'[e].owes = exec[e].owes \ {d}
          /\ exec'[e].pc \in {exec[e].pc, "free"}
          /\ exec'[e].pc = "free" => exec[e].pc = "ended" /\ exec[e].owes = {d}
          /\ exec'[e].pc # "free" => Same(e, {"agent", "kind"})
      BY <1>19, <1>0, PayDoes DEF Same
    <2>2. /\ UNCHANGED started /\ exec[e].agent \in Agent
          /\ "Active" \in Statuses /\ exec[e].pc # "free" /\ d \in exec[e].owes
      BY <1>19, <1>0, PayDoes DEF PayDebt, Quiet, flags, Statuses
    <2>3. CASE d = "status"
      <3>1. CASE UNCHANGED status /\ exec[e].agent \in unsaved'
        BY <1>c, <1>u, <2>1, <2>2, <3>1, BackedKept
      <3>2. CASE status' = Write(exec[e].agent, "Active")
        <4>1. /\ status'[exec[e].agent] # "Executing"
              /\ \A b \in Agent : b # exec[e].agent => status'[b] = status[b]
          BY <1>0, <2>2, <3>2, SMTT(30) DEF Write, TypeOK
        <4> QED
          BY <1>c, <1>u, <2>1, <2>2, <4>1, BackedKept
      <3> QED
        BY <1>19, <2>3, <3>1, <3>2 DEF PayDebt, Refused
    <2>4. CASE d # "status"
      <3>1. UNCHANGED status
        BY <1>19, <2>4 DEF PayDebt
      <3>2. exec[e].kind # "manual"
        <4>1. GoodExec(exec[e])
          BY <1>0 DEF Shaped
        <4> QED
          BY <2>2, <2>4, <4>1 DEF GoodExec
      <3>3. WritesStatus(e) => WritesStatus(e)' /\ exec'[e].agent = exec[e].agent
        BY <2>1, <2>2, <2>4, <3>2 DEF WritesStatus, Rewriting, Same
      <3> QED
        BY <1>c, <1>u, <2>1, <2>2, <3>1, <3>3, BackedKept
    <2> QED
      BY <2>3, <2>4
  <1>20. ASSUME NEW R \in SUBSET {b \in Stale : MayRefuse(b)}, ManagerStart(R),
                Noting(R)
        PROVE  BackedInv'
    <2> SUFFICES ASSUME NEW b \in Agent, status'[b] = "Executing"
                 PROVE  b \in clash'
      BY DEF BackedInv, Backed
    <2>1. b \in Stale /\ b \in R
      BY <1>20, <1>0 DEF ManagerStart, Stale, TypeOK
    <2> QED
      BY <1>20, <1>0, <2>1, ClashGrows DEF TypeOK, Stale
  <1>21. CASE StartupSweep /\ Noting({})
    <2>1. /\ UNCHANGED <<exec, started>>
          /\ \A b \in Agent : status'[b] = "Executing" => status[b] = "Executing"
      BY <1>21, <1>0 DEF StartupSweep, flags, sched, Only, Quiet, TypeOK
    <2> QED
      BY <1>c, <1>u, <2>1, BackedSame DEF Same
  <1>22. CASE StopFlag /\ Noting({})
    BY <1>22 DEF StopFlag, BackedInv
  <1>23. CASE StopDrain /\ Noting({})
    <2>1. UNCHANGED <<status, started>>
      BY <1>23 DEF StopDrain, flags
    <2> QED
      BY <1>23, <1>c, <1>u, <2>1, Aborted, BackedSame
  <1>24. CASE AbortEvents /\ Noting({})
    <2>1. UNCHANGED <<status, started>>
      BY <1>24 DEF AbortEvents, flags
    <2> QED
      BY <1>24, <1>c, <1>u, <2>1, Aborted, BackedSame
  <1>25. CASE Crash /\ Noting({})
    BY <1>25 DEF Crash, BackedInv
  <1>26. ASSUME NEW q \in Request, NEW a \in Agent, Create(q, a), Noting({})
        PROVE  BackedInv'
    <2>1. /\ UNCHANGED <<exec, started>>
          /\ \A b \in Agent : status'[b] = "Executing" => status[b] = "Executing"
      BY <1>26, <1>0 DEF Create, Handler, flags, sched, Only, Quiet, TypeOK
    <2> QED
      BY <1>c, <1>u, <2>1, BackedSame DEF Same
  <1>27. ASSUME NEW q \in Request, NEW a \in Agent,
                NEW s \in {"Active", "Paused", "Error"}, SetStatus(q, a, s),
                Noting({})
        PROVE  BackedInv'
    <2>1. /\ UNCHANGED <<exec, started>> /\ status' = Write(a, s)
          /\ s \in Statuses
      BY <1>27 DEF SetStatus, Handler, flags, sched, Only, Quiet, Statuses
    <2>2. \A b \in Agent : status'[b] = "Executing" => status[b] = "Executing"
      <3>1. /\ status'[a] \in {"Absent", s}
            /\ \A b \in Agent : b # a => status'[b] = status[b]
        BY <1>0, <2>1, WriteDef, ZenonT(60) DEF TypeOK
      <3> QED
        BY <3>1
    <2> QED
      BY <1>c, <1>u, <2>1, <2>2, BackedSame DEF Same
  <1>28. ASSUME NEW q \in Request, NEW a \in Agent, NEW s \in Statuses,
                UpdateRead(q, a, s), Noting({})
        PROVE  BackedInv'
    <2>1. UNCHANGED <<exec, status, started>>
      BY <1>28 DEF UpdateRead, Handler, flags, sched, Only, Quiet
    <2> QED
      BY <1>c, <1>u, <2>1, BackedSame DEF Same
  <1>29. ASSUME NEW q \in Request, UpdateSave(q), Noting({})
        PROVE  BackedInv'
    <2>0. request[q].agent \in Agent
      BY <1>29, <1>0 DEF UpdateSave, Shaped, GoodRequest, NoRequest
    <2>1. /\ UNCHANGED <<exec, started>>
          /\ \A b \in Agent : status'[b] = IF b = request[q].agent
                                          THEN request[q].snap ELSE status[b]
      BY <1>29, <1>0, <2>0 DEF UpdateSave, Handler, flags, sched, Only, Quiet,
             TypeOK
    <2>2. request[q].snap = "Executing" => request[q].agent \in clash'
      BY <1>29, <1>c DEF UpdateSave, ClashNoted
    <2> QED
      BY <1>c, <1>u, <2>1, <2>2, BackedSame DEF Same
  <1>30. ASSUME NEW q \in Request, SyncScheduler(q), Noting({})
        PROVE  BackedInv'
    <2>1. UNCHANGED <<exec, status, started>>
      BY <1>30 DEF SyncScheduler, Handler, flags, sched, Only, Quiet
    <2> QED
      BY <1>c, <1>u, <2>1, BackedSame DEF Same
  <1>31. ASSUME NEW q \in Request, NEW a \in Agent, Delete(q, a), Noting({})
        PROVE  BackedInv'
    <2>1. UNCHANGED <<exec, status, started>>
      BY <1>31 DEF Delete, Handler, flags, sched, Only, Quiet
    <2> QED
      BY <1>c, <1>u, <2>1, BackedSame DEF Same
  <1>32. ASSUME NEW q \in Request, DeleteCache(q), Noting({})
        PROVE  BackedInv'
    <2>1. UNCHANGED <<exec, status, started>>
      BY <1>32 DEF DeleteCache, Handler, flags, sched, Only, Quiet
    <2> QED
      BY <1>c, <1>u, <2>1, BackedSame DEF Same
  <1>33. ASSUME NEW q \in Request, DeleteStore(q), Noting({})
        PROVE  BackedInv'
    <2>0. request[q].agent \in Agent
      BY <1>33, <1>0 DEF DeleteStore, Shaped, GoodRequest, NoRequest
    <2>1. /\ UNCHANGED <<exec, started>>
          /\ \A b \in Agent : status'[b] = "Executing" => status[b] = "Executing"
      BY <1>33, <1>0, <2>0 DEF DeleteStore, Handler, flags, sched, Only, Quiet,
             TypeOK
    <2> QED
      BY <1>c, <1>u, <2>1, BackedSame DEF Same
  <1>34. ASSUME NEW q \in Request, Disconnect(q), Noting({request[q].agent})
        PROVE  BackedInv'
    <2>1. UNCHANGED <<exec, status, started>>
      BY <1>34 DEF Disconnect, Handler, flags
    <2> QED
      BY <1>c, <1>u, <2>1, BackedSame DEF Same
  <1>35. CASE UNCHANGED vars
    <2>1. UNCHANGED <<exec, status, started>>
      BY <1>35 DEF vars, flags
    <2> QED
      BY <1>c, <1>u, <2>1, BackedSame DEF Same
  <1> QED
    BY <1>1, <1>2, <1>3, <1>4, <1>5, <1>6, <1>7, <1>8, <1>9, <1>10, <1>11,
       <1>12, <1>13, <1>14, <1>15, <1>16, <1>17, <1>18, <1>19, <1>20, <1>21,
       <1>22, <1>23, <1>24, <1>25, <1>26, <1>27, <1>28, <1>29, <1>30, <1>31,
       <1>32, <1>33, <1>34, <1>35
       DEF Next, Environment, Scheduling, Execution, Cleanup, Handling

-----------------------------------------------------------------------------
(* What a step of an execution leaves alone *)

\* An execution writes the row of its agent, if there is one, and never pauses
\* it; only one by hand completes it.
StatusMoves(a) ==
    /\ \A b \in Agent : b # a => status'[b] = status[b]
    /\ \/ status'[a] = status[a]
       \/ /\ status'[a] \notin {"Paused", "Absent"} /\ status[a] # "Absent"
          /\ status'[a] = "Completed" => Schedule[a] = "manual"

\* A step of an execution is about its agent and touches no task, no request
\* and no other agent.
Within(e) ==
    /\ UNCHANGED <<started, tasks, loop, listener, request>>
    /\ OneExec(e) /\ exec[e].pc # "free" /\ exec[e].agent \in Agent
    /\ exec'[e].agent \in {exec[e].agent, Nobody}
    /\ StatusMoves(exec[e].agent)

\* A status write of an execution does no more than StatusMoves.
LEMMA WriteMoves ==
    ASSUME TypeOK, NEW a \in Agent,
           NEW s \in {"Executing", "Active", "Error", "Completed"},
           s = "Completed" => Schedule[a] = "manual", status' = Write(a, s)
    PROVE  StatusMoves(a)
  <1>1. s \in Statuses
    BY DEF Statuses
  <1>2. /\ status'[a] = IF status[a] = "Absent" THEN "Absent" ELSE s
        /\ \A b \in Agent : b # a => status'[b] = status[b]
    BY <1>1, WriteDef DEF TypeOK
  <1> QED
    BY <1>2 DEF StatusMoves

\* How a step of an execution is seen to be one.
LEMMA WithinDef ==
    ASSUME Types, NEW e \in Exec, OneExec(e), exec[e].pc # "free",
           exec'[e].pc # "free" => Same(e, {"agent"}),
           StatusMoves(exec[e].agent),
           UNCHANGED <<started, tasks, loop, listener, request>>
    PROVE  Within(e)
  <1>1. exec[e].agent \in Agent
    BY Busy
  <1>2. exec'[e].agent \in {exec[e].agent, Nobody}
    <2>1. CASE exec'[e].pc # "free"
      BY <2>1 DEF Same
    <2>2. CASE exec'[e].pc = "free"
      <3>1. exec'[e] = NoExec
        BY <2>2 DEF OneExec, GoodExec
      <3> QED
        BY <3>1 DEF NoExec
    <2> QED
      BY <2>1, <2>2
  <1> QED
    BY <1>1, <1>2 DEF Within

\* Every step of an execution and every clean-up stays within its agent.
LEMMA WithinStep ==
    ASSUME Types, NEW e \in Exec, Execution(e) \/ Cleanup(e)
    PROVE  Within(e)
  <1>0. Types /\ TypeOK
    BY DEF Types
  <1>1. CASE Poll(e)
    <2>1. /\ OneExec(e)
          /\ exec'[e].pc = "global"
          /\ Same(e, {"agent", "kind", "owes", "aborted"})
      BY <1>1, <1>0, GoDoes DEF Poll, Working
    <2>2. /\ UNCHANGED <<started, tasks, loop, listener, request>>
          /\ exec[e].pc # "free"
      BY <1>1, <1>0 DEF Poll, Only, Quiet, flags
    <2>3. exec[e].agent \in Agent
      BY <1>0, <2>2, Busy
    <2>4. StatusMoves(exec[e].agent)
      BY <1>1 DEF Poll, Only, StatusMoves
    <2>5. exec'[e].pc # "free" => Same(e, {"agent"})
      BY <2>1 DEF Same
    <2> QED
      BY <1>0, <2>1, <2>2, <2>4, <2>5, WithinDef
  <1>2. CASE AcquireGlobal(e)
    <2>1. /\ OneExec(e)
          /\ exec'[e].pc \in {"return", "backend"}
          /\ Same(e, {"agent", "kind", "owes", "aborted"})
      BY <1>2, <1>0, GoDoes DEF AcquireGlobal, Working
    <2>2. /\ UNCHANGED <<started, tasks, loop, listener, request>>
          /\ exec[e].pc # "free"
      BY <1>2, <1>0 DEF AcquireGlobal, Only, Quiet, flags
    <2>3. exec[e].agent \in Agent
      BY <1>0, <2>2, Busy
    <2>4. StatusMoves(exec[e].agent)
      BY <1>2 DEF AcquireGlobal, Only, StatusMoves
    <2>5. exec'[e].pc # "free" => Same(e, {"agent"})
      BY <2>1 DEF Same
    <2> QED
      BY <1>0, <2>1, <2>2, <2>4, <2>5, WithinDef
  <1>3. CASE AcquireBackend(e)
    <2>1. /\ OneExec(e)
          /\ exec'[e].pc \in {"body", "return"}
          /\ Same(e, {"agent", "kind", "owes", "aborted"})
      BY <1>3, <1>0, ExecuteDoes DEF AcquireBackend
    <2>2. /\ UNCHANGED <<started, tasks, loop, listener, request>>
          /\ exec[e].pc # "free"
      BY <1>3, <1>0 DEF AcquireBackend, Execute, Only, Quiet, flags
    <2>3. exec[e].agent \in Agent
      BY <1>0, <2>2, Busy
    <2>4. StatusMoves(exec[e].agent)
      <3>1. UNCHANGED status \/ status' = Write(exec[e].agent, "Executing")
        BY <1>3, <1>0, <2>2, ExecuteDoes DEF AcquireBackend
      <3> QED
        BY <1>0, <2>3, <3>1, WriteMoves DEF StatusMoves
    <2>5. exec'[e].pc # "free" => Same(e, {"agent"})
      BY <2>1 DEF Same
    <2> QED
      BY <1>0, <2>1, <2>2, <2>4, <2>5, WithinDef
  <1>4. CASE StartExecution(e)
    <2>1. /\ OneExec(e)
          /\ exec'[e].pc \in {"body", "return"}
          /\ Same(e, {"agent", "kind", "owes", "aborted"})
      BY <1>4, <1>0, ExecuteDoes DEF StartExecution
    <2>2. /\ UNCHANGED <<started, tasks, loop, listener, request>>
          /\ exec[e].pc # "free"
      BY <1>4, <1>0 DEF StartExecution, Execute, Only, Quiet, flags
    <2>3. exec[e].agent \in Agent
      BY <1>0, <2>2, Busy
    <2>4. StatusMoves(exec[e].agent)
      <3>1. UNCHANGED status \/ status' = Write(exec[e].agent, "Executing")
        BY <1>4, <1>0, <2>2, ExecuteDoes DEF StartExecution
      <3> QED
        BY <1>0, <2>3, <3>1, WriteMoves DEF StatusMoves
    <2>5. exec'[e].pc # "free" => Same(e, {"agent"})
      BY <2>1 DEF Same
    <2> QED
      BY <1>0, <2>1, <2>2, <2>4, <2>5, WithinDef
  <1>5. ASSUME NEW out \in Outcomes, FinishExecution(e, out)
        PROVE  Within(e)
    <2>1. /\ OneExec(e)
          /\ exec'[e].pc \in {"return"} \cup Rewriting
          /\ Same(e, {"agent", "kind"})
      BY <1>5, <1>0, FinishDoes DEF Same
    <2>2. /\ UNCHANGED <<started, tasks, loop, listener, request>>
          /\ exec[e].pc # "free"
      BY <1>5, <1>0 DEF FinishExecution, Only, Quiet, flags
    <2>3. exec[e].agent \in Agent
      BY <1>0, <2>2, Busy
    <2>4. StatusMoves(exec[e].agent)
      <3>1. \/ UNCHANGED status \/ status' = Write(exec[e].agent, "Error")
            \/ status' = Write(exec[e].agent, "Active")
        BY <1>5 DEF FinishExecution
      <3> QED
        BY <1>0, <2>3, <3>1, WriteMoves DEF StatusMoves
    <2>5. exec'[e].pc # "free" => Same(e, {"agent"})
      BY <2>1 DEF Same
    <2> QED
      BY <1>0, <2>1, <2>2, <2>4, <2>5, WithinDef
  <1>6. CASE Rewrite(e)
    <2>1. /\ OneExec(e)
          /\ exec'[e].pc = "return"
          /\ Same(e, {"agent", "kind", "owes", "aborted"})
      BY <1>6, <1>0, RewriteDoes
    <2>2. /\ UNCHANGED <<started, tasks, loop, listener, request>>
          /\ exec[e].pc # "free"
      BY <1>6, <1>0 DEF Rewrite, Rewriting, Quiet, flags
    <2>3. exec[e].agent \in Agent
      BY <1>0, <2>2, Busy
    <2>4. StatusMoves(exec[e].agent)
      <3>1. \/ UNCHANGED status \/ status' = Write(exec[e].agent, "Error")
            \/ status' = Write(exec[e].agent, "Active")
        BY <1>6, <1>0, RewriteDoes
      <3> QED
        BY <1>0, <2>3, <3>1, WriteMoves DEF StatusMoves
    <2>5. exec'[e].pc # "free" => Same(e, {"agent"})
      BY <2>1 DEF Same
    <2> QED
      BY <1>0, <2>1, <2>2, <2>4, <2>5, WithinDef
  <1>7. ASSUME NEW late \in Late, EndScheduled(e, late)
        PROVE  Within(e)
    <2>1. /\ OneExec(e)
          /\ exec'[e].pc \in {"free", "ended"}
          /\ exec'[e].owes = exec[e].owes \cup late
          /\ exec'[e].pc = "ended" <=> exec[e].owes \cup late # {}
          /\ exec'[e].pc = "ended" => Same(e, {"agent", "kind"})
      BY <1>7, <1>0, EndDoes, LateAssumption DEF EndScheduled
    <2>2. /\ UNCHANGED <<started, tasks, loop, listener, request>>
          /\ exec[e].pc # "free"
      BY <1>7, <1>0 DEF EndScheduled, Quiet, flags
    <2>3. exec[e].agent \in Agent
      BY <1>0, <2>2, Busy
    <2>4. StatusMoves(exec[e].agent)
      BY <1>7 DEF EndScheduled, StatusMoves
    <2>5. exec'[e].pc # "free" => Same(e, {"agent"})
      BY <2>1 DEF Same
    <2> QED
      BY <1>0, <2>1, <2>2, <2>4, <2>5, WithinDef
  <1>8. CASE RetryEvent(e)
    <2>1. /\ OneExec(e)
          /\ exec'[e].pc = "start"
          /\ Same(e, {"agent", "kind", "owes"})
      BY <1>8, <1>0, RetryDoes DEF Same
    <2>2. /\ UNCHANGED <<started, tasks, loop, listener, request>>
          /\ exec[e].pc # "free"
      BY <1>8, <1>0 DEF RetryEvent, Only, Quiet, flags
    <2>3. exec[e].agent \in Agent
      BY <1>0, <2>2, Busy
    <2>4. StatusMoves(exec[e].agent)
      BY <1>8 DEF RetryEvent, Only, StatusMoves
    <2>5. exec'[e].pc # "free" => Same(e, {"agent"})
      BY <2>1 DEF Same
    <2> QED
      BY <1>0, <2>1, <2>2, <2>4, <2>5, WithinDef
  <1>9. CASE EndEvent(e)
    <2>1. /\ OneExec(e)
          /\ exec'[e].pc \in {"free", "ended"}
          /\ exec'[e].owes = exec[e].owes \cup {}
          /\ exec'[e].pc = "ended" <=> exec[e].owes \cup {} # {}
          /\ exec'[e].pc = "ended" => Same(e, {"agent", "kind"})
      BY <1>9, <1>0, EndDoes DEF EndEvent
    <2>2. /\ UNCHANGED <<started, tasks, loop, listener, request>>
          /\ exec[e].pc # "free"
      BY <1>9, <1>0 DEF EndEvent, Quiet, flags
    <2>3. exec[e].agent \in Agent
      BY <1>0, <2>2, Busy
    <2>4. StatusMoves(exec[e].agent)
      BY <1>9 DEF EndEvent, StatusMoves
    <2>5. exec'[e].pc # "free" => Same(e, {"agent"})
      BY <2>1 DEF Same
    <2> QED
      BY <1>0, <2>1, <2>2, <2>4, <2>5, WithinDef
  <1>10. CASE ManualEnd(e)
    <2>1. /\ OneExec(e)
          /\ exec'[e].pc \in {"free", "ended"}
          /\ exec'[e].owes = exec[e].owes \cup {}
          /\ exec'[e].pc = "ended" <=> exec[e].owes \cup {} # {}
          /\ exec'[e].pc = "ended" => Same(e, {"agent", "kind"})
      BY <1>10, <1>0, EndDoes DEF ManualEnd
    <2>2. /\ UNCHANGED <<started, tasks, loop, listener, request>>
          /\ exec[e].pc # "free"
      BY <1>10, <1>0 DEF ManualEnd, Quiet, flags
    <2>3. exec[e].agent \in Agent
      BY <1>0, <2>2, Busy
    <2>4. StatusMoves(exec[e].agent)
      <3>1. \/ UNCHANGED status
            \/ \E s \in {"Error", "Active", "Completed"} :
                   /\ status' = Write(exec[e].agent, s)
                   /\ s = "Completed" => Schedule[exec[e].agent] = "manual"
        BY <1>10 DEF ManualEnd, Refused
      <3> QED
        BY <1>0, <2>3, <3>1, WriteMoves DEF StatusMoves
    <2>5. exec'[e].pc # "free" => Same(e, {"agent"})
      BY <2>1 DEF Same
    <2> QED
      BY <1>0, <2>1, <2>2, <2>4, <2>5, WithinDef
  <1>11. ASSUME NEW late \in Late, Unwind(e, late)
        PROVE  Within(e)
    <2>1. /\ OneExec(e) /\ exec'[e].pc \in {"free", "ended"}
          /\ exec'[e].pc = "ended" => Same(e, {"agent", "kind"})
      BY <1>11, <1>0, UnwindDoes
    <2>2. /\ UNCHANGED <<started, tasks, loop, listener, request>>
          /\ exec[e].pc # "free"
      BY <1>11, <1>0, UnwindDoes DEF Unwind, Quiet, flags
    <2>3. exec[e].agent \in Agent
      BY <1>0, <2>2, Busy
    <2>4. StatusMoves(exec[e].agent)
      BY <1>11 DEF Unwind, StatusMoves
    <2>5. exec'[e].pc # "free" => Same(e, {"agent"})
      BY <2>1 DEF Same
    <2> QED
      BY <1>0, <2>1, <2>2, <2>4, <2>5, WithinDef
  <1>12. ASSUME NEW d \in {"status", "slot", "handle"}, PayDebt(e, d)
        PROVE  Within(e)
    <2>1. /\ OneExec(e)
          /\ exec'[e].owes = exec[e].owes \ {d}
          /\ exec'[e].pc \in {exec[e].pc, "free"}
          /\ exec'[e].pc = "free" => exec[e].pc = "ended" /\ exec[e].owes = {d}
          /\ exec'[e].pc # "free" => Same(e, {"agent", "kind"})
      BY <1>12, <1>0, PayDoes DEF Same
    <2>2. /\ UNCHANGED <<started, tasks, loop, listener, request>>
          /\ exec[e].pc # "free"
      BY <1>12, <1>0, PayDoes DEF PayDebt, Quiet, flags
    <2>3. exec[e].agent \in Agent
      BY <1>0, <2>2, Busy
    <2>4. StatusMoves(exec[e].agent)
      <3>1. UNCHANGED status \/ status' = Write(exec[e].agent, "Active")
        BY <1>12 DEF PayDebt, Refused
      <3> QED
        BY <1>0, <2>3, <3>1, WriteMoves DEF StatusMoves
    <2>5. exec'[e].pc # "free" => Same(e, {"agent"})
      BY <2>1 DEF Same
    <2> QED
      BY <1>0, <2>1, <2>2, <2>4, <2>5, WithinDef
  <1> QED
    BY <1>1, <1>2, <1>3, <1>4, <1>5, <1>6, <1>7, <1>8, <1>9, <1>10, <1>11,
       <1>12 DEF Execution, Cleanup

\* No step of an execution takes up another agent.
LEMMA WithinUse ==
    ASSUME Types, NEW e \in Exec, Within(e)
    PROVE  /\ InUse(exec[e].agent)
           /\ \A a \in Agent : InUse(a)' => InUse(a)
           /\ \A a \in Agent : Requests(a)' = Requests(a)
  <1>1. Nobody \notin Agent
    BY AgentAssumption
  <1> QED
    BY <1>1 DEF Within, InUse, Execs, Requests, OneExec

-----------------------------------------------------------------------------
(* Requests *)

\* Two requests are more than one.
LEMMA TwoRequests ==
    ASSUME NEW R \in SUBSET Request, NEW p \in R, NEW q \in R, p # q
    PROVE  Cardinality(R) > 1
  <1>1. IsFiniteSet(R) /\ IsFiniteSet({p})
    BY AgentAssumption, FS_Subset, FS_Singleton
  <1>2. {p} \in SUBSET R /\ {p} # R
    OBVIOUS
  <1>3. /\ Cardinality({p}) <= Cardinality(R)
        /\ Cardinality({p}) # Cardinality(R)
    BY <1>1, <1>2, FS_Subset
  <1>4. Cardinality({p}) = 1 /\ Cardinality(R) \in Nat
    BY <1>1, FS_Singleton, FS_CardinalityType
  <1> QED
    BY <1>3, <1>4

\* A request that nothing has met is alone with its agent, before a step
\* and after it.
LEMMA Alone ==
    ASSUME ClashNoted, NEW q \in Request, NEW a \in Agent \ clash,
           request[q].agent = a
    PROVE  /\ started /\ ~InUse(a) /\ status[a] # "Executing"
           /\ \A p \in Request : request[p].agent = a => p = q
  <1>1. ~Contended(a) /\ q \in Requests(a)
    BY DEF ClashNoted, Requests
  <1>2. ~(Cardinality(Requests(a)) > 1) /\ started /\ ~InUse(a)
        /\ status[a] # "Executing"
    BY <1>1 DEF Contended
  <1>3. ASSUME NEW p \in Request, request[p].agent = a, p # q PROVE FALSE
    <2>1. Requests(a) \in SUBSET Request /\ p \in Requests(a)
      BY <1>3 DEF Requests
    <2> QED
      BY <1>1, <1>2, <1>3, <2>1, TwoRequests
  <1> QED
    BY <1>2, <1>3

\* The same after the step.
LEMMA AloneNext ==
    ASSUME TypeOK, NEW S \in SUBSET Agent, Noting(S), NEW q \in Request,
           NEW a \in Agent, a \notin clash',
           request'[q].agent = a
    PROVE  /\ started' /\ ~InUse(a)' /\ status'[a] # "Executing"
           /\ \A p \in Request : request'[p].agent = a => p = q
  <1>1. ~Contended(a)' /\ q \in Requests(a)'
    BY ClashGrows DEF Requests, TypeOK
  <1>2. ~(Cardinality(Requests(a)') > 1) /\ started' /\ ~InUse(a)'
        /\ status'[a] # "Executing"
    BY <1>1 DEF Contended
  <1>3. ASSUME NEW p \in Request, request'[p].agent = a, p # q PROVE FALSE
    <2>1. Requests(a)' \in SUBSET Request /\ p \in Requests(a)'
      BY <1>3 DEF Requests
    <2> QED
      BY <1>1, <1>2, <1>3, <2>1, TwoRequests
  <1> QED
    BY <1>2, <1>3

\* An update that read Executing has met an execution.
ReadsNoted ==
    \A q \in Request :
        request[q].op = "update" /\ request[q].snap = "Executing"
            => request[q].agent \in clash

\* ReadsNoted carries over when one request changes.
LEMMA OnlyRequest ==
    ASSUME ReadsNoted, clash \subseteq clash', NEW q \in Request, OneRequest(q),
           request'[q].op = "update" /\ request'[q].snap = "Executing"
               => request'[q].agent \in clash'
    PROVE  ReadsNoted'
  BY DEF ReadsNoted, OneRequest

\* An update that reads Executing is noted.
LEMMA ReadsStep ==
    Types /\ ReadsNoted /\ [Next]_vars => ReadsNoted'
  <1> SUFFICES ASSUME Types /\ ReadsNoted, [Next]_vars
               PROVE  ReadsNoted'
    OBVIOUS
  <1>0. Types /\ TypeOK /\ Shaped
    BY DEF Types
  <1>c. [Next]_vars => clash \subseteq clash'
    BY <1>0, ClashKept
  <1>1. CASE Tick /\ Noting({})
    <2>1. UNCHANGED request
      BY <1>1 DEF Tick, flags, sched, Only, Quiet
    <2> QED
      BY <1>c, <2>1 DEF ReadsNoted
  <1>2. CASE LoopCheck /\ Noting({})
    <2>1. UNCHANGED request
      BY <1>2 DEF LoopCheck, flags, sched, Only, Quiet
    <2> QED
      BY <1>c, <2>1 DEF ReadsNoted
  <1>3. CASE LoopReserve /\ Noting({})
    <2>1. UNCHANGED request
      BY <1>3 DEF LoopReserve, flags, sched, Only, Quiet
    <2> QED
      BY <1>c, <2>1 DEF ReadsNoted
  <1>4. ASSUME NEW a \in Agent, NEW e \in Exec, LoopSpawn(a, e), Noting({})
        PROVE  ReadsNoted'
    <2>1. UNCHANGED request
      BY <1>4 DEF LoopSpawn, flags, sched, Only, Quiet
    <2> QED
      BY <1>c, <2>1 DEF ReadsNoted
  <1>5. ASSUME NEW a \in Agent, EventArrives(a), Noting({})
        PROVE  ReadsNoted'
    <2>1. UNCHANGED request
      BY <1>5 DEF EventArrives, flags, sched, Only, Quiet
    <2> QED
      BY <1>c, <2>1 DEF ReadsNoted
  <1>6. ASSUME NEW e \in Exec, EventTrigger(e), Noting({})
        PROVE  ReadsNoted'
    <2>1. UNCHANGED request
      BY <1>6 DEF EventTrigger, flags, sched, Only, Quiet
    <2> QED
      BY <1>c, <2>1 DEF ReadsNoted
  <1>7. ASSUME NEW e \in Exec, Execution(e) \/ Cleanup(e), Noting({})
        PROVE  ReadsNoted'
    <2>1. UNCHANGED request
      BY <1>7, <1>0, WithinStep DEF Within
    <2> QED
      BY <1>c, <2>1 DEF ReadsNoted
  <1>8. ASSUME NEW a \in Agent, NEW e \in Exec, ManualStart(a, e), Noting({})
        PROVE  ReadsNoted'
    <2>1. UNCHANGED request
      BY <1>8 DEF ManualStart, flags, sched, Only, Quiet
    <2> QED
      BY <1>c, <2>1 DEF ReadsNoted
  <1>9. ASSUME NEW R \in SUBSET {b \in Stale : MayRefuse(b)}, ManagerStart(R),
               Noting(R)
        PROVE  ReadsNoted'
    <2>1. UNCHANGED request
      BY <1>9 DEF ManagerStart, flags, sched, Only, Quiet
    <2> QED
      BY <1>c, <2>1 DEF ReadsNoted
  <1>10. CASE StartupSweep /\ Noting({})
    <2>1. UNCHANGED request
      BY <1>10 DEF StartupSweep, flags, sched, Only, Quiet
    <2> QED
      BY <1>c, <2>1 DEF ReadsNoted
  <1>11. CASE StopFlag /\ Noting({})
    <2>1. UNCHANGED request
      BY <1>11 DEF StopFlag, flags, sched, Only, Quiet
    <2> QED
      BY <1>c, <2>1 DEF ReadsNoted
  <1>12. CASE StopDrain /\ Noting({})
    <2>1. UNCHANGED request
      BY <1>12 DEF StopDrain, flags, sched, Only, Quiet
    <2> QED
      BY <1>c, <2>1 DEF ReadsNoted
  <1>13. CASE AbortEvents /\ Noting({})
    <2>1. UNCHANGED request
      BY <1>13 DEF AbortEvents, flags, sched, Only, Quiet
    <2> QED
      BY <1>c, <2>1 DEF ReadsNoted
  <1>14. CASE Crash /\ Noting({})
    <2>1. \A q \in Request : request'[q] = NoRequest
      BY <1>14 DEF Crash
    <2> QED
      BY <2>1 DEF ReadsNoted, NoRequest
  <1>15. ASSUME NEW q \in Request, NEW a \in Agent, Create(q, a), Noting({})
        PROVE  ReadsNoted'
    <2>1. /\ OneRequest(q) /\ request'[q].op = "create"
          /\ request'[q].agent = a
          /\ request'[q].pc = "sync" /\ request'[q].snap = "Active"
          /\ request[q].pc = "free"
      BY <1>15, <1>0, BeginDoes DEF Create, TypeOK, Statuses
    <2> QED
      BY <1>c, <2>1, OnlyRequest
  <1>16. ASSUME NEW q \in Request, NEW a \in Agent,
                NEW s \in {"Active", "Paused", "Error"}, SetStatus(q, a, s),
                Noting({})
        PROVE  ReadsNoted'
    <2>1. /\ OneRequest(q) /\ request'[q].op = "status"
          /\ request'[q].agent = a
          /\ request'[q].pc = "sync" /\ request'[q].snap = s
          /\ request[q].pc = "free"
      BY <1>16, <1>0, BeginDoes DEF SetStatus, TypeOK, Statuses
    <2> QED
      BY <1>c, <2>1, OnlyRequest
  <1>17. ASSUME NEW q \in Request, NEW a \in Agent, NEW s \in Statuses,
                UpdateRead(q, a, s), Noting({})
        PROVE  ReadsNoted'
    <2>1. /\ OneRequest(q) /\ request'[q].op = "update"
          /\ request'[q].agent = a
          /\ request'[q].pc = "save" /\ request'[q].snap = s
          /\ request[q].pc = "free"
      BY <1>17, <1>0, BeginDoes DEF UpdateRead, TypeOK, Statuses
    <2>2. s = "Executing" => a \in clash'
      <3> SUFFICES ASSUME s = "Executing", a \notin clash' PROVE FALSE
        OBVIOUS
      <3>1. status'[a] # "Executing"
        BY <1>17, <1>0, <2>1, AloneNext
      <3> QED
        BY <1>17, <3>1 DEF UpdateRead
    <2> QED
      BY <1>c, <2>1, <2>2, OnlyRequest
  <1>18. ASSUME NEW q \in Request, UpdateSave(q), Noting({})
        PROVE  ReadsNoted'
    <2>1. /\ OneRequest(q) /\ request'[q].op = request[q].op
          /\ request'[q].agent = request[q].agent /\ request[q].pc # "free"
          /\ request'[q].pc = "sync" /\ request'[q].snap = request[q].snap
      BY <1>18, <1>0, MoveDoes DEF UpdateSave
    <2> QED
      BY <1>c, <2>1, OnlyRequest DEF ReadsNoted
  <1>19. ASSUME NEW q \in Request, SyncScheduler(q), Noting({})
        PROVE  ReadsNoted'
    <2>1. /\ OneRequest(q) /\ request'[q] = NoRequest /\ request[q].pc # "free"
      BY <1>19, <1>0, ReturnDoes DEF SyncScheduler
    <2> QED
      BY <1>c, <2>1, OnlyRequest DEF NoRequest
  <1>20. ASSUME NEW q \in Request, NEW a \in Agent, Delete(q, a), Noting({})
        PROVE  ReadsNoted'
    <2>1. /\ OneRequest(q) /\ request'[q].op = "delete"
          /\ request'[q].agent = a
          /\ request'[q].pc = "cache" /\ request'[q].snap = status[a]
          /\ request[q].pc = "free"
      BY <1>20, <1>0, BeginDoes DEF Delete, TypeOK, Statuses
    <2> QED
      BY <1>c, <2>1, OnlyRequest, SMTT(30)
  <1>21. ASSUME NEW q \in Request, DeleteCache(q), Noting({})
        PROVE  ReadsNoted'
    <2>1. /\ OneRequest(q) /\ request'[q].op = request[q].op
          /\ request'[q].agent = request[q].agent /\ request[q].pc # "free"
          /\ request'[q].pc = "store" /\ request'[q].snap = request[q].snap
      BY <1>21, <1>0, MoveDoes DEF DeleteCache
    <2> QED
      BY <1>c, <2>1, OnlyRequest DEF ReadsNoted
  <1>22. ASSUME NEW q \in Request, DeleteStore(q), Noting({})
        PROVE  ReadsNoted'
    <2>1. /\ OneRequest(q) /\ request'[q] = NoRequest /\ request[q].pc # "free"
      BY <1>22, <1>0, ReturnDoes DEF DeleteStore
    <2> QED
      BY <1>c, <2>1, OnlyRequest DEF NoRequest
  <1>23. ASSUME NEW q \in Request, Disconnect(q), Noting({request[q].agent})
        PROVE  ReadsNoted'
    <2>1. OneRequest(q) /\ request'[q] = NoRequest
      BY <1>23, <1>0, ReturnDoes DEF Disconnect
    <2> QED
      BY <1>c, <2>1, OnlyRequest DEF NoRequest
  <1>24. CASE UNCHANGED vars
    <2>1. UNCHANGED request
      BY <1>24 DEF vars
    <2> QED
      BY <1>c, <2>1 DEF ReadsNoted
  <1> QED
    BY <1>1, <1>2, <1>3, <1>4, <1>5, <1>6, <1>7, <1>8, <1>9, <1>10, <1>11,
       <1>12, <1>13, <1>14, <1>15, <1>16, <1>17, <1>18, <1>19, <1>20, <1>21,
       <1>22, <1>23, <1>24
       DEF Next, Environment, Scheduling, Handling

\* Whatever meets is noted.
LEMMA ClashStep ==
    Types /\ ClashNoted /\ [Next]_vars => ClashNoted'
  <1> SUFFICES ASSUME Types, ClashNoted, [Next]_vars
               PROVE  ClashNoted'
    OBVIOUS
  <1>1. ReadsNoted'
    BY ReadsStep DEF ClashNoted, ReadsNoted
  <1>2. \A a \in Agent : Contended(a)' => a \in clash'
    <2>1. CASE Next
      BY <2>1 DEF Next, Noting
    <2>2. CASE UNCHANGED vars
      <3>1. UNCHANGED <<request, exec, listener, loop, started, status,
                      clash>>
        BY <2>2 DEF vars, flags, sched, history
      <3>2. \A a \in Agent : Contended(a)' = Contended(a)
        BY <3>1 DEF Contended, Requests, InUse, Execs
      <3> QED
        BY <3>1, <3>2 DEF ClashNoted
    <2> QED
      BY <2>1, <2>2
  <1> QED
    BY <1>1, <1>2 DEF ClashNoted, ReadsNoted

\* What the scheduler is told is about one agent.
LEMMA SyncDef ==
    ASSUME NEW op, NEW a, NEW s
    PROVE  \A b : b # a =>
               /\ b \in DOMAIN Sync(op, a, s) <=> b \in DOMAIN tasks
               /\ b \in DOMAIN tasks => Sync(op, a, s)[b] = tasks[b]
  <1>1. \/ Sync(op, a, s) = tasks \/ Sync(op, a, s) = Drop(tasks, {a})
        \/ \E u : Sync(op, a, s) = Put(tasks, a, u)
    BY DEF Sync
  <1> QED
    BY <1>1 DEF Put, Drop

\* While a request waits, nobody else writes the row of its agent, except for
\* the start-up sweep, and nobody gives it a task.
Undisturbed(a) ==
    /\ status'[a] = status[a] \/ status[a] = "Executing"
    /\ a \in DOMAIN tasks' => a \in DOMAIN tasks

\* A request that nothing has met finds its agent as it left it.
LEMMA RequestWaits ==
    ASSUME Types, ClashNoted, [Next]_vars, NEW p \in Request, NEW a \in Agent,
           request[p].agent = a, request[p].pc # "free",
           request'[p] = request[p], a \notin clash'
    PROVE  Undisturbed(a)
  <1>0. Types /\ TypeOK /\ Shaped
    BY DEF Types
  <1>c. [Next]_vars => clash \subseteq clash'
    BY <1>0, ClashKept
  <1>d. a \notin clash
    BY <1>c
  <1>e. /\ started /\ ~InUse(a)
        /\ \A x \in Request : request[x].agent = a => x = p
    BY <1>d, Alone
  <1>1. CASE Tick /\ Noting({})
    BY <1>1 DEF Tick, flags, sched, Only, Quiet, Undisturbed
  <1>2. CASE LoopCheck /\ Noting({})
    BY <1>2 DEF LoopCheck, flags, sched, Only, Quiet, Undisturbed
  <1>3. CASE LoopReserve /\ Noting({})
    BY <1>3, <1>0, ReservedTyped DEF LoopReserve, Undisturbed
  <1>4. ASSUME NEW b \in Agent, NEW e \in Exec, LoopSpawn(b, e), Noting({})
        PROVE  Undisturbed(a)
    BY <1>4 DEF LoopSpawn, flags, sched, Only, Quiet, Undisturbed
  <1>5. ASSUME NEW b \in Agent, EventArrives(b), Noting({})
        PROVE  Undisturbed(a)
    BY <1>5 DEF EventArrives, flags, sched, Only, Quiet, Undisturbed
  <1>6. ASSUME NEW e \in Exec, EventTrigger(e), Noting({})
        PROVE  Undisturbed(a)
    BY <1>6 DEF EventTrigger, flags, sched, Only, Quiet, Undisturbed
  <1>7. ASSUME NEW e \in Exec, Execution(e) \/ Cleanup(e), Noting({})
        PROVE  Undisturbed(a)
    <2>1. Within(e)
      BY <1>7, <1>0, WithinStep
    <2>2. exec[e].agent # a
      BY <1>0, <1>e, <2>1, WithinUse
    <2> QED
      BY <2>1, <2>2 DEF Within, StatusMoves, Undisturbed
  <1>8. ASSUME NEW b \in Agent, NEW e \in Exec, ManualStart(b, e), Noting({})
        PROVE  Undisturbed(a)
    <2>1. UNCHANGED tasks
      BY <1>8 DEF ManualStart, sched
    <2>2. CASE UNCHANGED status
      BY <2>1, <2>2 DEF Undisturbed
    <2>3. CASE exec'[e].agent = b /\ status' = Write(b, "Executing")
      <3>1. started' /\ ~InUse(a)'
        BY <1>8, <1>0, AloneNext
      <3>2. a # b
        BY <2>3, <3>1 DEF InUse, Execs
      <3> QED
        BY <1>0, <2>1, <2>3, <3>2 DEF Write, TypeOK, Undisturbed
    <2> QED
      BY <1>8, <1>0, <2>2, <2>3, ManualDoes
  <1>9. ASSUME NEW R \in SUBSET {b \in Stale : MayRefuse(b)}, ManagerStart(R),
               Noting(R)
        PROVE  Undisturbed(a)
    BY <1>9, <1>e DEF ManagerStart
  <1>10. CASE StartupSweep /\ Noting({})
    BY <1>10, <1>0 DEF StartupSweep, TypeOK, sched, Undisturbed
  <1>11. CASE StopFlag /\ Noting({})
    BY <1>11 DEF StopFlag, flags, sched, Only, Quiet, Undisturbed
  <1>12. CASE StopDrain /\ Noting({})
    BY <1>12 DEF StopDrain, flags, sched, Only, Quiet, Undisturbed
  <1>13. CASE AbortEvents /\ Noting({})
    BY <1>13 DEF AbortEvents, flags, sched, Only, Quiet, Undisturbed
  <1>14. CASE Crash /\ Noting({})
    <2>1. request'[p] = NoRequest
      BY <1>14 DEF Crash
    <2> QED
      BY <2>1 DEF NoRequest
  <1>15. ASSUME NEW q \in Request, NEW b \in Agent, Create(q, b), Noting({})
        PROVE  Undisturbed(a)
    <2>1. /\ OneRequest(q) /\ request'[q].op = "create"
          /\ request'[q].agent = b
          /\ request'[q].pc = "sync" /\ request'[q].snap = "Active"
          /\ request[q].pc = "free"
      BY <1>15, <1>0, BeginDoes DEF Create, TypeOK, Statuses
    <2>2. p # q
      BY <2>1
    <2>3. a # b
      BY <1>15, <1>0, <2>1, <2>2, AloneNext
    <2>4. status' = [status EXCEPT ![b] = "Active"] /\ UNCHANGED tasks
      BY <1>15 DEF Create, Handler
    <2> QED
      BY <1>0, <2>3, <2>4 DEF TypeOK, Undisturbed
  <1>16. ASSUME NEW q \in Request, NEW b \in Agent,
                NEW s \in {"Active", "Paused", "Error"}, SetStatus(q, b, s),
                Noting({})
        PROVE  Undisturbed(a)
    <2>1. /\ OneRequest(q) /\ request'[q].op = "status"
          /\ request'[q].agent = b
          /\ request'[q].pc = "sync" /\ request'[q].snap = s
          /\ request[q].pc = "free"
      BY <1>16, <1>0, BeginDoes DEF SetStatus, TypeOK, Statuses
    <2>2. p # q
      BY <2>1
    <2>3. a # b
      BY <1>16, <1>0, <2>1, <2>2, AloneNext
    <2>4. status' = Write(b, s) /\ UNCHANGED tasks
      BY <1>16 DEF SetStatus, Handler
    <2> QED
      BY <1>0, <2>3, <2>4 DEF Write, TypeOK, Undisturbed
  <1>17. ASSUME NEW q \in Request, NEW b \in Agent, NEW s \in Statuses,
                UpdateRead(q, b, s), Noting({})
        PROVE  Undisturbed(a)
    BY <1>17 DEF UpdateRead, Handler, flags, sched, Only, Quiet, Undisturbed
  <1>18. ASSUME NEW q \in Request, UpdateSave(q), Noting({})
        PROVE  Undisturbed(a)
    <2>1. /\ OneRequest(q) /\ request'[q].op = request[q].op
          /\ request'[q].agent = request[q].agent /\ request[q].pc # "free"
          /\ request'[q].pc = "sync" /\ request'[q].snap = request[q].snap
      BY <1>18, <1>0, MoveDoes DEF UpdateSave
    <2>2. p # q
      BY <1>18, <2>1 DEF UpdateSave
    <2>3. request[q].agent # a
      BY <1>e, <2>2
    <2>4. status' = [status EXCEPT ![request[q].agent] = request[q].snap]
          /\ UNCHANGED tasks
      BY <1>18 DEF UpdateSave, Handler
    <2> QED
      BY <1>0, <2>3, <2>4 DEF TypeOK, Undisturbed
  <1>19. ASSUME NEW q \in Request, SyncScheduler(q), Noting({})
        PROVE  Undisturbed(a)
    <2>1. /\ OneRequest(q) /\ request'[q] = NoRequest /\ request[q].pc # "free"
      BY <1>19, <1>0, ReturnDoes DEF SyncScheduler
    <2>2. p # q
      BY <2>1 DEF NoRequest
    <2>3. request[q].agent # a
      BY <1>e, <2>2
    <2>4. tasks' = Sync(request[q].op, request[q].agent, request[q].snap)
          /\ UNCHANGED status
      BY <1>19 DEF SyncScheduler, Handler
    <2> QED
      BY <1>0, <2>3, <2>4, SyncDef DEF Undisturbed
  <1>20. ASSUME NEW q \in Request, NEW b \in Agent, Delete(q, b), Noting({})
        PROVE  Undisturbed(a)
    <2>1. /\ OneRequest(q) /\ request'[q].op = "delete"
          /\ request'[q].agent = b
          /\ request'[q].pc = "cache" /\ request'[q].snap = status[b]
          /\ request[q].pc = "free"
      BY <1>20, <1>0, BeginDoes, SMTT(30) DEF Delete, TypeOK, Statuses
    <2>2. p # q
      BY <2>1
    <2>3. a # b
      BY <1>20, <1>0, <2>1, <2>2, AloneNext
    <2>4. tasks' = Drop(tasks, {b}) /\ UNCHANGED status
      BY <1>20 DEF Delete, Handler
    <2> QED
      BY <1>0, <2>3, <2>4, SMTT(30) DEF Drop, Undisturbed
  <1>21. ASSUME NEW q \in Request, DeleteCache(q), Noting({})
        PROVE  Undisturbed(a)
    BY <1>21 DEF DeleteCache, Handler, flags, sched, Only, Quiet, Undisturbed
  <1>22. ASSUME NEW q \in Request, DeleteStore(q), Noting({})
        PROVE  Undisturbed(a)
    <2>1. /\ OneRequest(q) /\ request'[q] = NoRequest /\ request[q].pc # "free"
      BY <1>22, <1>0, ReturnDoes DEF DeleteStore
    <2>2. p # q
      BY <2>1 DEF NoRequest
    <2>3. request[q].agent # a
      BY <1>e, <2>2
    <2>4. status' = [status EXCEPT ![request[q].agent] = "Absent"]
          /\ UNCHANGED tasks
      BY <1>22 DEF DeleteStore, Handler
    <2> QED
      BY <1>0, <2>3, <2>4 DEF TypeOK, Undisturbed
  <1>23. ASSUME NEW q \in Request, Disconnect(q), Noting({request[q].agent})
        PROVE  Undisturbed(a)
    <2>1. request'[q] = NoRequest
      BY <1>23, <1>0, ReturnDoes DEF Disconnect
    <2>2. p # q
      BY <2>1 DEF NoRequest
    <2>3. request[q].agent # a
      BY <1>e, <2>2
    <2>4. /\ UNCHANGED status
          /\ tasks' = tasks \/ tasks' = Drop(tasks, {request[q].agent})
      BY <1>23 DEF Disconnect, Handler
    <2> QED
      BY <2>3, <2>4 DEF Drop, Undisturbed
  <1>24. CASE UNCHANGED vars
    BY <1>24 DEF vars, sched, Undisturbed
  <1> QED
    BY <1>1, <1>2, <1>3, <1>4, <1>5, <1>6, <1>7, <1>8, <1>9, <1>10, <1>11,
       <1>12, <1>13, <1>14, <1>15, <1>16, <1>17, <1>18, <1>19, <1>20, <1>21,
       <1>22, <1>23, <1>24
       DEF Next, Environment, Scheduling, Handling

\* A request that has not moved and whose agent is undisturbed.
LEMMA RequestKept ==
    ASSUME NEW p \in Request, RequestOK(p), ReadsNoted,
           clash \subseteq clash', request'[p] = request[p],
           request[p].pc # "free" /\ request[p].agent \notin clash' =>
               Undisturbed(request[p].agent)
    PROVE  RequestOK(p)'
  BY DEF RequestOK, ReadsNoted, Undisturbed

\* A request keeps its word while it is under way.
LEMMA RequestStep ==
    Types /\ ClashNoted /\ TaskInv /\ RequestInv /\ [Next]_vars => RequestInv'
  <1> SUFFICES ASSUME Types, ClashNoted, TaskInv, RequestInv, [Next]_vars,
                      NEW p \in Request
               PROVE  RequestOK(p)'
    BY DEF RequestInv
  <1>0. Types /\ TypeOK /\ Shaped
    BY DEF Types
  <1>c. [Next]_vars => clash \subseteq clash'
    BY <1>0, ClashKept
  <1>d. CASE request'[p] = request[p]
    <2>1. RequestOK(p) /\ ReadsNoted
      BY DEF RequestInv, ClashNoted, ReadsNoted
    <2>2. request[p].pc # "free" => request[p].agent \in Agent
      BY <1>0 DEF Shaped, GoodRequest
    <2>3. request[p].pc # "free" /\ request[p].agent \notin clash' =>
              Undisturbed(request[p].agent)
      BY <1>0, <1>d, <2>2, RequestWaits
    <2> QED
      BY <1>c, <1>d, <2>1, <2>3, RequestKept
  <1>e. CASE request'[p] # request[p]
    <2>1. CASE Tick /\ Noting({})
      BY <2>1, <1>e DEF Tick, flags, sched, Only, Quiet
    <2>2. CASE LoopCheck /\ Noting({})
      BY <2>2, <1>e DEF LoopCheck, flags, sched, Only, Quiet
    <2>3. CASE LoopReserve /\ Noting({})
      BY <2>3, <1>e DEF LoopReserve, flags, sched, Only, Quiet
    <2>4. ASSUME NEW a \in Agent, NEW e \in Exec, LoopSpawn(a, e), Noting({})
          PROVE  RequestOK(p)'
      BY <2>4, <1>e DEF LoopSpawn, flags, sched, Only, Quiet
    <2>5. ASSUME NEW a \in Agent, EventArrives(a), Noting({})
          PROVE  RequestOK(p)'
      BY <2>5, <1>e DEF EventArrives, flags, sched, Only, Quiet
    <2>6. ASSUME NEW e \in Exec, EventTrigger(e), Noting({})
          PROVE  RequestOK(p)'
      BY <2>6, <1>e DEF EventTrigger, flags, sched, Only, Quiet
    <2>7. ASSUME NEW e \in Exec, Execution(e) \/ Cleanup(e), Noting({})
          PROVE  RequestOK(p)'
      <3>1. UNCHANGED request
        BY <2>7, <1>0, WithinStep DEF Within
      <3> QED
        BY <1>e, <3>1
    <2>8. ASSUME NEW a \in Agent, NEW e \in Exec, ManualStart(a, e), Noting({})
          PROVE  RequestOK(p)'
      BY <2>8, <1>e DEF ManualStart, flags, sched, Only, Quiet
    <2>9. ASSUME NEW R \in SUBSET {b \in Stale : MayRefuse(b)}, ManagerStart(R),
                 Noting(R)
          PROVE  RequestOK(p)'
      BY <2>9, <1>e DEF ManagerStart, flags, sched, Only, Quiet
    <2>10. CASE StartupSweep /\ Noting({})
      BY <2>10, <1>e DEF StartupSweep, flags, sched, Only, Quiet
    <2>11. CASE StopFlag /\ Noting({})
      BY <2>11, <1>e DEF StopFlag, flags, sched, Only, Quiet
    <2>12. CASE StopDrain /\ Noting({})
      BY <2>12, <1>e DEF StopDrain, flags, sched, Only, Quiet
    <2>13. CASE AbortEvents /\ Noting({})
      BY <2>13, <1>e DEF AbortEvents, flags, sched, Only, Quiet
    <2>14. CASE Crash /\ Noting({})
      <3>1. request'[p] = NoRequest
        BY <2>14 DEF Crash
      <3> QED
        BY <3>1 DEF RequestOK, NoRequest
    <2>15. ASSUME NEW q \in Request, NEW a \in Agent, Create(q, a), Noting({})
          PROVE  RequestOK(p)'
      <3>1. /\ OneRequest(q) /\ request'[q].op = "create"
            /\ request'[q].agent = a
            /\ request'[q].pc = "sync" /\ request'[q].snap = "Active"
            /\ request[q].pc = "free"
        BY <2>15, <1>0, BeginDoes DEF Create, TypeOK, Statuses
      <3>2. p = q
        BY <1>e, <3>1 DEF OneRequest
      <3>3. status'[a] = "Active"
        BY <2>15, <1>0 DEF Create, TypeOK
      <3> QED
        BY <3>1, <3>2, <3>3, SMTT(30) DEF RequestOK
    <2>16. ASSUME NEW q \in Request, NEW a \in Agent,
                  NEW s \in {"Active", "Paused", "Error"}, SetStatus(q, a, s),
                  Noting({})
          PROVE  RequestOK(p)'
      <3>1. /\ OneRequest(q) /\ request'[q].op = "status"
            /\ request'[q].agent = a
            /\ request'[q].pc = "sync" /\ request'[q].snap = s
            /\ request[q].pc = "free"
        BY <2>16, <1>0, BeginDoes DEF SetStatus, TypeOK, Statuses
      <3>2. p = q
        BY <1>e, <3>1 DEF OneRequest
      <3>3. /\ status'[a] = IF status[a] = "Absent" THEN "Absent" ELSE s
            /\ UNCHANGED tasks
        <4>1. s \in Statuses /\ status' = Write(a, s) /\ UNCHANGED tasks
          BY <2>16 DEF SetStatus, Handler, Statuses
        <4> QED
          BY <1>0, <4>1, WriteDef DEF TypeOK
      <3>4. a \notin clash' /\ status[a] = "Absent" => a \notin DOMAIN tasks
        <4> SUFFICES ASSUME a \notin clash', status[a] = "Absent"
                     PROVE  a \notin DOMAIN tasks
          OBVIOUS
        <4>1. \A x \in Request : request'[x].agent = a => x = q
          BY <2>16, <1>0, <3>1, AloneNext
        <4>2. request[q].agent # a
          BY <1>0, <3>1, AgentAssumption DEF Shaped, GoodRequest, NoRequest
        <4>3. Requests(a) = {}
          BY <3>1, <4>1, <4>2 DEF OneRequest, Requests
        <4> QED
          BY <2>16, <1>c, <4>3 DEF TaskInv, TaskOK
      <3> QED
        BY <3>1, <3>2, <3>3, <3>4, SMTT(30) DEF RequestOK
    <2>17. ASSUME NEW q \in Request, NEW a \in Agent, NEW s \in Statuses,
                  UpdateRead(q, a, s), Noting({})
          PROVE  RequestOK(p)'
      <3>1. /\ OneRequest(q) /\ request'[q].op = "update"
            /\ request'[q].agent = a
            /\ request'[q].pc = "save" /\ request'[q].snap = s
            /\ request[q].pc = "free"
        BY <2>17, <1>0, BeginDoes DEF UpdateRead, TypeOK, Statuses
      <3>2. p = q
        BY <1>e, <3>1 DEF OneRequest
      <3>3. s # "Absent"
        BY <2>17 DEF UpdateRead
      <3> QED
        BY <3>1, <3>2, <3>3, SMTT(30) DEF RequestOK
    <2>18. ASSUME NEW q \in Request, UpdateSave(q), Noting({})
          PROVE  RequestOK(p)'
      <3>1. /\ OneRequest(q) /\ request'[q].op = request[q].op
            /\ request'[q].agent = request[q].agent /\ request[q].pc # "free"
            /\ request'[q].pc = "sync" /\ request'[q].snap = request[q].snap
        BY <2>18, <1>0, MoveDoes DEF UpdateSave
      <3>2. p = q
        BY <1>e, <3>1 DEF OneRequest
      <3>3. /\ request[q].op = "update" /\ request[q].agent \in Agent
            /\ status' = [status EXCEPT ![request[q].agent] = request[q].snap]
        BY <2>18, <1>0, <3>1 DEF UpdateSave, Shaped, GoodRequest
      <3>4. status'[request[q].agent] = request[q].snap
        BY <1>0, <3>3 DEF TypeOK
      <3>5. request[q].agent \notin clash' => request[q].snap # "Absent"
        BY <2>18, <1>c, <3>1, <3>3 DEF RequestInv, RequestOK
      <3> QED
        BY <3>1, <3>2, <3>3, <3>4, <3>5 DEF RequestOK
    <2>19. ASSUME NEW q \in Request, SyncScheduler(q), Noting({})
          PROVE  RequestOK(p)'
      <3>1. /\ OneRequest(q) /\ request'[q] = NoRequest
            /\ request[q].pc # "free"
        BY <2>19, <1>0, ReturnDoes DEF SyncScheduler
      <3>2. p = q
        BY <1>e, <3>1 DEF OneRequest
      <3> QED
        BY <3>1, <3>2 DEF RequestOK, NoRequest
    <2>20. ASSUME NEW q \in Request, NEW a \in Agent, Delete(q, a), Noting({})
          PROVE  RequestOK(p)'
      <3>1. /\ OneRequest(q) /\ request'[q].op = "delete"
            /\ request'[q].agent = a
            /\ request'[q].pc = "cache" /\ request'[q].snap = status[a]
            /\ request[q].pc = "free"
        BY <2>20, <1>0, BeginDoes DEF Delete, TypeOK, Statuses
      <3>2. p = q
        BY <1>e, <3>1 DEF OneRequest
      <3>3. a \notin DOMAIN tasks'
        BY <2>20 DEF Delete, Drop
      <3> QED
        BY <3>1, <3>2, <3>3, SMTT(30) DEF RequestOK
    <2>21. ASSUME NEW q \in Request, DeleteCache(q), Noting({})
          PROVE  RequestOK(p)'
      <3>1. /\ OneRequest(q) /\ request'[q].op = request[q].op
            /\ request'[q].agent = request[q].agent /\ request[q].pc # "free"
            /\ request'[q].pc = "store" /\ request'[q].snap = request[q].snap
        BY <2>21, <1>0, MoveDoes DEF DeleteCache
      <3>2. p = q
        BY <1>e, <3>1 DEF OneRequest
      <3>3. request[q].op = "delete" /\ UNCHANGED tasks
        BY <2>21 DEF DeleteCache, Handler
      <3>4. request[q].agent \notin clash' => request[q].agent \notin DOMAIN tasks
        BY <2>21, <1>c, <3>1, <3>3 DEF RequestInv, RequestOK
      <3> QED
        BY <3>1, <3>2, <3>3, <3>4 DEF RequestOK
    <2>22. ASSUME NEW q \in Request, DeleteStore(q), Noting({})
          PROVE  RequestOK(p)'
      <3>1. /\ OneRequest(q) /\ request'[q] = NoRequest
            /\ request[q].pc # "free"
        BY <2>22, <1>0, ReturnDoes DEF DeleteStore
      <3>2. p = q
        BY <1>e, <3>1 DEF OneRequest
      <3> QED
        BY <3>1, <3>2 DEF RequestOK, NoRequest
    <2>23. ASSUME NEW q \in Request, Disconnect(q), Noting({request[q].agent})
          PROVE  RequestOK(p)'
      <3>1. OneRequest(q) /\ request'[q] = NoRequest
        BY <2>23, <1>0, ReturnDoes DEF Disconnect
      <3>2. p = q
        BY <1>e, <3>1 DEF OneRequest
      <3> QED
        BY <3>1, <3>2 DEF RequestOK, NoRequest
    <2>24. CASE UNCHANGED vars
      BY <2>24, <1>e DEF vars
    <2> QED
      BY <2>1, <2>2, <2>3, <2>4, <2>5, <2>6, <2>7, <2>8, <2>9, <2>10, <2>11,
         <2>12, <2>13, <2>14, <2>15, <2>16, <2>17, <2>18, <2>19, <2>20, <2>21,
         <2>22, <2>23, <2>24
         DEF Next, Environment, Scheduling, Handling
  <1> QED
    BY <1>d, <1>e

-----------------------------------------------------------------------------
(* Store and scheduler *)

\* CompletedByHand carries over when the rows do and one request changes.
LEMMA CompletedKept ==
    ASSUME CompletedByHand,
           \A a \in Agent : status'[a] = "Completed" =>
               status[a] = "Completed" \/ Schedule[a] = "manual",
           \A q \in Request : request'[q] = request[q] \/
               (request'[q].snap = "Completed" /\ request'[q].pc # "free"
                    => Schedule[request'[q].agent] = "manual")
    PROVE  CompletedByHand'
  BY DEF CompletedByHand

\* Only an agent that is run by hand becomes Completed.
LEMMA CompletedStep ==
    Types /\ CompletedByHand /\ [Next]_vars => CompletedByHand'
  <1> SUFFICES ASSUME Types /\ CompletedByHand, [Next]_vars
               PROVE  CompletedByHand'
    OBVIOUS
  <1>0. Types /\ TypeOK /\ Shaped
    BY DEF Types
  <1>1. CASE Tick /\ Noting({})
    <2>1. UNCHANGED <<status, request>>
      BY <1>1 DEF Tick, flags, sched, Only, Quiet
    <2> QED
      BY <2>1, CompletedKept
  <1>2. CASE LoopCheck /\ Noting({})
    <2>1. UNCHANGED <<status, request>>
      BY <1>2 DEF LoopCheck, flags, sched, Only, Quiet
    <2> QED
      BY <2>1, CompletedKept
  <1>3. CASE LoopReserve /\ Noting({})
    <2>1. UNCHANGED <<status, request>>
      BY <1>3 DEF LoopReserve, flags, sched, Only, Quiet
    <2> QED
      BY <2>1, CompletedKept
  <1>4. ASSUME NEW a \in Agent, NEW e \in Exec, LoopSpawn(a, e), Noting({})
        PROVE  CompletedByHand'
    <2>1. UNCHANGED <<status, request>>
      BY <1>4 DEF LoopSpawn, flags, sched, Only, Quiet
    <2> QED
      BY <2>1, CompletedKept
  <1>5. ASSUME NEW a \in Agent, EventArrives(a), Noting({})
        PROVE  CompletedByHand'
    <2>1. UNCHANGED <<status, request>>
      BY <1>5 DEF EventArrives, flags, sched, Only, Quiet
    <2> QED
      BY <2>1, CompletedKept
  <1>6. ASSUME NEW e \in Exec, EventTrigger(e), Noting({})
        PROVE  CompletedByHand'
    <2>1. UNCHANGED <<status, request>>
      BY <1>6 DEF EventTrigger, flags, sched, Only, Quiet
    <2> QED
      BY <2>1, CompletedKept
  <1>7. ASSUME NEW e \in Exec, Execution(e) \/ Cleanup(e), Noting({})
        PROVE  CompletedByHand'
    <2>1. Within(e)
      BY <1>7, <1>0, WithinStep
    <2> QED
      BY <2>1, CompletedKept DEF Within, StatusMoves
  <1>8. ASSUME NEW a \in Agent, NEW e \in Exec, ManualStart(a, e), Noting({})
        PROVE  CompletedByHand'
    <2>1. UNCHANGED request
      BY <1>8 DEF ManualStart
    <2>2. \A b \in Agent : status'[b] = "Completed" => status[b] = "Completed"
      BY <1>8, <1>0 DEF ManualStart, Write, TypeOK
    <2> QED
      BY <2>1, <2>2, CompletedKept
  <1>9. ASSUME NEW R \in SUBSET {b \in Stale : MayRefuse(b)}, ManagerStart(R),
               Noting(R)
        PROVE  CompletedByHand'
    <2>1. UNCHANGED request
      BY <1>9 DEF ManagerStart
    <2>2. \A b \in Agent : status'[b] = "Completed" => status[b] = "Completed"
      BY <1>9 DEF ManagerStart, Stale
    <2> QED
      BY <2>1, <2>2, CompletedKept
  <1>10. CASE StartupSweep /\ Noting({})
    <2>1. UNCHANGED request
      BY <1>10 DEF StartupSweep
    <2>2. \A b \in Agent : status'[b] = "Completed" => status[b] = "Completed"
      BY <1>10 DEF StartupSweep
    <2> QED
      BY <2>1, <2>2, CompletedKept
  <1>11. CASE StopFlag /\ Noting({})
    <2>1. UNCHANGED <<status, request>>
      BY <1>11 DEF StopFlag, flags, sched, Only, Quiet
    <2> QED
      BY <2>1, CompletedKept
  <1>12. CASE StopDrain /\ Noting({})
    <2>1. UNCHANGED <<status, request>>
      BY <1>12 DEF StopDrain, flags, sched, Only, Quiet
    <2> QED
      BY <2>1, CompletedKept
  <1>13. CASE AbortEvents /\ Noting({})
    <2>1. UNCHANGED <<status, request>>
      BY <1>13 DEF AbortEvents, flags, sched, Only, Quiet
    <2> QED
      BY <2>1, CompletedKept
  <1>14. CASE Crash /\ Noting({})
    <2>1. \A q \in Request : request'[q] = NoRequest
      BY <1>14 DEF Crash
    <2>2. UNCHANGED status
      BY <1>14 DEF Crash
    <2> QED
      BY <2>1, <2>2, CompletedKept DEF NoRequest
  <1>15. ASSUME NEW q \in Request, NEW a \in Agent, Create(q, a), Noting({})
        PROVE  CompletedByHand'
    <2>1. /\ OneRequest(q) /\ request'[q].op = "create"
          /\ request'[q].agent = a
          /\ request'[q].pc = "sync" /\ request'[q].snap = "Active"
          /\ request[q].pc = "free"
      BY <1>15, <1>0, BeginDoes DEF Create, TypeOK, Statuses
    <2>2. \A b \in Agent : status'[b] = "Completed" =>
              status[b] = "Completed" \/ Schedule[b] = "manual"
      BY <1>15, <1>0 DEF Create, TypeOK
    <2> QED
      BY <2>1, <2>2, CompletedKept, SMTT(30) DEF OneRequest
  <1>16. ASSUME NEW q \in Request, NEW a \in Agent,
                NEW s \in {"Active", "Paused", "Error"}, SetStatus(q, a, s),
                Noting({})
        PROVE  CompletedByHand'
    <2>1. /\ OneRequest(q) /\ request'[q].op = "status"
          /\ request'[q].agent = a
          /\ request'[q].pc = "sync" /\ request'[q].snap = s
          /\ request[q].pc = "free"
      BY <1>16, <1>0, BeginDoes DEF SetStatus, TypeOK, Statuses
    <2>2. \A b \in Agent : status'[b] = "Completed" =>
              status[b] = "Completed" \/ Schedule[b] = "manual"
      BY <1>16, <1>0 DEF SetStatus, Write, TypeOK
    <2> QED
      BY <2>1, <2>2, CompletedKept DEF OneRequest
  <1>17. ASSUME NEW q \in Request, NEW a \in Agent, NEW s \in Statuses,
                UpdateRead(q, a, s), Noting({})
        PROVE  CompletedByHand'
    <2>1. /\ OneRequest(q) /\ request'[q].op = "update"
          /\ request'[q].agent = a
          /\ request'[q].pc = "save" /\ request'[q].snap = s
          /\ request[q].pc = "free"
      BY <1>17, <1>0, BeginDoes DEF UpdateRead, TypeOK, Statuses
    <2>2. \A b \in Agent : status'[b] = "Completed" =>
              status[b] = "Completed" \/ Schedule[b] = "manual"
      BY <1>17 DEF UpdateRead
    <2>3. s = "Completed" => Schedule[a] = "manual"
      BY <1>17 DEF UpdateRead, CompletedByHand
    <2> QED
      BY <2>1, <2>2, <2>3, CompletedKept DEF OneRequest
  <1>18. ASSUME NEW q \in Request, UpdateSave(q), Noting({})
        PROVE  CompletedByHand'
    <2>1. /\ OneRequest(q) /\ request'[q].op = request[q].op
          /\ request'[q].agent = request[q].agent /\ request[q].pc # "free"
          /\ request'[q].pc = "sync" /\ request'[q].snap = request[q].snap
      BY <1>18, <1>0, MoveDoes DEF UpdateSave
    <2>2. \A b \in Agent : status'[b] = "Completed" =>
              status[b] = "Completed" \/ Schedule[b] = "manual"
      <3>1. /\ request[q].agent \in Agent
            /\ status' = [status EXCEPT ![request[q].agent] = request[q].snap]
        BY <1>18, <1>0, <2>1 DEF UpdateSave, Shaped, GoodRequest
      <3> QED
        BY <1>0, <2>1, <3>1 DEF CompletedByHand, TypeOK
    <2> QED
      BY <2>1, <2>2, CompletedKept DEF OneRequest, CompletedByHand
  <1>19. ASSUME NEW q \in Request, SyncScheduler(q), Noting({})
        PROVE  CompletedByHand'
    <2>1. /\ OneRequest(q) /\ request'[q] = NoRequest /\ request[q].pc # "free"
      BY <1>19, <1>0, ReturnDoes DEF SyncScheduler
    <2>2. \A b \in Agent : status'[b] = "Completed" =>
              status[b] = "Completed" \/ Schedule[b] = "manual"
      BY <1>19 DEF SyncScheduler
    <2> QED
      BY <2>1, <2>2, CompletedKept DEF OneRequest, NoRequest
  <1>20. ASSUME NEW q \in Request, NEW a \in Agent, Delete(q, a), Noting({})
        PROVE  CompletedByHand'
    <2>1. /\ OneRequest(q) /\ request'[q].op = "delete"
          /\ request'[q].agent = a
          /\ request'[q].pc = "cache" /\ request'[q].snap = status[a]
          /\ request[q].pc = "free"
      BY <1>20, <1>0, BeginDoes DEF Delete, TypeOK, Statuses
    <2>2. \A b \in Agent : status'[b] = "Completed" =>
              status[b] = "Completed" \/ Schedule[b] = "manual"
      BY <1>20 DEF Delete
    <2> QED
      BY <2>1, <2>2, CompletedKept, SMTT(30) DEF OneRequest, CompletedByHand
  <1>21. ASSUME NEW q \in Request, DeleteCache(q), Noting({})
        PROVE  CompletedByHand'
    <2>1. /\ OneRequest(q) /\ request'[q].op = request[q].op
          /\ request'[q].agent = request[q].agent /\ request[q].pc # "free"
          /\ request'[q].pc = "store" /\ request'[q].snap = request[q].snap
      BY <1>21, <1>0, MoveDoes DEF DeleteCache
    <2>2. \A b \in Agent : status'[b] = "Completed" =>
              status[b] = "Completed" \/ Schedule[b] = "manual"
      BY <1>21 DEF DeleteCache
    <2> QED
      BY <2>1, <2>2, CompletedKept DEF OneRequest, CompletedByHand
  <1>22. ASSUME NEW q \in Request, DeleteStore(q), Noting({})
        PROVE  CompletedByHand'
    <2>1. /\ OneRequest(q) /\ request'[q] = NoRequest /\ request[q].pc # "free"
      BY <1>22, <1>0, ReturnDoes DEF DeleteStore
    <2>2. \A b \in Agent : status'[b] = "Completed" =>
              status[b] = "Completed" \/ Schedule[b] = "manual"
      BY <1>22, <1>0 DEF DeleteStore, TypeOK
    <2> QED
      BY <2>1, <2>2, CompletedKept DEF OneRequest, NoRequest
  <1>23. ASSUME NEW q \in Request, Disconnect(q), Noting({request[q].agent})
        PROVE  CompletedByHand'
    <2>1. OneRequest(q) /\ request'[q] = NoRequest /\ UNCHANGED status
      BY <1>23, <1>0, ReturnDoes DEF Disconnect
    <2> QED
      BY <2>1, CompletedKept DEF OneRequest, NoRequest
  <1>24. CASE UNCHANGED vars
    <2>1. UNCHANGED <<status, request>>
      BY <1>24 DEF vars
    <2> QED
      BY <2>1, CompletedKept
  <1> QED
    BY <1>1, <1>2, <1>3, <1>4, <1>5, <1>6, <1>7, <1>8, <1>9, <1>10, <1>11,
       <1>12, <1>13, <1>14, <1>15, <1>16, <1>17, <1>18, <1>19, <1>20, <1>21,
       <1>22, <1>23, <1>24
       DEF Next, Environment, Scheduling, Handling

\* An agent that a step does not concern, or whose row an execution writes.
LEMMA TaskKept ==
    ASSUME NEW a \in Agent, TaskOK(a), clash \subseteq clash',
           InUse(a)' => InUse(a), started' => started,
           Requests(a)' = {} => Requests(a) = {},
           \/ status'[a] = status[a]
           \/ InUse(a) /\ status'[a] \notin {"Paused", "Absent"}
           \/ status[a] = "Executing" /\ status'[a] = "Active",
           a \in DOMAIN tasks' <=> a \in DOMAIN tasks,
           a \in DOMAIN tasks => tasks'[a].enabled = tasks[a].enabled
    PROVE  TaskOK(a)'
  BY DEF TaskOK, IsScheduled

\* An agent that a request is about: it is not in use.
LEMMA TaskRequested ==
    ASSUME TypeOK, NEW S \in SUBSET Agent, Noting(S), NEW a \in Agent,
           TaskOK(a), NEW q \in Request,
           request'[q].agent = a,
           a \in DOMAIN tasks' => /\ a \in DOMAIN tasks
                                  /\ tasks'[a].enabled = tasks[a].enabled
    PROVE  TaskOK(a)'
  <1> SUFFICES ASSUME a \notin clash'
               PROVE  TaskOK(a)'
    BY DEF TaskOK
  <1>1. ~InUse(a)' /\ Requests(a)' # {} /\ a \notin clash
    BY AloneNext, ClashGrows DEF Requests, TypeOK
  <1> QED
    BY <1>1 DEF TaskOK, IsScheduled

\* The requests about an agent that no changed request is about.
LEMMA RequestsElsewhere ==
    ASSUME NEW q \in Request, OneRequest(q), NEW a \in Agent,
           request[q].agent # a, request'[q].agent # a
    PROVE  Requests(a)' = Requests(a)
  BY DEF OneRequest, Requests

\* A free place for a request is about no agent.
LEMMA FreeAgent ==
    ASSUME Types, NEW q \in Request, request[q].pc = "free"
    PROVE  \A a \in Agent : request[q].agent # a
  <1>1. request[q] = NoRequest
    BY DEF Types, Shaped, GoodRequest
  <1> QED
    BY <1>1, AgentAssumption DEF NoRequest

\* What a request tells the scheduler is what its row says.
LEMMA SyncAgrees ==
    ASSUME NEW q \in Request, NEW a \in Agent \ clash, request[q].agent = a,
           RequestOK(q), ClashNoted, TaskOK(a), request[q].pc = "sync",
           request[q].op \in {"create", "status", "update"},
           tasks' = Sync(request[q].op, request[q].agent, request[q].snap)
    PROVE  /\ a \in DOMAIN tasks' => tasks'[a].enabled
           /\ status[a] \in {"Paused", "Absent"} => a \notin DOMAIN tasks'
           /\ Schedule[a] = "interval" /\ status[a] \in {"Active", "Executing"}
                  => a \in DOMAIN tasks'
  <1> DEFINE op == request[q].op
             s == request[q].snap
  <1>1. /\ a \in DOMAIN tasks => tasks[a].enabled
        /\ op = "update" => s # "Executing"
        /\ op = "create" => status[a] = "Active" /\ s = "Active"
        /\ op = "status" => /\ s \in {"Active", "Paused", "Error"}
                            /\ \/ status[a] = s
                               \/ status[a] = "Absent" /\ a \notin DOMAIN tasks
        /\ op = "update" => status[a] = s
    BY DEF RequestOK, ClashNoted, TaskOK
  <1>2. /\ a \notin DOMAIN Drop(tasks, {a})
        /\ \A u : /\ a \in DOMAIN Put(tasks, a, ScheduledTask(a, u))
                  /\ u = "Active" =>
                         Put(tasks, a, ScheduledTask(a, u))[a].enabled
    BY DEF Drop, Put, ScheduledTask
  <1>3. tasks' = Sync(op, a, s) /\ op \in {"create", "status", "update"}
    OBVIOUS
  <1> HIDE DEF op, s
  <1>4. CASE op = "status"
    <2>1. CASE s = "Active"
      <3>1. tasks' = IF status[a] # "Absent" /\ Schedule[a] # "event"
                     THEN Put(tasks, a, ScheduledTask(a, status[a])) ELSE tasks
        BY <1>3, <1>4, <2>1 DEF Sync
      <3> QED
        BY <1>1, <1>2, <1>4, <2>1, <3>1
    <2>2. CASE s = "Paused"
      <3>1. tasks' = Drop(tasks, {a})
        BY <1>3, <1>4, <2>2 DEF Sync
      <3> QED
        BY <1>1, <1>2, <1>4, <2>2, <3>1
    <2>3. CASE s = "Error"
      <3>1. tasks' = tasks
        BY <1>3, <1>4, <2>3 DEF Sync
      <3> QED
        BY <1>1, <1>4, <2>3, <3>1
    <2> QED
      BY <1>1, <1>4, <2>1, <2>2, <2>3
  <1>5. CASE op # "status" /\ s = "Active"
    <2>1. tasks' = IF Schedule[a] # "event"
                   THEN Put(tasks, a, ScheduledTask(a, s)) ELSE tasks
      BY <1>3, <1>5 DEF Sync
    <2> QED
      BY <1>1, <1>2, <1>3, <1>5, <2>1
  <1>6. CASE op = "update" /\ s # "Active"
    <2>1. tasks' = Drop(tasks, {a})
      BY <1>3, <1>6 DEF Sync
    <2> QED
      BY <1>1, <1>2, <1>6, <2>1
  <1> QED
    BY <1>1, <1>3, <1>4, <1>5, <1>6

\* Store and scheduler keep agreeing.
LEMMA TaskStep ==
    Types /\ HandleInv /\ ClashNoted /\ RequestInv /\ CompletedByHand /\ TaskInv
        /\ [Next]_vars => TaskInv'
  <1> SUFFICES ASSUME Types, HandleInv, ClashNoted, RequestInv, CompletedByHand,
                      TaskInv, [Next]_vars, NEW a \in Agent
               PROVE  TaskOK(a)'
    BY DEF TaskInv
  <1>0. Types /\ TypeOK /\ Shaped
    BY DEF Types
  <1>c. [Next]_vars => clash \subseteq clash'
    BY <1>0, ClashKept
  <1>d. TaskOK(a) /\ a # Nobody
    BY AgentAssumption DEF TaskInv
  <1>1. CASE Tick /\ Noting({})
    <2>1. /\ UNCHANGED <<status, tasks, listener, exec, request>>
          /\ loop'.due = loop.due /\ (started' => started)
      BY <1>1, <1>0 DEF Tick, flags, sched, Only, Quiet, TypeOK, LoopRecord
    <2>2. Requests(a)' = Requests(a) /\ (InUse(a)' => InUse(a))
      BY <2>1 DEF Requests, InUse, Execs
    <2> QED
      BY <1>c, <1>d, <2>1, <2>2, TaskKept
  <1>2. CASE LoopCheck /\ Noting({})
    <2>1. /\ UNCHANGED <<status, tasks, listener, exec, request>>
          /\ loop'.due = loop.due /\ (started' => started)
      BY <1>2, <1>0 DEF LoopCheck, flags, sched, Only, Quiet, TypeOK,
             LoopRecord
    <2>2. Requests(a)' = Requests(a) /\ (InUse(a)' => InUse(a))
      BY <2>1 DEF Requests, InUse, Execs
    <2> QED
      BY <1>c, <1>d, <2>1, <2>2, TaskKept
  <1>3. CASE LoopReserve /\ Noting({})
    <2>1. /\ UNCHANGED <<status, listener, exec, request, started>>
          /\ DOMAIN tasks' = DOMAIN tasks
          /\ \A b \in DOMAIN tasks : tasks'[b].enabled = tasks[b].enabled
          /\ loop'.due \subseteq Due /\ loop.due = {}
      BY <1>3, <1>0, ReservedTyped DEF LoopReserve, Shaped, flags
    <2>2. Requests(a)' = Requests(a)
      BY <2>1 DEF Requests
    <2>3. CASE a \notin loop'.due
      <3>1. InUse(a)' => InUse(a)
        BY <2>1, <2>3 DEF InUse, Execs
      <3> QED
        BY <1>c, <1>d, <2>1, <2>2, <3>1, TaskKept
    <2>4. CASE a \in loop'.due
      <3>1. a \in DOMAIN tasks /\ InUse(a)'
        BY <2>1, <2>4 DEF Due, InUse
      <3>2. a \notin clash' => Requests(a)' = {}
        BY <1>3, <1>0, <3>1, AloneNext DEF Requests
      <3> QED
        BY <1>c, <1>d, <2>1, <2>2, <3>1, <3>2 DEF TaskOK, IsScheduled
    <2> QED
      BY <2>3, <2>4
  <1>4. ASSUME NEW b \in Agent, NEW e \in Exec, LoopSpawn(b, e), Noting({})
        PROVE  TaskOK(a)'
    <2>1. /\ UNCHANGED <<status, tasks, listener, request, started>>
          /\ loop'.due = loop.due \ {b} /\ b \in loop.due
      BY <1>4 DEF LoopSpawn, flags
    <2>2. OneExec(e) /\ exec'[e].agent = b
      BY <1>4, <1>0, SpawnDoes DEF LoopSpawn
    <2>3. Requests(a)' = Requests(a) /\ (InUse(a)' => InUse(a))
      BY <2>1, <2>2 DEF Requests, InUse, Execs, OneExec
    <2> QED
      BY <1>c, <1>d, <2>1, <2>3, TaskKept
  <1>5. ASSUME NEW b \in Agent, EventArrives(b), Noting({})
        PROVE  TaskOK(a)'
    <2>1. /\ UNCHANGED <<status, tasks, loop, exec, request, started>>
          /\ listener' = b /\ status[b] = "Active" /\ Schedule[b] = "event"
      BY <1>5 DEF EventArrives, flags, sched
    <2>2. Requests(a)' = Requests(a) /\ (a # b /\ InUse(a)' => InUse(a))
      BY <2>1 DEF Requests, InUse, Execs
    <2>3. CASE a # b
      BY <1>c, <1>d, <2>1, <2>2, <2>3, TaskKept
    <2>4. CASE a = b
      BY <1>c, <1>d, <2>1, <2>2, <2>4 DEF TaskOK
    <2> QED
      BY <2>3, <2>4
  <1>6. ASSUME NEW e \in Exec, EventTrigger(e), Noting({})
        PROVE  TaskOK(a)'
    <2>1. /\ UNCHANGED <<status, tasks, loop, request, started>>
          /\ listener' = Nobody /\ listener \in Agent
      BY <1>6, <1>0 DEF EventTrigger, flags, sched, TypeOK
    <2>2. InUse(a)' => InUse(a)
      <3>1. CASE UNCHANGED exec
        BY <1>d, <2>1, <3>1 DEF InUse, Execs
      <3>2. CASE exec' # exec
        <4>1. exec' = [exec EXCEPT ![e] = Spawned(listener, "event")]
          BY <1>6, <3>2 DEF EventTrigger
        <4>2. OneExec(e) /\ exec'[e].agent = listener
          BY <1>0, <2>1, <4>1, SpawnDoes
        <4> QED
          BY <1>d, <2>1, <4>2 DEF InUse, Execs, OneExec
      <3> QED
        BY <3>1, <3>2
    <2>3. Requests(a)' = Requests(a)
      BY <2>1 DEF Requests
    <2> QED
      BY <1>c, <1>d, <2>1, <2>2, <2>3, TaskKept
  <1>7. ASSUME NEW e \in Exec, Execution(e) \/ Cleanup(e), Noting({})
        PROVE  TaskOK(a)'
    <2>1. Within(e)
      BY <1>7, <1>0, WithinStep
    <2>2. /\ InUse(exec[e].agent) /\ (InUse(a)' => InUse(a))
          /\ Requests(a)' = Requests(a)
      BY <1>0, <2>1, WithinUse
    <2>3. \/ status'[a] = status[a]
          \/ InUse(a) /\ status'[a] \notin {"Paused", "Absent"}
      BY <2>1, <2>2 DEF Within, StatusMoves
    <2> QED
      BY <1>c, <1>d, <2>1, <2>2, <2>3, TaskKept DEF Within
  <1>8. ASSUME NEW b \in Agent, NEW e \in Exec, ManualStart(b, e), Noting({})
        PROVE  TaskOK(a)'
    <2>1. \/ UNCHANGED <<status, exec>>
          \/ /\ OneExec(e) /\ exec'[e].agent = b
             /\ status' = Write(b, "Executing")
      BY <1>8, <1>0, ManualDoes
    <2>2. /\ UNCHANGED <<tasks, loop, request, started, listener>>
          /\ status[b] # "Absent"
      BY <1>8 DEF ManualStart, flags, sched
    <2>3. Requests(a)' = Requests(a)
      BY <2>2 DEF Requests
    <2>4. CASE UNCHANGED <<status, exec>>
      <3>1. InUse(a)' => InUse(a)
        BY <2>2, <2>4 DEF InUse, Execs
      <3> QED
        BY <1>c, <1>d, <2>2, <2>3, <2>4, <3>1, TaskKept
    <2>5. CASE a # b /\ ~UNCHANGED <<status, exec>>
      <3>1. (InUse(a)' => InUse(a)) /\ status'[a] = status[a]
        BY <1>0, <2>1, <2>2, <2>5 DEF InUse, Execs, OneExec, Write, TypeOK
      <3> QED
        BY <1>c, <1>d, <2>2, <2>3, <2>5, <3>1, TaskKept
    <2>6. CASE a = b /\ ~UNCHANGED <<status, exec>>
      <3>1. status'[a] = "Executing"
        BY <1>0, <2>1, <2>2, <2>6 DEF Write, TypeOK
      <3>2. a \in clash' \/ a \in DOMAIN tasks
                \/ status[a] \in {"Active", "Executing"}
        BY <1>8, <1>0, <2>6, <3>1, ClashGrows DEF Revived, TypeOK
      <3> QED
        BY <1>c, <1>d, <2>2, <2>3, <2>6, <3>1, <3>2 DEF TaskOK, IsScheduled
    <2> QED
      BY <2>4, <2>5, <2>6
  <1>9. ASSUME NEW R \in SUBSET {b \in Stale : MayRefuse(b)}, ManagerStart(R),
               Noting(R)
        PROVE  TaskOK(a)'
    <2> SUFFICES ASSUME a \notin clash' PROVE TaskOK(a)'
      BY DEF TaskOK
    <2>0. a \notin R
      BY <1>9, <1>0, ClashGrows DEF Stale, TypeOK
    <2>1. /\ UNCHANGED <<exec, listener, request>>
          /\ loop' = [loop EXCEPT !.pc = "idle"] /\ ~started
          /\ status'[a] = IF status[a] \in {"Executing", "Error"} THEN "Active"
                          ELSE status[a]
      BY <1>9, <2>0 DEF ManagerStart, Stale
    <2> DEFINE live == {b \in Agent : status'[b] = "Active"
                                      /\ Schedule[b] # "event"}
    <2>2. tasks' = [b \in DOMAIN tasks \cup live |->
                      IF b \in live THEN ScheduledTask(b, "Active")
                      ELSE tasks[b]]
      BY <1>9 DEF ManagerStart
    <2>3. /\ a \in live => a \in DOMAIN tasks' /\ tasks'[a].enabled
          /\ a \notin live => a \in DOMAIN tasks' <=> a \in DOMAIN tasks
          /\ a \notin live /\ a \in DOMAIN tasks => tasks'[a] = tasks[a]
      BY <2>2 DEF ScheduledTask
    <2>4. a \in live <=> status'[a] = "Active" /\ Schedule[a] # "event"
      OBVIOUS
    <2> HIDE DEF live
    <2>5. Requests(a)' = Requests(a) /\ (InUse(a)' => InUse(a))
      BY <1>0, <2>1 DEF Requests, InUse, Execs, TypeOK, LoopRecord
    <2>6. /\ status[a] \in Statuses
          /\ status[a] = "Completed" => Schedule[a] = "manual"
      BY <1>0 DEF CompletedByHand, TypeOK
    <2>7. /\ InUse(a) => status[a] \notin {"Paused", "Absent"}
          /\ a \in DOMAIN tasks => tasks[a].enabled
          /\ Requests(a) = {} /\ status[a] \in {"Paused", "Absent"}
                 => a \notin DOMAIN tasks
      BY <1>c, <1>d DEF TaskOK
    <2>8. InUse(a)' => status'[a] \notin {"Paused", "Absent"}
      BY <2>1, <2>5, <2>7
    <2>9. a \in DOMAIN tasks' => tasks'[a].enabled
      BY <2>3, <2>7
    <2>10. Requests(a)' = {} /\ status'[a] \in {"Paused", "Absent"}
               => a \notin DOMAIN tasks'
      BY <2>1, <2>3, <2>4, <2>5, <2>7
    <2>11. Schedule[a] = "interval"
             /\ (status'[a] \in {"Active", "Executing"} \/ InUse(a)')
               => IsScheduled(a)'
      <3>1. Schedule[a] = "interval"
             /\ (status'[a] \in {"Active", "Executing"} \/ InUse(a)')
               => status'[a] = "Active"
        BY <2>1, <2>6, <2>8 DEF Statuses
      <3> QED
        BY <2>3, <2>4, <3>1 DEF IsScheduled
    <2> QED
      BY <2>8, <2>9, <2>10, <2>11 DEF TaskOK
  <1>10. CASE StartupSweep /\ Noting({})
    <2>1. /\ UNCHANGED <<tasks, loop, exec, listener, request, started>>
          /\ \/ status'[a] = status[a]
             \/ status[a] = "Executing" /\ status'[a] = "Active"
      BY <1>10 DEF StartupSweep, sched, flags
    <2>2. Requests(a)' = Requests(a) /\ (InUse(a)' => InUse(a))
      BY <2>1 DEF Requests, InUse, Execs
    <2> QED
      BY <1>c, <1>d, <2>1, <2>2, TaskKept
  <1>11. CASE StopFlag /\ Noting({})
    <2>1. /\ UNCHANGED <<status, tasks, listener, exec, request>>
          /\ loop'.due = loop.due /\ (started' => started)
      BY <1>11, <1>0 DEF StopFlag, flags, sched, Only, Quiet, TypeOK,
             LoopRecord
    <2>2. Requests(a)' = Requests(a) /\ (InUse(a)' => InUse(a))
      BY <2>1 DEF Requests, InUse, Execs
    <2> QED
      BY <1>c, <1>d, <2>1, <2>2, TaskKept
  <1>12. CASE StopDrain /\ Noting({})
    <2>1. UNCHANGED <<status, tasks, loop, listener, request, started>>
      BY <1>12 DEF StopDrain, sched, flags
    <2>2. \A x \in Exec : exec'[x].agent = exec[x].agent
      BY <1>12, <1>0, Aborted DEF Same
    <2>3. Requests(a)' = Requests(a) /\ (InUse(a)' => InUse(a))
      BY <2>1, <2>2 DEF Requests, InUse, Execs
    <2> QED
      BY <1>c, <1>d, <2>1, <2>3, TaskKept
  <1>13. CASE AbortEvents /\ Noting({})
    <2>1. UNCHANGED <<status, tasks, loop, listener, request, started>>
      BY <1>13 DEF AbortEvents, sched, flags
    <2>2. \A x \in Exec : exec'[x].agent = exec[x].agent
      BY <1>13, <1>0, Aborted DEF Same
    <2>3. Requests(a)' = Requests(a) /\ (InUse(a)' => InUse(a))
      BY <2>1, <2>2 DEF Requests, InUse, Execs
    <2> QED
      BY <1>c, <1>d, <2>1, <2>3, TaskKept
  <1>14. CASE Crash /\ Noting({})
    <2>1. /\ DOMAIN tasks' = {} /\ started' = FALSE /\ listener' = Nobody
          /\ loop' = LoopOff /\ \A x \in Exec : exec'[x] = NoExec
      BY <1>14, EmptyMap DEF Crash
    <2>2. ~InUse(a)'
      BY <1>d, <2>1 DEF InUse, Execs, NoExec, LoopOff
    <2> QED
      BY <2>1, <2>2 DEF TaskOK
  <1>15. ASSUME NEW q \in Request, NEW b \in Agent, Create(q, b), Noting({})
        PROVE  TaskOK(a)'
    <2>1. /\ OneRequest(q) /\ request'[q].op = "create"
          /\ request'[q].agent = b
          /\ request'[q].pc = "sync" /\ request'[q].snap = "Active"
          /\ request[q].pc = "free"
      BY <1>15, <1>0, BeginDoes DEF Create, TypeOK, Statuses
    <2>2. /\ UNCHANGED <<loop, exec, listener, started>>
          /\ UNCHANGED tasks /\ status' = [status EXCEPT ![b] = "Active"]
      BY <1>15 DEF Create, Handler, flags
    <2>3. CASE a # b
      <3>1. Requests(a)' = Requests(a)
        BY <1>0, <2>1, <2>3, FreeAgent, RequestsElsewhere
      <3>2. InUse(a)' => InUse(a)
        BY <2>2 DEF InUse, Execs
      <3>3. /\ status'[a] = status[a]
            /\ a \in DOMAIN tasks' <=> a \in DOMAIN tasks
            /\ a \in DOMAIN tasks => tasks'[a] = tasks[a]
        BY <1>0, <2>2, <2>3 DEF Write, Drop, TypeOK
      <3> QED
        BY <1>c, <1>d, <2>2, <3>1, <3>2, <3>3, TaskKept
    <2>4. CASE a = b
      <3>1. a \in DOMAIN tasks' => a \in DOMAIN tasks /\ tasks'[a] = tasks[a]
        BY <2>2 DEF Drop
      <3> QED
        BY <1>15, <1>0, <1>d, <2>1, <2>4, <3>1, TaskRequested
    <2> QED
      BY <2>3, <2>4, SMTT(30)
  <1>16. ASSUME NEW q \in Request, NEW b \in Agent,
                NEW s \in {"Active", "Paused", "Error"}, SetStatus(q, b, s),
                Noting({})
        PROVE  TaskOK(a)'
    <2>1. /\ OneRequest(q) /\ request'[q].op = "status"
          /\ request'[q].agent = b
          /\ request'[q].pc = "sync" /\ request'[q].snap = s
          /\ request[q].pc = "free"
      BY <1>16, <1>0, BeginDoes DEF SetStatus, TypeOK, Statuses
    <2>2. /\ UNCHANGED <<loop, exec, listener, started>>
          /\ UNCHANGED tasks /\ status' = Write(b, s)
      BY <1>16 DEF SetStatus, Handler, flags
    <2>3. CASE a # b
      <3>1. Requests(a)' = Requests(a)
        BY <1>0, <2>1, <2>3, FreeAgent, RequestsElsewhere
      <3>2. InUse(a)' => InUse(a)
        BY <2>2 DEF InUse, Execs
      <3>3. /\ status'[a] = status[a]
            /\ a \in DOMAIN tasks' <=> a \in DOMAIN tasks
            /\ a \in DOMAIN tasks => tasks'[a] = tasks[a]
        BY <1>0, <2>2, <2>3 DEF Write, Drop, TypeOK
      <3> QED
        BY <1>c, <1>d, <2>2, <3>1, <3>2, <3>3, TaskKept
    <2>4. CASE a = b
      <3>1. a \in DOMAIN tasks' => a \in DOMAIN tasks /\ tasks'[a] = tasks[a]
        BY <2>2 DEF Drop
      <3> QED
        BY <1>16, <1>0, <1>d, <2>1, <2>4, <3>1, TaskRequested
    <2> QED
      BY <2>3, <2>4, SMTT(30)
  <1>17. ASSUME NEW q \in Request, NEW b \in Agent, NEW s \in Statuses,
                UpdateRead(q, b, s), Noting({})
        PROVE  TaskOK(a)'
    <2>1. /\ OneRequest(q) /\ request'[q].op = "update"
          /\ request'[q].agent = b
          /\ request'[q].pc = "save" /\ request'[q].snap = s
          /\ request[q].pc = "free"
      BY <1>17, <1>0, BeginDoes DEF UpdateRead, TypeOK, Statuses
    <2>2. /\ UNCHANGED <<loop, exec, listener, started>>
          /\ UNCHANGED tasks /\ UNCHANGED status
      BY <1>17 DEF UpdateRead, Handler, flags
    <2>3. CASE a # b
      <3>1. Requests(a)' = Requests(a)
        BY <1>0, <2>1, <2>3, FreeAgent, RequestsElsewhere
      <3>2. InUse(a)' => InUse(a)
        BY <2>2 DEF InUse, Execs
      <3>3. /\ status'[a] = status[a]
            /\ a \in DOMAIN tasks' <=> a \in DOMAIN tasks
            /\ a \in DOMAIN tasks => tasks'[a] = tasks[a]
        BY <1>0, <2>2, <2>3 DEF Write, Drop, TypeOK
      <3> QED
        BY <1>c, <1>d, <2>2, <3>1, <3>2, <3>3, TaskKept
    <2>4. CASE a = b
      <3>1. a \in DOMAIN tasks' => a \in DOMAIN tasks /\ tasks'[a] = tasks[a]
        BY <2>2 DEF Drop
      <3> QED
        BY <1>17, <1>0, <1>d, <2>1, <2>4, <3>1, TaskRequested
    <2> QED
      BY <2>3, <2>4, SMTT(30)
  <1>18. ASSUME NEW q \in Request, UpdateSave(q), Noting({})
        PROVE  TaskOK(a)'
    <2>1. /\ OneRequest(q) /\ request'[q].op = request[q].op
          /\ request'[q].agent = request[q].agent /\ request[q].pc # "free"
          /\ request'[q].pc = "sync" /\ request'[q].snap = request[q].snap
      BY <1>18, <1>0, MoveDoes DEF UpdateSave
    <2>2. /\ UNCHANGED <<loop, exec, started, tasks>> /\ UNCHANGED listener
          /\ status' = [status EXCEPT ![request[q].agent] = request[q].snap]
      BY <1>18 DEF UpdateSave, Handler, flags
    <2>3. CASE a # request[q].agent
      <3>1. Requests(a)' = Requests(a)
        BY <2>1, <2>3, RequestsElsewhere
      <3>2. InUse(a)' => InUse(a)
        BY <1>d, <2>2 DEF InUse, Execs
      <3>3. status'[a] = status[a]
        BY <1>0, <2>2, <2>3 DEF TypeOK
      <3> QED
        BY <1>c, <1>d, <2>2, <3>1, <3>2, <3>3, TaskKept
    <2>4. CASE a = request[q].agent
      BY <1>18, <1>0, <1>d, <2>1, <2>2, <2>4, TaskRequested
    <2> QED
      BY <2>3, <2>4
  <1>19. ASSUME NEW q \in Request, SyncScheduler(q), Noting({})
        PROVE  TaskOK(a)'
    <2>1. /\ OneRequest(q) /\ request'[q] = NoRequest /\ request[q].pc # "free"
      BY <1>19, <1>0, ReturnDoes DEF SyncScheduler
    <2>2. /\ UNCHANGED <<loop, exec, started, status, listener>>
          /\ tasks' = Sync(request[q].op, request[q].agent, request[q].snap)
          /\ request[q].op \in {"create", "status", "update"}
          /\ request[q].pc = "sync"
      BY <1>19 DEF SyncScheduler, Handler, flags
    <2>3. InUse(a)' => InUse(a)
      BY <2>2 DEF InUse, Execs
    <2>4. CASE a # request[q].agent
      <3>1. Requests(a)' = Requests(a)
        BY <1>d, <2>1, <2>4, RequestsElsewhere DEF NoRequest
      <3>2. /\ a \in DOMAIN tasks' <=> a \in DOMAIN tasks
            /\ a \in DOMAIN tasks => tasks'[a] = tasks[a]
        BY <2>2, <2>4, SyncDef
      <3> QED
        BY <1>c, <1>d, <2>2, <2>3, <3>1, <3>2, TaskKept
    <2>5. CASE a = request[q].agent
      <3> SUFFICES ASSUME a \notin clash' PROVE TaskOK(a)'
        BY DEF TaskOK
      <3>1. a \notin clash /\ ~InUse(a)
        BY <1>19, <1>c, <2>5, Alone
      <3>2. /\ a \in DOMAIN tasks' => tasks'[a].enabled
            /\ status[a] \in {"Paused", "Absent"} => a \notin DOMAIN tasks'
            /\ /\ Schedule[a] = "interval"
               /\ status[a] \in {"Active", "Executing"}
               => a \in DOMAIN tasks'
        BY <1>d, <2>1, <2>2, <2>5, <3>1, SyncAgrees, SMTT(30) DEF RequestInv,
               ClashNoted
      <3> QED
        BY <2>2, <2>3, <3>1, <3>2 DEF TaskOK, IsScheduled
    <2> QED
      BY <2>4, <2>5
  <1>20. ASSUME NEW q \in Request, NEW b \in Agent, Delete(q, b), Noting({})
        PROVE  TaskOK(a)'
    <2>1. /\ OneRequest(q) /\ request'[q].op = "delete"
          /\ request'[q].agent = b
          /\ request'[q].pc = "cache" /\ request'[q].snap = status[b]
          /\ request[q].pc = "free"
      BY <1>20, <1>0, BeginDoes DEF Delete, TypeOK, Statuses
    <2>2. /\ UNCHANGED <<loop, exec, listener, started>>
          /\ tasks' = Drop(tasks, {b}) /\ UNCHANGED status
      BY <1>20 DEF Delete, Handler, flags
    <2>3. CASE a # b
      <3>1. Requests(a)' = Requests(a)
        BY <1>0, <2>1, <2>3, FreeAgent, RequestsElsewhere
      <3>2. InUse(a)' => InUse(a)
        BY <2>2 DEF InUse, Execs
      <3>3. /\ status'[a] = status[a]
            /\ a \in DOMAIN tasks' <=> a \in DOMAIN tasks
            /\ a \in DOMAIN tasks => tasks'[a] = tasks[a]
        BY <1>0, <2>2, <2>3 DEF Write, Drop, TypeOK
      <3> QED
        BY <1>c, <1>d, <2>2, <3>1, <3>2, <3>3, TaskKept
    <2>4. CASE a = b
      <3>1. a \in DOMAIN tasks' => a \in DOMAIN tasks /\ tasks'[a] = tasks[a]
        BY <2>2 DEF Drop
      <3> QED
        BY <1>20, <1>0, <1>d, <2>1, <2>4, <3>1, TaskRequested
    <2> QED
      BY <2>3, <2>4
  <1>21. ASSUME NEW q \in Request, DeleteCache(q), Noting({})
        PROVE  TaskOK(a)'
    <2>1. /\ OneRequest(q) /\ request'[q].op = request[q].op
          /\ request'[q].agent = request[q].agent /\ request[q].pc # "free"
          /\ request'[q].pc = "store" /\ request'[q].snap = request[q].snap
      BY <1>21, <1>0, MoveDoes DEF DeleteCache
    <2>2. /\ UNCHANGED <<loop, exec, started, tasks>>
          /\ listener' \in {listener, Nobody}
          /\ UNCHANGED status
      BY <1>21 DEF DeleteCache, Handler, flags
    <2>3. CASE a # request[q].agent
      <3>1. Requests(a)' = Requests(a)
        BY <2>1, <2>3, RequestsElsewhere
      <3>2. InUse(a)' => InUse(a)
        BY <1>d, <2>2 DEF InUse, Execs
      <3>3. status'[a] = status[a]
        BY <1>0, <2>2, <2>3 DEF TypeOK
      <3> QED
        BY <1>c, <1>d, <2>2, <3>1, <3>2, <3>3, TaskKept
    <2>4. CASE a = request[q].agent
      BY <1>21, <1>0, <1>d, <2>1, <2>2, <2>4, TaskRequested
    <2> QED
      BY <2>3, <2>4
  <1>22. ASSUME NEW q \in Request, DeleteStore(q), Noting({})
        PROVE  TaskOK(a)'
    <2>1. /\ OneRequest(q) /\ request'[q] = NoRequest /\ request[q].pc # "free"
      BY <1>22, <1>0, ReturnDoes DEF DeleteStore
    <2>2. /\ UNCHANGED <<loop, exec, started, tasks, listener>>
          /\ status' = [status EXCEPT ![request[q].agent] = "Absent"]
          /\ request[q].op = "delete"
      BY <1>22 DEF DeleteStore, Handler, flags
    <2>3. InUse(a)' => InUse(a)
      BY <2>2 DEF InUse, Execs
    <2>4. CASE a # request[q].agent
      <3>1. Requests(a)' = Requests(a)
        BY <1>d, <2>1, <2>4, RequestsElsewhere DEF NoRequest
      <3>2. status'[a] = status[a]
        BY <1>0, <2>2, <2>4 DEF TypeOK
      <3> QED
        BY <1>c, <1>d, <2>2, <2>3, <3>1, <3>2, TaskKept
    <2>5. CASE a = request[q].agent
      <3> SUFFICES ASSUME a \notin clash' PROVE TaskOK(a)'
        BY DEF TaskOK
      <3>1. a \notin clash /\ ~InUse(a)
        BY <1>22, <1>c, <2>5, Alone
      <3>2. a \notin DOMAIN tasks
        BY <2>1, <2>2, <2>5, <3>1 DEF RequestInv, RequestOK
      <3>3. status'[a] = "Absent"
        BY <1>0, <2>2, <2>5 DEF TypeOK
      <3> QED
        BY <2>2, <2>3, <3>1, <3>2, <3>3 DEF TaskOK
    <2> QED
      BY <2>4, <2>5
  <1>23. ASSUME NEW q \in Request, Disconnect(q), Noting({request[q].agent})
        PROVE  TaskOK(a)'
    <2>1. /\ OneRequest(q) /\ request'[q] = NoRequest
          /\ request[q].agent \in Agent
      BY <1>23, <1>0, ReturnDoes DEF Disconnect, Shaped, GoodRequest
    <2>2. /\ UNCHANGED <<loop, exec, started, status, listener>>
          /\ tasks' = tasks \/ tasks' = Drop(tasks, {request[q].agent})
      BY <1>23 DEF Disconnect, Handler, flags
    <2>3. CASE a # request[q].agent
      <3>1. Requests(a)' = Requests(a) /\ (InUse(a)' => InUse(a))
        BY <1>d, <2>1, <2>2, <2>3, RequestsElsewhere
           DEF NoRequest, InUse, Execs
      <3>2. /\ a \in DOMAIN tasks' <=> a \in DOMAIN tasks
            /\ a \in DOMAIN tasks => tasks'[a] = tasks[a]
        BY <2>2, <2>3 DEF Drop
      <3> QED
        BY <1>c, <1>d, <2>2, <3>1, <3>2, TaskKept
    <2>4. CASE a = request[q].agent
      <3>1. a \in clash'
        BY <1>23, <1>0, <2>1, <2>4, ClashGrows DEF TypeOK
      <3> QED
        BY <3>1 DEF TaskOK
    <2> QED
      BY <2>3, <2>4
  <1>24. CASE UNCHANGED vars
    <2>1. UNCHANGED <<status, tasks, loop, exec, listener, request, started>>
      BY <1>24 DEF vars, sched, flags
    <2>2. Requests(a)' = Requests(a) /\ (InUse(a)' => InUse(a))
      BY <2>1 DEF Requests, InUse, Execs
    <2> QED
      BY <1>c, <1>d, <2>1, <2>2, TaskKept
  <1> QED
    BY <1>1, <1>2, <1>3, <1>4, <1>5, <1>6, <1>7, <1>8, <1>9, <1>10, <1>11,
       <1>12, <1>13, <1>14, <1>15, <1>16, <1>17, <1>18, <1>19, <1>20, <1>21,
       <1>22, <1>23, <1>24
       DEF Next, Environment, Scheduling, Handling

-----------------------------------------------------------------------------
(* Reservations *)

\* What ReservedOnGrid says of one step.
OnGrid ==
    loop.pc = "reserve" /\ loop'.pc = "spawn" =>
        \A a \in DOMAIN tasks :
            tasks'[a].next # tasks[a].next =>
                /\ a \in loop'.due
                /\ (tasks'[a].next - tasks[a].next) % Interval = 0
                /\ now < tasks'[a].next
                /\ tasks'[a].next <= now + Interval

\* A reservation, by the arithmetic of GridNext.
LEMMA ReserveOnGrid ==
    ASSUME TypeOK, LoopReserve
    PROVE  OnGrid
  <1>1. PICK P \in Picks :
          /\ tasks' = [a \in DOMAIN tasks |->
                         IF a \in P
                         THEN [tasks[a] EXCEPT !.next = UpdateNext(tasks[a])]
                         ELSE tasks[a]]
          /\ loop' = [pc |-> IF P = {} THEN "idle" ELSE "spawn", due |-> P]
    BY DEF LoopReserve
  <1>2. P \subseteq Due /\ loop'.due = P
    BY <1>1 DEF Picks
  <1> SUFFICES ASSUME NEW a \in DOMAIN tasks, tasks'[a].next # tasks[a].next
               PROVE  /\ a \in loop'.due
                      /\ (tasks'[a].next - tasks[a].next) % Interval = 0
                      /\ now < tasks'[a].next
                      /\ tasks'[a].next <= now + Interval
    BY DEF OnGrid
  <1>3. a \in P
    BY <1>1
  <1>4. tasks[a] \in TaskRecord
    BY DEF TypeOK
  <1>5. tasks'[a].next = UpdateNext(tasks[a])
    BY <1>1, <1>3, <1>4 DEF TaskRecord
  <1>6. tasks[a].next \in Nat /\ tasks[a].next <= now /\ now \in Nat
    BY <1>2, <1>3, <1>4, Numbers DEF Due, TaskRecord, TypeOK, Never
  <1> QED
    BY <1>2, <1>3, <1>5, <1>6, GridNext

\* Every reservation is on the grid of its task.
LEMMA GridStep ==
    Types /\ [Next]_vars => OnGrid
  <1> SUFFICES ASSUME Types, [Next]_vars PROVE OnGrid
    OBVIOUS
  <1>0. Types /\ TypeOK /\ Shaped
    BY DEF Types
  <1>1. CASE Tick /\ Noting({})
    BY <1>1 DEF Tick, flags, sched, Only, Quiet, OnGrid
  <1>2. CASE LoopCheck /\ Noting({})
    BY <1>2 DEF LoopCheck, OnGrid
  <1>3. CASE LoopReserve /\ Noting({})
    BY <1>3, <1>0, ReserveOnGrid
  <1>4. ASSUME NEW a \in Agent, NEW e \in Exec, LoopSpawn(a, e), Noting({})
        PROVE  OnGrid
    BY <1>4 DEF LoopSpawn, OnGrid
  <1>5. ASSUME NEW a \in Agent, EventArrives(a), Noting({})
        PROVE  OnGrid
    BY <1>5 DEF EventArrives, flags, sched, Only, Quiet, OnGrid
  <1>6. ASSUME NEW e \in Exec, EventTrigger(e), Noting({})
        PROVE  OnGrid
    BY <1>6 DEF EventTrigger, flags, sched, Only, Quiet, OnGrid
  <1>7. ASSUME NEW e \in Exec, Execution(e) \/ Cleanup(e), Noting({})
        PROVE  OnGrid
    BY <1>7, <1>0, WithinStep DEF Within, OnGrid
  <1>8. ASSUME NEW a \in Agent, NEW e \in Exec, ManualStart(a, e), Noting({})
        PROVE  OnGrid
    BY <1>8 DEF ManualStart, flags, sched, Only, Quiet, OnGrid
  <1>9. ASSUME NEW R \in SUBSET {b \in Stale : MayRefuse(b)}, ManagerStart(R),
               Noting(R)
        PROVE  OnGrid
    BY <1>9 DEF ManagerStart, OnGrid
  <1>10. CASE StartupSweep /\ Noting({})
    BY <1>10 DEF StartupSweep, flags, sched, Only, Quiet, OnGrid
  <1>11. CASE StopFlag /\ Noting({})
    BY <1>11 DEF StopFlag, flags, sched, Only, Quiet, OnGrid
  <1>12. CASE StopDrain /\ Noting({})
    BY <1>12 DEF StopDrain, flags, sched, Only, Quiet, OnGrid
  <1>13. CASE AbortEvents /\ Noting({})
    BY <1>13 DEF AbortEvents, flags, sched, Only, Quiet, OnGrid
  <1>14. CASE Crash /\ Noting({})
    BY <1>14 DEF Crash, OnGrid, LoopOff
  <1>15. ASSUME NEW q \in Request, NEW a \in Agent, Create(q, a), Noting({})
        PROVE  OnGrid
    BY <1>15 DEF Create, Handler, flags, sched, Only, Quiet, OnGrid
  <1>16. ASSUME NEW q \in Request, NEW a \in Agent,
                NEW s \in {"Active", "Paused", "Error"}, SetStatus(q, a, s),
                Noting({})
        PROVE  OnGrid
    BY <1>16 DEF SetStatus, Handler, flags, sched, Only, Quiet, OnGrid
  <1>17. ASSUME NEW q \in Request, NEW a \in Agent, NEW s \in Statuses,
                UpdateRead(q, a, s), Noting({})
        PROVE  OnGrid
    BY <1>17 DEF UpdateRead, Handler, flags, sched, Only, Quiet, OnGrid
  <1>18. ASSUME NEW q \in Request, UpdateSave(q), Noting({})
        PROVE  OnGrid
    BY <1>18 DEF UpdateSave, Handler, flags, sched, Only, Quiet, OnGrid
  <1>19. ASSUME NEW q \in Request, SyncScheduler(q), Noting({})
        PROVE  OnGrid
    BY <1>19 DEF SyncScheduler, Handler, flags, sched, Only, Quiet, OnGrid
  <1>20. ASSUME NEW q \in Request, NEW a \in Agent, Delete(q, a), Noting({})
        PROVE  OnGrid
    BY <1>20 DEF Delete, Handler, flags, sched, Only, Quiet, OnGrid
  <1>21. ASSUME NEW q \in Request, DeleteCache(q), Noting({})
        PROVE  OnGrid
    BY <1>21 DEF DeleteCache, Handler, flags, sched, Only, Quiet, OnGrid
  <1>22. ASSUME NEW q \in Request, DeleteStore(q), Noting({})
        PROVE  OnGrid
    BY <1>22 DEF DeleteStore, Handler, flags, sched, Only, Quiet, OnGrid
  <1>23. ASSUME NEW q \in Request, Disconnect(q), Noting({request[q].agent})
        PROVE  OnGrid
    BY <1>23 DEF Disconnect, Handler, OnGrid
  <1>24. CASE UNCHANGED vars
    BY <1>24 DEF vars, sched, OnGrid
  <1> QED
    BY <1>1, <1>2, <1>3, <1>4, <1>5, <1>6, <1>7, <1>8, <1>9, <1>10, <1>11,
       <1>12, <1>13, <1>14, <1>15, <1>16, <1>17, <1>18, <1>19, <1>20, <1>21,
       <1>22, <1>23, <1>24
       DEF Next, Environment, Scheduling, Handling

-----------------------------------------------------------------------------
(* The theorems *)

\* The first state satisfies the inductive invariant.
LEMMA InitIInv == Init => IInv
  <1> SUFFICES ASSUME Init PROVE IInv
    OBVIOUS
  <1>1. Types
    BY InitTypes
  <1>2. /\ DOMAIN tasks = {} /\ DOMAIN handles = {} /\ slots = {} /\ ~started
        /\ \A e \in Exec : exec[e] = NoExec
        /\ \A q \in Request : request[q] = NoRequest
        /\ listener = Nobody /\ loop.due = {}
    BY EmptyMap DEF Init, LoopOff
  <1>3. \A a \in Agent : status[a] \in {"Active", "Absent"}
    BY DEF Init
  <1>4. HandleInv /\ SlotBacked /\ ExecutingBacked
    BY <1>2 DEF HandleInv, SlotBacked, ExecutingBacked
  <1>5. PermitInv
    <2>1. Holders = {}
      BY <1>2 DEF Holders, HoldsGlobal, NoExec, Working, Rewriting
    <2> QED
      BY <2>1, FS_EmptySet, Numbers DEF PermitInv
  <1>6. \A a \in Agent : Requests(a) = {} /\ ~InUse(a)
    <2>1. /\ \A e \in Exec : exec[e].agent = Nobody
          /\ \A q \in Request : request[q].agent = Nobody
      BY <1>2 DEF NoExec, NoRequest
    <2>2. Nobody \notin Agent
      BY AgentAssumption
    <2> QED
      BY <1>2, <2>1, <2>2 DEF Requests, InUse, Execs
  <1>7. ClashNoted /\ RequestInv
    BY <1>2, <1>6 DEF ClashNoted, Contended, RequestInv, RequestOK, NoRequest
  <1>8. CompletedByHand /\ TaskInv
    BY <1>2, <1>3, <1>6 DEF CompletedByHand, TaskInv, TaskOK, NoRequest
  <1> QED
    BY <1>1, <1>4, <1>5, <1>7, <1>8 DEF IInv

\* Every step keeps it.
LEMMA StepIInv == IInv /\ [Next]_vars => IInv'
  <1> SUFFICES ASSUME IInv, [Next]_vars PROVE IInv'
    OBVIOUS
  <1>1. /\ Types /\ HandleInv /\ PermitInv /\ ClashNoted /\ RequestInv
        /\ CompletedByHand /\ TaskInv /\ SlotInv /\ BackedInv
    BY SlotsOwned, BackedDef DEF IInv
  <1>2. Types' /\ HandleInv' /\ PermitInv'
    BY <1>1, TypesStep, HandleStep, PermitStep
  <1>3. SlotBacked'
    <2>1. SlotInv'
      BY <1>1, SlotStep
    <2> QED
      BY <2>1 DEF SlotBacked, SlotInv, Owned, Owns
  <1>4. ExecutingBacked'
    <2>1. BackedInv'
      BY <1>1, BackedStep
    <2> QED
      BY <2>1 DEF ExecutingBacked, BackedInv, Backed, Execs
  <1>5. ClashNoted' /\ RequestInv' /\ CompletedByHand' /\ TaskInv'
    BY <1>1, ClashStep, RequestStep, CompletedStep, TaskStep
  <1> QED
    BY <1>2, <1>3, <1>4, <1>5 DEF IInv

\* The inductive invariant holds in every state the scheduler, its executions
\* and the API handlers can reach.
THEOREM Invariance == Spec => []IInv
  <1>1. Init => IInv
    BY InitIInv
  <1>2. IInv /\ [Next]_vars => IInv'
    BY StepIInv
  <1> QED
    BY <1>1, <1>2, PTL DEF Spec

\* Every variable keeps its type; a task's next time stays within one interval
\* of the clock's bound.
THEOREM TypeCorrect == Spec => []TypeOK
  <1>1. IInv => TypeOK
    BY DEF IInv, Types
  <1> QED
    BY <1>1, Invariance, PTL

\* No slot of running_executions leaks, whichever way an execution ends
\* (RunningSlotGuard), except those whose task stop() aborted before its
\* first poll.
THEOREM NoSlotLeaks == Spec => []SlotBacked
  <1>1. IInv => SlotBacked
    BY DEF IInv
  <1> QED
    BY <1>1, Invariance, PTL

\* stop() never aborts the wrong task: a handle of running_task_handles is
\* that of an execution of its agent that has not ended.
THEOREM HandlesAreLive == Spec => []HandlesLive
  <1>1. IInv => HandlesLive
    BY DEF IInv, HandleInv, HandlesLive
  <1> QED
    BY <1>1, Invariance, PTL

\* Scheduled and event executions together never pass max_concurrent, the
\* permits of the global semaphore.
THEOREM LimitKept == Spec => []GlobalCap
  <1>1. IInv => GlobalCap
    <2> SUFFICES ASSUME IInv PROVE GlobalCap
      OBVIOUS
    <2> DEFINE W == {e \in Exec : /\ exec[e].kind # "manual"
                                  /\ exec[e].pc \in Working}
    <2>1. IsFiniteSet(Holders) /\ Cardinality(Holders) <= MaxConcurrent
      BY DEF IInv, PermitInv
    <2>2. W \in SUBSET Holders
      BY DEF Holders, HoldsGlobal
    <2>3. IsFiniteSet(W) /\ Cardinality(W) <= Cardinality(Holders)
      BY <2>1, <2>2, FS_Subset
    <2>4. Cardinality(W) \in Nat /\ Cardinality(Holders) \in Nat
      BY <2>1, <2>3, FS_CardinalityType
    <2>5. Cardinality(W) <= MaxConcurrent
      BY <2>1, <2>3, <2>4, Numbers
    <2> QED
      BY <2>5 DEF GlobalCap
  <1> QED
    BY <1>1, Invariance, PTL

\* While the manager runs, an agent that says Executing has an execution that
\* will still write its status, or a reset of the status guard on its way:
\* whether the execution failed, was aborted or could not save its record.  The
\* exceptions are those of the code: the write that was to end it failed, it
\* was aborted between the two tries, or a request or a start that could not
\* reset it has met the agent.
THEOREM NoneStuckExecuting == Spec => []ExecutingBacked
  <1>1. IInv => ExecutingBacked
    BY DEF IInv
  <1> QED
    BY <1>1, Invariance, PTL

\* Once all about it has settled, an Active interval agent has an enabled
\* task, across restarts, failures and aborts, unless a request met an
\* execution on it or was dropped, or a start could not reset it.
THEOREM ActiveAreScheduled == Spec => []ActiveScheduled
  <1>1. IInv => ActiveScheduled
    BY DEF IInv, TaskInv, TaskOK, ActiveScheduled, Settled
  <1> QED
    BY <1>1, Invariance, PTL

\* A paused or deleted agent has no task left, under the same conditions.
THEOREM PausedAreIdle == Spec => []PausedIdle
  <1>1. IInv => PausedIdle
    BY DEF IInv, TaskInv, TaskOK, PausedIdle, Settled
  <1> QED
    BY <1>1, Invariance, PTL

\* update_next_execution moves a task that is taken to the first point of its
\* grid after now, whatever was missed, and no other task.
THEOREM ReservationsOnGrid == Spec => ReservedOnGrid
  <1>1. IInv /\ [Next]_vars => [OnGrid]_tasks
    BY GridStep DEF IInv
  <1> QED
    BY <1>1, Invariance, PTL DEF Spec, ReservedOnGrid, OnGrid

=============================================================================
