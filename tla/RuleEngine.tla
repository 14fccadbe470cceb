----------------------------- MODULE RuleEngine -----------------------------
(***************************************************************************)
(* The event-driven rule engine of heramind-rules (engine.rs), with the     *)
(* API handlers that edit rules (heramind-api handlers/rules.rs), the cron  *)
(* tick and the start-up load (server/types.rs).                            *)
(*                                                                          *)
(* Every entry point runs on a tokio task and several run at once: the      *)
(* device-metric listener, the extension-output listener, the cron tick and *)
(* one task per HTTP request.  The engine's maps sit behind separate        *)
(* parking_lot locks, taken and released one at a time; each critical       *)
(* section is one action here, and tasks interleave between them.           *)
(***************************************************************************)
EXTENDS Integers, Sequences, FiniteSets

CONSTANTS
    Rule,        \* rule ids
    Source,      \* data sources (DataSourceId storage keys)
    Task,        \* concurrently running tokio tasks
    Def,         \* the rule definitions users may install
    Installed,   \* definition of each rule in the store at first boot
    Ops,         \* the rule-editing handlers in use
    MaxTime,     \* bound: last clock value
    MaxCalls,    \* bound: entry points called
    MaxRestarts, \* bound: process restarts
    MaxHistory   \* MAX_HISTORY_SIZE

None == -1
Instant == Nat \cup {None}
Triggers == {"data_change", "schedule", "manual"}
AllOps == {"create", "import", "update", "edit", "delete", "enable"}

\* What a user writes.  `sources` are the leaves of the condition tree, in
\* order and with repetitions; <<>> is a rule without a condition.
Definition == [trigger: Triggers, sources: Seq(Source), cooldown: Nat,
               for_duration: Instant, actions: BOOLEAN]

ASSUME DefAssumption == Def \subseteq Definition
ASSUME InstalledAssumption ==
    /\ DOMAIN Installed \subseteq Rule
    /\ Installed \in [DOMAIN Installed -> Def]
ASSUME NonEmptyAssumption == Rule # {} /\ Source # {} /\ Def # {}
ASSUME OpsAssumption == Ops \subseteq AllOps
ASSUME TaskAssumption == IsFiniteSet(Task)
ASSUME BoundAssumption ==
    /\ MaxTime \in Nat
    /\ MaxCalls \in Nat
    /\ MaxRestarts \in Nat
    /\ MaxHistory \in Nat

CompiledRule == [def: Def, enabled: BOOLEAN, trigger_count: Nat,
                 condition_since: Instant]

VARIABLES
    rules,               \* RuleId -> CompiledRule, a partial function
    subscription_index,  \* Source -> the entries of its Vec<RuleId>
    cooldowns,           \* RuleId -> instant of the last claim
    failures,            \* consecutive_action_failures
    value,               \* does the source's cached value satisfy its leaf?
    history,             \* the in-memory execution log
    rule_store,          \* the redb store: survives a restart
    now,                 \* the clock
    pc, via, rid, src, snap, pend, todo, out,   \* each task's local state
    calls, restarts,     \* bounds
    audit                \* history variables, read by properties only

engine == <<rules, subscription_index, cooldowns, failures, value, history>>
locals == <<pc, via, rid, src, snap, pend, todo, out>>
vars == <<engine, rule_store, now, locals, calls, restarts, audit>>

-----------------------------------------------------------------------------
(* Helpers *)

Put(f, k, v) == [x \in DOMAIN f \cup {k} |-> IF x = k THEN v ELSE f[x]]
Drop(f, k) == [x \in DOMAIN f \ {k} |-> f[x]]

\* CompiledRule::new: enabled, with a fresh RuleState.
Fresh(d) == [def |-> d, enabled |-> TRUE, trigger_count |-> 0,
             condition_since |-> None]

\* The rule a request body describes; `enabled` is the user's to choose.
Submitted(d, enabled) == [Fresh(d) EXCEPT !.enabled = enabled]

HasCondition(rule) == rule.def.sources # <<>>

\* RuleCondition::evaluate for a conjunction of leaves; a source without a
\* cached value makes its leaf false.
Met(rule) == \A i \in DOMAIN rule.def.sources : value[rule.def.sources[i]]

\* The index entry of source s: one element per occurrence of s in the
\* sources of a data-change rule (extract_sources does not remove repeats).
Occurrences(rs, r, s) ==
    IF rs[r].def.trigger = "data_change"
    THEN {<<r, i>> : i \in {j \in DOMAIN rs[r].def.sources :
                               rs[r].def.sources[j] = s}}
    ELSE {}
SubscriptionIndex(rs) ==
    [s \in Source |-> UNION {Occurrences(rs, r, s) : r \in DOMAIN rs}]

\* is_in_cooldown, and the test inside try_claim_cooldown.
InCooldown(r, cooldown) ==
    /\ cooldowns[r] # None
    /\ now - cooldowns[r] < cooldown

\* for_duration applies on the data path and to scheduled rules; a manual
\* trigger skips it.
NeedsSustain(t) ==
    /\ snap[t].def.for_duration # None
    /\ via[t] = "data" \/ snap[t].def.trigger = "schedule"


Goto(t, l) == pc' = [pc EXCEPT ![t] = l]

\* A task holds no rule between two rules of a call, and nothing when idle.
NoRule == CHOOSE r \in Rule : TRUE
NoSource == CHOOSE s \in Source : TRUE
NoSnap == Fresh(CHOOSE d \in Def : TRUE)

\* A rule is done: on to the next one of the call, or the call returns.
Done(t) ==
    /\ Goto(t, IF todo[t] = {} THEN "idle" ELSE "next")
    /\ via' = [via EXCEPT ![t] = IF todo[t] = {} THEN "data" ELSE @]
    /\ rid' = [rid EXCEPT ![t] = NoRule]
    /\ snap' = [snap EXCEPT ![t] = NoSnap]
    /\ pend' = [pend EXCEPT ![t] = NoSnap]
    /\ out' = [out EXCEPT ![t] = "none"]
    /\ UNCHANGED <<src, todo>>

\* An entry point is called on an idle task.
Call(t, op) ==
    /\ pc[t] = "idle"
    /\ calls < MaxCalls
    /\ calls' = calls + 1
    /\ via' = [via EXCEPT ![t] = op]
    /\ UNCHANGED <<now, restarts>>

\* Between calls the bounds do not move.
Inside == UNCHANGED <<now, calls, restarts>>

-----------------------------------------------------------------------------
(* Initial state: the process has loaded the installed rules from the store *)

NewAudit(n) == [claim |-> None, excuse |-> "none", early |-> 0, streaks |-> 0,
                fires |-> n, unmet |-> None, edited |-> FALSE]

NoTasks ==
    /\ pc = [t \in Task |-> "idle"]
    /\ via = [t \in Task |-> "data"]
    /\ rid = [t \in Task |-> NoRule]
    /\ src = [t \in Task |-> NoSource]
    /\ snap = [t \in Task |-> NoSnap]
    /\ pend = [t \in Task |-> NoSnap]
    /\ todo = [t \in Task |-> {}]
    /\ out = [t \in Task |-> "none"]

Init ==
    /\ rule_store = [r \in DOMAIN Installed |-> Fresh(Installed[r])]
    /\ rules = rule_store
    /\ subscription_index = SubscriptionIndex(rules)
    /\ cooldowns = [r \in Rule |-> None]
    /\ failures = [r \in Rule |-> 0]
    /\ value = [s \in Source |-> FALSE]
    /\ history = <<>>
    /\ NoTasks
    /\ now = 0
    /\ calls = 0
    /\ restarts = 0
    /\ audit = [r \in Rule |-> NewAudit(0)]

-----------------------------------------------------------------------------
(* Entry points of the evaluation path *)

\* A listener task caches the new value, then calls on_data_update.
DataUpdate(t, s, v) ==
    /\ Call(t, "data")
    /\ value' = [value EXCEPT ![s] = v]
    /\ src' = [src EXCEPT ![t] = s]
    /\ Goto(t, "lookup")
    /\ UNCHANGED <<rules, subscription_index, cooldowns, failures, history,
                   rule_store, rid, snap, pend, todo, out, audit>>

\* on_data_update, step 1: clone the Arc of the source's index entry.
Lookup(t) ==
    /\ pc[t] = "lookup"
    /\ todo' = [todo EXCEPT ![t] = subscription_index[src[t]]]
    /\ src' = [src EXCEPT ![t] = NoSource]
    /\ Goto(t, IF subscription_index[src[t]] = {} THEN "idle" ELSE "next")
    /\ Inside
    /\ UNCHANGED <<engine, rule_store, via, rid, snap, pend, out, audit>>

\* execute_rule on behalf of a trigger or test request, or an agent tool.
ExecuteRule(t, r) ==
    /\ Call(t, "call")
    /\ todo' = [todo EXCEPT ![t] = {<<r, 1>>}]
    /\ Goto(t, "next")
    /\ UNCHANGED <<engine, rule_store, rid, src, snap, pend, out, audit>>

\* The cron loop (a single task): list_schedule_rules, then execute_rule on
\* each rule whose expression matched in the last 30 s window.
CronTick(t, due) ==
    /\ \A u \in Task : via[u] # "cron"
    /\ due # {}
    /\ \A r \in due : /\ r \in DOMAIN rules
                      /\ rules[r].enabled
                      /\ rules[r].def.trigger = "schedule"
    /\ Call(t, "cron")
    /\ todo' = [todo EXCEPT ![t] = {<<r, 1>> : r \in due}]
    /\ Goto(t, "next")
    /\ UNCHANGED <<engine, rule_store, rid, src, snap, pend, out, audit>>

-----------------------------------------------------------------------------
(* evaluate_and_fire (via = "data") and execute_rule (via = "call", "cron") *)

\* A missing rule ends the evaluation; the data path also stops at a disabled
\* one, execute_rule does not look at `enabled`.
Evaluable(t, r) ==
    /\ r \in DOMAIN rules
    /\ via[t] = "data" => rules[r].enabled

\* Clone the next rule out of the map, or skip it.
CloneRule(t) ==
    /\ pc[t] = "next"
    /\ \E p \in todo[t] :
        /\ todo' = [todo EXCEPT ![t] = @ \ {p}]
        /\ \/ /\ Evaluable(t, p[1])
              /\ rid' = [rid EXCEPT ![t] = p[1]]
              /\ snap' = [snap EXCEPT ![t] = rules[p[1]]]
              /\ Goto(t, "check")
              /\ UNCHANGED via
           \/ /\ ~Evaluable(t, p[1])
              /\ Goto(t, IF todo[t] = {p} THEN "idle" ELSE "next")
              /\ via' = [via EXCEPT ![t] =
                            IF todo[t] = {p} THEN "data" ELSE @]
              /\ UNCHANGED <<rid, snap>>
    /\ Inside
    /\ UNCHANGED <<engine, rule_store, src, pend, out, audit>>

\* is_in_cooldown: the early exit, not yet a claim.  A data rule without a
\* condition is skipped here too; execute_rule runs it unconditionally.
CheckCooldown(t) ==
    /\ pc[t] = "check"
    /\ \/ /\ \/ InCooldown(rid[t], snap[t].def.cooldown)
             \/ via[t] = "data" /\ ~HasCondition(snap[t])
          /\ Done(t)
       \/ /\ ~InCooldown(rid[t], snap[t].def.cooldown)
          /\ via[t] = "data" => HasCondition(snap[t])
          /\ Goto(t, "eval")
          /\ UNCHANGED <<via, rid, src, snap, pend, todo, out>>
    /\ Inside
    /\ UNCHANGED <<engine, rule_store, audit>>

\* Evaluate the cloned condition against the value provider.
Evaluate(t) ==
    /\ pc[t] = "eval"
    /\ Goto(t, IF ~Met(snap[t]) THEN "unmet"
               ELSE IF NeedsSustain(t) THEN "sustain" ELSE "claim")
    /\ Inside
    /\ UNCHANGED <<engine, rule_store, via, rid, src, snap, pend, todo, out,
                   audit>>

\* update_condition_since(false) under the rules lock.  Only a change is
\* persisted, and the snapshot is saved after the lock is released.
ConditionUnmet(t) ==
    LET r == rid[t] IN
    /\ pc[t] = "unmet"
    /\ \/ /\ r \in DOMAIN rules
          /\ rules[r].condition_since # None
          /\ rules' = [rules EXCEPT ![r].condition_since = None]
          /\ pend' = [pend EXCEPT ![t] =
                         [rules[r] EXCEPT !.condition_since = None]]
          /\ Goto(t, "saveUnmet")
          /\ UNCHANGED <<via, rid, src, snap, todo, out>>
       \/ /\ r \in DOMAIN rules => rules[r].condition_since = None
          /\ Done(t)
          /\ UNCHANGED rules
    /\ audit' = [audit EXCEPT ![r].unmet = now]
    /\ Inside
    /\ UNCHANGED <<subscription_index, cooldowns, failures, value, history,
                   rule_store>>

\* As it was before condition_since was persisted: no save.
ConditionMet_unsaved(t) ==
    LET r == rid[t]
        since == IF rules[r].condition_since = None
                 THEN now ELSE rules[r].condition_since IN
    /\ pc[t] = "sustain"
    /\ r \in DOMAIN rules
    /\ rules' = [rules EXCEPT ![r].condition_since = since]
    /\ pend' = [pend EXCEPT ![t] =
                   [rules[r] EXCEPT !.condition_since = since]]
    /\ Goto(t, "elapsed")
    /\ Inside
    /\ UNCHANGED <<subscription_index, cooldowns, failures, value, history,
                   rule_store, via, rid, src, snap, todo, out, audit>>

\* The clock read from the clone made before the evaluation, not from the map.
ConditionMet_stale(t) ==
    LET r == rid[t]
        since == IF snap[t].condition_since = None
                 THEN now ELSE snap[t].condition_since IN
    /\ pc[t] = "sustain"
    /\ r \in DOMAIN rules
    /\ rules' = [rules EXCEPT ![r].condition_since = since]
    /\ pend' = [pend EXCEPT ![t] =
                   [rules[r] EXCEPT !.condition_since = since]]
    /\ Goto(t, "saveSince")
    /\ Inside
    /\ UNCHANGED <<subscription_index, cooldowns, failures, value, history,
                   rule_store, via, rid, src, snap, todo, out, audit>>

\* update_condition_since(true): start the clock, or read it.
ConditionMet(t) ==
    LET r == rid[t]
        since == IF rules[r].condition_since = None
                 THEN now ELSE rules[r].condition_since IN
    /\ pc[t] = "sustain"
    /\ \/ /\ r \in DOMAIN rules
          /\ rules' = [rules EXCEPT ![r].condition_since = since]
          /\ pend' = [pend EXCEPT ![t] =
                         [rules[r] EXCEPT !.condition_since = since]]
          /\ Goto(t, IF rules[r].condition_since = None
                     THEN "saveSince" ELSE "elapsed")
          /\ UNCHANGED <<via, rid, src, snap, todo, out>>
       \/ /\ r \notin DOMAIN rules
          /\ Done(t)
          /\ UNCHANGED rules
    /\ Inside
    /\ UNCHANGED <<subscription_index, cooldowns, failures, value, history,
                   rule_store, audit>>

\* store.save(&snapshot), outside the rules lock.
SaveSnapshot(t) ==
    /\ pc[t] \in {"saveUnmet", "saveSince", "saveState"}
    /\ rule_store' = Put(rule_store, rid[t], pend[t])
    /\ \/ /\ pc[t] = "saveUnmet"
          /\ Done(t)
       \/ /\ pc[t] # "saveUnmet"
          /\ Goto(t, IF pc[t] = "saveSince" THEN "elapsed" ELSE "log")
          /\ UNCHANGED <<via, rid, src, snap, pend, todo, out>>
    /\ Inside
    /\ UNCHANGED <<engine, audit>>

\* Has the condition held for for_duration, by the instant just returned?
CheckElapsed(t) ==
    /\ pc[t] = "elapsed"
    /\ \/ /\ now - pend[t].condition_since < snap[t].def.for_duration
          /\ Done(t)
       \/ /\ now - pend[t].condition_since >= snap[t].def.for_duration
          /\ Goto(t, "claim")
          /\ UNCHANGED <<via, rid, src, snap, pend, todo, out>>
    /\ Inside
    /\ UNCHANGED <<engine, rule_store, audit>>

\* The claim's entry in the audit: it is early when it comes within the
\* cooldown of the previous claim, and a removal did not forget that claim.
Claimed(a, cooldown) ==
    [a EXCEPT !.claim = now,
              !.excuse = "none",
              !.early = @ + (IF a.claim # None /\ now - a.claim < cooldown
                                /\ a.excuse # "removed" THEN 1 ELSE 0),
              !.fires = @ + 1]

\* The slip the comment on try_claim_cooldown warns of: trust the earlier
\* is_in_cooldown and only set the timestamp here.
TryClaimCooldown_unchecked(t) ==
    LET r == rid[t]
        cooldown == snap[t].def.cooldown IN
    /\ pc[t] = "claim"
    /\ cooldowns' = [cooldowns EXCEPT ![r] = now]
    /\ audit' = [audit EXCEPT ![r] = Claimed(@, cooldown)]
    /\ Goto(t, "act")
    /\ Inside
    /\ UNCHANGED <<rules, subscription_index, failures, value, history,
                   rule_store, via, rid, src, snap, pend, todo, out>>

\* try_claim_cooldown: test and set under one write lock.
TryClaimCooldown(t) ==
    LET r == rid[t]
        cooldown == snap[t].def.cooldown IN
    /\ pc[t] = "claim"
    /\ \/ /\ InCooldown(r, cooldown)
          /\ Done(t)
          /\ UNCHANGED <<cooldowns, audit>>
       \/ /\ ~InCooldown(r, cooldown)
          /\ cooldowns' = [cooldowns EXCEPT ![r] = now]
          /\ audit' = [audit EXCEPT ![r] = Claimed(@, cooldown)]
          /\ Goto(t, "act")
          /\ UNCHANGED <<via, rid, src, snap, pend, todo, out>>
    /\ Inside
    /\ UNCHANGED <<rules, subscription_index, failures, value, history,
                   rule_store>>

\* Run the actions in order: some succeed ("ok"), all fail ("failed"), or the
\* rule has none.  Only execute_rule looks at the failures afterwards.
ExecuteActions(t) ==
    /\ pc[t] = "act"
    /\ \E o \in IF snap[t].def.actions THEN {"ok", "failed"} ELSE {"none"} :
        /\ out' = [out EXCEPT ![t] = o]
        /\ Goto(t, IF via[t] = "data" \/ o = "none" THEN "bump" ELSE "count")
    /\ Inside
    /\ UNCHANGED <<engine, rule_store, via, rid, src, snap, pend, todo, audit>>

\* The full refund that the pacing replaced.
CountFailure_always(t) ==
    LET r == rid[t] IN
    /\ pc[t] = "count"
    /\ out[t] = "failed"
    /\ failures' = [failures EXCEPT ![r] = @ + 1]
    /\ audit' = [audit EXCEPT ![r].streaks =
                    @ + (IF failures[r] = 0 THEN 1 ELSE 0)]
    /\ Goto(t, "refund")
    /\ Inside
    /\ UNCHANGED <<rules, subscription_index, cooldowns, value, history,
                   rule_store, via, rid, src, snap, pend, todo, out>>

\* Every action failed: count it; only the first of a streak is refunded.
CountFailure(t) ==
    LET r == rid[t] IN
    /\ pc[t] = "count"
    /\ out[t] = "failed"
    /\ failures' = [failures EXCEPT ![r] = @ + 1]
    /\ audit' = [audit EXCEPT ![r].streaks =
                    @ + (IF failures[r] = 0 THEN 1 ELSE 0)]
    /\ Goto(t, IF failures[r] = 0 THEN "refund" ELSE "bump")
    /\ Inside
    /\ UNCHANGED <<rules, subscription_index, cooldowns, value, history,
                   rule_store, via, rid, src, snap, pend, todo, out>>

\* One failure taken off the streak instead of ending it.
ClearFailures_decrement(t) ==
    /\ pc[t] = "count"
    /\ out[t] = "ok"
    /\ failures' = [failures EXCEPT ![rid[t]] = @ - 1]
    /\ Goto(t, "bump")
    /\ Inside
    /\ UNCHANGED <<rules, subscription_index, cooldowns, value, history,
                   rule_store, via, rid, src, snap, pend, todo, out, audit>>

\* Some action succeeded: the streak is over.
ClearFailures(t) ==
    /\ pc[t] = "count"
    /\ out[t] = "ok"
    /\ failures' = [failures EXCEPT ![rid[t]] = 0]
    /\ Goto(t, "bump")
    /\ Inside
    /\ UNCHANGED <<rules, subscription_index, cooldowns, value, history,
                   rule_store, via, rid, src, snap, pend, todo, out, audit>>

\* cooldowns.remove: whichever claim is there, not only this task's.
RefundCooldown(t) ==
    LET r == rid[t] IN
    /\ pc[t] = "refund"
    /\ cooldowns' = [cooldowns EXCEPT ![r] = None]
    /\ audit' = [audit EXCEPT ![r].excuse =
                    IF @ = "removed" THEN @ ELSE "refund"]
    /\ Goto(t, "bump")
    /\ Inside
    /\ UNCHANGED <<rules, subscription_index, failures, value, history,
                   rule_store, via, rid, src, snap, pend, todo, out>>

\* The new state computed from the clone made before the actions ran.
UpdateStateAfterTrigger_stale(t) ==
    LET r == rid[t]
        fired == [snap[t] EXCEPT !.trigger_count = @ + 1,
                                 !.condition_since = None] IN
    /\ pc[t] = "bump"
    /\ r \in DOMAIN rules
    /\ rules' = [rules EXCEPT ![r] = fired]
    /\ pend' = [pend EXCEPT ![t] = fired]
    /\ Goto(t, "saveState")
    /\ Inside
    /\ UNCHANGED <<subscription_index, cooldowns, failures, value, history,
                   rule_store, via, rid, src, snap, todo, out, audit>>

\* update_rule_state_after_trigger under the rules lock; the save follows.
UpdateStateAfterTrigger(t) ==
    LET r == rid[t]
        fired == [rules[r] EXCEPT !.trigger_count = @ + 1,
                                  !.condition_since = None] IN
    /\ pc[t] = "bump"
    /\ \/ /\ r \in DOMAIN rules
          /\ rules' = [rules EXCEPT ![r] = fired]
          /\ pend' = [pend EXCEPT ![t] = fired]
          /\ Goto(t, "saveState")
       \/ /\ r \notin DOMAIN rules
          /\ Goto(t, "log")
          /\ UNCHANGED <<rules, pend>>
    /\ Inside
    /\ UNCHANGED <<subscription_index, cooldowns, failures, value, history,
                   rule_store, via, rid, src, snap, todo, out, audit>>

\* record_history: append, drop the oldest beyond MAX_HISTORY_SIZE.
RecordHistory(t) ==
    LET log == Append(history, [rule |-> rid[t], failed |-> out[t] = "failed"])
    IN
    /\ pc[t] = "log"
    /\ history' = IF Len(log) > MaxHistory THEN Tail(log) ELSE log
    /\ Done(t)
    /\ Inside
    /\ UNCHANGED <<rules, subscription_index, cooldowns, failures, value,
                   rule_store, audit>>

-----------------------------------------------------------------------------
(* Rule editing: RuleEngine CRUD as the API handlers call it *)

Taint(r) == audit' = [audit EXCEPT ![r].edited = TRUE]

\* create_rule_handler and import_rules_handler: add_rule inserts (the body
\* may carry the id of an existing rule).
AddRule(t, op, r, d, enabled) ==
    /\ op \in Ops
    /\ Call(t, op)
    /\ rules' = Put(rules, r, Submitted(d, enabled))
    /\ rid' = [rid EXCEPT ![t] = r]
    /\ snap' = [snap EXCEPT ![t] = Submitted(d, enabled)]
    /\ Goto(t, "rebuild")
    /\ Taint(r)
    /\ UNCHANGED <<subscription_index, cooldowns, failures, value, history,
                   rule_store, src, pend, todo, out>>

\* update_rule_handler with a full definition: take over the runtime state of
\* the existing rule, if there is one (and `enabled`, if the body has none).
ReadForUpdate(t, r, d, enabled) ==
    /\ "update" \in Ops
    /\ Call(t, "update")
    /\ rid' = [rid EXCEPT ![t] = r]
    /\ snap' = [snap EXCEPT ![t] = IF r \in DOMAIN rules
                                   THEN [rules[r] EXCEPT !.def = d,
                                                         !.enabled = enabled]
                                   ELSE Submitted(d, enabled)]
    /\ Goto(t, "upsert")
    /\ UNCHANGED <<engine, rule_store, src, pend, todo, out, audit>>

\* update_rule_handler with some fields only: an unknown rule is a 404.
ReadForEdit(t, r, enabled) ==
    /\ "edit" \in Ops
    /\ r \in DOMAIN rules
    /\ Call(t, "edit")
    /\ rid' = [rid EXCEPT ![t] = r]
    /\ snap' = [snap EXCEPT ![t] = [rules[r] EXCEPT !.enabled = enabled]]
    /\ Goto(t, "upsert")
    /\ UNCHANGED <<engine, rule_store, src, pend, todo, out, audit>>

\* RuleEngine::update_rule: replace the whole record.
UpdateRule(t) ==
    /\ pc[t] = "upsert"
    /\ rules' = Put(rules, rid[t], snap[t])
    /\ Goto(t, "rebuild")
    /\ Taint(rid[t])
    /\ Inside
    /\ UNCHANGED <<subscription_index, cooldowns, failures, value, history,
                   rule_store, via, rid, src, snap, pend, todo, out>>

\* remove_rule, first critical section; an unknown rule is a 404.
RemoveRule(t, r) ==
    /\ "delete" \in Ops
    /\ r \in DOMAIN rules
    /\ Call(t, "delete")
    /\ rules' = Drop(rules, r)
    /\ rid' = [rid EXCEPT ![t] = r]
    /\ Goto(t, "rebuild")
    /\ Taint(r)
    /\ UNCHANGED <<subscription_index, cooldowns, failures, value, history,
                   rule_store, src, snap, pend, todo, out>>

\* The try_read rebuild that parking_lot replaced: it kept the old index when
\* the trigger path held the rules lock.
RebuildAllSubscriptions_tryRead(t) ==
    /\ pc[t] = "rebuild"
    /\ subscription_index' =
          IF \E u \in Task : pc[u] = "bump" THEN subscription_index
          ELSE SubscriptionIndex(rules)
    /\ \/ /\ via[t] = "import"
          /\ Done(t)
       \/ /\ via[t] # "import"
          /\ Goto(t, IF via[t] = "delete" THEN "uncool" ELSE "persist")
          /\ UNCHANGED <<via, rid, src, snap, pend, todo, out>>
    /\ Inside
    /\ UNCHANGED <<rules, cooldowns, failures, value, history, rule_store,
                   audit>>

\* rebuild_all_subscriptions: the rules read guard is held across the write
\* of the index, so the index is the one of the current rules.
RebuildAllSubscriptions(t) ==
    /\ pc[t] = "rebuild"
    /\ subscription_index' = SubscriptionIndex(rules)
    /\ \/ /\ via[t] = "import"
          /\ Done(t)
       \/ /\ via[t] # "import"
          /\ Goto(t, IF via[t] = "delete" THEN "uncool" ELSE "persist")
          /\ UNCHANGED <<via, rid, src, snap, pend, todo, out>>
    /\ Inside
    /\ UNCHANGED <<rules, cooldowns, failures, value, history, rule_store,
                   audit>>

\* The handler saves the record it built (import saves nothing).
Persist(t) ==
    /\ pc[t] = "persist"
    /\ rule_store' = Put(rule_store, rid[t], snap[t])
    /\ Done(t)
    /\ Inside
    /\ UNCHANGED <<engine, audit>>

\* remove_rule, last critical section.
ForgetCooldown(t) ==
    /\ pc[t] = "uncool"
    /\ cooldowns' = [cooldowns EXCEPT ![rid[t]] = None]
    /\ audit' = [audit EXCEPT ![rid[t]].excuse = "removed"]
    /\ Goto(t, "unstore")
    /\ Inside
    /\ UNCHANGED <<rules, subscription_index, failures, value, history,
                   rule_store, via, rid, src, snap, pend, todo, out>>

\* delete_rule_handler: store.delete.
DeleteStored(t) ==
    /\ pc[t] = "unstore"
    /\ rule_store' = Drop(rule_store, rid[t])
    /\ Done(t)
    /\ Inside
    /\ UNCHANGED <<engine, audit>>

\* set_rule_status_handler: set_enabled, then get_rule, then save.
SetEnabled(t, r, enabled) ==
    /\ "enable" \in Ops
    /\ r \in DOMAIN rules
    /\ Call(t, "enable")
    /\ rules' = [rules EXCEPT ![r].enabled = enabled]
    /\ rid' = [rid EXCEPT ![t] = r]
    /\ Goto(t, "reread")
    /\ UNCHANGED <<subscription_index, cooldowns, failures, value, history,
                   rule_store, src, snap, pend, todo, out, audit>>

ReadBack(t) ==
    LET r == rid[t] IN
    /\ pc[t] = "reread"
    /\ \/ /\ r \in DOMAIN rules
          /\ snap' = [snap EXCEPT ![t] = rules[r]]
          /\ Goto(t, "persist")
          /\ UNCHANGED <<via, rid, src, pend, todo, out>>
       \/ /\ r \notin DOMAIN rules
          /\ Done(t)
    /\ Inside
    /\ UNCHANGED <<engine, rule_store, audit>>

-----------------------------------------------------------------------------
(* The environment *)

Tick ==
    /\ now < MaxTime
    /\ now' = now + 1
    /\ UNCHANGED <<engine, rule_store, locals, calls, restarts, audit>>

\* The process dies at any point and starts again: list_all from the store,
\* add_rule (and rebuild) for each rule; every other map starts empty.
Restart ==
    /\ restarts < MaxRestarts
    /\ restarts' = restarts + 1
    /\ rules' = rule_store
    /\ subscription_index' = SubscriptionIndex(rule_store)
    /\ cooldowns' = [r \in Rule |-> None]
    /\ failures' = [r \in Rule |-> 0]
    /\ value' = [s \in Source |-> FALSE]
    /\ history' = <<>>
    /\ pc' = [t \in Task |-> "idle"]
    /\ via' = [t \in Task |-> "data"]
    /\ rid' = [t \in Task |-> NoRule]
    /\ src' = [t \in Task |-> NoSource]
    /\ snap' = [t \in Task |-> NoSnap]
    /\ pend' = [t \in Task |-> NoSnap]
    /\ todo' = [t \in Task |-> {}]
    /\ out' = [t \in Task |-> "none"]
    /\ audit' = [r \in Rule |-> NewAudit(IF r \in DOMAIN rule_store
                                         THEN rule_store[r].trigger_count
                                         ELSE 0)]
    /\ UNCHANGED <<rule_store, now, calls>>

EntryPoint(t) ==
    \/ \E s \in Source, v \in BOOLEAN : DataUpdate(t, s, v)
    \/ \E r \in Rule : ExecuteRule(t, r)
    \/ \E due \in SUBSET Rule : CronTick(t, due)
    \/ \E r \in Rule, d \in Def, b \in BOOLEAN :
          \/ AddRule(t, "create", r, d, b)
          \/ AddRule(t, "import", r, d, b)
          \/ ReadForUpdate(t, r, d, b)
    \/ \E r \in Rule, b \in BOOLEAN :
          \/ ReadForEdit(t, r, b)
          \/ SetEnabled(t, r, b)
    \/ \E r \in Rule : RemoveRule(t, r)

EvaluationStep(t) ==
    \/ Lookup(t)
    \/ CloneRule(t)
    \/ CheckCooldown(t)
    \/ Evaluate(t)
    \/ ConditionUnmet(t)
    \/ ConditionMet(t)
    \/ SaveSnapshot(t)
    \/ CheckElapsed(t)
    \/ TryClaimCooldown(t)
    \/ ExecuteActions(t)
    \/ CountFailure(t)
    \/ ClearFailures(t)
    \/ RefundCooldown(t)
    \/ UpdateStateAfterTrigger(t)
    \/ RecordHistory(t)

EditStep(t) ==
    \/ UpdateRule(t)
    \/ RebuildAllSubscriptions(t)
    \/ Persist(t)
    \/ ForgetCooldown(t)
    \/ DeleteStored(t)
    \/ ReadBack(t)

Next ==
    \/ \E t \in Task : EntryPoint(t) \/ EvaluationStep(t) \/ EditStep(t)
    \/ Tick
    \/ Restart

Spec == Init /\ [][Next]_vars

-----------------------------------------------------------------------------
(* Properties *)

Labels == {"idle", "lookup", "next", "check", "eval", "unmet", "saveUnmet",
           "sustain", "saveSince", "elapsed", "claim", "act", "count",
           "refund", "bump", "saveState", "log", "upsert", "rebuild",
           "persist", "uncool", "unstore", "reread"}
Vias == {"data", "call", "cron"} \cup AllOps
Outcomes == {"none", "ok", "failed"}
Audit == [claim: Instant, excuse: {"none", "refund", "removed"}, early: Nat,
          streaks: Nat, fires: Nat, unmet: Instant, edited: BOOLEAN]

\* A HashMap keyed by rule ids.
RuleMap(m) ==
    /\ DOMAIN m \subseteq Rule
    /\ m \in [DOMAIN m -> CompiledRule]

MapsOK ==
    /\ RuleMap(rules)
    /\ RuleMap(rule_store)
    /\ subscription_index \in [Source -> SUBSET (Rule \X Nat)]
    /\ cooldowns \in [Rule -> Instant]
    /\ failures \in [Rule -> Nat]
    /\ value \in [Source -> BOOLEAN]
    /\ history \in Seq([rule: Rule, failed: BOOLEAN])

TasksOK ==
    /\ pc \in [Task -> Labels]
    /\ via \in [Task -> Vias]
    /\ rid \in [Task -> Rule]
    /\ src \in [Task -> Source]
    /\ snap \in [Task -> CompiledRule]
    /\ pend \in [Task -> CompiledRule]
    /\ todo \in [Task -> SUBSET (Rule \X Nat)]
    /\ out \in [Task -> Outcomes]

CountersOK ==
    /\ now \in Nat
    /\ calls \in Nat
    /\ restarts \in Nat
    /\ audit \in [Rule -> Audit]

\* Every map of the engine, the store and every task's locals hold values of
\* the types engine.rs and models.rs give them.
TypeOK == MapsOK /\ TasksOK /\ CountersOK

\* rebuild_all_subscriptions never leaves a stale index: whenever no edit is
\* between its write of `rules` and its rebuild, the index on_data_update
\* reads is exactly the one of the current rules, so no rule is silently
\* unevaluated and no deleted one is looked up, whatever the trigger path does.
IndexFresh ==
    (\A t \in Task : pc[t] # "rebuild") =>
        subscription_index = SubscriptionIndex(rules)

\* try_claim_cooldown: two firings of a rule are at least its cooldown apart,
\* however many tasks passed is_in_cooldown together, unless the first was
\* refunded or the rule was removed in between.
NoDoubleFire ==
    [][\A t \in Task :
        LET a == audit[rid[t]] IN
        pc[t] = "claim" /\ pc'[t] = "act" =>
            \/ a.claim = None
            \/ a.excuse # "none"
            \/ now - a.claim >= snap[t].def.cooldown]_vars

\* execute_rule's pacing: a rule fires within its cooldown at most once per
\* streak of all-failed executions, so a persistently failing rule fires once
\* per window after its single immediate retry.
EarlyFiresPaid ==
    \A r \in Rule : audit[r].early <= audit[r].streaks

\* A task between its claim and update_rule_state_after_trigger.
Firing(t) == pc[t] \in {"act", "count", "refund", "bump"}

\* trigger_count is exact: each successful claim is counted once, by the task
\* that made it, as long as no handler replaced or removed the rule's record.
FiresAccounted ==
    \A r \in DOMAIN rules : ~audit[r].edited =>
        audit[r].fires = rules[r].trigger_count
                         + Cardinality({t \in Task : Firing(t) /\ rid[t] = r})

\* for_duration is measured from after the last evaluation that found the
\* condition false: update_condition_since never keeps, and never brings
\* back, a condition_since older than its last reset.
SinceAfterUnmet ==
    \A r \in DOMAIN rules :
        ~audit[r].edited /\ rules[r].condition_since # None =>
            rules[r].condition_since >= audit[r].unmet

\* The same for every rule, those an update handler wrote included: what the
\* comment on for_duration, "Condition must hold for this long before
\* triggering", asks of condition_since.
SinceAfterUnmetAlways ==
    \A r \in DOMAIN rules :
        rules[r].condition_since # None =>
            rules[r].condition_since >= audit[r].unmet

\* A restart of an engine at rest loses nothing: every change of a rule or of
\* its runtime state has reached the store when no call is in progress.
StoreInSync ==
    (\A t \in Task : pc[t] = "idle") => rule_store = rules

=============================================================================
