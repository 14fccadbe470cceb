-------------------------- MODULE RuleEngineProofs --------------------------
(***************************************************************************)
(* Theorems about RuleEngine, for every set of rules, sources, tasks and    *)
(* definitions and for every bound.                                         *)
(***************************************************************************)
EXTENDS RuleEngine, FiniteSetTheorems, TLAPS

-----------------------------------------------------------------------------
(* Helpers *)

\* Inserting a rule in a map keyed by rule ids gives such a map.
LEMMA PutType ==
    ASSUME NEW m, RuleMap(m), NEW r \in Rule, NEW v \in CompiledRule
    PROVE  RuleMap(Put(m, r, v))
  BY DEF RuleMap, Put

\* Removing a rule from a map keyed by rule ids gives such a map.
LEMMA DropType ==
    ASSUME NEW m, RuleMap(m), NEW r
    PROVE  RuleMap(Drop(m, r))
  BY DEF RuleMap, Drop

\* A present rule's record is a compiled rule.
LEMMA LookupType ==
    ASSUME NEW m, RuleMap(m), NEW r \in DOMAIN m
    PROVE  r \in Rule /\ m[r] \in CompiledRule
  BY DEF RuleMap

\* Replacing a present rule's record keeps the map.
LEMMA ExceptType ==
    ASSUME NEW m, RuleMap(m), NEW r \in DOMAIN m, NEW v \in CompiledRule
    PROVE  RuleMap([m EXCEPT ![r] = v])
  BY DEF RuleMap

\* A freshly created rule is a compiled rule.
LEMMA FreshType ==
    ASSUME NEW d \in Def
    PROVE  Fresh(d) \in CompiledRule
  BY DEF Fresh, CompiledRule, Instant, None

\* The rule of a request body is a compiled rule.
LEMMA SubmittedType ==
    ASSUME NEW d \in Def, NEW b \in BOOLEAN
    PROVE  Submitted(d, b) \in CompiledRule
  BY FreshType DEF Submitted, CompiledRule

\* The placeholders of idle tasks are of the right types.
LEMMA BlankType ==
    NoRule \in Rule /\ NoSource \in Source /\ NoSnap \in CompiledRule
  <1>1. NoRule \in Rule /\ NoSource \in Source
    BY NonEmptyAssumption DEF NoRule, NoSource
  <1>2. (CHOOSE d \in Def : TRUE) \in Def
    BY NonEmptyAssumption
  <1> QED BY <1>1, <1>2, FreshType DEF NoSnap

\* The index built from a map of rules lists pairs of a rule and a position.
LEMMA IndexType ==
    ASSUME NEW m, RuleMap(m)
    PROVE  SubscriptionIndex(m) \in [Source -> SUBSET (Rule \X Nat)]
  <1>1. ASSUME NEW s \in Source, NEW r \in DOMAIN m
        PROVE  Occurrences(m, r, s) \subseteq Rule \X Nat
    <2>1. r \in Rule /\ m[r] \in CompiledRule
      BY LookupType
    <2>2. m[r].def.sources \in Seq(Source)
      BY <2>1, DefAssumption DEF CompiledRule, Definition
    <2>3. DOMAIN m[r].def.sources \subseteq Nat
      BY <2>2
    <2> QED BY <2>1, <2>3 DEF Occurrences
  <1> QED BY <1>1 DEF SubscriptionIndex

-----------------------------------------------------------------------------
(* Type correctness *)

\* update_condition_since writes a compiled rule back.
LEMMA SinceType ==
    ASSUME NEW m, RuleMap(m), NEW r \in DOMAIN m, NEW x \in Instant
    PROVE  /\ [m[r] EXCEPT !.condition_since = x] \in CompiledRule
           /\ RuleMap([m EXCEPT ![r].condition_since = x])
  <1>1. [m[r] EXCEPT !.condition_since = x] \in CompiledRule
    BY LookupType DEF CompiledRule
  <1>2. RuleMap([m EXCEPT ![r] = [m[r] EXCEPT !.condition_since = x]])
    BY <1>1, ExceptType
  <1> QED BY <1>1, <1>2

\* So do set_enabled and a partial update.
LEMMA EnabledType ==
    ASSUME NEW m, RuleMap(m), NEW r \in DOMAIN m, NEW b \in BOOLEAN
    PROVE  /\ [m[r] EXCEPT !.enabled = b] \in CompiledRule
           /\ RuleMap([m EXCEPT ![r].enabled = b])
  <1>1. [m[r] EXCEPT !.enabled = b] \in CompiledRule
    BY LookupType DEF CompiledRule
  <1>2. RuleMap([m EXCEPT ![r] = [m[r] EXCEPT !.enabled = b]])
    BY <1>1, ExceptType
  <1> QED BY <1>1, <1>2

\* And a full update, which takes over the runtime state.
LEMMA RedefineType ==
    ASSUME NEW m, RuleMap(m), NEW r \in DOMAIN m, NEW d \in Def,
           NEW b \in BOOLEAN
    PROVE  [m[r] EXCEPT !.def = d, !.enabled = b] \in CompiledRule
  BY LookupType, ZenonT(60) DEF CompiledRule

\* update_rule_state_after_trigger writes a compiled rule back.
LEMMA FiredType ==
    ASSUME NEW m, RuleMap(m), NEW r \in DOMAIN m
    PROVE  [m[r] EXCEPT !.trigger_count = @ + 1, !.condition_since = None]
               \in CompiledRule
  <1>1. m[r] \in CompiledRule /\ None \in Instant
    BY LookupType DEF Instant, None
  <1>2. m[r].trigger_count + 1 \in Nat
    BY <1>1 DEF CompiledRule
  <1> QED BY <1>1, <1>2 DEF CompiledRule

\* Replacing the audit of one rule keeps the audit's type.
LEMMA AuditSet ==
    ASSUME CountersOK, NEW r \in Rule, NEW v \in Audit
    PROVE  [audit EXCEPT ![r] = v] \in [Rule -> Audit]
  BY DEF CountersOK

\* The field-wise updates of the audit keep its type.
LEMMA AuditUpdate ==
    ASSUME CountersOK, NEW r \in Rule
    PROVE  /\ [audit EXCEPT ![r].unmet = now] \in [Rule -> Audit]
           /\ [audit EXCEPT ![r].edited = TRUE] \in [Rule -> Audit]
           /\ \A x \in {0, 1} :
                [audit EXCEPT ![r].streaks = @ + x] \in [Rule -> Audit]
           /\ \A e \in {"none", "refund", "removed"} :
                [audit EXCEPT ![r].excuse = e] \in [Rule -> Audit]
  <1>1. audit[r] \in Audit /\ now \in Nat
    BY DEF CountersOK
  <1>2. [audit[r] EXCEPT !.unmet = now] \in Audit
    BY <1>1 DEF Audit, Instant
  <1>3. [audit[r] EXCEPT !.edited = TRUE] \in Audit
    BY <1>1 DEF Audit
  <1>4. ASSUME NEW x \in {0, 1}
        PROVE  [audit[r] EXCEPT !.streaks = @ + x] \in Audit
    BY <1>1 DEF Audit
  <1>5. ASSUME NEW e \in {"none", "refund", "removed"}
        PROVE  [audit[r] EXCEPT !.excuse = e] \in Audit
    BY <1>1 DEF Audit
  <1> QED BY <1>2, <1>3, <1>4, <1>5, AuditSet

\* A claim keeps the audit's type.
LEMMA ClaimedType ==
    ASSUME CountersOK, NEW r \in Rule, NEW cooldown
    PROVE  [audit EXCEPT ![r] = Claimed(@, cooldown)] \in [Rule -> Audit]
  <1> DEFINE a == audit[r]
             e == IF a.claim # None /\ now - a.claim < cooldown
                     /\ a.excuse # "removed" THEN 1 ELSE 0
  <1>1. a \in Audit /\ now \in Instant /\ e \in {0, 1}
    BY DEF CountersOK, Instant
  <1>2. a.early + e \in Nat /\ a.fires + 1 \in Nat
    <2> HIDE DEF e
    <2> QED BY <1>1 DEF Audit
  <1>3. Claimed(a, cooldown) =
          [a EXCEPT !.claim = now, !.excuse = "none", !.early = a.early + e,
                    !.fires = a.fires + 1]
    BY <1>1 DEF Claimed, Audit
  <1>4. Claimed(a, cooldown) \in Audit
    <2> HIDE DEF e
    <2> QED BY <1>1, <1>2, <1>3, ZenonT(60) DEF Audit
  <1> QED BY <1>4, AuditSet

\* What update_condition_since(true) writes is an instant.
LEMMA SinceInstant ==
    ASSUME MapsOK, CountersOK, NEW r \in DOMAIN rules
    PROVE  (IF rules[r].condition_since = None
            THEN now ELSE rules[r].condition_since) \in Instant
  BY LookupType DEF MapsOK, CountersOK, CompiledRule, Instant

\* Finishing a rule leaves a task's locals well typed.
LEMMA DoneType ==
    ASSUME TasksOK, NEW t \in Task, Done(t)
    PROVE  TasksOK'
  BY BlankType DEF Done, Goto, TasksOK, Labels, Vias, Outcomes

\* Every action preserves the types.
LEMMA TypeStep == TypeOK /\ [Next]_vars => TypeOK'
  <1> SUFFICES ASSUME MapsOK, TasksOK, CountersOK, [Next]_vars
               PROVE  TypeOK'
    BY DEF TypeOK
  <1>1. ASSUME NEW t \in Task, NEW s \in Source, NEW v \in BOOLEAN,
               DataUpdate(t, s, v)
        PROVE  TypeOK'
    <2>1. MapsOK'
      BY <1>1 DEF DataUpdate, engine, MapsOK, TasksOK
    <2>2. TasksOK'
      BY <1>1
      DEF DataUpdate, TasksOK, Goto, Labels, Call, Vias
    <2>3. CountersOK'
      BY <1>1 DEF DataUpdate, CountersOK, Call
    <2> QED BY <2>1, <2>2, <2>3 DEF TypeOK
  <1>2. ASSUME NEW t \in Task, Lookup(t)
        PROVE  TypeOK'
    <2>1. MapsOK'
      BY <1>2 DEF Lookup, engine, MapsOK, TasksOK
    <2>2. TasksOK'
      BY <1>2, BlankType
      DEF Lookup, TasksOK, Goto, Labels, MapsOK
    <2>3. CountersOK'
      BY <1>2 DEF Lookup, CountersOK, Inside
    <2> QED BY <2>1, <2>2, <2>3 DEF TypeOK
  <1>3. ASSUME NEW t \in Task, NEW r \in Rule, ExecuteRule(t, r)
        PROVE  TypeOK'
    <2>1. MapsOK'
      BY <1>3 DEF ExecuteRule, engine, MapsOK, TasksOK
    <2>2. TasksOK'
      BY <1>3
      DEF ExecuteRule, TasksOK, Goto, Labels, Call, Vias
    <2>3. CountersOK'
      BY <1>3 DEF ExecuteRule, CountersOK, Call
    <2> QED BY <2>1, <2>2, <2>3 DEF TypeOK
  <1>4. ASSUME NEW t \in Task, NEW due \in SUBSET Rule, CronTick(t, due)
        PROVE  TypeOK'
    <2>1. MapsOK'
      BY <1>4 DEF CronTick, engine, MapsOK, TasksOK
    <2>2. TasksOK'
      BY <1>4
      DEF CronTick, TasksOK, Goto, Labels, Call, Vias
    <2>3. CountersOK'
      BY <1>4 DEF CronTick, CountersOK, Call
    <2> QED BY <2>1, <2>2, <2>3 DEF TypeOK
  <1>5. ASSUME NEW t \in Task, CloneRule(t)
        PROVE  TypeOK'
    <2>1. MapsOK'
      BY <1>5 DEF CloneRule, engine, MapsOK, TasksOK
    <2>2. TasksOK'
      <3>1. PICK p \in todo[t] :
              /\ todo' = [todo EXCEPT ![t] = @ \ {p}]
              /\ \/ /\ Evaluable(t, p[1])
                    /\ rid' = [rid EXCEPT ![t] = p[1]]
                    /\ snap' = [snap EXCEPT ![t] = rules[p[1]]]
                    /\ Goto(t, "check")
                    /\ UNCHANGED via
                 \/ /\ Goto(t, IF todo[t] = {p} THEN "idle" ELSE "next")
                    /\ via' = [via EXCEPT ![t] =
                                  IF todo[t] = {p} THEN "data" ELSE @]
                    /\ UNCHANGED <<rid, snap>>
        BY <1>5 DEF CloneRule
      <3>2. p[1] \in Rule
        BY DEF TasksOK
      <3>3. Evaluable(t, p[1]) => rules[p[1]] \in CompiledRule
        BY LookupType DEF Evaluable, MapsOK
      <3> QED BY <1>5, <3>1, <3>2, <3>3
          DEF CloneRule, TasksOK, Goto, Labels, Vias
    <2>3. CountersOK'
      BY <1>5 DEF CloneRule, CountersOK, Inside
    <2> QED BY <2>1, <2>2, <2>3 DEF TypeOK
  <1>6. ASSUME NEW t \in Task, CheckCooldown(t)
        PROVE  TypeOK'
    <2>1. MapsOK'
      BY <1>6 DEF CheckCooldown, engine, MapsOK, TasksOK
    <2>2. TasksOK'
      BY <1>6, DoneType
      DEF CheckCooldown, TasksOK, Goto, Labels
    <2>3. CountersOK'
      BY <1>6 DEF CheckCooldown, CountersOK, Inside
    <2> QED BY <2>1, <2>2, <2>3 DEF TypeOK
  <1>7. ASSUME NEW t \in Task, Evaluate(t)
        PROVE  TypeOK'
    <2>1. MapsOK'
      BY <1>7 DEF Evaluate, engine, MapsOK, TasksOK
    <2>2. TasksOK'
      BY <1>7
      DEF Evaluate, TasksOK, Goto, Labels
    <2>3. CountersOK'
      BY <1>7 DEF Evaluate, CountersOK, Inside
    <2> QED BY <2>1, <2>2, <2>3 DEF TypeOK
  <1>8. ASSUME NEW t \in Task, ConditionUnmet(t)
        PROVE  TypeOK'
    <2>1. MapsOK'
      <3>1. rules' = rules \/ RuleMap(rules')
        <4>1. rid[t] \in DOMAIN rules =>
                RuleMap([rules EXCEPT ![rid[t]].condition_since = None])
          BY SinceType DEF MapsOK, Instant
        <4> QED BY <1>8, <4>1 DEF ConditionUnmet
      <3> QED BY <1>8, <3>1 DEF ConditionUnmet, MapsOK
    <2>2. TasksOK'
      <3>1. rid[t] \in DOMAIN rules =>
              [rules[rid[t]] EXCEPT !.condition_since = None] \in CompiledRule
        BY SinceType DEF MapsOK, Instant
      <3> QED BY <1>8, <3>1, DoneType, SMTT(30)
          DEF ConditionUnmet, TasksOK, Goto, Labels
    <2>3. CountersOK'
      BY <1>8, AuditUpdate DEF ConditionUnmet, CountersOK, Inside, TasksOK
    <2> QED BY <2>1, <2>2, <2>3 DEF TypeOK
  <1>9. ASSUME NEW t \in Task, ConditionMet(t)
        PROVE  TypeOK'
    <2>1. MapsOK'
      <3>1. rules' = rules \/ RuleMap(rules')
        <4> DEFINE since == IF rules[rid[t]].condition_since = None
                            THEN now ELSE rules[rid[t]].condition_since
        <4>1. rid[t] \in DOMAIN rules =>
                RuleMap([rules EXCEPT ![rid[t]].condition_since = since])
          BY SinceType, SinceInstant DEF MapsOK
        <4> QED BY <1>9, <4>1 DEF ConditionMet
      <3> QED BY <1>9, <3>1 DEF ConditionMet, MapsOK
    <2>2. TasksOK'
      <3> DEFINE since == IF rules[rid[t]].condition_since = None
                          THEN now ELSE rules[rid[t]].condition_since
      <3>1. rid[t] \in DOMAIN rules =>
              [rules[rid[t]] EXCEPT !.condition_since = since] \in CompiledRule
        BY SinceType, SinceInstant DEF MapsOK
      <3> QED BY <1>9, <3>1, DoneType
          DEF ConditionMet, TasksOK, Goto, Labels
    <2>3. CountersOK'
      BY <1>9 DEF ConditionMet, CountersOK, Inside
    <2> QED BY <2>1, <2>2, <2>3 DEF TypeOK
  <1>10. ASSUME NEW t \in Task, SaveSnapshot(t)
        PROVE  TypeOK'
    <2>1. MapsOK'
      BY <1>10, PutType DEF SaveSnapshot, engine, MapsOK, TasksOK
    <2>2. TasksOK'
      BY <1>10, DoneType
      DEF SaveSnapshot, TasksOK, Goto, Labels
    <2>3. CountersOK'
      BY <1>10 DEF SaveSnapshot, CountersOK, Inside
    <2> QED BY <2>1, <2>2, <2>3 DEF TypeOK
  <1>11. ASSUME NEW t \in Task, CheckElapsed(t)
        PROVE  TypeOK'
    <2>1. MapsOK'
      BY <1>11 DEF CheckElapsed, engine, MapsOK, TasksOK
    <2>2. TasksOK'
      BY <1>11, DoneType
      DEF CheckElapsed, TasksOK, Goto, Labels
    <2>3. CountersOK'
      BY <1>11 DEF CheckElapsed, CountersOK, Inside
    <2> QED BY <2>1, <2>2, <2>3 DEF TypeOK
  <1>12. ASSUME NEW t \in Task, TryClaimCooldown(t)
        PROVE  TypeOK'
    <2>1. MapsOK'
      <3>1. now \in Instant /\ rid[t] \in Rule
        BY DEF CountersOK, TasksOK, Instant
      <3> QED BY <1>12, <3>1 DEF TryClaimCooldown, MapsOK
    <2>2. TasksOK'
      BY <1>12, DoneType
      DEF TryClaimCooldown, TasksOK, Goto, Labels
    <2>3. CountersOK'
      BY <1>12, ClaimedType DEF TryClaimCooldown, CountersOK, Inside, TasksOK
    <2> QED BY <2>1, <2>2, <2>3 DEF TypeOK
  <1>13. ASSUME NEW t \in Task, ExecuteActions(t)
        PROVE  TypeOK'
    <2>1. MapsOK'
      BY <1>13 DEF ExecuteActions, engine, MapsOK, TasksOK
    <2>2. TasksOK'
      BY <1>13
      DEF ExecuteActions, TasksOK, Goto, Labels, Outcomes
    <2>3. CountersOK'
      BY <1>13 DEF ExecuteActions, CountersOK, Inside
    <2> QED BY <2>1, <2>2, <2>3 DEF TypeOK
  <1>14. ASSUME NEW t \in Task, CountFailure(t)
        PROVE  TypeOK'
    <2>1. MapsOK'
      BY <1>14 DEF CountFailure, engine, MapsOK, TasksOK
    <2>2. TasksOK'
      BY <1>14
      DEF CountFailure, TasksOK, Goto, Labels
    <2>3. CountersOK'
      BY <1>14, AuditUpdate DEF CountFailure, CountersOK, Inside, TasksOK
    <2> QED BY <2>1, <2>2, <2>3 DEF TypeOK
  <1>15. ASSUME NEW t \in Task, ClearFailures(t)
        PROVE  TypeOK'
    <2>1. MapsOK'
      BY <1>15 DEF ClearFailures, engine, MapsOK, TasksOK
    <2>2. TasksOK'
      BY <1>15
      DEF ClearFailures, TasksOK, Goto, Labels
    <2>3. CountersOK'
      BY <1>15 DEF ClearFailures, CountersOK, Inside
    <2> QED BY <2>1, <2>2, <2>3 DEF TypeOK
  <1>16. ASSUME NEW t \in Task, RefundCooldown(t)
        PROVE  TypeOK'
    <2>1. MapsOK'
      BY <1>16 DEF RefundCooldown, engine, MapsOK, TasksOK, Instant, None
    <2>2. TasksOK'
      BY <1>16
      DEF RefundCooldown, TasksOK, Goto, Labels
    <2>3. CountersOK'
      BY <1>16, AuditUpdate DEF RefundCooldown, CountersOK, Inside, TasksOK
    <2> QED BY <2>1, <2>2, <2>3 DEF TypeOK
  <1>17. ASSUME NEW t \in Task, UpdateStateAfterTrigger(t)
        PROVE  TypeOK'
    <2>1. MapsOK'
      <3>1. rules' = rules \/ RuleMap(rules')
        <4> DEFINE fired == [rules[rid[t]] EXCEPT !.trigger_count = @ + 1,
                                                 !.condition_since = None]
        <4>1. rid[t] \in DOMAIN rules =>
                RuleMap([rules EXCEPT ![rid[t]] = fired])
          BY FiredType, ExceptType DEF MapsOK
        <4> QED BY <1>17, <4>1 DEF UpdateStateAfterTrigger
      <3> QED BY <1>17, <3>1 DEF UpdateStateAfterTrigger, MapsOK
    <2>2. TasksOK'
      <3> DEFINE fired == [rules[rid[t]] EXCEPT !.trigger_count = @ + 1,
                                               !.condition_since = None]
      <3>1. rid[t] \in DOMAIN rules => fired \in CompiledRule
        BY FiredType DEF MapsOK
      <3>2. \/ pend' = pend
            \/ rid[t] \in DOMAIN rules /\ pend' = [pend EXCEPT ![t] = fired]
        BY <1>17 DEF UpdateStateAfterTrigger
      <3>3. pend' \in [Task -> CompiledRule]
        <4> HIDE DEF fired
        <4> QED BY <3>1, <3>2 DEF TasksOK
      <3> QED BY <1>17, <3>3
          DEF UpdateStateAfterTrigger, TasksOK, Goto, Labels
    <2>3. CountersOK'
      BY <1>17 DEF UpdateStateAfterTrigger, CountersOK, Inside
    <2> QED BY <2>1, <2>2, <2>3 DEF TypeOK
  <1>18. ASSUME NEW t \in Task, RecordHistory(t)
        PROVE  TypeOK'
    <2>1. MapsOK'
      <3> DEFINE entry == [rule |-> rid[t], failed |-> out[t] = "failed"]
                 log == Append(history, entry)
      <3>1. entry \in [rule: Rule, failed: BOOLEAN]
        BY DEF TasksOK
      <3>2. history' = log \/ (Len(log) > MaxHistory /\ history' = Tail(log))
        BY <1>18 DEF RecordHistory
      <3>3. history' \in Seq([rule: Rule, failed: BOOLEAN])
        <4>1. log \in Seq([rule: Rule, failed: BOOLEAN])
          <5> HIDE DEF entry
          <5> QED BY <3>1 DEF MapsOK
        <4>2. Len(log) > MaxHistory => log # << >>
          <5> HIDE DEF log
          <5> QED BY <4>1, BoundAssumption
        <4>3. log # << >> => Tail(log) \in Seq([rule: Rule, failed: BOOLEAN])
          <5> HIDE DEF log
          <5> QED BY <4>1
        <4> QED BY <3>2, <4>1, <4>2, <4>3
      <3> QED BY <1>18, <3>3 DEF RecordHistory, MapsOK
    <2>2. TasksOK'
      BY <1>18, DoneType
      DEF RecordHistory, TasksOK, Goto, Labels
    <2>3. CountersOK'
      BY <1>18 DEF RecordHistory, CountersOK, Inside
    <2> QED BY <2>1, <2>2, <2>3 DEF TypeOK
  <1>19. ASSUME NEW t \in Task, NEW op \in {"create", "import"},
               NEW r \in Rule,
               NEW d \in Def, NEW b \in BOOLEAN, AddRule(t, op, r, d, b)
        PROVE  TypeOK'
    <2>1. MapsOK'
      BY <1>19, PutType, SubmittedType DEF AddRule, engine, MapsOK, TasksOK
    <2>2. TasksOK'
      BY <1>19, SubmittedType
      DEF AddRule, TasksOK, Goto, Labels, Call, Vias, AllOps
    <2>3. CountersOK'
      <3>1. audit' \in [Rule -> Audit]
        BY <1>19, AuditUpdate DEF AddRule, Taint
      <3> QED BY <1>19, <3>1 DEF AddRule, CountersOK, Call
    <2> QED BY <2>1, <2>2, <2>3 DEF TypeOK
  <1>20. ASSUME NEW t \in Task, NEW r \in Rule, NEW d \in Def,
               NEW b \in BOOLEAN,
               ReadForUpdate(t, r, d, b)
        PROVE  TypeOK'
    <2>1. MapsOK'
      BY <1>20 DEF ReadForUpdate, engine, MapsOK, TasksOK
    <2>2. TasksOK'
      BY <1>20, SubmittedType, RedefineType
      DEF ReadForUpdate, TasksOK, Goto, Labels, Call, Vias, AllOps, MapsOK
    <2>3. CountersOK'
      BY <1>20 DEF ReadForUpdate, CountersOK, Call
    <2> QED BY <2>1, <2>2, <2>3 DEF TypeOK
  <1>21. ASSUME NEW t \in Task, NEW r \in Rule, NEW b \in BOOLEAN,
               ReadForEdit(t, r, b)
        PROVE  TypeOK'
    <2>1. MapsOK'
      BY <1>21 DEF ReadForEdit, engine, MapsOK, TasksOK
    <2>2. TasksOK'
      BY <1>21, EnabledType
      DEF ReadForEdit, TasksOK, Goto, Labels, Call, Vias, AllOps, MapsOK
    <2>3. CountersOK'
      BY <1>21 DEF ReadForEdit, CountersOK, Call
    <2> QED BY <2>1, <2>2, <2>3 DEF TypeOK
  <1>22. ASSUME NEW t \in Task, UpdateRule(t)
        PROVE  TypeOK'
    <2>1. MapsOK'
      BY <1>22, PutType DEF UpdateRule, engine, MapsOK, TasksOK
    <2>2. TasksOK'
      BY <1>22
      DEF UpdateRule, TasksOK, Goto, Labels
    <2>3. CountersOK'
      BY <1>22, AuditUpdate DEF UpdateRule, CountersOK, Inside, Taint, TasksOK
    <2> QED BY <2>1, <2>2, <2>3 DEF TypeOK
  <1>23. ASSUME NEW t \in Task, NEW r \in Rule, RemoveRule(t, r)
        PROVE  TypeOK'
    <2>1. MapsOK'
      BY <1>23, DropType DEF RemoveRule, engine, MapsOK, TasksOK
    <2>2. TasksOK'
      BY <1>23
      DEF RemoveRule, TasksOK, Goto, Labels, Call, Vias, AllOps
    <2>3. CountersOK'
      <3>1. audit' \in [Rule -> Audit]
        BY <1>23, AuditUpdate DEF RemoveRule, Taint
      <3> QED BY <1>23, <3>1 DEF RemoveRule, CountersOK, Call
    <2> QED BY <2>1, <2>2, <2>3 DEF TypeOK
  <1>24. ASSUME NEW t \in Task, RebuildAllSubscriptions(t)
        PROVE  TypeOK'
    <2>1. MapsOK'
      BY <1>24, IndexType DEF RebuildAllSubscriptions, engine, MapsOK, TasksOK
    <2>2. TasksOK'
      BY <1>24, DoneType
      DEF RebuildAllSubscriptions, TasksOK, Goto, Labels
    <2>3. CountersOK'
      BY <1>24 DEF RebuildAllSubscriptions, CountersOK, Inside
    <2> QED BY <2>1, <2>2, <2>3 DEF TypeOK
  <1>25. ASSUME NEW t \in Task, Persist(t)
        PROVE  TypeOK'
    <2>1. MapsOK'
      BY <1>25, PutType DEF Persist, engine, MapsOK, TasksOK
    <2>2. TasksOK'
      BY <1>25, DoneType
      DEF Persist, TasksOK, Goto, Labels
    <2>3. CountersOK'
      BY <1>25 DEF Persist, CountersOK, Inside
    <2> QED BY <2>1, <2>2, <2>3 DEF TypeOK
  <1>26. ASSUME NEW t \in Task, ForgetCooldown(t)
        PROVE  TypeOK'
    <2>1. MapsOK'
      BY <1>26 DEF ForgetCooldown, engine, MapsOK, TasksOK, Instant, None
    <2>2. TasksOK'
      BY <1>26
      DEF ForgetCooldown, TasksOK, Goto, Labels
    <2>3. CountersOK'
      BY <1>26, AuditUpdate DEF ForgetCooldown, CountersOK, Inside, TasksOK
    <2> QED BY <2>1, <2>2, <2>3 DEF TypeOK
  <1>27. ASSUME NEW t \in Task, DeleteStored(t)
        PROVE  TypeOK'
    <2>1. MapsOK'
      BY <1>27, DropType DEF DeleteStored, engine, MapsOK, TasksOK
    <2>2. TasksOK'
      BY <1>27, DoneType
      DEF DeleteStored, TasksOK, Goto, Labels
    <2>3. CountersOK'
      BY <1>27 DEF DeleteStored, CountersOK, Inside
    <2> QED BY <2>1, <2>2, <2>3 DEF TypeOK
  <1>28. ASSUME NEW t \in Task, NEW r \in Rule, NEW b \in BOOLEAN,
               SetEnabled(t, r, b)
        PROVE  TypeOK'
    <2>1. MapsOK'
      BY <1>28, EnabledType DEF SetEnabled, engine, MapsOK, TasksOK
    <2>2. TasksOK'
      BY <1>28
      DEF SetEnabled, TasksOK, Goto, Labels, Call, Vias, AllOps
    <2>3. CountersOK'
      BY <1>28 DEF SetEnabled, CountersOK, Call
    <2> QED BY <2>1, <2>2, <2>3 DEF TypeOK
  <1>29. ASSUME NEW t \in Task, ReadBack(t)
        PROVE  TypeOK'
    <2>1. MapsOK'
      BY <1>29 DEF ReadBack, engine, MapsOK, TasksOK
    <2>2. TasksOK'
      <3>1. rid[t] \in DOMAIN rules => rules[rid[t]] \in CompiledRule
        BY LookupType DEF MapsOK
      <3> QED BY <1>29, <3>1, DoneType DEF ReadBack, TasksOK, Goto, Labels
    <2>3. CountersOK'
      BY <1>29 DEF ReadBack, CountersOK, Inside
    <2> QED BY <2>1, <2>2, <2>3 DEF TypeOK
  <1>30. CASE Tick
    BY <1>30 DEF Tick, engine, locals, TypeOK, MapsOK, TasksOK, CountersOK
  <1>31. CASE Restart
    <2>1. MapsOK'
      BY <1>31, IndexType DEF Restart, MapsOK, Instant, None
    <2>2. TasksOK'
      BY <1>31, BlankType DEF Restart, TasksOK, Labels, Vias, Outcomes
    <2>3. CountersOK'
      <3>1. ASSUME NEW n \in Nat PROVE NewAudit(n) \in Audit
        BY DEF NewAudit, Audit, Instant, None
      <3>2. \A r \in DOMAIN rule_store : rule_store[r].trigger_count \in Nat
        BY LookupType DEF MapsOK, CompiledRule
      <3> QED BY <1>31, <3>1, <3>2 DEF Restart, CountersOK
    <2> QED BY <2>1, <2>2, <2>3 DEF TypeOK
  <1>32. CASE UNCHANGED vars
    BY <1>32 DEF vars, engine, locals, TypeOK, MapsOK, TasksOK, CountersOK
  <1>33. ASSUME NEW t \in Task, EntryPoint(t)
        PROVE  TypeOK'
    BY <1>33, <1>1, <1>3, <1>4, <1>19, <1>20, <1>21, <1>23, <1>28
       DEF EntryPoint
  <1>34. ASSUME NEW t \in Task, EvaluationStep(t)
        PROVE  TypeOK'
    BY <1>34, <1>2, <1>5, <1>6, <1>7, <1>8, <1>9, <1>10, <1>11, <1>12, <1>13,
       <1>14, <1>15, <1>16, <1>17, <1>18
    DEF EvaluationStep
  <1>35. ASSUME NEW t \in Task, EditStep(t)
        PROVE  TypeOK'
    BY <1>35, <1>22, <1>24, <1>25, <1>26, <1>27, <1>29 DEF EditStep
  <1> QED BY <1>30, <1>31, <1>32, <1>33, <1>34, <1>35 DEF Next

\* The initial state is well typed.
LEMMA TypeInit == Init => TypeOK
  <1> SUFFICES ASSUME Init PROVE TypeOK
    OBVIOUS
  <1>1. RuleMap(rule_store)
    BY InstalledAssumption, FreshType DEF Init, RuleMap
  <1>2. MapsOK
    BY <1>1, IndexType DEF Init, MapsOK, Instant, None
  <1>3. TasksOK
    BY BlankType DEF Init, NoTasks, TasksOK, Labels, Vias, Outcomes
  <1>4. CountersOK
    BY DEF Init, CountersOK, NewAudit, Audit, Instant, None
  <1> QED BY <1>2, <1>3, <1>4 DEF TypeOK

\* The engine's maps, the store and the locals of every task always hold
\* values of their types.
THEOREM TypeCorrect == Spec => []TypeOK
  <1> QED BY TypeInit, TypeStep, PTL DEF Spec

-----------------------------------------------------------------------------
(* The subscription index *)

\* The index depends on the rules' definitions only: not on `enabled`, and not
\* on the runtime state that the trigger path writes.
LEMMA SameIndex ==
    ASSUME NEW m, NEW k, DOMAIN m = DOMAIN k,
           \A r \in DOMAIN m : m[r].def = k[r].def
    PROVE  SubscriptionIndex(m) = SubscriptionIndex(k)
  <1>1. ASSUME NEW s \in Source, NEW r \in DOMAIN m
        PROVE  Occurrences(m, r, s) = Occurrences(k, r, s)
    BY DEF Occurrences
  <1> QED BY <1>1 DEF SubscriptionIndex

\* Replacing a rule's record by one with the same definition keeps every
\* definition.
LEMMA KeepsDefs ==
    ASSUME NEW m, RuleMap(m), NEW r \in DOMAIN m, NEW v \in CompiledRule,
           v.def = m[r].def
    PROVE  LET k == [m EXCEPT ![r] = v] IN
           DOMAIN k = DOMAIN m /\ \A x \in DOMAIN m : k[x].def = m[x].def
  BY DEF RuleMap

\* A step of a task that is not rebuilding, and that changes neither the index
\* nor the definition of any rule, keeps the index fresh.
LEMMA IndexFrame ==
    ASSUME TasksOK, IndexFresh, NEW t \in Task, NEW l,
           pc[t] # "rebuild", pc' = [pc EXCEPT ![t] = l],
           subscription_index' = subscription_index,
           DOMAIN rules' = DOMAIN rules,
           \A r \in DOMAIN rules : rules'[r].def = rules[r].def
    PROVE  IndexFresh'
  <1>1. SubscriptionIndex(rules') = SubscriptionIndex(rules)
    BY SameIndex
  <1>2. ASSUME \A u \in Task : pc'[u] # "rebuild"
        PROVE  \A u \in Task : pc[u] # "rebuild"
    BY <1>2 DEF TasksOK
  <1> QED BY <1>1, <1>2 DEF IndexFresh

\* Every step keeps the index fresh.
LEMMA IndexStep == TypeOK /\ IndexFresh /\ [Next]_vars => IndexFresh'
  <1> SUFFICES ASSUME MapsOK, TasksOK, CountersOK, IndexFresh, [Next]_vars
               PROVE  IndexFresh'
    BY DEF TypeOK
  <1>1. ASSUME NEW t \in Task, NEW s \in Source, NEW v \in BOOLEAN,
               DataUpdate(t, s, v)
        PROVE  IndexFresh'
    BY <1>1, IndexFrame DEF DataUpdate, Goto, engine, Call
  <1>2. ASSUME NEW t \in Task, Lookup(t)
        PROVE  IndexFresh'
    BY <1>2, IndexFrame DEF Lookup, Goto, engine
  <1>3. ASSUME NEW t \in Task, NEW r \in Rule, ExecuteRule(t, r)
        PROVE  IndexFresh'
    BY <1>3, IndexFrame DEF ExecuteRule, Goto, engine, Call
  <1>4. ASSUME NEW t \in Task, NEW due \in SUBSET Rule, CronTick(t, due)
        PROVE  IndexFresh'
    BY <1>4, IndexFrame DEF CronTick, Goto, engine, Call
  <1>5. ASSUME NEW t \in Task, CloneRule(t)
        PROVE  IndexFresh'
    BY <1>5, IndexFrame DEF CloneRule, Goto, engine
  <1>6. ASSUME NEW t \in Task, CheckCooldown(t)
        PROVE  IndexFresh'
    BY <1>6, IndexFrame DEF CheckCooldown, Goto, engine, Done
  <1>7. ASSUME NEW t \in Task, Evaluate(t)
        PROVE  IndexFresh'
    BY <1>7, IndexFrame DEF Evaluate, Goto, engine
  <1>8. ASSUME NEW t \in Task, ConditionUnmet(t)
        PROVE  IndexFresh'
    <2> DEFINE v == [rules[rid[t]] EXCEPT !.condition_since = None]
    <2>1. rid[t] \in DOMAIN rules =>
            v \in CompiledRule /\ v.def = rules[rid[t]].def
      <3>1. rid[t] \in DOMAIN rules => v \in CompiledRule
        BY SinceType DEF MapsOK, Instant
      <3>2. rid[t] \in DOMAIN rules => v.def = rules[rid[t]].def
        BY LookupType DEF MapsOK, CompiledRule
      <3> QED BY <3>1, <3>2
    <2>2. \/ rules' = rules
          \/ rid[t] \in DOMAIN rules /\ rules' = [rules EXCEPT ![rid[t]] = v]
      BY <1>8 DEF ConditionUnmet
    <2>3. /\ DOMAIN rules' = DOMAIN rules
          /\ \A x \in DOMAIN rules : rules'[x].def = rules[x].def
      <3> HIDE DEF v
      <3> QED BY <2>1, <2>2, KeepsDefs DEF MapsOK
    <2> QED
      BY <1>8, <2>3, IndexFrame, ZenonT(60)
      DEF ConditionUnmet, Goto, engine, Done
  <1>9. ASSUME NEW t \in Task, ConditionMet(t)
        PROVE  IndexFresh'
    <2> DEFINE v == [rules[rid[t]] EXCEPT !.condition_since =
                          IF rules[rid[t]].condition_since = None
                          THEN now ELSE rules[rid[t]].condition_since]
    <2>1. rid[t] \in DOMAIN rules =>
            v \in CompiledRule /\ v.def = rules[rid[t]].def
      <3>1. rid[t] \in DOMAIN rules => v \in CompiledRule
        BY SinceType, SinceInstant DEF MapsOK
      <3>2. rid[t] \in DOMAIN rules => v.def = rules[rid[t]].def
        BY LookupType DEF MapsOK, CompiledRule
      <3> QED BY <3>1, <3>2
    <2>2. \/ rules' = rules
          \/ rid[t] \in DOMAIN rules /\ rules' = [rules EXCEPT ![rid[t]] = v]
      BY <1>9 DEF ConditionMet
    <2>3. /\ DOMAIN rules' = DOMAIN rules
          /\ \A x \in DOMAIN rules : rules'[x].def = rules[x].def
      <3> HIDE DEF v
      <3> QED BY <2>1, <2>2, KeepsDefs DEF MapsOK
    <2> QED BY <1>9, <2>3, IndexFrame DEF ConditionMet, Goto, engine, Done
  <1>10. ASSUME NEW t \in Task, SaveSnapshot(t)
        PROVE  IndexFresh'
    BY <1>10, IndexFrame DEF SaveSnapshot, Goto, engine, Done
  <1>11. ASSUME NEW t \in Task, CheckElapsed(t)
        PROVE  IndexFresh'
    BY <1>11, IndexFrame DEF CheckElapsed, Goto, engine, Done
  <1>12. ASSUME NEW t \in Task, TryClaimCooldown(t)
        PROVE  IndexFresh'
    BY <1>12, IndexFrame DEF TryClaimCooldown, Goto, engine, Done
  <1>13. ASSUME NEW t \in Task, ExecuteActions(t)
        PROVE  IndexFresh'
    BY <1>13, IndexFrame DEF ExecuteActions, Goto, engine
  <1>14. ASSUME NEW t \in Task, CountFailure(t)
        PROVE  IndexFresh'
    BY <1>14, IndexFrame DEF CountFailure, Goto, engine
  <1>15. ASSUME NEW t \in Task, ClearFailures(t)
        PROVE  IndexFresh'
    BY <1>15, IndexFrame DEF ClearFailures, Goto, engine
  <1>16. ASSUME NEW t \in Task, RefundCooldown(t)
        PROVE  IndexFresh'
    BY <1>16, IndexFrame DEF RefundCooldown, Goto, engine
  <1>17. ASSUME NEW t \in Task, UpdateStateAfterTrigger(t)
        PROVE  IndexFresh'
    <2> DEFINE v == [rules[rid[t]] EXCEPT !.trigger_count = @ + 1,
                                           !.condition_since = None]
    <2>1. rid[t] \in DOMAIN rules =>
            v \in CompiledRule /\ v.def = rules[rid[t]].def
      <3>1. rid[t] \in DOMAIN rules => v \in CompiledRule
        BY FiredType DEF MapsOK
      <3>2. rid[t] \in DOMAIN rules => v.def = rules[rid[t]].def
        BY LookupType DEF MapsOK, CompiledRule
      <3> QED BY <3>1, <3>2
    <2>2. \/ rules' = rules
          \/ rid[t] \in DOMAIN rules /\ rules' = [rules EXCEPT ![rid[t]] = v]
      BY <1>17 DEF UpdateStateAfterTrigger
    <2>3. /\ DOMAIN rules' = DOMAIN rules
          /\ \A x \in DOMAIN rules : rules'[x].def = rules[x].def
      <3> HIDE DEF v
      <3> QED BY <2>1, <2>2, KeepsDefs DEF MapsOK
    <2> QED
      BY <1>17, <2>3, IndexFrame
      DEF UpdateStateAfterTrigger, Goto, engine
  <1>18. ASSUME NEW t \in Task, RecordHistory(t)
        PROVE  IndexFresh'
    BY <1>18, IndexFrame DEF RecordHistory, Goto, engine, Done
  <1>19. ASSUME NEW t \in Task, NEW op \in {"create", "import"},
               NEW r \in Rule,
               NEW d \in Def, NEW b \in BOOLEAN, AddRule(t, op, r, d, b)
        PROVE  IndexFresh'
    BY <1>19 DEF AddRule, Goto, TasksOK, IndexFresh
  <1>20. ASSUME NEW t \in Task, NEW r \in Rule, NEW d \in Def,
               NEW b \in BOOLEAN,
               ReadForUpdate(t, r, d, b)
        PROVE  IndexFresh'
    BY <1>20, IndexFrame DEF ReadForUpdate, Goto, engine, Call
  <1>21. ASSUME NEW t \in Task, NEW r \in Rule, NEW b \in BOOLEAN,
               ReadForEdit(t, r, b)
        PROVE  IndexFresh'
    BY <1>21, IndexFrame DEF ReadForEdit, Goto, engine, Call
  <1>22. ASSUME NEW t \in Task, UpdateRule(t)
        PROVE  IndexFresh'
    BY <1>22 DEF UpdateRule, Goto, TasksOK, IndexFresh
  <1>23. ASSUME NEW t \in Task, NEW r \in Rule, RemoveRule(t, r)
        PROVE  IndexFresh'
    BY <1>23 DEF RemoveRule, Goto, TasksOK, IndexFresh
  <1>24. ASSUME NEW t \in Task, RebuildAllSubscriptions(t)
        PROVE  IndexFresh'
    BY <1>24 DEF RebuildAllSubscriptions, IndexFresh
  <1>25. ASSUME NEW t \in Task, Persist(t)
        PROVE  IndexFresh'
    BY <1>25, IndexFrame DEF Persist, Goto, engine, Done
  <1>26. ASSUME NEW t \in Task, ForgetCooldown(t)
        PROVE  IndexFresh'
    BY <1>26, IndexFrame DEF ForgetCooldown, Goto, engine
  <1>27. ASSUME NEW t \in Task, DeleteStored(t)
        PROVE  IndexFresh'
    BY <1>27, IndexFrame DEF DeleteStored, Goto, engine, Done
  <1>28. ASSUME NEW t \in Task, NEW r \in Rule, NEW b \in BOOLEAN,
               SetEnabled(t, r, b)
        PROVE  IndexFresh'
    <2>1. /\ DOMAIN rules' = DOMAIN rules
          /\ \A x \in DOMAIN rules : rules'[x].def = rules[x].def
      BY <1>28, LookupType DEF SetEnabled, MapsOK, CompiledRule
    <2> QED BY <1>28, <2>1, IndexFrame DEF SetEnabled, Goto, engine, Call
  <1>29. ASSUME NEW t \in Task, ReadBack(t)
        PROVE  IndexFresh'
    BY <1>29, IndexFrame DEF ReadBack, Goto, engine, Done
  <1>30. CASE Tick
    BY <1>30 DEF Tick, engine, locals, IndexFresh
  <1>31. CASE Restart
    BY <1>31 DEF Restart, IndexFresh
  <1>32. CASE UNCHANGED vars
    BY <1>32 DEF vars, engine, locals, IndexFresh
  <1>33. ASSUME NEW t \in Task, EntryPoint(t)
        PROVE  IndexFresh'
    BY <1>33, <1>1, <1>3, <1>4, <1>19, <1>20, <1>21, <1>23, <1>28
    DEF EntryPoint
  <1>34. ASSUME NEW t \in Task, EvaluationStep(t)
        PROVE  IndexFresh'
    BY <1>34, <1>2, <1>5, <1>6, <1>7, <1>8, <1>9, <1>10, <1>11, <1>12, <1>13,
       <1>14, <1>15, <1>16, <1>17, <1>18
    DEF EvaluationStep
  <1>35. ASSUME NEW t \in Task, EditStep(t)
        PROVE  IndexFresh'
    BY <1>35, <1>22, <1>24, <1>25, <1>26, <1>27, <1>29 DEF EditStep
  <1> QED BY <1>30, <1>31, <1>32, <1>33, <1>34, <1>35 DEF Next

\* rebuild_all_subscriptions never leaves a stale index, for any number of
\* rules and tasks: outside an edit's window between its write of `rules` and
\* its rebuild, on_data_update reads the index of the current rules.
THEOREM IndexAlwaysFresh == Spec => []IndexFresh
  <1>1. Init => IndexFresh
    BY DEF Init, IndexFresh
  <1> QED BY <1>1, IndexStep, TypeCorrect, PTL DEF Spec

-----------------------------------------------------------------------------
(* The cooldown *)

\* What ties the audit to the engine: unless the last claim was refunded or
\* the rule removed, the engine still holds the instant of the last claim.
ClaimHeld ==
    \A r \in Rule :
        audit[r].excuse = "none" => cooldowns[r] = audit[r].claim

\* A step that leaves the cooldowns alone, and of the audit the claims and
\* the excuses, keeps the claims held.
LEMMA ClaimFrame ==
    ASSUME ClaimHeld, cooldowns' = cooldowns,
           \A r \in Rule : /\ audit'[r].claim = audit[r].claim
                           /\ audit'[r].excuse = audit[r].excuse
    PROVE  ClaimHeld'
  BY DEF ClaimHeld

\* Every step keeps the claims held.
LEMMA ClaimStep == TypeOK /\ ClaimHeld /\ [Next]_vars => ClaimHeld'
  <1> SUFFICES ASSUME MapsOK, TasksOK, CountersOK, ClaimHeld, [Next]_vars
               PROVE  ClaimHeld'
    BY DEF TypeOK
  <1>1. ASSUME NEW t \in Task, NEW s \in Source, NEW v \in BOOLEAN,
               DataUpdate(t, s, v)
        PROVE  ClaimHeld'
    BY <1>1, ClaimFrame DEF DataUpdate, engine
  <1>2. ASSUME NEW t \in Task, Lookup(t)
        PROVE  ClaimHeld'
    BY <1>2, ClaimFrame DEF Lookup, engine
  <1>3. ASSUME NEW t \in Task, NEW r \in Rule, ExecuteRule(t, r)
        PROVE  ClaimHeld'
    BY <1>3, ClaimFrame DEF ExecuteRule, engine
  <1>4. ASSUME NEW t \in Task, NEW due \in SUBSET Rule, CronTick(t, due)
        PROVE  ClaimHeld'
    BY <1>4, ClaimFrame DEF CronTick, engine
  <1>5. ASSUME NEW t \in Task, CloneRule(t)
        PROVE  ClaimHeld'
    BY <1>5, ClaimFrame DEF CloneRule, engine
  <1>6. ASSUME NEW t \in Task, CheckCooldown(t)
        PROVE  ClaimHeld'
    BY <1>6, ClaimFrame DEF CheckCooldown, engine
  <1>7. ASSUME NEW t \in Task, Evaluate(t)
        PROVE  ClaimHeld'
    BY <1>7, ClaimFrame DEF Evaluate, engine
  <1>8. ASSUME NEW t \in Task, ConditionUnmet(t)
        PROVE  ClaimHeld'
    BY <1>8, ClaimFrame DEF ConditionUnmet, CountersOK, TasksOK, Audit
  <1>9. ASSUME NEW t \in Task, ConditionMet(t)
        PROVE  ClaimHeld'
    BY <1>9, ClaimFrame DEF ConditionMet, engine
  <1>10. ASSUME NEW t \in Task, SaveSnapshot(t)
        PROVE  ClaimHeld'
    BY <1>10, ClaimFrame DEF SaveSnapshot, engine
  <1>11. ASSUME NEW t \in Task, CheckElapsed(t)
        PROVE  ClaimHeld'
    BY <1>11, ClaimFrame DEF CheckElapsed, engine
  <1>12. ASSUME NEW t \in Task, TryClaimCooldown(t)
        PROVE  ClaimHeld'
    <2> DEFINE r == rid[t]
               c == Claimed(audit[r], snap[t].def.cooldown)
    <2>1. r \in Rule /\ c.claim = now /\ c.excuse = "none"
      BY DEF TasksOK, CountersOK, Audit, Claimed
    <2>2. \/ cooldowns' = cooldowns /\ audit' = audit
          \/ /\ cooldowns' = [cooldowns EXCEPT ![r] = now]
             /\ audit' = [audit EXCEPT ![r] = c]
      BY <1>12 DEF TryClaimCooldown
    <2> HIDE DEF c, r
    <2> QED BY <2>1, <2>2, ZenonT(60) DEF ClaimHeld, MapsOK, CountersOK
  <1>13. ASSUME NEW t \in Task, ExecuteActions(t)
        PROVE  ClaimHeld'
    BY <1>13, ClaimFrame DEF ExecuteActions, engine
  <1>14. ASSUME NEW t \in Task, CountFailure(t)
        PROVE  ClaimHeld'
    BY <1>14, ClaimFrame DEF CountFailure, CountersOK, TasksOK, Audit
  <1>15. ASSUME NEW t \in Task, ClearFailures(t)
        PROVE  ClaimHeld'
    BY <1>15, ClaimFrame DEF ClearFailures, engine
  <1>16. ASSUME NEW t \in Task, RefundCooldown(t)
        PROVE  ClaimHeld'
    BY <1>16, SMTT(30) DEF RefundCooldown, ClaimHeld, MapsOK, TasksOK,
           CountersOK, Audit
  <1>17. ASSUME NEW t \in Task, UpdateStateAfterTrigger(t)
        PROVE  ClaimHeld'
    BY <1>17, ClaimFrame DEF UpdateStateAfterTrigger, engine
  <1>18. ASSUME NEW t \in Task, RecordHistory(t)
        PROVE  ClaimHeld'
    BY <1>18, ClaimFrame DEF RecordHistory, engine
  <1>19. ASSUME NEW t \in Task, NEW op \in {"create", "import"},
               NEW r \in Rule,
               NEW d \in Def, NEW b \in BOOLEAN, AddRule(t, op, r, d, b)
        PROVE  ClaimHeld'
    BY <1>19, ClaimFrame DEF AddRule, Taint, CountersOK, TasksOK, Audit
  <1>20. ASSUME NEW t \in Task, NEW r \in Rule, NEW d \in Def,
               NEW b \in BOOLEAN,
               ReadForUpdate(t, r, d, b)
        PROVE  ClaimHeld'
    BY <1>20, ClaimFrame DEF ReadForUpdate, engine
  <1>21. ASSUME NEW t \in Task, NEW r \in Rule, NEW b \in BOOLEAN,
               ReadForEdit(t, r, b)
        PROVE  ClaimHeld'
    BY <1>21, ClaimFrame DEF ReadForEdit, engine
  <1>22. ASSUME NEW t \in Task, UpdateRule(t)
        PROVE  ClaimHeld'
    BY <1>22, ClaimFrame DEF UpdateRule, Taint, CountersOK, TasksOK, Audit
  <1>23. ASSUME NEW t \in Task, NEW r \in Rule, RemoveRule(t, r)
        PROVE  ClaimHeld'
    BY <1>23, ClaimFrame DEF RemoveRule, Taint, CountersOK, TasksOK, Audit
  <1>24. ASSUME NEW t \in Task, RebuildAllSubscriptions(t)
        PROVE  ClaimHeld'
    BY <1>24, ClaimFrame DEF RebuildAllSubscriptions, engine
  <1>25. ASSUME NEW t \in Task, Persist(t)
        PROVE  ClaimHeld'
    BY <1>25, ClaimFrame DEF Persist, engine
  <1>26. ASSUME NEW t \in Task, ForgetCooldown(t)
        PROVE  ClaimHeld'
    BY <1>26, ZenonT(60) DEF ForgetCooldown, ClaimHeld, MapsOK, TasksOK,
           CountersOK, Audit
  <1>27. ASSUME NEW t \in Task, DeleteStored(t)
        PROVE  ClaimHeld'
    BY <1>27, ClaimFrame DEF DeleteStored, engine
  <1>28. ASSUME NEW t \in Task, NEW r \in Rule, NEW b \in BOOLEAN,
               SetEnabled(t, r, b)
        PROVE  ClaimHeld'
    BY <1>28, ClaimFrame DEF SetEnabled, engine
  <1>29. ASSUME NEW t \in Task, ReadBack(t)
        PROVE  ClaimHeld'
    BY <1>29, ClaimFrame DEF ReadBack, engine
  <1>30. CASE Tick
    BY <1>30, ClaimFrame DEF Tick, engine
  <1>31. CASE Restart
    BY <1>31 DEF Restart, ClaimHeld, NewAudit
  <1>32. CASE UNCHANGED vars
    BY <1>32 DEF vars, engine, ClaimHeld
  <1>33. ASSUME NEW t \in Task, EntryPoint(t)
        PROVE  ClaimHeld'
    BY <1>33, <1>1, <1>3, <1>4, <1>19, <1>20, <1>21, <1>23, <1>28
    DEF EntryPoint
  <1>34. ASSUME NEW t \in Task, EvaluationStep(t)
        PROVE  ClaimHeld'
    BY <1>34, <1>2, <1>5, <1>6, <1>7, <1>8, <1>9, <1>10, <1>11, <1>12, <1>13,
       <1>14, <1>15, <1>16, <1>17, <1>18
    DEF EvaluationStep
  <1>35. ASSUME NEW t \in Task, EditStep(t)
        PROVE  ClaimHeld'
    BY <1>35, <1>22, <1>24, <1>25, <1>26, <1>27, <1>29 DEF EditStep
  <1> QED BY <1>30, <1>31, <1>32, <1>33, <1>34, <1>35 DEF Next

\* The claim is the only step that enters the firing part, and it is taken
\* only out of cooldown.
LEMMA ClaimGuard ==
    ASSUME TypeOK, [Next]_vars, NEW t \in Task,
           pc[t] = "claim", pc'[t] = "act"
    PROVE  ~InCooldown(rid[t], snap[t].def.cooldown)
  <1> USE DEF TypeOK, TasksOK
  <1>1. ASSUME NEW u \in Task, EntryPoint(u)
        PROVE  FALSE
    BY <1>1, ZenonT(60) DEF EntryPoint, Call, Goto, DataUpdate, ExecuteRule,
           CronTick,
                AddRule, ReadForUpdate, ReadForEdit, SetEnabled, RemoveRule
  <1>2. ASSUME NEW u \in Task, EditStep(u)
        PROVE  FALSE
    BY <1>2 DEF EditStep, Goto, Done, UpdateRule, RebuildAllSubscriptions,
                Persist, ForgetCooldown, DeleteStored, ReadBack
  <1>3. ASSUME NEW u \in Task, EvaluationStep(u), ~TryClaimCooldown(u)
        PROVE  FALSE
    BY <1>3 DEF EvaluationStep, Goto, Done, Lookup, CloneRule, CheckCooldown,
                Evaluate, ConditionUnmet, ConditionMet, SaveSnapshot,
                CheckElapsed, ExecuteActions, CountFailure, ClearFailures,
                RefundCooldown, UpdateStateAfterTrigger, RecordHistory
  <1>4. ASSUME NEW u \in Task, TryClaimCooldown(u)
        PROVE  ~InCooldown(rid[t], snap[t].def.cooldown)
    BY <1>4 DEF TryClaimCooldown, Goto, Done
  <1>5. ~Tick /\ ~Restart /\ ~UNCHANGED vars
    BY DEF Tick, Restart, vars, locals
  <1> QED BY <1>1, <1>2, <1>3, <1>4, <1>5 DEF Next

\* try_claim_cooldown is enough against double firing: for every number of
\* tasks, two firings of a rule are a cooldown apart unless the first one was
\* refunded or the rule was removed in between.
THEOREM NoDoubleFireHolds == Spec => NoDoubleFire
  <1>1. Init => ClaimHeld
    BY DEF Init, ClaimHeld, NewAudit
  <1>2. Spec => []ClaimHeld
    BY <1>1, ClaimStep, TypeCorrect, PTL DEF Spec
  <1>3. TypeOK /\ ClaimHeld /\ [Next]_vars =>
          [\A t \in Task :
             LET a == audit[rid[t]] IN
             pc[t] = "claim" /\ pc'[t] = "act" =>
               \/ a.claim = None
               \/ a.excuse # "none"
               \/ now - a.claim >= snap[t].def.cooldown]_vars
    <2> SUFFICES ASSUME TypeOK, ClaimHeld, [Next]_vars, NEW t \in Task,
                        pc[t] = "claim", pc'[t] = "act",
                        audit[rid[t]].claim # None,
                        audit[rid[t]].excuse = "none"
                 PROVE  now - audit[rid[t]].claim >= snap[t].def.cooldown
      OBVIOUS
    <2>1. cooldowns[rid[t]] = audit[rid[t]].claim
      BY DEF ClaimHeld, TypeOK, TasksOK
    <2>2. ~InCooldown(rid[t], snap[t].def.cooldown)
      BY ClaimGuard
    <2>3. snap[t].def.cooldown \in Nat
      BY DefAssumption DEF TypeOK, TasksOK, CompiledRule, Definition
    <2>4. audit[rid[t]].claim \in Nat /\ now \in Nat
      BY DEF TypeOK, TasksOK, CountersOK, Audit, Instant
    <2> QED BY <2>1, <2>2, <2>3, <2>4 DEF InCooldown
  <1> QED BY <1>2, <1>3, TypeCorrect, PTL DEF Spec, NoDoubleFire

-----------------------------------------------------------------------------
(* for_duration *)

\* No evaluation has found a condition false in the future.
UnmetPast == \A r \in Rule : audit[r].unmet <= now

\* The invariant of condition_since.
SinceInv == SinceAfterUnmet /\ UnmetPast

\* The step records no failed condition, and only clears a condition_since or
\* marks the rule as edited.
SinceKept ==
    /\ now' >= now
    /\ \A r \in Rule : /\ audit'[r].unmet = audit[r].unmet
                       /\ audit[r].edited => audit'[r].edited
    /\ \A r \in DOMAIN rules' : ~audit'[r].edited =>
           /\ r \in DOMAIN rules
           /\ rules'[r].condition_since \in {None, rules[r].condition_since}

\* Such a step keeps the invariant.
LEMMA SinceFrame == TypeOK /\ TypeOK' /\ SinceInv /\ SinceKept => SinceInv'
  <1> SUFFICES ASSUME TypeOK, TypeOK', SinceInv, SinceKept PROVE SinceInv'
    OBVIOUS
  <1>1. UnmetPast'
    BY DEF SinceInv, SinceKept, UnmetPast, TypeOK, CountersOK, Audit, Instant,
           None
  <1>2. SinceAfterUnmet'
    BY DEF SinceInv, SinceKept, SinceAfterUnmet, TypeOK, MapsOK, RuleMap
  <1> QED BY <1>1, <1>2 DEF SinceInv

\* Every step keeps the invariant.
LEMMA SinceStep == TypeOK /\ TypeOK' /\ SinceInv /\ [Next]_vars => SinceInv'
  <1> SUFFICES ASSUME TypeOK, TypeOK', SinceInv, [Next]_vars
               PROVE  SinceInv'
    OBVIOUS
  <1> DEFINE Same == rules' = rules /\ audit' = audit /\ now' = now
  <1>a. ASSUME Same PROVE SinceInv'
    BY <1>a DEF SinceInv, SinceAfterUnmet, UnmetPast
  <1>b. now \in Nat /\ now' \in Nat /\ DOMAIN rules' \subseteq Rule
    BY DEF TypeOK, CountersOK, MapsOK, RuleMap
  <1>c. now' = now => now' >= now
    BY <1>b
  <1> HIDE DEF Same
  <1>1. ASSUME NEW t \in Task, NEW s \in Source, NEW v \in BOOLEAN,
               DataUpdate(t, s, v)
        PROVE  SinceInv'
    BY <1>1, <1>a DEF DataUpdate, Call, engine, Same
  <1>2. ASSUME NEW t \in Task, Lookup(t)
        PROVE  SinceInv'
    BY <1>2, <1>a DEF Lookup, Inside, engine, Same
  <1>3. ASSUME NEW t \in Task, NEW r \in Rule, ExecuteRule(t, r)
        PROVE  SinceInv'
    BY <1>3, <1>a DEF ExecuteRule, Call, engine, Same
  <1>4. ASSUME NEW t \in Task, NEW due \in SUBSET Rule, CronTick(t, due)
        PROVE  SinceInv'
    BY <1>4, <1>a DEF CronTick, Call, engine, Same
  <1>5. ASSUME NEW t \in Task, CloneRule(t)
        PROVE  SinceInv'
    BY <1>5, <1>a DEF CloneRule, Inside, engine, Same
  <1>6. ASSUME NEW t \in Task, CheckCooldown(t)
        PROVE  SinceInv'
    BY <1>6, <1>a DEF CheckCooldown, Inside, engine, Same
  <1>7. ASSUME NEW t \in Task, Evaluate(t)
        PROVE  SinceInv'
    BY <1>7, <1>a DEF Evaluate, Inside, engine, Same
  <1>8. ASSUME NEW t \in Task, ConditionUnmet(t)
        PROVE  SinceInv'
    <2> DEFINE r == rid[t]
    <2>1. /\ r \in Rule
          /\ now \in Nat
          /\ now' = now
          /\ audit' = [audit EXCEPT ![r].unmet = now]
          /\ DOMAIN rules' = DOMAIN rules
          /\ r \in DOMAIN rules => rules'[r].condition_since = None
          /\ \A x \in DOMAIN rules \ {r} : rules'[x] = rules[x]
      <3>1. \/ rules' = rules /\ (r \in DOMAIN rules =>
                                   rules[r].condition_since = None)
            \/ /\ r \in DOMAIN rules
               /\ rules' = [rules EXCEPT ![r].condition_since = None]
        BY <1>8 DEF ConditionUnmet
      <3>2. \A x \in DOMAIN rules : rules[x] \in CompiledRule
        BY LookupType DEF TypeOK, MapsOK
      <3>3. /\ DOMAIN rules' = DOMAIN rules
            /\ r \in DOMAIN rules => rules'[r].condition_since = None
            /\ \A x \in DOMAIN rules \ {r} : rules'[x] = rules[x]
        <4> HIDE DEF r
        <4> QED BY <3>1, <3>2 DEF CompiledRule
      <3> QED BY <1>8, <1>b, <3>3 DEF ConditionUnmet, Inside, TypeOK, TasksOK
    <2>2. UnmetPast'
      BY <2>1 DEF SinceInv, UnmetPast, TypeOK, CountersOK, Audit
    <2>3. SinceAfterUnmet'
      BY <2>1 DEF SinceInv, SinceAfterUnmet, TypeOK, MapsOK, TasksOK,
         CountersOK, RuleMap, Audit
    <2> QED BY <2>2, <2>3 DEF SinceInv
  <1>9. ASSUME NEW t \in Task, ConditionMet(t)
        PROVE  SinceInv'
    <2> DEFINE r == rid[t]
    <2>1. /\ r \in Rule
          /\ now \in Nat
          /\ now' = now
          /\ audit' = audit
          /\ DOMAIN rules' = DOMAIN rules
          /\ r \in DOMAIN rules =>
                rules'[r].condition_since \in {now, rules[r].condition_since}
          /\ \A x \in DOMAIN rules \ {r} : rules'[x] = rules[x]
      BY <1>9, LookupType, SMTT(30) DEF ConditionMet, Inside, TypeOK, MapsOK,
             TasksOK,
         CountersOK, RuleMap, CompiledRule
    <2>2. UnmetPast'
      BY <2>1 DEF SinceInv, UnmetPast
    <2>3. SinceAfterUnmet'
      BY <2>1 DEF SinceInv, SinceAfterUnmet, UnmetPast, TypeOK, MapsOK,
         TasksOK, CountersOK, RuleMap
    <2> QED BY <2>2, <2>3 DEF SinceInv
  <1>10. ASSUME NEW t \in Task, SaveSnapshot(t)
        PROVE  SinceInv'
    BY <1>10, <1>a DEF SaveSnapshot, Inside, engine, Same
  <1>11. ASSUME NEW t \in Task, CheckElapsed(t)
        PROVE  SinceInv'
    BY <1>11, <1>a DEF CheckElapsed, Inside, engine, Same
  <1>12. ASSUME NEW t \in Task, TryClaimCooldown(t)
        PROVE  SinceInv'
    <2> DEFINE c == Claimed(audit[rid[t]], snap[t].def.cooldown)
    <2>1. /\ rid[t] \in Rule
          /\ c.unmet = audit[rid[t]].unmet
          /\ c.edited = audit[rid[t]].edited
      BY DEF TypeOK, TasksOK, CountersOK, Audit, Claimed
    <2>2. \/ audit' = audit
          \/ audit' = [audit EXCEPT ![rid[t]] = c]
      BY <1>12 DEF TryClaimCooldown
    <2>3. \A r \in Rule : /\ audit'[r].unmet = audit[r].unmet
                          /\ audit[r].edited => audit'[r].edited
      <3> HIDE DEF c
      <3> QED BY <2>1, <2>2 DEF TypeOK, CountersOK
    <2>4. rules' = rules /\ now' = now
      BY <1>12 DEF TryClaimCooldown, Inside
    <2>5. SinceKept
      BY <1>c, <2>3, <2>4, Zenon DEF SinceKept
    <2> QED BY <2>5, SinceFrame
  <1>13. ASSUME NEW t \in Task, ExecuteActions(t)
        PROVE  SinceInv'
    BY <1>13, <1>a DEF ExecuteActions, Inside, engine, Same
  <1>14. ASSUME NEW t \in Task, CountFailure(t)
        PROVE  SinceInv'
    <2>1. /\ \A r \in Rule : /\ audit'[r].unmet = audit[r].unmet
                             /\ audit[r].edited => audit'[r].edited
          /\ now' = now
      BY <1>14 DEF CountFailure, Inside, TypeOK, TasksOK, CountersOK, Audit
    <2>2. \A r \in DOMAIN rules' : ~audit'[r].edited =>
            /\ r \in DOMAIN rules
            /\ rules'[r].condition_since \in {None, rules[r].condition_since}
      BY <1>14 DEF CountFailure, TypeOK, MapsOK, TasksOK, CountersOK, RuleMap,
         CompiledRule, Audit
    <2>5. SinceKept
      BY <1>c, <2>1, <2>2, Zenon DEF SinceKept
    <2> QED BY <2>5, SinceFrame
  <1>15. ASSUME NEW t \in Task, ClearFailures(t)
        PROVE  SinceInv'
    BY <1>15, <1>a DEF ClearFailures, Inside, engine, Same
  <1>16. ASSUME NEW t \in Task, RefundCooldown(t)
        PROVE  SinceInv'
    <2>1. /\ \A r \in Rule : /\ audit'[r].unmet = audit[r].unmet
                             /\ audit[r].edited => audit'[r].edited
          /\ now' = now
      BY <1>16 DEF RefundCooldown, Inside, TypeOK, TasksOK, CountersOK, Audit
    <2>2. \A r \in DOMAIN rules' : ~audit'[r].edited =>
            /\ r \in DOMAIN rules
            /\ rules'[r].condition_since \in {None, rules[r].condition_since}
      BY <1>16 DEF RefundCooldown, TypeOK, MapsOK, TasksOK, CountersOK,
         RuleMap, CompiledRule, Audit
    <2>5. SinceKept
      BY <1>c, <2>1, <2>2, Zenon DEF SinceKept
    <2> QED BY <2>5, SinceFrame
  <1>17. ASSUME NEW t \in Task, UpdateStateAfterTrigger(t)
        PROVE  SinceInv'
    <2>1. /\ \A r0 \in Rule : /\ audit'[r0].unmet = audit[r0].unmet
                              /\ audit[r0].edited => audit'[r0].edited
          /\ now' = now
      BY <1>17 DEF UpdateStateAfterTrigger, Inside, Taint, TypeOK, TasksOK,
         CountersOK, Audit
    <2>2. \A r \in DOMAIN rules' :
            /\ r \in DOMAIN rules
            /\ rules'[r].condition_since \in {None, rules[r].condition_since}
      <3> DEFINE v == [rules[rid[t]] EXCEPT !.trigger_count = @ + 1,
                                           !.condition_since = None]
      <3>1. rid[t] \in DOMAIN rules => v.condition_since = None
        BY LookupType DEF TypeOK, MapsOK, CompiledRule
      <3>2. \/ rules' = rules
            \/ rid[t] \in DOMAIN rules /\ rules' = [rules EXCEPT ![rid[t]] = v]
        BY <1>17 DEF UpdateStateAfterTrigger
      <3> HIDE DEF v
      <3> QED BY <3>1, <3>2
    <2>5. SinceKept
      BY <1>c, <2>1, <2>2, Zenon DEF SinceKept
    <2> QED BY <2>5, SinceFrame
  <1>18. ASSUME NEW t \in Task, RecordHistory(t)
        PROVE  SinceInv'
    BY <1>18, <1>a DEF RecordHistory, Inside, engine, Same
  <1>19. ASSUME NEW t \in Task, NEW op \in {"create", "import"},
               NEW r \in Rule,
               NEW d \in Def, NEW b \in BOOLEAN, AddRule(t, op, r, d, b)
        PROVE  SinceInv'
    <2>1. /\ \A r0 \in Rule : /\ audit'[r0].unmet = audit[r0].unmet
                              /\ audit[r0].edited => audit'[r0].edited
          /\ now' = now
      BY <1>19 DEF AddRule, Call, Taint, TypeOK, TasksOK, CountersOK, Audit
    <2>2. \A r0 \in DOMAIN rules' : ~audit'[r0].edited =>
            /\ r0 \in DOMAIN rules
            /\ rules'[r0].condition_since \in {None, rules[r0].condition_since}
      <3>1. rules' = Put(rules, r, Submitted(d, b)) /\ audit'[r].edited
        BY <1>19 DEF AddRule, Taint, TypeOK, CountersOK, Audit
      <3>2. \A x \in DOMAIN rules' \ {r} : x \in DOMAIN rules /\ rules'[x] = rules[x]
        BY <3>1 DEF Put
      <3> QED BY <3>1, <3>2
    <2>5. SinceKept
      BY <1>c, <2>1, <2>2, Zenon DEF SinceKept
    <2> QED BY <2>5, SinceFrame
  <1>20. ASSUME NEW t \in Task, NEW r \in Rule, NEW d \in Def,
               NEW b \in BOOLEAN,
               ReadForUpdate(t, r, d, b)
        PROVE  SinceInv'
    BY <1>20, <1>a DEF ReadForUpdate, Call, engine, Same
  <1>21. ASSUME NEW t \in Task, NEW r \in Rule, NEW b \in BOOLEAN,
               ReadForEdit(t, r, b)
        PROVE  SinceInv'
    BY <1>21, <1>a DEF ReadForEdit, Call, engine, Same
  <1>22. ASSUME NEW t \in Task, UpdateRule(t)
        PROVE  SinceInv'
    <2>1. /\ \A r \in Rule : /\ audit'[r].unmet = audit[r].unmet
                             /\ audit[r].edited => audit'[r].edited
          /\ now' = now
      BY <1>22 DEF UpdateRule, Inside, Put, Taint, TypeOK, TasksOK,
         CountersOK, Audit
    <2>2. \A r \in DOMAIN rules' : ~audit'[r].edited =>
            /\ r \in DOMAIN rules
            /\ rules'[r].condition_since \in {None, rules[r].condition_since}
      BY <1>22 DEF UpdateRule, Put, Taint, TypeOK, MapsOK, TasksOK,
         CountersOK, RuleMap, CompiledRule, Audit
    <2>5. SinceKept
      BY <1>c, <2>1, <2>2, Zenon DEF SinceKept
    <2> QED BY <2>5, SinceFrame
  <1>23. ASSUME NEW t \in Task, NEW r \in Rule, RemoveRule(t, r)
        PROVE  SinceInv'
    <2>1. /\ \A x \in Rule : /\ audit'[x].unmet = audit[x].unmet
                             /\ audit[x].edited => audit'[x].edited
          /\ now' = now
      BY <1>23 DEF RemoveRule, Call, Drop, Taint, TypeOK, TasksOK, CountersOK,
         Audit
    <2>2. \A x \in DOMAIN rules' : ~audit'[x].edited =>
            /\ x \in DOMAIN rules
            /\ rules'[x].condition_since \in {None, rules[x].condition_since}
      BY <1>23 DEF RemoveRule, Drop, Taint, TypeOK, MapsOK, TasksOK,
         CountersOK, RuleMap, CompiledRule, Audit
    <2>5. SinceKept
      BY <1>c, <2>1, <2>2, Zenon DEF SinceKept
    <2> QED BY <2>5, SinceFrame
  <1>24. ASSUME NEW t \in Task, RebuildAllSubscriptions(t)
        PROVE  SinceInv'
    BY <1>24, <1>a DEF RebuildAllSubscriptions, Inside, engine, Same
  <1>25. ASSUME NEW t \in Task, Persist(t)
        PROVE  SinceInv'
    BY <1>25, <1>a DEF Persist, Inside, engine, Same
  <1>26. ASSUME NEW t \in Task, ForgetCooldown(t)
        PROVE  SinceInv'
    <2>1. /\ \A r \in Rule : /\ audit'[r].unmet = audit[r].unmet
                             /\ audit[r].edited => audit'[r].edited
          /\ now' = now
      BY <1>26 DEF ForgetCooldown, Inside, TypeOK, TasksOK, CountersOK, Audit
    <2>2. \A r \in DOMAIN rules' : ~audit'[r].edited =>
            /\ r \in DOMAIN rules
            /\ rules'[r].condition_since \in {None, rules[r].condition_since}
      BY <1>26 DEF ForgetCooldown, TypeOK, MapsOK, TasksOK, CountersOK,
         RuleMap, CompiledRule, Audit
    <2>5. SinceKept
      BY <1>c, <2>1, <2>2, Zenon DEF SinceKept
    <2> QED BY <2>5, SinceFrame
  <1>27. ASSUME NEW t \in Task, DeleteStored(t)
        PROVE  SinceInv'
    BY <1>27, <1>a DEF DeleteStored, Inside, engine, Same
  <1>28. ASSUME NEW t \in Task, NEW r \in Rule, NEW b \in BOOLEAN,
               SetEnabled(t, r, b)
        PROVE  SinceInv'
    <2>1. /\ \A x \in Rule : /\ audit'[x].unmet = audit[x].unmet
                             /\ audit[x].edited => audit'[x].edited
          /\ now' = now
      BY <1>28 DEF SetEnabled, Call, TypeOK, TasksOK, CountersOK, Audit
    <2>2. \A x \in DOMAIN rules' : ~audit'[x].edited =>
            /\ x \in DOMAIN rules
            /\ rules'[x].condition_since \in {None, rules[x].condition_since}
      BY <1>28, LookupType DEF SetEnabled, TypeOK, MapsOK, TasksOK,
         CountersOK, RuleMap, CompiledRule, Audit
    <2>5. SinceKept
      BY <1>c, <2>1, <2>2, Zenon DEF SinceKept
    <2> QED BY <2>5, SinceFrame
  <1>29. ASSUME NEW t \in Task, ReadBack(t)
        PROVE  SinceInv'
    BY <1>29, <1>a DEF ReadBack, Inside, engine, Same
  <1>30. CASE Tick
    BY <1>30, <1>b, SinceFrame DEF Tick, engine, SinceKept
  <1>31. CASE Restart
    <2>1. UnmetPast'
      BY <1>31 DEF Restart, UnmetPast, NewAudit, None, TypeOK, CountersOK
    <2>2. \A r \in DOMAIN rules' : rules'[r].condition_since \in Instant
      BY LookupType DEF TypeOK, MapsOK, CompiledRule
    <2>3. SinceAfterUnmet'
      BY <1>31, <2>2
      DEF Restart, SinceAfterUnmet, NewAudit, None, Instant, TypeOK, MapsOK,
          TasksOK, CountersOK, RuleMap
    <2> QED BY <2>1, <2>3 DEF SinceInv
  <1>32. CASE UNCHANGED vars
    BY <1>32, <1>a DEF vars, engine, Same
  <1>33. ASSUME NEW t \in Task, EntryPoint(t)
        PROVE  SinceInv'
    BY <1>33, <1>1, <1>3, <1>4, <1>19, <1>20, <1>21, <1>23, <1>28
    DEF EntryPoint
  <1>34. ASSUME NEW t \in Task, EvaluationStep(t)
        PROVE  SinceInv'
    BY <1>34, <1>2, <1>5, <1>6, <1>7, <1>8, <1>9, <1>10, <1>11, <1>12, <1>13,
       <1>14, <1>15, <1>16, <1>17, <1>18
    DEF EvaluationStep
  <1>35. ASSUME NEW t \in Task, EditStep(t)
        PROVE  SinceInv'
    BY <1>35, <1>22, <1>24, <1>25, <1>26, <1>27, <1>29 DEF EditStep
  <1> QED BY <1>30, <1>31, <1>32, <1>33, <1>34, <1>35 DEF Next

\* update_condition_since measures for_duration from after the last evaluation
\* that found the condition false, whichever tasks evaluate concurrently, as
\* long as no handler replaced the rule's record.
THEOREM SinceAfterUnmetHolds == Spec => []SinceAfterUnmet
  <1>1. Init => SinceInv
    BY FreshType DEF Init, SinceInv, SinceAfterUnmet, UnmetPast, NewAudit,
                     Fresh, None
  <1>2. Spec => []SinceInv
    BY <1>1, SinceStep, TypeCorrect, PTL DEF Spec
  <1> QED BY <1>2, PTL DEF SinceInv


-----------------------------------------------------------------------------
(* Counting the firings *)

\* The tasks that have claimed rule r and not counted it yet, ...
FiringOn(r) == {t \in Task : Firing(t) /\ rid[t] = r}
\* ... and those about to give its cooldown back.
RefundingOn(r) == {t \in Task : pc[t] = "refund" /\ rid[t] = r}

\* Every early firing is paid for by a streak of failures: so is the one that a
\* refunded cooldown allows, and the one that a refund under way will allow.
RefundsPaid ==
    \A r \in Rule :
        audit[r].early + (IF audit[r].excuse = "refund" THEN 1 ELSE 0)
            + Cardinality(RefundingOn(r)) <= audit[r].streaks

\* The invariant of the counts.
Tallies == FiresAccounted /\ RefundsPaid

\* No other task than t moves.
Elsewhere(t) ==
    \A u \in Task \ {t} : pc'[u] = pc[u] /\ rid'[u] = rid[u]
\* Task t neither begins nor ends a firing or a refund.
Steady(t) ==
    /\ Firing(t)' <=> Firing(t)
    /\ pc'[t] = "refund" <=> pc[t] = "refund"
    /\ Firing(t) => rid'[t] = rid[t]

\* The step counts nothing for rule r.
Uncounted(r) ==
    /\ audit'[r].early = audit[r].early
    /\ audit'[r].excuse = audit[r].excuse
    /\ audit'[r].streaks = audit[r].streaks
    /\ audit'[r].fires = audit[r].fires
    /\ audit[r].edited => audit'[r].edited

\* The step leaves the trigger count of rule r alone, or marks it as edited.
CountKept(r) ==
    r \in DOMAIN rules' /\ ~audit'[r].edited =>
        r \in DOMAIN rules /\ rules'[r].trigger_count = rules[r].trigger_count

\* The sets counted are finite.
LEMMA FiniteTallies ==
    ASSUME NEW r
    PROVE  /\ IsFiniteSet(FiringOn(r)) /\ Cardinality(FiringOn(r)) \in Nat
           /\ IsFiniteSet(RefundingOn(r))
           /\ Cardinality(RefundingOn(r)) \in Nat
  <1>1. FiringOn(r) \in SUBSET Task /\ RefundingOn(r) \in SUBSET Task
    BY DEF FiringOn, RefundingOn
  <1>2. IsFiniteSet(FiringOn(r)) /\ IsFiniteSet(RefundingOn(r))
    BY <1>1, TaskAssumption, FS_Subset
  <1> QED
    BY <1>2, FS_CardinalityType

\* A steady step leaves them alone.
LEMMA SteadySets ==
    ASSUME NEW t \in Task, Elsewhere(t), Steady(t), NEW r
    PROVE  FiringOn(r)' = FiringOn(r) /\ RefundingOn(r)' = RefundingOn(r)
  <1>1. pc[t] = "refund" => Firing(t)
    BY DEF Firing
  <1>2. \A u \in Task : Firing(u)' /\ rid'[u] = r <=> Firing(u) /\ rid[u] = r
    BY DEF Elsewhere, Steady, Firing
  <1>3. \A u \in Task : pc'[u] = "refund" /\ rid'[u] = r
                           <=> pc[u] = "refund" /\ rid[u] = r
    BY <1>1 DEF Elsewhere, Steady
  <1> QED
    BY <1>2, <1>3 DEF FiringOn, RefundingOn

\* What a step of task t must show of each rule for the tallies to hold after
\* it: the counts of the sets are all that the other facts need.
LEMMA TalliesFrame ==
    ASSUME MapsOK, CountersOK, MapsOK', Tallies,
           \A r \in Rule : /\ FiringOn(r)' = FiringOn(r)
                            /\ RefundingOn(r)' = RefundingOn(r)
                            /\ Uncounted(r) /\ CountKept(r)
    PROVE  Tallies'
  <1>1. FiresAccounted'
    <2> SUFFICES ASSUME NEW r \in DOMAIN rules', ~audit'[r].edited
                 PROVE  audit'[r].fires = rules'[r].trigger_count
                                         + Cardinality(FiringOn(r)')
      BY DEF FiresAccounted, FiringOn
    <2>1. r \in Rule
      BY DEF MapsOK, RuleMap
    <2>2. r \in DOMAIN rules /\ ~audit[r].edited
      BY <2>1 DEF Uncounted, CountKept
    <2>3. audit[r].fires = rules[r].trigger_count + Cardinality(FiringOn(r))
      BY <2>2 DEF Tallies, FiresAccounted, FiringOn
    <2> QED
      BY <2>1, <2>2, <2>3 DEF Uncounted, CountKept
  <1>2. RefundsPaid'
    BY DEF Tallies, RefundsPaid, Uncounted
  <1> QED
    BY <1>1, <1>2 DEF Tallies

\* A claim: one more firing, and one more task to count it.  It is early only
\* where the last claim was refunded.
LEMMA ClaimTallies ==
    ASSUME TypeOK, MapsOK', ClaimHeld, Tallies, NEW t \in Task,
           TryClaimCooldown(t)
    PROVE  Tallies'
  <1> USE DEF TypeOK
  <1>1. CASE InCooldown(rid[t], snap[t].def.cooldown)
    <2>1. Elsewhere(t) /\ Steady(t) /\ rules' = rules /\ audit' = audit
      BY <1>1 DEF TryClaimCooldown, Goto, Done, TasksOK, Elsewhere, Steady,
                  Firing
    <2>2. \A r \in Rule : Uncounted(r) /\ CountKept(r)
      BY <2>1 DEF Uncounted, CountKept
    <2> QED
      BY <2>1, <2>2, SteadySets, TalliesFrame
  <1>2. CASE ~InCooldown(rid[t], snap[t].def.cooldown)
    <2>1. PICK q \in Rule : q = rid[t]
      BY DEF TasksOK
    <2>2. PICK c : c = Claimed(audit[q], snap[t].def.cooldown)
      OBVIOUS
    <2>3. /\ rules' = rules /\ rid' = rid /\ pc' = [pc EXCEPT ![t] = "act"]
          /\ audit' = [audit EXCEPT ![q] = c] /\ pc[t] = "claim"
      BY <1>2, <2>1, <2>2 DEF TryClaimCooldown, Goto
    <2>4. /\ audit[q] \in Audit /\ now \in Nat /\ snap[t].def.cooldown \in Nat
          /\ audit[q].early \in Nat /\ audit[q].fires \in Nat
          /\ audit[q].streaks \in Nat
      BY DefAssumption DEF TasksOK, CountersOK, CompiledRule, Definition, Audit
    <2>5. audit[q].claim # None /\ now - audit[q].claim < snap[t].def.cooldown
             => audit[q].excuse # "none"
      BY <1>2, <2>1 DEF InCooldown, ClaimHeld
    <2>6. /\ c.excuse = "none" /\ c.fires = audit[q].fires + 1
          /\ c.streaks = audit[q].streaks /\ c.edited = audit[q].edited
      BY <2>2, <2>4 DEF Claimed, Audit
    <2>7. c.early <= audit[q].early
                       + (IF audit[q].excuse = "refund" THEN 1 ELSE 0)
          /\ c.early \in Nat
      <3>1. c.early = audit[q].early
              + (IF audit[q].claim # None
                    /\ now - audit[q].claim < snap[t].def.cooldown
                    /\ audit[q].excuse # "removed" THEN 1 ELSE 0)
        BY <2>2, <2>4 DEF Claimed, Audit
      <3>2. audit[q].excuse \in {"none", "refund", "removed"}
        BY <2>4 DEF Audit
      <3> QED
        BY <2>4, <2>5, <3>1, <3>2
    <2>8. ASSUME NEW r \in Rule
          PROVE  /\ FiringOn(r)' = IF r = q THEN FiringOn(r) \cup {t}
                                   ELSE FiringOn(r)
                 /\ RefundingOn(r)' = RefundingOn(r)
                 /\ t \notin FiringOn(r)
      BY <2>1, <2>3 DEF FiringOn, RefundingOn, Firing, TasksOK
    <2>9. ASSUME NEW r \in Rule \ {q} PROVE audit'[r] = audit[r]
      BY <2>3, <2>9 DEF CountersOK
    <2>10. audit'[q] = c
      BY <2>3 DEF CountersOK
    <2>11. Cardinality(FiringOn(q)') = Cardinality(FiringOn(q)) + 1
      BY <2>8, FiniteTallies, FS_AddElement
    <2>12. FiresAccounted'
      <3> SUFFICES ASSUME NEW r \in DOMAIN rules', ~audit'[r].edited
                   PROVE  audit'[r].fires = rules'[r].trigger_count
                                           + Cardinality(FiringOn(r)')
        BY DEF FiresAccounted, FiringOn
      <3>1. r \in DOMAIN rules /\ r \in Rule /\ rules'[r] = rules[r]
        BY <2>3 DEF MapsOK, RuleMap
      <3>2. ~audit[r].edited
        BY <2>6, <2>9, <2>10, <3>1
      <3>3. audit[r].fires = rules[r].trigger_count + Cardinality(FiringOn(r))
        BY <3>1, <3>2 DEF Tallies, FiresAccounted, FiringOn
      <3>4. CASE r = q
        <4>1. rules[r].trigger_count \in Nat /\ Cardinality(FiringOn(r)) \in Nat
          BY <3>1, LookupType, FiniteTallies DEF MapsOK, CompiledRule
        <4> QED
          BY <2>4, <2>6, <2>10, <2>11, <3>1, <3>3, <3>4, <4>1
      <3>5. CASE r # q
        BY <2>8, <2>9, <3>1, <3>3, <3>5
      <3> QED
        BY <3>4, <3>5
    <2>13. RefundsPaid'
      <3> SUFFICES ASSUME NEW r \in Rule
                   PROVE  audit'[r].early
                            + (IF audit'[r].excuse = "refund" THEN 1 ELSE 0)
                            + Cardinality(RefundingOn(r)')
                            <= audit'[r].streaks
        BY DEF RefundsPaid
      <3>1. audit[r].early + (IF audit[r].excuse = "refund" THEN 1 ELSE 0)
              + Cardinality(RefundingOn(r)) <= audit[r].streaks
        BY DEF Tallies, RefundsPaid
      <3>2. Cardinality(RefundingOn(r)) \in Nat
        BY FiniteTallies
      <3>3. CASE r = q
        BY <2>4, <2>6, <2>7, <2>8, <2>10, <3>1, <3>2, <3>3
      <3>4. CASE r # q
        BY <2>8, <2>9, <3>1, <3>4
      <3> QED
        BY <3>3, <3>4
    <2> QED
      BY <2>12, <2>13 DEF Tallies
  <1> QED
    BY <1>1, <1>2

\* Of all the counts, a step of the audit changes those of one rule.
LEMMA CountTallies ==
    ASSUME TypeOK, MapsOK', Tallies, NEW t \in Task, CountFailure(t)
    PROVE  Tallies'
  <1> USE DEF TypeOK
  <1>1. PICK q \in Rule : q = rid[t]
    BY DEF TasksOK
  <1>2. PICK x \in {0, 1} : x = (IF failures[q] = 0 THEN 1 ELSE 0)
    OBVIOUS
  <1>3. PICK l : l = (IF failures[q] = 0 THEN "refund" ELSE "bump")
    OBVIOUS
  <1>4. /\ rules' = rules /\ rid' = rid /\ pc' = [pc EXCEPT ![t] = l]
        /\ audit' = [audit EXCEPT ![q].streaks = @ + x] /\ pc[t] = "count"
    BY <1>1, <1>2, <1>3 DEF CountFailure, Goto
  <1>5. (x = 1 <=> l = "refund") /\ (x = 0 <=> l = "bump")
    BY <1>2, <1>3
  <1>6. /\ \A r \in Rule \ {q} : audit'[r] = audit[r]
        /\ \A r \in Rule :
              /\ audit'[r].early = audit[r].early
              /\ audit'[r].excuse = audit[r].excuse
              /\ audit'[r].fires = audit[r].fires
              /\ audit'[r].edited = audit[r].edited
        /\ audit'[q].streaks = audit[q].streaks + x
    BY <1>4 DEF CountersOK, Audit
  <1>7. ASSUME NEW r \in Rule
        PROVE  /\ FiringOn(r)' = FiringOn(r)
               /\ RefundingOn(r)' = IF r = q /\ x = 1
                                    THEN RefundingOn(r) \cup {t}
                                    ELSE RefundingOn(r)
               /\ t \notin RefundingOn(r)
    BY <1>1, <1>4, <1>5 DEF FiringOn, RefundingOn, Firing, TasksOK
  <1>8. Cardinality(RefundingOn(q)') = Cardinality(RefundingOn(q)) + x
    BY <1>7, FiniteTallies, FS_AddElement
  <1>9. FiresAccounted'
    BY <1>4, <1>6, <1>7, ZenonT(60)
       DEF Tallies, FiresAccounted, FiringOn, MapsOK, RuleMap
  <1>10. RefundsPaid'
    <2> SUFFICES ASSUME NEW r \in Rule
                 PROVE  audit'[r].early
                          + (IF audit'[r].excuse = "refund" THEN 1 ELSE 0)
                          + Cardinality(RefundingOn(r)') <= audit'[r].streaks
      BY DEF RefundsPaid
    <2>1. audit[r].early + (IF audit[r].excuse = "refund" THEN 1 ELSE 0)
            + Cardinality(RefundingOn(r)) <= audit[r].streaks
      BY DEF Tallies, RefundsPaid
    <2>2. /\ Cardinality(RefundingOn(r)) \in Nat /\ audit[r].early \in Nat
          /\ audit[r].streaks \in Nat
      BY FiniteTallies DEF CountersOK, Audit
    <2>3. CASE r = q
      BY <1>6, <1>8, <2>1, <2>2, <2>3
    <2>4. CASE r # q
      BY <1>6, <1>7, <2>1, <2>4
    <2> QED
      BY <2>3, <2>4
  <1> QED
    BY <1>9, <1>10 DEF Tallies

\* A refund that was under way becomes one that was given.
LEMMA RefundTallies ==
    ASSUME TypeOK, MapsOK', Tallies, NEW t \in Task, RefundCooldown(t)
    PROVE  Tallies'
  <1> USE DEF TypeOK
  <1>1. PICK q \in Rule : q = rid[t]
    BY DEF TasksOK
  <1>2. PICK e : e = (IF audit[q].excuse = "removed" THEN "removed"
                      ELSE "refund")
    OBVIOUS
  <1>3. /\ rules' = rules /\ rid' = rid /\ pc' = [pc EXCEPT ![t] = "bump"]
        /\ audit' = [audit EXCEPT ![q].excuse = e] /\ pc[t] = "refund"
    BY <1>1, <1>2 DEF RefundCooldown, Goto
  <1>4. \A r \in Rule :
           /\ r # q => audit'[r] = audit[r]
           /\ audit'[r].early = audit[r].early
           /\ audit'[r].streaks = audit[r].streaks
           /\ audit'[r].fires = audit[r].fires
           /\ audit'[r].edited = audit[r].edited
    BY <1>3 DEF CountersOK, Audit
  <1>5. ASSUME NEW r \in Rule
        PROVE  /\ FiringOn(r)' = FiringOn(r)
               /\ RefundingOn(r)' = RefundingOn(r) \ {t}
               /\ r # q => t \notin RefundingOn(r)
    BY <1>1, <1>3 DEF FiringOn, RefundingOn, Firing, TasksOK
  <1>6. t \in RefundingOn(q)
    BY <1>1, <1>3 DEF RefundingOn
  <1>7. Cardinality(RefundingOn(q)') = Cardinality(RefundingOn(q)) - 1
    BY <1>5, <1>6, FiniteTallies, FS_RemoveElement
  <1>8. FiresAccounted'
    BY <1>3, <1>4, <1>5, ZenonT(60)
       DEF Tallies, FiresAccounted, FiringOn, MapsOK, RuleMap
  <1>9. RefundsPaid'
    <2> SUFFICES ASSUME NEW r \in Rule
                 PROVE  audit'[r].early
                          + (IF audit'[r].excuse = "refund" THEN 1 ELSE 0)
                          + Cardinality(RefundingOn(r)') <= audit'[r].streaks
      BY DEF RefundsPaid
    <2>1. audit[r].early + (IF audit[r].excuse = "refund" THEN 1 ELSE 0)
            + Cardinality(RefundingOn(r)) <= audit[r].streaks
      BY DEF Tallies, RefundsPaid
    <2>2. /\ Cardinality(RefundingOn(r)) \in Nat /\ audit[r].early \in Nat
          /\ audit[r].streaks \in Nat
      BY FiniteTallies DEF CountersOK, Audit
    <2>3. CASE r = q
      BY <1>4, <1>7, <2>1, <2>2, <2>3
    <2>4. CASE r # q
      <3>1. RefundingOn(r)' = RefundingOn(r)
        BY <1>5, <2>4
      <3> QED
        BY <1>4, <2>1, <2>4, <3>1
    <2> QED
      BY <2>3, <2>4
  <1> QED
    BY <1>8, <1>9 DEF Tallies

\* update_rule_state_after_trigger: the count moves from the task to the rule.
LEMMA BumpTallies ==
    ASSUME TypeOK, MapsOK', Tallies, NEW t \in Task, UpdateStateAfterTrigger(t)
    PROVE  Tallies'
  <1> USE DEF TypeOK
  <1>1. PICK q \in Rule : q = rid[t]
    BY DEF TasksOK
  <1>2. PICK l \in {"saveState", "log"} : pc' = [pc EXCEPT ![t] = l]
    BY DEF UpdateStateAfterTrigger, Goto
  <1>3. audit' = audit /\ rid' = rid /\ pc[t] = "bump"
    BY DEF UpdateStateAfterTrigger
  <1>4. /\ DOMAIN rules' = DOMAIN rules
        /\ q \in DOMAIN rules =>
              rules'[q].trigger_count = rules[q].trigger_count + 1
        /\ \A r \in DOMAIN rules \ {q} : rules'[r] = rules[r]
    <2>1. PICK v : v = [rules[q] EXCEPT !.trigger_count = @ + 1,
                                        !.condition_since = None]
      OBVIOUS
    <2>2. q \in DOMAIN rules => v.trigger_count = rules[q].trigger_count + 1
      BY <2>1, LookupType DEF MapsOK, CompiledRule
    <2>3. \/ rules' = rules /\ q \notin DOMAIN rules
          \/ q \in DOMAIN rules /\ rules' = [rules EXCEPT ![q] = v]
      BY <1>1, <2>1 DEF UpdateStateAfterTrigger
    <2> QED
      BY <2>2, <2>3
  <1>5. ASSUME NEW r \in Rule
        PROVE  /\ FiringOn(r)' = FiringOn(r) \ {t}
               /\ r # q => t \notin FiringOn(r)
               /\ RefundingOn(r)' = RefundingOn(r)
    BY <1>1, <1>2, <1>3 DEF FiringOn, RefundingOn, Firing, TasksOK
  <1>6. t \in FiringOn(q)
    BY <1>1, <1>3 DEF FiringOn, Firing
  <1>7. Cardinality(FiringOn(q)') = Cardinality(FiringOn(q)) - 1
    BY <1>5, <1>6, FiniteTallies, FS_RemoveElement
  <1>8. FiresAccounted'
    <2> SUFFICES ASSUME NEW r \in DOMAIN rules', ~audit'[r].edited
                 PROVE  audit'[r].fires = rules'[r].trigger_count
                                         + Cardinality(FiringOn(r)')
      BY DEF FiresAccounted, FiringOn
    <2>1. r \in DOMAIN rules /\ r \in Rule
      BY <1>4 DEF MapsOK, RuleMap
    <2>2. audit[r].fires = rules[r].trigger_count + Cardinality(FiringOn(r))
      BY <1>3, <2>1 DEF Tallies, FiresAccounted, FiringOn
    <2>3. CASE r = q
      <3>1. rules[r].trigger_count \in Nat /\ Cardinality(FiringOn(r)) \in Nat
        BY <2>1, LookupType, FiniteTallies DEF MapsOK, CompiledRule
      <3> QED
        BY <1>3, <1>4, <1>7, <2>1, <2>2, <2>3, <3>1
    <2>4. CASE r # q
      <3>1. FiringOn(r)' = FiringOn(r)
        BY <1>5, <2>1, <2>4
      <3> QED
        BY <1>3, <1>4, <2>1, <2>2, <2>4, <3>1
    <2> QED
      BY <2>3, <2>4
  <1>9. RefundsPaid'
    BY <1>3, <1>5 DEF Tallies, RefundsPaid
  <1> QED
    BY <1>8, <1>9 DEF Tallies

\* remove_rule forgets a refund with the claim.
LEMMA ForgetTallies ==
    ASSUME TypeOK, MapsOK', Tallies, NEW t \in Task, ForgetCooldown(t)
    PROVE  Tallies'
  <1> USE DEF TypeOK
  <1>1. PICK q \in Rule : q = rid[t]
    BY DEF TasksOK
  <1>2. Elsewhere(t) /\ Steady(t)
    BY DEF ForgetCooldown, Goto, TasksOK, Elsewhere, Steady, Firing
  <1>3. rules' = rules /\ audit' = [audit EXCEPT ![q].excuse = "removed"]
    BY <1>1 DEF ForgetCooldown
  <1>4. \A r \in Rule :
           /\ audit'[r].excuse \in {audit[r].excuse, "removed"}
           /\ audit'[r].early = audit[r].early
           /\ audit'[r].streaks = audit[r].streaks
           /\ audit'[r].fires = audit[r].fires
           /\ audit'[r].edited = audit[r].edited
    BY <1>3 DEF CountersOK, Audit
  <1>5. \A r \in Rule : /\ FiringOn(r)' = FiringOn(r)
                        /\ RefundingOn(r)' = RefundingOn(r)
    BY <1>2, SteadySets
  <1>6. FiresAccounted'
    BY <1>3, <1>4, <1>5, ZenonT(60)
       DEF Tallies, FiresAccounted, FiringOn, MapsOK, RuleMap
  <1>7. RefundsPaid'
    <2> SUFFICES ASSUME NEW r \in Rule
                 PROVE  audit'[r].early
                          + (IF audit'[r].excuse = "refund" THEN 1 ELSE 0)
                          + Cardinality(RefundingOn(r)') <= audit'[r].streaks
      BY DEF RefundsPaid
    <2>1. audit[r].early + (IF audit[r].excuse = "refund" THEN 1 ELSE 0)
            + Cardinality(RefundingOn(r)) <= audit[r].streaks
      BY DEF Tallies, RefundsPaid
    <2>2. /\ Cardinality(RefundingOn(r)) \in Nat /\ audit[r].early \in Nat
          /\ audit[r].streaks \in Nat
      BY FiniteTallies DEF CountersOK, Audit
    <2> QED
      BY <1>4, <1>5, <2>1, <2>2
  <1> QED
    BY <1>6, <1>7 DEF Tallies

\* Every step keeps the tallies.
LEMMA TalliesStep ==
    TypeOK /\ TypeOK' /\ ClaimHeld /\ Tallies /\ [Next]_vars => Tallies'
  <1> SUFFICES ASSUME TypeOK, TypeOK', MapsOK, TasksOK, CountersOK, MapsOK',
                      ClaimHeld, Tallies, [Next]_vars
               PROVE  Tallies'
    BY DEF TypeOK
  <1>a. ASSUME rules' = rules, audit' = audit, NEW t \in Task, Elsewhere(t),
               Steady(t)
        PROVE  Tallies'
    <2>1. \A r \in Rule : Uncounted(r) /\ CountKept(r)
      BY <1>a DEF Uncounted, CountKept
    <2> QED
      BY <1>a, <2>1, SteadySets, TalliesFrame
  <1>1. ASSUME NEW t \in Task, NEW s \in Source, NEW v \in BOOLEAN,
              DataUpdate(t, s, v)
        PROVE  Tallies'
    <2>1. Elsewhere(t) /\ Steady(t)
      BY <1>1 DEF DataUpdate, Call, Goto, TasksOK, Elsewhere, Steady, Firing
    <2> QED
      BY <1>1, <1>a, <2>1 DEF DataUpdate, engine
  <1>2. ASSUME NEW t \in Task, Lookup(t)
        PROVE  Tallies'
    <2>1. Elsewhere(t) /\ Steady(t)
      BY <1>2 DEF Lookup, Goto, TasksOK, Elsewhere, Steady, Firing
    <2> QED
      BY <1>2, <1>a, <2>1 DEF Lookup, engine
  <1>3. ASSUME NEW t \in Task, NEW r \in Rule, ExecuteRule(t, r)
        PROVE  Tallies'
    <2>1. Elsewhere(t) /\ Steady(t)
      BY <1>3 DEF ExecuteRule, Call, Goto, TasksOK, Elsewhere, Steady, Firing
    <2> QED
      BY <1>3, <1>a, <2>1 DEF ExecuteRule, engine
  <1>4. ASSUME NEW t \in Task, NEW due \in SUBSET Rule, CronTick(t, due)
        PROVE  Tallies'
    <2>1. Elsewhere(t) /\ Steady(t)
      BY <1>4 DEF CronTick, Call, Goto, TasksOK, Elsewhere, Steady, Firing
    <2> QED
      BY <1>4, <1>a, <2>1 DEF CronTick, engine
  <1>5. ASSUME NEW t \in Task, CloneRule(t)
        PROVE  Tallies'
    <2>1. Elsewhere(t) /\ Steady(t)
      BY <1>5 DEF CloneRule, Goto, TasksOK, Elsewhere, Steady, Firing
    <2> QED
      BY <1>5, <1>a, <2>1 DEF CloneRule, engine
  <1>6. ASSUME NEW t \in Task, CheckCooldown(t)
        PROVE  Tallies'
    <2>1. Elsewhere(t) /\ Steady(t)
      BY <1>6 DEF CheckCooldown, Goto, Done, TasksOK, Elsewhere, Steady, Firing
    <2> QED
      BY <1>6, <1>a, <2>1 DEF CheckCooldown, engine
  <1>7. ASSUME NEW t \in Task, Evaluate(t)
        PROVE  Tallies'
    <2>1. Elsewhere(t) /\ Steady(t)
      BY <1>7 DEF Evaluate, Goto, TasksOK, Elsewhere, Steady, Firing
    <2> QED
      BY <1>7, <1>a, <2>1 DEF Evaluate, engine
  <1>8. ASSUME NEW t \in Task, ConditionUnmet(t)
        PROVE  Tallies'
    <2>1. Elsewhere(t) /\ Steady(t)
      BY <1>8 DEF ConditionUnmet, Goto, Done, TasksOK, Elsewhere, Steady,
             Firing
    <2>2. \A r \in Rule : Uncounted(r) /\ CountKept(r)
      <3>1. \A r \in Rule : Uncounted(r) /\ audit'[r].edited = audit[r].edited
        BY <1>8 DEF ConditionUnmet, TasksOK, CountersOK, Audit, Uncounted
      <3>2. \A r \in DOMAIN rules' :
               /\ r \in DOMAIN rules
               /\ rules'[r].trigger_count = rules[r].trigger_count
        <4>1. PICK v : v = [rules[rid[t]] EXCEPT !.condition_since = None]
          OBVIOUS
        <4>2. rid[t] \in DOMAIN rules =>
                v.trigger_count = rules[rid[t]].trigger_count
          BY <4>1, LookupType DEF MapsOK, CompiledRule
        <4>3. \/ rules' = rules
              \/ /\ rid[t] \in DOMAIN rules
                 /\ rules' = [rules EXCEPT ![rid[t]] = v]
          BY <1>8, <4>1 DEF ConditionUnmet
        <4> QED
          BY <4>2, <4>3
      <3> QED
        BY <3>1, <3>2 DEF CountKept
    <2> QED
      BY <2>1, <2>2, SteadySets, TalliesFrame
  <1>9. ASSUME NEW t \in Task, ConditionMet(t)
        PROVE  Tallies'
    <2>1. Elsewhere(t) /\ Steady(t)
      BY <1>9 DEF ConditionMet, Goto, Done, TasksOK, Elsewhere, Steady, Firing
    <2>2. \A r \in Rule : Uncounted(r) /\ CountKept(r)
      <3>1. \A r \in Rule : Uncounted(r)
        BY <1>9 DEF ConditionMet, Uncounted
      <3>2. \A r \in DOMAIN rules' :
               /\ r \in DOMAIN rules
               /\ rules'[r].trigger_count = rules[r].trigger_count
        <4>1. PICK v : v = [rules[rid[t]] EXCEPT !.condition_since =
                               IF rules[rid[t]].condition_since = None
                               THEN now ELSE rules[rid[t]].condition_since]
          OBVIOUS
        <4>2. rid[t] \in DOMAIN rules =>
                v.trigger_count = rules[rid[t]].trigger_count
          BY <4>1, LookupType DEF MapsOK, CompiledRule
        <4>3. \/ rules' = rules
              \/ /\ rid[t] \in DOMAIN rules
                 /\ rules' = [rules EXCEPT ![rid[t]] = v]
          BY <1>9, <4>1 DEF ConditionMet
        <4> QED
          BY <4>2, <4>3
      <3> QED
        BY <3>1, <3>2 DEF CountKept
    <2> QED
      BY <2>1, <2>2, SteadySets, TalliesFrame
  <1>10. ASSUME NEW t \in Task, SaveSnapshot(t)
        PROVE  Tallies'
    <2>1. Elsewhere(t) /\ Steady(t)
      BY <1>10 DEF SaveSnapshot, Goto, Done, TasksOK, Elsewhere, Steady, Firing
    <2> QED
      BY <1>10, <1>a, <2>1 DEF SaveSnapshot, engine
  <1>11. ASSUME NEW t \in Task, CheckElapsed(t)
        PROVE  Tallies'
    <2>1. Elsewhere(t) /\ Steady(t)
      BY <1>11 DEF CheckElapsed, Goto, Done, TasksOK, Elsewhere, Steady, Firing
    <2> QED
      BY <1>11, <1>a, <2>1 DEF CheckElapsed, engine
  <1>12. ASSUME NEW t \in Task, TryClaimCooldown(t)
        PROVE  Tallies'
    BY <1>12, ClaimTallies
  <1>13. ASSUME NEW t \in Task, ExecuteActions(t)
        PROVE  Tallies'
    <2>1. Elsewhere(t) /\ Steady(t)
      BY <1>13 DEF ExecuteActions, Goto, TasksOK, Elsewhere, Steady, Firing
    <2> QED
      BY <1>13, <1>a, <2>1 DEF ExecuteActions, engine
  <1>14. ASSUME NEW t \in Task, CountFailure(t)
        PROVE  Tallies'
    BY <1>14, CountTallies
  <1>15. ASSUME NEW t \in Task, ClearFailures(t)
        PROVE  Tallies'
    <2>1. Elsewhere(t) /\ Steady(t)
      BY <1>15 DEF ClearFailures, Goto, TasksOK, Elsewhere, Steady, Firing
    <2> QED
      BY <1>15, <1>a, <2>1 DEF ClearFailures, engine
  <1>16. ASSUME NEW t \in Task, RefundCooldown(t)
        PROVE  Tallies'
    BY <1>16, RefundTallies
  <1>17. ASSUME NEW t \in Task, UpdateStateAfterTrigger(t)
        PROVE  Tallies'
    BY <1>17, BumpTallies
  <1>18. ASSUME NEW t \in Task, RecordHistory(t)
        PROVE  Tallies'
    <2>1. Elsewhere(t) /\ Steady(t)
      BY <1>18 DEF RecordHistory, Goto, Done, TasksOK, Elsewhere, Steady,
             Firing
    <2> QED
      BY <1>18, <1>a, <2>1 DEF RecordHistory, engine
  <1>19. ASSUME NEW t \in Task, NEW op \in {"create", "import"},
               NEW r \in Rule,
              NEW d \in Def, NEW b \in BOOLEAN, AddRule(t, op, r, d, b)
        PROVE  Tallies'
    <2>1. Elsewhere(t) /\ Steady(t)
      BY <1>19 DEF AddRule, Call, Goto, TasksOK, Elsewhere, Steady, Firing
    <2>2. \A x \in Rule : Uncounted(x) /\ CountKept(x)
      <3>1. \A x \in Rule : Uncounted(x)
        BY <1>19 DEF AddRule, Taint, TasksOK, CountersOK, Audit, Uncounted
      <3>2. rules' = Put(rules, r, Submitted(d, b)) /\ audit'[r].edited
        BY <1>19 DEF AddRule, Taint, CountersOK, Audit
      <3> QED
        BY <3>1, <3>2 DEF CountKept, Put
    <2> QED
      BY <2>1, <2>2, SteadySets, TalliesFrame
  <1>20. ASSUME NEW t \in Task, NEW r \in Rule, NEW d \in Def,
               NEW b \in BOOLEAN,
              ReadForUpdate(t, r, d, b)
        PROVE  Tallies'
    <2>1. Elsewhere(t) /\ Steady(t)
      BY <1>20 DEF ReadForUpdate, Call, Goto, TasksOK, Elsewhere, Steady,
             Firing
    <2> QED
      BY <1>20, <1>a, <2>1 DEF ReadForUpdate, engine
  <1>21. ASSUME NEW t \in Task, NEW r \in Rule, NEW b \in BOOLEAN,
               ReadForEdit(t, r, b)
        PROVE  Tallies'
    <2>1. Elsewhere(t) /\ Steady(t)
      BY <1>21 DEF ReadForEdit, Call, Goto, TasksOK, Elsewhere, Steady, Firing
    <2> QED
      BY <1>21, <1>a, <2>1 DEF ReadForEdit, engine
  <1>22. ASSUME NEW t \in Task, UpdateRule(t)
        PROVE  Tallies'
    <2>1. Elsewhere(t) /\ Steady(t)
      BY <1>22 DEF UpdateRule, Goto, TasksOK, Elsewhere, Steady, Firing
    <2>2. \A r \in Rule : Uncounted(r) /\ CountKept(r)
      <3>1. \A r \in Rule : Uncounted(r)
        BY <1>22 DEF UpdateRule, Taint, TasksOK, CountersOK, Audit, Uncounted
      <3>2. rules' = Put(rules, rid[t], snap[t]) /\ audit'[rid[t]].edited
        BY <1>22 DEF UpdateRule, Taint, TasksOK, CountersOK, Audit
      <3> QED
        BY <3>1, <3>2 DEF CountKept, Put
    <2> QED
      BY <2>1, <2>2, SteadySets, TalliesFrame
  <1>23. ASSUME NEW t \in Task, NEW r \in Rule, RemoveRule(t, r)
        PROVE  Tallies'
    <2>1. Elsewhere(t) /\ Steady(t)
      BY <1>23 DEF RemoveRule, Call, Goto, TasksOK, Elsewhere, Steady, Firing
    <2>2. \A x \in Rule : Uncounted(x) /\ CountKept(x)
      <3>1. \A x \in Rule : Uncounted(x)
        BY <1>23 DEF RemoveRule, Taint, TasksOK, CountersOK, Audit, Uncounted
      <3>2. rules' = Drop(rules, r)
        BY <1>23 DEF RemoveRule
      <3> QED
        BY <3>1, <3>2 DEF CountKept, Drop
    <2> QED
      BY <2>1, <2>2, SteadySets, TalliesFrame
  <1>24. ASSUME NEW t \in Task, RebuildAllSubscriptions(t)
        PROVE  Tallies'
    <2>1. Elsewhere(t) /\ Steady(t)
      BY <1>24 DEF RebuildAllSubscriptions, Goto, Done, TasksOK, Elsewhere,
             Steady, Firing
    <2> QED
      BY <1>24, <1>a, <2>1 DEF RebuildAllSubscriptions, engine
  <1>25. ASSUME NEW t \in Task, Persist(t)
        PROVE  Tallies'
    <2>1. Elsewhere(t) /\ Steady(t)
      BY <1>25 DEF Persist, Goto, Done, TasksOK, Elsewhere, Steady, Firing
    <2> QED
      BY <1>25, <1>a, <2>1 DEF Persist, engine
  <1>26. ASSUME NEW t \in Task, ForgetCooldown(t)
        PROVE  Tallies'
    BY <1>26, ForgetTallies
  <1>27. ASSUME NEW t \in Task, DeleteStored(t)
        PROVE  Tallies'
    <2>1. Elsewhere(t) /\ Steady(t)
      BY <1>27 DEF DeleteStored, Goto, Done, TasksOK, Elsewhere, Steady, Firing
    <2> QED
      BY <1>27, <1>a, <2>1 DEF DeleteStored, engine
  <1>28. ASSUME NEW t \in Task, NEW r \in Rule, NEW b \in BOOLEAN,
               SetEnabled(t, r, b)
        PROVE  Tallies'
    <2>1. Elsewhere(t) /\ Steady(t)
      BY <1>28 DEF SetEnabled, Call, Goto, TasksOK, Elsewhere, Steady, Firing
    <2>2. \A x \in Rule : Uncounted(x) /\ CountKept(x)
      <3>1. \A x \in Rule : Uncounted(x)
        BY <1>28 DEF SetEnabled, Uncounted
      <3>2. \A x \in DOMAIN rules' :
               /\ x \in DOMAIN rules
               /\ rules'[x].trigger_count = rules[x].trigger_count
        BY <1>28, LookupType DEF SetEnabled, MapsOK, CompiledRule
      <3> QED
        BY <3>1, <3>2 DEF CountKept
    <2> QED
      BY <2>1, <2>2, SteadySets, TalliesFrame
  <1>29. ASSUME NEW t \in Task, ReadBack(t)
        PROVE  Tallies'
    <2>1. Elsewhere(t) /\ Steady(t)
      BY <1>29 DEF ReadBack, Goto, Done, TasksOK, Elsewhere, Steady, Firing
    <2> QED
      BY <1>29, <1>a, <2>1 DEF ReadBack, engine
  <1>30. CASE Tick \/ UNCHANGED vars
    <2>1. rules' = rules /\ audit' = audit /\ pc' = pc /\ rid' = rid
      BY <1>30 DEF Tick, vars, engine, locals
    <2>2. \A r \in Rule : /\ FiringOn(r)' = FiringOn(r)
                          /\ RefundingOn(r)' = RefundingOn(r)
      BY <2>1 DEF FiringOn, RefundingOn, Firing
    <2>3. \A r \in Rule : Uncounted(r) /\ CountKept(r)
      BY <2>1 DEF Uncounted, CountKept
    <2> QED
      BY <2>2, <2>3, TalliesFrame
  <1>31. CASE Restart
    <2>1. \A r : FiringOn(r)' = {} /\ RefundingOn(r)' = {}
      BY <1>31 DEF Restart, FiringOn, RefundingOn, Firing
    <2>2. /\ rules' = rule_store
          /\ \A r \in Rule :
                /\ audit'[r].early = 0 /\ audit'[r].streaks = 0
                /\ audit'[r].excuse = "none"
                /\ r \in DOMAIN rule_store =>
                      audit'[r].fires = rule_store[r].trigger_count
      BY <1>31 DEF Restart, NewAudit
    <2>3. Cardinality({}) = 0
      BY FS_EmptySet
    <2>4. FiresAccounted'
      <3> SUFFICES ASSUME NEW r \in DOMAIN rules'
                   PROVE  audit'[r].fires = rules'[r].trigger_count
                                           + Cardinality(FiringOn(r)')
        BY DEF FiresAccounted, FiringOn
      <3>1. r \in DOMAIN rule_store
        BY <2>2
      <3>2. r \in Rule /\ rule_store[r].trigger_count \in Nat
        BY <3>1, LookupType DEF MapsOK, CompiledRule
      <3>3. Cardinality(FiringOn(r)') = 0
        BY <2>1, <2>3
      <3>4. audit'[r].fires = rule_store[r].trigger_count
        BY <2>2, <3>1, <3>2
      <3> QED
        BY <2>2, <3>2, <3>3, <3>4
    <2>5. RefundsPaid'
      BY <2>1, <2>2, <2>3 DEF RefundsPaid
    <2> QED
      BY <2>4, <2>5 DEF Tallies
  <1>33. ASSUME NEW t \in Task, EntryPoint(t)
        PROVE  Tallies'
    BY <1>33, <1>1, <1>3, <1>4, <1>19, <1>20, <1>21, <1>23, <1>28
    DEF EntryPoint
  <1>34. ASSUME NEW t \in Task, EvaluationStep(t)
        PROVE  Tallies'
    BY <1>34, <1>2, <1>5, <1>6, <1>7, <1>8, <1>9, <1>10, <1>11, <1>12, <1>13,
       <1>14, <1>15, <1>16, <1>17, <1>18
    DEF EvaluationStep
  <1>35. ASSUME NEW t \in Task, EditStep(t)
        PROVE  Tallies'
    BY <1>35, <1>22, <1>24, <1>25, <1>26, <1>27, <1>29 DEF EditStep
  <1> QED
    BY <1>30, <1>31, <1>33, <1>34, <1>35 DEF Next

\* The tallies hold in every state.
LEMMA TalliesHold == Spec => []Tallies
  <1>1. ASSUME Init PROVE Tallies
    <2>1. \A r : FiringOn(r) = {} /\ RefundingOn(r) = {}
      BY <1>1 DEF Init, NoTasks, FiringOn, RefundingOn, Firing
    <2>2. Cardinality({}) = 0
      BY FS_EmptySet
    <2>3. \A r \in Rule : /\ audit[r].early = 0 /\ audit[r].streaks = 0
                          /\ audit[r].excuse = "none" /\ audit[r].fires = 0
      BY <1>1 DEF Init, NewAudit
    <2>4. DOMAIN rules \subseteq Rule
          /\ \A r \in DOMAIN rules : rules[r].trigger_count = 0
      BY <1>1, InstalledAssumption DEF Init, Fresh
    <2>5. FiresAccounted
      <3> SUFFICES ASSUME NEW r \in DOMAIN rules
                   PROVE  audit[r].fires = rules[r].trigger_count
                                          + Cardinality(FiringOn(r))
        BY DEF FiresAccounted, FiringOn
      <3> QED
        BY <2>1, <2>2, <2>3, <2>4
    <2>6. RefundsPaid
      BY <2>1, <2>2, <2>3 DEF RefundsPaid
    <2> QED
      BY <2>5, <2>6 DEF Tallies
  <1>2. Init => ClaimHeld
    BY DEF Init, ClaimHeld, NewAudit
  <1>3. Spec => [](TypeOK /\ ClaimHeld)
    BY <1>2, ClaimStep, TypeCorrect, PTL DEF Spec
  <1> QED
    BY <1>1, <1>3, TalliesStep, PTL DEF Spec

\* trigger_count is exact for any number of concurrent evaluations: whatever
\* interleaving of clones, claims and updates, no firing is lost and none is
\* counted twice, as long as no handler replaced or removed the record.
THEOREM NoFireUncounted == Spec => []FiresAccounted
  BY TalliesHold, PTL DEF Tallies

\* execute_rule's pacing holds for any number of tasks: a rule fires within its
\* cooldown at most once per streak of all-failed executions, even though a
\* refund removes whichever claim it finds.
THEOREM PacingHolds == Spec => []EarlyFiresPaid
  <1>1. ASSUME TypeOK, Tallies PROVE EarlyFiresPaid
    <2> SUFFICES ASSUME NEW r \in Rule
                 PROVE  audit[r].early <= audit[r].streaks
      BY DEF EarlyFiresPaid
    <2>1. audit[r].early + (IF audit[r].excuse = "refund" THEN 1 ELSE 0)
            + Cardinality(RefundingOn(r)) <= audit[r].streaks
      BY <1>1 DEF Tallies, RefundsPaid
    <2>2. /\ Cardinality(RefundingOn(r)) \in Nat /\ audit[r].early \in Nat
          /\ audit[r].streaks \in Nat
      BY <1>1, FiniteTallies DEF TypeOK, CountersOK, Audit
    <2> QED
      BY <2>1, <2>2
  <1> QED
    BY <1>1, TalliesHold, TypeCorrect, PTL

-----------------------------------------------------------------------------
(* The store, when requests do not overlap *)

\* The places of a task that owes the store nothing.
Saved == Labels \ {"saveUnmet", "saveSince", "saveState", "rebuild", "persist",
                   "uncool", "unstore", "reread"}

\* How far the store is behind the rules, at each place of task t: by nothing,
\* or by the very record the task is about to save or delete.
Behind(t) ==
    /\ pc[t] \in Saved => rules = rule_store
    /\ pc[t] \in {"saveUnmet", "saveSince", "saveState"} =>
           rules = Put(rule_store, rid[t], pend[t])
    /\ pc[t] = "upsert" => via[t] \in {"update", "edit"}
    /\ pc[t] = "rebuild" =>
           /\ via[t] # "import"
           /\ via[t] = "delete" => rules = Drop(rule_store, rid[t])
           /\ via[t] # "delete" => rules = Put(rule_store, rid[t], snap[t])
    /\ pc[t] = "persist" => rules = Put(rule_store, rid[t], snap[t])
    /\ pc[t] \in {"uncool", "unstore"} => rules = Drop(rule_store, rid[t])
    /\ pc[t] = "reread" =>
           /\ rid[t] \in DOMAIN rules
           /\ DOMAIN rules = DOMAIN rule_store
           /\ \A x \in DOMAIN rules \ {rid[t]} : rules[x] = rule_store[x]

\* Replacing the record of a present rule is an insertion.
LEMMA PutPresent ==
    ASSUME NEW m, RuleMap(m), NEW r \in DOMAIN m, NEW v
    PROVE  [m EXCEPT ![r] = v] = Put(m, r, v)
  BY DEF RuleMap, Put

\* A step between two places that owe the store nothing.
LEMMA OwesNothing ==
    ASSUME NEW t, Behind(t), pc[t] \in Saved, pc'[t] \in Saved \ {"upsert"},
           UNCHANGED <<rules, rule_store>>
    PROVE  Behind(t)'
  BY DEF Behind, Saved

\* A step that saves what the task owed.
LEMMA PaysUp ==
    ASSUME NEW t, pc'[t] \in Saved \ {"upsert"}, rule_store' = rules'
    PROVE  Behind(t)'
  BY DEF Behind, Saved

\* Every step of a task keeps the store behind by what the task owes it, if no
\* handler adds rules without saving them.
LEMMA BehindStep ==
    ASSUME TypeOK, "import" \notin Ops, NEW t \in Task, Behind(t),
           EntryPoint(t) \/ EvaluationStep(t) \/ EditStep(t)
    PROVE  Behind(t)'
  <1> USE DEF TypeOK
  <1>1. CASE \E s \in Source, v \in BOOLEAN : DataUpdate(t, s, v)
    <2>1. /\ pc[t] \in Saved /\ pc'[t] \in Saved \ {"upsert"}
          /\ UNCHANGED <<rules, rule_store>>
      BY <1>1 DEF DataUpdate, Call, Goto, engine, TasksOK, Saved, Labels
    <2> QED
      BY <2>1, OwesNothing
  <1>2. CASE Lookup(t)
    <2>1. /\ pc[t] \in Saved /\ pc'[t] \in Saved \ {"upsert"}
          /\ UNCHANGED <<rules, rule_store>>
      BY <1>2 DEF Lookup, Goto, engine, TasksOK, Saved, Labels
    <2> QED
      BY <2>1, OwesNothing
  <1>3. CASE \E r \in Rule : ExecuteRule(t, r)
    <2>1. /\ pc[t] \in Saved /\ pc'[t] \in Saved \ {"upsert"}
          /\ UNCHANGED <<rules, rule_store>>
      BY <1>3 DEF ExecuteRule, Call, Goto, engine, TasksOK, Saved, Labels
    <2> QED
      BY <2>1, OwesNothing
  <1>4. CASE \E due \in SUBSET Rule : CronTick(t, due)
    <2>1. /\ pc[t] \in Saved /\ pc'[t] \in Saved \ {"upsert"}
          /\ UNCHANGED <<rules, rule_store>>
      BY <1>4 DEF CronTick, Call, Goto, engine, TasksOK, Saved, Labels
    <2> QED
      BY <2>1, OwesNothing
  <1>5. CASE CloneRule(t)
    <2>1. /\ pc[t] \in Saved /\ pc'[t] \in Saved \ {"upsert"}
          /\ UNCHANGED <<rules, rule_store>>
      BY <1>5 DEF CloneRule, Goto, engine, TasksOK, Saved, Labels
    <2> QED
      BY <2>1, OwesNothing
  <1>6. CASE CheckCooldown(t)
    <2>1. /\ pc[t] \in Saved /\ pc'[t] \in Saved \ {"upsert"}
          /\ UNCHANGED <<rules, rule_store>>
      BY <1>6 DEF CheckCooldown, Goto, Done, engine, TasksOK, Saved, Labels
    <2> QED
      BY <2>1, OwesNothing
  <1>7. CASE Evaluate(t)
    <2>1. /\ pc[t] \in Saved /\ pc'[t] \in Saved \ {"upsert"}
          /\ UNCHANGED <<rules, rule_store>>
      BY <1>7 DEF Evaluate, Goto, engine, TasksOK, Saved, Labels
    <2> QED
      BY <2>1, OwesNothing
  <1>8. CASE CheckElapsed(t)
    <2>1. /\ pc[t] \in Saved /\ pc'[t] \in Saved \ {"upsert"}
          /\ UNCHANGED <<rules, rule_store>>
      BY <1>8 DEF CheckElapsed, Goto, Done, engine, TasksOK, Saved, Labels
    <2> QED
      BY <2>1, OwesNothing
  <1>9. CASE TryClaimCooldown(t)
    <2>1. /\ pc[t] \in Saved /\ pc'[t] \in Saved \ {"upsert"}
          /\ UNCHANGED <<rules, rule_store>>
      BY <1>9 DEF TryClaimCooldown, Goto, Done, engine, TasksOK, Saved, Labels
    <2> QED
      BY <2>1, OwesNothing
  <1>10. CASE ExecuteActions(t)
    <2>1. /\ pc[t] \in Saved /\ pc'[t] \in Saved \ {"upsert"}
          /\ UNCHANGED <<rules, rule_store>>
      BY <1>10 DEF ExecuteActions, Goto, engine, TasksOK, Saved, Labels
    <2> QED
      BY <2>1, OwesNothing
  <1>11. CASE CountFailure(t)
    <2>1. /\ pc[t] \in Saved /\ pc'[t] \in Saved \ {"upsert"}
          /\ UNCHANGED <<rules, rule_store>>
      BY <1>11 DEF CountFailure, Goto, engine, TasksOK, Saved, Labels
    <2> QED
      BY <2>1, OwesNothing
  <1>12. CASE ClearFailures(t)
    <2>1. /\ pc[t] \in Saved /\ pc'[t] \in Saved \ {"upsert"}
          /\ UNCHANGED <<rules, rule_store>>
      BY <1>12 DEF ClearFailures, Goto, engine, TasksOK, Saved, Labels
    <2> QED
      BY <2>1, OwesNothing
  <1>13. CASE RefundCooldown(t)
    <2>1. /\ pc[t] \in Saved /\ pc'[t] \in Saved \ {"upsert"}
          /\ UNCHANGED <<rules, rule_store>>
      BY <1>13 DEF RefundCooldown, Goto, engine, TasksOK, Saved, Labels
    <2> QED
      BY <2>1, OwesNothing
  <1>14. CASE RecordHistory(t)
    <2>1. /\ pc[t] \in Saved /\ pc'[t] \in Saved \ {"upsert"}
          /\ UNCHANGED <<rules, rule_store>>
      BY <1>14 DEF RecordHistory, Goto, Done, engine, TasksOK, Saved, Labels
    <2> QED
      BY <2>1, OwesNothing
  <1>15. CASE ConditionUnmet(t)
    <2>1. PICK v : v = [rules[rid[t]] EXCEPT !.condition_since = None]
      OBVIOUS
    <2>2. CASE /\ rid[t] \in DOMAIN rules /\ pc'[t] = "saveUnmet"
               /\ rules' = [rules EXCEPT ![rid[t]] = v]
               /\ pend'[t] = v /\ rid' = rid
      <3>1. rules = rule_store /\ rule_store' = rule_store
        BY <1>15 DEF ConditionUnmet, Behind, Saved, Labels
      <3>2. rules' = Put(rule_store', rid'[t], pend'[t])
        BY <2>2, <3>1, PutPresent DEF MapsOK
      <3> QED
        BY <2>2, <3>2 DEF Behind, Saved
    <2>3. CASE /\ rules' = rules /\ pc[t] \in Saved
               /\ pc'[t] \in Saved \ {"upsert"} /\ rule_store' = rule_store
      BY <2>3, OwesNothing
    <2> QED
      BY <1>15, <2>1, <2>2, <2>3
      DEF ConditionUnmet, Goto, Done, TasksOK, Saved, Labels
  <1>16. CASE ConditionMet(t)
    <2>1. PICK since : since = (IF rules[rid[t]].condition_since = None
                                THEN now ELSE rules[rid[t]].condition_since)
      OBVIOUS
    <2>2. PICK v : v = [rules[rid[t]] EXCEPT !.condition_since = since]
      OBVIOUS
    <2>3. rules = rule_store /\ rule_store' = rule_store /\ pc[t] = "sustain"
      BY <1>16 DEF ConditionMet, Behind, Saved, Labels
    <2>4. CASE rid[t] \notin DOMAIN rules
      <3>1. rules' = rules /\ pc'[t] \in Saved \ {"upsert"} /\ pc[t] \in Saved
        BY <1>16, <2>4 DEF ConditionMet, Goto, Done, TasksOK, Saved, Labels
      <3> QED
        BY <2>3, <3>1, OwesNothing
    <2>5. CASE rid[t] \in DOMAIN rules /\ rules[rid[t]].condition_since = None
      <3>1. /\ rules' = [rules EXCEPT ![rid[t]] = v] /\ rid' = rid
            /\ pend'[t] = v /\ pc'[t] = "saveSince"
        BY <1>16, <2>1, <2>2, <2>5 DEF ConditionMet, Goto, TasksOK
      <3>2. rules' = Put(rule_store', rid'[t], pend'[t])
        BY <2>3, <2>5, <3>1, PutPresent DEF MapsOK
      <3> QED
        BY <3>1, <3>2 DEF Behind, Saved
    <2>6. CASE rid[t] \in DOMAIN rules /\ rules[rid[t]].condition_since # None
      <3>1. /\ rules' = [rules EXCEPT ![rid[t]] = v] /\ pc'[t] = "elapsed"
            /\ pc[t] \in Saved
        BY <1>16, <2>1, <2>2, <2>3, <2>6
        DEF ConditionMet, Goto, TasksOK, Saved, Labels
      <3>2. v = rules[rid[t]]
        BY <2>1, <2>2, <2>6, LookupType DEF MapsOK, CompiledRule
      <3>3. rules' = rules
        BY <2>6, <3>1, <3>2 DEF MapsOK, RuleMap
      <3> QED
        BY <2>3, <3>1, <3>3, OwesNothing DEF Saved, Labels
    <2> QED
      BY <2>4, <2>5, <2>6
  <1>17. CASE SaveSnapshot(t)
    <2>1. /\ rule_store' = Put(rule_store, rid[t], pend[t]) /\ rules' = rules
          /\ pc'[t] \in Saved \ {"upsert"}
          /\ pc[t] \in {"saveUnmet", "saveSince", "saveState"}
      BY <1>17 DEF SaveSnapshot, Goto, Done, engine, TasksOK, Saved, Labels
    <2> QED
      BY <2>1, PaysUp DEF Behind
  <1>18. CASE UpdateStateAfterTrigger(t)
    <2>1. PICK v : v = [rules[rid[t]] EXCEPT !.trigger_count = @ + 1,
                                             !.condition_since = None]
      OBVIOUS
    <2>2. rules = rule_store /\ rule_store' = rule_store /\ pc[t] \in Saved
      BY <1>18 DEF UpdateStateAfterTrigger, Behind, Saved, Labels
    <2>3. CASE rid[t] \in DOMAIN rules
      <3>1. /\ rules' = [rules EXCEPT ![rid[t]] = v] /\ rid' = rid
            /\ pend'[t] = v /\ pc'[t] = "saveState"
        BY <1>18, <2>1, <2>3 DEF UpdateStateAfterTrigger, Goto, TasksOK
      <3>2. rules' = Put(rule_store', rid'[t], pend'[t])
        BY <2>2, <2>3, <3>1, PutPresent DEF MapsOK
      <3> QED
        BY <3>1, <3>2 DEF Behind, Saved
    <2>4. CASE rid[t] \notin DOMAIN rules
      <3>1. rules' = rules /\ pc'[t] \in Saved \ {"upsert"}
        BY <1>18, <2>4 DEF UpdateStateAfterTrigger, Goto, TasksOK, Saved,
               Labels
      <3> QED
        BY <2>2, <3>1, OwesNothing
    <2> QED
      BY <2>3, <2>4
  <1>19. ASSUME NEW op \in {"create", "import"}, NEW r \in Rule,
               NEW d \in Def,
                NEW b \in BOOLEAN, AddRule(t, op, r, d, b)
         PROVE  Behind(t)'
    <2>1. op = "create" /\ rules = rule_store
      BY <1>19 DEF AddRule, Call, Behind, Saved, Labels
    <2>2. /\ rules' = Put(rules, r, Submitted(d, b))
          /\ rule_store' = rule_store
          /\ rid'[t] = r /\ snap'[t] = Submitted(d, b) /\ pc'[t] = "rebuild"
          /\ via'[t] = "create"
      BY <1>19, <2>1 DEF AddRule, Call, Goto, TasksOK
    <2> QED
      BY <2>1, <2>2 DEF Behind, Saved
  <1>20. CASE \/ \E r \in Rule, d \in Def, b \in BOOLEAN :
                    ReadForUpdate(t, r, d, b)
              \/ \E r \in Rule, b \in BOOLEAN : ReadForEdit(t, r, b)
    <2>1. /\ pc[t] = "idle" /\ pc'[t] = "upsert"
          /\ via'[t] \in {"update", "edit"}
          /\ UNCHANGED <<rules, rule_store>>
      BY <1>20 DEF ReadForUpdate, ReadForEdit, Call, Goto, engine, TasksOK
    <2> QED
      BY <2>1 DEF Behind, Saved, Labels
  <1>21. CASE UpdateRule(t)
    <2>1. rules = rule_store /\ via[t] \in {"update", "edit"}
      BY <1>21 DEF UpdateRule, Behind, Saved, Labels
    <2>2. /\ rules' = Put(rules, rid[t], snap[t]) /\ pc'[t] = "rebuild"
          /\ UNCHANGED <<rule_store, rid, snap, via>>
      BY <1>21 DEF UpdateRule, Goto, TasksOK
    <2> QED
      BY <2>1, <2>2 DEF Behind, Saved
  <1>22. ASSUME NEW r \in Rule, RemoveRule(t, r) PROVE Behind(t)'
    <2>1. rules = rule_store
      BY <1>22 DEF RemoveRule, Call, Behind, Saved, Labels
    <2>2. /\ rules' = Drop(rules, r) /\ pc'[t] = "rebuild" /\ rid'[t] = r
          /\ via'[t] = "delete" /\ rule_store' = rule_store
      BY <1>22 DEF RemoveRule, Call, Goto, TasksOK
    <2> QED
      BY <2>1, <2>2 DEF Behind, Saved
  <1>23. CASE RebuildAllSubscriptions(t)
    <2>1. /\ pc[t] = "rebuild" /\ via[t] # "import"
          /\ via[t] = "delete" => rules = Drop(rule_store, rid[t])
          /\ via[t] # "delete" => rules = Put(rule_store, rid[t], snap[t])
      BY <1>23 DEF RebuildAllSubscriptions, Behind
    <2>2. /\ pc'[t] = (IF via[t] = "delete" THEN "uncool" ELSE "persist")
          /\ UNCHANGED <<rules, rule_store, rid, snap>>
      BY <1>23, <2>1 DEF RebuildAllSubscriptions, Goto, TasksOK
    <2> QED
      BY <2>1, <2>2 DEF Behind, Saved
  <1>24. CASE Persist(t)
    <2>1. /\ rule_store' = Put(rule_store, rid[t], snap[t]) /\ rules' = rules
          /\ pc'[t] \in Saved \ {"upsert"} /\ pc[t] = "persist"
      BY <1>24 DEF Persist, Goto, Done, engine, TasksOK, Saved, Labels
    <2> QED
      BY <2>1, PaysUp DEF Behind
  <1>25. CASE ForgetCooldown(t)
    <2>1. /\ pc[t] = "uncool" /\ pc'[t] = "unstore"
          /\ UNCHANGED <<rules, rule_store, rid>>
      BY <1>25 DEF ForgetCooldown, Goto, TasksOK
    <2> QED
      BY <2>1 DEF Behind, Saved
  <1>26. CASE DeleteStored(t)
    <2>1. /\ rule_store' = Drop(rule_store, rid[t]) /\ rules' = rules
          /\ pc'[t] \in Saved \ {"upsert"} /\ pc[t] = "unstore"
      BY <1>26 DEF DeleteStored, Goto, Done, engine, TasksOK, Saved, Labels
    <2> QED
      BY <2>1, PaysUp DEF Behind
  <1>27. ASSUME NEW r \in Rule, NEW b \in BOOLEAN, SetEnabled(t, r, b)
         PROVE  Behind(t)'
    <2>1. rules = rule_store /\ r \in DOMAIN rules
      BY <1>27 DEF SetEnabled, Call, Behind, Saved, Labels
    <2>2. /\ rules' = [rules EXCEPT ![r].enabled = b] /\ pc'[t] = "reread"
          /\ rid'[t] = r /\ rule_store' = rule_store
      BY <1>27 DEF SetEnabled, Call, Goto, TasksOK
    <2>3. /\ DOMAIN rules' = DOMAIN rules
          /\ \A x \in DOMAIN rules \ {r} : rules'[x] = rules[x]
      BY <2>1, <2>2
    <2> QED
      BY <2>1, <2>2, <2>3 DEF Behind, Saved
  <1>28. CASE ReadBack(t)
    <2>1. /\ pc[t] = "reread" /\ rid[t] \in DOMAIN rules
          /\ DOMAIN rules = DOMAIN rule_store
          /\ \A x \in DOMAIN rules \ {rid[t]} : rules[x] = rule_store[x]
      BY <1>28 DEF ReadBack, Behind
    <2>2. /\ snap'[t] = rules[rid[t]] /\ pc'[t] = "persist"
          /\ UNCHANGED <<rules, rule_store, rid>>
      BY <1>28, <2>1 DEF ReadBack, Goto, engine, TasksOK
    <2>3. rules = Put(rule_store, rid[t], rules[rid[t]])
      BY <2>1 DEF Put, MapsOK, RuleMap
    <2> QED
      BY <2>2, <2>3 DEF Behind, Saved
  <1>29. EntryPoint(t) => Behind(t)'
    BY <1>1, <1>3, <1>4, <1>19, <1>20, <1>22, <1>27 DEF EntryPoint
  <1>30. EvaluationStep(t) => Behind(t)'
    BY <1>2, <1>5, <1>6, <1>7, <1>8, <1>9, <1>10, <1>11, <1>12, <1>13, <1>14,
       <1>15, <1>16, <1>17, <1>18 DEF EvaluationStep
  <1>31. EditStep(t) => Behind(t)'
    BY <1>21, <1>23, <1>24, <1>25, <1>26, <1>28 DEF EditStep
  <1> QED
    BY <1>29, <1>30, <1>31

\* A restart loses nothing when calls do not overlap: with one task, and
\* without import_rules_handler, which saves nothing, every change of a rule
\* or of its runtime state is in redb when the task is idle.  Run RuleSaveRace
\* refutes it for two tasks, and a single import refutes it for one.
THEOREM NothingUnsaved ==
    ASSUME NEW t0, Task = {t0}, "import" \notin Ops
    PROVE  Spec => []StoreInSync
  <1>1. ASSUME Init PROVE Behind(t0)
    BY <1>1 DEF Init, NoTasks, Behind, Saved, Labels
  <1>2. ASSUME TypeOK, Behind(t0), [Next]_vars PROVE Behind(t0)'
    <2>1. CASE \E t \in Task : EntryPoint(t) \/ EvaluationStep(t) \/ EditStep(t)
      BY <1>2, <2>1, BehindStep
    <2>2. CASE Tick \/ UNCHANGED vars
      BY <1>2, <2>2 DEF Tick, vars, engine, locals, Behind
    <2>3. CASE Restart
      BY <2>3 DEF Restart, Behind, Saved, Labels
    <2> QED
      BY <1>2, <2>1, <2>2, <2>3 DEF Next
  <1>3. Behind(t0) => StoreInSync
    BY DEF Behind, StoreInSync, Saved, Labels
  <1> QED
    BY <1>1, <1>2, <1>3, TypeCorrect, PTL DEF Spec
=============================================================================
