---------------------------- MODULE MCRuleEngine ----------------------------
(* Small instances of RuleEngine for TLC. *)
EXTENDS RuleEngine, TLC

CONSTANTS r1, r2, s1, s2, t1, t2

\* An alert on s1, whose condition mentions s1 twice: at most one firing in
\* two ticks, and only after the condition held for one.
Alert == [trigger |-> "data_change", sources |-> <<s1, s1>>, cooldown |-> 2,
          for_duration |-> 1, actions |-> TRUE]
\* A scheduled rule with a condition on s2 that must hold for one tick.
Nightly == [trigger |-> "schedule", sources |-> <<s2>>, cooldown |-> 1,
            for_duration |-> 1, actions |-> TRUE]
\* A manual rule without a condition or actions.
Button == [trigger |-> "manual", sources |-> <<>>, cooldown |-> 1,
           for_duration |-> None, actions |-> FALSE]

AlertOnly == {Alert}
AlertButton == {Alert, Button}
AlertNightlyButton == {Alert, Nightly, Button}
AlertInstalled == r1 :> Alert
BothInstalled == r1 :> Alert @@ r2 :> Nightly

\* Tasks are interchangeable.
Tasks == Permutations(Task)
=============================================================================
