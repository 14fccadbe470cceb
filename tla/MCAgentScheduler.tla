-------------------------- MODULE MCAgentScheduler --------------------------
(* Small instances of AgentScheduler for TLC. *)
EXTENDS AgentScheduler, TLC

CONSTANTS timed, sensed, fresh

ScheduleOf == [a \in Agent |-> IF a = sensed THEN "event" ELSE "interval"]
PriorityOf == [a \in Agent |-> IF a = fresh THEN 1 ELSE 2]
BackendOf == [a \in Agent |-> "default"]
LateOrNot == {{}, {"slot", "handle"}}

Clock == <<"tick", Nobody>>
\* Each of the operations o once, on the agents S, within four seconds.
Once(S, o) == [store |-> S, ops |-> [x \in o |-> 1] @@ (Clock :> 4)]
\* A clock of several intervals and nothing else.
Ticking == [store |-> {timed}, ops |-> Clock :> MaxTime]
\* Two events and a shutdown.
Sensing == [store |-> {sensed},
            ops |-> (<<"event", sensed>> :> 2) @@ (<<"shutdown", Nobody>> :> 1)
                        @@ (Clock :> 2)]
Mixed == {
    Ticking,
    Once({timed}, {<<"update", timed>>, <<"status", timed>>}),
    Once({timed}, {<<"edit", timed>>, <<"status", timed>>}),
    Once({timed}, {<<"edit", timed>>, <<"crash", Nobody>>}),
    Once({timed}, {<<"status", timed>>, <<"manual", timed>>}),
    Once({timed}, {<<"delete", timed>>, <<"create", fresh>>}),
    Once({timed}, {<<"update", timed>>, <<"drop", timed>>}),
    Once({timed}, {<<"stop", Nobody>>, <<"status", timed>>}),
    Once({timed}, {<<"stop", Nobody>>, <<"refuse", timed>>}),
    Once({timed}, {<<"manual", timed>>, <<"refuse", timed>>}),
    Once({timed, sensed}, {<<"event", sensed>>}),
    Once({sensed}, {<<"delete", sensed>>, <<"event", sensed>>,
                    <<"crash", Nobody>>}),
    Once({sensed}, {<<"event", sensed>>, <<"manual", sensed>>}),
    Once({sensed}, {<<"event", sensed>>, <<"refuse", sensed>>,
                    <<"shutdown", Nobody>>}),
    Sensing}
=============================================================================
