--------------------------- MODULE PushWorkerLife ---------------------------
(***************************************************************************)
(* The life of a push worker as PushScheduler and PushManager rely on it:   *)
(* it runs until its cancel channel says something (a value sent by         *)
(* ScheduledHandle::stop, or the drop of the sender), then drains and       *)
(* returns, so that a join always ends.  A start makes it live again.       *)
(***************************************************************************)
VARIABLES st, signal

lifeVars == <<st, signal>>

Init == st = "live" /\ signal = "none"

Cancel ==
    /\ st # "exited"
    /\ \/ signal = "none" /\ signal' \in {"sent", "dropped"}
       \/ signal = "sent" /\ signal' = "dropped"
    /\ UNCHANGED st

Drain ==
    /\ st = "live"
    /\ signal # "none"
    /\ st' = "draining"
    /\ UNCHANGED signal

Return ==
    /\ st = "draining"
    /\ st' = "exited"
    /\ UNCHANGED signal

Again ==
    /\ st = "exited"
    /\ st' = "live"
    /\ signal' = "none"

Next == Cancel \/ Drain \/ Return \/ Again

Spec == Init /\ [][Next]_lifeVars

\* The scheduler joins the worker, so draining and returning must happen.
FairSpec == Spec /\ WF_lifeVars(Drain) /\ WF_lifeVars(Return)
=============================================================================
