---------------------------- MODULE MCPushWorker ----------------------------
(* Small instances of PushWorker for TLC. *)
EXTENDS PushWorker

CONSTANTS tr, dev, dump, v1

TransformOfDevice == <<tr, dev>>
Wide == {tr, dev, dump}

Immediately == [mode |-> "immediate", batch_size |-> 1, max_retries |-> 1,
                filter |-> {tr, dev}, only_changes |-> FALSE,
                renders |-> TRUE]
Misspelt == [Immediately EXCEPT !.renders = FALSE, !.filter = {dump}]
Batched == [mode |-> "batch", batch_size |-> 3, max_retries |-> 1,
            filter |-> Wide, only_changes |-> FALSE, renders |-> FALSE]
Periodic == [mode |-> "interval", batch_size |-> 2, max_retries |-> 0,
             filter |-> Wide, only_changes |-> TRUE, renders |-> TRUE]

\* What retain keeps is what SelectSeq keeps.
Batches == UNION {[1..n -> [id: 1..2, source: {dev, dump}]] : n \in 0..4}
ASSUME RetainSelects ==
    \A es \in Batches : Retain(es) = SelectSeq(es, NotRaw)

AllModes == {Immediately, Misspelt, Batched, Periodic}
ImmediateOnly == {Immediately}
=============================================================================
