-------------------------- MODULE PushWorkerProofs --------------------------
(***************************************************************************)
(* Theorems about PushWorker, for every set of sources, every configuration *)
(* of the target, every cap and any number of events and runs.              *)
(***************************************************************************)
EXTENDS PushWorker, FiniteSetTheorems, SequenceTheorems, TLAPS

-----------------------------------------------------------------------------
(* The inductive invariant *)

\* Types.
Shape ==
    /\ bus \in Seq(Event) /\ Len(bus) <= BusCapacity
    /\ published \in 0..MaxEvents
    /\ run \in 1..(MaxRuns + 1)
    /\ cfg \in Configs
    /\ loop \in {"select", "flush", "final", "exited"}
    /\ cancel \in {"none", "sent", "dropped"}
    /\ buffer \in Seq(Event)
    /\ delivery \in Seq(DeliveryRecord)

\* The filter's memory, finite and within its cap.
Memory ==
    /\ DOMAIN last_values \subseteq Source
    /\ \A s \in DOMAIN last_values : last_values[s] \in Value
    /\ IsFiniteSet(DOMAIN last_values)
    /\ Cardinality(DOMAIN last_values) <= MaxLast
    /\ recent \subseteq Source \X Value \X Stamp

\* The buffer within its cap, below it while the loop still collects, and
\* empty when the worker is gone.
Bounded ==
    /\ cfg.mode = "batch" => /\ Len(buffer) <= MaxBuffer
                             /\ loop = "select" => Len(buffer) < MaxBuffer
    /\ loop = "exited" => buffer = <<>>

\* LogTerminal, and the attempt a backoff leads to is still allowed.
Logged ==
    \A d \in Deliveries :
        /\ delivery[d].attempts <= delivery[d].retries + 1
        /\ delivery[d].st = "backoff" =>
               delivery[d].attempts <= delivery[d].retries
        /\ delivery[d].st = "ended" =>
               \/ delivery[d].log \in {"Success", "Failed"}
               \/ ~delivery[d].renders
        /\ delivery[d].st = "torn" => delivery[d].kind = "final"

\* PermitCap; no delivery is of a run to come.
Permits == PermitCap /\ \A d \in Deliveries : delivery[d].run <= run

\* A sequence of events in the order of their ids.
Rising(es) == \A i, j \in DOMAIN es : i < j => es[i].id < es[j].id

\* Ids are given in the order of publication, and what was accepted is older
\* than what waits in the channel.
Ordered ==
    /\ Rising(bus)
    /\ Ids(bus) \subseteq 1..published
    /\ accepted \subseteq 1..published
    /\ \A x \in accepted, y \in Ids(bus) : x < y

\* Only what was accepted is buffered, delivered, dropped or left out.
Taken ==
    /\ Rising(buffer)
    /\ Ids(buffer) \subseteq accepted
    /\ \A d \in Deliveries : Ids(delivery[d].events) \subseteq accepted
    /\ dropped \cup raw \subseteq accepted

\* A batch under way is the buffer, and the loop waits for it; while the loop
\* collects, what it has is newer than any batch and not under way.
Flushing ==
    /\ \A d \in Deliveries : Inline(d) /\ Open(d) =>
           /\ loop \in {"flush", "final"}
           /\ buffer # <<>> /\ delivery[d].events = buffer
    /\ loop = "select" =>
           \A d \in Deliveries :
               /\ Ids(delivery[d].events) \cap Ids(buffer) = {}
               /\ Inline(d) => \A x \in Ids(delivery[d].events),
                                  y \in Ids(buffer) : x < y

\* OneFate, without cardinalities.
Fated ==
    /\ \A c, d \in Deliveries :
           c # d => Ids(delivery[c].events) \cap Ids(delivery[d].events) = {}
    /\ \A x \in accepted :
           \/ \E d \in Deliveries : x \in Ids(delivery[d].events)
           \/ x \in dropped \cup raw
           \/ x \in Ids(buffer)

\* Where the accepted events are.
Whereabouts == Taken /\ Flushing /\ Fated /\ BatchesInOrder

\* The inductive invariant.
IInv ==
    /\ Shape /\ Memory /\ Bounded /\ Logged /\ Permits /\ Ordered
    /\ Whereabouts

-----------------------------------------------------------------------------
(* Sequences of events *)

\* The positions up to the i-th of a set of positions.
Below(P, i) == {j \in P : j <= i}

\* The n-th smallest position exists and they come in order: the number of
\* positions below is an injection into 1..Cardinality(P), hence onto.
LEMMA NthInOrder ==
    ASSUME NEW m \in Nat, NEW P \in SUBSET (1..m)
    PROVE  /\ Cardinality(P) \in Nat /\ Cardinality(P) <= m
           /\ \A n \in 1..Cardinality(P) : Nth(P, n) \in P
           /\ \A k, n \in 1..Cardinality(P) : k < n => Nth(P, k) < Nth(P, n)
  <1>0. \A i \in P : i \in Nat
    OBVIOUS
  <1>1. /\ IsFiniteSet(P) /\ Cardinality(P) \in Nat /\ Cardinality(P) <= m
    <2>1. IsFiniteSet(1..m) /\ Cardinality(1..m) = m
      BY FS_Interval
    <2> QED
      BY <2>1, FS_Subset, FS_CardinalityType
  <1>2. ASSUME NEW i \in P
        PROVE  IsFiniteSet(Below(P, i)) /\ Cardinality(Below(P, i)) \in Nat
               /\ Cardinality(Below(P, i)) \in 1..Cardinality(P)
    <2>1. Below(P, i) \in SUBSET P /\ i \in Below(P, i)
      BY DEF Below
    <2>2. /\ IsFiniteSet(Below(P, i))
          /\ Cardinality(Below(P, i)) <= Cardinality(P)
      BY <1>1, <2>1, FS_Subset
    <2>3. Cardinality(Below(P, i)) \in Nat /\ Cardinality(Below(P, i)) # 0
      BY <2>1, <2>2, FS_CardinalityType, FS_EmptySet
    <2> QED
      BY <1>1, <2>2, <2>3
  <1>3. ASSUME NEW i \in P, NEW j \in P, i < j
        PROVE  Cardinality(Below(P, i)) < Cardinality(Below(P, j))
    <2>1. /\ Below(P, i) \in SUBSET Below(P, j)
          /\ j \in Below(P, j) /\ j \notin Below(P, i)
      <3>1. i \in Nat /\ j \in Nat
        BY <1>0
      <3>2. \A k \in P : k <= i => k <= j
        BY <1>0, <1>3, <3>1
      <3>3. ~(j <= i) /\ j <= j
        BY <1>3, <3>1
      <3> QED
        BY <3>2, <3>3 DEF Below
    <2>2. Cardinality(Below(P, i)) <= Cardinality(Below(P, j))
          /\ Cardinality(Below(P, j)) # Cardinality(Below(P, i))
      BY <1>2, <2>1, FS_Subset
    <2> QED
      BY <1>2, <2>2
  <1> DEFINE r == [i \in P |-> Cardinality(Below(P, i))]
  <1>4. r \in Injection(P, 1..Cardinality(P))
    <2>1. r \in [P -> 1..Cardinality(P)]
      BY <1>2
    <2>2. ASSUME NEW i \in P, NEW j \in P, r[i] = r[j] PROVE i = j
      <3>1. i \in Int /\ j \in Int /\ r[i] \in Int /\ r[j] \in Int
        BY <1>2
      <3>2. CASE i < j
        BY <1>3, <2>2, <3>1, <3>2
      <3>3. CASE j < i
        BY <1>3, <2>2, <3>1, <3>3
      <3> QED
        BY <3>1, <3>2, <3>3
    <2> QED
      BY <2>1, <2>2 DEF Injection, IsInjective
  <1>5. r \in Surjection(P, 1..Cardinality(P))
    <2>1. /\ IsFiniteSet(1..Cardinality(P))
          /\ Cardinality(1..Cardinality(P)) = Cardinality(P)
      BY <1>1, FS_Interval
    <2> HIDE DEF r
    <2> QED
      BY <1>4, <2>1, FS_Injection
  <1>6. ASSUME NEW n \in 1..Cardinality(P)
        PROVE  Nth(P, n) \in P /\ Cardinality(Below(P, Nth(P, n))) = n
    <2>1. \E i \in P : r[i] = n
      BY <1>5 DEF Surjection
    <2>2. \E i \in P : Cardinality({j \in P : j <= i}) = n
      BY <2>1 DEF Below
    <2> QED
      BY <2>2 DEF Nth, Below
  <1>7. ASSUME NEW k \in 1..Cardinality(P), NEW n \in 1..Cardinality(P), k < n
        PROVE  Nth(P, k) < Nth(P, n)
    <2>1. Nth(P, k) \in P /\ Nth(P, n) \in P
      BY <1>6
    <2>2. Nth(P, k) \in Nat /\ Nth(P, n) \in Nat
      BY <1>0, <2>1, Zenon
    <2>3. CASE Nth(P, n) = Nth(P, k)
      BY <1>6, <1>7, <2>3
    <2>4. CASE Nth(P, n) < Nth(P, k)
      <3>1. Cardinality(Below(P, Nth(P, n))) < Cardinality(Below(P, Nth(P, k)))
        BY <1>3, <2>1, <2>4
      <3> QED
        BY <1>6, <1>7, <3>1
    <2> QED
      BY <2>2, <2>3, <2>4
  <1> QED
    BY <1>1, <1>6, <1>7

\* retain keeps events of the batch, in their order.
LEMMA Retains ==
    ASSUME NEW es \in Seq(Event)
    PROVE  /\ Retain(es) \in Seq(Event) /\ Len(Retain(es)) <= Len(es)
           /\ Ids(Retain(es)) \subseteq Ids(es)
           /\ Rising(es) => Rising(Retain(es))
  <1> DEFINE P == {i \in DOMAIN es : NotRaw(es[i])}
             m == Cardinality(P)
  <1>1. /\ Len(es) \in Nat /\ DOMAIN es = 1..Len(es)
        /\ \A i \in 1..Len(es) : es[i] \in Event
    BY LenProperties, ElementOfSeq
  <1>2. P \in SUBSET (1..Len(es))
    BY <1>1
  <1> HIDE DEF P
  <1>3. /\ m \in Nat /\ m <= Len(es)
        /\ \A n \in 1..m : Nth(P, n) \in P
        /\ \A k, n \in 1..m : k < n => Nth(P, k) < Nth(P, n)
    BY <1>1, <1>2, NthInOrder
  <1>4. Retain(es) = [n \in 1..m |-> es[Nth(P, n)]]
    BY DEF Retain, P
  <1> HIDE DEF m
  <1>5. /\ \A n \in 1..m : Nth(P, n) \in 1..Len(es)
        /\ \A n \in 1..m : es[Nth(P, n)] \in Event
    BY <1>1, <1>2, <1>3
  <1>6. Retain(es) \in [1..m -> Event]
    BY <1>4, <1>5
  <1>7. Retain(es) \in Seq(Event)
    BY <1>3, <1>6, SeqDef
  <1>8. Len(Retain(es)) = m /\ DOMAIN Retain(es) = 1..m
    BY <1>3, <1>4, <1>6, <1>7, LenProperties
  <1>9. Ids(Retain(es)) \subseteq Ids(es)
    BY <1>1, <1>4, <1>5, <1>8 DEF Ids
  <1>10. Rising(es) => Rising(Retain(es))
    BY <1>1, <1>3, <1>4, <1>5, <1>8 DEF Rising
  <1> QED
    BY <1>3, <1>7, <1>8, <1>9, <1>10

-----------------------------------------------------------------------------
(* Types *)

\* The bounds are positive numbers.
LEMMA Numbers ==
    /\ MaxInflight \in Nat /\ MaxInflight > 0 /\ MaxBuffer \in Nat
    /\ MaxBuffer > 0 /\ MaxLast \in Nat /\ MaxLast > 0
    /\ BusCapacity \in Nat /\ BusCapacity > 0
    /\ MaxEvents \in Nat /\ MaxRuns \in Nat
  BY WorkerBoundAssumption

\* A new event is appended to what is in the channel and the oldest fall out.
LEMMA Enqueues ==
    ASSUME bus \in Seq(Event), NEW es \in Seq(Event), Enqueue(es)
    PROVE  /\ bus' \in Seq(Event) /\ Len(bus') <= BusCapacity
           /\ \E k \in Nat : \A i \in DOMAIN bus' :
                  /\ i + k \in 1..(Len(bus) + Len(es))
                  /\ bus'[i] = IF i + k <= Len(bus) THEN bus[i + k]
                               ELSE es[i + k - Len(bus)]
  <1> DEFINE all == bus \o es
             lost == IF Len(all) > BusCapacity THEN Len(all) - BusCapacity
                     ELSE 0
  <1>1. /\ all \in Seq(Event) /\ Len(all) = Len(bus) + Len(es)
        /\ Len(bus) \in Nat /\ Len(es) \in Nat
        /\ \A i \in 1..Len(all) : all[i] = IF i <= Len(bus) THEN bus[i]
                                           ELSE es[i - Len(bus)]
    OBVIOUS
  <1>2. /\ lost \in Nat /\ lost <= Len(all)
        /\ Len(all) - lost <= BusCapacity
    BY <1>1, Numbers
  <1>3. bus' = SubSeq(all, lost + 1, Len(all))
    BY DEF Enqueue
  <1> HIDE DEF all, lost
  <1>4. \A i \in (lost + 1)..Len(all) : all[i] \in Event
    BY <1>1, <1>2
  <1>5. /\ bus' \in Seq(Event) /\ Len(bus') = Len(all) - lost
        /\ \A i \in 1..(Len(all) - lost) : bus'[i] = all[i + lost]
    BY <1>1, <1>2, <1>3, <1>4, SubSeqProperties
  <1>6. DOMAIN bus' = 1..(Len(all) - lost)
    BY <1>5
  <1>7. \A i \in DOMAIN bus' :
            /\ i + lost \in 1..(Len(bus) + Len(es))
            /\ bus'[i] = IF i + lost <= Len(bus) THEN bus[i + lost]
                         ELSE es[i + lost - Len(bus)]
    <2> SUFFICES ASSUME NEW i \in DOMAIN bus'
                 PROVE  /\ i + lost \in 1..(Len(bus) + Len(es))
                        /\ bus'[i] = IF i + lost <= Len(bus)
                                     THEN bus[i + lost]
                                     ELSE es[i + lost - Len(bus)]
      OBVIOUS
    <2>1. i \in 1..(Len(all) - lost) /\ i + lost \in 1..Len(all)
      BY <1>1, <1>2, <1>6
    <2>2. bus'[i] = all[i + lost]
      BY <1>5, <2>1
    <2>3. PICK j \in 1..Len(all) : j = i + lost
      BY <2>1
    <2>4. all[j] = IF j <= Len(bus) THEN bus[j] ELSE es[j - Len(bus)]
      BY <1>1
    <2>5. j \in 1..(Len(bus) + Len(es))
      BY <1>1
    <2> QED
      BY <1>1, <1>2, <2>1, <2>2, <2>3, <2>4, <2>5
  <1> QED
    BY <1>2, <1>5, <1>7

\* What is published is an event.
LEMMA Published ==
    ASSUME Shape
    PROVE  /\ \A s \in Source, v \in Value, ts \in Stamp :
                  <<[id |-> published + 1, source |-> s, value |-> v,
                     ts |-> ts, virtual |-> FALSE]>> \in Seq(Event)
           /\ \A v \in Value, ts \in Stamp :
                  [i \in 1..2 |->
                      [id |-> published + i, source |-> Twin[i], value |-> v,
                       ts |-> ts, virtual |-> TRUE]] \in Seq(Event)
  <1>1. published \in Nat
    BY Numbers DEF Shape
  <1>2. ASSUME NEW s \in Source, NEW v \in Value, NEW ts \in Stamp
        PROVE  <<[id |-> published + 1, source |-> s, value |-> v,
                  ts |-> ts, virtual |-> FALSE]>> \in Seq(Event)
    <2>1. [id |-> published + 1, source |-> s, value |-> v, ts |-> ts,
           virtual |-> FALSE] \in Event
      BY <1>1 DEF Event
    <2> QED
      BY <2>1
  <1>3. ASSUME NEW v \in Value, NEW ts \in Stamp
        PROVE  [i \in 1..2 |->
                   [id |-> published + i, source |-> Twin[i], value |-> v,
                    ts |-> ts, virtual |-> TRUE]] \in Seq(Event)
    <2>1. ASSUME NEW i \in 1..2
          PROVE  [id |-> published + i, source |-> Twin[i], value |-> v,
                  ts |-> ts, virtual |-> TRUE] \in Event
      <3>1. Twin[i] \in Source /\ published + i \in Nat
        BY <1>1, SourceAssumption
      <3> QED
        BY <3>1 DEF Event
    <2>2. [i \in 1..2 |->
              [id |-> published + i, source |-> Twin[i], value |-> v,
               ts |-> ts, virtual |-> TRUE]] \in [1..2 -> Event]
      BY <2>1
    <2> QED
      BY <2>2, SeqDef
  <1> QED
    BY <1>2, <1>3

\* A delivery is started.
Launches(kind, es) == delivery' = Append(delivery, Sending(kind, es))
\* Delivery n is new, and those before it are as they were.
Added(n, kind, es) ==
    /\ n \in Nat /\ n \notin Deliveries /\ Deliveries' = Deliveries \cup {n}
    /\ \A d \in Deliveries : delivery'[d] = delivery[d] /\ d \in Nat /\ d < n
    /\ delivery'[n].kind = kind /\ delivery'[n].run = run
    /\ delivery'[n].events = es /\ delivery'[n].attempts = 1
    /\ delivery'[n].retries \in Nat /\ delivery'[n].st = "sending"

\* A new delivery, and the ones before it.
LEMMA NewDelivery ==
    ASSUME Shape, NEW kind \in {"task", "flush", "final"},
           NEW es \in Seq(Event), Launches(kind, es)
    PROVE  delivery' \in Seq(DeliveryRecord) /\ \E n : Added(n, kind, es)
  <1>1. Sending(kind, es) \in DeliveryRecord
    <2>1. cfg \in Config /\ run \in Nat
      BY ConfigAssumption, Numbers DEF Shape
    <2>2. cfg.max_retries \in Nat
      BY <2>1 DEF Config
    <2>3. (kind # "task" \/ cfg.renders) \in BOOLEAN
      BY Zenon
    <2> QED
      BY <2>1, <2>2, <2>3 DEF Sending, DeliveryRecord
  <1>2. /\ Sending(kind, es).kind = kind /\ Sending(kind, es).run = run
        /\ Sending(kind, es).events = es /\ Sending(kind, es).attempts = 1
        /\ Sending(kind, es).retries \in Nat
        /\ Sending(kind, es).st = "sending"
    <2>1. cfg \in Config
      BY ConfigAssumption DEF Shape
    <2> QED
      BY <2>1 DEF Sending, Config
  <1>3. delivery \in Seq(DeliveryRecord) /\ Len(delivery) \in Nat
        /\ Deliveries = 1..Len(delivery)
    BY DEF Shape, Deliveries
  <1>4. /\ delivery' \in Seq(DeliveryRecord)
        /\ Len(delivery') = Len(delivery) + 1
        /\ \A d \in 1..Len(delivery) : delivery'[d] = delivery[d]
        /\ delivery'[Len(delivery) + 1] = Sending(kind, es)
    BY <1>1, <1>3, AppendProperties DEF Launches
  <1>5. Deliveries' = 1..(Len(delivery) + 1)
    BY <1>4 DEF Deliveries
  <1>6. PICK n \in Nat : n = Len(delivery) + 1
    BY <1>3
  <1>7. /\ n \notin Deliveries /\ Deliveries' = Deliveries \cup {n}
        /\ \A d \in Deliveries : /\ delivery'[d] = delivery[d]
                                 /\ d \in Nat /\ d < n
        /\ delivery'[n] = Sending(kind, es)
    BY <1>3, <1>4, <1>5, <1>6
  <1>8. Added(n, kind, es)
    BY <1>2, <1>7 DEF Added
  <1> QED
    BY <1>4, <1>8

\* Delivery d goes on.
Continues(d) ==
    delivery'[d].st \in {"sending", "backoff"} /\ UNCHANGED <<buffer, loop>>
\* Delivery d is over.
Closes(d) ==
    /\ delivery'[d].st \in {"ended", "torn"}
    /\ buffer' = IF Inline(d) THEN <<>> ELSE buffer
    /\ loop' = IF Inline(d) /\ loop = "flush" THEN "select" ELSE loop
\* What delivery d carries is fixed.
Fixed(d) ==
    /\ delivery'[d].kind = delivery[d].kind
    /\ delivery'[d].run = delivery[d].run
    /\ delivery'[d].events = delivery[d].events
    /\ delivery'[d].retries = delivery[d].retries
    /\ delivery'[d].renders = delivery[d].renders

\* What a step of delivery d does to the deliveries.
Updates(d) ==
    /\ delivery' \in Seq(DeliveryRecord) /\ Deliveries' = Deliveries
    /\ \A c \in Deliveries : c # d => delivery'[c] = delivery[c]
    /\ Fixed(d) /\ Open(d) /\ (Continues(d) \/ Closes(d))
    /\ UNCHANGED <<bus, published, run, cfg, cancel, filters, fates>>

\* A delivery is a record of its type.
LEMMA DeliveryTyped ==
    ASSUME Shape, NEW d \in Deliveries
    PROVE  delivery[d] \in DeliveryRecord /\ d \in 1..Len(delivery)
  BY DEF Shape, Deliveries

\* Replacing a delivery.
LEMMA Replaces ==
    ASSUME Shape, NEW d \in Deliveries, NEW r \in DeliveryRecord,
           delivery' = [delivery EXCEPT ![d] = r]
    PROVE  /\ delivery' \in Seq(DeliveryRecord) /\ Deliveries' = Deliveries
           /\ \A c \in Deliveries : c # d => delivery'[c] = delivery[c]
           /\ delivery'[d] = r
  <1>1. delivery \in Seq(DeliveryRecord) /\ d \in 1..Len(delivery)
    BY DeliveryTyped DEF Shape
  <1> QED
    BY <1>1 DEF Deliveries

\* The end of a delivery.
LEMMA Finishes ==
    ASSUME Shape, NEW d \in Deliveries,
           NEW log \in {"none", "Success", "Failed"}, Finish(d, log), Open(d),
           UNCHANGED <<bus, published, run, cfg, cancel, filters, fates>>
    PROVE  /\ Updates(d) /\ Closes(d) /\ delivery'[d].log = log
           /\ delivery'[d].st = "ended"
           /\ delivery'[d].attempts = delivery[d].attempts
  <1> DEFINE r == [delivery[d] EXCEPT !.st = "ended", !.log = log]
  <1>1. delivery[d] \in DeliveryRecord
    BY DeliveryTyped
  <1>2. /\ r \in DeliveryRecord /\ r.st = "ended" /\ r.log = log
        /\ r.attempts = delivery[d].attempts
        /\ r.kind = delivery[d].kind /\ r.run = delivery[d].run
        /\ r.events = delivery[d].events /\ r.retries = delivery[d].retries
        /\ r.renders = delivery[d].renders
    BY <1>1 DEF DeliveryRecord
  <1>3. delivery' = [delivery EXCEPT ![d] = r]
    BY <1>1 DEF Finish, Shape, Deliveries
  <1> HIDE DEF r
  <1>4. /\ delivery' \in Seq(DeliveryRecord) /\ Deliveries' = Deliveries
        /\ \A c \in Deliveries : c # d => delivery'[c] = delivery[c]
        /\ delivery'[d] = r
    BY <1>2, <1>3, Replaces
  <1>5. Fixed(d)
    BY <1>2, <1>4 DEF Fixed
  <1>6. Closes(d)
    BY <1>2, <1>4 DEF Closes, Finish
  <1> QED
    BY <1>2, <1>4, <1>5, <1>6 DEF Updates

\* A failed send that is tried again.
LEMMA Retries ==
    ASSUME Shape, NEW d \in Deliveries, SendFails(d),
           delivery[d].attempts <= delivery[d].retries
    PROVE  /\ Updates(d) /\ Continues(d) /\ delivery'[d].st = "backoff"
           /\ delivery'[d].attempts = delivery[d].attempts
  <1> DEFINE r == [delivery[d] EXCEPT !.st = "backoff", !.log = "Retrying"]
  <1>1. delivery[d] \in DeliveryRecord
    BY DeliveryTyped
  <1>2. /\ r \in DeliveryRecord /\ r.st = "backoff"
        /\ r.attempts = delivery[d].attempts
        /\ r.kind = delivery[d].kind /\ r.run = delivery[d].run
        /\ r.events = delivery[d].events /\ r.retries = delivery[d].retries
        /\ r.renders = delivery[d].renders
    BY <1>1 DEF DeliveryRecord
  <1>3. delivery[d].attempts \in Nat /\ delivery[d].retries \in Nat
    BY <1>1 DEF DeliveryRecord
  <1>4. /\ delivery' = [delivery EXCEPT ![d].st = "backoff",
                                         ![d].log = "Retrying"]
        /\ UNCHANGED <<buffer, loop>> /\ Open(d)
        /\ UNCHANGED <<bus, published, run, cfg, cancel, filters, fates>>
    BY <1>3 DEF SendFails, Open
  <1>5. delivery' = [delivery EXCEPT ![d] = r]
    BY <1>1, <1>4 DEF Shape, Deliveries
  <1> HIDE DEF r
  <1>6. /\ delivery' \in Seq(DeliveryRecord) /\ Deliveries' = Deliveries
        /\ \A c \in Deliveries : c # d => delivery'[c] = delivery[c]
        /\ delivery'[d] = r
    BY <1>2, <1>5, Replaces
  <1>7. Fixed(d) /\ Continues(d)
    BY <1>2, <1>4, <1>6 DEF Fixed, Continues
  <1> QED
    BY <1>2, <1>4, <1>6, <1>7 DEF Updates

\* The next attempt.
LEMMA Elapses ==
    ASSUME Shape, NEW d \in Deliveries, BackoffElapses(d)
    PROVE  /\ Updates(d) /\ Continues(d) /\ delivery'[d].st = "sending"
           /\ delivery[d].st = "backoff"
           /\ delivery'[d].attempts = delivery[d].attempts + 1
  <1> DEFINE r == [delivery[d] EXCEPT !.st = "sending", !.attempts = @ + 1]
  <1>1. delivery[d] \in DeliveryRecord
    BY DeliveryTyped
  <1>a. delivery[d].attempts + 1 \in Nat
    BY <1>1 DEF DeliveryRecord
  <1>2. /\ r \in DeliveryRecord /\ r.st = "sending"
        /\ r.attempts = delivery[d].attempts + 1
        /\ r.kind = delivery[d].kind /\ r.run = delivery[d].run
        /\ r.events = delivery[d].events /\ r.retries = delivery[d].retries
        /\ r.renders = delivery[d].renders
    BY <1>1, <1>a DEF DeliveryRecord
  <1>3. delivery' = [delivery EXCEPT ![d] = r]
    BY <1>1 DEF BackoffElapses, Shape, Deliveries
  <1> HIDE DEF r
  <1>4. /\ delivery' \in Seq(DeliveryRecord) /\ Deliveries' = Deliveries
        /\ \A c \in Deliveries : c # d => delivery'[c] = delivery[c]
        /\ delivery'[d] = r
    BY <1>2, <1>3, Replaces
  <1>5. Fixed(d) /\ Continues(d)
    BY <1>2, <1>4 DEF Fixed, Continues, BackoffElapses
  <1> QED
    BY <1>2, <1>4, <1>5 DEF Updates, BackoffElapses, Open

\* The final flush is torn.
LEMMA Tears ==
    ASSUME Shape, NEW d \in Deliveries, FinalTimeout(d)
    PROVE  /\ Updates(d) /\ Closes(d) /\ delivery'[d].st = "torn"
           /\ delivery[d].kind = "final"
           /\ delivery'[d].attempts = delivery[d].attempts
  <1> DEFINE r == [delivery[d] EXCEPT !.st = "torn"]
  <1>1. delivery[d] \in DeliveryRecord
    BY DeliveryTyped
  <1>2. /\ r \in DeliveryRecord /\ r.st = "torn"
        /\ r.attempts = delivery[d].attempts
        /\ r.kind = delivery[d].kind /\ r.run = delivery[d].run
        /\ r.events = delivery[d].events /\ r.retries = delivery[d].retries
        /\ r.renders = delivery[d].renders
    BY <1>1 DEF DeliveryRecord
  <1>3. delivery' = [delivery EXCEPT ![d] = r]
    BY <1>1 DEF FinalTimeout, Shape, Deliveries
  <1> HIDE DEF r
  <1>4. /\ delivery' \in Seq(DeliveryRecord) /\ Deliveries' = Deliveries
        /\ \A c \in Deliveries : c # d => delivery'[c] = delivery[c]
        /\ delivery'[d] = r
    BY <1>2, <1>3, Replaces
  <1>5. Fixed(d) /\ Closes(d)
    BY <1>2, <1>4 DEF Fixed, Closes, FinalTimeout, Inline
  <1> QED
    BY <1>2, <1>4, <1>5 DEF Updates, FinalTimeout

\* Every step of a delivery updates it and leaves the others alone.
LEMMA DeliverySteps ==
    ASSUME Shape, NEW d \in Deliveries, DeliveryStep(d) \/ FinalTimeout(d)
    PROVE  Updates(d)
  <1>1. CASE RenderFails(d) \/ SendSucceeds(d) \/ BackoffCancelled(d)
    BY <1>1, Finishes DEF RenderFails, SendSucceeds, BackoffCancelled, Open
  <1>2. CASE SendFails(d)
    <2>1. CASE delivery[d].attempts <= delivery[d].retries
      BY <1>2, <2>1, Retries
    <2>2. CASE ~(delivery[d].attempts <= delivery[d].retries)
      BY <1>2, <2>2, Finishes DEF SendFails, Open
    <2> QED
      BY <2>1, <2>2
  <1>3. CASE BackoffElapses(d)
    BY <1>3, Elapses
  <1>4. CASE FinalTimeout(d)
    BY <1>4, Tears
  <1> QED
    BY <1>1, <1>2, <1>3, <1>4 DEF DeliveryStep

\* What the loop does with a received event e: it stops instead, ...
Cut == cancel = "sent" /\ Teardown /\ UNCHANGED <<filters, accepted, dropped>>
\* ... passes over it, ...
Skipped == UNCHANGED <<loop, buffer, delivery, fates>>
\* ... gives it a task, ...
Tasked(e) ==
    /\ Cardinality(InFlight(run)) < MaxInflight
    /\ Launches("task", <<e>>)
    /\ accepted' = accepted \cup {e.id}
    /\ UNCHANGED <<loop, buffer, dropped, raw>>
\* ... drops it for want of a permit, ...
Refused(e) ==
    /\ dropped' = dropped \cup {e.id} /\ accepted' = accepted \cup {e.id}
    /\ UNCHANGED <<loop, buffer, delivery, raw>>
\* ... collects it, ...
Collected(e) ==
    /\ buffer' = Append(buffer, e) /\ accepted' = accepted \cup {e.id}
    /\ cfg.mode = "batch" => Len(Append(buffer, e)) < MaxBuffer
    /\ UNCHANGED <<loop, delivery, dropped, raw>>
\* ... or flushes the batch it completes.
Flushed(e) ==
    /\ FlushBatch("flush", Append(buffer, e))
    /\ accepted' = accepted \cup {e.id} /\ UNCHANGED dropped

\* These are all the outcomes of a receive.
LEMMA ReceiveCases ==
    ASSUME Receive
    PROVE  /\ loop = "select" /\ bus # <<>> /\ bus' = Tail(bus)
           /\ UNCHANGED <<published, run, cfg, cancel>>
           /\ \/ Cut \/ Skipped \/ Tasked(Head(bus)) \/ Refused(Head(bus))
              \/ Collected(Head(bus)) \/ Flushed(Head(bus))
  <1> DEFINE e == Head(bus)
  <1>1. /\ loop = "select" /\ bus # <<>> /\ bus' = Tail(bus)
        /\ UNCHANGED <<published, run, cfg, cancel>>
    BY DEF Receive
  <1>2. Cut \/ Skipped \/ Accept(e)
    BY DEF Receive, Cut, Skipped
  <1>3. ASSUME Accept(e)
        PROVE  Skipped \/ Tasked(e) \/ Refused(e) \/ Collected(e) \/ Flushed(e)
    <2> HIDE DEF e
    <2>1. CASE DuplicateVirtual(e)
      BY <1>3, <2>1 DEF Accept, Skipped
    <2>2. CASE ~DuplicateVirtual(e)
      <3>1. /\ accepted' = accepted \cup {e.id}
            /\ Immediate(e) \/ Batch(e)
        BY <1>3, <2>2 DEF Accept
      <3>2. CASE Immediate(e)
        BY <3>1, <3>2 DEF Immediate, Tasked, Refused, Launches
      <3>3. CASE Batch(e)
        BY <3>1, <3>3 DEF Batch, Collected, Flushed
      <3> QED
        BY <3>1, <3>2, <3>3
    <2> QED
      BY <2>1, <2>2
  <1> QED
    BY <1>1, <1>2, <1>3

\* What a flush leaves.
LEMMA FlushShape ==
    ASSUME Shape, NEW es \in Seq(Event), NEW kind \in {"flush", "final"},
           FlushBatch(kind, es)
    PROVE  /\ delivery' \in Seq(DeliveryRecord) /\ buffer' = Retain(es)
           /\ buffer' \in Seq(Event) /\ Len(buffer') <= Len(es)
           /\ loop' \in {"select", "flush", "final"}
           /\ loop' = "select" => buffer' = <<>>
  <1>1. /\ Retain(es) \in Seq(Event) /\ Len(Retain(es)) <= Len(es)
        /\ buffer' = Retain(es)
    BY Retains DEF FlushBatch
  <1>2. CASE Retain(es) = <<>>
    BY <1>1, <1>2 DEF FlushBatch, Shape
  <1>3. CASE Retain(es) # <<>>
    <2>1. loop' = kind
          /\ Launches(kind, Retain(es))
      BY <1>3 DEF FlushBatch, Launches
    <2> QED
      BY <1>1, <2>1, NewDelivery
  <1> QED
    BY <1>2, <1>3

\* What the teardown leaves.
LEMMA TeardownShape ==
    ASSUME Shape, Teardown
    PROVE  /\ delivery' \in Seq(DeliveryRecord) /\ buffer' \in Seq(Event)
           /\ loop' = "final" /\ Len(buffer') <= Len(buffer)
  <1>1. CASE buffer # <<>>
    <2>1. FlushBatch("final", buffer) /\ buffer \in Seq(Event)
      BY <1>1 DEF Teardown, Shape
    <2>2. loop' = "final"
      BY <2>1 DEF FlushBatch
    <2> QED
      BY <2>1, <2>2, FlushShape
  <1>2. CASE buffer = <<>>
    BY <1>2 DEF Teardown, Shape
  <1> QED
    BY <1>1, <1>2

\* The event at the head of the channel.
LEMMA HeadTyped ==
    ASSUME Shape, bus # <<>>
    PROVE  /\ Head(bus) \in Event /\ Tail(bus) \in Seq(Event)
           /\ Len(Tail(bus)) <= BusCapacity
           /\ Append(buffer, Head(bus)) \in Seq(Event)
           /\ Len(Append(buffer, Head(bus))) = Len(buffer) + 1
           /\ <<Head(bus)>> \in Seq(Event)
  <1>1. /\ Head(bus) \in Event /\ Tail(bus) \in Seq(Event)
        /\ Len(Tail(bus)) = Len(bus) - 1 /\ Len(bus) \in Nat
    BY HeadTailProperties DEF Shape
  <1>2. Len(Tail(bus)) <= BusCapacity
    BY <1>1, Numbers DEF Shape
  <1>3. /\ Append(buffer, Head(bus)) \in Seq(Event)
        /\ Len(Append(buffer, Head(bus))) = Len(buffer) + 1
    BY <1>1, AppendProperties DEF Shape
  <1> QED
    BY <1>1, <1>2, <1>3

\* Every step keeps the types.
LEMMA ShapeStep ==
    ASSUME Shape, [Next]_vars
    PROVE  Shape'
  <1>0. Shape
    OBVIOUS
  <1>1. ASSUME NEW s \in Source, NEW v \in Value, NEW ts \in Stamp,
               Publish(s, v, ts)
        PROVE  Shape'
    <2>1. bus' \in Seq(Event) /\ Len(bus') <= BusCapacity
      BY <1>1, <1>0, Published, Enqueues DEF Publish, Shape
    <2>2. published' \in 0..MaxEvents
      BY <1>1, <1>0, Numbers DEF Publish, Shape
    <2> QED
      BY <1>1, <1>0, <2>1, <2>2 DEF Publish, Shape
  <1>2. ASSUME NEW v \in Value, NEW ts \in Stamp, PublishTransform(v, ts)
        PROVE  Shape'
    <2>1. bus' \in Seq(Event) /\ Len(bus') <= BusCapacity
      BY <1>2, <1>0, Published, Enqueues DEF PublishTransform, Shape
    <2>2. published' \in 0..MaxEvents
      BY <1>2, <1>0, Numbers DEF PublishTransform, Shape
    <2> QED
      BY <1>2, <1>0, <2>1, <2>2 DEF PublishTransform, Shape
  <1>3. ASSUME NEW k \in recent, WindowPasses(k) PROVE Shape'
    BY <1>3, <1>0 DEF WindowPasses, Shape
  <1>4. ASSUME NEW d \in Deliveries, DeliveryStep(d) \/ FinalTimeout(d)
        PROVE  Shape'
    <2>1. Updates(d)
      BY <1>4, <1>0, DeliverySteps
    <2>2. buffer' \in Seq(Event)
          /\ loop' \in {"select", "flush", "final", "exited"}
      <3>1. <<>> \in Seq(Event)
        OBVIOUS
      <3> QED
        BY <1>0, <2>1, <3>1 DEF Updates, Continues, Closes, Shape
    <2> QED
      BY <1>0, <2>1, <2>2 DEF Updates, Shape
  <1>5. ASSUME Receive PROVE Shape'
    <2>1. /\ bus' \in Seq(Event) /\ Len(bus') <= BusCapacity
          /\ UNCHANGED <<published, run, cfg, cancel>>
      BY <1>5, <1>0, ReceiveCases, HeadTyped
    <2>2. /\ delivery' \in Seq(DeliveryRecord) /\ buffer' \in Seq(Event)
          /\ loop' \in {"select", "flush", "final", "exited"}
      <3>1. CASE Cut
        BY <1>0, <3>1, TeardownShape DEF Cut
      <3>2. CASE Skipped \/ Refused(Head(bus))
        BY <1>0, <3>2 DEF Skipped, Refused, Shape
      <3>3. CASE Tasked(Head(bus))
        BY <1>5, <1>0, <3>3, ReceiveCases, HeadTyped, NewDelivery
           DEF Tasked, Shape
      <3>4. CASE Collected(Head(bus))
        BY <1>5, <1>0, <3>4, ReceiveCases, HeadTyped DEF Collected, Shape
      <3>5. CASE Flushed(Head(bus))
        BY <1>5, <1>0, <3>5, ReceiveCases, HeadTyped, FlushShape DEF Flushed
      <3> QED
        BY <1>5, ReceiveCases, <3>1, <3>2, <3>3, <3>4, <3>5
    <2> QED
      BY <1>0, <2>1, <2>2 DEF Shape
  <1>6. ASSUME FlushTimer PROVE Shape'
    <2>1. buffer \in Seq(Event) /\ FlushBatch("flush", buffer)
      BY <1>6, <1>0 DEF FlushTimer, Shape
    <2> QED
      BY <1>6, <1>0, <2>1, FlushShape DEF FlushTimer, Shape
  <1>7. ASSUME ObserveCancel PROVE Shape'
    BY <1>7, <1>0, TeardownShape DEF ObserveCancel, Shape
  <1>8. ASSUME Exit PROVE Shape'
    <2>1. <<>> \in Seq(Event) /\ Len(<<>>) = 0
      OBVIOUS
    <2> QED
      BY <1>8, <1>0, <2>1, Numbers DEF Exit, Shape
  <1>9. ASSUME NEW s \in {"sent", "dropped"}, Signal(s) PROVE Shape'
    BY <1>9, <1>0 DEF Signal, Shape
  <1>10. ASSUME NEW c \in Configs, Start(c) PROVE Shape'
    BY <1>10, <1>0, Numbers DEF Start, Shape
  <1>11. CASE UNCHANGED vars
    BY <1>11, <1>0 DEF vars, Shape
  <1> QED
    BY <1>1, <1>2, <1>3, <1>4, <1>5, <1>6, <1>7, <1>8, <1>9, <1>10, <1>11
       DEF Next

\* The map of the last values stays within its cap.
LEMMA Remembers ==
    ASSUME Memory, NEW e \in Event, Remember(e), UNCHANGED recent \/
               recent' = recent \cup {VirtualKey(e)}
    PROVE  Memory'
  <1>1. e.source \in Source /\ e.value \in Value /\ e.ts \in Stamp
    BY DEF Event
  <1>2. PICK kept \in SUBSET DOMAIN last_values :
            /\ IF /\ Cardinality(DOMAIN last_values) >= MaxLast
                  /\ e.source \notin DOMAIN last_values
               THEN Cardinality(kept) = MaxLast \div 2
               ELSE kept = DOMAIN last_values
            /\ last_values' = [s \in kept \cup {e.source} |->
                  IF s = e.source THEN e.value ELSE last_values[s]]
    BY DEF Remember
  <1>3. /\ DOMAIN last_values' = kept \cup {e.source}
        /\ \A s \in kept \cup {e.source} : last_values'[s] \in Value
    BY <1>1, <1>2 DEF Memory
  <1>4. /\ IsFiniteSet(kept) /\ Cardinality(kept) \in Nat
        /\ Cardinality(DOMAIN last_values) \in Nat
    BY FS_Subset, FS_CardinalityType DEF Memory
  <1>5. /\ IsFiniteSet(kept \cup {e.source})
        /\ Cardinality(kept \cup {e.source}) =
               IF e.source \in kept THEN Cardinality(kept)
               ELSE Cardinality(kept) + 1
    BY <1>4, FS_AddElement
  <1>6. Cardinality(kept \cup {e.source}) <= MaxLast
    <2>1. CASE /\ Cardinality(DOMAIN last_values) >= MaxLast
               /\ e.source \notin DOMAIN last_values
      <3>1. Cardinality(kept) = MaxLast \div 2 /\ e.source \notin kept
        BY <1>2, <2>1
      <3>2. MaxLast \div 2 + 1 <= MaxLast
        BY Numbers
      <3> QED
        BY <1>5, <3>1, <3>2
    <2>2. CASE ~(/\ Cardinality(DOMAIN last_values) >= MaxLast
                 /\ e.source \notin DOMAIN last_values)
      <3>1. kept = DOMAIN last_values
        BY <1>2, <2>2
      <3> QED
        BY <1>4, <1>5, <2>2, <3>1, Numbers DEF Memory
    <2> QED
      BY <2>1, <2>2
  <1>7. DOMAIN last_values' \subseteq Source
    BY <1>1, <1>3 DEF Memory
  <1>8. recent' \subseteq Source \X Value \X Stamp
    BY <1>1 DEF Memory, VirtualKey
  <1> QED
    BY <1>3, <1>5, <1>6, <1>7, <1>8 DEF Memory

\* Every step keeps the filter's memory.
LEMMA MemoryStep ==
    ASSUME Shape, Memory, [Next]_vars
    PROVE  Memory'
  <1>0. Shape /\ Memory
    OBVIOUS
  <1>1. ASSUME NEW s \in Source, NEW v \in Value, NEW ts \in Stamp,
               Publish(s, v, ts)
        PROVE  Memory'
    BY <1>1, <1>0 DEF Publish, filters, Memory
  <1>2. ASSUME NEW v \in Value, NEW ts \in Stamp, PublishTransform(v, ts)
        PROVE  Memory'
    BY <1>2, <1>0 DEF PublishTransform, filters, Memory
  <1>3. ASSUME NEW k \in recent, WindowPasses(k) PROVE Memory'
    BY <1>3, <1>0 DEF WindowPasses, Memory
  <1>4. ASSUME NEW d \in Deliveries, DeliveryStep(d) \/ FinalTimeout(d)
        PROVE  Memory'
    <2>1. UNCHANGED filters
      BY <1>4, <1>0, DeliverySteps DEF Updates
    <2> QED
      BY <1>0, <2>1 DEF filters, Memory
  <1>5. ASSUME Receive PROVE Memory'
    <2>1. Head(bus) \in Event
      BY <1>5, <1>0, HeadTyped DEF Receive
    <2>2. CASE UNCHANGED filters
      BY <1>0, <2>2 DEF filters, Memory
    <2>3. CASE ~UNCHANGED filters
      <3>1. Accept(Head(bus))
        BY <1>5, <2>3 DEF Receive
      <3>2. Remember(Head(bus)) /\ (UNCHANGED recent \/
                recent' = recent \cup {VirtualKey(Head(bus))})
        BY <3>1 DEF Accept
      <3> QED
        BY <1>0, <2>1, <3>2, Remembers
    <2> QED
      BY <2>2, <2>3
  <1>6. ASSUME FlushTimer PROVE Memory'
    BY <1>6, <1>0 DEF FlushTimer, filters, Memory
  <1>7. ASSUME ObserveCancel PROVE Memory'
    BY <1>7, <1>0 DEF ObserveCancel, filters, Memory
  <1>8. ASSUME Exit PROVE Memory'
    BY <1>8, <1>0 DEF Exit, filters, Memory
  <1>9. ASSUME NEW s \in {"sent", "dropped"}, Signal(s) PROVE Memory'
    BY <1>9, <1>0 DEF Signal, filters, Memory
  <1>10. ASSUME NEW c \in Configs, Start(c) PROVE Memory'
    <2>1. DOMAIN last_values' = {} /\ recent' = {}
      BY <1>10 DEF Start
    <2> QED
      BY <2>1, FS_EmptySet, Numbers DEF Memory
  <1>11. CASE UNCHANGED vars
    BY <1>11, <1>0 DEF vars, filters, Memory
  <1> QED
    BY <1>1, <1>2, <1>3, <1>4, <1>5, <1>6, <1>7, <1>8, <1>9, <1>10, <1>11
       DEF Next

\* Every step keeps the buffer within its bounds.
LEMMA BoundedStep ==
    ASSUME Shape, Bounded, [Next]_vars
    PROVE  Bounded'
  <1>0. Shape /\ Bounded
    OBVIOUS
  <1>1. ASSUME NEW s \in Source, NEW v \in Value, NEW ts \in Stamp,
               Publish(s, v, ts)
        PROVE  Bounded'
    BY <1>1, <1>0 DEF Publish, Bounded
  <1>2. ASSUME NEW v \in Value, NEW ts \in Stamp, PublishTransform(v, ts)
        PROVE  Bounded'
    BY <1>2, <1>0 DEF PublishTransform, Bounded
  <1>3. ASSUME NEW k \in recent, WindowPasses(k) PROVE Bounded'
    BY <1>3, <1>0 DEF WindowPasses, Bounded
  <1>4. ASSUME NEW d \in Deliveries, DeliveryStep(d) \/ FinalTimeout(d)
        PROVE  Bounded'
    <2>1. Updates(d)
      BY <1>4, <1>0, DeliverySteps
    <2>2. CASE Continues(d) \/ (Closes(d) /\ ~Inline(d))
      BY <1>0, <2>1, <2>2 DEF Updates, Continues, Closes, Bounded
    <2>3. CASE Closes(d) /\ Inline(d)
      <3>1. Len(buffer') = 0 /\ buffer' = <<>>
        BY <2>3 DEF Closes
      <3> QED
        BY <3>1, Numbers DEF Bounded
    <2> QED
      BY <2>1, <2>2, <2>3 DEF Updates
  <1>5. ASSUME Receive PROVE Bounded'
    <2>1. /\ loop = "select" /\ UNCHANGED cfg /\ Len(buffer) \in Nat
          /\ Len(Append(buffer, Head(bus))) = Len(buffer) + 1
          /\ Append(buffer, Head(bus)) \in Seq(Event)
      BY <1>5, <1>0, ReceiveCases, HeadTyped DEF Shape
    <2>2. cfg.mode = "batch" => Len(buffer) < MaxBuffer
      BY <1>0, <2>1 DEF Bounded
    <2>3. CASE Cut
      <3>1. loop' = "final" /\ Len(buffer') <= Len(buffer)
            /\ Len(buffer') \in Nat
        BY <1>0, <2>3, TeardownShape DEF Cut
      <3> QED
        BY <2>1, <2>2, <3>1, Numbers DEF Bounded
    <2>4. CASE Skipped \/ Refused(Head(bus)) \/ Tasked(Head(bus))
      BY <1>0, <2>1, <2>4 DEF Skipped, Refused, Tasked, Bounded
    <2>5. CASE Collected(Head(bus))
      BY <2>1, <2>2, <2>5, Numbers DEF Collected, Bounded
    <2>6. CASE Flushed(Head(bus))
      <3>1. /\ Len(buffer') <= Len(buffer) + 1 /\ Len(buffer') \in Nat
            /\ loop' \in {"select", "flush", "final"}
            /\ loop' = "select" => Len(buffer') = 0
        <4>1. /\ buffer' \in Seq(Event)
              /\ Len(buffer') <= Len(Append(buffer, Head(bus)))
              /\ loop' \in {"select", "flush", "final"}
              /\ loop' = "select" => buffer' = <<>>
          BY <1>0, <2>1, <2>6, FlushShape DEF Flushed
        <4> QED
          BY <2>1, <4>1
      <3> QED
        BY <2>1, <2>2, <3>1, Numbers DEF Bounded
    <2> QED
      BY <1>5, ReceiveCases, <2>3, <2>4, <2>5, <2>6
  <1>6. ASSUME FlushTimer PROVE Bounded'
    <2>1. buffer \in Seq(Event) /\ FlushBatch("flush", buffer)
          /\ UNCHANGED cfg /\ Len(buffer) \in Nat
      BY <1>6, <1>0 DEF FlushTimer, Shape
    <2>2. /\ Len(buffer') <= Len(buffer) /\ Len(buffer') \in Nat
          /\ loop' \in {"select", "flush", "final"}
          /\ loop' = "select" => Len(buffer') = 0
      BY <1>0, <2>1, FlushShape
    <2> QED
      BY <1>0, <2>1, <2>2, Numbers DEF Bounded
  <1>7. ASSUME ObserveCancel PROVE Bounded'
    <2>1. /\ loop' = "final" /\ Len(buffer') <= Len(buffer)
          /\ Len(buffer') \in Nat /\ Len(buffer) \in Nat /\ UNCHANGED cfg
      BY <1>7, <1>0, TeardownShape DEF ObserveCancel, Shape
    <2> QED
      BY <1>0, <2>1, Numbers DEF Bounded
  <1>8. ASSUME Exit PROVE Bounded'
    BY <1>8, <1>0 DEF Exit, Bounded
  <1>9. ASSUME NEW s \in {"sent", "dropped"}, Signal(s) PROVE Bounded'
    BY <1>9, <1>0 DEF Signal, Bounded
  <1>10. ASSUME NEW c \in Configs, Start(c) PROVE Bounded'
    <2>1. buffer' = <<>> /\ Len(buffer') = 0
      BY <1>10, <1>0 DEF Start, Bounded
    <2> QED
      BY <2>1, Numbers DEF Bounded
  <1>11. CASE UNCHANGED vars
    BY <1>11, <1>0 DEF vars, Bounded
  <1> QED
    BY <1>1, <1>2, <1>3, <1>4, <1>5, <1>6, <1>7, <1>8, <1>9, <1>10, <1>11
       DEF Next

\* The deliveries a step of the loop adds: none, a batch, or a task for which
\* there is a permit.
LEMMA Adds ==
    ASSUME Shape, Receive \/ FlushTimer \/ ObserveCancel
    PROVE  /\ UNCHANGED run
           /\ \/ UNCHANGED delivery
              \/ \E kind \in {"flush", "final"}, ks \in Seq(Event) :
                     Launches(kind, ks)
              \/ /\ Cardinality(InFlight(run)) < MaxInflight
                 /\ \E ks \in Seq(Event) :
                        Launches("task", ks)
  <1> DEFINE Batched == \E kind \in {"flush", "final"}, ks \in Seq(Event) :
                            Launches(kind, ks)
  <1>1. ASSUME NEW es \in Seq(Event), NEW kind \in {"flush", "final"},
               FlushBatch(kind, es)
        PROVE  UNCHANGED delivery \/ Batched
    BY <1>1, Retains DEF FlushBatch, Launches
  <1>2. ASSUME Teardown PROVE UNCHANGED delivery \/ Batched
    <2>1. buffer \in Seq(Event) /\ "final" \in {"flush", "final"}
      BY DEF Shape
    <2> HIDE DEF Batched
    <2> QED
      BY <1>1, <1>2, <2>1 DEF Teardown
  <1>3. buffer \in Seq(Event) /\ "flush" \in {"flush", "final"}
    BY DEF Shape
  <1> HIDE DEF Batched
  <1>4. CASE FlushTimer
    BY <1>1, <1>3, <1>4 DEF FlushTimer, Batched
  <1>5. CASE ObserveCancel
    BY <1>2, <1>5 DEF ObserveCancel, Batched
  <1>6. CASE Receive
    <2>1. UNCHANGED run /\ bus # <<>>
      BY <1>6, ReceiveCases
    <2>2. CASE Cut
      BY <1>2, <2>1, <2>2 DEF Cut, Batched
    <2>3. CASE Skipped \/ Refused(Head(bus)) \/ Collected(Head(bus))
      BY <2>1, <2>3 DEF Skipped, Refused, Collected
    <2>4. CASE Tasked(Head(bus))
      BY <2>1, <2>4, HeadTyped DEF Tasked
    <2>5. CASE Flushed(Head(bus))
      <3>1. UNCHANGED delivery \/ Batched
        BY <1>1, <1>3, <2>1, <2>5, HeadTyped DEF Flushed
      <3> QED
        BY <2>1, <3>1 DEF Batched
    <2> QED
      BY <1>6, ReceiveCases, <2>2, <2>3, <2>4, <2>5
  <1> QED
    BY <1>4, <1>5, <1>6

-----------------------------------------------------------------------------
(* The log *)

\* LogTerminal of one delivery.
LoggedOne(d) ==
    /\ delivery[d].attempts <= delivery[d].retries + 1
    /\ delivery[d].st = "backoff" =>
           delivery[d].attempts <= delivery[d].retries
    /\ delivery[d].st = "ended" =>
           \/ delivery[d].log \in {"Success", "Failed"}
           \/ ~delivery[d].renders
    /\ delivery[d].st = "torn" => delivery[d].kind = "final"

\* A new delivery has made its first attempt.
LEMMA LoggedNew ==
    ASSUME Shape, Logged, NEW kind \in {"task", "flush", "final"},
           NEW ks \in Seq(Event),
           Launches(kind, ks)
    PROVE  Logged'
  <1>1. PICK n : Added(n, kind, ks)
    BY NewDelivery
  <1>2. LoggedOne(n)'
    BY <1>1 DEF LoggedOne, Added
  <1>3. \A d \in Deliveries : LoggedOne(d)'
    BY <1>1 DEF Logged, LoggedOne, Added
  <1> QED
    BY <1>1, <1>2, <1>3 DEF Logged, LoggedOne, Added

\* A delivery's step leaves the others' logs.
LEMMA LoggedUpdated ==
    ASSUME Shape, Logged, NEW d \in Deliveries, Updates(d), LoggedOne(d)'
    PROVE  Logged'
  <1>1. \A c \in Deliveries : LoggedOne(c)'
    BY DEF Updates, Logged, LoggedOne
  <1> QED
    BY <1>1 DEF Logged, LoggedOne, Updates

\* Every step keeps the log.
LEMMA LoggedStep ==
    ASSUME Shape, Logged, [Next]_vars
    PROVE  Logged'
  <1>0. Shape /\ Logged
    OBVIOUS
  <1>1. ASSUME NEW s \in Source, NEW v \in Value, NEW ts \in Stamp,
               Publish(s, v, ts)
        PROVE  Logged'
    BY <1>1, <1>0 DEF Publish, Logged, Deliveries
  <1>2. ASSUME NEW v \in Value, NEW ts \in Stamp, PublishTransform(v, ts)
        PROVE  Logged'
    BY <1>2, <1>0 DEF PublishTransform, Logged, Deliveries
  <1>3. ASSUME NEW k \in recent, WindowPasses(k) PROVE Logged'
    BY <1>3, <1>0 DEF WindowPasses, Logged, Deliveries
  <1>4. ASSUME NEW d \in Deliveries, DeliveryStep(d) \/ FinalTimeout(d)
        PROVE  Logged'
    <2>1. /\ delivery[d].attempts \in Nat /\ delivery[d].retries \in Nat
          /\ LoggedOne(d)
      BY <1>0, DeliveryTyped DEF DeliveryRecord, Logged, LoggedOne
    <2>2. ASSUME NEW log \in {"none", "Success", "Failed"}, Finish(d, log),
                 Open(d), log = "none" => ~delivery[d].renders,
                 UNCHANGED <<bus, published, run, cfg, cancel, filters, fates>>
          PROVE  Logged'
      <3>1. /\ Updates(d) /\ delivery'[d].log = log
            /\ delivery'[d].st = "ended" /\ Fixed(d)
            /\ delivery'[d].attempts = delivery[d].attempts
        BY <1>0, <2>2, Finishes DEF Updates
      <3>2. LoggedOne(d)'
        BY <2>1, <2>2, <3>1 DEF LoggedOne, Fixed
      <3> QED
        BY <1>0, <3>1, <3>2, LoggedUpdated
    <2>3. CASE RenderFails(d)
      BY <2>2, <2>3 DEF RenderFails, Open
    <2>4. CASE SendSucceeds(d) \/ BackoffCancelled(d)
      BY <2>2, <2>4 DEF SendSucceeds, BackoffCancelled, Open
    <2>5. CASE SendFails(d) /\ delivery[d].attempts <= delivery[d].retries
      <3>1. /\ Updates(d) /\ Fixed(d) /\ delivery'[d].st = "backoff"
            /\ delivery'[d].attempts = delivery[d].attempts
        BY <1>0, <2>5, Retries DEF Updates
      <3>2. LoggedOne(d)'
        BY <2>1, <2>5, <3>1 DEF LoggedOne, Fixed
      <3> QED
        BY <1>0, <3>1, <3>2, LoggedUpdated
    <2>6. CASE SendFails(d) /\ ~(delivery[d].attempts <= delivery[d].retries)
      BY <2>2, <2>6 DEF SendFails, Open
    <2>7. CASE BackoffElapses(d)
      <3>1. /\ Updates(d) /\ Fixed(d) /\ delivery'[d].st = "sending"
            /\ delivery[d].st = "backoff"
            /\ delivery'[d].attempts = delivery[d].attempts + 1
        BY <1>0, <2>7, Elapses DEF Updates
      <3>2. LoggedOne(d)'
        BY <2>1, <3>1 DEF LoggedOne, Fixed
      <3> QED
        BY <1>0, <3>1, <3>2, LoggedUpdated
    <2>8. CASE FinalTimeout(d)
      <3>1. /\ Updates(d) /\ Fixed(d) /\ delivery'[d].st = "torn"
            /\ delivery[d].kind = "final"
            /\ delivery'[d].attempts = delivery[d].attempts
        BY <1>0, <2>8, Tears DEF Updates
      <3>2. LoggedOne(d)'
        BY <2>1, <3>1 DEF LoggedOne, Fixed
      <3> QED
        BY <1>0, <3>1, <3>2, LoggedUpdated
    <2> QED
      BY <1>4, <2>3, <2>4, <2>5, <2>6, <2>7, <2>8 DEF DeliveryStep
  <1>5. ASSUME Receive PROVE Logged'
    <2>1. CASE UNCHANGED delivery
      BY <1>0, <2>1 DEF Logged, Deliveries
    <2> QED
      BY <1>5, <1>0, <2>1, Adds, LoggedNew
  <1>6. ASSUME FlushTimer PROVE Logged'
    <2>1. CASE UNCHANGED delivery
      BY <1>0, <2>1 DEF Logged, Deliveries
    <2> QED
      BY <1>6, <1>0, <2>1, Adds, LoggedNew
  <1>7. ASSUME ObserveCancel PROVE Logged'
    <2>1. CASE UNCHANGED delivery
      BY <1>0, <2>1 DEF Logged, Deliveries
    <2> QED
      BY <1>7, <1>0, <2>1, Adds, LoggedNew
  <1>8. ASSUME Exit PROVE Logged'
    BY <1>8, <1>0 DEF Exit, Logged, Deliveries
  <1>9. ASSUME NEW s \in {"sent", "dropped"}, Signal(s) PROVE Logged'
    BY <1>9, <1>0 DEF Signal, Logged, Deliveries
  <1>10. ASSUME NEW c \in Configs, Start(c) PROVE Logged'
    BY <1>10, <1>0 DEF Start, Logged, Deliveries
  <1>11. CASE UNCHANGED vars
    BY <1>11, <1>0 DEF vars, Logged, Deliveries
  <1> QED
    BY <1>1, <1>2, <1>3, <1>4, <1>5, <1>6, <1>7, <1>8, <1>9, <1>10, <1>11
       DEF Next

-----------------------------------------------------------------------------
(* The permits *)

\* The deliveries in flight of a run are finitely many.
LEMMA InFlightFinite ==
    ASSUME Shape, NEW k
    PROVE  /\ IsFiniteSet(InFlight(k)) /\ Cardinality(InFlight(k)) \in Nat
  <1>1. Deliveries = 1..Len(delivery) /\ Len(delivery) \in Nat
    BY DEF Shape, Deliveries
  <1>2. IsFiniteSet(Deliveries)
    BY <1>1, FS_Interval
  <1>3. InFlight(k) \in SUBSET Deliveries
    BY DEF InFlight
  <1> QED
    BY <1>2, <1>3, FS_Subset, FS_CardinalityType

\* Nobody takes a permit.
LEMMA PermitsFewer ==
    ASSUME Shape, Permits, UNCHANGED run,
           \A k \in 1..run : InFlight(k)' \subseteq InFlight(k),
           \A d \in Deliveries' : delivery'[d].run <= run
    PROVE  Permits'
  <1>1. ASSUME NEW k \in 1..run
        PROVE  Cardinality(InFlight(k)') <= MaxInflight
    <2>1. /\ Cardinality(InFlight(k)') <= Cardinality(InFlight(k))
          /\ Cardinality(InFlight(k)') \in Nat
      BY InFlightFinite, FS_Subset, FS_CardinalityType
    <2>2. Cardinality(InFlight(k)) <= MaxInflight
      BY DEF Permits, PermitCap
    <2> QED
      BY <2>1, <2>2, InFlightFinite, Numbers
  <1> QED
    BY <1>1 DEF Permits, PermitCap

\* A batch takes none.
LEMMA PermitsBatch ==
    ASSUME Shape, Permits, UNCHANGED run, NEW kind \in {"flush", "final"},
           NEW ks \in Seq(Event),
           Launches(kind, ks)
    PROVE  Permits'
  <1>1. PICK n : Added(n, kind, ks)
    BY NewDelivery
  <1>2. \A k \in 1..run : InFlight(k)' \subseteq InFlight(k)
    BY <1>1 DEF InFlight, Added
  <1>3. run \in Nat
    BY Numbers DEF Shape
  <1>4. \A d \in Deliveries' : delivery'[d].run <= run
    BY <1>1, <1>3 DEF Permits, Added
  <1> QED
    BY <1>2, <1>4, PermitsFewer

\* A task takes one of those that are left.
LEMMA PermitsTask ==
    ASSUME Shape, Permits, UNCHANGED run,
           Cardinality(InFlight(run)) < MaxInflight, NEW ks \in Seq(Event),
           Launches("task", ks)
    PROVE  Permits'
  <1>1. PICK n : Added(n, "task", ks)
    BY NewDelivery
  <1>2. run \in Nat
    BY Numbers DEF Shape
  <1>3. \A d \in Deliveries' : delivery'[d].run <= run
    BY <1>1, <1>2 DEF Permits, Added
  <1>4. InFlight(run)' = InFlight(run) \cup {n} /\ n \notin InFlight(run)
    BY <1>1 DEF InFlight, Added
  <1>5. Cardinality(InFlight(run)') <= MaxInflight
    <2>1. Cardinality(InFlight(run) \cup {n}) = Cardinality(InFlight(run)) + 1
      BY <1>4, InFlightFinite, FS_AddElement
    <2> QED
      BY <1>4, <2>1, InFlightFinite, Numbers
  <1>6. ASSUME NEW k \in 1..run, k # run
        PROVE  Cardinality(InFlight(k)') <= MaxInflight
    <2>1. InFlight(k)' = InFlight(k)
      BY <1>1, <1>6 DEF InFlight, Added
    <2> QED
      BY <2>1 DEF Permits, PermitCap
  <1>7. ASSUME NEW k \in 1..run
        PROVE  Cardinality(InFlight(k)') <= MaxInflight
    BY <1>5, <1>6
  <1> QED
    BY <1>3, <1>7 DEF Permits, PermitCap

\* Every step keeps the permits.
LEMMA PermitsStep ==
    ASSUME Shape, Permits, [Next]_vars
    PROVE  Permits'
  <1>0. Shape /\ Permits
    OBVIOUS
  <1>1. ASSUME NEW s \in Source, NEW v \in Value, NEW ts \in Stamp,
               Publish(s, v, ts)
        PROVE  Permits'
    BY <1>1, <1>0 DEF Publish, Permits, PermitCap, InFlight, Deliveries
  <1>2. ASSUME NEW v \in Value, NEW ts \in Stamp, PublishTransform(v, ts)
        PROVE  Permits'
    BY <1>2, <1>0 DEF PublishTransform, Permits, PermitCap, InFlight,
           Deliveries
  <1>3. ASSUME NEW k \in recent, WindowPasses(k) PROVE Permits'
    BY <1>3, <1>0 DEF WindowPasses, Permits, PermitCap, InFlight, Deliveries
  <1>4. ASSUME NEW d \in Deliveries, DeliveryStep(d) \/ FinalTimeout(d)
        PROVE  Permits'
    <2>1. Updates(d)
      BY <1>4, <1>0, DeliverySteps
    <2>2. \A k \in 1..run : InFlight(k)' \subseteq InFlight(k)
      BY <2>1 DEF Updates, Fixed, Open, InFlight
    <2>3. \A c \in Deliveries' : delivery'[c].run <= run
      BY <1>0, <2>1 DEF Updates, Fixed, Permits
    <2> QED
      BY <1>0, <2>1, <2>2, <2>3, PermitsFewer DEF Updates
  <1>5. ASSUME Receive PROVE Permits'
    <2>1. CASE UNCHANGED delivery /\ UNCHANGED run
      BY <1>0, <2>1 DEF Permits, PermitCap, InFlight, Deliveries
    <2> QED
      BY <1>5, <1>0, <2>1, Adds, PermitsBatch, PermitsTask
  <1>6. ASSUME FlushTimer PROVE Permits'
    <2>1. CASE UNCHANGED delivery /\ UNCHANGED run
      BY <1>0, <2>1 DEF Permits, PermitCap, InFlight, Deliveries
    <2> QED
      BY <1>6, <1>0, <2>1, Adds, PermitsBatch, PermitsTask
  <1>7. ASSUME ObserveCancel PROVE Permits'
    <2>1. CASE UNCHANGED delivery /\ UNCHANGED run
      BY <1>0, <2>1 DEF Permits, PermitCap, InFlight, Deliveries
    <2> QED
      BY <1>7, <1>0, <2>1, Adds, PermitsBatch, PermitsTask
  <1>8. ASSUME Exit PROVE Permits'
    BY <1>8, <1>0 DEF Exit, Permits, PermitCap, InFlight, Deliveries
  <1>9. ASSUME NEW s \in {"sent", "dropped"}, Signal(s) PROVE Permits'
    BY <1>9, <1>0 DEF Signal, Permits, PermitCap, InFlight, Deliveries
  <1>10. ASSUME NEW c \in Configs, Start(c) PROVE Permits'
    <2>1. run' = run + 1 /\ UNCHANGED delivery /\ run \in Nat
      BY <1>10, <1>0, Numbers DEF Start, Shape
    <2>2. \A d \in Deliveries' : /\ delivery'[d].run <= run'
                                /\ delivery'[d].run # run'
      <3>1. \A d \in Deliveries : delivery[d].run \in Nat
        BY <1>0, DeliveryTyped DEF DeliveryRecord
      <3> QED
        BY <1>0, <2>1, <3>1 DEF Permits, Deliveries
    <2>3. ASSUME NEW k \in 1..run'
          PROVE  Cardinality(InFlight(k)') <= MaxInflight
      <3>1. CASE k = run'
        <4>1. InFlight(k)' = {}
          BY <2>2, <3>1 DEF InFlight
        <4> QED
          BY <4>1, FS_EmptySet, Numbers
      <3>2. CASE k # run'
        <4>1. k \in 1..run /\ InFlight(k)' = InFlight(k)
          BY <2>1, <3>2 DEF InFlight, Deliveries
        <4> QED
          BY <1>0, <4>1 DEF Permits, PermitCap
      <3> QED
        BY <3>1, <3>2
    <2> QED
      BY <2>2, <2>3 DEF Permits, PermitCap
  <1>11. CASE UNCHANGED vars
    BY <1>11, <1>0 DEF vars, Permits, PermitCap, InFlight, Deliveries
  <1> QED
    BY <1>1, <1>2, <1>3, <1>4, <1>5, <1>6, <1>7, <1>8, <1>9, <1>10, <1>11
       DEF Next

-----------------------------------------------------------------------------
(* The order of the events *)

\* The ids of a sequence and its order.
LEMMA IdsOf ==
    /\ Ids(<<>>) = {} /\ Rising(<<>>)
    /\ \A es \in Seq(Event), e \in Event :
           /\ Ids(<<e>>) = {e.id}
           /\ Ids(Append(es, e)) = Ids(es) \cup {e.id}
           /\ Rising(es) /\ (\A x \in Ids(es) : x < e.id)
                  => Rising(Append(es, e))
  <1>1. Ids(<<>>) = {} /\ Rising(<<>>)
    BY DEF Ids, Rising
  <1>2. ASSUME NEW es \in Seq(Event), NEW e \in Event
        PROVE  /\ Ids(<<e>>) = {e.id}
               /\ Ids(Append(es, e)) = Ids(es) \cup {e.id}
               /\ Rising(es) /\ (\A x \in Ids(es) : x < e.id)
                      => Rising(Append(es, e))
    <2> DEFINE n == Len(es)
               as == Append(es, e)
    <2>1. /\ n \in Nat /\ DOMAIN es = 1..n /\ DOMAIN as = 1..(n + 1)
          /\ \A i \in 1..n : as[i] = es[i]
          /\ as[n + 1] = e
      BY AppendProperties
    <2>2. Ids(<<e>>) = {e.id}
      BY DEF Ids
    <2> HIDE DEF n, as
    <2>3. 1..(n + 1) = (1..n) \cup {n + 1}
      BY <2>1
    <2>a. ASSUME NEW x \in Ids(as) PROVE x \in Ids(es) \cup {e.id}
      <3>1. PICK i \in 1..(n + 1) : x = as[i].id
        BY <2>1, <2>a DEF Ids
      <3>2. CASE i = n + 1
        BY <2>1, <3>1, <3>2
      <3>3. CASE i \in 1..n
        BY <2>1, <3>1, <3>3 DEF Ids
      <3> QED
        BY <2>3, <3>2, <3>3
    <2>b. ASSUME NEW x \in Ids(es) PROVE x \in Ids(as)
      <3>1. PICK i \in 1..n : x = es[i].id
        BY <2>1, <2>b DEF Ids
      <3>2. x = as[i].id /\ i \in 1..(n + 1)
        BY <2>1, <2>3, <3>1
      <3> QED
        BY <2>1, <3>2 DEF Ids
    <2>c. e.id \in Ids(as)
      <3>1. n + 1 \in 1..(n + 1)
        BY <2>1
      <3> QED
        BY <2>1, <3>1 DEF Ids
    <2>4. Ids(as) = Ids(es) \cup {e.id}
      BY <2>a, <2>b, <2>c
    <2>5. ASSUME Rising(es), \A x \in Ids(es) : x < e.id PROVE Rising(as)
      <3> SUFFICES ASSUME NEW i \in 1..(n + 1), NEW j \in 1..(n + 1), i < j
                   PROVE  as[i].id < as[j].id
        BY <2>1 DEF Rising
      <3>1. i \in 1..n
        BY <2>1
      <3>2. es[i].id \in Ids(es)
        BY <2>1, <3>1 DEF Ids
      <3>3. CASE j = n + 1
        BY <2>1, <2>5, <3>1, <3>2, <3>3
      <3>4. CASE j \in 1..n
        BY <2>1, <2>5, <3>1, <3>4 DEF Rising
      <3> QED
        BY <2>3, <3>3, <3>4
    <2> QED
      BY <2>2, <2>4, <2>5 DEF as
  <1> QED
    BY <1>1, <1>2

\* The head of the channel is older than the rest.
LEMMA HeadFirst ==
    ASSUME Shape, Ordered, bus # <<>>
    PROVE  /\ Rising(Tail(bus)) /\ Ids(Tail(bus)) \subseteq Ids(bus)
           /\ Head(bus).id \in Ids(bus)
           /\ \A y \in Ids(Tail(bus)) : Head(bus).id < y
  <1> DEFINE t == Tail(bus)
             n == Len(bus)
  <1>1. /\ n \in Nat /\ n >= 1 /\ DOMAIN bus = 1..n
        /\ DOMAIN t = 1..(n - 1) /\ Head(bus) = bus[1]
        /\ \A i \in 1..(n - 1) : t[i] = bus[i + 1]
    BY HeadTailProperties DEF Shape
  <1> HIDE DEF t, n
  <1>2. \A i \in 1..(n - 1) : i + 1 \in 1..n /\ 1 < i + 1
    BY <1>1
  <1>3. 1 \in 1..n
    BY <1>1
  <1>a. Head(bus).id \in Ids(bus)
    BY <1>1, <1>3 DEF Ids
  <1>4. ASSUME NEW y \in Ids(t) PROVE y \in Ids(bus) /\ Head(bus).id < y
    <2>1. PICK i \in 1..(n - 1) : y = t[i].id
      BY <1>1, <1>4 DEF Ids
    <2>2. PICK k \in 1..n : 1 < k /\ k = i + 1
      BY <1>2
    <2>3. y = bus[k].id
      BY <1>1, <2>1, <2>2
    <2>4. y \in Ids(bus)
      BY <1>1, <2>3 DEF Ids
    <2>5. bus[1].id < bus[k].id
      BY <1>1, <1>3, <2>2 DEF Ordered, Rising
    <2> QED
      BY <1>1, <2>3, <2>4, <2>5
  <1>6. Rising(t)
    <2> SUFFICES ASSUME NEW i \in 1..(n - 1), NEW j \in 1..(n - 1), i < j
                 PROVE  t[i].id < t[j].id
      BY <1>1 DEF Rising
    <2>1. i + 1 \in 1..n /\ j + 1 \in 1..n /\ i + 1 < j + 1
      BY <1>1
    <2>2. bus[i + 1].id < bus[j + 1].id
      BY <1>1, <2>1 DEF Ordered, Rising
    <2> QED
      BY <1>1, <2>2
  <1> QED
    BY <1>a, <1>4, <1>6 DEF t

\* What is published comes after everything before it.
LEMMA PublishedLast ==
    ASSUME Shape, Ordered, NEW es \in Seq(Event), Enqueue(es), Rising(es),
           Ids(es) \subseteq (published + 1)..published',
           published' \in Nat, published <= published', UNCHANGED accepted
    PROVE  Ordered'
  <1>1. /\ bus \in Seq(Event) /\ published \in Nat /\ DOMAIN bus = 1..Len(bus)
        /\ DOMAIN es = 1..Len(es) /\ Len(bus) \in Nat /\ Len(es) \in Nat
    BY Numbers DEF Shape
  <1>2. PICK k \in Nat : \A i \in DOMAIN bus' :
            /\ i + k \in 1..(Len(bus) + Len(es))
            /\ bus'[i] = IF i + k <= Len(bus) THEN bus[i + k]
                         ELSE es[i + k - Len(bus)]
    BY <1>1, Enqueues
  <1>3. DOMAIN bus' \subseteq Nat
    BY <1>1, Enqueues
  <1> DEFINE Old(i) == i + k \in DOMAIN bus /\ bus'[i] = bus[i + k]
                       /\ bus'[i].id \in Ids(bus)
             Fresh(i) == /\ i + k > Len(bus) /\ i + k - Len(bus) \in DOMAIN es
                         /\ bus'[i] = es[i + k - Len(bus)]
                         /\ bus'[i].id \in Ids(es)
  <1>4. ASSUME NEW i \in DOMAIN bus' PROVE Old(i) \/ Fresh(i)
    <2>1. i \in Nat
      BY <1>3
    <2>2. CASE i + k <= Len(bus)
      <3>1. i + k \in DOMAIN bus /\ bus'[i] = bus[i + k]
        BY <1>1, <1>2, <2>1, <2>2
      <3> QED
        BY <3>1 DEF Ids
    <2>3. CASE ~(i + k <= Len(bus))
      <3>1. /\ i + k > Len(bus) /\ i + k - Len(bus) \in DOMAIN es
            /\ bus'[i] = es[i + k - Len(bus)]
        BY <1>1, <1>2, <2>1, <2>3
      <3> QED
        BY <3>1 DEF Ids
    <2> QED
      BY <2>2, <2>3
  <1> HIDE DEF Old, Fresh
  <1>5. ASSUME NEW i \in DOMAIN bus', NEW j \in DOMAIN bus', i < j
        PROVE  bus'[i].id < bus'[j].id
    <2>0. i \in Nat /\ j \in Nat
      BY <1>3
    <2>1. CASE Old(i) /\ Old(j)
      <3>1. i + k < j + k
        BY <1>5, <2>0
      <3> QED
        BY <2>1, <3>1 DEF Old, Ordered, Rising
    <2>2. CASE Fresh(i) /\ Fresh(j)
      <3>1. i + k - Len(bus) < j + k - Len(bus)
        BY <1>1, <1>5, <2>0
      <3> QED
        BY <2>2, <3>1 DEF Fresh, Rising
    <2>3. CASE Old(i) /\ Fresh(j)
      <3>1. /\ bus'[i].id \in 1..published
            /\ bus'[j].id \in (published + 1)..published'
        BY <2>3 DEF Old, Fresh, Ordered
      <3> QED
        BY <1>1, <3>1
    <2>4. CASE Fresh(i) /\ Old(j)
      <3>1. i + k > Len(bus) /\ j + k \in 1..Len(bus)
        BY <1>1, <2>4 DEF Old, Fresh
      <3> QED
        BY <1>1, <1>5, <2>0, <3>1
    <2> QED
      BY <1>4, <2>1, <2>2, <2>3, <2>4
  <1>6. ASSUME NEW y \in Ids(bus')
        PROVE  y \in Ids(bus) \/ y \in (published + 1)..published'
    <2>1. PICK i \in DOMAIN bus' : y = bus'[i].id
      BY <1>6 DEF Ids
    <2> QED
      BY <1>4, <2>1 DEF Old, Fresh
  <1>7. Rising(bus')
    BY <1>5 DEF Rising
  <1>8. Ids(bus') \subseteq 1..published'
    <2>1. Ids(bus) \subseteq 1..published
      BY DEF Ordered
    <2> QED
      BY <1>1, <1>6, <2>1
  <1>9. accepted' \subseteq 1..published'
    BY <1>1 DEF Ordered
  <1>10. \A x \in accepted', y \in Ids(bus') : x < y
    <2>1. \A x \in accepted : x \in 1..published
      BY DEF Ordered
    <2> QED
      BY <1>1, <1>6, <2>1 DEF Ordered
  <1> QED
    BY <1>7, <1>8, <1>9, <1>10 DEF Ordered, Rising, Ids

\* Every step keeps the order.
LEMMA OrderedStep ==
    ASSUME Shape, Ordered, [Next]_vars
    PROVE  Ordered'
  <1>0. Shape /\ Ordered
    OBVIOUS
  <1>1. ASSUME NEW s \in Source, NEW v \in Value, NEW ts \in Stamp,
               Publish(s, v, ts)
        PROVE  Ordered'
    <2> DEFINE es == <<[id |-> published + 1, source |-> s, value |-> v,
                        ts |-> ts, virtual |-> FALSE]>>
    <2>1. /\ es \in Seq(Event) /\ published \in Nat
          /\ Enqueue(es) /\ published' = published + 1 /\ UNCHANGED accepted
      BY <1>1, <1>0, Published, Numbers DEF Publish, Shape, fates
    <2>2. DOMAIN es = {1} /\ es[1].id = published + 1
      OBVIOUS
    <2> HIDE DEF es
    <2>3. Rising(es) /\ Ids(es) \subseteq (published + 1)..published'
      BY <2>1, <2>2 DEF Rising, Ids
    <2> QED
      BY <1>0, <2>1, <2>3, PublishedLast
  <1>2. ASSUME NEW v \in Value, NEW ts \in Stamp, PublishTransform(v, ts)
        PROVE  Ordered'
    <2> DEFINE es == [i \in 1..2 |->
                         [id |-> published + i, source |-> Twin[i],
                          value |-> v, ts |-> ts, virtual |-> TRUE]]
    <2>1. /\ es \in Seq(Event) /\ published \in Nat
          /\ Enqueue(es) /\ published' = published + 2 /\ UNCHANGED accepted
      BY <1>2, <1>0, Published, Numbers DEF PublishTransform, Shape, fates
    <2>2. /\ DOMAIN es = 1..2
          /\ \A i \in 1..2 : es[i].id = published + i
      OBVIOUS
    <2> HIDE DEF es
    <2>3. Rising(es) /\ Ids(es) \subseteq (published + 1)..published'
      BY <2>1, <2>2 DEF Rising, Ids
    <2> QED
      BY <1>0, <2>1, <2>3, PublishedLast
  <1>3. ASSUME NEW k \in recent, WindowPasses(k) PROVE Ordered'
    BY <1>3, <1>0 DEF WindowPasses, fates, Ordered
  <1>4. ASSUME NEW d \in Deliveries, DeliveryStep(d) \/ FinalTimeout(d)
        PROVE  Ordered'
    BY <1>4, <1>0, DeliverySteps DEF Updates, fates, Ordered
  <1>5. ASSUME Receive PROVE Ordered'
    <2>1. bus # <<>> /\ bus' = Tail(bus) /\ UNCHANGED published
      BY <1>5, ReceiveCases
    <2>2. accepted' \subseteq accepted \cup {Head(bus).id}
      BY <1>5, ReceiveCases
         DEF Cut, Skipped, Tasked, Refused, Collected, Flushed, fates
    <2>3. /\ Rising(bus') /\ Ids(bus') \subseteq Ids(bus)
          /\ Head(bus).id \in Ids(bus) /\ \A y \in Ids(bus') : Head(bus).id < y
      BY <1>0, <2>1, HeadFirst
    <2> QED
      BY <1>0, <2>1, <2>2, <2>3 DEF Ordered
  <1>6. ASSUME FlushTimer PROVE Ordered'
    BY <1>6, <1>0 DEF FlushTimer, Ordered
  <1>7. ASSUME ObserveCancel PROVE Ordered'
    BY <1>7, <1>0 DEF ObserveCancel, Ordered
  <1>8. ASSUME Exit PROVE Ordered'
    <2>1. bus' = <<>> /\ UNCHANGED <<published, accepted>>
      BY <1>8 DEF Exit, fates
    <2> QED
      BY <1>0, <2>1, IdsOf DEF Ordered
  <1>9. ASSUME NEW s \in {"sent", "dropped"}, Signal(s) PROVE Ordered'
    BY <1>9, <1>0 DEF Signal, fates, Ordered
  <1>10. ASSUME NEW c \in Configs, Start(c) PROVE Ordered'
    BY <1>10, <1>0 DEF Start, fates, Ordered
  <1>11. CASE UNCHANGED vars
    BY <1>11, <1>0 DEF vars, fates, Ordered
  <1> QED
    BY <1>1, <1>2, <1>3, <1>4, <1>5, <1>6, <1>7, <1>8, <1>9, <1>10, <1>11
       DEF Next

-----------------------------------------------------------------------------
(* Where the accepted events are *)

\* The ids that delivery d carries.
Load(d) == Ids(delivery[d].events)

\* The loop holds es, with acc accepted, and no batch is under way: what it
\* holds is newer than every batch and in no delivery.
Ready(es, acc) ==
    /\ es \in Seq(Event) /\ Rising(es)
    /\ Ids(es) \subseteq acc /\ accepted \subseteq acc
    /\ \A d \in Deliveries :
           /\ Load(d) \cap Ids(es) = {}
           /\ Inline(d) => /\ ~Open(d)
                           /\ \A x \in Load(d), y \in Ids(es) : x < y
    /\ \A x \in acc : \/ \E d \in Deliveries : x \in Load(d)
                      \/ x \in dropped \cup raw \/ x \in Ids(es)

\* While it collects, the loop holds the buffer.
LEMMA BufferReady ==
    ASSUME Shape, Whereabouts, loop = "select"
    PROVE  Ready(buffer, accepted)
  BY DEF Whereabouts, Taken, Flushing, Fated, Ready, Load, Shape

\* And the buffer with the event it has just accepted.
LEMMA AppendReady ==
    ASSUME Shape, Ordered, Whereabouts, loop = "select", bus # <<>>
    PROVE  Ready(Append(buffer, Head(bus)), accepted \cup {Head(bus).id})
  <1> DEFINE e == Head(bus)
             es == Append(buffer, Head(bus))
  <1>1. /\ e \in Event /\ es \in Seq(Event) /\ buffer \in Seq(Event)
        /\ \A x \in accepted : x < e.id
    BY HeadTyped, HeadFirst DEF Ordered, Shape
  <1>2. \A x \in accepted : x \in Int /\ x # e.id
    <2>1. accepted \subseteq Int /\ e.id \in Int
      BY <1>1 DEF Ordered, Event
    <2> QED
      BY <1>1, <2>1
  <1>3. Ready(buffer, accepted)
    BY BufferReady
  <1>4. Ids(buffer) \subseteq accepted
        /\ \A d \in Deliveries : Load(d) \subseteq accepted
    BY DEF Whereabouts, Taken, Load
  <1>5. Ids(es) = Ids(buffer) \cup {e.id} /\ Rising(es)
    <2>1. Rising(buffer)
      BY <1>3 DEF Ready
    <2> QED
      BY <1>1, <1>4, <2>1, IdsOf
  <1> HIDE DEF e, es
  <1>6. ASSUME NEW d \in Deliveries
        PROVE  /\ Load(d) \cap Ids(es) = {}
               /\ Inline(d) => /\ ~Open(d)
                               /\ \A x \in Load(d), y \in Ids(es) : x < y
    <2>1. Load(d) \subseteq accepted /\ Load(d) \cap Ids(buffer) = {}
      BY <1>3, <1>4 DEF Ready
    <2>2. Inline(d) => /\ ~Open(d)
                       /\ \A x \in Load(d), y \in Ids(buffer) : x < y
      BY <1>3 DEF Ready
    <2>3. Load(d) \cap Ids(es) = {}
      BY <1>2, <1>5, <2>1
    <2> QED
      BY <1>1, <1>5, <2>1, <2>2, <2>3
  <1>7. \A x \in accepted \cup {e.id} :
            \/ \E d \in Deliveries : x \in Load(d)
            \/ x \in dropped \cup raw \/ x \in Ids(es)
    BY <1>3, <1>5 DEF Ready
  <1>8. Ids(es) \subseteq accepted \cup {e.id}
    BY <1>4, <1>5
  <1>9. Ready(es, accepted \cup {e.id})
    BY <1>1, <1>5, <1>6, <1>7, <1>8 DEF Ready
  <1> QED
    BY <1>9 DEF e, es

\* The deliveries stay and the loop comes to hold ks, part of what it held;
\* the rest is dropped or raw.
LEMMA Holds ==
    ASSUME Shape, Whereabouts, NEW es, NEW acc, Ready(es, acc),
           NEW ks \in Seq(Event), Rising(ks), Ids(ks) \subseteq Ids(es),
           buffer' = ks, accepted' = acc, UNCHANGED delivery,
           Ids(es) \subseteq Ids(ks) \cup dropped' \cup raw',
           dropped \cup raw \subseteq dropped' \cup raw',
           dropped' \cup raw' \subseteq acc
    PROVE  Whereabouts'
  <1>1. /\ Deliveries' = Deliveries
        /\ \A d \in Deliveries : delivery'[d] = delivery[d]
    BY DEF Deliveries
  <1>2. Taken'
    BY <1>1 DEF Taken, Ready, Whereabouts, Load
  <1>3. Flushing'
    BY <1>1 DEF Flushing, Ready, Load, Inline, Open
  <1>4. Fated'
    <2>1. \A c, d \in Deliveries :
              c # d => Ids(delivery[c].events) \cap Ids(delivery[d].events) = {}
      BY DEF Whereabouts, Fated
    <2>2. \A x \in acc : \/ \E d \in Deliveries : x \in Ids(delivery[d].events)
                         \/ x \in dropped' \cup raw'
                         \/ x \in Ids(ks)
      BY DEF Ready, Load
    <2> QED
      BY <1>1, <2>1, <2>2 DEF Fated
  <1>5. BatchesInOrder'
    BY <1>1 DEF Whereabouts, BatchesInOrder, Inline, Open, Ids
  <1> QED
    BY <1>2, <1>3, <1>4, <1>5 DEF Whereabouts

\* A delivery of ks is added: a batch, which is then the buffer, or a task.
LEMMA Carries ==
    ASSUME Shape, Whereabouts, NEW es, NEW acc, Ready(es, acc),
           NEW ks \in Seq(Event), Rising(ks), ks # <<>>,
           NEW n, NEW kind \in {"task", "flush", "final"}, Added(n, kind, ks),
           NEW bs \in Seq(Event), buffer' = bs, Rising(bs),
           Ids(ks) \subseteq Ids(es), Ids(bs) \subseteq Ids(es),
           kind # "task" => loop' = kind /\ bs = ks,
           kind = "task" => loop' = "select" /\ Ids(bs) \cap Ids(ks) = {},
           accepted' = acc,
           Ids(es) \subseteq Ids(ks) \cup Ids(bs) \cup dropped' \cup raw',
           dropped \cup raw \subseteq dropped' \cup raw',
           dropped' \cup raw' \subseteq acc
    PROVE  Whereabouts'
  <1>1. /\ Deliveries' = Deliveries \cup {n} /\ n \notin Deliveries
        /\ \A d \in Deliveries : /\ delivery'[d] = delivery[d]
                                 /\ d \in Nat /\ d < n
        /\ delivery'[n].kind = kind /\ delivery'[n].events = ks
        /\ delivery'[n].st = "sending" /\ n \in Nat
    BY DEF Added
  <1>2. \A d \in Deliveries : Load(d) \cap Ids(ks) = {}
    BY DEF Ready
  <1>3. Taken'
    <2>1. \A d \in Deliveries : Ids(delivery[d].events) \subseteq acc
      BY DEF Whereabouts, Taken, Ready
    <2>2. Ids(ks) \subseteq acc /\ Ids(bs) \subseteq acc
      BY DEF Ready
    <2> QED
      BY <1>1, <2>1, <2>2 DEF Taken
  <1>4. Flushing'
    <2>1. \A d \in Deliveries : Inline(d) => ~Open(d)
      BY DEF Ready
    <2>2. \A d \in Deliveries' : (Inline(d) /\ Open(d))' =>
              /\ loop' \in {"flush", "final"}
              /\ buffer' # <<>> /\ delivery'[d].events = buffer'
      BY <1>1, <2>1 DEF Inline, Open
    <2>3. ASSUME loop' = "select", NEW d \in Deliveries'
          PROVE  /\ Ids(delivery'[d].events) \cap Ids(bs) = {}
                 /\ Inline(d)' => \A x \in Ids(delivery'[d].events),
                                     y \in Ids(bs) : x < y
      <3>1. kind = "task"
        BY <2>3
      <3>2. CASE d = n
        BY <1>1, <3>1, <3>2 DEF Inline
      <3>3. CASE d \in Deliveries
        BY <1>1, <3>3 DEF Ready, Load, Inline
      <3> QED
        BY <1>1, <3>2, <3>3
    <2> QED
      BY <2>2, <2>3 DEF Flushing
  <1>5. Fated'
    <2>1. \A c, d \in Deliveries : c # d => Load(c) \cap Load(d) = {}
      BY DEF Whereabouts, Fated, Load
    <2>2. ASSUME NEW c \in Deliveries', NEW d \in Deliveries', c # d
          PROVE  Ids(delivery'[c].events) \cap Ids(delivery'[d].events) = {}
      BY <1>1, <1>2, <2>1, <2>2 DEF Load
    <2>3. ASSUME NEW x \in acc
          PROVE  \/ \E d \in Deliveries' : x \in Ids(delivery'[d].events)
                 \/ x \in dropped' \cup raw'
                 \/ x \in Ids(bs)
      <3>1. CASE \E d \in Deliveries : x \in Load(d)
        BY <1>1, <3>1 DEF Load
      <3>2. CASE x \in dropped \cup raw
        BY <3>2
      <3>3. CASE x \in Ids(es)
        BY <1>1, <3>3
      <3> QED
        BY <3>1, <3>2, <3>3 DEF Ready
    <2> QED
      BY <2>2, <2>3 DEF Fated
  <1>6. BatchesInOrder'
    <2>1. \A d \in Deliveries : Inline(d) => Rising(delivery[d].events)
      BY DEF Whereabouts, BatchesInOrder, Rising
    <2>2. \A c, d \in Deliveries : Inline(c) /\ Inline(d) /\ c < d =>
              ~Open(c) /\ \A x \in Load(c), y \in Load(d) : x < y
      BY DEF Whereabouts, BatchesInOrder, Load
    <2>3. \A c \in Deliveries : Inline(c) =>
              ~Open(c) /\ \A x \in Load(c), y \in Ids(ks) : x < y
      BY DEF Ready
    <2>4. \A d \in Deliveries' : Rising(delivery'[d].events) \/ ~Inline(d)'
      BY <1>1, <2>1 DEF Inline
    <2>5. ASSUME NEW c \in Deliveries', NEW d \in Deliveries', c < d,
                 Inline(c)'
          PROVE  /\ ~Open(c)'
                 /\ Inline(d)' => \A x \in Ids(delivery'[c].events),
                                     y \in Ids(delivery'[d].events) : x < y
      <3>1. c # n /\ c \in Deliveries
        BY <1>1, <2>5
      <3>2. delivery'[c] = delivery[c] /\ Inline(c) /\ ~Open(c) /\ ~Open(c)'
        BY <1>1, <2>3, <2>5, <3>1 DEF Inline, Open
      <3>3. CASE d = n
        BY <1>1, <2>3, <3>1, <3>2, <3>3 DEF Load
      <3>4. CASE d \in Deliveries
        BY <1>1, <2>2, <2>5, <3>1, <3>2, <3>4 DEF Load, Inline
      <3> QED
        BY <1>1, <3>2, <3>3, <3>4
    <2> QED
      BY <2>4, <2>5 DEF BatchesInOrder, Rising
  <1> QED
    BY <1>3, <1>4, <1>5, <1>6 DEF Whereabouts

\* A flush of what the loop holds.
LEMMA FlushKeeps ==
    ASSUME Shape, Whereabouts, NEW es, NEW acc, Ready(es, acc),
           NEW kind \in {"flush", "final"}, FlushBatch(kind, es),
           accepted' = acc, UNCHANGED dropped
    PROVE  Whereabouts'
  <1> DEFINE ks == Retain(es)
  <1>1. /\ ks \in Seq(Event) /\ Rising(ks) /\ Ids(ks) \subseteq Ids(es)
    BY Retains DEF Ready
  <1>2. /\ raw' = raw \cup (Ids(es) \ Ids(ks)) /\ buffer' = ks
        /\ \/ ks = <<>> /\ UNCHANGED delivery
           \/ ks # <<>> /\ loop' = kind /\ Launches(kind, ks)
    BY DEF FlushBatch, Launches
  <1> HIDE DEF ks
  <1>3. /\ Ids(es) \subseteq Ids(ks) \cup dropped' \cup raw'
        /\ dropped \cup raw \subseteq dropped' \cup raw'
    BY <1>2
  <1>4. dropped' \cup raw' \subseteq acc
    BY <1>2 DEF Ready, Whereabouts, Taken
  <1>5. CASE ks = <<>> /\ UNCHANGED delivery
    BY <1>1, <1>2, <1>3, <1>4, <1>5, Holds
  <1>6. CASE ks # <<>> /\ loop' = kind /\ Launches(kind, ks)
    <2>1. PICK n : Added(n, kind, ks)
      BY <1>1, <1>6, NewDelivery
    <2>2. Ids(es) \subseteq Ids(ks) \cup Ids(ks) \cup dropped' \cup raw'
      BY <1>3
    <2> QED
      BY <1>1, <1>2, <1>3, <1>4, <1>6, <2>1, <2>2, Carries
  <1> QED
    BY <1>2, <1>5, <1>6

\* A step that touches neither the buffer nor a delivery nor a fate keeps the
\* whereabouts, if the loop stays or the buffer is empty.
LEMMA Untouched ==
    ASSUME Shape, Whereabouts, UNCHANGED <<buffer, delivery, fates>>,
           UNCHANGED loop \/ buffer = <<>>
    PROVE  Whereabouts'
  <1>1. /\ Deliveries' = Deliveries /\ buffer' = buffer /\ accepted' = accepted
        /\ dropped' = dropped /\ raw' = raw /\ delivery' = delivery
    BY DEF Deliveries, fates
  <1>2. Taken'
    BY <1>1 DEF Whereabouts, Taken
  <1>3. Flushing'
    <2>1. CASE UNCHANGED loop
      BY <1>1, <2>1 DEF Whereabouts, Flushing, Inline, Open
    <2>2. CASE buffer = <<>>
      <3>1. Ids(buffer) = {}
        BY <2>2, IdsOf
      <3> QED
        BY <1>1, <2>2, <3>1 DEF Whereabouts, Flushing, Inline, Open
    <2> QED
      BY <2>1, <2>2
  <1>4. Fated'
    BY <1>1 DEF Whereabouts, Fated
  <1>5. BatchesInOrder'
    BY <1>1 DEF Whereabouts, BatchesInOrder, Inline, Open
  <1> QED
    BY <1>2, <1>3, <1>4, <1>5 DEF Whereabouts

\* A delivery carries its events to its end.  A batch that is over was the
\* buffer, so that nothing is lost when the buffer is cleared, and no other
\* batch was under way.
LEMMA CarriesOn ==
    ASSUME Shape, Whereabouts, NEW d \in Deliveries, Updates(d)
    PROVE  Whereabouts'
  <1>1. /\ Deliveries' = Deliveries /\ accepted' = accepted
        /\ dropped' = dropped /\ raw' = raw
        /\ \A c \in Deliveries : /\ delivery'[c].events = delivery[c].events
                                 /\ delivery'[c].kind = delivery[c].kind
                                 /\ Open(c)' => Open(c)
    BY DEF Updates, Fixed, Open, fates
  <1>2. BatchesInOrder'
    <2>1. \A c \in Deliveries : Inline(c)' <=> Inline(c)
      BY <1>1 DEF Inline
    <2> QED
      BY <1>1, <2>1 DEF Whereabouts, BatchesInOrder
  <1>3. CASE UNCHANGED <<buffer, loop>>
    <2>1. Taken'
      BY <1>1, <1>3 DEF Whereabouts, Taken
    <2>2. Flushing'
      BY <1>1, <1>3 DEF Whereabouts, Flushing, Inline
    <2>3. Fated'
      BY <1>1, <1>3 DEF Whereabouts, Fated
    <2> QED
      BY <1>2, <2>1, <2>2, <2>3 DEF Whereabouts
  <1>4. CASE Closes(d) /\ Inline(d)
    <2>1. /\ buffer' = <<>> /\ Ids(buffer') = {} /\ Rising(buffer')
          /\ ~Open(d)'
      BY <1>4, IdsOf DEF Closes, Open
    <2>2. delivery[d].events = buffer /\ Open(d)
      BY <1>4 DEF Whereabouts, Flushing, Updates
    <2>3. ASSUME NEW c \in Deliveries, Inline(c), c # d PROVE ~Open(c)
      <3>1. c \in Nat /\ d \in Nat
        BY DeliveryTyped
      <3>2. CASE c < d
        BY <1>4, <2>3, <3>2 DEF Whereabouts, BatchesInOrder
      <3>3. CASE d < c
        BY <1>4, <2>2, <2>3, <3>3 DEF Whereabouts, BatchesInOrder
      <3> QED
        BY <2>3, <3>1, <3>2, <3>3
    <2>4. Taken'
      BY <1>1, <2>1 DEF Whereabouts, Taken
    <2>5. Flushing'
      BY <1>1, <2>1, <2>3 DEF Flushing, Inline
    <2>6. Fated'
      BY <1>1, <2>1, <2>2 DEF Whereabouts, Fated
    <2> QED
      BY <1>2, <2>4, <2>5, <2>6 DEF Whereabouts
  <1> QED
    BY <1>3, <1>4 DEF Updates, Continues, Closes

\* The teardown.
LEMMA TeardownKeeps ==
    ASSUME Shape, Whereabouts, loop = "select", Teardown,
           UNCHANGED <<accepted, dropped>>
    PROVE  Whereabouts'
  <1>1. Ready(buffer, accepted)
    BY BufferReady
  <1>2. CASE buffer # <<>>
    BY <1>1, <1>2, FlushKeeps DEF Teardown
  <1>3. CASE buffer = <<>>
    BY <1>3, Untouched DEF Teardown, fates
  <1> QED
    BY <1>2, <1>3

\* Every step keeps the whereabouts.
LEMMA WhereaboutsStep ==
    ASSUME Shape, Bounded, Ordered, Whereabouts, [Next]_vars
    PROVE  Whereabouts'
  <1>0. Shape /\ Bounded /\ Ordered /\ Whereabouts
    OBVIOUS
  <1>1. ASSUME NEW s \in Source, NEW v \in Value, NEW ts \in Stamp,
               Publish(s, v, ts)
        PROVE  Whereabouts'
    BY <1>1, <1>0, Untouched DEF Publish
  <1>2. ASSUME NEW v \in Value, NEW ts \in Stamp, PublishTransform(v, ts)
        PROVE  Whereabouts'
    BY <1>2, <1>0, Untouched DEF PublishTransform
  <1>3. ASSUME NEW k \in recent, WindowPasses(k) PROVE Whereabouts'
    BY <1>3, <1>0, Untouched DEF WindowPasses
  <1>4. ASSUME NEW d \in Deliveries, DeliveryStep(d) \/ FinalTimeout(d)
        PROVE  Whereabouts'
    BY <1>4, <1>0, DeliverySteps, CarriesOn
  <1>5. ASSUME Receive PROVE Whereabouts'
    <2> DEFINE e == Head(bus)
               full == Append(buffer, Head(bus))
    <2>1. /\ loop = "select" /\ bus # <<>>
          /\ e \in Event /\ full \in Seq(Event) /\ <<e>> \in Seq(Event)
      BY <1>5, <1>0, ReceiveCases, HeadTyped
    <2>2. Ready(buffer, accepted) /\ Ready(full, accepted \cup {e.id})
      BY <1>0, <2>1, BufferReady, AppendReady
    <2>3. /\ Ids(full) = Ids(buffer) \cup {e.id} /\ Ids(<<e>>) = {e.id}
          /\ buffer \in Seq(Event) /\ Rising(buffer) /\ Rising(full)
      BY <1>0, <2>1, <2>2, IdsOf DEF Shape, Ready
    <2>4. dropped \cup raw \subseteq accepted
      BY <1>0 DEF Whereabouts, Taken
    <2> HIDE DEF e, full
    <2>5. CASE Cut
      BY <1>0, <2>1, <2>5, TeardownKeeps DEF Cut
    <2>6. CASE Skipped
      BY <1>0, <2>6, Untouched DEF Skipped
    <2>7. CASE Tasked(e)
      <3>1. PICK n : Added(n, "task", <<e>>)
        BY <1>0, <2>1, <2>7, NewDelivery DEF Tasked
      <3>2. e.id \notin Ids(buffer)
        <4>1. Ids(buffer) \subseteq accepted
          BY <2>2 DEF Ready
        <4>2. \A x \in accepted : x \in Int /\ x < Head(bus).id
          BY <1>0, <2>1, HeadFirst DEF Ordered
        <4> QED
          BY <2>1, <4>1, <4>2 DEF e, Event
      <3>3. Rising(<<e>>) /\ <<e>> # <<>>
        BY DEF Rising
      <3>4. /\ Ids(<<e>>) \subseteq Ids(full) /\ Ids(buffer) \subseteq Ids(full)
            /\ Ids(buffer) \cap Ids(<<e>>) = {}
            /\ Ids(full) \subseteq Ids(<<e>>) \cup Ids(buffer) \cup dropped'
                                   \cup raw'
        BY <2>3, <3>2
      <3>5. /\ buffer' = buffer /\ loop' = "select"
            /\ accepted' = accepted \cup {e.id}
            /\ dropped' = dropped /\ raw' = raw
        BY <2>1, <2>7 DEF Tasked
      <3>6. /\ dropped \cup raw \subseteq dropped' \cup raw'
            /\ dropped' \cup raw' \subseteq accepted \cup {e.id}
        BY <2>4, <3>5
      <3> QED
        BY <1>0, <2>1, <2>2, <2>3, <3>1, <3>3, <3>4, <3>5, <3>6, Carries
    <2>8. CASE Refused(e)
      <3>1. /\ buffer' = buffer /\ accepted' = accepted \cup {e.id}
            /\ dropped' = dropped \cup {e.id} /\ raw' = raw
            /\ UNCHANGED delivery
        BY <2>8 DEF Refused
      <3>2. /\ Ids(buffer) \subseteq Ids(full)
            /\ Ids(full) \subseteq Ids(buffer) \cup dropped' \cup raw'
            /\ dropped \cup raw \subseteq dropped' \cup raw'
            /\ dropped' \cup raw' \subseteq accepted \cup {e.id}
        BY <2>3, <2>4, <3>1
      <3> QED
        BY <1>0, <2>2, <2>3, <3>1, <3>2, Holds
    <2>9. CASE Collected(e)
      <3>1. /\ buffer' = full /\ accepted' = accepted \cup {e.id}
            /\ dropped' = dropped /\ raw' = raw /\ UNCHANGED delivery
        BY <2>9 DEF Collected, e, full
      <3>2. /\ Ids(full) \subseteq Ids(full) \cup dropped' \cup raw'
            /\ dropped \cup raw \subseteq dropped' \cup raw'
            /\ dropped' \cup raw' \subseteq accepted \cup {e.id}
        BY <2>4, <3>1
      <3> QED
        BY <1>0, <2>1, <2>2, <2>3, <3>1, <3>2, Holds
    <2>10. CASE Flushed(e)
      <3>1. /\ FlushBatch("flush", full) /\ accepted' = accepted \cup {e.id}
            /\ UNCHANGED dropped
        BY <2>10 DEF Flushed, e, full
      <3> QED
        BY <1>0, <2>2, <3>1, FlushKeeps
    <2> QED
      BY <1>5, ReceiveCases, <2>5, <2>6, <2>7, <2>8, <2>9, <2>10 DEF e
  <1>6. ASSUME FlushTimer PROVE Whereabouts'
    BY <1>6, <1>0, BufferReady, FlushKeeps DEF FlushTimer
  <1>7. ASSUME ObserveCancel PROVE Whereabouts'
    BY <1>7, <1>0, TeardownKeeps DEF ObserveCancel
  <1>8. ASSUME Exit PROVE Whereabouts'
    BY <1>8, <1>0, Untouched DEF Exit
  <1>9. ASSUME NEW s \in {"sent", "dropped"}, Signal(s) PROVE Whereabouts'
    BY <1>9, <1>0, Untouched DEF Signal
  <1>10. ASSUME NEW c \in Configs, Start(c) PROVE Whereabouts'
    <2>1. buffer = <<>>
      BY <1>10, <1>0 DEF Start, Bounded
    <2> QED
      BY <1>10, <1>0, <2>1, Untouched DEF Start
  <1>11. CASE UNCHANGED vars
    BY <1>11, <1>0, Untouched DEF vars
  <1> QED
    BY <1>1, <1>2, <1>3, <1>4, <1>5, <1>6, <1>7, <1>8, <1>9, <1>10, <1>11
       DEF Next

-----------------------------------------------------------------------------
(* Theorems *)

\* The invariant holds initially ...
LEMMA InvInit == Init => IInv
  <1> SUFFICES ASSUME Init PROVE IInv
    OBVIOUS
  <1>1. Deliveries = {} /\ DOMAIN last_values = {}
    BY DEF Init, Deliveries
  <1>2. Shape
    BY Numbers DEF Init, Shape
  <1>3. Memory
    BY <1>1, FS_EmptySet, Numbers DEF Init, Memory
  <1>4. Bounded
    <2>1. buffer = <<>> /\ Len(buffer) = 0
      BY DEF Init
    <2> QED
      BY <2>1, Numbers DEF Bounded
  <1>5. Logged
    BY <1>1 DEF Logged
  <1>6. Permits
    <2>1. \A k : InFlight(k) = {}
      BY <1>1 DEF InFlight
    <2> QED
      BY <1>1, <2>1, FS_EmptySet, Numbers DEF Permits, PermitCap
  <1>7. Ordered
    BY IdsOf DEF Init, Ordered
  <1>8. Whereabouts
    BY <1>1, IdsOf
       DEF Init, Whereabouts, Taken, Flushing, Fated, BatchesInOrder
  <1> QED
    BY <1>2, <1>3, <1>4, <1>5, <1>6, <1>7, <1>8 DEF IInv

\* ... and is kept by every step.
LEMMA InvStep == IInv /\ [Next]_vars => IInv'
  BY ShapeStep, MemoryStep, BoundedStep, LoggedStep, PermitsStep, OrderedStep,
     WhereaboutsStep DEF IInv

\* No event is in two deliveries: those that carry it are at most one.
LEMMA Once ==
    ASSUME IInv
    PROVE  OneFate
  <1> SUFFICES ASSUME NEW x \in accepted
               PROVE  /\ Cardinality(Carrying(x)) <= 1
                      /\ \/ Carrying(x) # {}
                         \/ x \in dropped \cup raw
                         \/ x \in Ids(buffer) /\ loop # "exited"
    BY DEF OneFate
  <1>1. \A c, d \in Carrying(x) : c = d
    BY DEF IInv, Whereabouts, Fated, Carrying
  <1>2. Cardinality(Carrying(x)) <= 1
    <2>1. CASE Carrying(x) = {}
      BY <2>1, FS_EmptySet
    <2>2. CASE Carrying(x) # {}
      <3>1. PICK d : Carrying(x) = {d}
        BY <1>1, <2>2
      <3>2. Cardinality({d}) = 1
        BY FS_Singleton
      <3> QED
        BY <3>1, <3>2
    <2> QED
      BY <2>1, <2>2
  <1>3. loop = "exited" => Ids(buffer) = {}
    BY IdsOf DEF IInv, Bounded
  <1> QED
    BY <1>2, <1>3 DEF IInv, Whereabouts, Fated, Carrying

\* What the invariant says of the properties.
LEMMA InvImplies ==
    ASSUME IInv
    PROVE  TypeOK /\ PermitCap /\ LogTerminal /\ OneFate /\ BatchesInOrder
  <1>1. TypeOK
    <2>1. accepted \cup dropped \cup raw \subseteq 1..MaxEvents
      <3>1. /\ accepted \subseteq 1..published /\ published \in 0..MaxEvents
            /\ dropped \cup raw \subseteq accepted
        BY DEF IInv, Ordered, Whereabouts, Taken, Shape
      <3>2. 1..published \subseteq 1..MaxEvents
        BY <3>1, Numbers
      <3> QED
        BY <3>1, <3>2
    <2> QED
      BY <2>1 DEF TypeOK, IInv, Shape, Memory, Bounded
  <1>2. PermitCap
    BY DEF IInv, Permits
  <1>3. LogTerminal
    BY DEF IInv, Logged, LogTerminal
  <1>4. BatchesInOrder
    BY DEF IInv, Whereabouts
  <1> QED
    BY <1>1, <1>2, <1>3, <1>4, Once

\* The invariant holds in every reachable state.
THEOREM Invariance == Spec => []IInv
  BY InvInit, InvStep, PTL DEF Spec

\* The worker's state keeps its types: whatever is published, the batch buffer
\* stays within DATA_PUSH_MAX_BUFFER_ENTRIES, the change map within
\* MAX_LAST_VALUES and the channel within its capacity.
THEOREM TypeCorrect == Spec => []TypeOK
  BY Invariance, InvImplies, PTL

\* No run of a target has more immediate deliveries in flight than permits,
\* whatever their retries and however the endpoint behaves.
THEOREM PermitsHold == Spec => []PermitCap
  BY Invariance, InvImplies, PTL

\* Every delivery that is over made at most max_retries + 1 attempts, and
\* deliver_with_retry left its terminal log entry, with the two exceptions
\* LogTerminal names.
THEOREM LogsAreTerminal == Spec => []LogTerminal
  BY Invariance, InvImplies, PTL

\* Every event the loop accepted has exactly one fate, across failed batches,
\* retries, cancellations, timeouts and restarts of the target.
THEOREM NoneLostOrDoubled == Spec => []OneFate
  BY Invariance, InvImplies, PTL

\* Batches leave one at a time and in the order of their events.
THEOREM BatchOrder == Spec => []BatchesInOrder
  BY Invariance, InvImplies, PTL

-----------------------------------------------------------------------------
(* The worker lives as the control plane assumes *)

\* The abstract state is unchanged while the loop stays between collecting and
\* flushing, or stays where it is, and nobody signals.
LEMMA Stutters ==
    ASSUME UNCHANGED cancel,
           \/ UNCHANGED loop
           \/ loop \in {"select", "flush"} /\ loop' \in {"select", "flush"}
    PROVE  UNCHANGED Life!lifeVars
  BY DEF Life!lifeVars

\* The loop drains: it was told to.
LEMMA Drains ==
    ASSUME loop = "select", cancel # "none", loop' = "final", UNCHANGED cancel
    PROVE  Life!Next
  BY DEF Life!Next, Life!Drain

\* Every step of the worker is a step of its life or leaves it as it was.
LEMMA LifeStep ==
    ASSUME Shape, [Next]_vars
    PROVE  [Life!Next]_(Life!lifeVars)
  <1>0. Shape
    OBVIOUS
  <1>1. ASSUME NEW s \in Source, NEW v \in Value, NEW ts \in Stamp,
               Publish(s, v, ts)
        PROVE  [Life!Next]_(Life!lifeVars)
    BY <1>1, Stutters DEF Publish
  <1>2. ASSUME NEW v \in Value, NEW ts \in Stamp, PublishTransform(v, ts)
        PROVE  [Life!Next]_(Life!lifeVars)
    BY <1>2, Stutters DEF PublishTransform
  <1>3. ASSUME NEW k \in recent, WindowPasses(k)
        PROVE  [Life!Next]_(Life!lifeVars)
    BY <1>3, Stutters DEF WindowPasses
  <1>4. ASSUME NEW d \in Deliveries, DeliveryStep(d) \/ FinalTimeout(d)
        PROVE  [Life!Next]_(Life!lifeVars)
    <2>1. Updates(d)
      BY <1>4, <1>0, DeliverySteps
    <2> QED
      BY <2>1, Stutters DEF Updates, Continues, Closes
  <1>5. ASSUME Receive PROVE [Life!Next]_(Life!lifeVars)
    <2>1. loop = "select" /\ UNCHANGED cancel /\ bus # <<>>
      BY <1>5, ReceiveCases
    <2>2. CASE Cut
      <3>1. loop' = "final" /\ cancel # "none"
        BY <1>0, <2>2, TeardownShape DEF Cut
      <3> QED
        BY <2>1, <3>1, Drains
    <2>3. CASE Skipped \/ Tasked(Head(bus)) \/ Refused(Head(bus))
                  \/ Collected(Head(bus))
      BY <2>1, <2>3, Stutters DEF Skipped, Tasked, Refused, Collected
    <2>4. CASE Flushed(Head(bus))
      <3>1. loop' \in {"select", "flush"}
        BY <2>4 DEF Flushed, FlushBatch
      <3> QED
        BY <2>1, <3>1, Stutters
    <2> QED
      BY <1>5, ReceiveCases, <2>2, <2>3, <2>4
  <1>6. ASSUME FlushTimer PROVE [Life!Next]_(Life!lifeVars)
    <2>1. loop = "select" /\ loop' \in {"select", "flush"} /\ UNCHANGED cancel
      BY <1>6 DEF FlushTimer, FlushBatch
    <2> QED
      BY <2>1, Stutters
  <1>7. ASSUME ObserveCancel PROVE [Life!Next]_(Life!lifeVars)
    <2>1. loop = "select" /\ loop' = "final" /\ cancel # "none"
          /\ UNCHANGED cancel
      BY <1>7, <1>0, TeardownShape DEF ObserveCancel
    <2> QED
      BY <2>1, Drains
  <1>8. ASSUME Exit PROVE [Life!Next]_(Life!lifeVars)
    BY <1>8 DEF Exit, Life!Next, Life!Return
  <1>9. ASSUME NEW s \in {"sent", "dropped"}, Signal(s)
        PROVE  [Life!Next]_(Life!lifeVars)
    BY <1>9, <1>0 DEF Signal, Life!Next, Life!Cancel, Shape
  <1>10. ASSUME NEW c \in Configs, Start(c) PROVE [Life!Next]_(Life!lifeVars)
    BY <1>10 DEF Start, Life!Next, Life!Again
  <1>11. CASE UNCHANGED vars
    BY <1>11, Stutters DEF vars
  <1> QED
    BY <1>1, <1>2, <1>3, <1>4, <1>5, <1>6, <1>7, <1>8, <1>9, <1>10, <1>11
       DEF Next

\* What PushManager assumes of a worker, as far as it is safety: it drains only
\* when its cancel channel says so, returns only after it has drained, and is
\* live again only by a start.
THEOREM LivesSafely == Spec => Life!Spec
  <1>1. Init => Life!Init
    BY DEF Init, Life!Init
  <1>2. IInv /\ [Next]_vars => [Life!Next]_(Life!lifeVars)
    BY LifeStep DEF IInv
  <1> QED
    BY <1>1, <1>2, Invariance, PTL DEF Spec, Life!Spec

=============================================================================
