------------------------- MODULE ChannelQueueProofs -------------------------
(***************************************************************************)
(* What every operation of the Channel keeps, for any capacity, keys and   *)
(* payloads: the live entries are the sequences from the trim watermark to *)
(* the last one issued, and the byte counters count them.  The modules     *)
(* that call the Channel between steps of their own build on it.           *)
(***************************************************************************)
EXTENDS ChannelQueue, FiniteSetTheorems, TLAPS

-----------------------------------------------------------------------------
\* A number that nobody undercuts.
LEMMA MinNumber ==
    ASSUME NEW S \in SUBSET Nat, S # {}
    PROVE  Min(S) \in S /\ \A x \in S : Min(S) <= x
  <1> DEFINE R == {ss \in Nat \X Nat : ss[1] < ss[2]}
  <1>1. IsWellFoundedOn(R, Nat)
    BY NatLessThanWellFounded DEF OpToRel
  <1>2. \A a, b \in Nat : a < b => <<a, b>> \in R
    OBVIOUS
  <1> HIDE DEF R
  <1>3. PICK x \in S : \A y \in S : ~(<<y, x>> \in R)
    BY <1>1, WFMin, Zenon
  <1>4. \A y \in S : x <= y
    <2> TAKE y \in S
    <2>1. x \in Nat /\ y \in Nat
      OBVIOUS
    <2>2. ~(y < x)
      BY <1>2, <1>3, <2>1, Zenon
    <2> QED  BY <2>1, <2>2
  <1> QED  BY <1>4, Zenon DEF Min

-----------------------------------------------------------------------------
(* Counting bytes: entry by entry and offset by offset.                    *)

Bytes(e, S) == UNION {{s} \X (1..e[s].bytes) : s \in S}

LEMMA BytesFinite ==
    ASSUME NEW e, NEW S, IsFiniteSet(S), NEW n \in Nat, \A s \in S : e[s].bytes \in 0..n
    PROVE  IsFiniteSet(Bytes(e, S)) /\ Cardinality(Bytes(e, S)) \in Nat
  <1>1. IsFiniteSet(1..n)
    BY FS_Interval
  <1>2. IsFiniteSet(S \X (1..n))
    BY <1>1, FS_Product
  <1>3. Bytes(e, S) \subseteq S \X (1..n)
    BY DEF Bytes
  <1>4. IsFiniteSet(Bytes(e, S))
    BY <1>2, <1>3, FS_Subset
  <1> QED  BY <1>4, FS_CardinalityType

LEMMA BytesSplit ==
    ASSUME NEW e, NEW S, NEW T, IsFiniteSet(S), IsFiniteSet(T), S \cap T = {},
           NEW n \in Nat, \A s \in S \cup T : e[s].bytes \in 0..n
    PROVE  Cardinality(Bytes(e, S \cup T)) = Cardinality(Bytes(e, S)) + Cardinality(Bytes(e, T))
  <1> DEFINE A == Bytes(e, S)
             B == Bytes(e, T)
  <1>1. /\ IsFiniteSet(A) /\ IsFiniteSet(B)
        /\ Cardinality(A) \in Nat /\ Cardinality(B) \in Nat
    BY BytesFinite
  <1>2. A \cap B = {} /\ Bytes(e, S \cup T) = A \cup B
    BY DEF Bytes
  <1> HIDE DEF A, B
  <1>3. Cardinality(A \cup B) = Cardinality(A) + Cardinality(B) - Cardinality(A \cap B)
    BY <1>1, FS_Union
  <1>4. Cardinality(A \cap B) = 0
    BY <1>2, FS_EmptySet
  <1>5. Cardinality(A \cup B) = Cardinality(A) + Cardinality(B)
    BY <1>1, <1>3, <1>4
  <1> QED  BY <1>2, <1>5, Zenon DEF A, B

LEMMA BytesSame ==
    ASSUME NEW e, NEW g, NEW S, \A s \in S : e[s].bytes = g[s].bytes
    PROVE  Bytes(e, S) = Bytes(g, S)
  BY DEF Bytes

LEMMA BytesOne ==
    ASSUME NEW e, NEW s, e[s].bytes \in Nat
    PROVE  Cardinality(Bytes(e, {s})) = e[s].bytes
  <1>0. PICK n \in Nat : n = e[s].bytes
    OBVIOUS
  <1>1. Bytes(e, {s}) = {s} \X (1..n)
    BY <1>0 DEF Bytes
  <1>2. IsFiniteSet({s}) /\ Cardinality({s}) = 1
    BY FS_Singleton
  <1>3. IsFiniteSet(1..n) /\ Cardinality(1..n) = IF 1 > n THEN 0 ELSE n - 1 + 1
    BY FS_Interval
  <1>4. Cardinality({s} \X (1..n)) = Cardinality({s}) * Cardinality(1..n)
    BY <1>2, <1>3, FS_Product
  <1>5. Cardinality({s} \X (1..n)) = n
    BY <1>2, <1>3, <1>4
  <1> QED  BY <1>0, <1>1, <1>5

-----------------------------------------------------------------------------
(* The invariant.                                                          *)

QueueShape ==
    /\ queue = [entries |-> queue.entries, consume |-> queue.consume, trim |-> queue.trim,
                backlog |-> queue.backlog, retained |-> queue.retained]
    /\ queue.entries = [s \in Live |-> queue.entries[s]]
    /\ issued \in Nat /\ queue.trim \in Nat /\ queue.consume \in Nat

\* The sequences: trimmed, then live, the consumed ones first.
Sequenced ==
    /\ queue.trim <= queue.consume /\ queue.consume <= issued
    /\ Live = queue.trim + 1 .. issued

\* The counters.
Unconsumed == {s \in Live : s > queue.consume}
Counted ==
    /\ \A s \in Live : queue.entries[s].bytes \in 0..CapacityBytes
    /\ queue.backlog = Cardinality(Bytes(queue.entries, Unconsumed))
    /\ queue.retained = Cardinality(Bytes(queue.entries, Live))
    /\ queue.backlog <= CapacityBytes

QueueInv == QueueShape /\ Sequenced /\ Counted

LEMMA WrittenIsIssued ==
    ASSUME QueueShape, Sequenced
    PROVE  MaxWritten = issued /\ (Live # {} => MaxLiveSequence = issued)
  <1>1. ASSUME Live # {}
        PROVE  Max(Live) = issued
    <2>1. issued \in Live /\ \A y \in Live : y \in Int /\ y <= issued
      BY <1>1 DEF QueueShape, Sequenced
    <2> QED  BY <2>1 DEF Max
  <1>2. MaxLiveSequence \in Nat /\ MaxLiveSequence <= issued
        /\ (MaxLiveSequence = issued \/ queue.consume = issued)
    BY <1>1 DEF MaxLiveSequence, QueueShape, Sequenced
  <1>3. \A a, b \in Nat : Max({a, b}) = IF a >= b THEN a ELSE b
    BY DEF Max
  <1> QED  BY <1>1, <1>2, <1>3 DEF MaxWritten, MaxLiveSequence, QueueShape, Sequenced

LEMMA LiveFinite ==
    ASSUME QueueInv
    PROVE  /\ IsFiniteSet(Live) /\ CapacityBytes \in Nat
           /\ \A S \in SUBSET Live : IsFiniteSet(S) /\ Cardinality(Bytes(queue.entries, S)) \in Nat
  <1>1. IsFiniteSet(Live)
    <2>1. queue.trim + 1 \in Int /\ issued \in Int /\ Live = queue.trim + 1 .. issued
      BY DEF QueueInv, QueueShape, Sequenced
    <2>2. PICK a \in Int : a = queue.trim + 1
      BY <2>1
    <2>3. IsFiniteSet(a..issued)
      BY <2>1, FS_Interval
    <2> QED  BY <2>1, <2>2, <2>3
  <1>2. CapacityBytes \in Nat
    BY CapacityAssumption
  <1>3. ASSUME NEW S \in SUBSET Live
        PROVE  IsFiniteSet(S) /\ Cardinality(Bytes(queue.entries, S)) \in Nat
    <2>1. IsFiniteSet(S)
      BY <1>1, FS_Subset
    <2>2. \A s \in S : queue.entries[s].bytes \in 0..CapacityBytes
      BY DEF QueueInv, Counted
    <2> QED  BY <1>2, <2>1, <2>2, BytesFinite
  <1> QED  BY <1>1, <1>2, <1>3

\* The invariant is what verify_queue_state checks, and more.
LEMMA InvIsSound ==
    ASSUME QueueInv
    PROVE  QueueSound
  <1>1. MaxWritten = issued /\ (Live # {} => MaxLiveSequence = issued)
    BY WrittenIsIssued DEF QueueInv
  <1>2. queue.backlog \in Nat
    BY LiveFinite DEF QueueInv, Counted, Unconsumed
  <1>3. QueueVerifies
    BY <1>1 DEF QueueInv, QueueVerifies, Sequenced, Counted, Unconsumed, BytesOf, Bytes, QueueShape
  <1>4. queue.backlog \in 0..CapacityBytes
    BY <1>2, LiveFinite DEF QueueInv, Counted
  <1> QED  BY <1>1, <1>3, <1>4 DEF QueueSound

LEMMA QueueStarts ==
    ASSUME ChannelInit
    PROVE  QueueInv
  <1>1. Live = {} /\ Unconsumed = {}
    BY DEF ChannelInit, Live, NoEntries, Unconsumed
  <1>2. Bytes(queue.entries, {}) = {}
    BY DEF Bytes
  <1>3. Cardinality({}) = 0
    BY FS_EmptySet
  <1>4. Sequenced
    BY <1>1 DEF ChannelInit, Sequenced
  <1>5. QueueShape
    BY <1>1 DEF ChannelInit, QueueShape, NoEntries
  <1>6. Counted
    BY <1>1, <1>2, <1>3, CapacityAssumption DEF ChannelInit, Counted
  <1> QED  BY <1>4, <1>5, <1>6 DEF QueueInv

LEMMA QueueUntouched ==
    ASSUME QueueInv, UNCHANGED queue, UNCHANGED issued
    PROVE  QueueInv'
  BY Zenon DEF QueueInv, QueueShape, Sequenced, Counted, Unconsumed, Live

-----------------------------------------------------------------------------
(* The operations.                                                         *)

\* What a step may do to the live entries: one appended, or a prefix gone.
LEMMA EnqueueKeeps ==
    ASSUME QueueInv, NEW key, NEW generation, NEW bytes \in Nat, NEW producer,
           Enqueue(key, generation, bytes, producer)
    PROVE  QueueInv'
  <1> DEFINE s == NextSequence
             r == [key |-> key, generation |-> channel.generation,
                   bytes |-> bytes, producer |-> producer]
             e == [t \in Live \cup {s} |-> IF t = s THEN r ELSE queue.entries[t]]
  <1>1. CASE EnqueueVerdict(key, generation, bytes, producer) # "enqueued"
    BY <1>1, QueueUntouched DEF Enqueue
  <1>2. CASE EnqueueVerdict(key, generation, bytes, producer) = "enqueued"
    <2>1. s = issued + 1 /\ s \in Nat /\ s \notin Live
      BY WrittenIsIssued DEF NextSequence, QueueInv, Sequenced, QueueShape
    <2>2. /\ issued' = s /\ queue'.entries = e
          /\ queue' = [entries |-> e, consume |-> queue.consume, trim |-> queue.trim,
                       backlog |-> queue.backlog + bytes, retained |-> queue.retained + bytes]
      BY <1>2, Zenon DEF Enqueue, QueueInv, QueueShape
    <2>3. queue.backlog + bytes <= CapacityBytes
      BY <1>2, LiveFinite DEF EnqueueVerdict, QueueInv, Counted, Unconsumed
    <2>4. queue.backlog \in Nat /\ queue.retained \in Nat
      BY LiveFinite DEF QueueInv, Counted, Unconsumed
    <2>5. r.bytes = bytes
      OBVIOUS
    <2> HIDE DEF r
    <2>6. Live' = Live \cup {s} /\ DOMAIN e = Live \cup {s} /\ e[s] = r
          /\ \A t \in Live : e[t] = queue.entries[t]
      BY <2>1, <2>2 DEF Live
    <2>7. queue'.entries = [t \in Live' |-> queue'.entries[t]]
      BY <2>2, <2>6
    <2> HIDE DEF e
    <2>8. Sequenced'
      BY <2>1, <2>2, <2>6 DEF QueueInv, Sequenced, QueueShape
    <2>9. QueueShape'
      BY <2>1, <2>2, <2>7 DEF QueueInv, QueueShape
    <2>10. \A t \in Live \cup {s} : e[t].bytes \in 0..CapacityBytes
      BY <2>1, <2>3, <2>4, <2>5, <2>6, LiveFinite DEF QueueInv, Counted
    <2>11. IsFiniteSet({s})
      BY FS_Singleton
    <2>12. ASSUME NEW S \in SUBSET Live
           PROVE  Cardinality(Bytes(e, S \cup {s})) = Cardinality(Bytes(queue.entries, S)) + bytes
      <3>1. Cardinality(Bytes(e, S \cup {s})) = Cardinality(Bytes(e, S)) + Cardinality(Bytes(e, {s}))
        <4>1. S \cap {s} = {} /\ \A t \in S \cup {s} : e[t].bytes \in 0..CapacityBytes
          BY <2>1, <2>10
        <4> QED  BY <2>11, <4>1, LiveFinite, BytesSplit
      <3>2. Bytes(e, S) = Bytes(queue.entries, S)
        BY <2>6, BytesSame
      <3>3. Cardinality(Bytes(e, {s})) = bytes
        BY <2>5, <2>6, BytesOne
      <3> QED  BY <3>1, <3>2, <3>3
    <2>13. Unconsumed' = Unconsumed \cup {s}
      BY <2>1, <2>2, <2>6 DEF Unconsumed, QueueInv, Sequenced, QueueShape
    <2>14. Counted'
      BY <2>2, <2>3, <2>6, <2>10, <2>12, <2>13 DEF Counted, QueueInv, Unconsumed
    <2> QED  BY <2>8, <2>9, <2>14 DEF QueueInv
  <1> QED  BY <1>1, <1>2

LEMMA AckKeeps ==
    ASSUME QueueInv, NEW upTo \in Nat, Ack(upTo)
    PROVE  QueueInv'
  <1>1. CASE AckVerdict(upTo) # "advanced"
    BY <1>1, QueueUntouched DEF Ack
  <1>2. CASE AckVerdict(upTo) = "advanced"
    <2> DEFINE C == {s \in Live : s > queue.consume /\ s <= upTo}
               R == {s \in Live : s > upTo}
    <2>1. queue.consume < upTo /\ upTo <= issued
      BY <1>2, WrittenIsIssued DEF AckVerdict, QueueInv, QueueShape
    <2>2. /\ issued' = issued /\ queue'.entries = queue.entries
          /\ queue' = [entries |-> queue.entries, consume |-> upTo, trim |-> queue.trim,
                       backlog |-> queue.backlog - Confirmed(upTo), retained |-> queue.retained]
      BY <1>2, Zenon DEF Ack, QueueInv, QueueShape
    <2>3. Live' = Live
      BY <2>2 DEF Live
    <2>4. QueueShape' /\ Sequenced'
      BY <2>1, <2>2, <2>3 DEF QueueInv, QueueShape, Sequenced
    <2>5. Unconsumed = C \cup R /\ C \cap R = {} /\ Unconsumed' = R
      BY <2>1, <2>2, <2>3 DEF Unconsumed, QueueInv, QueueShape, Sequenced
    <2>6. Cardinality(Bytes(queue.entries, C \cup R))
              = Cardinality(Bytes(queue.entries, C)) + Cardinality(Bytes(queue.entries, R))
      <3>1. IsFiniteSet(C) /\ IsFiniteSet(R)
            /\ \A s \in C \cup R : queue.entries[s].bytes \in 0..CapacityBytes
        BY LiveFinite DEF QueueInv, Counted
      <3> QED  BY <2>5, <3>1, LiveFinite, BytesSplit
    <2>7. Confirmed(upTo) = Cardinality(Bytes(queue.entries, C))
      BY DEF Confirmed, BytesOf, Bytes
    <2>8. Cardinality(Bytes(queue.entries, C)) \in Nat /\ Cardinality(Bytes(queue.entries, R)) \in Nat
      BY LiveFinite
    <2> HIDE DEF C, R
    <2>9. Counted'
      BY <2>2, <2>3, <2>5, <2>6, <2>7, <2>8, LiveFinite DEF Counted, QueueInv
    <2> QED  BY <2>4, <2>9 DEF QueueInv
  <1> QED  BY <1>1, <1>2

LEMMA TrimTargetIs ==
    ASSUME QueueInv, NEW to \in Nat
    PROVE  /\ TrimTarget(to) = IF to <= queue.consume THEN to ELSE queue.consume
           /\ TrimTarget(to) \in Nat
  <1>1. \A a, b \in Nat : Min({a, b}) = IF a <= b THEN a ELSE b
    BY DEF Min
  <1> QED  BY <1>1 DEF TrimTarget, QueueInv, QueueShape

LEMMA CompactKeeps ==
    ASSUME QueueInv, NEW to \in Nat, Compact(to)
    PROVE  QueueInv'
  <1>1. CASE CompactVerdict(to) # "trimmed"
    BY <1>1, QueueUntouched DEF Compact
  <1>2. CASE CompactVerdict(to) = "trimmed"
    <2> DEFINE g == TrimTarget(to)
               K == {s \in Live : s > g}
               R == Released(to)
               e == [s \in K |-> queue.entries[s]]
    <2>1. g \in Nat /\ queue.trim < g /\ g <= queue.consume
      BY <1>2, TrimTargetIs DEF CompactVerdict, QueueInv, QueueShape
    <2>2. /\ issued' = issued /\ queue'.entries = e
          /\ queue' = [entries |-> e, consume |-> queue.consume, trim |-> g,
                       backlog |-> queue.backlog,
                       retained |-> queue.retained - BytesOf(R)]
      BY <1>2, Zenon DEF Compact, QueueInv, QueueShape, Restrict
    <2>3. R = {s \in Live : s <= g}
      BY <2>1 DEF Released, QueueInv, QueueShape, Sequenced
    <2> HIDE DEF g, R
    <2>4. Live' = K /\ \A s \in K : e[s] = queue.entries[s]
      BY <2>2 DEF Live
    <2>5. queue'.entries = [t \in Live' |-> queue'.entries[t]]
      BY <2>2, <2>4
    <2> HIDE DEF e
    <2>6. K \cup R = Live /\ K \cap R = {} /\ Unconsumed' = Unconsumed /\ Unconsumed \subseteq K
      BY <2>1, <2>2, <2>3, <2>4 DEF Unconsumed, QueueInv, QueueShape, Sequenced
    <2>7. Sequenced'
      BY <2>1, <2>2, <2>4 DEF QueueInv, QueueShape, Sequenced
    <2>8. QueueShape'
      BY <2>1, <2>2, <2>5 DEF QueueInv, QueueShape
    <2>9. Cardinality(Bytes(queue.entries, K \cup R))
              = Cardinality(Bytes(queue.entries, K)) + Cardinality(Bytes(queue.entries, R))
      <3>1. /\ IsFiniteSet(K) /\ IsFiniteSet(R)
            /\ \A s \in K \cup R : queue.entries[s].bytes \in 0..CapacityBytes
        BY <2>6, LiveFinite DEF QueueInv, Counted
      <3> QED  BY <2>6, <3>1, LiveFinite, BytesSplit
    <2>10. Bytes(e, K) = Bytes(queue.entries, K)
      BY <2>4, BytesSame
    <2>11. Bytes(e, Unconsumed) = Bytes(queue.entries, Unconsumed)
      BY <2>4, <2>6, BytesSame
    <2>12. BytesOf(R) = Cardinality(Bytes(queue.entries, R))
      BY DEF BytesOf, Bytes
    <2>13. Cardinality(Bytes(queue.entries, K)) \in Nat /\ Cardinality(Bytes(queue.entries, R)) \in Nat
      BY <2>3, LiveFinite
    <2> HIDE DEF K
    <2>14. /\ queue'.retained = Cardinality(Bytes(e, K))
           /\ queue'.backlog = Cardinality(Bytes(e, Unconsumed))
      <3>1. /\ queue.retained = Cardinality(Bytes(queue.entries, Live))
            /\ queue.backlog = Cardinality(Bytes(queue.entries, Unconsumed))
            /\ queue'.backlog = queue.backlog /\ queue'.retained = queue.retained - BytesOf(R)
        BY <2>2 DEF Counted, QueueInv
      <3>2. queue.retained = Cardinality(Bytes(queue.entries, K)) + Cardinality(Bytes(queue.entries, R))
        BY <2>6, <2>9, <3>1
      <3>3. queue'.retained = Cardinality(Bytes(queue.entries, K))
        BY <2>12, <2>13, <3>1, <3>2
      <3> QED  BY <2>10, <2>11, <3>1, <3>3
    <2>15. \A s \in K : e[s].bytes \in 0..CapacityBytes
      BY <2>4, <2>6 DEF Counted, QueueInv
    <2>16. Counted'
      BY <2>2, <2>4, <2>6, <2>14, <2>15 DEF Counted, QueueInv
    <2> QED  BY <2>7, <2>8, <2>16 DEF QueueInv
  <1> QED  BY <1>1, <1>2

\* What the operations do to the log, row by row.
LEMMA EnqueueWrites ==
    ASSUME QueueInv, NEW key, NEW generation, NEW bytes \in Nat, NEW producer,
           Enqueue(key, generation, bytes, producer)
    PROVE  IF EnqueueVerdict(key, generation, bytes, producer) = "enqueued"
           THEN /\ EntriesUnder(key) = {} /\ NextSequence = issued + 1 /\ issued' = issued + 1
                /\ Live' = Live \cup {issued + 1}
                /\ queue'.trim = queue.trim /\ queue'.consume = queue.consume
                /\ queue'.entries[issued + 1] =
                       [key |-> key, generation |-> channel.generation,
                        bytes |-> bytes, producer |-> producer]
                /\ \A t \in Live : queue'.entries[t] = queue.entries[t]
           ELSE UNCHANGED <<queue, issued>>
  <1>1. CASE EnqueueVerdict(key, generation, bytes, producer) # "enqueued"
    BY <1>1 DEF Enqueue
  <1>2. CASE EnqueueVerdict(key, generation, bytes, producer) = "enqueued"
    <2> DEFINE r == [key |-> key, generation |-> channel.generation,
                     bytes |-> bytes, producer |-> producer]
               e == [t \in Live \cup {issued + 1} |-> IF t = issued + 1 THEN r ELSE queue.entries[t]]
    <2>1. /\ NextSequence = issued + 1 /\ issued + 1 \notin Live
      BY WrittenIsIssued DEF NextSequence, QueueInv, Sequenced, QueueShape
    <2>2. /\ issued' = issued + 1
          /\ queue' = [entries |-> e, consume |-> queue.consume, trim |-> queue.trim,
                       backlog |-> queue.backlog + bytes, retained |-> queue.retained + bytes]
      BY <1>2, <2>1, Zenon DEF Enqueue, QueueInv, QueueShape
    <2>3. EntriesUnder(key) = {}
      BY <1>2 DEF EnqueueVerdict
    <2> HIDE DEF r
    <2>4. /\ Live' = Live \cup {issued + 1} /\ queue'.trim = queue.trim /\ queue'.consume = queue.consume
          /\ queue'.entries[issued + 1] = r
          /\ \A t \in Live : queue'.entries[t] = queue.entries[t]
      BY <2>1, <2>2 DEF Live
    <2> QED  BY <1>2, <2>1, <2>2, <2>3, <2>4 DEF r
  <1> QED  BY <1>1, <1>2

LEMMA AckWrites ==
    ASSUME QueueInv, NEW upTo \in Nat, Ack(upTo)
    PROVE  /\ queue'.entries = queue.entries /\ queue'.trim = queue.trim /\ UNCHANGED issued
           /\ IF AckVerdict(upTo) = "advanced"
              THEN queue.consume < upTo /\ upTo <= issued /\ queue'.consume = upTo
              ELSE UNCHANGED queue
  <1>1. CASE AckVerdict(upTo) # "advanced"
    BY <1>1 DEF Ack
  <1>2. CASE AckVerdict(upTo) = "advanced"
    <2>1. queue.consume < upTo /\ upTo <= issued
      BY <1>2, WrittenIsIssued DEF AckVerdict, QueueInv, QueueShape
    <2>2. /\ issued' = issued
          /\ queue' = [entries |-> queue.entries, consume |-> upTo, trim |-> queue.trim,
                       backlog |-> queue.backlog - Confirmed(upTo), retained |-> queue.retained]
      BY <1>2, Zenon DEF Ack, QueueInv, QueueShape
    <2> QED  BY <1>2, <2>1, <2>2
  <1> QED  BY <1>1, <1>2

LEMMA CompactWrites ==
    ASSUME QueueInv, NEW to \in Nat, Compact(to)
    PROVE  /\ UNCHANGED issued /\ queue'.consume = queue.consume
           /\ IF CompactVerdict(to) = "trimmed"
              THEN /\ TrimTarget(to) \in Nat /\ queue.trim < TrimTarget(to)
                   /\ TrimTarget(to) <= queue.consume
                   /\ queue'.trim = TrimTarget(to)
                   /\ Live' = {s \in Live : s > TrimTarget(to)}
                   /\ \A s \in Live' : queue'.entries[s] = queue.entries[s]
              ELSE UNCHANGED queue
  <1>1. CASE CompactVerdict(to) # "trimmed"
    BY <1>1 DEF Compact
  <1>2. CASE CompactVerdict(to) = "trimmed"
    <2>1. PICK g \in Nat : /\ g = TrimTarget(to) /\ queue.trim < g /\ g <= queue.consume
      BY <1>2, TrimTargetIs DEF CompactVerdict, QueueInv, QueueShape
    <2> DEFINE e == [s \in {t \in Live : t > g} |-> queue.entries[s]]
    <2>2. /\ issued' = issued
          /\ queue' = [entries |-> e, consume |-> queue.consume, trim |-> g,
                       backlog |-> queue.backlog,
                       retained |-> queue.retained - BytesOf(Released(to))]
      BY <1>2, <2>1, Zenon DEF Compact, QueueInv, QueueShape, Restrict
    <2>3. /\ Live' = {s \in Live : s > g} /\ queue'.trim = g /\ queue'.consume = queue.consume
          /\ \A s \in Live' : queue'.entries[s] = queue.entries[s]
      BY <2>2 DEF Live
    <2> QED  BY <1>2, <2>1, <2>2, <2>3
  <1> QED  BY <1>1, <1>2

=============================================================================
