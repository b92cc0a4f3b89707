-------------------------- MODULE TopicLedgerProofs --------------------------
(***************************************************************************)
(* Proofs about TopicFanout, continued from TopicFanoutProofs: the log,    *)
(* the journal and the ledger agree whatever calls interleave and wherever *)
(* they are cut off.                                                       *)
(***************************************************************************)
EXTENDS TopicFanoutProofs

-----------------------------------------------------------------------------
(* The invariants.                                                         *)

\* Where a sequence is held to be that of a publication: by a call about to
\* complete the row, by the row and by the log.
MarksOf(p) ==
    {worker[w].bound : w \in {v \in Workers : worker[v].at = "commit" /\ worker[v].id = p}}
    \cup {pubs[q].sequence : q \in {q \in Enqueued : q = p}}
    \cup EntriesUnder(p)

\* A sequence is held for one publication, and a publication that is held to
\* have two was enqueued twice, which takes a trim in between.
Marks ==
    /\ \A n \in Live : queue.entries[n].key \in Publications
    /\ \A p \in Publications : MarksOf(p) \subseteq 1..issued
    /\ \A p \in Publications : MarksOf(p) # {} => copies[p] > 0
    /\ \A p, q \in Publications : MarksOf(p) \cap MarksOf(q) # {} => p = q
    /\ \A p \in Publications : \A m, n \in MarksOf(p) : m # n => copies[p] > 1
    /\ \A a, b \in Live : queue.entries[a].key = queue.entries[b].key => a = b
    /\ queue.trim = 0 => \A p \in Publications :
           copies[p] <= 1 /\ (copies[p] > 0 => EntriesUnder(p) # {})
    /\ "commit" \in alarms => \E p \in Publications : copies[p] > 1

\* What a compaction is about to release, every entitled subscriber has.
ReleaseIsConsumed ==
    \A w \in Releasing : \A s \in Entitled \ late : worker[w].arg <= subs[s].cursor

Sheltered == EntitledNotOvertaken /\ ReleaseIsConsumed

-----------------------------------------------------------------------------
(* Marks.                                                                  *)

\* The call w holds n for p.
Carries(w, p, n) == worker[w].at = "commit" /\ worker[w].id = p /\ worker[w].bound = n
Records(p, n) == pubs[p].status = "enqueued" /\ pubs[p].sequence = n
Keeps(p, n) == n \in Live /\ queue.entries[n].key = p

LEMMA MarkIs ==
    ASSUME NEW p \in Publications, NEW n
    PROVE  n \in MarksOf(p) <=> \/ \E w \in Workers : Carries(w, p, n)
                                \/ Records(p, n) \/ Keeps(p, n)
  BY Zenon DEF MarksOf, Enqueued, EntriesUnder, Carries, Records, Keeps

LEMMA MarkIsNext ==
    ASSUME NEW p \in Publications, NEW n
    PROVE  (n \in MarksOf(p)') <=> \/ \E w \in Workers : Carries(w, p, n)'
                                   \/ Records(p, n)' \/ Keeps(p, n)'
  BY Zenon DEF MarksOf, Enqueued, EntriesUnder, Carries, Records, Keeps

LEMMA MovedAre ==
    ASSUME Base, NEW w \in Workers, NEW r, Moves(w, r)
    PROVE  worker'[w] = r /\ \A v \in Workers \ {w} : worker'[v] = worker[v]
  BY Zenon DEF Base, Crew, Moves

\* A step after which nothing is held that was not held before.
LEMMA MarksShrink ==
    ASSUME Marks, UNCHANGED <<issued, copies>>,
           \A p \in Publications : MarksOf(p)' \subseteq MarksOf(p),
           Live' \subseteq Live, \A n \in Live' : queue'.entries[n].key = queue.entries[n].key,
           queue'.trim = 0 => queue.trim = 0 /\ Live' = Live,
           "commit" \in alarms' => "commit" \in alarms \/ \E p \in Publications : copies[p] > 1
    PROVE  Marks'
  <1>1. \A n \in Live' : queue'.entries[n].key \in Publications
    BY Zenon DEF Marks
  <1>2. /\ \A p \in Publications : MarksOf(p)' \subseteq 1..issued'
        /\ \A p \in Publications : MarksOf(p)' # {} => copies'[p] > 0
    BY Zenon DEF Marks
  <1>3. \A p, q \in Publications : MarksOf(p)' \cap MarksOf(q)' # {} => p = q
    BY Zenon DEF Marks
  <1>4. \A p \in Publications : \A m, n \in MarksOf(p)' : m # n => copies'[p] > 1
    BY Zenon DEF Marks
  <1>5. \A a, b \in Live' : queue'.entries[a].key = queue'.entries[b].key => a = b
    BY Zenon DEF Marks
  <1>6. queue'.trim = 0 => \A p \in Publications :
            copies'[p] <= 1 /\ (copies'[p] > 0 => EntriesUnder(p)' # {})
    <2>1. queue'.trim = 0 => \A p \in Publications : EntriesUnder(p)' = EntriesUnder(p)
      BY Zenon DEF EntriesUnder
    <2> QED  BY <2>1, Zenon DEF Marks
  <1>7. "commit" \in alarms' => \E p \in Publications : copies'[p] > 1
    BY Zenon DEF Marks
  <1> QED  BY <1>1, <1>2, <1>3, <1>4, <1>5, <1>6, <1>7, Zenon DEF Marks

\* A step that leaves the log alone, completes no row and hands out no sequence.
LEMMA MarksFramed ==
    ASSUME Base, Marks, NEW w \in Workers, NEW r, Moves(w, r), r.at # "commit",
           UNCHANGED <<issued, copies>>, queue'.entries = queue.entries, queue'.trim = queue.trim,
           "commit" \in alarms' => "commit" \in alarms,
           \A p \in Publications : pubs'[p].status = "enqueued" =>
               pubs[p].status = "enqueued" /\ pubs'[p].sequence = pubs[p].sequence
    PROVE  Marks'
  <1>1. Live' = Live
    BY Zenon DEF Live
  <1>2. \A p \in Publications : MarksOf(p)' \subseteq MarksOf(p)
    <2> SUFFICES ASSUME NEW p \in Publications, NEW n, n \in MarksOf(p)'
                 PROVE  n \in MarksOf(p)
      BY Zenon
    <2>1. Records(p, n)' => Records(p, n)
      BY Zenon DEF Records
    <2>2. Keeps(p, n)' => Keeps(p, n)
      BY <1>1, Zenon DEF Keeps
    <2>3. \A v \in Workers : Carries(v, p, n)' => Carries(v, p, n)
      BY MovedAre DEF Carries
    <2> QED  BY <2>1, <2>2, <2>3, MarkIs, MarkIsNext, Zenon
  <1> QED  BY <1>1, <1>2, MarksShrink, Zenon

LEMMA MarksChange ==
    ASSUME Base, Marks, Changes \/ UNCHANGED vars
    PROVE  Marks'
  <1>1. UNCHANGED <<queue, issued, copies, alarms, pubs, worker>>
    BY Zenon DEF Changes, Unsubscribe, Reinstate, RechargeCredit, RotateChannel, Rotate, vars,
       channelVars,
       topicVars, history
  <1>2. Live' = Live
    BY <1>1, Zenon DEF Live
  <1>3. \A p \in Publications : MarksOf(p)' = MarksOf(p)
    BY <1>1, <1>2, Zenon DEF MarksOf, Enqueued, EntriesUnder
  <1> QED  BY <1>1, <1>2, <1>3, MarksShrink, Zenon

LEMMA MarksCalls ==
    ASSUME Base, Marks, NEW w \in Workers,
           \/ Begins(w) \/ Reads(w) \/ SubscribeCommit(w) \/ PublishRow(w) \/ RebindChannelFence(w)
           \/ AdvanceCommit(w) \/ AckRelease(w) \/ RecordUnallocated(w) \/ CheckAttribution(w)
           \/ Abandon(w)
    PROVE  Marks'
  <1>0. PICK r : r = worker[w] /\ Framed(r) /\ Fit(r, issued)
    BY Zenon DEF Base, Crew, Fit, Framed
  <1>1. UNCHANGED <<issued, copies>> /\ ("commit" \in alarms' => "commit" \in alarms)
    <2>1. CASE Begins(w)
      BY <2>1, CallBegins, Zenon DEF Begins, OnlyWorkers, channelVars, history
    <2>2. CASE Reads(w)
      BY <2>2, Zenon DEF Reads, ReadLive, ReadRelease, ReadConsumed, ReadBound, ReadClamp, channelVars,
         history
    <2>3. CASE SubscribeCommit(w) \/ PublishRow(w)
      BY <2>3, Zenon DEF SubscribeCommit, PublishRow, channelVars, history
    <2>5. CASE RebindChannelFence(w)
      BY <2>5 DEF RebindChannelFence, Alarm, channelVars
    <2>6. CASE AdvanceCommit(w)
      BY <2>6, Zenon DEF AdvanceCommit, Alarm, channelVars
    <2>4. CASE AckRelease(w) \/ RecordUnallocated(w) \/ CheckAttribution(w) \/ Abandon(w)
      BY <2>4 DEF AckRelease, Ack, RecordUnallocated, CheckAttribution, Abandon, Alarm, channelVars,
         history
    <2> QED  BY <2>1, <2>2, <2>3, <2>4, <2>5, <2>6, Zenon
  <1>2. queue'.entries = queue.entries /\ queue'.trim = queue.trim
    <2>1. CASE AckRelease(w)
      <3>1. r.arg \in Nat /\ Ack(r.arg)
        BY <1>0, <2>1, Zenon DEF AckRelease, Fit
      <3> QED  BY <3>1, AckWrites, Zenon DEF Base
    <2>2. CASE ~AckRelease(w)
      <3>1. UNCHANGED queue
        BY <2>2, CallBegins, Zenon DEF Begins, Reads, ReadLive, ReadRelease, ReadConsumed, ReadBound,
           ReadClamp,
           SubscribeCommit, PublishRow, RebindChannelFence, AdvanceCommit, RecordUnallocated,
           CheckAttribution, Abandon, OnlyWorkers, channelVars
      <3> QED  BY <3>1, Zenon
    <2> QED  BY <2>1, <2>2, Zenon
  <1>3. \A p \in Publications : pubs'[p].status = "enqueued" =>
            pubs[p].status = "enqueued" /\ pubs'[p].sequence = pubs[p].sequence
    <2>1. CASE PublishRow(w)
      <3>1. /\ r.id \in Publications /\ r.arg \in {None} \cup (Publications \ {r.id})
        BY <1>0, <2>1, Zenon DEF PublishRow, Fit
      <3>2. CASE UNCHANGED pubs
        BY <3>2, Zenon
      <3>3. CASE ParentAdmits(r.arg) /\ InsertPending(r.id, r.arg)
        <4>1. /\ pubs'[r.id].status = "pending"
              /\ r.arg # None => pubs'[r.arg].status = pubs[r.arg].status
                                 /\ pubs'[r.arg].sequence = pubs[r.arg].sequence
              /\ \A q \in Publications \ {r.id, r.arg} : pubs'[q] = pubs[q]
          BY <3>1, <3>3, PendingIs, PubFields
        <4> QED  BY <4>1, TopicBoundAssumption, Zenon
      <3> QED  BY <1>0, <2>1, <3>2, <3>3, WriteMoves, Zenon DEF Admits
    <2>2. CASE ~PublishRow(w)
      <3>1. UNCHANGED pubs
        BY <2>2, CallBegins, Zenon DEF Begins, Reads, ReadLive, ReadRelease, ReadConsumed, ReadBound,
           ReadClamp,
           SubscribeCommit, AckRelease, RebindChannelFence, AdvanceCommit, RecordUnallocated,
           CheckAttribution, Abandon, OnlyWorkers, topicVars
      <3> QED  BY <3>1, Zenon
    <2> QED  BY <2>1, <2>2, Zenon
  <1>4. \E q : Moves(w, q) /\ q.at # "commit"
    <2>1. CASE Begins(w)
      <3>1. \E a, i, x, l : a # "commit" /\ Moves(w, Begun(a, i, x, l))
        BY <2>1, CallBegins, Zenon DEF Begins
      <3> QED  BY <3>1, BegunField, Zenon
    <2>2. CASE Reads(w)
      <3>1. \E a, x, b, l : a # "commit" /\ Moves(w, Onward(r, a, x, b, l))
        BY <1>0, <2>2, ReadMoves, Zenon DEF Reads
      <3> QED  BY <3>1, OnwardFields
    <2>3. CASE PublishRow(w) \/ RebindChannelFence(w) \/ AckRelease(w)
      <3>1. \/ Moves(w, Free)
            \/ \E a, x, b, l : a # "commit" /\ Moves(w, Onward(r, a, x, b, l))
        BY <1>0, <2>3, WriteMoves, Zenon
      <3> QED  BY <3>1, FreeField, OnwardFields
    <2>4. CASE SubscribeCommit(w) \/ AdvanceCommit(w) \/ RecordUnallocated(w) \/ CheckAttribution(w)
               \/ Abandon(w)
      <3>1. Moves(w, Free)
        BY <2>4, Zenon DEF SubscribeCommit, AdvanceCommit, RecordUnallocated, CheckAttribution,
           Abandon, Alarm,
           Return, Moves
      <3> QED  BY <3>1, FreeField, Zenon
    <2> QED  BY <2>1, <2>2, <2>3, <2>4, Zenon
  <1> QED  BY <1>1, <1>2, <1>3, <1>4, MarksFramed, Zenon

LEMMA MarksTrim ==
    ASSUME Base, Marks, NEW w \in Workers, TrimChannel(w)
    PROVE  Marks'
  <1>0. PICK r : r = worker[w] /\ Framed(r) /\ r.bound \in Nat
    BY Zenon DEF Base, Crew, Fit, Framed, TrimChannel
  <1>1. PICK to \in 0..r.bound : /\ Compact(to)
                                 /\ \E q : Moves(w, q) /\ q.at # "commit"
    <2>1. PICK to \in 0..r.bound :
                /\ Compact(to)
                /\ \/ Moves(w, Free)
                   \/ Moves(w, Onward(r, "account", r.arg, TrimTarget(to), r.live))
      BY <1>0, WriteMoves, Zenon
    <2> QED  BY <2>1, FreeField, OnwardFields
  <1>2. to \in Nat
    BY <1>0
  <1>3. /\ UNCHANGED <<issued, copies, alarms, pubs>> /\ Live' \subseteq Live
        /\ \A n \in Live' : queue'.entries[n] = queue.entries[n]
        /\ queue'.trim = 0 => queue.trim = 0 /\ Live' = Live
    <2>1. CASE CompactVerdict(to) = "trimmed"
      BY <1>1, <1>2, <2>1, CompactWrites DEF Base, QueueInv, QueueShape, TrimChannel, topicVars, history
    <2>2. CASE CompactVerdict(to) # "trimmed"
      BY <1>1, <1>2, <2>2, CompactWrites, Zenon DEF Base, Live, TrimChannel, topicVars, history
    <2> QED  BY <2>1, <2>2, Zenon
  <1>4. \A p \in Publications : MarksOf(p)' \subseteq MarksOf(p)
    <2> SUFFICES ASSUME NEW p \in Publications, NEW n, n \in MarksOf(p)'
                 PROVE  n \in MarksOf(p)
      BY Zenon
    <2>1. Records(p, n)' => Records(p, n)
      BY <1>3, Zenon DEF Records
    <2>2. Keeps(p, n)' => Keeps(p, n)
      BY <1>3, Zenon DEF Keeps
    <2>3. \A v \in Workers : Carries(v, p, n)' => Carries(v, p, n)
      BY <1>1, MovedAre, Zenon DEF Carries
    <2> QED  BY <2>1, <2>2, <2>3, MarkIs, MarkIsNext, Zenon
  <1> QED  BY <1>3, <1>4, MarksShrink, Zenon

LEMMA MarksOwners ==
    ASSUME Base, Marks, Owners
    PROVE  Marks'
  <1>1. PICK n \in Nat : OwnerAck(n) \/ OwnerCompact(n)
    BY OwnerNames, Zenon
  <1>2. UNCHANGED <<issued, copies, alarms, pubs, worker>>
    BY <1>1, Zenon DEF OwnerAck, OwnerCompact, Ack, Compact, topicVars
  <1>3. /\ Live' \subseteq Live /\ \A m \in Live' : queue'.entries[m] = queue.entries[m]
        /\ queue'.trim = 0 => queue.trim = 0 /\ Live' = Live
    <2>1. CASE OwnerAck(n)
      BY <2>1, AckWrites, Zenon DEF Base, OwnerAck, Live
    <2>2. CASE OwnerCompact(n)
      <3>1. Compact(n) /\ CompactVerdict(n) = "trimmed" /\ queue.trim \in Nat
        BY <2>2, Zenon DEF OwnerCompact, Base, QueueInv, QueueShape
      <3> QED  BY <3>1, CompactWrites DEF Base
    <2> QED  BY <1>1, <2>1, <2>2, Zenon
  <1>4. \A p \in Publications : MarksOf(p)' \subseteq MarksOf(p)
    <2> SUFFICES ASSUME NEW p \in Publications, NEW m, m \in MarksOf(p)'
                 PROVE  m \in MarksOf(p)
      BY Zenon
    <2>1. Records(p, m)' => Records(p, m)
      BY <1>2, Zenon DEF Records
    <2>2. Keeps(p, m)' => Keeps(p, m)
      BY <1>3, Zenon DEF Keeps
    <2>3. \A v \in Workers : Carries(v, p, m)' => Carries(v, p, m)
      BY <1>2, Zenon DEF Carries
    <2> QED  BY <2>1, <2>2, <2>3, MarkIs, MarkIsNext, Zenon
  <1> QED  BY <1>2, <1>3, <1>4, MarksShrink, Zenon

LEMMA MarksCommit ==
    ASSUME Base, Marks, NEW w \in Workers, PublishCommit(w)
    PROVE  Marks'
  <1>0. PICK p, n : /\ p = worker[w].id /\ n = worker[w].bound /\ p \in Publications
                    /\ worker[w].at = "commit"
    BY Zenon DEF Base, Crew, Fit, PublishCommit
  <1>1. /\ UNCHANGED <<queue, issued, copies>> /\ Moves(w, Free) /\ Live' = Live
    BY Zenon DEF PublishCommit, Return, Alarm, Moves, channelVars, Live
  <1>2. n \in MarksOf(p)
    BY <1>0, MarkIs, Zenon DEF Carries
  <1>3. \A q \in Publications : \A m : Records(q, m)' => Records(q, m) \/ (q = p /\ m = n)
    <2>1. CASE pubs[p].status = "pending"
      BY <1>0, <2>1, CommitIs, PubFields DEF Records
    <2>2. CASE pubs[p].status # "pending"
      <3>1. UNCHANGED pubs
        BY <1>0, <2>2, Zenon DEF PublishCommit
      <3> QED  BY <3>1, Zenon DEF Records
    <2> QED  BY <2>1, <2>2, Zenon
  <1>4. \A q \in Publications : MarksOf(q)' \subseteq MarksOf(q)
    <2> SUFFICES ASSUME NEW q \in Publications, NEW m, m \in MarksOf(q)'
                 PROVE  m \in MarksOf(q)
      BY Zenon
    <2>1. Keeps(q, m)' => Keeps(q, m)
      BY <1>1, Zenon DEF Keeps
    <2>2. \A v \in Workers : Carries(v, q, m)' => Carries(v, q, m)
      BY <1>1, MovedAre, FreeField, Zenon DEF Carries
    <2> QED  BY <1>2, <1>3, <2>1, <2>2, MarkIs, MarkIsNext, Zenon
  <1>5. "commit" \in alarms' => "commit" \in alarms \/ copies[p] > 1
    <2> SUFFICES ASSUME "commit" \in alarms', "commit" \notin alarms
                 PROVE  copies[p] > 1
      BY Zenon
    <2>1. pubs[p].status = "enqueued" /\ pubs[p].sequence # n
      BY <1>0, Zenon DEF PublishCommit, Alarm
    <2>2. pubs[p].sequence \in MarksOf(p)
      BY <1>0, <2>1, MarkIs, Zenon DEF Records
    <2> QED  BY <1>0, <1>2, <2>1, <2>2, Zenon DEF Marks
  <1> QED  BY <1>0, <1>1, <1>4, <1>5, MarksShrink, Zenon

LEMMA MarksEnqueue ==
    ASSUME Base, Marks, NEW w \in Workers, EnqueueEntry(w)
    PROVE  Marks'
  <1>0. PICK r, p : /\ r = worker[w] /\ p = r.id /\ Framed(r) /\ p \in Publications
    BY Zenon DEF Base, Crew, Fit, Framed, EnqueueEntry
  <1>1. PICK v : v = EnqueueVerdict(p, r.bound, 1, None)
    BY Zenon
  <1>2. /\ Enqueue(p, r.bound, 1, None) /\ UNCHANGED <<pubs, alarms>>
        /\ copies' = IF v = "enqueued" THEN [copies EXCEPT ![p] = @ + 1] ELSE copies
    BY <1>0, <1>1, Zenon DEF EnqueueEntry, topicVars
  <1>3. IF v \in {"enqueued", "replayed"}
        THEN Moves(w, Onward(r, "commit", r.arg, EnqueuedAt(p), r.live))
        ELSE Moves(w, Free)
    BY <1>0, <1>1, WriteMoves, Zenon
  <1>4. \A q \in Publications : \A n : Records(q, n)' => Records(q, n)
    BY <1>2, Zenon DEF Records
  <1>5. CASE v # "enqueued"
    <2>1. UNCHANGED <<queue, issued, copies>> /\ Live' = Live
      BY <1>1, <1>2, <1>5, Zenon DEF Enqueue, Live
    <2>2. v = "replayed" => EnqueuedAt(p) \in MarksOf(p)
      <3>1. v = "replayed" => EntriesUnder(p) # {}
        BY <1>1, Zenon DEF EnqueueVerdict
      <3>2. v = "replayed" => EnqueuedAt(p) \in EntriesUnder(p)
        BY <3>1, Zenon DEF EnqueuedAt
      <3> QED  BY <3>2, Zenon DEF MarksOf
    <2>3. \A q \in Publications : MarksOf(q)' \subseteq MarksOf(q)
      <3> SUFFICES ASSUME NEW q \in Publications, NEW m, m \in MarksOf(q)'
                   PROVE  m \in MarksOf(q)
        BY Zenon
      <3>1. Keeps(q, m)' => Keeps(q, m)
        BY <2>1, Zenon DEF Keeps
      <3>2. \A u \in Workers \ {w} : Carries(u, q, m)' => Carries(u, q, m)
        BY <1>3, MovedAre, Zenon DEF Carries
      <3>3. Carries(w, q, m)' => m \in MarksOf(q)
        BY <1>0, <1>3, <1>5, <2>2, MovedAre, FreeField, OnwardFields DEF Carries
      <3> QED  BY <1>4, <3>1, <3>2, <3>3, MarkIs, MarkIsNext, Zenon
    <2> QED  BY <1>2, <2>1, <2>3, MarksShrink, Zenon
  <1>6. CASE v = "enqueued"
    <2>1. PICK k \in Nat : k = issued + 1 /\ issued \in Nat
      BY DEF Base, QueueInv, QueueShape
    <2>2. /\ EntriesUnder(p) = {} /\ EnqueuedAt(p) = k /\ issued' = k /\ Live' = Live \cup {k}
          /\ queue'.trim = queue.trim /\ queue'.entries[k].key = p
          /\ \A t \in Live : queue'.entries[t] = queue.entries[t]
      <3>1. 1 \in Nat /\ QueueInv /\ EnqueueVerdict(p, r.bound, 1, None) = "enqueued"
        BY <1>1, <1>6, Zenon DEF Base
      <3>2. /\ EntriesUnder(p) = {} /\ NextSequence = k /\ issued' = k /\ Live' = Live \cup {k}
            /\ queue'.trim = queue.trim
            /\ queue'.entries[k] = [key |-> p, generation |-> channel.generation,
                                    bytes |-> 1, producer |-> None]
            /\ \A t \in Live : queue'.entries[t] = queue.entries[t]
        BY <1>2, <2>1, <3>1, EnqueueWrites, Zenon
      <3> QED  BY <3>2 DEF EnqueuedAt
    <2>3. /\ copies'[p] = copies[p] + 1 /\ copies[p] \in Nat
          /\ \A q \in Publications \ {p} : copies'[q] = copies[q]
          /\ \A q \in Publications : copies[q] \in Nat
      BY <1>0, <1>2, <1>6, Zenon DEF Base, Heads
    <2>4. k \notin Live /\ \A q \in Publications : k \notin MarksOf(q)
      BY <2>1 DEF Marks, Base, QueueInv, Sequenced
    <2>5. \A q \in Publications : MarksOf(q)' \subseteq MarksOf(q) \cup (IF q = p THEN {k} ELSE {})
      <3> SUFFICES ASSUME NEW q \in Publications, NEW m, m \in MarksOf(q)'
                   PROVE  m \in MarksOf(q) \/ (q = p /\ m = k)
        BY Zenon
      <3>1. Keeps(q, m)' => Keeps(q, m) \/ (q = p /\ m = k)
        BY <2>2, <2>4, Zenon DEF Keeps
      <3>2. \A u \in Workers \ {w} : Carries(u, q, m)' => Carries(u, q, m)
        BY <1>3, MovedAre, Zenon DEF Carries
      <3>3. Carries(w, q, m)' => q = p /\ m = k
        BY <1>0, <1>3, <1>6, <2>2, MovedAre, OnwardFields DEF Carries
      <3> QED  BY <1>4, <3>1, <3>2, <3>3, MarkIs, MarkIsNext, Zenon
    <2>6. \A n \in Live' : queue'.entries[n].key \in Publications
      BY <1>0, <2>2, Zenon DEF Marks
    <2>7. \A q \in Publications : MarksOf(q)' \subseteq 1..issued'
      BY <2>1, <2>2, <2>5 DEF Marks
    <2>8. \A q \in Publications : MarksOf(q)' # {} => copies'[q] > 0
      BY <2>3, <2>5 DEF Marks
    <2>9. \A q, u \in Publications : MarksOf(q)' \cap MarksOf(u)' # {} => q = u
      BY <2>4, <2>5 DEF Marks
    <2>10. \A q \in Publications : \A m, n \in MarksOf(q)' : m # n => copies'[q] > 1
      BY <2>3, <2>5 DEF Marks
    <2>11. \A a, b \in Live' : queue'.entries[a].key = queue'.entries[b].key => a = b
      BY <2>2, <2>4 DEF Marks, EntriesUnder
    <2>12. queue'.trim = 0 => \A q \in Publications :
              copies'[q] <= 1 /\ (copies'[q] > 0 => EntriesUnder(q)' # {})
      <3>1. \A q \in Publications : EntriesUnder(q) \subseteq EntriesUnder(q)'
        BY <2>2, Zenon DEF EntriesUnder
      <3>2. k \in EntriesUnder(p)'
        BY <2>2, Zenon DEF EntriesUnder
      <3>3. queue.trim = 0 => copies[p] = 0
        BY <1>0, <2>2, <2>3 DEF Marks
      <3> QED  BY <2>2, <2>3, <3>1, <3>2, <3>3 DEF Marks
    <2>13. "commit" \in alarms' => \E q \in Publications : copies'[q] > 1
      BY <1>2, <2>3 DEF Marks
    <2> QED  BY <2>6, <2>7, <2>8, <2>9, <2>10, <2>11, <2>12, <2>13, Zenon DEF Marks
  <1> QED  BY <1>5, <1>6, Zenon

LEMMA MarksStart ==
    ASSUME Init
    PROVE  Marks
  <1>1. Live = {} /\ issued = 0
    BY Zenon DEF Init, ChannelInit, Live, NoEntries
  <1>2. \A p \in Publications : MarksOf(p) = {} /\ copies[p] = 0
    <2>1. \A w \in Workers : worker[w].at # "commit"
      BY FreeField, Zenon DEF Init
    <2>2. \A p \in Publications : pubs[p].status # "enqueued"
      BY Zenon DEF Init, NoPub
    <2> QED  BY <1>1, <2>1, <2>2, Zenon DEF Init, MarksOf, Enqueued, EntriesUnder
  <1> QED  BY <1>1, <1>2 DEF Marks, Init

LEMMA MarksNext ==
    ASSUME Base, Marks, [Next]_vars
    PROVE  Marks'
  BY MarksChange, MarksOwners, MarksCalls, MarksTrim, MarksCommit, MarksEnqueue, Steps, Zenon

-----------------------------------------------------------------------------
(* Consumption and the cursors.                                            *)

\* What the invariant compares are numbers.
LEMMA Numbers ==
    ASSUME Base
    PROVE  /\ \A s \in Subscribers : subs[s].cursor \in Nat
           /\ \A w \in Releasing : worker[w].arg \in Nat
           /\ queue.consume \in Nat /\ queue.trim \in Nat /\ issued \in Nat
  <1>1. \A s \in Subscribers : subs[s] \in SubType
    BY Zenon DEF Base, TypeOK, SubType
  <1>2. \A s \in Subscribers : subs[s].cursor \in Nat
    BY <1>1, Zenon DEF SubType
  <1>3. \A w \in Releasing : worker[w].arg \in Nat
    BY Zenon DEF Base, Crew, Fit, Releasing
  <1>4. queue.consume \in Nat /\ queue.trim \in Nat /\ issued \in Nat
    BY Zenon DEF Base, QueueInv, QueueShape
  <1> QED  BY <1>2, <1>3, <1>4, Zenon

LEMMA NumbersNext ==
    ASSUME Base'
    PROVE  \A s \in Subscribers : subs'[s].cursor \in Nat
  <1>1. \A s \in Subscribers : subs'[s] \in SubType
    BY Zenon DEF Base, TypeOK, SubType
  <1> QED  BY <1>1, Zenon DEF SubType

LEMMA SequenceOrder ==
    \A a, b \in Nat : /\ a <= a
                      /\ a < b => a <= b
                      /\ ~(a < b) => a >= b
  OBVIOUS

\* A cursor that does not move is not behind itself.
LEMMA CursorStands ==
    ASSUME Base
    PROVE  \A s \in Subscribers : subs[s].cursor <= subs[s].cursor
  BY Numbers, SequenceOrder, Zenon

\* A step that releases nothing new and moves no entitled cursor back.
LEMMA ShelterFramed ==
    ASSUME Base, Base', Sheltered, queue'.consume = queue.consume,
           \A s \in Entitled' \ late' : s \in Entitled \ late /\ subs[s].cursor <= subs'[s].cursor,
           \A v \in Releasing' : v \in Releasing /\ worker'[v].arg = worker[v].arg
    PROVE  Sheltered'
  <1>1. \A s \in Entitled' \ late' :
            /\ s \in Entitled \ late /\ subs[s].cursor <= subs'[s].cursor
            /\ subs[s].cursor \in Nat /\ subs'[s].cursor \in Nat
    BY Numbers, NumbersNext, Zenon DEF Entitled
  <1>2. EntitledNotOvertaken'
    <2> SUFFICES ASSUME NEW s \in Entitled' \ late'
                 PROVE  subs'[s].cursor >= queue.consume
      BY Zenon DEF EntitledNotOvertaken
    <2>1. PICK a, b, k \in Nat : a = subs[s].cursor /\ b = subs'[s].cursor /\ k = queue.consume
      BY <1>1, Numbers, Zenon
    <2>2. a <= b /\ a >= k
      BY <1>1, <2>1, Zenon DEF Sheltered, EntitledNotOvertaken
    <2>3. b >= k
      BY <2>2
    <2> QED  BY <2>1, <2>3, Zenon
  <1>3. ReleaseIsConsumed'
    <2> SUFFICES ASSUME NEW v \in Releasing', NEW s \in Entitled' \ late'
                 PROVE  worker[v].arg <= subs'[s].cursor
      BY Zenon DEF ReleaseIsConsumed
    <2>1. PICK a, b, x \in Nat : a = subs[s].cursor /\ b = subs'[s].cursor /\ x = worker[v].arg
      BY <1>1, Numbers, Zenon
    <2>2. x <= a /\ a <= b
      BY <1>1, <2>1, Zenon DEF Sheltered, ReleaseIsConsumed
    <2>3. x <= b
      BY <2>2
    <2> QED  BY <2>1, <2>3, Zenon
  <1> QED  BY <1>2, <1>3, Zenon DEF Sheltered

LEMMA ReleasingMoves ==
    ASSUME Base, NEW w \in Workers, NEW q, Moves(w, q), q.at \notin {"release", "ack"}
    PROVE  \A v \in Releasing' : v \in Releasing /\ worker'[v].arg = worker[v].arg
  BY MovedAre, Zenon DEF Releasing

\* A write that moves on to another step than those two.
LEMMA MovesAway ==
    ASSUME NEW w, NEW r,
           \/ Moves(w, Free)
           \/ \E a, x, b, l : a \notin {"release", "ack"} /\ Moves(w, Onward(r, a, x, b, l))
    PROVE  \E q : Moves(w, q) /\ q.at \notin {"release", "ack"}
  <1>1. CASE Moves(w, Free)
    BY <1>1, FreeField, Zenon
  <1>2. ASSUME NEW a, NEW x, NEW b, NEW l, a \notin {"release", "ack"}, Moves(w, Onward(r, a, x, b, l))
        PROVE  \E q : Moves(w, q) /\ q.at \notin {"release", "ack"}
    <2>1. Onward(r, a, x, b, l).at = a
      BY Zenon DEF Onward
    <2> QED  BY <1>2, <2>1, Zenon
  <1> QED  BY <1>1, <1>2, Zenon

LEMMA ShelterCalls ==
    ASSUME Base, Base', Sheltered, NEW w \in Workers,
           \/ Begins(w) \/ Reads(w) \/ PublishRow(w) \/ RebindChannelFence(w) \/ EnqueueEntry(w)
           \/ TrimChannel(w) \/ RecordUnallocated(w) \/ CheckAttribution(w) \/ Abandon(w)
    PROVE  Sheltered'
  <1>0. PICK r : r = worker[w] /\ Framed(r) /\ Fit(r, issued)
    BY Zenon DEF Base, Crew, Fit, Framed
  <1>1. UNCHANGED <<subs, late>>
    <2>1. CASE Begins(w) \/ Reads(w)
      BY <2>1, CallBegins, Zenon DEF Begins, Reads, ReadLive, ReadRelease, ReadConsumed, ReadBound,
         ReadClamp,
         OnlyWorkers, topicVars, history
    <2>2. CASE PublishRow(w) \/ RebindChannelFence(w) \/ EnqueueEntry(w) \/ TrimChannel(w)
      BY <2>2, Zenon DEF PublishRow, RebindChannelFence, EnqueueEntry, TrimChannel, topicVars, history
    <2>3. CASE RecordUnallocated(w) \/ CheckAttribution(w) \/ Abandon(w)
      BY <2>3, Zenon DEF RecordUnallocated, CheckAttribution, Abandon, topicVars, history
    <2> QED  BY <2>1, <2>2, <2>3, Zenon
  <1>2. queue'.consume = queue.consume
    <2>1. CASE EnqueueEntry(w)
      <3>1. QueueInv /\ 1 \in Nat /\ Enqueue(r.id, r.bound, 1, None)
        BY <1>0, <2>1, Zenon DEF Base, EnqueueEntry
      <3> QED  BY <3>1, EnqueueWrites, Zenon
    <2>2. CASE TrimChannel(w)
      <3>1. r.bound \in Nat
        BY <1>0, <2>2, Zenon DEF Fit, TrimChannel
      <3>2. PICK to \in 0..r.bound : Compact(to)
        BY <1>0, <2>2, Zenon DEF TrimChannel
      <3>3. to \in Nat /\ QueueInv
        BY <3>1 DEF Base
      <3> QED  BY <3>2, <3>3, CompactWrites, Zenon
    <2>3. CASE Begins(w) \/ Reads(w)
      BY <2>3, CallBegins, Zenon DEF Begins, Reads, ReadLive, ReadRelease, ReadConsumed, ReadBound,
         ReadClamp,
         OnlyWorkers, channelVars
    <2>4. CASE \/ PublishRow(w) \/ RebindChannelFence(w) \/ RecordUnallocated(w) \/ CheckAttribution(w)
               \/ Abandon(w)
      BY <2>4, Zenon DEF PublishRow, RebindChannelFence, RecordUnallocated, CheckAttribution, Abandon,
         channelVars
    <2> QED  BY <2>1, <2>2, <2>3, <2>4, Zenon
  <1>3. \A s \in Entitled' \ late' : s \in Entitled \ late /\ subs[s].cursor <= subs'[s].cursor
    BY <1>1, CursorStands, Zenon DEF Entitled
  <1>4. CASE ReadRelease(w)
    <2>1. worker'[w].arg = MinActiveCursor /\ \A v \in Workers \ {w} : worker'[v] = worker[v]
      <3>1. PICK a : Moves(w, Onward(r, a, MinActiveCursor, r.bound, r.live))
        BY <1>0, <1>4, ReadMoves, Zenon
      <3>2. /\ worker'[w] = Onward(r, a, MinActiveCursor, r.bound, r.live)
            /\ \A v \in Workers \ {w} : worker'[v] = worker[v]
        BY <3>1, MovedAre, Zenon
      <3>3. Onward(r, a, MinActiveCursor, r.bound, r.live).arg = MinActiveCursor
        BY Zenon DEF Onward
      <3> QED  BY <3>2, <3>3, Zenon
    <2>2. Entitled' = Entitled
      BY <1>1, Zenon DEF Entitled
    <2>3. EntitledNotOvertaken'
      BY <1>1, <1>2, <2>2, Zenon DEF Sheltered, EntitledNotOvertaken
    <2>4. ReleaseIsConsumed'
      <3> SUFFICES ASSUME NEW v \in Releasing', NEW s \in Entitled \ late
                   PROVE  worker'[v].arg <= subs[s].cursor
        BY <1>1, <2>2, Zenon DEF ReleaseIsConsumed
      <3>1. CASE v = w
        BY <2>1, <3>1, CursorMinimum, Zenon DEF Base
      <3>2. CASE v # w
        BY <2>1, <3>2, Zenon DEF Sheltered, ReleaseIsConsumed, Releasing
      <3> QED  BY <3>1, <3>2, Zenon
    <2> QED  BY <2>3, <2>4, Zenon DEF Sheltered
  <1>5. CASE ReadConsumed(w)
    <2>1. worker'[w].arg = worker[w].arg /\ worker[w].at = "release"
          /\ \A v \in Workers \ {w} : worker'[v] = worker[v]
      <3>1. PICK a : Moves(w, Onward(r, a, r.arg, r.bound, r.live))
        BY <1>0, <1>5, ReadMoves, Zenon
      <3>2. /\ worker'[w] = Onward(r, a, r.arg, r.bound, r.live)
            /\ \A v \in Workers \ {w} : worker'[v] = worker[v]
        BY <3>1, MovedAre, Zenon
      <3>3. r = worker[w] /\ worker[w].at = "release"
        BY <1>0, <1>5, Zenon DEF ReadConsumed
      <3>4. Onward(r, a, r.arg, r.bound, r.live).arg = r.arg
        BY Zenon DEF Onward
      <3> QED  BY <3>2, <3>3, <3>4, Zenon
    <2>2. \A v \in Releasing' : v \in Releasing /\ worker'[v].arg = worker[v].arg
      BY <2>1, Zenon DEF Releasing
    <2> QED  BY <1>2, <1>3, <2>2, ShelterFramed, Zenon
  <1>6. CASE ~ReadRelease(w) /\ ~ReadConsumed(w)
    <2>1. \E q : Moves(w, q) /\ q.at \notin {"release", "ack"}
      <3>1. CASE Begins(w)
        <4>1. PICK a, i, x, l : a \notin {"release", "ack"} /\ Moves(w, Begun(a, i, x, l))
          BY <3>1, CallBegins, Zenon DEF Begins
        <4>2. Begun(a, i, x, l).at = a
          BY Zenon DEF Begun
        <4> QED  BY <4>1, <4>2, Zenon
      <3>2. CASE Reads(w)
        <4>1. PICK a, x, b, l : a \notin {"release", "ack"} /\ Moves(w, Onward(r, a, x, b, l))
          BY <1>0, <1>6, <3>2, ReadMoves, Zenon DEF Reads
        <4> QED  BY <4>1, MovesAway, Zenon
      <3>3. CASE PublishRow(w) \/ RebindChannelFence(w) \/ EnqueueEntry(w)
        <4>1. \/ Moves(w, Free)
              \/ \E a, x, b, l : a \notin {"release", "ack"} /\ Moves(w, Onward(r, a, x, b, l))
          BY <1>0, <3>3, WriteMoves, Zenon
        <4> QED  BY <4>1, MovesAway, Zenon
      <3>4. CASE TrimChannel(w)
        <4>1. \/ Moves(w, Free)
              \/ \E a, x, b, l : a \notin {"release", "ack"} /\ Moves(w, Onward(r, a, x, b, l))
          BY <1>0, <3>4, WriteMoves, Zenon
        <4> QED  BY <4>1, MovesAway, Zenon
      <3>5. CASE RecordUnallocated(w) \/ CheckAttribution(w) \/ Abandon(w)
        <4>1. Moves(w, Free)
          BY <3>5, Zenon DEF RecordUnallocated, CheckAttribution, Abandon, Alarm, Return, Moves
        <4> QED  BY <4>1, FreeField, Zenon
      <3> QED  BY <3>1, <3>2, <3>3, <3>4, <3>5, Zenon
    <2>2. \A v \in Releasing' : v \in Releasing /\ worker'[v].arg = worker[v].arg
      BY <2>1, ReleasingMoves, Zenon
    <2> QED  BY <1>2, <1>3, <2>2, ShelterFramed, Zenon
  <1> QED  BY <1>4, <1>5, <1>6, Zenon

LEMMA ShelterAck ==
    ASSUME Base, Base', Sheltered, NEW w \in Workers, AckRelease(w)
    PROVE  Sheltered'
  <1>0. PICK r : r = worker[w] /\ Framed(r) /\ r.arg \in Nat /\ r.at = "ack" /\ Ack(r.arg)
    BY Zenon DEF Base, Crew, Fit, Framed, AckRelease
  <1>1. UNCHANGED <<subs, late>> /\ Entitled' = Entitled
    BY Zenon DEF AckRelease, topicVars, history, Entitled
  <1>2. \A v \in Releasing' : v \in Releasing /\ worker'[v].arg = worker[v].arg
    <2>1. \/ Moves(w, Free)
          \/ \E a, x, b, l : a \notin {"release", "ack"} /\ Moves(w, Onward(r, a, x, b, l))
      BY <1>0, WriteMoves, Zenon
    <2>2. \E q : Moves(w, q) /\ q.at \notin {"release", "ack"}
      BY <2>1, MovesAway, Zenon
    <2> QED  BY <2>2, ReleasingMoves, Zenon
  <1>3. queue'.consume = queue.consume \/ queue'.consume = r.arg
    BY <1>0, AckWrites, Zenon DEF Base
  <1>4. \A s \in Entitled \ late : subs[s].cursor >= r.arg /\ subs[s].cursor >= queue.consume
    <2>1. w \in Releasing
      BY <1>0, Zenon DEF Releasing
    <2>2. \A s \in Entitled \ late : worker[w].arg <= subs[s].cursor /\ subs[s].cursor \in Nat
      BY <2>1, Numbers, Zenon DEF Sheltered, ReleaseIsConsumed, Entitled
    <2> QED  BY <1>0, <2>2, Zenon DEF Sheltered, EntitledNotOvertaken
  <1>5. EntitledNotOvertaken'
    BY <1>1, <1>3, <1>4, Zenon DEF EntitledNotOvertaken
  <1>6. ReleaseIsConsumed'
    BY <1>1, <1>2, Zenon DEF Sheltered, ReleaseIsConsumed
  <1> QED  BY <1>5, <1>6, Zenon DEF Sheltered

\* The owner's own ack passes only subscribers that are late from then on.
LEMMA ShelterOwners ==
    ASSUME Base, Sheltered, Owners
    PROVE  Sheltered'
  <1>1. PICK n \in Nat : OwnerAck(n) \/ OwnerCompact(n)
    BY OwnerNames, Zenon
  <1>2. UNCHANGED <<subs, worker>> /\ Entitled' = Entitled /\ Releasing' = Releasing
    BY <1>1, Zenon DEF OwnerAck, OwnerCompact, topicVars, Entitled, Releasing
  <1>3. late \subseteq late'
    BY <1>1, Zenon DEF OwnerAck, OwnerCompact
  <1>4. ReleaseIsConsumed'
    BY <1>2, <1>3, Zenon DEF Sheltered, ReleaseIsConsumed
  <1>5. CASE OwnerAck(n)
    <2>1. queue'.consume = n
      BY <1>5, AckWrites, Zenon DEF Base, OwnerAck
    <2>2. \A s \in Entitled \ late' : subs[s].cursor >= n
      <3>1. \A s \in Entitled \ late' : ~(subs[s].cursor < n) /\ subs[s].cursor \in Nat
        BY <1>5, Numbers, Zenon DEF OwnerAck, Entitled
      <3> QED  BY <3>1, SequenceOrder, Zenon
    <2>3. EntitledNotOvertaken'
      BY <1>2, <2>1, <2>2, Zenon DEF EntitledNotOvertaken
    <2> QED  BY <1>4, <2>3, Zenon DEF Sheltered
  <1>6. CASE OwnerCompact(n)
    <2>1. queue'.consume = queue.consume
      BY <1>6, CompactWrites, Zenon DEF Base, OwnerCompact
    <2>2. EntitledNotOvertaken'
      BY <1>2, <1>3, <2>1, Zenon DEF Sheltered, EntitledNotOvertaken
    <2> QED  BY <1>4, <2>2, Zenon DEF Sheltered
  <1> QED  BY <1>1, <1>5, <1>6, Zenon

\* A subscriber that takes up deliveries, or catches up, and is not late.
LEMMA ShelterJoins ==
    ASSUME Base, Base', Sheltered, NEW i \in Subscribers, queue'.consume = queue.consume,
           \A s \in Entitled' \ late' : \/ s \in Entitled \ late /\ subs[s].cursor <= subs'[s].cursor
                                        \/ s = i /\ ~JoinsLate(subs'[i].cursor),
           \A v \in Releasing' : v \in Releasing /\ worker'[v].arg = worker[v].arg
    PROVE  Sheltered'
  <1>1. CASE i \in Entitled' \ late' /\ ~JoinsLate(subs'[i].cursor)
    <2>1. subs'[i].cursor >= queue.consume /\ Releasing = {}
      BY <1>1, Numbers, NumbersNext, SequenceOrder, Zenon DEF JoinsLate
    <2>2. Releasing' = {}
      BY <2>1, Zenon
    <2>3. \A s \in Entitled' \ late' : subs'[s].cursor >= queue.consume
      <3> SUFFICES ASSUME NEW s \in Entitled' \ late', s # i
                   PROVE  subs'[s].cursor >= queue.consume
        BY <2>1, Zenon
      <3>1. s \in Subscribers /\ s \in Entitled \ late /\ subs[s].cursor <= subs'[s].cursor
        BY Zenon DEF Entitled
      <3>2. subs[s].cursor >= queue.consume
        BY <3>1, Zenon DEF Sheltered, EntitledNotOvertaken
      <3>3. PICK a, b, k \in Nat : a = subs[s].cursor /\ b = subs'[s].cursor /\ k = queue.consume
        BY <3>1, Numbers, NumbersNext, Zenon
      <3>4. a <= b /\ a >= k
        BY <3>1, <3>2, <3>3, Zenon
      <3>5. b >= k
        BY <3>4
      <3> QED  BY <3>3, <3>5, Zenon
    <2>4. EntitledNotOvertaken'
      BY <2>3, Zenon DEF EntitledNotOvertaken
    <2> QED  BY <2>2, <2>4, Zenon DEF Sheltered, ReleaseIsConsumed
  <1>2. CASE ~(i \in Entitled' \ late' /\ ~JoinsLate(subs'[i].cursor))
    <2>1. \A s \in Entitled' \ late' : s \in Entitled \ late /\ subs[s].cursor <= subs'[s].cursor
      BY <1>2, Zenon
    <2> QED  BY <2>1, ShelterFramed, Zenon
  <1> QED  BY <1>1, <1>2, Zenon

LEMMA ShelterSubscribers ==
    ASSUME Base, Base', Sheltered, NEW w \in Workers, SubscribeCommit(w) \/ AdvanceCommit(w)
    PROVE  Sheltered'
  <1>1. queue'.consume = queue.consume /\ Moves(w, Free)
    BY Zenon DEF SubscribeCommit, AdvanceCommit, Alarm, Return, Moves, channelVars
  <1>2. \A v \in Releasing' : v \in Releasing /\ worker'[v].arg = worker[v].arg
    BY <1>1, FreeField, ReleasingMoves, Zenon
  <1>3. PICK i : i = worker[w].id /\ i \in Subscribers
    BY Zenon DEF Base, Crew, Fit, SubscribeCommit, AdvanceCommit
  <1>4. CASE UNCHANGED <<subs, late>>
    <2>1. \A s \in Entitled' \ late' : s \in Entitled \ late /\ subs[s].cursor <= subs'[s].cursor
      BY <1>4, CursorStands, Zenon DEF Entitled
    <2> QED  BY <1>1, <1>2, <2>1, ShelterFramed, Zenon
  <1>5. CASE SubscribeCommit(w) /\ ~UNCHANGED <<subs, late>>
    <2>1. /\ \A s \in Subscribers \ {i} : subs'[s] = subs[s]
          /\ late' = IF JoinsLate(subs'[i].cursor) THEN late \cup {i} ELSE late \ {i}
      <3>1. PICK n : n = worker[w].snapshot.max
        BY Zenon
      <3>2. PICK t, g : /\ subs'[i] = SubOf(t, "active", n, 0, g)
                        /\ \A s \in Subscribers \ {i} : subs'[s] = subs[s]
                        /\ late' = IF JoinsLate(n) THEN late \cup {i} ELSE late \ {i}
        BY <1>3, <1>5, <3>1, SubscribeIs, Zenon
      <3>3. subs'[i].cursor = n
        BY <3>2, SubFields
      <3> QED  BY <3>2, <3>3, Zenon
    <2>2. \A s \in Entitled' \ late' : \/ s \in Entitled \ late /\ subs[s].cursor <= subs'[s].cursor
                                       \/ s = i /\ ~JoinsLate(subs'[i].cursor)
      <3>1. \A s \in Subscribers \ {i} : s \in Entitled' \ late' =>
                s \in Entitled \ late /\ subs[s].cursor <= subs'[s].cursor
        BY <2>1, CursorStands, Zenon DEF Entitled
      <3>2. i \in Entitled' \ late' => ~JoinsLate(subs'[i].cursor)
        BY <2>1, Zenon
      <3> QED  BY <3>1, <3>2, Zenon DEF Entitled
    <2> QED  BY <1>1, <1>2, <1>3, <2>2, ShelterJoins, Zenon
  <1>6. CASE AdvanceCommit(w) /\ ~UNCHANGED <<subs, late>>
    <2>1. /\ \A s \in Subscribers \ {i} : subs'[s] = subs[s]
          /\ subs'[i].active = subs[i].active /\ subs'[i].state = subs[i].state
          /\ subs[i].cursor <= subs'[i].cursor
          /\ late' = IF JoinsLate(subs'[i].cursor) THEN late ELSE late \ {i}
      <3>0. ~UNCHANGED subs
        <4> SUFFICES ASSUME UNCHANGED subs
                     PROVE  FALSE
          BY Zenon
        <4>1. PICK n : n = worker[w].arg /\ subs[i].cursor < n /\ subs' = [subs EXCEPT ![i].cursor = n]
          BY <1>3, <1>6, Zenon DEF AdvanceCommit
        <4>2. subs'[i].cursor = n
          BY <1>3, <4>1 DEF Base, TypeOK
        <4>3. subs[i].cursor < subs[i].cursor /\ subs[i].cursor \in Nat
          BY <1>3, <4>1, <4>2, Numbers, Zenon
        <4> QED  BY <4>3
      <3>1. PICK n \in Nat : /\ subs[i].cursor < n /\ n = worker[w].arg
                             /\ subs'[i] = SubOf(subs[i].active, subs[i].state, n, subs[i].billed,
                                                 subs[i].generation)
                             /\ \A s \in Subscribers \ {i} : subs'[s] = subs[s]
        BY <1>3, <1>6, <3>0, AdvanceIs, Zenon
      <3>2. /\ subs'[i].active = subs[i].active /\ subs'[i].state = subs[i].state
            /\ subs'[i].cursor = n
        <4>1. subs'[i].active = subs[i].active
          <5>1. PICK m : subs' = [subs EXCEPT ![i].cursor = m]
            BY <1>3, <1>6, Zenon DEF AdvanceCommit
          <5> QED  BY <1>3, <5>1 DEF Base, TypeOK
        <4>2. PICK q : /\ q = SubOf(subs[i].active, subs[i].state, n, subs[i].billed, subs[i].generation)
                       /\ subs'[i] = q
          BY <3>1, Zenon
        <4>3. q.state = subs[i].state /\ q.cursor = n
          BY <4>2 DEF SubOf
        <4> QED  BY <4>1, <4>2, <4>3, Zenon
      <3>3. subs[i].cursor <= n
        BY <1>3, <3>1, Numbers, SequenceOrder, Zenon
      <3>4. late' = IF JoinsLate(n) THEN late ELSE late \ {i}
        BY <1>3, <1>6, <3>1, Zenon DEF AdvanceCommit
      <3> QED  BY <3>1, <3>2, <3>3, <3>4, Zenon
    <2>2. \A s \in Entitled' \ late' : \/ s \in Entitled \ late /\ subs[s].cursor <= subs'[s].cursor
                                       \/ s = i /\ ~JoinsLate(subs'[i].cursor)
      <3> SUFFICES ASSUME NEW s \in Entitled' \ late', ~(s = i /\ ~JoinsLate(subs'[i].cursor))
                   PROVE  s \in Entitled \ late /\ subs[s].cursor <= subs'[s].cursor
        BY Zenon
      <3>1. s \in Subscribers /\ s \notin late /\ subs'[s].active /\ subs'[s].state = "active"
        BY <2>1, Zenon DEF Entitled
      <3>2. subs[s].active /\ subs[s].state = "active"
        BY <2>1, <3>1, Zenon
      <3>3. CASE s = i
        BY <2>1, <3>1, <3>2, <3>3, Zenon DEF Entitled
      <3>4. CASE s # i
        <4>1. subs'[s] = subs[s]
          BY <2>1, <3>1, <3>4, Zenon
        <4> QED  BY <3>1, <3>2, <4>1, CursorStands, Zenon DEF Entitled
      <3> QED  BY <3>3, <3>4, Zenon
    <2> QED  BY <1>1, <1>2, <1>3, <2>2, ShelterJoins, Zenon
  <1> QED  BY <1>4, <1>5, <1>6, Zenon

LEMMA ShelterCommit ==
    ASSUME Base, Base', Sheltered, NEW w \in Workers, PublishCommit(w)
    PROVE  Sheltered'
  <1>1. queue'.consume = queue.consume /\ Moves(w, Free) /\ UNCHANGED late
    BY Zenon DEF PublishCommit, Alarm, Return, Moves, channelVars
  <1>2. \A v \in Releasing' : v \in Releasing /\ worker'[v].arg = worker[v].arg
    BY <1>1, FreeField, ReleasingMoves, Zenon
  <1>3. \A s \in Entitled' \ late' : s \in Entitled \ late /\ subs[s].cursor <= subs'[s].cursor
    <2>1. CASE UNCHANGED subs
      BY <1>1, <2>1, CursorStands, Zenon DEF Entitled
    <2>2. CASE ~UNCHANGED subs
      <3>1. PICK n \in Nat : subs' = Billed(n)
        <4>1. pubs[worker[w].id].status = "pending"
          BY <2>2, Zenon DEF PublishCommit
        <4> QED  BY <4>1, CommitIs, Zenon
      <3>2. ASSUME NEW s \in Subscribers, s \in Entitled' \ late'
            PROVE  s \in Entitled \ late /\ subs[s].cursor <= subs'[s].cursor
        <4>1. PICK b : b = Billed(n)[s]
          BY Zenon
        <4>2. b = subs[s] \/ (s \in Entitled /\ b.cursor = subs[s].cursor)
          <5>1. b = subs[s] \/ (s \in Entitled /\ \E a, t, m, g : b = SubOf(a, t, subs[s].cursor, m, g))
            BY <4>1, Written, Zenon
          <5>2. \A a, t, m, g : SubOf(a, t, subs[s].cursor, m, g).cursor = subs[s].cursor
            BY Zenon DEF SubOf
          <5> QED  BY <5>1, <5>2, Zenon
        <4>3. subs'[s] = b
          BY <3>1, <4>1, Zenon
        <4>4. s \in Entitled
          BY <3>2, <4>2, <4>3, Zenon DEF Entitled
        <4> QED  BY <1>1, <3>2, <4>2, <4>3, <4>4, CursorStands, Zenon
      <3> QED  BY <3>2, Zenon DEF Entitled
    <2> QED  BY <2>1, <2>2, Zenon
  <1> QED  BY <1>1, <1>2, <1>3, ShelterFramed, Zenon

LEMMA ShelterChange ==
    ASSUME Base, Base', Sheltered, Changes \/ UNCHANGED vars
    PROVE  Sheltered'
  <1>1. UNCHANGED <<queue, worker>>
    BY Zenon DEF Changes, Unsubscribe, Reinstate, RechargeCredit, RotateChannel, Rotate, vars,
       channelVars
  <1>2. \A v \in Releasing' : v \in Releasing /\ worker'[v].arg = worker[v].arg
    BY <1>1, Zenon DEF Releasing
  <1>3. CASE \E s \in Subscribers : Unsubscribe(s) \/ Reinstate(s)
    <2>1. PICK i \in Subscribers : Unsubscribe(i) \/ Reinstate(i)
      BY <1>3, Zenon
    <2>2. \A s \in Subscribers \ {i} : subs'[s] = subs[s]
      BY <2>1, ChangeIs, Zenon
    <2>3. CASE Unsubscribe(i)
      <3>1. ~subs'[i].active /\ UNCHANGED late
        BY <2>3 DEF Unsubscribe, history, Base, TypeOK
      <3>2. \A s \in Entitled' \ late' : s \in Entitled \ late /\ subs[s].cursor <= subs'[s].cursor
        BY <2>2, <3>1, CursorStands, Zenon DEF Entitled
      <3> QED  BY <1>1, <1>2, <3>2, ShelterFramed, Zenon
    <2>4. CASE Reinstate(i)
      <3>1. subs'[i].cursor = subs[i].cursor
        BY <2>4 DEF Reinstate, Reinstated, Base, TypeOK
      <3>2. late' = IF JoinsLate(subs'[i].cursor) THEN late \cup {i} ELSE late \ {i}
        BY <2>4, <3>1, Zenon DEF Reinstate
      <3>3. \A s \in Entitled' \ late' : \/ s \in Entitled \ late /\ subs[s].cursor <= subs'[s].cursor
                                         \/ s = i /\ ~JoinsLate(subs'[i].cursor)
        <4>1. \A s \in Subscribers \ {i} : s \in Entitled' \ late' =>
                  s \in Entitled \ late /\ subs[s].cursor <= subs'[s].cursor
          BY <2>2, <3>2, CursorStands, Zenon DEF Entitled
        <4>2. i \in Entitled' \ late' => ~JoinsLate(subs'[i].cursor)
          BY <3>2, Zenon
        <4> QED  BY <4>1, <4>2, Zenon DEF Entitled
      <3> QED  BY <1>1, <1>2, <3>3, ShelterJoins, Zenon
    <2> QED  BY <2>1, <2>3, <2>4, Zenon
  <1>4. CASE ~\E s \in Subscribers : Unsubscribe(s) \/ Reinstate(s)
    <2>1. UNCHANGED <<subs, late>>
      BY <1>4, Zenon DEF Changes, RechargeCredit, RotateChannel, vars, topicVars, history
    <2>2. \A s \in Entitled' \ late' : s \in Entitled \ late /\ subs[s].cursor <= subs'[s].cursor
      BY <2>1, CursorStands, Zenon DEF Entitled
    <2> QED  BY <1>1, <1>2, <2>2, ShelterFramed, Zenon
  <1> QED  BY <1>3, <1>4, Zenon

LEMMA ShelterStart ==
    ASSUME Init
    PROVE  Sheltered
  <1>1. Entitled = {}
    BY Zenon DEF Init, NoSub, Entitled
  <1> QED  BY <1>1, Zenon DEF Sheltered, EntitledNotOvertaken, ReleaseIsConsumed

LEMMA ShelterNext ==
    ASSUME Base, Sheltered, [Next]_vars
    PROVE  Sheltered'
  <1>1. Base'
    BY BaseNext, Zenon
  <1> QED  BY <1>1, ShelterChange, ShelterOwners, ShelterCalls, ShelterAck, ShelterSubscribers,
              ShelterCommit, Steps, Zenon

-----------------------------------------------------------------------------
(* The ledger.                                                             *)

LEMMA UncoveredIs ==
    ASSUME NEW to, NEW n
    PROVE  n \in Uncovered(to) <=>
               n \notin Accounted /\ \E p \in Publications : Records(p, n) /\ n <= to
  BY Zenon DEF Uncovered, Enqueued, Records

LEMMA UncoveredIsNext ==
    ASSUME NEW to, NEW n
    PROVE  (n \in Uncovered(to)') <=>
               n \notin Accounted' /\ \E p \in Publications : Records(p, n)' /\ n <= to
  BY Zenon DEF Uncovered, Enqueued, Records

\* What is accounted once stays accounted once, and belongs to a publication.
AccountedOnce ==
    /\ \A a, b \in ledger : a.sequence = b.sequence => a = b
    /\ \A a \in ledger : \E p \in Publications : Records(p, a.sequence)

\* What is trimmed is accounted for, owed, or about to be accounted for.
TrimmedAccounted ==
    \A p \in Publications : \A n \in Nat : Records(p, n) /\ n <= queue.trim /\ n \notin owed =>
        \/ n \in Accounted
        \/ \E w \in Workers : worker[w].at = "account" /\ n <= worker[w].bound

LedgerInv == AccountedOnce /\ TrimmedAccounted

LEMMA LedgerInvAccounts ==
    ASSUME Base, LedgerInv
    PROVE  LedgerAccounts
  <1>1. Accounted \subseteq {pubs[p].sequence : p \in Enqueued}
    BY DEF LedgerInv, AccountedOnce, Accounted, Enqueued, Records
  <1>2. ASSUME NEW n \in Uncovered(queue.trim) \ owed
        PROVE  \E w \in Workers : worker[w].at = "account" /\ n <= worker[w].bound
    <2>1. PICK t : t = queue.trim
      BY Zenon
    <2>2. PICK p \in Publications : Records(p, n) /\ n <= t /\ n \notin Accounted
      BY <1>2, <2>1, UncoveredIs, Zenon
    <2>3. n \in Nat
      BY <2>2, Zenon DEF Records, Base, TypeOK
    <2> QED  BY <1>2, <2>1, <2>2, <2>3, Zenon DEF LedgerInv, TrimmedAccounted
  <1> QED  BY <1>1, <1>2, Zenon DEF LedgerAccounts, LedgerInv, AccountedOnce

\* The ledger takes up sequences of publications that it did not hold.
LEMMA LedgerGrows ==
    ASSUME AccountedOnce, NEW S, NEW k, ledger' = ledger \cup [sequence : S, kind : {k}],
           \A n \in S : n \notin Accounted /\ \E p \in Publications : Records(p, n),
           \A p \in Publications : \A n : Records(p, n) => Records(p, n)'
    PROVE  AccountedOnce' /\ Accounted' = Accounted \cup S
  <1>1. \A a \in ledger' : a \in ledger \/ (a.sequence \in S /\ a = [sequence |-> a.sequence, kind |-> k])
    OBVIOUS
  <1>2. \A a \in ledger : a.sequence \in Accounted
    BY Zenon DEF Accounted
  <1>3. \A a, b \in ledger' : a.sequence = b.sequence => a = b
    <2> SUFFICES ASSUME NEW a \in ledger', NEW b \in ledger', a.sequence = b.sequence
                 PROVE  a = b
      BY Zenon
    <2>1. CASE a \in ledger /\ b \in ledger
      BY <2>1, Zenon DEF AccountedOnce
    <2>2. CASE a \in ledger /\ b \notin ledger
      BY <1>1, <1>2, <2>2, Zenon
    <2>3. CASE a \notin ledger /\ b \in ledger
      BY <1>1, <1>2, <2>3, Zenon
    <2>4. CASE a \notin ledger /\ b \notin ledger
      BY <1>1, <2>4, Zenon
    <2> QED  BY <2>1, <2>2, <2>3, <2>4, Zenon
  <1>4. \A a \in ledger' : \E p \in Publications : Records(p, a.sequence)
    BY <1>1, Zenon DEF AccountedOnce
  <1>5. \A a \in ledger' : \E p \in Publications : Records(p, a.sequence)'
    BY <1>4, Zenon
  <1>6. Accounted' = Accounted \cup S
    <2>1. \A n \in S : \E a \in ledger' : a.sequence = n
      <3> TAKE n \in S
      <3>1. [sequence |-> n, kind |-> k] \in ledger'
        BY Zenon
      <3> QED  BY <3>1, Zenon
    <2> QED  BY <1>1, <2>1 DEF Accounted
  <1>7. AccountedOnce'
    <2>1. \A a \in ledger' : \E p \in Publications : Records(p, a.sequence)'
      BY <1>5, Zenon
    <2> QED  BY <1>3, <2>1, Zenon DEF AccountedOnce, Records
  <1> QED  BY <1>6, <1>7, Zenon

\* A step that writes neither the ledger nor the journal, trims nothing and
\* ends no accounting.
LEMMA LedgerFramed ==
    ASSUME LedgerInv, UNCHANGED ledger, queue'.trim = queue.trim, owed \subseteq owed',
           \A p \in Publications : \A n : Records(p, n)' <=> Records(p, n),
           \A v \in Workers : worker[v].at = "account" =>
               worker'[v].at = "account" /\ worker'[v].bound = worker[v].bound
    PROVE  LedgerInv'
  <1>1. Accounted' = Accounted
    BY Zenon DEF Accounted
  <1>2. AccountedOnce'
    <2>1. \A a \in ledger' : \E p \in Publications : Records(p, a.sequence)'
      BY Zenon DEF LedgerInv, AccountedOnce
    <2> QED  BY <2>1, Zenon DEF LedgerInv, AccountedOnce, Records
  <1>3. TrimmedAccounted'
    BY <1>1, Zenon DEF LedgerInv, TrimmedAccounted
  <1> QED  BY <1>2, <1>3, Zenon DEF LedgerInv

LEMMA AccountingMoves ==
    ASSUME Base, NEW w \in Workers, NEW q, Moves(w, q), worker[w].at # "account"
    PROVE  \A v \in Workers : worker[v].at = "account" =>
               worker'[v].at = "account" /\ worker'[v].bound = worker[v].bound
  BY MovedAre, Zenon

LEMMA LedgerCalls ==
    ASSUME Base, LedgerInv, NEW w \in Workers,
           \/ Begins(w) \/ Reads(w) \/ SubscribeCommit(w) \/ PublishRow(w) \/ RebindChannelFence(w)
           \/ EnqueueEntry(w) \/ AckRelease(w) \/ CheckAttribution(w)
    PROVE  LedgerInv'
  <1>0. PICK r : r = worker[w] /\ Framed(r) /\ Fit(r, issued)
    BY Zenon DEF Base, Crew, Fit, Framed
  <1>1. UNCHANGED ledger /\ UNCHANGED owed
    <2>1. CASE Begins(w) \/ Reads(w)
      BY <2>1, CallBegins, Zenon DEF Begins, Reads, ReadLive, ReadRelease, ReadConsumed, ReadBound,
         ReadClamp,
         OnlyWorkers, topicVars, history
    <2>2. CASE SubscribeCommit(w) \/ PublishRow(w) \/ RebindChannelFence(w)
      BY <2>2, Zenon DEF SubscribeCommit, PublishRow, RebindChannelFence, history
    <2>3. CASE EnqueueEntry(w) \/ AckRelease(w) \/ CheckAttribution(w)
      BY <2>3, Zenon DEF EnqueueEntry, AckRelease, CheckAttribution, topicVars, history
    <2> QED  BY <2>1, <2>2, <2>3, Zenon
  <1>2. queue'.trim = queue.trim
    <2>1. CASE EnqueueEntry(w)
      <3>1. QueueInv /\ 1 \in Nat /\ Enqueue(r.id, r.bound, 1, None)
        BY <1>0, <2>1, Zenon DEF Base, EnqueueEntry
      <3> QED  BY <3>1, EnqueueWrites, Zenon
    <2>2. CASE AckRelease(w)
      <3>1. QueueInv /\ r.arg \in Nat /\ Ack(r.arg)
        BY <1>0, <2>2, Zenon DEF Base, AckRelease, Fit
      <3> QED  BY <3>1, AckWrites, Zenon
    <2>3. CASE Begins(w) \/ Reads(w)
      BY <2>3, CallBegins, Zenon DEF Begins, Reads, ReadLive, ReadRelease, ReadConsumed, ReadBound,
         ReadClamp,
         OnlyWorkers, channelVars
    <2>4. CASE SubscribeCommit(w) \/ PublishRow(w) \/ RebindChannelFence(w) \/ CheckAttribution(w)
      BY <2>4, Zenon DEF SubscribeCommit, PublishRow, RebindChannelFence, CheckAttribution, channelVars
    <2> QED  BY <2>1, <2>2, <2>3, <2>4, Zenon
  <1>3. \A p \in Publications : \A n : Records(p, n)' <=> Records(p, n)
    <2>1. CASE PublishRow(w)
      <3>1. /\ r.id \in Publications /\ r.arg \in {None} \cup (Publications \ {r.id})
        BY <1>0, <2>1, Zenon DEF PublishRow, Fit
      <3>2. CASE UNCHANGED pubs
        BY <3>2, Zenon DEF Records
      <3>3. CASE IsFresh(r.id) /\ ParentAdmits(r.arg) /\ InsertPending(r.id, r.arg)
        <4>1. /\ pubs[r.id].status = "none" /\ pubs'[r.id].status = "pending"
              /\ r.arg # None => pubs'[r.arg].status = pubs[r.arg].status
                                 /\ pubs'[r.arg].sequence = pubs[r.arg].sequence
              /\ \A q \in Publications \ {r.id, r.arg} : pubs'[q] = pubs[q]
          BY <3>1, <3>3, PendingIs, PubFields DEF IsFresh
        <4> QED  BY <4>1, TopicBoundAssumption, Zenon DEF Records
      <3> QED  BY <1>0, <2>1, <3>2, <3>3, WriteMoves, Zenon DEF Admits
    <2>2. CASE ~PublishRow(w)
      <3>1. UNCHANGED pubs
        BY <2>2, CallBegins, Zenon DEF Begins, Reads, ReadLive, ReadRelease, ReadConsumed, ReadBound,
           ReadClamp,
           SubscribeCommit, AckRelease, EnqueueEntry, RebindChannelFence, CheckAttribution, OnlyWorkers,
           topicVars
      <3> QED  BY <3>1, Zenon DEF Records
    <2> QED  BY <2>1, <2>2, Zenon
  <1>4. worker[w].at # "account" /\ \E q : Moves(w, q)
    <2>1. CASE Begins(w)
      BY <2>1, CallBegins, Zenon DEF Begins
    <2>2. CASE Reads(w)
      BY <1>0, <2>2, ReadMoves, Zenon DEF Reads, ReadLive, ReadRelease, ReadConsumed, ReadBound,
         ReadClamp
    <2>3. CASE PublishRow(w) \/ RebindChannelFence(w)
      BY <1>0, <2>3, WriteMoves, Zenon DEF PublishRow, RebindChannelFence
    <2>4. CASE AckRelease(w) \/ EnqueueEntry(w)
      BY <1>0, <2>4, WriteMoves, Zenon DEF AckRelease, EnqueueEntry
    <2>5. CASE SubscribeCommit(w) \/ CheckAttribution(w)
      BY <2>5, Zenon DEF SubscribeCommit, CheckAttribution, Alarm, Return, Moves
    <2> QED  BY <2>1, <2>2, <2>3, <2>4, <2>5, Zenon
  <1>5. \A v \in Workers : worker[v].at = "account" =>
               worker'[v].at = "account" /\ worker'[v].bound = worker[v].bound
    BY <1>4, AccountingMoves, Zenon
  <1> QED  BY <1>1, <1>2, <1>3, <1>5, LedgerFramed, Zenon

LEMMA LedgerChange ==
    ASSUME Base, LedgerInv, Changes \/ UNCHANGED vars
    PROVE  LedgerInv'
  <1>1. UNCHANGED <<queue, worker, ledger, owed, pubs>>
    BY Zenon DEF Changes, Unsubscribe, Reinstate, RechargeCredit, RotateChannel, Rotate, vars,
       channelVars,
       topicVars, history
  <1>2. \A p \in Publications : \A n : Records(p, n)' <=> Records(p, n)
    BY <1>1, Zenon DEF Records
  <1> QED  BY <1>1, <1>2, LedgerFramed, Zenon

LEMMA LedgerAdvance ==
    ASSUME Base, LedgerInv, NEW w \in Workers, AdvanceCommit(w)
    PROVE  LedgerInv'
  <1>1. /\ UNCHANGED <<queue, owed, pubs>> /\ Moves(w, Free) /\ worker[w].at = "advance"
    BY Zenon DEF AdvanceCommit, Alarm, Return, Moves, channelVars
  <1>2. \A p \in Publications : \A n : Records(p, n)' <=> Records(p, n)
    BY <1>1, Zenon DEF Records
  <1>3. \A v \in Workers : worker[v].at = "account" =>
               worker'[v].at = "account" /\ worker'[v].bound = worker[v].bound
    BY <1>1, AccountingMoves, Zenon
  <1>4. CASE UNCHANGED ledger
    BY <1>1, <1>2, <1>3, <1>4, LedgerFramed, Zenon
  <1>5. CASE ~UNCHANGED ledger
    <2>1. PICK S : /\ ledger' = ledger \cup [sequence : S, kind : {"attributed"}]
                   /\ \A n \in S : n \notin Accounted /\ \E p \in Publications : Records(p, n)
      <3>1. PICK S : /\ S = Crossed(subs[worker[w].id].cursor, worker[w].arg, worker[w].snapshot.trim)
                     /\ ledger' = ledger \cup [sequence : S, kind : {"attributed"}]
        BY <1>5, AdvanceIs, Zenon
      <3>2. \A n \in S : n \notin Accounted /\ \E p \in Publications : Records(p, n)
        BY <3>1, Zenon DEF Crossed, Enqueued, Records
      <3> QED  BY <3>1, <3>2, Zenon
    <2>2. AccountedOnce' /\ Accounted' = Accounted \cup S
      BY <1>2, <2>1, LedgerGrows, Zenon DEF LedgerInv
    <2>3. TrimmedAccounted'
      BY <1>1, <1>2, <1>3, <2>2, Zenon DEF LedgerInv, TrimmedAccounted
    <2> QED  BY <2>2, <2>3, Zenon DEF LedgerInv
  <1> QED  BY <1>4, <1>5, Zenon

LEMMA LedgerRecord ==
    ASSUME Base, LedgerInv, NEW w \in Workers, RecordUnallocated(w)
    PROVE  LedgerInv'
  <1>1. /\ UNCHANGED <<queue, pubs>> /\ Moves(w, Free) /\ worker[w].at = "account"
        /\ owed' = owed \ 1..worker[w].bound
        /\ ledger' = ledger \cup [sequence : Uncovered(worker[w].bound), kind : {"unallocated"}]
    BY Zenon DEF RecordUnallocated, Return, Moves, channelVars
  <1>2. \A p \in Publications : \A n : Records(p, n)' <=> Records(p, n)
    BY <1>1, Zenon DEF Records
  <1>3. \A v \in Workers \ {w} : worker'[v] = worker[v]
    BY <1>1, MovedAre, Zenon
  <1>4. PICK b, S : b = worker[w].bound /\ S = Uncovered(b)
    BY Zenon
  <1>5. \A n : n \in S <=> n \notin Accounted /\ \E p \in Publications : Records(p, n) /\ n <= b
    BY <1>4, UncoveredIs, Zenon
  <1>6. AccountedOnce' /\ Accounted' = Accounted \cup S
    BY <1>1, <1>2, <1>4, <1>5, LedgerGrows, Zenon DEF LedgerInv
  <1>7. TrimmedAccounted'
    <2> SUFFICES ASSUME NEW p \in Publications, NEW n \in Nat, Records(p, n)', n <= queue.trim,
                        n \notin owed', n \notin Accounted'
                 PROVE  \E v \in Workers : worker'[v].at = "account" /\ n <= worker'[v].bound
      BY <1>1, Zenon DEF TrimmedAccounted
    <2>1. Records(p, n) /\ n \notin Accounted /\ n \notin S
      BY <1>2, <1>6, Zenon
    <2>2. ~(n <= b) /\ n \notin owed
      <3>1. ~(n <= b)
        BY <1>5, <2>1, Zenon
      <3>2. b \in Nat /\ n \notin 1..b
        BY <1>1, <1>4, <3>1 DEF Base, Crew, Fit
      <3> QED  BY <1>1, <1>4, <3>1, <3>2, Zenon
    <2>3. PICK v \in Workers : worker[v].at = "account" /\ n <= worker[v].bound
      BY <2>1, <2>2, Zenon DEF LedgerInv, TrimmedAccounted
    <2>4. v # w
      BY <1>4, <2>2, <2>3, Zenon
    <2> QED  BY <1>3, <2>3, <2>4, Zenon
  <1> QED  BY <1>6, <1>7, Zenon DEF LedgerInv

LEMMA LedgerTrim ==
    ASSUME Base, LedgerInv, NEW w \in Workers, TrimChannel(w)
    PROVE  LedgerInv'
  <1>0. PICK r : r = worker[w] /\ Framed(r) /\ r.bound \in Nat /\ r.at = "trim"
    BY Zenon DEF Base, Crew, Fit, Framed, TrimChannel
  <1>1. PICK to \in 0..r.bound :
            /\ Compact(to)
            /\ IF CompactVerdict(to) = "invalid" THEN Moves(w, Free)
               ELSE Moves(w, Onward(r, "account", r.arg, TrimTarget(to), r.live))
    BY <1>0, WriteMoves, Zenon
  <1>2. UNCHANGED <<ledger, owed, pubs>> /\ to \in Nat /\ QueueInv
    BY <1>0 DEF TrimChannel, topicVars, history, Base
  <1>3. \A p \in Publications : \A n : Records(p, n)' <=> Records(p, n)
    BY <1>2, Zenon DEF Records
  <1>4. \A v \in Workers : worker[v].at = "account" =>
               worker'[v].at = "account" /\ worker'[v].bound = worker[v].bound
    BY <1>0, <1>1, AccountingMoves, Zenon
  <1>5. CASE CompactVerdict(to) # "trimmed"
    <2>1. UNCHANGED queue
      BY <1>1, <1>2, <1>5, CompactWrites, Zenon
    <2> QED  BY <1>2, <1>3, <1>4, <2>1, LedgerFramed, Zenon
  <1>6. CASE CompactVerdict(to) = "trimmed"
    <2>1. queue'.trim = TrimTarget(to)
      BY <1>1, <1>2, <1>6, CompactWrites, Zenon
    <2>2. worker'[w].at = "account" /\ worker'[w].bound = TrimTarget(to)
      <3>1. CompactVerdict(to) # "invalid"
        BY <1>6, Zenon
      <3>2. worker'[w] = Onward(r, "account", r.arg, TrimTarget(to), r.live)
        BY <1>1, <3>1, MovedAre, Zenon
      <3>3. /\ Onward(r, "account", r.arg, TrimTarget(to), r.live).at = "account"
            /\ Onward(r, "account", r.arg, TrimTarget(to), r.live).bound = TrimTarget(to)
        BY Zenon DEF Onward
      <3> QED  BY <3>2, <3>3, Zenon
    <2>3. TrimmedAccounted'
      BY <2>1, <2>2, Zenon DEF TrimmedAccounted
    <2>4. AccountedOnce'
      <3>1. \A a \in ledger' : \E p \in Publications : Records(p, a.sequence)'
        BY <1>2, <1>3, Zenon DEF LedgerInv, AccountedOnce
      <3> QED  BY <1>2, <3>1, Zenon DEF LedgerInv, AccountedOnce, Records
    <2> QED  BY <2>3, <2>4, Zenon DEF LedgerInv
  <1> QED  BY <1>5, <1>6, Zenon

\* The owner's own compact leaves owing what it trimmed unaccounted for.
LEMMA LedgerOwners ==
    ASSUME Base, LedgerInv, Owners
    PROVE  LedgerInv'
  <1>1. PICK n \in Nat : OwnerAck(n) \/ OwnerCompact(n)
    BY OwnerNames, Zenon
  <1>2. UNCHANGED <<ledger, pubs, worker>> /\ Accounted' = Accounted
    BY <1>1, Zenon DEF OwnerAck, OwnerCompact, topicVars, Accounted
  <1>3. \A p \in Publications : \A m : Records(p, m)' <=> Records(p, m)
    BY <1>2, Zenon DEF Records
  <1>4. CASE OwnerAck(n)
    <2>1. queue'.trim = queue.trim /\ UNCHANGED owed
      BY <1>4, AckWrites, Zenon DEF Base, OwnerAck
    <2> QED  BY <1>2, <1>3, <2>1, LedgerFramed, Zenon
  <1>5. CASE OwnerCompact(n)
    <2>1. PICK t \in Nat : t = TrimTarget(n) /\ queue'.trim = t
      BY <1>5, CompactWrites, Zenon DEF Base, OwnerCompact
    <2>2. owed' = owed \cup Uncovered(t)
      BY <1>5, <2>1, Zenon DEF OwnerCompact
    <2>3. TrimmedAccounted'
      <3> SUFFICES ASSUME NEW p \in Publications, NEW m \in Nat, Records(p, m)', m <= t,
                          m \notin owed', m \notin Accounted
                   PROVE  FALSE
        BY <1>2, <2>1, Zenon DEF TrimmedAccounted
      <3>1. m \in Uncovered(t)
        BY <1>3, UncoveredIs, Zenon
      <3> QED  BY <2>2, <3>1, Zenon
    <2>4. AccountedOnce'
      <3>1. \A a \in ledger' : \E p \in Publications : Records(p, a.sequence)'
        BY <1>2, <1>3, Zenon DEF LedgerInv, AccountedOnce
      <3> QED  BY <1>2, <3>1, Zenon DEF LedgerInv, AccountedOnce, Records
    <2> QED  BY <2>3, <2>4, Zenon DEF LedgerInv
  <1> QED  BY <1>1, <1>4, <1>5, Zenon

LEMMA LedgerCommit ==
    ASSUME Base, LedgerInv, NEW w \in Workers, PublishCommit(w)
    PROVE  LedgerInv'
  <1>0. PICK p, n : /\ p = worker[w].id /\ n = worker[w].bound /\ p \in Publications /\ n \in Nat
                    /\ worker[w].at = "commit"
    BY Zenon DEF Base, Crew, Fit, PublishCommit
  <1>1. UNCHANGED <<queue, ledger>> /\ Moves(w, Free)
    BY Zenon DEF PublishCommit, Return, Alarm, Moves, channelVars
  <1>2. \A v \in Workers : worker[v].at = "account" =>
               worker'[v].at = "account" /\ worker'[v].bound = worker[v].bound
    BY <1>0, <1>1, AccountingMoves, Zenon
  <1>3. CASE pubs[p].status # "pending"
    <2>1. UNCHANGED <<pubs, owed>>
      BY <1>0, <1>3, Zenon DEF PublishCommit
    <2>2. \A q \in Publications : \A m : Records(q, m)' <=> Records(q, m)
      BY <2>1, Zenon DEF Records
    <2> QED  BY <1>1, <1>2, <2>1, <2>2, LedgerFramed, Zenon
  <1>4. CASE pubs[p].status = "pending"
    <2>1. /\ \A q \in Publications \ {p} : pubs'[q] = pubs[q]
          /\ pubs'[p].status = "enqueued" /\ pubs'[p].sequence = n
          /\ owed' = IF n <= queue.trim THEN owed \cup {n} ELSE owed
      <3>1. pubs'[p] = PubOf("enqueued", n, pubs[p].parent, pubs[p].level, pubs[p].budget)
        BY <1>0, <1>4, CommitIs, Zenon
      <3>2. /\ \A q \in Publications \ {p} : pubs'[q] = pubs[q]
            /\ owed' = IF n <= queue.trim THEN owed \cup {n} ELSE owed
        BY <1>0, <1>4, CommitIs, Zenon
      <3>3. /\ PubOf("enqueued", n, pubs[p].parent, pubs[p].level, pubs[p].budget).status = "enqueued"
            /\ PubOf("enqueued", n, pubs[p].parent, pubs[p].level, pubs[p].budget).sequence = n
        BY Zenon DEF PubOf
      <3> QED  BY <3>1, <3>2, <3>3, Zenon
    <2>2. \A q \in Publications : \A m : Records(q, m)' <=> Records(q, m) \/ (q = p /\ m = n)
      BY <1>4, <2>1, Zenon DEF Records
    <2>3. Accounted' = Accounted
      BY <1>1, Zenon DEF Accounted
    <2>4. AccountedOnce'
      <3>1. \A a \in ledger' : \E q \in Publications : Records(q, a.sequence)'
        BY <1>1, <2>2, Zenon DEF LedgerInv, AccountedOnce
      <3> QED  BY <1>1, <3>1, Zenon DEF LedgerInv, AccountedOnce, Records
    <2>5. TrimmedAccounted'
      <3> SUFFICES ASSUME NEW q \in Publications, NEW m \in Nat, Records(q, m)', m <= queue.trim,
                          m \notin owed', m \notin Accounted
                   PROVE  \E v \in Workers : worker'[v].at = "account" /\ m <= worker'[v].bound
        BY <1>1, <2>3, Zenon DEF TrimmedAccounted
      <3>1. m # n /\ m \notin owed
        BY <2>1, Zenon
      <3>2. Records(q, m)
        BY <2>2, <3>1, Zenon
      <3> QED  BY <1>2, <3>1, <3>2, Zenon DEF LedgerInv, TrimmedAccounted
    <2> QED  BY <2>4, <2>5, Zenon DEF LedgerInv
  <1> QED  BY <1>3, <1>4, Zenon

LEMMA LedgerAbandon ==
    ASSUME Base, Marks, LedgerInv, NEW w \in Workers, Abandon(w)
    PROVE  LedgerInv'
  <1>1. /\ UNCHANGED <<queue, ledger, pubs>> /\ Moves(w, Free)
        /\ owed' = IF worker[w].at = "account" THEN owed \cup 1..worker[w].bound ELSE owed
    BY Zenon DEF Abandon, Return, Moves, channelVars, topicVars
  <1>2. \A p \in Publications : \A n : Records(p, n)' <=> Records(p, n)
    BY <1>1, Zenon DEF Records
  <1>3. CASE worker[w].at # "account"
    <2>1. \A v \in Workers : worker[v].at = "account" =>
               worker'[v].at = "account" /\ worker'[v].bound = worker[v].bound
      BY <1>1, <1>3, AccountingMoves, Zenon
    <2> QED  BY <1>1, <1>2, <1>3, <2>1, LedgerFramed, Zenon
  <1>4. CASE worker[w].at = "account"
    <2>1. PICK b \in Nat : b = worker[w].bound
      BY <1>4, Zenon DEF Base, Crew, Fit
    <2>2. \A v \in Workers \ {w} : worker'[v] = worker[v]
      BY <1>1, MovedAre, Zenon
    <2>3. Accounted' = Accounted
      BY <1>1, Zenon DEF Accounted
    <2>4. AccountedOnce'
      <3>1. \A a \in ledger' : \E q \in Publications : Records(q, a.sequence)'
        BY <1>1, <1>2, Zenon DEF LedgerInv, AccountedOnce
      <3> QED  BY <1>1, <3>1, Zenon DEF LedgerInv, AccountedOnce, Records
    <2>5. TrimmedAccounted'
      <3> SUFFICES ASSUME NEW q \in Publications, NEW m \in Nat, Records(q, m)', m <= queue.trim,
                          m \notin owed', m \notin Accounted
                   PROVE  \E v \in Workers : worker'[v].at = "account" /\ m <= worker'[v].bound
        BY <1>1, <2>3, Zenon DEF TrimmedAccounted
      <3>1. Records(q, m)
        BY <1>2, Zenon
      <3>2. m \in MarksOf(q)
        BY <3>1, MarkIs, Zenon
      <3>3. m \in 1..issued
        BY <3>2, Zenon DEF Marks
      <3>4. ~(m <= b) /\ m \notin owed
        BY <1>1, <1>4, <2>1, <3>3
      <3>5. PICK v \in Workers : worker[v].at = "account" /\ m <= worker[v].bound
        BY <3>1, <3>4, Zenon DEF LedgerInv, TrimmedAccounted
      <3>6. v # w
        BY <2>1, <3>4, <3>5, Zenon
      <3> QED  BY <2>2, <3>5, <3>6, Zenon
    <2> QED  BY <2>4, <2>5, Zenon DEF LedgerInv
  <1> QED  BY <1>3, <1>4, Zenon

LEMMA LedgerStart ==
    ASSUME Init
    PROVE  LedgerInv
  <1>1. \A p \in Publications : \A n : ~Records(p, n)
    BY Zenon DEF Init, NoPub, Records
  <1> QED  BY <1>1, Zenon DEF Init, LedgerInv, AccountedOnce, TrimmedAccounted

LEMMA LedgerNext ==
    ASSUME Base, Marks, LedgerInv, [Next]_vars
    PROVE  LedgerInv'
  BY LedgerChange, LedgerOwners, LedgerCalls, LedgerAdvance, LedgerRecord, LedgerTrim, LedgerCommit,
     LedgerAbandon, Steps, Zenon

-----------------------------------------------------------------------------
(* Theorems.                                                               *)

LEMMA MarksHold == Spec => []Marks
  BY MarksStart, MarksNext, BaseHolds, PTL DEF Spec

\* The journal matches the log: every completed publication has a sequence of
\* the log, no two have the same one, and no cursor is beyond its end
\* (publish, advance; nlos-topic).
THEOREM JournalKeepsTheLog == Spec => []JournalMatchesLog
  <1>1. Base /\ Marks => JournalMatchesLog
    <2> SUFFICES ASSUME Base, Marks
                 PROVE  JournalMatchesLog
      BY Zenon
    <2>1. MaxWritten = issued
      BY WrittenIsIssued, Zenon DEF Base, QueueInv
    <2>2. \A p \in Enqueued : p \in Publications /\ pubs[p].sequence \in MarksOf(p)
      BY Zenon DEF Enqueued, MarksOf
    <2> QED  BY <2>1, <2>2, Zenon DEF JournalMatchesLog, Marks, Base, Heads
  <1> QED  BY <1>1, BaseHolds, MarksHold, PTL

\* The topic never releases what a subscriber entitled to deliveries has yet to
\* consume: the release point a compaction computed stays below every cursor
\* until it is used, so the channel's consumption is ahead only of a subscriber
\* that joined or came back behind a compaction, or that the channel owner's own
\* ack passed, and of that one only until it has caught up (compact, advance,
\* reinstate, nlos-topic; ack, nlos-channel).
THEOREM EntitledStayAhead == Spec => []EntitledNotOvertaken
  <1>1. Spec => []Sheltered
    BY ShelterStart, ShelterNext, BaseHolds, PTL DEF Spec
  <1>2. Sheltered => EntitledNotOvertaken
    BY Zenon DEF Sheltered
  <1> QED  BY <1>1, <1>2, PTL

\* The delivery ledger accounts for the log: a sequence once, only sequences of
\* publications, and everything trimmed but what a compaction under way is about
\* to account for, or what one that was cut off, the channel owner's own compact
\* or a late row left owing and no compaction has accounted for since (advance,
\* compact, record_unallocated_prefix, nlos-topic; compact, nlos-channel).
THEOREM LedgerAlwaysAccounts == Spec => []LedgerAccounts
  <1>1. Spec => []LedgerInv
    BY LedgerStart, LedgerNext, BaseHolds, MarksHold, PTL DEF Spec
  <1> QED  BY <1>1, LedgerInvAccounts, BaseHolds, PTL

\* A publication is enqueued at most once while its entry, or the trimmed
\* prefix's keys, remember it; a second copy, and a conflict at its completion,
\* need a compaction in between (publish and the channel's idempotency keys).
THEOREM EnqueuedOnceHolds == Spec => []EnqueuedOnceWhileRetained
  <1>1. Base /\ Marks => EnqueuedOnceWhileRetained
    <2> SUFFICES ASSUME Base, Marks
                 PROVE  EnqueuedOnceWhileRetained
      BY Zenon
    <2>1. \A p \in Publications : copies[p] > 1 => queue.trim > 0
      BY Numbers DEF Marks, Base, Heads
    <2> QED  BY <2>1, Zenon DEF Marks, EnqueuedOnceWhileRetained
  <1> QED  BY <1>1, BaseHolds, MarksHold, PTL

=============================================================================
