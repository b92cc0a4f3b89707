----------------------------- MODULE TopicFanout -----------------------------
(***************************************************************************)
(* The Topic authority (nlos-topic) over its Channel: subscriptions with   *)
(* their cursors, publications and the cascade of republications, credit   *)
(* and retention admission, delivery-attempt billing with quarantine,      *)
(* compaction and the attribution ledger.                                  *)
(*                                                                         *)
(* Topic and Channel are two stores.  A call reads the Channel before its  *)
(* own transaction opens (verify-then-commit), or writes one store after   *)
(* the other; other calls run in between, on values that are stale by      *)
(* then, and a call may be cut off between any two steps.  A worker is one *)
(* such call; the calls that are one transaction have no worker.           *)
(*                                                                         *)
(* The owner of the Channel keeps its own rights to it: it rotates it, and *)
(* acknowledges and compacts it past the Topic (OwnerAck, OwnerCompact).   *)
(*                                                                         *)
(* Abstractions: one Topic on one Channel, and a republication goes to the *)
(* same Topic.  Every payload is one byte long and a key names one         *)
(* payload.  The retention clock is left out: a publication it rejects     *)
(* leaves no trace, as one that is abandoned.  Entries the owner enqueues  *)
(* past the Topic, which have no publication row, subscription patterns    *)
(* and rows of older schemas are not modelled.                             *)
(***************************************************************************)
EXTENDS ChannelQueue

CONSTANTS
  Workers,           \* concurrent calls
  Subscribers,       \* subscriber_key
  Publications,      \* publication idempotency keys
  None,              \* no parent, no cursor
  MaxRecipients,     \* TopicPolicy.max_recipients
  DeliveryAttempts,  \* TopicPolicy.delivery_attempts
  RetainedBytes,     \* TopicPolicy.retained_bytes
  CascadeDepth,      \* TopicPolicy.cascade_depth
  CreditUnits,       \* the balance the payer starts with
  RechargeKeys,      \* idempotency keys of recharge_credit
  MaxGeneration,     \* bound on Channel generations
  MaxCalls,          \* bound on worker calls
  MaxChanges         \* bound on single-transaction calls and abandoned ones

ASSUME TopicBoundAssumption ==
  /\ {MaxRecipients, DeliveryAttempts, RetainedBytes, CascadeDepth, CreditUnits,
      MaxGeneration, MaxCalls, MaxChanges} \subseteq Nat
  /\ DeliveryAttempts > 0
  /\ None \notin Publications

VARIABLES
  topic,      \* the head row: the bound fence and active_subscriptions
  subs,       \* topic_subscriptions
  pubs,       \* topic_publications
  ledger,     \* topic_attribution_ledger
  credit,     \* the payer's account: balance and the publications charged
  worker,     \* the calls under way
  copies,     \* history: entries ever enqueued under a publication key
  late,       \* history: subscribers that joined behind a compaction, or that
              \* the owner's own ack passed, until they catch up
  owed,       \* history: sequences a cut-off compaction, the owner's own or a
              \* late row left out, until a compaction accounts for them
  alarms,     \* history: what calls reported as CorruptRecord
  used        \* how much of each bound is used up

topicVars == <<topic, subs, pubs, ledger, credit>>
history == <<copies, late, owed, alarms>>
vars == <<channelVars, topicVars, worker, history, used>>

NoSub == [active |-> FALSE, state |-> "active", cursor |-> 0, billed |-> 0, generation |-> 0]
NoPub == [status |-> "none", sequence |-> 0, parent |-> None, level |-> 0, budget |-> 0]
NoSnapshot == [max |-> 0, consume |-> 0, trim |-> 0]
Free == [at |-> "free", id |-> None, arg |-> None, snapshot |-> NoSnapshot, bound |-> 0, live |-> 0]

Init ==
  /\ ChannelInit
  /\ topic = [generation |-> 1, active |-> 0]
  /\ subs = [s \in Subscribers |-> NoSub]
  /\ pubs = [p \in Publications |-> NoPub]
  /\ ledger = {}
  /\ credit = [balance |-> CreditUnits, charged |-> {}, recharges |-> {}]
  /\ worker = [w \in Workers |-> Free]
  /\ copies = [p \in Publications |-> 0]
  /\ late = {}
  /\ owed = {}
  /\ alarms = {}
  /\ used = [calls |-> 0, changes |-> 0]

TypeOK ==
  /\ subs \in [Subscribers -> [active : BOOLEAN, state : {"active", "quarantined"},
                               cursor : Nat, billed : Nat, generation : Nat]]
  /\ pubs \in [Publications -> [status : {"none", "pending", "enqueued"}, sequence : Nat,
                                parent : Publications \cup {None}, level : 0..CascadeDepth,
                                budget : 0..CascadeDepth]]
  /\ ledger \subseteq [sequence : Nat, kind : {"attributed", "unallocated"}]
  /\ credit.balance \in Nat /\ credit.charged \subseteq Publications
  /\ alarms \subseteq {"advance", "attribution", "commit", "rebind"}

\* inspect_queue.
QueueState == [max |-> MaxWritten, consume |-> queue.consume, trim |-> queue.trim]

Entitled == {s \in Subscribers : subs[s].active /\ subs[s].state = "active"}
CursorsOf(S) == {subs[s].cursor : s \in S}
Enqueued == {p \in Publications : pubs[p].status = "enqueued"}
Accounted == {row.sequence : row \in ledger}
Uncovered(to) ==
  {pubs[p].sequence : p \in {q \in Enqueued : pubs[q].sequence <= to}} \ Accounted
Children(p) == {q \in Publications : pubs[q].status # "none" /\ pubs[q].parent = p}

(***************************************************************************)
(* Faulty variants; no action uses them.                                   *)
(***************************************************************************)
\* The cursor minimum goes over the subscribers that are most advanced.
HighestCursor == IF Entitled = {} THEN None ELSE Max(CursorsOf(Entitled))

\* A publication that is resumed is admitted, and charged, again.
AdmitAgain(p) == pubs[p].status # "enqueued"

\* The attribution of an advance does not ask what is accounted already.
CrossedAnew(from, to, trim) ==
  {pubs[p].sequence : p \in {q \in Enqueued : pubs[q].sequence > from
                               /\ pubs[q].sequence <= to /\ pubs[q].sequence > trim}}

\* A subscriber starts at the sequence to come.
PointAtNext(snapshot) == snapshot.max + 1

-----------------------------------------------------------------------------
\* What a call knows of the queue as it begins: compact and inspect_attribution
\* read it only later.
SeenBy(step) == IF step \in {"subscribe", "row", "advance"} THEN QueueState ELSE NoSnapshot

Call(w, at) ==
  /\ worker[w].at = "free"
  /\ used.calls < MaxCalls
  /\ used' = [used EXCEPT !.calls = @ + 1]
  /\ worker' = [worker EXCEPT ![w] = [at EXCEPT !.snapshot = SeenBy(at.at)]]

Change ==
  /\ used.changes < MaxChanges
  /\ used' = [used EXCEPT !.changes = @ + 1]

Goto(w, at) == worker' = [worker EXCEPT ![w].at = at]
Return(w) == worker' = [worker EXCEPT ![w] = Free]

Alarm(w, what) == Return(w) /\ alarms' = alarms \cup {what}

\* A call is cut off, by an error or with its process.
Abandon(w) ==
  /\ worker[w].at # "free"
  /\ Change
  /\ Return(w)
  /\ owed' = IF worker[w].at = "account" THEN owed \cup 1..worker[w].bound ELSE owed
  /\ UNCHANGED <<channelVars, topicVars, copies, late, alarms>>

(***************************************************************************)
(* subscribe: the subscribe point is the high-water of a snapshot.         *)
(***************************************************************************)
Subscribe(w, s) ==
  /\ ~subs[s].active
  /\ Call(w, [Free EXCEPT !.at = "subscribe", !.id = s])
  /\ UNCHANGED <<channelVars, topicVars, history>>

SubscribePoint(snapshot) == snapshot.max

\* A compaction that has read its release point and not yet acknowledged it.
Releasing == {w \in Workers : worker[w].at \in {"release", "ack"}}

\* Taking up deliveries below what is, or is about to be, released.
JoinsLate(cursor) == cursor < queue.consume \/ Releasing # {}

SubscribeCommit(w) ==
  LET s == worker[w].id
      point == SubscribePoint(worker[w].snapshot) IN
  /\ worker[w].at = "subscribe"
  /\ IF subs[s].active \/ topic.active >= MaxRecipients
     THEN UNCHANGED <<topic, subs, late>>
     ELSE /\ subs' = [subs EXCEPT ![s] = [active |-> TRUE, state |-> "active", cursor |-> point,
                                          billed |-> 0, generation |-> @.generation + 1]]
          /\ topic' = [topic EXCEPT !.active = @ + 1]
          /\ late' = IF JoinsLate(point) THEN late \cup {s} ELSE late \ {s}
  /\ Return(w)
  /\ UNCHANGED <<channelVars, pubs, ledger, credit, copies, owed, alarms, used>>

Unsubscribe(s) ==
  /\ subs[s].active
  /\ Change
  /\ subs' = [subs EXCEPT ![s].active = FALSE]
  /\ topic' = [topic EXCEPT !.active = @ - 1]
  /\ UNCHANGED <<channelVars, pubs, ledger, credit, worker, history>>

Reinstated(s) == [subs[s] EXCEPT !.state = "active", !.billed = 0]

Reinstate(s) ==
  /\ subs[s].active
  /\ subs[s].state = "quarantined"
  /\ Change
  /\ subs' = [subs EXCEPT ![s] = Reinstated(s)]
  /\ late' = IF JoinsLate(subs[s].cursor) THEN late \cup {s} ELSE late \ {s}
  /\ UNCHANGED <<channelVars, topic, pubs, ledger, credit, worker, copies, owed, alarms>>

(***************************************************************************)
(* publish and republish: the durable PENDING row first, with everything   *)
(* it costs; then the entry; then the association of the two.              *)
(***************************************************************************)
Publish(w, p, parent) ==
  /\ Call(w, [Free EXCEPT !.at = "row", !.id = p, !.arg = parent])
  /\ UNCHANGED <<channelVars, topicVars, history>>

MinActiveCursor == IF Entitled = {} THEN None ELSE Min(CursorsOf(Entitled))

\* The point up to which cursor and consumption both release the log.
ReleasedTo(cursor, consume) == IF cursor = None THEN consume ELSE Min({cursor, consume})

\* check_retention_admission: only what the journal holds as enqueued counts.
RetentionAdmits(snapshot) ==
  LET from == Max({ReleasedTo(MinActiveCursor, snapshot.consume), snapshot.trim})
  IN  Cardinality({p \in Enqueued : pubs[p].sequence > from}) + 1 <= RetainedBytes

\* The parent of a republication: enqueued, not too deep, with budget left.
ParentAdmits(parent) ==
  parent # None =>
    /\ pubs[parent].status = "enqueued"
    /\ pubs[parent].level + 1 <= CascadeDepth
    /\ pubs[parent].budget > 0

Admits(w) ==
  /\ ParentAdmits(worker[w].arg)
  /\ RetentionAdmits(worker[w].snapshot)
  /\ credit.balance >= 1

\* No row under the key yet.
IsFresh(p) == pubs[p].status = "none"

\* An existing row is the caller's own: republish also compares the parent,
\* publish does not.
SameCall(p, parent) == parent = None \/ pubs[p].parent = parent

Charge(p) == credit' = [credit EXCEPT !.balance = @ - 1, !.charged = @ \cup {p}]

InsertPending(p, parent) ==
  pubs' = [q \in Publications |->
             CASE q = p -> [status |-> "pending", sequence |-> 0, parent |-> parent,
                            level |-> IF parent = None THEN 0 ELSE pubs[parent].level + 1,
                            budget |-> CascadeDepth]
               [] q = parent /\ q # p -> [pubs[q] EXCEPT !.budget = @ - 1]
               [] OTHER -> pubs[q]]

PublishRow(w) ==
  LET p == worker[w].id
      parent == worker[w].arg IN
  /\ worker[w].at = "row"
  /\ \/ /\ IsFresh(p)
        /\ Admits(w)
        /\ Charge(p)
        /\ InsertPending(p, parent)
        /\ worker' = [worker EXCEPT ![w].at = "enqueue", ![w].bound = topic.generation]
     \/ /\ IsFresh(p)
        /\ ~Admits(w)
        /\ Return(w)
        /\ UNCHANGED <<credit, pubs>>
     \/ /\ ~IsFresh(p)
        /\ SameCall(p, parent)
        /\ pubs[p].status = "pending"
        /\ worker' = [worker EXCEPT ![w].at = "live", ![w].live = topic.generation]
        /\ UNCHANGED <<credit, pubs>>
     \/ /\ ~IsFresh(p)
        /\ ~SameCall(p, parent) \/ pubs[p].status = "enqueued"
        /\ Return(w)
        /\ UNCHANGED <<credit, pubs>>
  /\ UNCHANGED <<channelVars, topic, subs, ledger, history, used>>

\* A resumed publication takes the live fence (bound), and the Topic is bound
\* to it by compare-and-set on the fence it was read with (live).
ReadLive(w) ==
  /\ worker[w].at = "live"
  /\ worker' = [worker EXCEPT ![w].at = "rebind", ![w].bound = channel.generation]
  /\ UNCHANGED <<channelVars, topicVars, history, used>>

RebindChannelFence(w) ==
  /\ worker[w].at = "rebind"
  /\ \/ /\ topic.generation = worker[w].live
        /\ topic' = [topic EXCEPT !.generation = worker[w].bound]
        /\ Goto(w, "enqueue")
        /\ UNCHANGED alarms
     \/ /\ topic.generation # worker[w].live
        /\ UNCHANGED topic
        /\ IF topic.generation = worker[w].bound
           THEN Goto(w, "enqueue") /\ UNCHANGED alarms
           ELSE Alarm(w, "rebind")
  /\ UNCHANGED <<channelVars, subs, pubs, ledger, credit, copies, late, owed, used>>

EnqueueEntry(w) ==
  LET p == worker[w].id
      verdict == EnqueueVerdict(p, worker[w].bound, 1, None) IN
  /\ worker[w].at = "enqueue"
  /\ EnqueuedAt(p) <= MaxSequence
  /\ Enqueue(p, worker[w].bound, 1, None)
  /\ copies' = IF verdict = "enqueued" THEN [copies EXCEPT ![p] = @ + 1] ELSE copies
  /\ IF verdict \in {"enqueued", "replayed"}
     THEN worker' = [worker EXCEPT ![w].at = "commit", ![w].bound = EnqueuedAt(p)]
     ELSE Return(w)
  /\ UNCHANGED <<topicVars, late, owed, alarms, used>>

\* Billing: one attempt for every entitled subscriber that lags; the last one
\* quarantines it.
Billed(sequence) ==
  [s \in Subscribers |->
     IF s \in Entitled /\ subs[s].cursor < sequence - 1
     THEN [subs[s] EXCEPT !.billed = @ + 1,
                          !.state = IF subs[s].billed + 1 >= DeliveryAttempts
                                    THEN "quarantined" ELSE @]
     ELSE subs[s]]

PublishCommit(w) ==
  LET p == worker[w].id
      sequence == worker[w].bound IN
  /\ worker[w].at = "commit"
  /\ \/ /\ pubs[p].status = "pending"
        /\ pubs' = [pubs EXCEPT ![p].status = "enqueued", ![p].sequence = sequence]
        /\ subs' = Billed(sequence)
        /\ owed' = IF sequence <= queue.trim THEN owed \cup {sequence} ELSE owed
        /\ Return(w)
        /\ UNCHANGED alarms
     \/ /\ pubs[p].status = "enqueued"
        /\ IF pubs[p].sequence = sequence
           THEN Return(w) /\ UNCHANGED alarms
           ELSE Alarm(w, "commit")
        /\ UNCHANGED <<pubs, subs, owed>>
  /\ UNCHANGED <<channelVars, topic, ledger, credit, copies, late, used>>

(***************************************************************************)
(* advance: the cursor moves within a snapshot, and what it crosses is     *)
(* attributed in the same transaction.                                     *)
(***************************************************************************)
\* Called by a holder of the subscription, with its consume token or without.
Advance(w, s, upTo) ==
  /\ subs[s].active
  /\ \E token \in {None, subs[s].generation} :
       Call(w, [Free EXCEPT !.at = "advance", !.id = s, !.arg = upTo, !.live = token])
  /\ UNCHANGED <<channelVars, topicVars, history>>

Crossed(from, to, trim) ==
  {pubs[p].sequence : p \in {q \in Enqueued : pubs[q].sequence > from
                               /\ pubs[q].sequence <= to /\ pubs[q].sequence > trim}} \ Accounted

AdvanceCommit(w) ==
  LET s == worker[w].id
      upTo == worker[w].arg
      snapshot == worker[w].snapshot
      current == subs[s].active /\ worker[w].live \in {None, subs[s].generation} IN
  /\ worker[w].at = "advance"
  /\ \/ /\ current
        /\ subs[s].cursor > snapshot.max
        /\ Alarm(w, "advance")
        /\ UNCHANGED <<subs, ledger, late>>
     \/ /\ current
        /\ subs[s].cursor < upTo /\ upTo <= snapshot.max
        /\ subs' = [subs EXCEPT ![s].cursor = upTo]
        /\ ledger' = ledger \cup [sequence : Crossed(subs[s].cursor, upTo, snapshot.trim),
                                  kind : {"attributed"}]
        /\ late' = IF JoinsLate(upTo) THEN late ELSE late \ {s}
        /\ Return(w)
        /\ UNCHANGED alarms
     \/ /\ current => subs[s].cursor <= snapshot.max /\ (upTo <= subs[s].cursor \/ upTo > snapshot.max)
        /\ Return(w)
        /\ UNCHANGED <<subs, ledger, alarms, late>>
  /\ UNCHANGED <<channelVars, topic, pubs, credit, copies, owed, used>>

(***************************************************************************)
(* compact: acknowledge what every entitled subscriber has consumed, trim  *)
(* up to the caller's sequence within that, and account for what was       *)
(* trimmed unattributed.  Each reads one store after the other.            *)
(***************************************************************************)
CompactTopic(w) ==
  /\ Call(w, [Free EXCEPT !.at = "minimum"])
  /\ UNCHANGED <<channelVars, topicVars, history>>

\* advance_consume_high_water: the release point, then whether it is new.
ReadRelease(w) ==
  /\ worker[w].at = "minimum"
  /\ worker' = [worker EXCEPT ![w].at = IF MinActiveCursor = None THEN "bound" ELSE "release",
                              ![w].arg = MinActiveCursor]
  /\ UNCHANGED <<channelVars, topicVars, history, used>>

ReadConsumed(w) ==
  /\ worker[w].at = "release"
  /\ Goto(w, IF worker[w].arg <= queue.consume THEN "bound" ELSE "ack")
  /\ UNCHANGED <<channelVars, topicVars, history, used>>

AckRelease(w) ==
  /\ worker[w].at = "ack"
  /\ Ack(worker[w].arg)
  /\ IF AckVerdict(worker[w].arg) = "invalid" THEN Return(w) ELSE Goto(w, "bound")
  /\ UNCHANGED <<topicVars, history, used>>

\* compact_bound: the cursor minimum, then the consume high-water.
ReadBound(w) ==
  /\ worker[w].at = "bound"
  /\ worker' = [worker EXCEPT ![w].at = "clamp", ![w].arg = MinActiveCursor]
  /\ UNCHANGED <<channelVars, topicVars, history, used>>

ReadClamp(w) ==
  /\ worker[w].at = "clamp"
  /\ worker' = [worker EXCEPT ![w].at = "trim",
                              ![w].bound = ReleasedTo(worker[w].arg, queue.consume)]
  /\ UNCHANGED <<channelVars, topicVars, history, used>>

\* The caller asks for as much as it likes; no more than the bound is trimmed.
TrimChannel(w) ==
  /\ worker[w].at = "trim"
  /\ \E to \in 0..worker[w].bound :
       /\ Compact(to)
       /\ IF CompactVerdict(to) = "invalid" THEN Return(w)
          ELSE worker' = [worker EXCEPT ![w].at = "account", ![w].bound = TrimTarget(to)]
  /\ UNCHANGED <<topicVars, history, used>>

RecordUnallocated(w) ==
  /\ worker[w].at = "account"
  /\ ledger' = ledger \cup [sequence : Uncovered(worker[w].bound), kind : {"unallocated"}]
  /\ owed' = owed \ 1..worker[w].bound
  /\ Return(w)
  /\ UNCHANGED <<channelVars, topic, subs, pubs, credit, copies, late, alarms, used>>

(***************************************************************************)
(* inspect_attribution: journal and ledger in one read, the trim watermark *)
(* in a later one; what is trimmed must be accounted for.                  *)
(***************************************************************************)
InspectAttribution(w) ==
  /\ Call(w, [Free EXCEPT !.at = "inspect", !.arg = Uncovered(MaxSequence)])
  /\ UNCHANGED <<channelVars, topicVars, history>>

CheckAttribution(w) ==
  /\ worker[w].at = "inspect"
  /\ IF \E n \in worker[w].arg : n <= queue.trim
     THEN Alarm(w, "attribution")
     ELSE Return(w) /\ UNCHANGED alarms
  /\ UNCHANGED <<channelVars, topicVars, copies, late, owed, used>>

RechargeCredit(k) ==
  /\ k \notin credit.recharges
  /\ Change
  /\ credit' = [credit EXCEPT !.balance = @ + 1, !.recharges = @ \cup {k}]
  /\ UNCHANGED <<channelVars, topic, subs, pubs, ledger, worker, history>>

\* rotate_channel, by the owner of the Channel.
RotateChannel ==
  /\ channel.generation < MaxGeneration
  /\ Change
  /\ Rotate(channel.generation, channel.generation)
  /\ UNCHANGED <<topicVars, worker, history>>

\* ack and compact, called by the owner of the Channel: no cursor is asked and
\* nothing is accounted for.
OwnerAck(n) ==
  /\ AckVerdict(n) = "advanced"
  /\ Change
  /\ Ack(n)
  /\ late' = late \cup {s \in Entitled : subs[s].cursor < n}
  /\ UNCHANGED <<topicVars, worker, copies, owed, alarms>>

OwnerCompact(n) ==
  /\ CompactVerdict(n) = "trimmed"
  /\ Change
  /\ Compact(n)
  /\ owed' = owed \cup Uncovered(TrimTarget(n))
  /\ UNCHANGED <<topicVars, worker, copies, late, alarms>>

WorkerStep(w) ==
  \/ SubscribeCommit(w)
  \/ PublishRow(w) \/ ReadLive(w) \/ RebindChannelFence(w) \/ EnqueueEntry(w) \/ PublishCommit(w)
  \/ AdvanceCommit(w)
  \/ ReadRelease(w) \/ ReadConsumed(w) \/ AckRelease(w) \/ ReadBound(w) \/ ReadClamp(w)
  \/ TrimChannel(w) \/ RecordUnallocated(w)
  \/ CheckAttribution(w)

Next ==
  \/ \E w \in Workers : WorkerStep(w) \/ Abandon(w) \/ CompactTopic(w) \/ InspectAttribution(w)
  \/ \E w \in Workers, s \in Subscribers : Subscribe(w, s) \/ \E n \in 1..MaxWritten : Advance(w, s, n)
  \/ \E w \in Workers, p \in Publications :
       \E parent \in {None} \cup (Publications \ {p}) : Publish(w, p, parent)
  \/ \E s \in Subscribers : Unsubscribe(s) \/ Reinstate(s)
  \/ \E k \in RechargeKeys : RechargeCredit(k)
  \/ RotateChannel
  \/ \E n \in 1..MaxWritten : OwnerAck(n) \/ OwnerCompact(n)

Spec == Init /\ [][Next]_vars

-----------------------------------------------------------------------------
(* Properties.                                                             *)

\* The journal agrees with the log: an enqueued publication has a sequence the
\* Channel has issued, no two share one, and no cursor is ahead of the log,
\* although cursors come from snapshots and sequences from earlier steps.
JournalMatchesLog ==
  /\ \A p \in Enqueued : pubs[p].sequence \in 1..MaxWritten
  /\ \A p, q \in Enqueued : pubs[p].sequence = pubs[q].sequence => p = q
  /\ \A s \in Subscribers : subs[s].cursor <= MaxWritten

\* The books balance over every replay and every resumed call: each
\* publication row was charged once, the budget of a parent is short by its
\* children exactly, and the subscription counter counts the active rows,
\* within max_recipients (what inspect_publication, the credit audit and
\* load_topic_verified recompute), and a subscriber is quarantined exactly when
\* the attempts billed to it are used up.
BooksBalance ==
  /\ TypeOK
  /\ credit.charged = {p \in Publications : pubs[p].status # "none"}
  /\ credit.balance + Cardinality(credit.charged) = CreditUnits + Cardinality(credit.recharges)
  /\ \A p \in Publications : pubs[p].status # "none" =>
       pubs[p].budget = CascadeDepth - Cardinality(Children(p))
  /\ topic.active = Cardinality({s \in Subscribers : subs[s].active})
  /\ topic.active <= MaxRecipients
  /\ \A s \in Subscribers : subs[s].state = "quarantined" <=> subs[s].billed >= DeliveryAttempts

\* The Topic's compactions never move consumption past a subscriber that is
\* entitled to deliveries (the release point is the minimum of the cursors,
\* and cursors only grow).  Behind the consumption is only one that took up
\* deliveries under a compaction already under way or done, or that the
\* owner's own ack passed, and only until it has caught up (poll answers
\* CursorBehindChannelConsumption meanwhile).
EntitledNotOvertaken ==
  \A s \in Entitled \ late : subs[s].cursor >= queue.consume

\* The ledger accounts for the log: a sequence is accounted once, it belongs to
\* a publication, and everything trimmed is accounted for, except under a
\* compaction that has trimmed and not yet accounted, what one that was cut off
\* there left behind, a publication whose row was completed only after its
\* entry was trimmed, and what the owner compacted past the Topic (which
\* inspect_attribution reports as corrupt); the next compaction that reaches
\* as far makes good for all of them (record_unallocated_prefix).
LedgerAccounts ==
  /\ \A a, b \in ledger : a.sequence = b.sequence => a = b
  /\ Accounted \subseteq {pubs[p].sequence : p \in Enqueued}
  /\ \A n \in Uncovered(queue.trim) \ owed :
       \E w \in Workers : worker[w].at = "account" /\ n <= worker[w].bound

\* A key is enqueued a second time only when its first entry, keys and all,
\* was compacted away; so two calls for one key that both reach the Channel
\* disagree on the sequence only then.
EnqueuedOnceWhileRetained ==
  /\ \A a, b \in Live : queue.entries[a].key = queue.entries[b].key => a = b
  /\ \A p \in Publications : copies[p] > 1 => queue.trim > 0
  /\ "commit" \in alarms => \E p \in Publications : copies[p] > 1

=============================================================================
