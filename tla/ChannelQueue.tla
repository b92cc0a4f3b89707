---------------------------- MODULE ChannelQueue ----------------------------
(***************************************************************************)
(* The Channel authority (nlos-channel): one durable Channel with its      *)
(* generation fence, the byte-bounded FIFO behind it and the two           *)
(* watermarks over the FIFO (consumed and trimmed).  Every method is one   *)
(* Immediate transaction, so every operation is one step.                  *)
(*                                                                         *)
(* The authorities built on the Channel (nlos-wait, nlos-topic, the        *)
(* runtime) call these operations between steps of their own; their        *)
(* modules extend this one.  An operation is given by the verdict the code *)
(* reaches, which the caller sees, and by the step that applies it.        *)
(*                                                                         *)
(* Abstractions: the fencing token is derived from the generation, so the  *)
(* generation stands for both.  A payload is its length in bytes, and two  *)
(* payloads of one length are equal.  Timestamps are left out; receive     *)
(* writes nothing, and the consumption ledger is read by nobody modelled.  *)
(***************************************************************************)
EXTENDS Integers, FiniteSets, FiniteSetsExt, Functions

CONSTANTS
  CapacityBytes,   \* capacity_bytes of the Channel
  MaxSequence      \* bound on the sequences the model issues

ASSUME CapacityAssumption == CapacityBytes \in Nat \ {0}

VARIABLES
  channel,     \* the head row: generation, and the rotation receipts by key
  queue,       \* the live entries by sequence, watermarks and byte counters
  issued       \* history: the highest sequence ever written

channelVars == <<channel, queue, issued>>

NoEntries == [s \in {} |-> {}]

\* create_channel, on an empty store.
ChannelInit ==
  /\ channel = [generation |-> 1, rotations |-> NoEntries]
  /\ queue = [entries |-> NoEntries, consume |-> 0, trim |-> 0, backlog |-> 0, retained |-> 0]
  /\ issued = 0

Live == DOMAIN queue.entries
MaxLiveSequence == IF Live = {} THEN 0 ELSE Max(Live)

\* QueueState.max_sequence of inspect_queue, which is also the sequence that
\* enqueue and ack take for the durable maximum.
MaxWritten == Max({MaxLiveSequence, queue.consume})

\* The bytes of a set of entries, counted by entry and offset.
BytesOf(S) == Cardinality(UNION {{s} \X (1..queue.entries[s].bytes) : s \in S})

(***************************************************************************)
(* Faulty variants of the operators below, one per plausible slip in the   *)
(* code; no action uses them.                                              *)
(***************************************************************************)
\* The next sequence is taken from the live entries alone.
NextFromLive == MaxLiveSequence + 1

\* A consumed entry is no longer found under its key.
UnconsumedUnder(key) == {s \in Live : queue.entries[s].key = key /\ s > queue.consume}

-----------------------------------------------------------------------------
(* rotate_channel: the compare-and-set on generation and fence.            *)
RotateVerdict(key, expected) ==
  CASE key \in DOMAIN channel.rotations ->
         IF channel.rotations[key].expected = expected THEN "replayed" ELSE "conflict"
    [] key \notin DOMAIN channel.rotations /\ channel.generation # expected -> "stale"
    [] OTHER -> "rotated"

Rotate(key, expected) ==
  /\ channel' =
       IF RotateVerdict(key, expected) = "rotated"
       THEN [generation |-> channel.generation + 1,
             rotations |-> [k \in DOMAIN channel.rotations \cup {key} |->
                              IF k = key THEN [expected |-> expected,
                                               resulting |-> channel.generation + 1]
                              ELSE channel.rotations[k]]]
       ELSE channel
  /\ UNCHANGED <<queue, issued>>

-----------------------------------------------------------------------------
\* load_entry_by_key: the keys live and die with their entries.
EntriesUnder(key) == {s \in Live : queue.entries[s].key = key}

(* enqueue and enqueue_registered: the key is looked up before the fence,  *)
(* so a replay answers with the stored entry whatever happened since.      *)
SameRequest(s, generation, bytes, producer) ==
  /\ queue.entries[s].generation = generation
  /\ queue.entries[s].bytes = bytes
  /\ queue.entries[s].producer = producer

EnqueueVerdict(key, generation, bytes, producer) ==
  CASE EntriesUnder(key) # {} ->
         IF \A s \in EntriesUnder(key) : SameRequest(s, generation, bytes, producer)
         THEN "replayed" ELSE "conflict"
    [] EntriesUnder(key) = {} /\ generation # channel.generation -> "stale"
    [] EntriesUnder(key) = {} /\ generation = channel.generation
       /\ queue.backlog + bytes > CapacityBytes -> "full"
    [] OTHER -> "enqueued"

NextSequence == MaxWritten + 1

\* The sequence a successful call returns.
EnqueuedAt(key) ==
  IF EntriesUnder(key) # {} THEN CHOOSE s \in EntriesUnder(key) : TRUE ELSE NextSequence

Enqueue(key, generation, bytes, producer) ==
  LET s == NextSequence IN
  /\ queue' =
       IF EnqueueVerdict(key, generation, bytes, producer) = "enqueued"
       THEN [queue EXCEPT
               !.entries = [t \in Live \cup {s} |->
                              IF t = s THEN [key |-> key, generation |-> channel.generation,
                                             bytes |-> bytes, producer |-> producer]
                              ELSE queue.entries[t]],
               !.backlog = @ + bytes,
               !.retained = @ + bytes]
       ELSE queue
  /\ issued' = IF EnqueueVerdict(key, generation, bytes, producer) = "enqueued"
               THEN s ELSE issued
  /\ UNCHANGED channel

-----------------------------------------------------------------------------
(* ack: cumulative, monotone, never past the durable maximum.              *)
AckVerdict(upTo) ==
  CASE upTo = queue.consume -> "replayed"
    [] upTo < queue.consume \/ upTo > MaxWritten -> "invalid"
    [] OTHER -> "advanced"

Confirmed(upTo) == BytesOf({s \in Live : s > queue.consume /\ s <= upTo})

Ack(upTo) ==
  /\ queue' = IF AckVerdict(upTo) = "advanced"
              THEN [queue EXCEPT !.consume = upTo, !.backlog = @ - Confirmed(upTo)]
              ELSE queue
  /\ UNCHANGED <<channel, issued>>

-----------------------------------------------------------------------------
(* compact: releases consumed entries, and with them their keys.           *)
TrimTarget(to) == Min({to, queue.consume})

CompactVerdict(to) ==
  CASE TrimTarget(to) = queue.trim -> "replayed"
    [] TrimTarget(to) < queue.trim -> "invalid"
    [] OTHER -> "trimmed"

Released(to) == {s \in Live : s > queue.trim /\ s <= TrimTarget(to)}

Compact(to) ==
  /\ queue' = IF CompactVerdict(to) = "trimmed"
              THEN [queue EXCEPT
                      !.entries = Restrict(@, {s \in Live : s > TrimTarget(to)}),
                      !.trim = TrimTarget(to),
                      !.retained = @ - BytesOf(Released(to))]
              ELSE queue
  /\ UNCHANGED <<channel, issued>>

-----------------------------------------------------------------------------
(* What the authority checks of itself and promises.                       *)

\* verify_queue_state, run by every receive and every inspect_queue.
QueueVerifies ==
  /\ queue.trim <= queue.consume
  /\ Live # {} => /\ Live = queue.trim + 1 .. MaxLiveSequence
                  /\ MaxLiveSequence >= queue.consume
  /\ queue.backlog = BytesOf({s \in Live : s > queue.consume})
  /\ queue.retained = BytesOf(Live)

\* The queue verifies itself and never holds more unconsumed bytes than its
\* capacity, and a sequence is issued once: no interleaving of enqueue, ack,
\* compact and rotate makes verify_queue_state answer CorruptRecord, and the
\* next entry lies above every entry ever written, trimmed ones included.
QueueSound ==
  /\ QueueVerifies
  /\ queue.backlog \in 0..CapacityBytes
  /\ MaxWritten = issued

=============================================================================
