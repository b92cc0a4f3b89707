---------------------------- MODULE ConsensusCore ----------------------------
(***************************************************************************)
(* The Raft control plane: the transition function ConsensusCore::step     *)
(* (nlos-consensus/src/core.rs) on every voter, run by the driver          *)
(* (net_driver.rs) that commits the durable effects of a step to SQLite    *)
(* before any message leaves (store.rs, apply_durable_effects).            *)
(*                                                                         *)
(* One outbound worker per peer holds at most one call in flight: lane     *)
(* [i][j] is the call from i to j at its head, a request until j handled   *)
(* it and the reply afterwards, with the messages waiting behind it.  A    *)
(* call can fail at any point; a request that timed out may still arrive,  *)
(* and its reply goes nowhere.  A restart keeps what SQLite holds.         *)
(*                                                                         *)
(* Abstractions: every voter is its own control domain (the roster         *)
(* enforces it) and a voter set has at least three members.  A proposal is *)
(* the term it was proposed in, which with its index identifies it.  log   *)
(* keeps the compacted prefix, which stands for the state machine encoded  *)
(* in the snapshot; the code below looks at it only where snapshot_meta    *)
(* does.  A snapshot is transferred in Chunks pieces.  known_leader and    *)
(* ticks_since_leader_contact are abstracted to contact: no known leader,  *)
(* one heard of within the lease ticks, or one that has lapsed.  Quorum    *)
(* rounds without a waiting read only renew the leader lease, which        *)
(* nothing reads: the one round kept is that of the read.  granted is      *)
(* pre_votes_granted_domains of a PreCandidate and votes_granted_domains   *)
(* of a Candidate.  next and match are reset when a leader steps down,     *)
(* where the code keeps them, unread, until the next election.             *)
(***************************************************************************)
EXTENDS Integers, Sequences, FiniteSets

CONSTANTS
  Voter,       \* the roster
  None,
  Chunks,      \* InstallSnapshotChunk messages per snapshot
  Pipelined,   \* whether proposals arrive while replication calls are in flight
  Compacts,    \* whether snapshots are taken
  LaneCap,     \* bound: calls in flight or waiting, per peer
  Incumbent,   \* the leader the first election chose, or None for a cold start
  Reads,       \* whether linearizable reads are requested
  Contenders,  \* bound: voters whose election timer expires
  MaxElections,\* bound: expiries of an election timer
  MaxLog,      \* bound: log length
  MaxEvents    \* bound: heartbeat ticks, failed calls, timeouts and restarts

ASSUME ConsensusAssumption ==
  /\ IsFiniteSet(Voter)
  /\ None \notin Voter
  /\ {Chunks, LaneCap} \subseteq Nat \ {0}
  /\ {MaxElections, MaxLog, MaxEvents} \subseteq Nat
  /\ Contenders \subseteq Voter
  /\ {Pipelined, Compacts, Reads} \subseteq BOOLEAN
  /\ Incumbent \in Voter \union {None}

VARIABLES
  node,      \* the ConsensusCore of each voter
  lane,      \* the outbound worker of each voter for each peer
  late,      \* requests whose caller gave up on them
  used,      \* how much of each bound is used up
  elected,   \* history: who became leader in which term
  receipts,  \* history: the ConsensusCommitReceipts handed to proposers
  served     \* history: the last confirmed read, with what it had to cover

vars == <<node, lane, late, used, elected, receipts, served>>

Quorum(S) == 2 * Cardinality(S) > Cardinality(Voter)
Larger(a, b) == IF a > b THEN a ELSE b
Smaller(a, b) == IF a < b THEN a ELSE b
NoTerm == -1

Genesis ==
  [role |-> "Follower", term |-> 0, voted |-> None, contact |-> "none",
   log |-> <<>>, base |-> 0, commit |-> 0, granted |-> {},
   next |-> [v \in Voter |-> 1], match |-> [v \in Voter |-> 0],
   offset |-> [v \in Voter |-> 0], staging |-> None, read |-> None]

LastIndex(n) == Len(n.log)
LastTerm(n) == IF n.log = <<>> THEN 0 ELSE n.log[Len(n.log)]

TermAt(n, k) ==
  IF k = 0 THEN 0
  ELSE IF k >= n.base /\ k <= LastIndex(n) THEN n.log[k] ELSE NoTerm

(* Mutant: the candidate's log is not compared with the voter's.            *)
AnyLogWins(m, n) == m.lastIndex >= 0

UpToDate(m, n) ==
  \/ m.lastTerm > LastTerm(n)
  \/ m.lastTerm = LastTerm(n) /\ m.lastIndex >= LastIndex(n)

(***************************************************************************)
(* What a step hands to the driver: the new core, the messages to send,    *)
(* one per peer at most, and the index of a confirmed read.                *)
(***************************************************************************)
NoMessages == [v \in Voter |-> None]
Quiet(n) == [core |-> n, out |-> NoMessages, confirmed |-> None]
To(n, j, m) == [Quiet(n) EXCEPT !.out[j] = m]
Broadcast(n, i, messages) == [Quiet(n) EXCEPT !.out = [messages EXCEPT ![i] = None]]

step_down_to_higher_term(n, t) ==
  [n EXCEPT !.term = t, !.role = "Follower", !.voted = None, !.contact = "none",
            !.granted = {}, !.read = None, !.next = Genesis.next,
            !.match = Genesis.match, !.offset = Genesis.offset]

AdoptTerm(n, t) == IF t > n.term THEN step_down_to_higher_term(n, t) ELSE n

(* round tells the messages of the read's own quorum round.  An offset at  *)
(* the end of the snapshot yields an empty last chunk.                     *)
build_replication_for_peer(n, j, round) ==
  LET k == Larger(n.next[j], 1) IN
  IF k <= n.base
  THEN [type |-> "Snapshot", term |-> n.term, prefix |-> SubSeq(n.log, 1, n.base),
        offset |-> n.offset[j], end |-> Smaller(n.offset[j] + 1, Chunks)]
  ELSE [type |-> "Append", term |-> n.term, prev |-> k - 1,
        prevTerm |-> Larger(TermAt(n, k - 1), 0),
        entries |-> SubSeq(n.log, k, LastIndex(n)), commit |-> n.commit,
        round |-> round]

broadcast_replication_or_heartbeat(n, i, round) ==
  Broadcast(n, i, [v \in Voter |-> build_replication_for_peer(n, v, round)])

-----------------------------------------------------------------------------
(* Elections                                                                *)

start_pre_vote(n, i) ==
  LET c == [n EXCEPT !.role = "PreCandidate", !.contact = "none",
                     !.granted = {i}] IN
  Broadcast(c, i, [v \in Voter |-> [type |-> "PreVote", term |-> c.term + 1,
                                    lastIndex |-> LastIndex(c), lastTerm |-> LastTerm(c)]])

start_real_election(n, i) ==
  LET c == [n EXCEPT !.term = @ + 1, !.role = "Candidate", !.voted = i,
                     !.contact = "none", !.granted = {i},
                     !.read = None] IN
  Broadcast(c, i, [v \in Voter |-> [type |-> "Vote", term |-> c.term,
                                    lastIndex |-> LastIndex(c), lastTerm |-> LastTerm(c)]])

become_leader(n, i) ==
  LET l == [n EXCEPT !.role = "Leader", !.contact = "live", !.granted = {},
                     !.next = [v \in Voter |-> LastIndex(n) + 1],
                     !.match = [v \in Voter |-> IF v = i THEN LastIndex(n) ELSE 0],
                     !.offset = Genesis.offset] IN
  broadcast_replication_or_heartbeat(l, i, FALSE)

HeardLiveLeader(n) == n.role = "Leader" \/ n.contact = "live"

on_request_pre_vote(n, i, j, m) ==
  To(n, j, [type |-> "PreVoteReply", term |-> n.term, prospective |-> m.term,
            granted |-> m.term > n.term /\ ~HeardLiveLeader(n) /\ UpToDate(m, n)])

(* A PreCandidate's prospective term is always its current term plus one.   *)
on_request_pre_vote_response(n, i, j, m) ==
  IF m.term > n.term THEN Quiet(step_down_to_higher_term(n, m.term))
  ELSE IF n.role # "PreCandidate" \/ m.prospective # n.term + 1 THEN Quiet(n)
  ELSE LET g == IF m.granted THEN n.granted \union {j} ELSE n.granted IN
       IF Quorum(g) THEN start_real_election(n, i)
       ELSE Quiet([n EXCEPT !.granted = g])

(* Granting a vote restarts the timer, and with it the lease of a leader    *)
(* that is known.                                                           *)
ResetTimer(n) == [n EXCEPT !.contact = IF @ = "none" THEN "none" ELSE "live"]

on_request_vote(n, i, j, m) ==
  LET s == AdoptTerm(n, m.term)
      granted == m.term = s.term /\ s.voted \in {None, j} /\ UpToDate(m, s) IN
  To(IF granted THEN ResetTimer([s EXCEPT !.voted = j]) ELSE s,
     j, [type |-> "VoteReply", term |-> s.term, granted |-> granted])

on_request_vote_response(n, i, j, m) ==
  IF m.term > n.term THEN Quiet(step_down_to_higher_term(n, m.term))
  ELSE IF n.role # "Candidate" \/ m.term # n.term THEN Quiet(n)
  ELSE LET g == IF m.granted THEN n.granted \union {j} ELSE n.granted IN
       IF Quorum(g) THEN become_leader(n, i)
       ELSE Quiet([n EXCEPT !.granted = g])

-----------------------------------------------------------------------------
(* Replication                                                              *)

(* Mutant: a leader is obeyed whatever its term.                            *)
NeverDeposed(m, n) == m.term < 0

(* The sender is the leader of a term that is over.                         *)
Deposed(m, n) == m.term < n.term

Follow(n) == [n EXCEPT !.role = "Follower", !.contact = "live"]

Refuse(n, j, conflictTerm, conflictIndex) ==
  To(n, j, [type |-> "AppendReply", term |-> n.term, success |-> FALSE, match |-> 0,
            conflictTerm |-> conflictTerm, conflictIndex |-> conflictIndex,
            round |-> FALSE])

Accept(n, j, round) ==
  To(n, j, [type |-> "AppendReply", term |-> n.term, success |-> TRUE,
            match |-> LastIndex(n), conflictTerm |-> NoTerm, conflictIndex |-> 0,
            round |-> round])

(* Mutant: a conflicting suffix is kept and the tail appended after it.     *)
KeepConflicts(n, prev, entries) ==
  n.log \o SubSeq(entries, Larger(LastIndex(n) - prev, 0) + 1, Len(entries))

(* The first entry of a different term above the commit index cuts the log; *)
(* entries beyond its end are appended.                                     *)
Reconciled(n, prev, entries) ==
  LET conflicts == {p \in 1 .. Len(entries) :
                      /\ prev + p \in n.commit + 1 .. LastIndex(n)
                      /\ n.log[prev + p] # entries[p]}
      keep == IF conflicts = {} THEN LastIndex(n)
              ELSE prev + (CHOOSE p \in conflicts : \A q \in conflicts : p <= q) - 1 IN
  SubSeq(n.log, 1, keep) \o SubSeq(entries, keep - prev + 1, Len(entries))

(* Mutant: the follower's commit index follows the leader's down as well.   *)
CommitFollowsLeader(n, j, prev, entries, m) ==
  LET log == Reconciled(n, prev, entries) IN
  Accept([n EXCEPT !.log = log, !.commit = Smaller(m.commit, Len(log))], j, m.round)

reconcile_and_commit_entries(n, j, prev, entries, m) ==
  LET log == Reconciled(n, prev, entries) IN
  Accept([n EXCEPT !.log = log,
                   !.commit = Larger(n.commit, Smaller(m.commit, Len(log)))],
         j, m.round)

ConflictIndex(n, m) ==
  LET floor == Larger(n.commit, n.base) + 1
      same == {k \in floor .. LastIndex(n) : n.log[k] = TermAt(n, m.prev)} IN
  IF same = {} THEN Larger(m.prev, floor)
  ELSE CHOOSE k \in same : \A l \in same : k <= l

on_append_entries(n, i, j, m) ==
  LET s == AdoptTerm(n, m.term)
      f == Follow(s)
      usable == SubSeq(m.entries, f.base - m.prev + 1, Len(m.entries)) IN
  IF Deposed(m, s) THEN Refuse(s, j, NoTerm, LastIndex(s) + 1)
  ELSE IF m.prev < f.base
  THEN IF usable = <<>> THEN Accept(f, j, m.round)
       ELSE reconcile_and_commit_entries(f, j, f.base, usable, m)
  ELSE IF TermAt(f, m.prev) = NoTerm THEN Refuse(f, j, NoTerm, LastIndex(f) + 1)
  ELSE IF TermAt(f, m.prev) # m.prevTerm
  THEN Refuse(f, j, TermAt(f, m.prev), ConflictIndex(f, m))
  ELSE reconcile_and_commit_entries(f, j, m.prev, m.entries, m)

Holders(n, k) == {v \in Voter : n.match[v] >= k}

try_advance_leader_commit(n) ==
  LET ready == {k \in n.commit + 1 .. LastIndex(n) :
                  n.log[k] = n.term /\ Quorum(Holders(n, k))} IN
  IF ready = {} THEN n
  ELSE [n EXCEPT !.commit = CHOOSE k \in ready : \A l \in ready : k >= l]

(* Mutant: a new leader trusts the commit index it was elected with.        *)
AnyView(n) == n.commit >= 0

AuthoritativeView(n) ==
  (n.commit = 0 /\ LastIndex(n) = 0) \/ TermAt(n, n.commit) = n.term

sweep_confirmed_quorum_rounds(n) ==
  IF n.read # None /\ Quorum(n.read.acked) /\ AuthoritativeView(n)
  THEN [Quiet([n EXCEPT !.read = None]) EXCEPT
          !.confirmed = [index |-> n.commit, floor |-> n.read.floor]]
  ELSE Quiet(n)

BackedUpNext(n, j, m) ==
  LET same == {k \in n.base + 1 .. LastIndex(n) : n.log[k] = m.conflictTerm}
      hint == IF same = {} THEN Larger(m.conflictIndex, 1)
              ELSE (CHOOSE k \in same : \A l \in same : k >= l) + 1 IN
  Larger(Smaller(hint, n.next[j] - 1), 1)

Replicate(r, j) ==
  [r EXCEPT !.out[j] = build_replication_for_peer(r.core, j, FALSE)]

on_append_entries_response(n, i, j, m) ==
  IF m.term > n.term THEN Quiet(step_down_to_higher_term(n, m.term))
  ELSE IF n.role # "Leader" \/ m.term # n.term THEN Quiet(n)
  ELSE IF m.success
  THEN LET matched == Smaller(Larger(n.match[j], m.match), LastIndex(n))
           a == try_advance_leader_commit(
                  [n EXCEPT !.match[j] = matched, !.next[j] = matched + 1,
                            !.offset[j] = 0])
           b == IF m.round /\ a.read # None
                THEN [a EXCEPT !.read.acked = @ \union {j}] ELSE a
           r == sweep_confirmed_quorum_rounds(b) IN
       IF matched < LastIndex(n) THEN Replicate(r, j) ELSE r
  ELSE Replicate(Quiet([n EXCEPT !.next[j] = BackedUpNext(n, j, m),
                                 !.offset[j] = 0]), j)

-----------------------------------------------------------------------------
(* Snapshots                                                                *)

SnapshotReply(n, j, m, offset, installed) ==
  To(n, j, [type |-> "SnapshotReply", term |-> n.term, index |-> Len(m.prefix),
            offset |-> offset, installed |-> installed])

InstallSnapshot(n, prefix) ==
  LET k == Len(prefix)
      suffix == IF TermAt(n, k) = prefix[k] THEN SubSeq(n.log, k + 1, LastIndex(n))
                ELSE <<>> IN
  [n EXCEPT !.log = prefix \o suffix, !.base = k, !.commit = k, !.staging = None]

on_install_snapshot_chunk(n, i, j, m) ==
  LET s == AdoptTerm(n, m.term)
      f == Follow(s)
      id == [term |-> m.term, leader |-> j, prefix |-> m.prefix]
      fresh == f.staging = None \/ f.staging.id # id
      got == IF fresh THEN 0 ELSE f.staging.got IN
  CASE Deposed(m, s) -> SnapshotReply(s, j, m, 0, FALSE)
    [] ~Deposed(m, s) /\ Len(m.prefix) <= f.commit ->
         SnapshotReply(f, j, m, Chunks, TRUE)
    [] ~Deposed(m, s) /\ Len(m.prefix) > f.commit ->
         IF fresh /\ m.offset # 0
         THEN SnapshotReply([f EXCEPT !.staging = None], j, m, 0, FALSE)
         ELSE IF m.offset # got THEN SnapshotReply(f, j, m, got, FALSE)
         ELSE IF m.end < Chunks
         THEN SnapshotReply([f EXCEPT !.staging = [id |-> id, got |-> m.end]],
                            j, m, m.end, FALSE)
         ELSE SnapshotReply(InstallSnapshot(f, m.prefix), j, m, Chunks, TRUE)

on_install_snapshot_response(n, i, j, m) ==
  LET matched == Larger(n.match[j], m.index)
      a == try_advance_leader_commit(
             [n EXCEPT !.match[j] = matched, !.next[j] = matched + 1, !.offset[j] = 0])
  IN
  IF m.term > n.term THEN Quiet(step_down_to_higher_term(n, m.term))
  ELSE IF n.role # "Leader" \/ m.term # n.term \/ n.base = 0 \/ m.index # n.base
  THEN Quiet(n)
  ELSE IF m.installed
  THEN IF matched < LastIndex(n) THEN Replicate(Quiet(a), j) ELSE Quiet(a)
  ELSE IF m.offset # 0 /\ m.offset <= n.offset[j] THEN Quiet(n)
  ELSE Replicate(Quiet([n EXCEPT !.offset[j] = m.offset]), j)

-----------------------------------------------------------------------------
(* The driver                                                               *)

Requests == {"PreVote", "Vote", "Append", "Snapshot"}

on_message(n, i, j, m) ==
  CASE m.type = "PreVote" -> on_request_pre_vote(n, i, j, m)
    [] m.type = "PreVoteReply" -> on_request_pre_vote_response(n, i, j, m)
    [] m.type = "Vote" -> on_request_vote(n, i, j, m)
    [] m.type = "VoteReply" -> on_request_vote_response(n, i, j, m)
    [] m.type = "Append" -> on_append_entries(n, i, j, m)
    [] m.type = "AppendReply" -> on_append_entries_response(n, i, j, m)
    [] m.type = "Snapshot" -> on_install_snapshot_chunk(n, i, j, m)
    [] m.type = "SnapshotReply" -> on_install_snapshot_response(n, i, j, m)

(* The worker takes the next waiting message unless its term is over.  A    *)
(* message beyond the cap is dropped, as one whose call fails.              *)
Popped(queue, t) == SelectSeq(Tail(queue), LAMBDA m : m.term >= t)
Posted(queue, m) == IF m = None \/ Len(queue) >= LaneCap THEN queue ELSE Append(queue, m)
Post(lanes, out) == [v \in Voter |-> Posted(lanes[v], out[v])]

(* Own-term entries a leader commits are those whose proposers still wait:  *)
(* a step-down or a restart rejects every waiter.                           *)
NewReceipts(n, c) ==
  IF c.role # "Leader" THEN {}
  ELSE {<<k, c.term>> : k \in {l \in n.commit + 1 .. c.commit : c.log[l] = c.term}}

(* step_and_persist of voter i: durable effects, receipts and read answers, *)
(* in one critical section.                                                 *)
Persist(i, r) ==
  /\ node' = [node EXCEPT ![i] = r.core]
  /\ receipts' = receipts \union NewReceipts(node[i], r.core)
  /\ served' = IF r.confirmed = None THEN served ELSE r.confirmed
  /\ elected' = IF r.core.role = "Leader" THEN elected \union {<<r.core.term, i>>}
                ELSE elected

(* A step of voter i that comes from a tick or a client.                    *)
LocalStep(i, r) ==
  /\ Persist(i, r)
  /\ lane' = [lane EXCEPT ![i] = Post(lane[i], r.out)]
  /\ UNCHANGED late

Spend(what, bound) ==
  /\ used[what] < bound
  /\ used' = [used EXCEPT ![what] = @ + 1]

on_tick_heartbeat(i) ==
  /\ node[i].role = "Leader"
  /\ Spend("event", MaxEvents)
  /\ LocalStep(i, broadcast_replication_or_heartbeat(node[i], i, FALSE))

on_tick_lapse(i) ==
  /\ node[i].role # "Leader"
  /\ node[i].contact = "live"
  /\ LocalStep(i, Quiet([node[i] EXCEPT !.contact = "lapsed"]))
  /\ UNCHANGED used

on_tick_election(i) ==
  /\ i \in Contenders
  /\ node[i].role # "Leader"
  /\ node[i].contact # "live"
  /\ Spend("election", MaxElections)
  /\ LocalStep(i, start_pre_vote(node[i], i))

on_propose(i) ==
  LET k == LastIndex(node[i]) + 1
      n == [node[i] EXCEPT !.log = Append(@, node[i].term), !.match[i] = k,
                           !.next[i] = k + 1] IN
  /\ node[i].role = "Leader"
  /\ k <= MaxLog
  /\ Pipelined \/ \A v \in Voter : lane[i][v] = <<>>
  /\ LocalStep(i, broadcast_replication_or_heartbeat(n, i, FALSE))
  /\ UNCHANGED used

Committed == {node[v].commit : v \in Voter}

on_request_linearizable_read(i) ==
  LET floor == CHOOSE k \in Committed : \A l \in Committed : k >= l
      n == [node[i] EXCEPT !.read = [acked |-> {i}, floor |-> floor]] IN
  /\ node[i].role = "Leader"
  /\ node[i].read = None
  /\ Reads
  /\ served = None
  /\ LocalStep(i, broadcast_replication_or_heartbeat(n, i, TRUE))
  /\ UNCHANGED used

create_snapshot_and_compact(i) ==
  /\ Compacts
  /\ node[i].commit > node[i].base
  /\ LocalStep(i, Quiet([node[i] EXCEPT !.base = node[i].commit,
                                        !.offset = Genesis.offset]))
  /\ UNCHANGED used

(* The peer handles the request at the head of a lane and answers.          *)
handle_rpc(i, j) ==
  /\ lane[i][j] # <<>>
  /\ Head(lane[i][j]).type \in Requests
  /\ LET r == on_message(node[j], j, i, Head(lane[i][j])) IN
       /\ Persist(j, r)
       /\ lane' = [lane EXCEPT ![i][j][1] = r.out[i]]
  /\ UNCHANGED <<late, used>>

(* The worker feeds the answer to its own core.                             *)
HandleReply(i, j) ==
  /\ lane[i][j] # <<>>
  /\ Head(lane[i][j]).type \notin Requests
  /\ LET r == on_message(node[i], i, j, Head(lane[i][j])) IN
       /\ Persist(i, r)
       /\ lane' = [lane EXCEPT ![i] =
                     Post([lane[i] EXCEPT ![j] = Popped(@, r.core.term)], r.out)]
  /\ UNCHANGED <<late, used>>

Fault == Spend("event", MaxEvents)

(* A call fails: the request or the reply is lost.                          *)
FailCall(i, j) ==
  /\ Fault
  /\ lane[i][j] # <<>>
  /\ lane' = [lane EXCEPT ![i][j] = Popped(@, node[i].term)]
  /\ UNCHANGED <<node, late, elected, receipts, served>>

OnTheWire(i) ==
  {[from |-> i, to |-> j, msg |-> Head(lane[i][j])] :
     j \in {v \in Voter : lane[i][v] # <<>> /\ Head(lane[i][v]).type \in Requests}}

(* A call times out while its request is still on its way.                  *)
TimeOutCall(i, j) ==
  /\ Fault
  /\ \E x \in OnTheWire(i) : x.to = j /\ late' = late \union {x}
  /\ lane' = [lane EXCEPT ![i][j] = Popped(@, node[i].term)]
  /\ UNCHANGED <<node, elected, receipts, served>>

handle_late_rpc(x) ==
  /\ Persist(x.to, on_message(node[x.to], x.to, x.from, x.msg))
  /\ late' = late \ {x}
  /\ UNCHANGED <<lane, used>>

(* Mutant: the vote of the current term is not recovered.                   *)
RehydrateVoteless(n) ==
  [Genesis EXCEPT !.term = n.term, !.log = n.log, !.base = n.base,
                  !.commit = n.commit]

(* What load_and_verify_all recovers and rehydrate starts from.             *)
rehydrate(n) ==
  [Genesis EXCEPT !.term = n.term, !.voted = n.voted, !.log = n.log,
                  !.base = n.base, !.commit = n.commit]

(* Requests of the old process that are on the wire may still arrive.       *)
Restart(i) ==
  /\ Fault
  /\ node' = [node EXCEPT ![i] = rehydrate(node[i])]
  /\ \E S \in SUBSET OnTheWire(i) : late' = late \union S
  /\ lane' = [lane EXCEPT ![i] = [v \in Voter |-> <<>>]]
  /\ UNCHANGED <<elected, receipts, served>>

(* A cluster whose first election is over: every voter voted for the        *)
(* incumbent and has answered its first heartbeat.                          *)
Settled(v) ==
  IF v = Incumbent
  THEN become_leader([Genesis EXCEPT !.term = 1, !.voted = v], v).core
  ELSE [Genesis EXCEPT !.term = 1, !.voted = Incumbent, !.contact = "live"]

Init ==
  /\ node = [v \in Voter |-> IF Incumbent = None THEN Genesis ELSE Settled(v)]
  /\ lane = [v \in Voter |-> [w \in Voter |-> <<>>]]
  /\ late = {}
  /\ used = [event |-> 0, election |-> 0]
  /\ elected = IF Incumbent = None THEN {} ELSE {<<1, Incumbent>>}
  /\ receipts = {}
  /\ served = None

Next ==
  \/ \E i \in Voter :
       \/ on_tick_heartbeat(i)
       \/ on_tick_lapse(i)
       \/ on_tick_election(i)
       \/ on_propose(i)
       \/ on_request_linearizable_read(i)
       \/ create_snapshot_and_compact(i)
       \/ Restart(i)
  \/ \E i, j \in Voter :
       \/ handle_rpc(i, j)
       \/ HandleReply(i, j)
       \/ FailCall(i, j)
       \/ TimeOutCall(i, j)
  \/ \E x \in late : handle_late_rpc(x)

Spec == Init /\ [][Next]_vars

-----------------------------------------------------------------------------
(* Properties                                                               *)

(* No term has two leaders, although voters restart between two votes and   *)
(* vote requests fail, arrive late and cross: on_request_vote grants one    *)
(* vote per term and apply_durable_effects commits it before the answer.    *)
ElectionSafety ==
  \A a, b \in elected : a[1] = b[1] => a = b

(* Two logs that hold an entry of the same term at an index agree up to it: *)
(* the check of prev_log_term, the back-up on a conflict and the truncation *)
(* in reconcile_and_commit_entries together.                                *)
LogMatching ==
  \A i, j \in Voter : \A k \in 1 .. Smaller(LastIndex(node[i]), LastIndex(node[j])) :
    node[i].log[k] = node[j].log[k]
      => SubSeq(node[i].log, 1, k) = SubSeq(node[j].log, 1, k)

(* No two voters apply different entries at one index, whether they         *)
(* committed it as a leader, from leader_commit or by installing a snapshot. *)
StateMachineSafety ==
  \A i, j \in Voter : \A k \in 1 .. Smaller(node[i].commit, node[j].commit) :
    node[i].log[k] = node[j].log[k]

(* Both together: the logs agree where they overlap and the state machines  *)
(* where they have applied.                                                 *)
LogsAgree == LogMatching /\ StateMachineSafety

Has(n, r) == LastIndex(n) >= r[1] /\ n.log[r[1]] = r[2]

(* An entry whose proposer was handed a ConsensusCommitReceipt is, from then *)
(* on, in the durable log of a quorum (DUR-ACK-002, lib.rs).                *)
ReceiptIsDurable ==
  \A r \in receipts : Quorum({v \in Voter : Has(node[v], r)})

(* A leader of a later term holds every entry a receipt was given for, with *)
(* the snapshot standing for what it compacted: pre-votes and votes are     *)
(* refused to a candidate whose log is behind.                              *)
LeaderCompleteness ==
  \A r \in receipts : \A v \in Voter :
    node[v].role = "Leader" /\ node[v].term > r[2] => Has(node[v], r)

(* A linearizable read covers every index some voter had committed when it  *)
(* was requested, also when the leader was just elected and when it has     *)
(* been deposed without knowing: sweep_confirmed_quorum_rounds waits for a  *)
(* quorum of the read's own round and for a commit of the leader's term.    *)
ReadsAreFresh == served = None \/ served.index >= served.floor

(* No step, a restart included, asks the store for what its triggers abort: *)
(* a term or a commit index going back, a second vote in a term, a          *)
(* committed entry deleted or changed, a snapshot replaced by an older one. *)
(* The driver stops for good on such an abort (step_and_persist), so the    *)
(* transition function must never run into one.                             *)
StoreAccepts ==
  [][\A v \in Voter : LET n == node[v] c == node'[v] IN
       /\ n.term <= c.term
       /\ n.commit <= c.commit
       /\ n.term = c.term /\ n.voted # None => c.voted = n.voted
       /\ SubSeq(c.log, 1, n.commit) = SubSeq(n.log, 1, n.commit)
       /\ n.base <= c.base
       /\ c.base <= c.commit /\ c.commit <= Len(c.log)]_vars

=============================================================================
