-------------------------- MODULE TopicFanoutProofs --------------------------
(***************************************************************************)
(* Proofs about TopicFanout, for any workers, subscribers, publications    *)
(* and policies: what every step writes, row by row, that the tables, the  *)
(* queue and what the calls carry stay well formed, and that the books     *)
(* balance, whatever calls interleave and wherever they are cut off.       *)
(***************************************************************************)
EXTENDS TopicFanout, ChannelQueueProofs

-----------------------------------------------------------------------------
(* Types: the tables, and what a call carries from step to step.           *)

Snapshot == [max : Nat, consume : Nat, trim : Nat]

\* What a call at each of its steps has in hand, when the log ends at n.
Fit(r, n) ==
    /\ r = [at |-> r.at, id |-> r.id, arg |-> r.arg, snapshot |-> r.snapshot,
            bound |-> r.bound, live |-> r.live]
    /\ r.snapshot \in Snapshot /\ r.snapshot.max <= n
    /\ r.at \in {"subscribe", "advance"} => r.id \in Subscribers
    /\ r.at \in {"row", "live", "rebind", "enqueue", "commit"} => r.id \in Publications
    /\ r.at = "row" => r.arg \in {None} \cup (Publications \ {r.id})
    /\ r.at \in {"advance", "release", "ack"} => r.arg \in Nat
    /\ r.at = "clamp" => r.arg \in Nat \cup {None}
    /\ r.at \in {"commit", "trim", "account"} => r.bound \in Nat

Crew ==
    /\ worker = [w \in Workers |-> worker[w]]
    /\ \A w \in Workers : Fit(worker[w], issued)

Heads ==
    /\ topic = [generation |-> topic.generation, active |-> topic.active]
    /\ credit = [balance |-> credit.balance, charged |-> credit.charged,
                 recharges |-> credit.recharges]
    /\ copies \in [Publications -> Nat]
    /\ \A s \in Subscribers : subs[s].cursor <= issued

Base == TypeOK /\ QueueInv /\ Crew /\ Heads

\* The rows of the two tables.
SubType == [active : BOOLEAN, state : {"active", "quarantined"}, cursor : Nat, billed : Nat,
            generation : Nat]

PubType == [status : {"none", "pending", "enqueued"}, sequence : Nat,
            parent : Publications \cup {None}, level : 0..CascadeDepth, budget : 0..CascadeDepth]

\* Only call w moves, to r.
Moves(w, r) == worker' = [worker EXCEPT ![w] = r]

LEMMA CrewStep ==
    ASSUME Crew, issued \in Nat, issued' \in Nat, issued <= issued',
           NEW w \in Workers, NEW r, Moves(w, r), Fit(r, issued')
    PROVE  Crew'
  <1>1. \A v \in Workers : worker'[v] = IF v = w THEN r ELSE worker[v]
    BY Zenon DEF Crew, Moves
  <1>2. worker' = [v \in Workers |-> worker'[v]]
    BY Zenon DEF Crew, Moves
  <1>3. \A v \in Workers : Fit(worker[v], issued')
    BY DEF Crew, Fit, Snapshot
  <1> QED  BY <1>1, <1>2, <1>3, Zenon DEF Crew

LEMMA CursorMinimum ==
    ASSUME TypeOK
    PROVE  /\ Entitled # {} => /\ MinActiveCursor \in Nat
                               /\ \A s \in Entitled : MinActiveCursor <= subs[s].cursor
           /\ Entitled = {} => MinActiveCursor = None
  <1>1. CASE Entitled # {}
    <2>1. CursorsOf(Entitled) \in SUBSET Nat /\ CursorsOf(Entitled) # {}
      <3>1. \A s \in Subscribers : subs[s].cursor \in Nat
        <4>1. \A s \in Subscribers : subs[s] \in SubType
          BY Zenon DEF TypeOK, SubType
        <4> QED  BY <4>1, Zenon DEF SubType
      <3> QED  BY <1>1, <3>1, Zenon DEF CursorsOf, Entitled
    <2>2. Min(CursorsOf(Entitled)) \in CursorsOf(Entitled)
          /\ \A x \in CursorsOf(Entitled) : Min(CursorsOf(Entitled)) <= x
      BY <2>1, MinNumber, Zenon
    <2> QED  BY <1>1, <2>1, <2>2, Zenon DEF MinActiveCursor, CursorsOf
  <1> QED  BY <1>1, Zenon DEF MinActiveCursor

LEMMA QueueStateFits ==
    ASSUME QueueInv
    PROVE  QueueState \in Snapshot /\ QueueState.max <= issued /\ issued \in Nat
  BY WrittenIsIssued DEF QueueState, Snapshot, QueueInv, QueueShape

LEMMA SeenFits ==
    ASSUME QueueInv, NEW a
    PROVE  SeenBy(a) \in Snapshot /\ SeenBy(a).max <= issued
  <1>1. issued \in Nat => NoSnapshot \in Snapshot /\ NoSnapshot.max <= issued
    BY DEF NoSnapshot, Snapshot
  <1> QED  BY <1>1, QueueStateFits, Zenon DEF SeenBy

LEMMA ReleasedToIs ==
    ASSUME NEW consume \in Nat, NEW cursor \in Nat \cup {None}
    PROVE  ReleasedTo(cursor, consume) \in Nat /\ ReleasedTo(cursor, consume) <= consume
  <1>1. \A a, b \in Nat : Min({a, b}) = IF a <= b THEN a ELSE b
    BY DEF Min
  <1> QED  BY <1>1 DEF ReleasedTo

-----------------------------------------------------------------------------
(* Calls begin; others read one of the two stores.                         *)

\* The step writes neither store nor the history.
OnlyWorkers == UNCHANGED <<channelVars, topicVars, history>>

LEMMA BaseFramed ==
    ASSUME Base, OnlyWorkers, NEW w \in Workers, NEW r, Moves(w, r), Fit(r, issued)
    PROVE  Base'
  <1>0. issued \in Nat /\ issued' = issued
    BY Zenon DEF Base, QueueInv, QueueShape, OnlyWorkers, channelVars
  <1>1. Crew'
    BY <1>0, CrewStep DEF Base
  <1>2. QueueInv'
    BY QueueUntouched, Zenon DEF Base, OnlyWorkers, channelVars
  <1>3. TypeOK' /\ Heads'
    BY Zenon DEF Base, TypeOK, Heads, OnlyWorkers, channelVars, topicVars, history
  <1> QED  BY <1>1, <1>2, <1>3, Zenon DEF Base

\* The call that begins at step a with what it has seen of the queue.
Begun(a, i, x, l) == [at |-> a, id |-> i, arg |-> x, snapshot |-> SeenBy(a), bound |-> 0, live |-> l]

LEMMA CallMoves ==
    ASSUME NEW w, NEW a, NEW i, NEW x, NEW l,
           Call(w, [at |-> a, id |-> i, arg |-> x, snapshot |-> NoSnapshot, bound |-> 0, live |-> l])
    PROVE  Moves(w, Begun(a, i, x, l)) /\ worker[w].at = "free"
  <1>1. PICK q : q = SeenBy(a)
    BY Zenon
  <1>2. PICK r : r = [at |-> a, id |-> i, arg |-> x, snapshot |-> NoSnapshot,
                      bound |-> 0, live |-> l]
    BY Zenon
  <1>3. r.at = a
        /\ [r EXCEPT !.snapshot = q]
            = [at |-> a, id |-> i, arg |-> x, snapshot |-> q, bound |-> 0, live |-> l]
    BY <1>2
  <1>4. Call(w, r)
    BY <1>2, Zenon
  <1>5. worker' = [worker EXCEPT ![w] = [r EXCEPT !.snapshot = q]] /\ worker[w].at = "free"
    BY <1>1, <1>3, <1>4, Zenon DEF Call
  <1> QED  BY <1>1, <1>3, <1>5, Zenon DEF Moves, Begun

\* A call with some fields of Free replaced.
LEMMA FreeNamed ==
    ASSUME NEW a, NEW i
    PROVE  [Free EXCEPT !.at = a, !.id = i]
           = [at |-> a, id |-> i, arg |-> None, snapshot |-> NoSnapshot,
              bound |-> 0, live |-> 0]
  <1>1. PICK r : r = [Free EXCEPT !.at = a]
    BY Zenon
  <1>2. r = [at |-> a, id |-> None, arg |-> None, snapshot |-> NoSnapshot,
              bound |-> 0, live |-> 0]
    BY <1>1, Zenon DEF Free
  <1>3. [r EXCEPT !.id = i]
           = [at |-> a, id |-> i, arg |-> None, snapshot |-> NoSnapshot,
              bound |-> 0, live |-> 0]
    BY <1>2
  <1>4. [Free EXCEPT !.at = a, !.id = i] = [r EXCEPT !.id = i]
    BY <1>1, Zenon
  <1> QED  BY <1>3, <1>4, Zenon

LEMMA FreeAsked ==
    ASSUME NEW a, NEW x
    PROVE  [Free EXCEPT !.at = a, !.arg = x]
           = [at |-> a, id |-> None, arg |-> x, snapshot |-> NoSnapshot,
              bound |-> 0, live |-> 0]
  <1>1. PICK r : r = [Free EXCEPT !.at = a]
    BY Zenon
  <1>2. r = [at |-> a, id |-> None, arg |-> None, snapshot |-> NoSnapshot,
              bound |-> 0, live |-> 0]
    BY <1>1, Zenon DEF Free
  <1>3. [r EXCEPT !.arg = x]
           = [at |-> a, id |-> None, arg |-> x, snapshot |-> NoSnapshot,
              bound |-> 0, live |-> 0]
    BY <1>2
  <1>4. [Free EXCEPT !.at = a, !.arg = x] = [r EXCEPT !.arg = x]
    BY <1>1, Zenon
  <1> QED  BY <1>3, <1>4, Zenon

LEMMA FreeBoth ==
    ASSUME NEW a, NEW i, NEW x
    PROVE  [Free EXCEPT !.at = a, !.id = i, !.arg = x]
           = [at |-> a, id |-> i, arg |-> x, snapshot |-> NoSnapshot,
              bound |-> 0, live |-> 0]
  <1>1. PICK r : r = [Free EXCEPT !.at = a, !.id = i]
    BY Zenon
  <1>2. r = [at |-> a, id |-> i, arg |-> None, snapshot |-> NoSnapshot,
              bound |-> 0, live |-> 0]
    BY <1>1, FreeNamed, Zenon
  <1>3. [r EXCEPT !.arg = x]
           = [at |-> a, id |-> i, arg |-> x, snapshot |-> NoSnapshot,
              bound |-> 0, live |-> 0]
    BY <1>2
  <1>4. [Free EXCEPT !.at = a, !.id = i, !.arg = x] = [r EXCEPT !.arg = x]
    BY <1>1, Zenon
  <1> QED  BY <1>3, <1>4, Zenon

LEMMA CallBegins ==
    ASSUME Base, NEW w \in Workers
    PROVE  /\ \A s \in Subscribers : Subscribe(w, s) =>
                  OnlyWorkers /\ Moves(w, Begun("subscribe", s, None, 0)) /\ worker[w].at = "free"
           /\ \A s \in Subscribers, n \in 1..MaxWritten : Advance(w, s, n) =>
                  /\ OnlyWorkers /\ worker[w].at = "free"
                  /\ \E l : Moves(w, Begun("advance", s, n, l))
           /\ \A p \in Publications : \A parent \in {None} \cup (Publications \ {p}) :
                  Publish(w, p, parent) =>
                      OnlyWorkers /\ Moves(w, Begun("row", p, parent, 0)) /\ worker[w].at = "free"
           /\ CompactTopic(w) =>
                  OnlyWorkers /\ Moves(w, Begun("minimum", None, None, 0)) /\ worker[w].at = "free"
           /\ InspectAttribution(w) =>
                  /\ OnlyWorkers /\ worker[w].at = "free"
                  /\ Moves(w, Begun("inspect", None, Uncovered(MaxSequence), 0))
  <1>1. ASSUME NEW s \in Subscribers, Subscribe(w, s)
        PROVE  OnlyWorkers /\ Moves(w, Begun("subscribe", s, None, 0)) /\ worker[w].at = "free"
    <2>1. Call(w, [at |-> "subscribe", id |-> s, arg |-> None, snapshot |-> NoSnapshot,
                   bound |-> 0, live |-> 0])
      <3>1. [Free EXCEPT !.at = "subscribe", !.id = s]
                = [at |-> "subscribe", id |-> s, arg |-> None, snapshot |-> NoSnapshot,
                   bound |-> 0, live |-> 0]
        BY FreeNamed, Zenon
      <3>2. Call(w, [Free EXCEPT !.at = "subscribe", !.id = s])
        BY <1>1, Zenon DEF Subscribe
      <3> QED  BY <3>1, <3>2, Zenon
    <2> QED  BY <1>1, <2>1, CallMoves, Zenon DEF Subscribe, OnlyWorkers
  <1>2. ASSUME NEW s \in Subscribers, NEW n \in 1..MaxWritten, Advance(w, s, n)
        PROVE  /\ OnlyWorkers /\ worker[w].at = "free"
               /\ \E l : Moves(w, Begun("advance", s, n, l))
    <2>1. PICK l : Call(w, [at |-> "advance", id |-> s, arg |-> n, snapshot |-> NoSnapshot,
                            bound |-> 0, live |-> l])
      <3>1. PICK l : Call(w, [Free EXCEPT !.at = "advance", !.id = s, !.arg = n, !.live = l])
        BY <1>2, Zenon DEF Advance
      <3>2. PICK r : r = [Free EXCEPT !.at = "advance", !.id = s, !.arg = n]
        BY Zenon
      <3>3. r = [at |-> "advance", id |-> s, arg |-> n, snapshot |-> NoSnapshot,
                 bound |-> 0, live |-> 0]
        BY <3>2, FreeBoth, Zenon
      <3>4. [r EXCEPT !.live = l]
                = [at |-> "advance", id |-> s, arg |-> n, snapshot |-> NoSnapshot,
                   bound |-> 0, live |-> l]
        BY <3>3
      <3>5. Call(w, [r EXCEPT !.live = l])
        BY <3>1, <3>2, Zenon
      <3>6. Call(w, [at |-> "advance", id |-> s, arg |-> n, snapshot |-> NoSnapshot,
                     bound |-> 0, live |-> l])
        BY <3>4, <3>5, Zenon
      <3> QED  BY <3>6, Zenon
    <2>2. Moves(w, Begun("advance", s, n, l)) /\ worker[w].at = "free"
      BY <2>1, CallMoves, Zenon
    <2> QED  BY <1>2, <2>2, Zenon DEF Advance, OnlyWorkers
  <1>3. ASSUME NEW p \in Publications, NEW parent \in {None} \cup (Publications \ {p}),
               Publish(w, p, parent)
        PROVE  OnlyWorkers /\ Moves(w, Begun("row", p, parent, 0)) /\ worker[w].at = "free"
    <2>1. Call(w, [at |-> "row", id |-> p, arg |-> parent, snapshot |-> NoSnapshot,
                   bound |-> 0, live |-> 0])
      <3>1. [Free EXCEPT !.at = "row", !.id = p, !.arg = parent]
                = [at |-> "row", id |-> p, arg |-> parent, snapshot |-> NoSnapshot,
                   bound |-> 0, live |-> 0]
        BY FreeBoth, Zenon
      <3>2. Call(w, [Free EXCEPT !.at = "row", !.id = p, !.arg = parent])
        BY <1>3, Zenon DEF Publish
      <3> QED  BY <3>1, <3>2, Zenon
    <2> QED  BY <1>3, <2>1, CallMoves, Zenon DEF Publish, OnlyWorkers
  <1>4. ASSUME CompactTopic(w)
        PROVE  OnlyWorkers /\ Moves(w, Begun("minimum", None, None, 0)) /\ worker[w].at = "free"
    <2>1. Call(w, [at |-> "minimum", id |-> None, arg |-> None, snapshot |-> NoSnapshot,
                   bound |-> 0, live |-> 0])
      BY <1>4 DEF CompactTopic, Free
    <2> QED  BY <1>4, <2>1, CallMoves, Zenon DEF CompactTopic, OnlyWorkers
  <1>5. ASSUME InspectAttribution(w)
        PROVE  /\ OnlyWorkers /\ worker[w].at = "free"
               /\ Moves(w, Begun("inspect", None, Uncovered(MaxSequence), 0))
    <2>1. PICK x : x = Uncovered(MaxSequence)
      BY Zenon
    <2>2. Call(w, [at |-> "inspect", id |-> None, arg |-> x,
                   snapshot |-> NoSnapshot, bound |-> 0, live |-> 0])
      <3>1. [Free EXCEPT !.at = "inspect", !.arg = x]
                = [at |-> "inspect", id |-> None, arg |-> x, snapshot |-> NoSnapshot,
                   bound |-> 0, live |-> 0]
        BY FreeAsked, Zenon
      <3>2. Call(w, [Free EXCEPT !.at = "inspect", !.arg = x])
        BY <1>5, <2>1, Zenon DEF InspectAttribution
      <3> QED  BY <3>1, <3>2, Zenon
    <2>3. Moves(w, Begun("inspect", None, x, 0)) /\ worker[w].at = "free"
      BY <2>2, CallMoves, Zenon
    <2> QED  BY <1>5, <2>1, <2>3, Zenon DEF InspectAttribution, OnlyWorkers
  <1> QED  BY <1>1, <1>2, <1>3, <1>4, <1>5, Zenon

LEMMA BegunFits ==
    ASSUME Base, NEW a, NEW i, NEW x, NEW l,
           a \in {"subscribe", "advance"} => i \in Subscribers,
           a = "row" => i \in Publications /\ x \in {None} \cup (Publications \ {i}),
           a = "advance" => x \in Nat,
           a \notin {"live", "rebind", "enqueue", "commit", "release", "ack", "clamp", "trim", "account"}
    PROVE  Fit(Begun(a, i, x, l), issued)
  BY SeenFits, QueueStateFits, Zenon DEF Base, Fit, Begun

LEMMA BaseBegins ==
    ASSUME Base, NEW w \in Workers,
           \/ \E s \in Subscribers : Subscribe(w, s) \/ \E n \in 1..MaxWritten : Advance(w, s, n)
           \/ \E p \in Publications :
                  \E parent \in {None} \cup (Publications \ {p}) : Publish(w, p, parent)
           \/ CompactTopic(w) \/ InspectAttribution(w)
    PROVE  Base'
  <1>0. \A n \in 1..MaxWritten : n \in Nat
    BY WrittenIsIssued DEF Base, QueueInv, QueueShape
  <1>1. PICK a, i, x, l :
            /\ OnlyWorkers /\ Moves(w, Begun(a, i, x, l))
            /\ a \in {"subscribe", "advance"} => i \in Subscribers
            /\ a = "row" => i \in Publications /\ x \in {None} \cup (Publications \ {i})
            /\ a = "advance" => x \in Nat
            /\ a \in {"subscribe", "advance", "row", "minimum", "inspect"}
    <2>1. CASE \E s \in Subscribers : Subscribe(w, s)
      BY <2>1, CallBegins, Zenon
    <2>2. CASE \E s \in Subscribers, n \in 1..MaxWritten : Advance(w, s, n)
      BY <1>0, <2>2, CallBegins
    <2>3. CASE \E p \in Publications :
                   \E parent \in {None} \cup (Publications \ {p}) : Publish(w, p, parent)
      BY <2>3, CallBegins
    <2>4. CASE CompactTopic(w) \/ InspectAttribution(w)
      BY <2>4, CallBegins, Zenon
    <2> QED  BY <2>1, <2>2, <2>3, <2>4, Zenon
  <1>2. Fit(Begun(a, i, x, l), issued)
    BY <1>1, BegunFits, Zenon
  <1> QED  BY <1>1, <1>2, BaseFramed, Zenon

\* A call goes on with one more field replaced.
Framed(r) == r = [at |-> r.at, id |-> r.id, arg |-> r.arg, snapshot |-> r.snapshot,
                  bound |-> r.bound, live |-> r.live]

\* The call r, gone on to step a.
Onward(r, a, x, b, l) ==
    [at |-> a, id |-> r.id, arg |-> x, snapshot |-> r.snapshot, bound |-> b, live |-> l]

LEMMA StepTo ==
    ASSUME NEW r, Framed(r), NEW a
    PROVE  [r EXCEPT !.at = a] = Onward(r, a, r.arg, r.bound, r.live)
  BY DEF Framed, Onward

LEMMA StepBound ==
    ASSUME NEW r, Framed(r), NEW a, NEW n
    PROVE  [r EXCEPT !.at = a, !.bound = n] = Onward(r, a, r.arg, n, r.live)
  <1>1. PICK q : q = [r EXCEPT !.at = a]
    BY Zenon
  <1>2. q = [at |-> a, id |-> r.id, arg |-> r.arg, snapshot |-> r.snapshot,
             bound |-> r.bound, live |-> r.live]
    BY <1>1, StepTo, Zenon DEF Onward
  <1>3. [q EXCEPT !.bound = n] = Onward(r, a, r.arg, n, r.live)
    BY <1>2 DEF Onward
  <1>4. [r EXCEPT !.at = a, !.bound = n] = [q EXCEPT !.bound = n]
    BY <1>1, Zenon
  <1> QED  BY <1>3, <1>4, Zenon

LEMMA StepArg ==
    ASSUME NEW r, Framed(r), NEW a, NEW x
    PROVE  [r EXCEPT !.at = a, !.arg = x] = Onward(r, a, x, r.bound, r.live)
  <1>1. PICK q : q = [r EXCEPT !.at = a]
    BY Zenon
  <1>2. q = [at |-> a, id |-> r.id, arg |-> r.arg, snapshot |-> r.snapshot,
             bound |-> r.bound, live |-> r.live]
    BY <1>1, StepTo, Zenon DEF Onward
  <1>3. [q EXCEPT !.arg = x] = Onward(r, a, x, r.bound, r.live)
    BY <1>2 DEF Onward
  <1>4. [r EXCEPT !.at = a, !.arg = x] = [q EXCEPT !.arg = x]
    BY <1>1, Zenon
  <1> QED  BY <1>3, <1>4, Zenon

WithLive(r, a, l) == [r EXCEPT !.at = a, !.live = l]

LEMMA StepLive ==
    ASSUME NEW r, Framed(r), NEW a, NEW l
    PROVE  WithLive(r, a, l) = Onward(r, a, r.arg, r.bound, l)
  <1>1. PICK q : q = [r EXCEPT !.at = a]
    BY Zenon
  <1>2. q = [at |-> a, id |-> r.id, arg |-> r.arg, snapshot |-> r.snapshot,
             bound |-> r.bound, live |-> r.live]
    BY <1>1, StepTo, Zenon DEF Onward
  <1>3. [q EXCEPT !.live = l] = Onward(r, a, r.arg, r.bound, l)
    BY <1>2 DEF Onward
  <1>4. [r EXCEPT !.at = a, !.live = l] = [q EXCEPT !.live = l]
    BY <1>1, Zenon
  <1> QED  BY <1>3, <1>4, Zenon DEF WithLive

LEMMA ReadMoves ==
    ASSUME NEW w \in Workers, Framed(worker[w]), NEW r, r = worker[w]
    PROVE  /\ ReadLive(w) => Moves(w, Onward(r, "rebind", r.arg, channel.generation, r.live))
           /\ ReadRelease(w) =>
                  Moves(w, Onward(r, IF MinActiveCursor = None THEN "bound" ELSE "release",
                                  MinActiveCursor, r.bound, r.live))
           /\ ReadConsumed(w) =>
                  Moves(w, Onward(r, IF r.arg <= queue.consume THEN "bound" ELSE "ack",
                                  r.arg, r.bound, r.live))
           /\ ReadBound(w) => Moves(w, Onward(r, "clamp", MinActiveCursor, r.bound, r.live))
           /\ ReadClamp(w) =>
                  Moves(w, Onward(r, "trim", r.arg, ReleasedTo(r.arg, queue.consume), r.live))
  <1>0. Framed(r)
    BY Zenon
  <1>1. ASSUME ReadLive(w)
        PROVE  Moves(w, Onward(r, "rebind", r.arg, channel.generation, r.live))
    <2>1. PICK a, b : a = "rebind" /\ b = channel.generation
      BY Zenon
    <2>2. worker' = [worker EXCEPT ![w] = [r EXCEPT !.at = a, !.bound = b]]
      BY <1>1, <2>1, Zenon DEF ReadLive
    <2>3. [r EXCEPT !.at = a, !.bound = b] = Onward(r, a, r.arg, b, r.live)
      BY <1>0, StepBound, Zenon
    <2> QED  BY <2>1, <2>2, <2>3, Zenon DEF Moves
  <1>2. ASSUME ReadRelease(w)
        PROVE  Moves(w, Onward(r, IF MinActiveCursor = None THEN "bound" ELSE "release",
                               MinActiveCursor, r.bound, r.live))
    <2>1. PICK a, x : a = (IF MinActiveCursor = None THEN "bound" ELSE "release") /\ x = MinActiveCursor
      BY Zenon
    <2>2. worker' = [worker EXCEPT ![w] = [r EXCEPT !.at = a, !.arg = x]]
      BY <1>2, <2>1, Zenon DEF ReadRelease
    <2>3. [r EXCEPT !.at = a, !.arg = x] = Onward(r, a, x, r.bound, r.live)
      BY <1>0, StepArg, Zenon
    <2> QED  BY <2>1, <2>2, <2>3, Zenon DEF Moves
  <1>3. ASSUME ReadConsumed(w)
        PROVE  Moves(w, Onward(r, IF r.arg <= queue.consume THEN "bound" ELSE "ack",
                               r.arg, r.bound, r.live))
    <2>1. PICK a : a = (IF r.arg <= queue.consume THEN "bound" ELSE "ack")
      BY Zenon
    <2>2. worker' = [worker EXCEPT ![w] = [r EXCEPT !.at = a]]
      BY <1>3, <2>1, Zenon DEF ReadConsumed, Goto
    <2>3. [r EXCEPT !.at = a] = Onward(r, a, r.arg, r.bound, r.live)
      BY <1>0, StepTo, Zenon
    <2> QED  BY <2>1, <2>2, <2>3, Zenon DEF Moves
  <1>4. ASSUME ReadBound(w)
        PROVE  Moves(w, Onward(r, "clamp", MinActiveCursor, r.bound, r.live))
    <2>1. PICK a, x : a = "clamp" /\ x = MinActiveCursor
      BY Zenon
    <2>2. worker' = [worker EXCEPT ![w] = [r EXCEPT !.at = a, !.arg = x]]
      BY <1>4, <2>1, Zenon DEF ReadBound
    <2>3. [r EXCEPT !.at = a, !.arg = x] = Onward(r, a, x, r.bound, r.live)
      BY <1>0, StepArg, Zenon
    <2> QED  BY <2>1, <2>2, <2>3, Zenon DEF Moves
  <1>5. ASSUME ReadClamp(w)
        PROVE  Moves(w, Onward(r, "trim", r.arg, ReleasedTo(r.arg, queue.consume), r.live))
    <2>1. PICK a, b : a = "trim" /\ b = ReleasedTo(r.arg, queue.consume)
      BY Zenon
    <2>2. worker' = [worker EXCEPT ![w] = [r EXCEPT !.at = a, !.bound = b]]
      BY <1>5, <2>1, Zenon DEF ReadClamp
    <2>3. [r EXCEPT !.at = a, !.bound = b] = Onward(r, a, r.arg, b, r.live)
      BY <1>0, StepBound, Zenon
    <2> QED  BY <2>1, <2>2, <2>3, Zenon DEF Moves
  <1> QED  BY <1>1, <1>2, <1>3, <1>4, <1>5, Zenon

LEMMA BaseReads ==
    ASSUME Base, NEW w \in Workers,
           \/ ReadLive(w) \/ ReadRelease(w) \/ ReadConsumed(w) \/ ReadBound(w) \/ ReadClamp(w)
    PROVE  Base'
  <1>0. PICK r : r = worker[w] /\ Framed(worker[w])
    BY Zenon DEF Base, Crew, Fit, Framed
  <1>1. MinActiveCursor \in Nat \cup {None} /\ queue.consume \in Nat /\ Fit(r, issued) /\ OnlyWorkers
    BY <1>0, CursorMinimum, Zenon DEF Base, Crew, QueueInv, QueueShape,
       ReadLive, ReadRelease, ReadConsumed, ReadBound, ReadClamp, OnlyWorkers
  <1>2. CASE ReadLive(w)
    <2>2. Fit(Onward(r, "rebind", r.arg, channel.generation, r.live), issued)
      BY <1>0, <1>1, <1>2, Zenon DEF Fit, ReadLive, Onward
    <2> QED  BY <1>0, <1>1, <1>2, <2>2, ReadMoves, BaseFramed, Zenon
  <1>3. CASE ReadRelease(w)
    <2>1. PICK a : a = IF MinActiveCursor = None THEN "bound" ELSE "release"
      BY Zenon
    <2>2. Fit(Onward(r, a, MinActiveCursor, r.bound, r.live), issued)
      BY <1>1, <2>1, Zenon DEF Fit, Onward
    <2> QED  BY <1>0, <1>1, <1>3, <2>1, <2>2, ReadMoves, BaseFramed, Zenon
  <1>4. CASE ReadConsumed(w)
    <2>1. PICK a : a = IF r.arg <= queue.consume THEN "bound" ELSE "ack"
      BY Zenon
    <2>2. Fit(Onward(r, a, r.arg, r.bound, r.live), issued)
      BY <1>0, <1>1, <1>4, <2>1, Zenon DEF Fit, Onward, ReadConsumed
    <2> QED  BY <1>0, <1>1, <1>4, <2>1, <2>2, ReadMoves, BaseFramed, Zenon
  <1>5. CASE ReadBound(w)
    <2>2. Fit(Onward(r, "clamp", MinActiveCursor, r.bound, r.live), issued)
      BY <1>1, Zenon DEF Fit, Onward
    <2> QED  BY <1>0, <1>1, <1>5, <2>2, ReadMoves, BaseFramed, Zenon
  <1>6. CASE ReadClamp(w)
    <2>1. PICK b \in Nat : b = ReleasedTo(r.arg, queue.consume)
      BY <1>0, <1>1, <1>6, ReleasedToIs, Zenon DEF Fit, ReadClamp
    <2>2. Fit(Onward(r, "trim", r.arg, b, r.live), issued)
      BY <1>1, <2>1, Zenon DEF Fit, Onward
    <2> QED  BY <1>0, <1>1, <1>6, <2>1, <2>2, ReadMoves, BaseFramed, Zenon
  <1> QED  BY <1>2, <1>3, <1>4, <1>5, <1>6, Zenon

-----------------------------------------------------------------------------
(* What the transactions write, row by row.                                *)

SubOf(a, t, c, n, g) == [active |-> a, state |-> t, cursor |-> c, billed |-> n, generation |-> g]
PubOf(t, n, f, l, m) == [status |-> t, sequence |-> n, parent |-> f, level |-> l, budget |-> m]
CreditOf(b, c, k) == [balance |-> b, charged |-> c, recharges |-> k]

SubRow(r) == r = SubOf(r.active, r.state, r.cursor, r.billed, r.generation)
PubRow(r) == r = PubOf(r.status, r.sequence, r.parent, r.level, r.budget)
CreditRow(r) == r = CreditOf(r.balance, r.charged, r.recharges)

LEMMA SubReinstated ==
    ASSUME NEW r, SubRow(r), NEW u, NEW m
    PROVE  [r EXCEPT !.state = u, !.billed = m] = SubOf(r.active, u, r.cursor, m, r.generation)
  <1>1. PICK q : q = [r EXCEPT !.state = u]
    BY Zenon
  <1>2. q = SubOf(r.active, u, r.cursor, r.billed, r.generation)
    BY <1>1, Zenon DEF SubOf, SubRow
  <1>3. [q EXCEPT !.billed = m] = SubOf(r.active, u, r.cursor, m, r.generation)
    BY <1>2 DEF SubOf
  <1>4. [r EXCEPT !.state = u, !.billed = m] = [q EXCEPT !.billed = m]
    BY <1>1, Zenon
  <1> QED  BY <1>3, <1>4, Zenon

LEMMA SubBilled ==
    ASSUME NEW r, SubRow(r), NEW u, NEW m
    PROVE  [r EXCEPT !.billed = m, !.state = u] = SubOf(r.active, u, r.cursor, m, r.generation)
  <1>1. PICK q : q = [r EXCEPT !.billed = m]
    BY Zenon
  <1>2. q = SubOf(r.active, r.state, r.cursor, m, r.generation)
    BY <1>1, Zenon DEF SubOf, SubRow
  <1>3. [q EXCEPT !.state = u] = SubOf(r.active, u, r.cursor, m, r.generation)
    BY <1>2 DEF SubOf
  <1>4. [r EXCEPT !.billed = m, !.state = u] = [q EXCEPT !.state = u]
    BY <1>1, Zenon
  <1> QED  BY <1>3, <1>4, Zenon

LEMMA PubEnqueued ==
    ASSUME NEW r, PubRow(r), NEW u, NEW k
    PROVE  [r EXCEPT !.status = u, !.sequence = k] = PubOf(u, k, r.parent, r.level, r.budget)
  <1>1. PICK q : q = [r EXCEPT !.status = u]
    BY Zenon
  <1>2. q = PubOf(u, r.sequence, r.parent, r.level, r.budget)
    BY <1>1, Zenon DEF PubOf, PubRow
  <1>3. [q EXCEPT !.sequence = k] = PubOf(u, k, r.parent, r.level, r.budget)
    BY <1>2 DEF PubOf
  <1>4. [r EXCEPT !.status = u, !.sequence = k] = [q EXCEPT !.sequence = k]
    BY <1>1, Zenon
  <1> QED  BY <1>3, <1>4, Zenon

LEMMA CreditCharged ==
    ASSUME NEW r, CreditRow(r), NEW n, NEW S
    PROVE  [r EXCEPT !.balance = n, !.charged = S] = CreditOf(n, S, r.recharges)
  <1>1. PICK q : q = [r EXCEPT !.balance = n]
    BY Zenon
  <1>2. q = CreditOf(n, r.charged, r.recharges)
    BY <1>1, Zenon DEF CreditOf, CreditRow
  <1>3. [q EXCEPT !.charged = S] = CreditOf(n, S, r.recharges)
    BY <1>2 DEF CreditOf
  <1>4. [r EXCEPT !.balance = n, !.charged = S] = [q EXCEPT !.charged = S]
    BY <1>1, Zenon
  <1> QED  BY <1>3, <1>4, Zenon

LEMMA CreditRecharged ==
    ASSUME NEW r, CreditRow(r), NEW n, NEW S
    PROVE  [r EXCEPT !.balance = n, !.recharges = S] = CreditOf(n, r.charged, S)
  <1>1. PICK q : q = [r EXCEPT !.balance = n]
    BY Zenon
  <1>2. q = CreditOf(n, r.charged, r.recharges)
    BY <1>1, Zenon DEF CreditOf, CreditRow
  <1>3. [q EXCEPT !.recharges = S] = CreditOf(n, r.charged, S)
    BY <1>2 DEF CreditOf
  <1>4. [r EXCEPT !.balance = n, !.recharges = S] = [q EXCEPT !.recharges = S]
    BY <1>1, Zenon
  <1> QED  BY <1>3, <1>4, Zenon

LEMMA RowsAre ==
    ASSUME Base
    PROVE  /\ \A s \in Subscribers : SubRow(subs[s])
           /\ \A p \in Publications : PubRow(pubs[p])
           /\ CreditRow(credit)
  BY Zenon DEF Base, TypeOK, Heads, SubRow, PubRow, CreditRow, SubOf, PubOf, CreditOf

\* Reinstatement, the delivery of a bill, a charge and a recharge.
LEMMA Written ==
    ASSUME Base
    PROVE  /\ \A s \in Subscribers :
                  Reinstated(s) = SubOf(subs[s].active, "active", subs[s].cursor, 0, subs[s].generation)
           /\ \A n \in Nat : \A s \in Subscribers :
                  Billed(n)[s] = IF s \in Entitled /\ subs[s].cursor < n - 1
                                 THEN SubOf(subs[s].active,
                                            IF subs[s].billed + 1 >= DeliveryAttempts
                                            THEN "quarantined" ELSE "active",
                                            subs[s].cursor, subs[s].billed + 1, subs[s].generation)
                                 ELSE subs[s]
           /\ \A p : Charge(p) => credit' = CreditOf(credit.balance - 1, credit.charged \cup {p},
                                                     credit.recharges)
           /\ \A k : RechargeCredit(k) =>
                  credit' = CreditOf(credit.balance + 1, credit.charged, credit.recharges \cup {k})
  <1>1. ASSUME NEW s \in Subscribers
        PROVE  Reinstated(s) = SubOf(subs[s].active, "active", subs[s].cursor, 0, subs[s].generation)
    <2>1. PICK r : r = subs[s] /\ SubRow(r)
      BY RowsAre, Zenon
    <2>2. [r EXCEPT !.state = "active", !.billed = 0]
            = SubOf(r.active, "active", r.cursor, 0, r.generation)
      BY <2>1, SubReinstated, Zenon
    <2> QED  BY <2>1, <2>2, Zenon DEF Reinstated
  <1>2. ASSUME NEW n \in Nat, NEW s \in Subscribers
        PROVE  Billed(n)[s] = IF s \in Entitled /\ subs[s].cursor < n - 1
                              THEN SubOf(subs[s].active,
                                         IF subs[s].billed + 1 >= DeliveryAttempts
                                         THEN "quarantined" ELSE "active",
                                         subs[s].cursor, subs[s].billed + 1, subs[s].generation)
                              ELSE subs[s]
    <2>1. PICK r : r = subs[s] /\ SubRow(r)
      BY RowsAre, Zenon
    <2>2. PICK m : m = r.billed + 1
      BY Zenon
    <2>4. PICK u : u = IF r.billed + 1 >= DeliveryAttempts THEN "quarantined" ELSE r.state
      BY Zenon
    <2>5. [r EXCEPT !.billed = m, !.state = u] = SubOf(r.active, u, r.cursor, m, r.generation)
      BY <2>1, SubBilled, Zenon
    <2>6. s \in Entitled => u = IF r.billed + 1 >= DeliveryAttempts THEN "quarantined" ELSE "active"
      BY <2>1, <2>4, Zenon DEF Entitled
    <2>7. Billed(n)[s] = IF s \in Entitled /\ r.cursor < n - 1
                         THEN [r EXCEPT !.billed = m, !.state = u] ELSE r
      BY <2>1, <2>2, <2>4, Zenon DEF Billed
    <2> QED  BY <2>1, <2>2, <2>5, <2>6, <2>7, Zenon
  <1>3. ASSUME NEW p, Charge(p)
        PROVE  credit' = CreditOf(credit.balance - 1, credit.charged \cup {p}, credit.recharges)
    <2>1. PICK r, n, S : /\ r = credit /\ CreditRow(r) /\ n = credit.balance - 1
                         /\ S = credit.charged \cup {p}
      BY RowsAre, Zenon
    <2>0. CreditRow(r)
      BY <2>1, Zenon
    <2>2. [r EXCEPT !.balance = n, !.charged = S] = CreditOf(n, S, r.recharges)
      BY <2>0, CreditCharged, Zenon
    <2>3. credit' = [r EXCEPT !.balance = n, !.charged = S]
      BY <1>3, <2>1, Zenon DEF Charge
    <2> QED  BY <2>1, <2>2, <2>3, Zenon
  <1>4. ASSUME NEW k, RechargeCredit(k)
        PROVE  credit' = CreditOf(credit.balance + 1, credit.charged, credit.recharges \cup {k})
    <2>1. PICK r, n, S : /\ r = credit /\ CreditRow(r) /\ n = credit.balance + 1
                         /\ S = credit.recharges \cup {k}
      BY RowsAre, Zenon
    <2>0. CreditRow(r)
      BY <2>1, Zenon
    <2>2. [r EXCEPT !.balance = n, !.recharges = S] = CreditOf(n, r.charged, S)
      BY <2>0, CreditRecharged, Zenon
    <2>3. credit' = [r EXCEPT !.balance = n, !.recharges = S]
      BY <1>4, <2>1, Zenon DEF RechargeCredit
    <2> QED  BY <2>1, <2>2, <2>3, Zenon
  <1> QED  BY <1>1, <1>2, <1>3, <1>4, Zenon

LEMMA FreeFits ==
    ASSUME NEW n \in Nat
    PROVE  Fit(Free, n)
  BY DEF Fit, Free, Snapshot, NoSnapshot

\* The steps of a call that write a store and go on.
LEMMA WriteMoves ==
    ASSUME NEW w \in Workers, NEW r, r = worker[w], Framed(r)
    PROVE  /\ PublishRow(w) =>
                  \/ /\ IsFresh(r.id) /\ Admits(w) /\ Charge(r.id) /\ InsertPending(r.id, r.arg)
                     /\ Moves(w, Onward(r, "enqueue", r.arg, topic.generation, r.live))
                  \/ /\ UNCHANGED <<credit, pubs>> /\ pubs[r.id].status = "pending"
                     /\ Moves(w, Onward(r, "live", r.arg, r.bound, topic.generation))
                  \/ UNCHANGED <<credit, pubs>> /\ Moves(w, Free)
           /\ RebindChannelFence(w) =>
                  \/ Moves(w, Onward(r, "enqueue", r.arg, r.bound, r.live))
                  \/ Moves(w, Free)
           /\ EnqueueEntry(w) =>
                  IF EnqueueVerdict(r.id, r.bound, 1, None) \in {"enqueued", "replayed"}
                  THEN Moves(w, Onward(r, "commit", r.arg, EnqueuedAt(r.id), r.live))
                  ELSE Moves(w, Free)
           /\ AckRelease(w) =>
                  \/ Moves(w, Onward(r, "bound", r.arg, r.bound, r.live))
                  \/ Moves(w, Free)
           /\ TrimChannel(w) =>
                  \E to \in 0..r.bound :
                      /\ Compact(to)
                      /\ IF CompactVerdict(to) = "invalid" THEN Moves(w, Free)
                         ELSE Moves(w, Onward(r, "account", r.arg, TrimTarget(to), r.live))
  <1>1. ASSUME PublishRow(w)
        PROVE  \/ /\ IsFresh(r.id) /\ Admits(w) /\ Charge(r.id) /\ InsertPending(r.id, r.arg)
                  /\ Moves(w, Onward(r, "enqueue", r.arg, topic.generation, r.live))
               \/ /\ UNCHANGED <<credit, pubs>> /\ pubs[r.id].status = "pending"
                  /\ Moves(w, Onward(r, "live", r.arg, r.bound, topic.generation))
               \/ UNCHANGED <<credit, pubs>> /\ Moves(w, Free)
    <2>1. PICK a, c, n : a = "enqueue" /\ c = "live" /\ n = topic.generation
      BY Zenon
    <2>2. \/ /\ IsFresh(r.id) /\ Admits(w) /\ Charge(r.id) /\ InsertPending(r.id, r.arg)
             /\ worker' = [worker EXCEPT ![w] = [r EXCEPT !.at = a, !.bound = n]]
          \/ /\ UNCHANGED <<credit, pubs>> /\ pubs[r.id].status = "pending"
             /\ worker' = [worker EXCEPT ![w] = WithLive(r, c, n)]
          \/ UNCHANGED <<credit, pubs>> /\ Moves(w, Free)
      BY <1>1, <2>1, Zenon DEF PublishRow, Return, Moves, WithLive
    <2>3. [r EXCEPT !.at = a, !.bound = n] = Onward(r, a, r.arg, n, r.live)
      BY StepBound, Zenon
    <2>4. WithLive(r, c, n) = Onward(r, c, r.arg, r.bound, n)
      BY StepLive, Zenon
    <2> QED  BY <2>1, <2>2, <2>3, <2>4, Zenon DEF Moves
  <1>2. ASSUME RebindChannelFence(w)
        PROVE  \/ Moves(w, Onward(r, "enqueue", r.arg, r.bound, r.live))
               \/ Moves(w, Free)
    <2>1. [r EXCEPT !.at = "enqueue"] = Onward(r, "enqueue", r.arg, r.bound, r.live)
      BY StepTo, Zenon
    <2>2. \/ worker' = [worker EXCEPT ![w] = [r EXCEPT !.at = "enqueue"]]
          \/ Moves(w, Free)
      BY <1>2, Zenon DEF RebindChannelFence, Goto, Alarm, Return, Moves
    <2> QED  BY <2>1, <2>2, Zenon DEF Moves
  <1>3. ASSUME EnqueueEntry(w)
        PROVE  IF EnqueueVerdict(r.id, r.bound, 1, None) \in {"enqueued", "replayed"}
               THEN Moves(w, Onward(r, "commit", r.arg, EnqueuedAt(r.id), r.live))
               ELSE Moves(w, Free)
    <2>1. PICK a, n : a = "commit" /\ n = EnqueuedAt(r.id)
      BY Zenon
    <2>2. IF EnqueueVerdict(r.id, r.bound, 1, None) \in {"enqueued", "replayed"}
          THEN worker' = [worker EXCEPT ![w] = [r EXCEPT !.at = a, !.bound = n]]
          ELSE Moves(w, Free)
      BY <1>3, <2>1, Zenon DEF EnqueueEntry, Return, Moves
    <2>3. [r EXCEPT !.at = a, !.bound = n] = Onward(r, a, r.arg, n, r.live)
      BY StepBound, Zenon
    <2> QED  BY <2>1, <2>2, <2>3, Zenon DEF Moves
  <1>4. ASSUME AckRelease(w)
        PROVE  \/ Moves(w, Onward(r, "bound", r.arg, r.bound, r.live))
               \/ Moves(w, Free)
    <2>1. [r EXCEPT !.at = "bound"] = Onward(r, "bound", r.arg, r.bound, r.live)
      BY StepTo, Zenon
    <2>2. \/ worker' = [worker EXCEPT ![w] = [r EXCEPT !.at = "bound"]]
          \/ Moves(w, Free)
      BY <1>4, Zenon DEF AckRelease, Goto, Return, Moves
    <2> QED  BY <2>1, <2>2, Zenon DEF Moves
  <1>5. ASSUME TrimChannel(w)
        PROVE  \E to \in 0..r.bound :
                   /\ Compact(to)
                   /\ IF CompactVerdict(to) = "invalid" THEN Moves(w, Free)
                      ELSE Moves(w, Onward(r, "account", r.arg, TrimTarget(to), r.live))
    <2>1. PICK to \in 0..r.bound :
              /\ Compact(to)
              /\ IF CompactVerdict(to) = "invalid" THEN Return(w)
                 ELSE worker' = [worker EXCEPT ![w].at = "account", ![w].bound = TrimTarget(to)]
      BY <1>5, Zenon DEF TrimChannel
    <2>2. PICK a, n : a = "account" /\ n = TrimTarget(to)
      BY Zenon
    <2>3. IF CompactVerdict(to) = "invalid" THEN Moves(w, Free)
          ELSE worker' = [worker EXCEPT ![w] = [r EXCEPT !.at = a, !.bound = n]]
      BY <2>1, <2>2, Zenon DEF Return, Moves
    <2>4. [r EXCEPT !.at = a, !.bound = n] = Onward(r, a, r.arg, n, r.live)
      BY StepBound, Zenon
    <2>5. IF CompactVerdict(to) = "invalid" THEN Moves(w, Free)
          ELSE Moves(w, Onward(r, "account", r.arg, TrimTarget(to), r.live))
      BY <2>2, <2>3, <2>4, Zenon DEF Moves
    <2> QED  BY <2>1, <2>5, Zenon
  <1> QED  BY <1>1, <1>2, <1>3, <1>4, <1>5, Zenon

-----------------------------------------------------------------------------
(* The types hold through every step.                                      *)

LEMMA BaseChannel ==
    ASSUME Base, NEW w \in Workers, EnqueueEntry(w) \/ AckRelease(w) \/ TrimChannel(w)
    PROVE  Base'
  <1>0. PICK r : r = worker[w] /\ Framed(r) /\ Fit(r, issued)
    BY Zenon DEF Base, Crew, Fit, Framed
  <1>1. issued \in Nat /\ 1 \in Nat
    BY Zenon DEF Base, QueueInv, QueueShape
  <1>2. ASSUME QueueInv', issued' \in Nat, issued <= issued', UNCHANGED topicVars, UNCHANGED alarms,
               copies' \in [Publications -> Nat], NEW q, Fit(q, issued'), Moves(w, q)
        PROVE  Base'
    <2>1. Crew'
      BY <1>1, <1>2, CrewStep, Zenon DEF Base
    <2>2. TypeOK'
      BY <1>2, Zenon DEF Base, TypeOK, topicVars
    <2>3. Heads'
      BY <1>1, <1>2 DEF Base, Heads, TypeOK, topicVars
    <2> QED  BY <1>2, <2>1, <2>2, <2>3, Zenon DEF Base
  <1>3. CASE EnqueueEntry(w)
    <2>0. r.id \in Publications
      BY <1>0, <1>3, Zenon DEF EnqueueEntry, Fit
    <2>1. QueueInv'
      BY <1>0, <1>1, <1>3, EnqueueKeeps, Zenon DEF Base, EnqueueEntry
    <2>2. issued' \in Nat /\ issued <= issued' /\ EnqueuedAt(r.id) \in Nat
      <3>1. NextSequence = issued + 1
        BY WrittenIsIssued, Zenon DEF Base, QueueInv, NextSequence
      <3>2. EntriesUnder(r.id) \subseteq Nat
        BY DEF EntriesUnder, Base, QueueInv, QueueShape, Sequenced
      <3> QED  BY <1>1, <1>3, <3>1, <3>2 DEF EnqueueEntry, Enqueue, EnqueuedAt
    <2>3. copies' \in [Publications -> Nat]
      BY <1>0, <1>3, <2>0 DEF EnqueueEntry, Base, Heads
    <2>4. PICK n \in Nat : n = EnqueuedAt(r.id)
      BY <2>2, Zenon
    <2>5. Fit(Onward(r, "commit", r.arg, n, r.live), issued') /\ Fit(Free, issued')
      BY <1>0, <1>1, <2>0, <2>2, FreeFits DEF Fit, Onward, Snapshot
    <2>6. Moves(w, Onward(r, "commit", r.arg, n, r.live)) \/ Moves(w, Free)
      BY <1>0, <1>3, <2>4, WriteMoves, Zenon
    <2> QED  BY <1>2, <1>3, <2>1, <2>2, <2>3, <2>5, <2>6, Zenon DEF EnqueueEntry
  <1>4. CASE AckRelease(w)
    <2>0. r.arg \in Nat
      BY <1>0, <1>4, Zenon DEF AckRelease, Fit
    <2>1. QueueInv' /\ issued' = issued
      BY <1>0, <1>4, <2>0, AckKeeps, Zenon DEF Base, AckRelease, Ack
    <2>2. Fit(Onward(r, "bound", r.arg, r.bound, r.live), issued') /\ Fit(Free, issued')
      BY <1>0, <1>1, <2>1, FreeFits, Zenon DEF Fit, Onward
    <2>3. Moves(w, Onward(r, "bound", r.arg, r.bound, r.live)) \/ Moves(w, Free)
      BY <1>0, <1>4, WriteMoves, Zenon
    <2> QED  BY <1>1, <1>2, <1>4, <2>1, <2>2, <2>3 DEF AckRelease, Base, Heads, history
  <1>5. CASE TrimChannel(w)
    <2>0. r.bound \in Nat
      BY <1>0, <1>5, Zenon DEF TrimChannel, Fit
    <2>1. PICK to \in 0..r.bound :
                /\ Compact(to)
                /\ \/ Moves(w, Free)
                   \/ Moves(w, Onward(r, "account", r.arg, TrimTarget(to), r.live))
      BY <1>0, <1>5, WriteMoves, Zenon
    <2>2. PICK n \in Nat : n = TrimTarget(to)
      BY <2>0, TrimTargetIs DEF Base
    <2>3. QueueInv' /\ issued' = issued
      <3>1. to \in Nat
        BY <2>0
      <3> QED  BY <2>1, <3>1, CompactKeeps, Zenon DEF Base, Compact
    <2>4. Fit(Onward(r, "account", r.arg, n, r.live), issued') /\ Fit(Free, issued')
      BY <1>0, <1>1, <2>3, FreeFits, Zenon DEF Fit, Onward
    <2> QED  BY <1>1, <1>2, <1>5, <2>1, <2>2, <2>3, <2>4 DEF TrimChannel, Base, Heads, history
  <1> QED  BY <1>3, <1>4, <1>5, Zenon

LEMMA PendingIs ==
    ASSUME Base, NEW p \in Publications, NEW parent \in {None} \cup (Publications \ {p}),
           ParentAdmits(parent), InsertPending(p, parent)
    PROVE  /\ pubs' = [q \in Publications |-> pubs'[q]]
           /\ pubs'[p] = PubOf("pending", 0, parent,
                               IF parent = None THEN 0 ELSE pubs[parent].level + 1, CascadeDepth)
           /\ parent # None =>
                  pubs'[parent] = PubOf(pubs[parent].status, pubs[parent].sequence, pubs[parent].parent,
                                        pubs[parent].level, pubs[parent].budget - 1)
           /\ \A q \in Publications \ {p, parent} : pubs'[q] = pubs[q]
  <1>1. /\ pubs' = [q \in Publications |-> pubs'[q]]
        /\ \A q \in Publications \ {p, parent} : pubs'[q] = pubs[q]
        /\ pubs'[p] = PubOf("pending", 0, parent,
                            IF parent = None THEN 0 ELSE pubs[parent].level + 1, CascadeDepth)
        /\ parent # None => pubs'[parent] = [pubs[parent] EXCEPT !.budget = @ - 1]
    BY Zenon DEF InsertPending, PubOf
  <1>2. ASSUME parent # None
        PROVE  [pubs[parent] EXCEPT !.budget = @ - 1]
               = PubOf(pubs[parent].status, pubs[parent].sequence, pubs[parent].parent,
                       pubs[parent].level, pubs[parent].budget - 1)
    <2>1. PubRow(pubs[parent])
      BY <1>2, RowsAre, Zenon
    <2> QED  BY <2>1 DEF PubRow, PubOf
  <1> QED  BY <1>1, <1>2, Zenon

LEMMA BasePublishes ==
    ASSUME Base, NEW w \in Workers, PublishRow(w) \/ RebindChannelFence(w)
    PROVE  Base'
  <1>0. PICK r : r = worker[w] /\ Framed(r) /\ Fit(r, issued)
    BY Zenon DEF Base, Crew, Fit, Framed
  <1>1. issued \in Nat /\ r.id \in Publications /\ issued' = issued
    BY <1>0, Zenon DEF Base, QueueInv, QueueShape, Fit, PublishRow, RebindChannelFence, channelVars
  <1>2. QueueInv'
    BY QueueUntouched, Zenon DEF Base, PublishRow, RebindChannelFence, channelVars
  <1>3. CASE PublishRow(w)
    <2>1. r.arg \in {None} \cup (Publications \ {r.id})
      BY <1>0, <1>3, Zenon DEF Fit, PublishRow
    <2>2. /\ Fit(Onward(r, "enqueue", r.arg, topic.generation, r.live), issued')
          /\ Fit(Onward(r, "live", r.arg, r.bound, topic.generation), issued')
          /\ Fit(Free, issued')
      BY <1>0, <1>1, FreeFits, Zenon DEF Fit, Onward
    <2>3. PICK q : Moves(w, q) /\ Fit(q, issued')
      BY <1>0, <1>3, <2>2, WriteMoves, Zenon
    <2>4. Crew'
      BY <1>1, <2>3, CrewStep DEF Base
    <2>5. \/ ParentAdmits(r.arg) /\ credit.balance >= 1 /\ Charge(r.id) /\ InsertPending(r.id, r.arg)
          \/ UNCHANGED <<credit, pubs>>
      BY <1>0, <1>3, WriteMoves, Zenon DEF Admits
    <2>6. CASE UNCHANGED <<credit, pubs>>
      BY <1>2, <1>3, <2>4, <2>6, Zenon DEF Base, TypeOK, Heads, PublishRow, channelVars, history
    <2>7. CASE ParentAdmits(r.arg) /\ credit.balance >= 1 /\ Charge(r.id) /\ InsertPending(r.id, r.arg)
      <3>1. /\ pubs' = [q2 \in Publications |-> pubs'[q2]]
            /\ \A q2 \in Publications :
                   pubs'[q2] \in PubType
        <4>1. /\ pubs' = [q2 \in Publications |-> pubs'[q2]]
              /\ pubs'[r.id] = PubOf("pending", 0, r.arg,
                                  IF r.arg = None THEN 0 ELSE pubs[r.arg].level + 1, CascadeDepth)
              /\ r.arg # None =>
                     pubs'[r.arg] = PubOf(pubs[r.arg].status, pubs[r.arg].sequence, pubs[r.arg].parent,
                                        pubs[r.arg].level, pubs[r.arg].budget - 1)
              /\ \A q2 \in Publications \ {r.id, r.arg} : pubs'[q2] = pubs[q2]
          BY <1>1, <2>1, <2>7, PendingIs, Zenon
        <4>2. CascadeDepth \in Nat
          BY TopicBoundAssumption, Zenon
        <4>3. r.arg # None => /\ r.arg \in Publications
                              /\ pubs[r.arg].level + 1 <= CascadeDepth /\ pubs[r.arg].budget > 0
          BY <2>1, <2>7, Zenon DEF ParentAdmits
        <4>4. pubs'[r.id] \in PubType
          BY <1>1, <2>1, <4>1, <4>2, <4>3 DEF Base, TypeOK, PubOf, PubType
        <4>5. r.arg # None =>
                 pubs'[r.arg] \in PubType
          BY <4>1, <4>2, <4>3 DEF Base, TypeOK, PubOf, PubType
        <4>6. \A q2 \in Publications : pubs[q2] \in PubType
          BY Zenon DEF Base, TypeOK, PubType
        <4> QED  BY <4>1, <4>4, <4>5, <4>6, TopicBoundAssumption, Zenon
      <3>2. credit' = CreditOf(credit.balance - 1, credit.charged \cup {r.id}, credit.recharges)
        BY <2>7, Written, Zenon
      <3>3. TypeOK'
        BY <1>1, <1>3, <2>7, <3>1, <3>2 DEF Base, TypeOK, CreditOf, PubType, PublishRow, history
      <3>4. Heads'
        BY <1>1, <1>3, <3>2, Zenon DEF Base, Heads, CreditOf, PublishRow, history
      <3> QED  BY <1>2, <2>4, <3>3, <3>4, Zenon DEF Base
    <2> QED  BY <2>5, <2>6, <2>7, Zenon
  <1>4. CASE RebindChannelFence(w)
    <2>1. /\ Fit(Onward(r, "enqueue", r.arg, r.bound, r.live), issued')
          /\ Fit(Free, issued')
      BY <1>0, <1>1, FreeFits, Zenon DEF Fit, Onward
    <2>2. PICK q : Moves(w, q) /\ Fit(q, issued')
      BY <1>0, <1>4, <2>1, WriteMoves, Zenon
    <2>3. Crew'
      BY <1>1, <2>2, CrewStep DEF Base
    <2>4. alarms' \subseteq {"advance", "attribution", "commit", "rebind"}
      BY <1>4, Zenon DEF RebindChannelFence, Alarm, Base, TypeOK
    <2>5. TypeOK'
      BY <1>4, <2>4, Zenon DEF RebindChannelFence, Base, TypeOK
    <2>6. Heads'
      BY <1>1, <1>4, Zenon DEF RebindChannelFence, Base, Heads
    <2> QED  BY <1>2, <2>3, <2>5, <2>6, Zenon DEF Base
  <1> QED  BY <1>3, <1>4, Zenon

\* The association of the entry with its row, and the bill it sends.
LEMMA CommitIs ==
    ASSUME Base, NEW w \in Workers, PublishCommit(w), pubs[worker[w].id].status = "pending"
    PROVE  /\ worker[w].id \in Publications /\ worker[w].bound \in Nat
           /\ pubs' = [q \in Publications |-> pubs'[q]]
           /\ pubs'[worker[w].id] =
                  PubOf("enqueued", worker[w].bound, pubs[worker[w].id].parent,
                        pubs[worker[w].id].level, pubs[worker[w].id].budget)
           /\ \A q \in Publications \ {worker[w].id} : pubs'[q] = pubs[q]
           /\ subs' = Billed(worker[w].bound)
           /\ owed' = (IF worker[w].bound <= queue.trim THEN owed \cup {worker[w].bound} ELSE owed)
           /\ UNCHANGED alarms
  <1>1. PICK p, n, r : /\ p = worker[w].id /\ n = worker[w].bound /\ p \in Publications /\ n \in Nat
                       /\ r = pubs[p] /\ PubRow(r)
    BY RowsAre, Zenon DEF Base, Crew, Fit, PublishCommit
  <1>2. /\ pubs' = [pubs EXCEPT ![p].status = "enqueued", ![p].sequence = n]
        /\ subs' = Billed(n) /\ UNCHANGED alarms
        /\ owed' = IF n <= queue.trim THEN owed \cup {n} ELSE owed
    BY <1>1, Zenon DEF PublishCommit
  <1>3. pubs = [q \in Publications |-> pubs[q]]
    BY Zenon DEF Base, TypeOK
  <1>4. /\ pubs' = [q \in Publications |-> pubs'[q]]
        /\ pubs'[p] = [r EXCEPT !.status = "enqueued", !.sequence = n]
        /\ \A q \in Publications \ {p} : pubs'[q] = pubs[q]
    BY <1>1, <1>2, <1>3, Zenon
  <1>5. PubRow(r)
    BY <1>1, Zenon
  <1>6. [r EXCEPT !.status = "enqueued", !.sequence = n]
            = PubOf("enqueued", n, r.parent, r.level, r.budget)
    BY <1>5, PubEnqueued, Zenon
  <1> QED  BY <1>1, <1>2, <1>4, <1>6, Zenon

LEMMA BaseCommits ==
    ASSUME Base, NEW w \in Workers, PublishCommit(w)
    PROVE  Base'
  <1>1. issued \in Nat /\ issued' = issued /\ QueueInv'
    BY QueueUntouched, Zenon DEF Base, QueueInv, QueueShape, PublishCommit, channelVars
  <1>2. Crew'
    BY <1>1, CrewStep, FreeFits DEF Base, PublishCommit, Return, Alarm, Moves
  <1>3. alarms' \subseteq {"advance", "attribution", "commit", "rebind"}
    BY Zenon DEF PublishCommit, Alarm, Base, TypeOK
  <1>4. CASE pubs[worker[w].id].status = "pending"
    <2>1. \A q \in Publications : pubs'[q] \in PubType
      <3>1. \A q \in Publications : pubs[q] \in PubType
        BY Zenon DEF Base, TypeOK, PubType
      <3>2. pubs'[worker[w].id] \in PubType
        <4>1. PICK n \in Nat, r \in PubType :
                  pubs'[worker[w].id] = PubOf("enqueued", n, r.parent, r.level, r.budget)
          BY <1>4, <3>1, CommitIs, Zenon
        <4> QED  BY <4>1 DEF PubType, PubOf
      <3> QED  BY <1>4, <3>1, <3>2, CommitIs, Zenon
    <2>2. /\ subs' = [s \in Subscribers |-> subs'[s]]
          /\ \A s \in Subscribers : subs'[s] \in SubType /\ subs'[s].cursor = subs[s].cursor
      <3>1. subs' = [s \in Subscribers |-> subs'[s]]
        BY <1>4, CommitIs, Zenon DEF Billed
      <3>2. \A s \in Subscribers : subs[s] \in SubType
        BY Zenon DEF Base, TypeOK, SubType
      <3>3. ASSUME NEW s \in Subscribers
            PROVE  subs'[s] \in SubType /\ subs'[s].cursor = subs[s].cursor
        <4>1. \/ subs'[s] = subs[s]
              \/ \E t \in {"active", "quarantined"} :
                    subs'[s] = SubOf(subs[s].active, t, subs[s].cursor, subs[s].billed + 1,
                                     subs[s].generation)
          <5>1. PICK n \in Nat : n = worker[w].bound /\ subs' = Billed(n)
            BY <1>4, CommitIs, Zenon
          <5>2. PICK b : b = Billed(n)[s]
            BY Zenon
          <5>3. \/ b = subs[s]
                \/ \E t \in {"active", "quarantined"} :
                      b = SubOf(subs[s].active, t, subs[s].cursor, subs[s].billed + 1,
                                subs[s].generation)
            BY <5>2, Written, Zenon
          <5> QED  BY <5>1, <5>2, <5>3, Zenon
        <4> QED  BY <3>2, <4>1 DEF SubType, SubOf
      <3> QED  BY <3>1, <3>3, Zenon
    <2>3. TypeOK'
      BY <1>3, <1>4, <2>1, <2>2, CommitIs, Zenon DEF Base, TypeOK, PubType, SubType, PublishCommit
    <2>4. Heads'
      BY <1>1, <2>2, Zenon DEF Base, Heads, PublishCommit
    <2> QED  BY <1>1, <1>2, <2>3, <2>4, Zenon DEF Base
  <1>5. CASE pubs[worker[w].id].status # "pending"
    BY <1>1, <1>2, <1>3, <1>5, Zenon DEF Base, TypeOK, Heads, PublishCommit
  <1> QED  BY <1>4, <1>5, Zenon

\* What a subscriber's call writes.
LEMMA SubscribeIs ==
    ASSUME Base, NEW w \in Workers, SubscribeCommit(w)
    PROVE  \/ UNCHANGED <<topic, subs, late>>
           \/ /\ worker[w].id \in Subscribers /\ ~subs[worker[w].id].active
              /\ ~(topic.active >= MaxRecipients)
              /\ worker[w].snapshot.max \in Nat /\ worker[w].snapshot.max <= issued
              /\ subs' = [s \in Subscribers |-> subs'[s]]
              /\ subs'[worker[w].id] = SubOf(TRUE, "active", worker[w].snapshot.max, 0,
                                             subs[worker[w].id].generation + 1)
              /\ \A s \in Subscribers \ {worker[w].id} : subs'[s] = subs[s]
              /\ topic' = [generation |-> topic.generation, active |-> topic.active + 1]
              /\ late' = IF JoinsLate(worker[w].snapshot.max)
                         THEN late \cup {worker[w].id} ELSE late \ {worker[w].id}
  <1> SUFFICES ASSUME ~UNCHANGED <<topic, subs, late>>
               PROVE  /\ worker[w].id \in Subscribers /\ ~subs[worker[w].id].active
                      /\ ~(topic.active >= MaxRecipients)
                      /\ worker[w].snapshot.max \in Nat /\ worker[w].snapshot.max <= issued
                      /\ subs' = [s \in Subscribers |-> subs'[s]]
                      /\ subs'[worker[w].id] = SubOf(TRUE, "active", worker[w].snapshot.max, 0,
                                                     subs[worker[w].id].generation + 1)
                      /\ \A s \in Subscribers \ {worker[w].id} : subs'[s] = subs[s]
                      /\ topic' = [generation |-> topic.generation, active |-> topic.active + 1]
                      /\ late' = IF JoinsLate(worker[w].snapshot.max)
                                 THEN late \cup {worker[w].id} ELSE late \ {worker[w].id}
    BY Zenon
  <1>1. PICK i, n : /\ i = worker[w].id /\ n = worker[w].snapshot.max
                    /\ i \in Subscribers /\ n \in Nat /\ n <= issued
    BY Zenon DEF Base, Crew, Fit, Snapshot, SubscribeCommit
  <1>2. /\ ~(subs[i].active \/ topic.active >= MaxRecipients)
        /\ subs' = [subs EXCEPT ![i] = [active |-> TRUE, state |-> "active", cursor |-> n,
                                        billed |-> 0, generation |-> @.generation + 1]]
        /\ topic' = [topic EXCEPT !.active = @ + 1]
        /\ late' = IF JoinsLate(n) THEN late \cup {i} ELSE late \ {i}
    BY <1>1, Zenon DEF SubscribeCommit, SubscribePoint
  <1>3. /\ subs' = [s \in Subscribers |-> subs'[s]]
        /\ subs'[i] = SubOf(TRUE, "active", n, 0, subs[i].generation + 1)
        /\ \A s \in Subscribers \ {i} : subs'[s] = subs[s]
    BY <1>1, <1>2, Zenon DEF Base, TypeOK, SubOf
  <1>4. topic' = [generation |-> topic.generation, active |-> topic.active + 1]
    BY <1>2, Zenon DEF Base, Heads
  <1> QED  BY <1>1, <1>2, <1>3, <1>4, Zenon

LEMMA AdvanceIs ==
    ASSUME Base, NEW w \in Workers, AdvanceCommit(w)
    PROVE  /\ worker[w].id \in Subscribers
           /\ \/ UNCHANGED <<subs, ledger>>
              \/ /\ worker[w].arg \in Nat /\ subs[worker[w].id].cursor < worker[w].arg
                 /\ worker[w].arg <= issued
                 /\ subs' = [s \in Subscribers |-> subs'[s]]
                 /\ subs'[worker[w].id] =
                        SubOf(subs[worker[w].id].active, subs[worker[w].id].state, worker[w].arg,
                              subs[worker[w].id].billed, subs[worker[w].id].generation)
                 /\ \A s \in Subscribers \ {worker[w].id} : subs'[s] = subs[s]
                 /\ ledger' = ledger \cup
                        [sequence : Crossed(subs[worker[w].id].cursor, worker[w].arg,
                                            worker[w].snapshot.trim), kind : {"attributed"}]
  <1>1. PICK i, n : /\ i = worker[w].id /\ n = worker[w].arg /\ i \in Subscribers /\ n \in Nat
                    /\ worker[w].snapshot.max \in Nat /\ worker[w].snapshot.max <= issued
    BY Zenon DEF Base, Crew, Fit, Snapshot, AdvanceCommit
  <1>2. SUFFICES ASSUME ~UNCHANGED <<subs, ledger>>
                 PROVE  /\ subs[i].cursor < n /\ n <= issued
                        /\ subs' = [s \in Subscribers |-> subs'[s]]
                        /\ subs'[i] = SubOf(subs[i].active, subs[i].state, n, subs[i].billed,
                                            subs[i].generation)
                        /\ \A s \in Subscribers \ {i} : subs'[s] = subs[s]
                        /\ ledger' = ledger \cup [sequence : Crossed(subs[i].cursor, n,
                                                      worker[w].snapshot.trim), kind : {"attributed"}]
    BY <1>1, Zenon
  <1>3. /\ subs[i].cursor < n /\ n <= worker[w].snapshot.max
        /\ subs' = [subs EXCEPT ![i].cursor = n]
        /\ ledger' = ledger \cup [sequence : Crossed(subs[i].cursor, n, worker[w].snapshot.trim),
                                  kind : {"attributed"}]
    BY <1>1, <1>2, Zenon DEF AdvanceCommit
  <1>4. PICK r : r = subs[i] /\ SubRow(r)
    BY <1>1, RowsAre, Zenon
  <1>5. [r EXCEPT !.cursor = n] = SubOf(r.active, r.state, n, r.billed, r.generation)
    BY <1>4 DEF SubRow, SubOf
  <1>6. /\ subs' = [s \in Subscribers |-> subs'[s]] /\ subs'[i] = [r EXCEPT !.cursor = n]
        /\ \A s \in Subscribers \ {i} : subs'[s] = subs[s]
    BY <1>1, <1>3, <1>4, Zenon DEF Base, TypeOK
  <1>7. n <= issued
    BY <1>1, <1>3 DEF Base, QueueInv, QueueShape
  <1> QED  BY <1>3, <1>4, <1>5, <1>6, <1>7, Zenon

LEMMA RowsTyped ==
    ASSUME NEW S, S \subseteq Nat, NEW k \in {"attributed", "unallocated"}
    PROVE  [sequence : S, kind : {k}] \subseteq [sequence : Nat, kind : {"attributed", "unallocated"}]
  BY Zenon

LEMMA BaseSubscribers ==
    ASSUME Base, NEW w \in Workers, SubscribeCommit(w) \/ AdvanceCommit(w)
    PROVE  Base'
  <1>1. issued \in Nat /\ issued' = issued /\ QueueInv'
    BY QueueUntouched, Zenon DEF Base, QueueInv, QueueShape, SubscribeCommit, AdvanceCommit, channelVars
  <1>2. Crew'
    <2>1. Moves(w, Free)
      BY Zenon DEF SubscribeCommit, AdvanceCommit, Return, Alarm, Moves
    <2>2. issued <= issued' /\ Fit(Free, issued')
      BY <1>1, FreeFits
    <2> QED  BY <1>1, <2>1, <2>2, CrewStep, Zenon DEF Base
  <1>3. \A s \in Subscribers : subs[s] \in SubType /\ subs[s].cursor <= issued
    BY Zenon DEF Base, TypeOK, SubType, Heads
  <1>4. /\ subs' = [s \in Subscribers |-> subs'[s]]
        /\ \A s \in Subscribers : subs'[s] \in SubType /\ subs'[s].cursor <= issued
    <2>1. CASE UNCHANGED subs
      BY <1>3, <2>1, Zenon DEF Base, TypeOK
    <2>2. CASE SubscribeCommit(w) /\ ~UNCHANGED subs
      <3>1. PICK n, g \in Nat : /\ subs'[worker[w].id] = SubOf(TRUE, "active", n, 0, g)
                                /\ n <= issued
        <4>1. \A s \in Subscribers : subs[s].generation + 1 \in Nat
          BY <1>3 DEF SubType
        <4> QED  BY <2>2, <4>1, SubscribeIs, Zenon
      <3>2. subs'[worker[w].id] \in SubType /\ subs'[worker[w].id].cursor <= issued
        BY <3>1 DEF SubType, SubOf
      <3> QED  BY <1>3, <2>2, <3>2, SubscribeIs, Zenon
    <2>3. CASE AdvanceCommit(w) /\ ~UNCHANGED subs
      <3>1. PICK n \in Nat, r \in SubType :
                /\ subs'[worker[w].id] = SubOf(r.active, r.state, n, r.billed, r.generation)
                /\ n <= issued
        BY <1>3, <2>3, AdvanceIs, Zenon
      <3>2. subs'[worker[w].id] \in SubType /\ subs'[worker[w].id].cursor <= issued
        BY <3>1 DEF SubType, SubOf
      <3> QED  BY <1>3, <2>3, <3>2, AdvanceIs, Zenon
    <2> QED  BY <2>1, <2>2, <2>3, Zenon
  <1>5. ledger' \subseteq [sequence : Nat, kind : {"attributed", "unallocated"}]
    <2>1. CASE SubscribeCommit(w)
      BY <2>1, Zenon DEF SubscribeCommit, Base, TypeOK
    <2>2. CASE AdvanceCommit(w)
      <3>1. PICK S : /\ S \subseteq Nat
                     /\ \/ UNCHANGED ledger
                        \/ ledger' = ledger \cup [sequence : S, kind : {"attributed"}]
        <4>1. Crossed(subs[worker[w].id].cursor, worker[w].arg, worker[w].snapshot.trim) \subseteq Nat
          BY DEF Crossed, Enqueued, Base, TypeOK
        <4> QED  BY <2>2, <4>1, AdvanceIs, Zenon
      <3> QED  BY <3>1, RowsTyped, Zenon DEF Base, TypeOK
    <2> QED  BY <2>1, <2>2, Zenon
  <1>6. alarms' \subseteq {"advance", "attribution", "commit", "rebind"}
    BY Zenon DEF SubscribeCommit, AdvanceCommit, Alarm, Base, TypeOK
  <1>7. TypeOK'
    BY <1>4, <1>5, <1>6, Zenon DEF SubscribeCommit, AdvanceCommit, Base, TypeOK, SubType
  <1>8. topic' = [generation |-> topic'.generation, active |-> topic'.active]
    <2>1. CASE SubscribeCommit(w)
      <3>1. \/ UNCHANGED topic
            \/ topic' = [generation |-> topic.generation, active |-> topic.active + 1]
        BY <2>1, SubscribeIs, Zenon
      <3> QED  BY <3>1, Zenon DEF Base, Heads
    <2>2. CASE AdvanceCommit(w)
      BY <2>2, Zenon DEF AdvanceCommit, Base, Heads
    <2> QED  BY <2>1, <2>2, Zenon
  <1>9. Heads'
    BY <1>1, <1>4, <1>8, Zenon DEF SubscribeCommit, AdvanceCommit, Base, Heads
  <1> QED  BY <1>1, <1>2, <1>7, <1>9, Zenon DEF Base

LEMMA BaseReturns ==
    ASSUME Base, NEW w \in Workers, RecordUnallocated(w) \/ CheckAttribution(w) \/ Abandon(w)
    PROVE  Base'
  <1>1. issued \in Nat /\ issued' = issued /\ QueueInv'
    BY QueueUntouched, Zenon DEF Base, QueueInv, QueueShape, RecordUnallocated, CheckAttribution,
       Abandon,
       channelVars
  <1>2. Crew'
    BY <1>1, CrewStep, FreeFits
    DEF Base, RecordUnallocated, CheckAttribution, Abandon, Return, Alarm, Moves
  <1>3. ledger' \subseteq [sequence : Nat, kind : {"attributed", "unallocated"}]
    <2>1. PICK S : /\ S \subseteq Nat
                   /\ UNCHANGED ledger \/ ledger' = ledger \cup [sequence : S, kind : {"unallocated"}]
      <3>1. Uncovered(worker[w].bound) \subseteq Nat
        BY DEF Uncovered, Enqueued, Base, TypeOK
      <3> QED  BY <3>1, Zenon DEF RecordUnallocated, CheckAttribution, Abandon, topicVars
    <2> QED  BY <2>1, RowsTyped, Zenon DEF Base, TypeOK
  <1>4. alarms' \subseteq {"advance", "attribution", "commit", "rebind"}
    BY Zenon DEF RecordUnallocated, CheckAttribution, Abandon, Alarm, Base, TypeOK, history
  <1>5. TypeOK'
    BY <1>3, <1>4, Zenon DEF Base, TypeOK, RecordUnallocated, CheckAttribution, Abandon, topicVars
  <1>6. Heads'
    BY <1>1, Zenon DEF Base, Heads, RecordUnallocated, CheckAttribution, Abandon, topicVars, history
  <1> QED  BY <1>1, <1>2, <1>5, <1>6, Zenon DEF Base

LEMMA ChangeIs ==
    ASSUME Base, NEW s \in Subscribers
    PROVE  /\ Unsubscribe(s) =>
                  /\ subs' = [t \in Subscribers |-> subs'[t]]
                  /\ subs'[s] = SubOf(FALSE, subs[s].state, subs[s].cursor, subs[s].billed,
                                      subs[s].generation)
                  /\ topic' = [generation |-> topic.generation, active |-> topic.active - 1]
           /\ Reinstate(s) =>
                  /\ subs' = [t \in Subscribers |-> subs'[t]]
                  /\ subs'[s] = SubOf(TRUE, "active", subs[s].cursor, 0, subs[s].generation)
           /\ Unsubscribe(s) \/ Reinstate(s) => \A t \in Subscribers \ {s} : subs'[t] = subs[t]
  <1>0. subs = [t \in Subscribers |-> subs[t]] /\ SubRow(subs[s])
    BY RowsAre, Zenon DEF Base, TypeOK
  <1>1. ASSUME Unsubscribe(s)
        PROVE  /\ subs' = [t \in Subscribers |-> subs'[t]]
               /\ subs'[s] = SubOf(FALSE, subs[s].state, subs[s].cursor, subs[s].billed,
                                   subs[s].generation)
               /\ topic' = [generation |-> topic.generation, active |-> topic.active - 1]
               /\ \A t \in Subscribers \ {s} : subs'[t] = subs[t]
    <2>1. /\ subs' = [t \in Subscribers |-> subs'[t]]
          /\ subs'[s] = [subs[s] EXCEPT !.active = FALSE]
          /\ \A t \in Subscribers \ {s} : subs'[t] = subs[t]
      BY <1>0, <1>1, Zenon DEF Unsubscribe
    <2>2. \A b : [subs[s] EXCEPT !.active = b] =
                     SubOf(b, subs[s].state, subs[s].cursor, subs[s].billed, subs[s].generation)
      BY <1>0 DEF SubRow, SubOf
    <2>3. topic' = [generation |-> topic.generation, active |-> topic.active - 1]
      BY <1>1, Zenon DEF Unsubscribe, Base, Heads
    <2> QED  BY <2>1, <2>2, <2>3, Zenon
  <1>2. ASSUME Reinstate(s)
        PROVE  /\ subs' = [t \in Subscribers |-> subs'[t]]
               /\ subs'[s] = SubOf(TRUE, "active", subs[s].cursor, 0, subs[s].generation)
               /\ \A t \in Subscribers \ {s} : subs'[t] = subs[t]
    <2>1. /\ subs' = [t \in Subscribers |-> subs'[t]] /\ subs'[s] = Reinstated(s)
          /\ \A t \in Subscribers \ {s} : subs'[t] = subs[t]
      BY <1>0, <1>2, Zenon DEF Reinstate
    <2>2. subs[s].active = TRUE
      BY <1>2, Zenon DEF Reinstate, Base, TypeOK
    <2>3. Reinstated(s) = SubOf(subs[s].active, "active", subs[s].cursor, 0, subs[s].generation)
      BY Written, Zenon
    <2> QED  BY <2>1, <2>2, <2>3, Zenon
  <1> QED  BY <1>1, <1>2, Zenon

LEMMA BaseChanges ==
    ASSUME Base,
           \/ \E s \in Subscribers : Unsubscribe(s) \/ Reinstate(s)
           \/ \E k \in RechargeKeys : RechargeCredit(k)
           \/ RotateChannel
    PROVE  Base'
  <1>1. issued \in Nat /\ issued' = issued /\ queue' = queue
    BY Zenon DEF Base, QueueInv, QueueShape, Unsubscribe, Reinstate, RechargeCredit, RotateChannel,
       Rotate,
       channelVars
  <1>2. QueueInv'
    BY <1>1, QueueUntouched, Zenon DEF Base
  <1>3. Crew'
    <2>1. worker' = worker
      BY Zenon DEF Unsubscribe, Reinstate, RechargeCredit, RotateChannel
    <2> QED  BY <1>1, <2>1, Zenon DEF Base, Crew
  <1>4. CASE \E s \in Subscribers : Unsubscribe(s) \/ Reinstate(s)
    <2>1. PICK s \in Subscribers : Unsubscribe(s) \/ Reinstate(s)
      BY <1>4, Zenon
    <2>2. \A t \in Subscribers : subs[t] \in SubType /\ subs[t].cursor <= issued
      BY Zenon DEF Base, TypeOK, SubType, Heads
    <2>3. subs'[s] \in SubType /\ subs'[s].cursor = subs[s].cursor
      <3>1. PICK r \in SubType, b \in BOOLEAN, u \in {"active", "quarantined"}, n \in Nat :
                /\ r = subs[s] /\ subs'[s] = SubOf(b, u, r.cursor, n, r.generation)
        <4>1. PICK r \in SubType : r = subs[s]
          BY <2>2, Zenon
        <4>2. r.state \in {"active", "quarantined"} /\ r.billed \in Nat
          BY <4>1, Zenon DEF SubType
        <4> QED  BY <2>1, <4>1, <4>2, ChangeIs, Zenon
      <3> QED  BY <3>1 DEF SubType, SubOf
    <2>4. /\ subs' = [t \in Subscribers |-> subs'[t]]
          /\ \A t \in Subscribers : subs'[t] \in SubType /\ subs'[t].cursor <= issued
      BY <2>1, <2>2, <2>3, ChangeIs, Zenon
    <2>5. TypeOK'
      BY <2>1, <2>4, Zenon DEF Base, TypeOK, SubType, Unsubscribe, Reinstate, history
    <2>6. topic' = [generation |-> topic'.generation, active |-> topic'.active]
      <3>1. UNCHANGED topic \/ topic' = [generation |-> topic.generation, active |-> topic.active - 1]
        BY <2>1, ChangeIs, Zenon DEF Reinstate
      <3> QED  BY <3>1, Zenon DEF Base, Heads
    <2>7. Heads'
      BY <1>1, <2>1, <2>4, <2>6, Zenon DEF Base, Heads, Unsubscribe, Reinstate, history
    <2> QED  BY <1>2, <1>3, <2>5, <2>7, Zenon DEF Base
  <1>5. CASE \E k \in RechargeKeys : RechargeCredit(k)
    <2>1. PICK k \in RechargeKeys : RechargeCredit(k)
      BY <1>5, Zenon
    <2>2. credit' = CreditOf(credit.balance + 1, credit.charged, credit.recharges \cup {k})
      BY <2>1, Written, Zenon
    <2>3. TypeOK'
      <3>1. credit'.balance = credit.balance + 1 /\ credit'.charged = credit.charged
        BY <2>2, Zenon DEF CreditOf
      <3>2. credit.balance \in Nat
        BY Zenon DEF Base, TypeOK
      <3>3. credit'.balance \in Nat
        BY <3>1, <3>2
      <3> QED  BY <2>1, <3>1, <3>3, Zenon DEF Base, TypeOK, RechargeCredit, history
    <2>4. Heads'
      BY <1>1, <2>1, <2>2, Zenon DEF Base, Heads, CreditOf, RechargeCredit, history
    <2> QED  BY <1>2, <1>3, <2>3, <2>4, Zenon DEF Base
  <1>6. CASE RotateChannel
    BY <1>1, <1>2, <1>3, <1>6, Zenon DEF Base, TypeOK, Heads, RotateChannel, topicVars, history
  <1> QED  BY <1>4, <1>5, <1>6, Zenon

LEMMA BaseStarts ==
    ASSUME Init
    PROVE  Base
  <1>1. QueueInv
    BY QueueStarts, Zenon DEF Init
  <1>2. Crew
    <2>1. Fit(Free, issued)
      BY FreeFits, Zenon DEF Init, ChannelInit
    <2> QED  BY <2>1, Zenon DEF Init, Crew
  <1>3. CascadeDepth \in Nat /\ CreditUnits \in Nat
    BY TopicBoundAssumption, Zenon
  <1>4. TypeOK
    BY <1>3 DEF Init, TypeOK, NoSub, NoPub
  <1>5. Heads
    BY DEF Init, ChannelInit, Heads, NoSub
  <1> QED  BY <1>1, <1>2, <1>4, <1>5, Zenon DEF Base

\* The kinds of step: a call begins, a call goes on, one transaction, one of
\* the channel owner's own.
Begins(w) ==
    \/ \E s \in Subscribers : Subscribe(w, s) \/ \E n \in 1..MaxWritten : Advance(w, s, n)
    \/ \E p \in Publications :
           \E parent \in {None} \cup (Publications \ {p}) : Publish(w, p, parent)
    \/ CompactTopic(w) \/ InspectAttribution(w)

Reads(w) == ReadLive(w) \/ ReadRelease(w) \/ ReadConsumed(w) \/ ReadBound(w) \/ ReadClamp(w)

Changes ==
    \/ \E s \in Subscribers : Unsubscribe(s) \/ Reinstate(s)
    \/ \E k \in RechargeKeys : RechargeCredit(k)
    \/ RotateChannel

Owners == \E n \in 1..MaxWritten : OwnerAck(n) \/ OwnerCompact(n)

LEMMA Steps ==
    ASSUME Next
    PROVE  \/ Changes \/ Owners
           \/ \E w \in Workers :
                  \/ Begins(w) \/ Reads(w) \/ SubscribeCommit(w) \/ PublishRow(w) \/ RebindChannelFence(w)
                  \/ EnqueueEntry(w) \/ PublishCommit(w) \/ AdvanceCommit(w) \/ AckRelease(w)
                  \/ TrimChannel(w) \/ RecordUnallocated(w) \/ CheckAttribution(w) \/ Abandon(w)
  BY Zenon DEF Next, WorkerStep, Begins, Reads, Changes, Owners

\* What the owner acknowledges or compacts up to has been written.
LEMMA OwnerNames ==
    ASSUME Base, Owners
    PROVE  \E n \in Nat : OwnerAck(n) \/ OwnerCompact(n)
  <1>1. MaxWritten \in Nat
    BY WrittenIsIssued, Zenon DEF Base, QueueInv, QueueShape
  <1>2. 1..MaxWritten \subseteq Nat
    BY <1>1
  <1> QED  BY <1>2, Zenon DEF Owners

LEMMA BaseOwners ==
    ASSUME Base, Owners
    PROVE  Base'
  <1>1. PICK n \in Nat : OwnerAck(n) \/ OwnerCompact(n)
    BY OwnerNames, Zenon
  <1>2. UNCHANGED <<topicVars, worker, copies, alarms>> /\ issued' = issued
    BY <1>1, Zenon DEF OwnerAck, OwnerCompact, Ack, Compact
  <1>3. QueueInv'
    BY <1>1, AckKeeps, CompactKeeps, Zenon DEF Base, OwnerAck, OwnerCompact
  <1>4. TypeOK' /\ Crew' /\ Heads'
    BY <1>2, Zenon DEF Base, TypeOK, Crew, Heads, topicVars
  <1> QED  BY <1>3, <1>4, Zenon DEF Base

LEMMA BaseNext ==
    ASSUME Base, [Next]_vars
    PROVE  Base'
  <1>1. CASE UNCHANGED vars
    <2>1. QueueInv'
      BY <1>1, QueueUntouched, Zenon DEF Base, vars, channelVars
    <2>2. TypeOK' /\ Crew' /\ Heads'
      BY <1>1, Zenon DEF Base, TypeOK, Crew, Heads, vars, channelVars, topicVars, history
    <2> QED  BY <2>1, <2>2, Zenon DEF Base
  <1>2. CASE Changes
    BY <1>2, BaseChanges, Zenon DEF Changes
  <1>4. CASE Owners
    BY <1>4, BaseOwners, Zenon
  <1>3. ASSUME NEW w \in Workers
        PROVE  /\ Begins(w) \/ Reads(w) => Base'
               /\ SubscribeCommit(w) \/ AdvanceCommit(w) => Base'
               /\ PublishRow(w) \/ RebindChannelFence(w) => Base'
               /\ EnqueueEntry(w) \/ AckRelease(w) \/ TrimChannel(w) => Base'
               /\ PublishCommit(w) => Base'
               /\ RecordUnallocated(w) \/ CheckAttribution(w) \/ Abandon(w) => Base'
    <2>1. Begins(w) => Base'
      BY BaseBegins, Zenon DEF Begins
    <2>2. Reads(w) => Base'
      BY BaseReads, Zenon DEF Reads
    <2>3. SubscribeCommit(w) \/ AdvanceCommit(w) => Base'
      BY BaseSubscribers, Zenon
    <2>4. PublishRow(w) \/ RebindChannelFence(w) => Base'
      BY BasePublishes, Zenon
    <2>5. EnqueueEntry(w) \/ AckRelease(w) \/ TrimChannel(w) => Base'
      BY BaseChannel, Zenon
    <2>6. PublishCommit(w) => Base'
      BY BaseCommits, Zenon
    <2>7. RecordUnallocated(w) \/ CheckAttribution(w) \/ Abandon(w) => Base'
      BY BaseReturns, Zenon
    <2> QED  BY <2>1, <2>2, <2>3, <2>4, <2>5, <2>6, <2>7, Zenon
  <1> QED  BY <1>1, <1>2, <1>3, <1>4, Steps, Zenon

-----------------------------------------------------------------------------
(* The books.                                                              *)

\* Charges, budgets and the two counters, of finitely many rows.
Charges ==
    /\ credit.charged = {p \in Publications : pubs[p].status # "none"}
    /\ IsFiniteSet(credit.charged) /\ IsFiniteSet(credit.recharges)
    /\ credit.balance + Cardinality(credit.charged) = CreditUnits + Cardinality(credit.recharges)

Budgets ==
    \A p \in Publications : pubs[p].status # "none" =>
        /\ pubs[p].parent # None => pubs[pubs[p].parent].status # "none"
        /\ IsFiniteSet(Children(p))
        /\ pubs[p].budget = CascadeDepth - Cardinality(Children(p))

Active == {s \in Subscribers : subs[s].active}
Counters ==
    /\ IsFiniteSet(Active) /\ topic.active = Cardinality(Active) /\ topic.active <= MaxRecipients
    /\ \A s \in Subscribers : subs[s].state = "quarantined" <=> subs[s].billed >= DeliveryAttempts

\* The fields of the rows and of what a call carries.
LEMMA FreeField == Free.at = "free"
  BY Zenon DEF Free

LEMMA BegunField == \A a, i, x, l : Begun(a, i, x, l).at = a
  BY Zenon DEF Begun

LEMMA OnwardFields ==
    \A r, a, x, b, l : /\ Onward(r, a, x, b, l).at = a /\ Onward(r, a, x, b, l).id = r.id
                       /\ Onward(r, a, x, b, l).arg = x /\ Onward(r, a, x, b, l).bound = b
  BY DEF Onward

LEMMA PubFields ==
    \A t, n, f, l, m : /\ PubOf(t, n, f, l, m).status = t /\ PubOf(t, n, f, l, m).sequence = n
                       /\ PubOf(t, n, f, l, m).parent = f /\ PubOf(t, n, f, l, m).budget = m
  BY DEF PubOf

LEMMA SubFields ==
    \A a, t, c, n, g : /\ SubOf(a, t, c, n, g).active = a /\ SubOf(a, t, c, n, g).state = t
                       /\ SubOf(a, t, c, n, g).cursor = c /\ SubOf(a, t, c, n, g).billed = n
  BY DEF SubOf

LEMMA CreditFields ==
    \A b, c, k : /\ CreditOf(b, c, k).balance = b /\ CreditOf(b, c, k).charged = c
                 /\ CreditOf(b, c, k).recharges = k
  BY Zenon DEF CreditOf

PubsKept ==
    \A p \in Publications : /\ pubs'[p].status = "none" <=> pubs[p].status = "none"
                            /\ pubs'[p].parent = pubs[p].parent /\ pubs'[p].budget = pubs[p].budget

\* A new row, with what it costs the payer and its parent.
Inserts(p, parent) ==
    /\ IsFresh(p) /\ ParentAdmits(parent) /\ credit.balance >= 1
    /\ credit' = CreditOf(credit.balance - 1, credit.charged \cup {p}, credit.recharges)
    /\ pubs'[p] = PubOf("pending", 0, parent,
                        IF parent = None THEN 0 ELSE pubs[parent].level + 1, CascadeDepth)
    /\ parent # None =>
           pubs'[parent] = PubOf(pubs[parent].status, pubs[parent].sequence, pubs[parent].parent,
                                 pubs[parent].level, pubs[parent].budget - 1)
    /\ \A q \in Publications \ {p, parent} : pubs'[q] = pubs[q]

Recharges(k) ==
    /\ k \notin credit.recharges
    /\ credit' = CreditOf(credit.balance + 1, credit.charged, credit.recharges \cup {k})

LEMMA JournalStep ==
    ASSUME Base, [Next]_vars
    PROVE  \/ \E p \in Publications : \E parent \in {None} \cup (Publications \ {p}) : Inserts(p, parent)
           \/ PubsKept /\ (UNCHANGED credit \/ \E k : Recharges(k))
  <1>1. CASE Changes \/ UNCHANGED vars
    <2>1. UNCHANGED pubs
      BY <1>1, Zenon DEF Changes, Unsubscribe, Reinstate, RechargeCredit, RotateChannel, vars, topicVars
    <2>2. UNCHANGED credit \/ \E k : Recharges(k)
      <3>1. CASE \E k \in RechargeKeys : RechargeCredit(k)
        BY <3>1, Written, Zenon DEF RechargeCredit, Recharges
      <3>2. CASE ~\E k \in RechargeKeys : RechargeCredit(k)
        BY <1>1, <3>2, Zenon DEF Changes, Unsubscribe, Reinstate, RotateChannel, vars, topicVars
      <3> QED  BY <3>1, <3>2, Zenon
    <2> QED  BY <2>1, <2>2, Zenon DEF PubsKept
  <1>2. ASSUME NEW w \in Workers,
               \/ Begins(w) \/ Reads(w) \/ SubscribeCommit(w) \/ RebindChannelFence(w)
               \/ EnqueueEntry(w) \/ AdvanceCommit(w) \/ AckRelease(w)
               \/ TrimChannel(w) \/ RecordUnallocated(w) \/ CheckAttribution(w) \/ Abandon(w)
        PROVE  PubsKept /\ UNCHANGED credit
    <2>1. CASE Begins(w) \/ Reads(w)
      BY <2>1, CallBegins, Zenon DEF Begins, Reads, ReadLive, ReadRelease, ReadConsumed, ReadBound,
         ReadClamp,
         OnlyWorkers, topicVars, PubsKept
    <2>2. CASE SubscribeCommit(w) \/ RebindChannelFence(w) \/ EnqueueEntry(w) \/ AdvanceCommit(w)
      BY <2>2, Zenon DEF SubscribeCommit, RebindChannelFence, EnqueueEntry, AdvanceCommit, topicVars,
         PubsKept
    <2>3. CASE AckRelease(w) \/ TrimChannel(w) \/ RecordUnallocated(w) \/ CheckAttribution(w)
               \/ Abandon(w)
      BY <2>3, Zenon DEF AckRelease, TrimChannel, RecordUnallocated, CheckAttribution, Abandon,
         topicVars,
         PubsKept
    <2> QED  BY <1>2, <2>1, <2>2, <2>3, Zenon
  <1>3. ASSUME NEW w \in Workers, PublishCommit(w)
        PROVE  PubsKept /\ UNCHANGED credit
    <2>1. UNCHANGED credit
      BY <1>3, Zenon DEF PublishCommit
    <2>2. CASE pubs[worker[w].id].status = "pending"
      <3>1. PICK p, n : /\ p = worker[w].id /\ p \in Publications /\ pubs[p].status = "pending"
                        /\ pubs'[p] = PubOf("enqueued", n, pubs[p].parent, pubs[p].level, pubs[p].budget)
                        /\ \A q \in Publications \ {p} : pubs'[q] = pubs[q]
        BY <1>3, <2>2, CommitIs, Zenon
      <3>2. PICK t, f, l, m : /\ t = PubOf("enqueued", n, f, l, m) /\ f = pubs[p].parent
                              /\ l = pubs[p].level /\ m = pubs[p].budget
        BY Zenon
      <3>3. t.status = "enqueued" /\ t.parent = f /\ t.budget = m
        BY <3>2, Zenon DEF PubOf
      <3>4. /\ pubs'[p].status # "none" /\ pubs[p].status # "none"
            /\ pubs'[p].parent = pubs[p].parent /\ pubs'[p].budget = pubs[p].budget
        BY <3>1, <3>2, <3>3, Zenon
      <3> QED  BY <2>1, <3>1, <3>4, Zenon DEF PubsKept
    <2>3. CASE pubs[worker[w].id].status # "pending"
      BY <1>3, <2>1, <2>3, Zenon DEF PublishCommit, PubsKept
    <2> QED  BY <2>2, <2>3, Zenon
  <1>4. ASSUME NEW w \in Workers, PublishRow(w)
        PROVE  \/ \E p \in Publications :
                      \E parent \in {None} \cup (Publications \ {p}) : Inserts(p, parent)
               \/ PubsKept /\ UNCHANGED credit
    <2>0. PICK r : r = worker[w] /\ Framed(r) /\ Fit(r, issued)
      BY Zenon DEF Base, Crew, Fit, Framed
    <2>1. /\ r.id \in Publications /\ r.arg \in {None} \cup (Publications \ {r.id})
      BY <1>4, <2>0, Zenon DEF PublishRow, Fit
    <2>2. CASE UNCHANGED <<credit, pubs>>
      BY <2>2, Zenon DEF PubsKept
    <2>3. CASE /\ IsFresh(r.id) /\ ParentAdmits(r.arg) /\ credit.balance >= 1 /\ Charge(r.id)
               /\ InsertPending(r.id, r.arg)
      BY <2>1, <2>3, PendingIs, Written DEF Inserts
    <2> QED  BY <1>4, <2>0, <2>2, <2>3, WriteMoves, Zenon DEF Admits
  <1>5. CASE Owners
    BY <1>5, Zenon DEF Owners, OwnerAck, OwnerCompact, topicVars, PubsKept
  <1> QED  BY <1>1, <1>2, <1>3, <1>4, <1>5, Steps, Zenon

\* The fields of the rows an insertion writes.
LEMMA InsertedAre ==
    ASSUME NEW p \in Publications, NEW parent, Inserts(p, parent)
    PROVE  /\ pubs[p].status = "none" /\ pubs'[p].status = "pending" /\ pubs'[p].parent = parent
           /\ pubs'[p].budget = CascadeDepth
           /\ parent # None => /\ pubs'[parent].status = pubs[parent].status
                               /\ pubs[parent].status = "enqueued"
                               /\ pubs'[parent].parent = pubs[parent].parent
                               /\ pubs'[parent].budget = pubs[parent].budget - 1
           /\ \A q \in Publications \ {p, parent} : pubs'[q] = pubs[q]
  <1>1. PICK l : l = IF parent = None THEN 0 ELSE pubs[parent].level + 1
    BY Zenon
  <1>2. PICK q : q = PubOf("pending", 0, parent, l, CascadeDepth)
    BY Zenon
  <1>3. pubs'[p] = q /\ pubs[p].status = "none" /\ \A o \in Publications \ {p, parent} : pubs'[o] = pubs[o]
    BY <1>1, <1>2, Zenon DEF Inserts, IsFresh
  <1>4. q.status = "pending" /\ q.parent = parent /\ q.budget = CascadeDepth
    BY <1>2, Zenon DEF PubOf
  <1>5. ASSUME parent # None
        PROVE  /\ pubs'[parent].status = pubs[parent].status /\ pubs[parent].status = "enqueued"
               /\ pubs'[parent].parent = pubs[parent].parent
               /\ pubs'[parent].budget = pubs[parent].budget - 1
    <2>1. PICK t, n, f, k, m : /\ t = pubs[parent].status /\ n = pubs[parent].sequence
                               /\ f = pubs[parent].parent /\ k = pubs[parent].level
                               /\ m = pubs[parent].budget - 1
      BY Zenon
    <2>2. pubs'[parent] = PubOf(t, n, f, k, m) /\ pubs[parent].status = "enqueued"
      BY <1>5, <2>1, Zenon DEF Inserts, ParentAdmits
    <2>3. PICK o : o = PubOf(t, n, f, k, m)
      BY Zenon
    <2>4. o.status = t /\ o.parent = f /\ o.budget = m
      BY <2>3, Zenon DEF PubOf
    <2> QED  BY <2>1, <2>2, <2>3, <2>4, Zenon
  <1> QED  BY <1>3, <1>4, <1>5, Zenon

LEMMA ChargesNext ==
    ASSUME Base, Charges, [Next]_vars
    PROVE  Charges'
  <1>0. /\ credit.balance \in Nat /\ Cardinality(credit.charged) \in Nat
        /\ Cardinality(credit.recharges) \in Nat /\ CreditUnits \in Nat
    BY FS_CardinalityType, TopicBoundAssumption, Zenon DEF Base, TypeOK, Charges
  <1>1. ASSUME NEW p \in Publications, NEW parent \in {None} \cup (Publications \ {p}),
               Inserts(p, parent)
        PROVE  Charges'
    <2>1. credit.charged \cup {p} = {q \in Publications : pubs'[q].status # "none"}
      <3>1. /\ pubs[p].status = "none" /\ pubs'[p].status = "pending"
            /\ parent # None => pubs'[parent].status = pubs[parent].status
        BY <1>1, InsertedAre, Zenon
      <3>2. \A q \in Publications \ {p, parent} : pubs'[q] = pubs[q]
        BY <1>1, Zenon DEF Inserts
      <3> QED  BY <3>1, <3>2, TopicBoundAssumption, Zenon DEF Charges
    <2>2. p \notin credit.charged
      BY <1>1, Zenon DEF Inserts, IsFresh, Charges
    <2>3. /\ IsFiniteSet(credit.charged \cup {p})
          /\ Cardinality(credit.charged \cup {p}) = Cardinality(credit.charged) + 1
      BY <2>2, FS_AddElement, Zenon DEF Charges
    <2>4. /\ credit'.balance = credit.balance - 1 /\ credit'.charged = credit.charged \cup {p}
          /\ credit'.recharges = credit.recharges
      <3>1. credit' = CreditOf(credit.balance - 1, credit.charged \cup {p}, credit.recharges)
        BY <1>1, Zenon DEF Inserts
      <3> QED  BY <3>1, Zenon DEF CreditOf
    <2>5. /\ credit.balance + Cardinality(credit.charged) = CreditUnits + Cardinality(credit.recharges)
          /\ IsFiniteSet(credit.recharges)
      BY Zenon DEF Charges
    <2>6. PICK b, c, g, n \in Nat : /\ b = credit.balance /\ c = Cardinality(credit.charged)
                                    /\ g = Cardinality(credit.recharges) /\ n = CreditUnits
      BY <1>0, Zenon
    <2>7. b + c = n + g /\ (b - 1) + (c + 1) = b + c
      BY <2>5, <2>6
    <2>8. credit'.balance + Cardinality(credit'.charged) = CreditUnits + Cardinality(credit'.recharges)
      BY <2>3, <2>4, <2>6, <2>7, Zenon
    <2> QED  BY <2>1, <2>3, <2>4, <2>5, <2>8, Zenon DEF Charges
  <1>2. ASSUME PubsKept, UNCHANGED credit \/ \E k : Recharges(k)
        PROVE  Charges'
    <2>1. {q \in Publications : pubs'[q].status # "none"} = {q \in Publications : pubs[q].status # "none"}
      BY <1>2, Zenon DEF PubsKept
    <2>2. CASE UNCHANGED credit
      BY <2>1, <2>2, Zenon DEF Charges
    <2>3. CASE \E k : Recharges(k)
      <3>1. PICK k : Recharges(k)
        BY <2>3, Zenon
      <3>2. /\ IsFiniteSet(credit.recharges \cup {k})
            /\ Cardinality(credit.recharges \cup {k}) = Cardinality(credit.recharges) + 1
        BY <3>1, FS_AddElement, Zenon DEF Charges, Recharges
      <3>3. /\ credit'.balance = credit.balance + 1 /\ credit'.charged = credit.charged
            /\ credit'.recharges = credit.recharges \cup {k}
        BY <3>1, CreditFields DEF Recharges
      <3>4. /\ credit.balance + Cardinality(credit.charged) = CreditUnits + Cardinality(credit.recharges)
            /\ IsFiniteSet(credit.charged)
            /\ credit.charged = {q \in Publications : pubs[q].status # "none"}
        BY Zenon DEF Charges
      <3>5. PICK b, c, g, n \in Nat : /\ b = credit.balance /\ c = Cardinality(credit.charged)
                                      /\ g = Cardinality(credit.recharges) /\ n = CreditUnits
        BY <1>0, Zenon
      <3>6. b + c = n + g /\ (b + 1) + c = n + (g + 1)
        BY <3>4, <3>5
      <3>7. credit'.balance + Cardinality(credit'.charged) = CreditUnits + Cardinality(credit'.recharges)
        BY <3>2, <3>3, <3>5, <3>6, Zenon
      <3> QED  BY <2>1, <3>2, <3>3, <3>4, <3>7, Zenon DEF Charges
    <2> QED  BY <1>2, <2>2, <2>3, Zenon
  <1> QED  BY <1>1, <1>2, JournalStep, Zenon

LEMMA BudgetsNext ==
    ASSUME Base, Budgets, [Next]_vars
    PROVE  Budgets'
  <1>1. ASSUME PubsKept
        PROVE  Budgets'
    <2>1. \A p \in Publications : Children(p)' = Children(p)
      BY <1>1, Zenon DEF PubsKept, Children
    <2>2. \A p \in Publications : pubs[p].parent # None => pubs[p].parent \in Publications
      BY Zenon DEF Base, TypeOK
    <2> QED  BY <1>1, <2>1, <2>2 DEF PubsKept, Budgets
  <1>2. ASSUME NEW p \in Publications, NEW parent \in {None} \cup (Publications \ {p}),
               Inserts(p, parent)
        PROVE  Budgets'
    <2>0. CascadeDepth \in Nat /\ None \notin Publications
      BY TopicBoundAssumption, Zenon
    <2>1. /\ pubs[p].status = "none" /\ pubs'[p].status = "pending" /\ pubs'[p].parent = parent
          /\ pubs'[p].budget = CascadeDepth
          /\ parent # None => /\ pubs'[parent].status = pubs[parent].status
                              /\ pubs[parent].status = "enqueued"
                              /\ pubs'[parent].parent = pubs[parent].parent
                              /\ pubs'[parent].budget = pubs[parent].budget - 1
          /\ \A q \in Publications \ {p, parent} : pubs'[q] = pubs[q]
      BY <1>2, InsertedAre, Zenon
    <2>2. \A q \in Publications : pubs[q].parent \in Publications \cup {None} /\ pubs[q].budget \in Int
      <3>1. \A q \in Publications : pubs[q] \in PubType
        BY Zenon DEF Base, TypeOK, PubType
      <3>2. \A r \in PubType : r.parent \in Publications \cup {None} /\ r.budget \in Int
        BY <2>0 DEF PubType
      <3> QED  BY <3>1, <3>2, Zenon
    <2>3. /\ Children(p)' = {}
          /\ parent # None => Children(parent)' = Children(parent) \cup {p} /\ p \notin Children(parent)
          /\ \A q \in Publications \ {p, parent} : Children(q)' = Children(q)
      <3>1. \A q \in Publications : pubs[q].status # "none" => pubs[q].parent # p
        BY <2>0, <2>1, Zenon DEF Budgets
      <3>2. \A q \in Publications \ {p} : /\ pubs'[q].status = pubs[q].status
                                          /\ pubs'[q].parent = pubs[q].parent
        BY <2>0, <2>1, Zenon
      <3>3. Children(p)' = {}
        BY <2>0, <2>1, <3>1, <3>2 DEF Children
      <3>4. parent # None => Children(parent)' = Children(parent) \cup {p} /\ p \notin Children(parent)
        BY <2>1, <3>2, Zenon DEF Children
      <3>5. \A q \in Publications \ {p, parent} : Children(q)' = Children(q)
        BY <2>1, <3>2, Zenon DEF Children
      <3> QED  BY <3>3, <3>4, <3>5, Zenon
    <2>4. IsFiniteSet({}) /\ Cardinality({}) = 0
      BY FS_EmptySet, Zenon
    <2>5. \A q \in Publications : pubs[q].status # "none" => pubs'[q].status # "none"
      BY <2>0, <2>1, Zenon
    <2>6. ASSUME NEW q \in Publications, pubs'[q].status # "none"
          PROVE  /\ pubs'[q].parent # None => pubs'[pubs'[q].parent].status # "none"
                 /\ IsFiniteSet(Children(q)')
                 /\ pubs'[q].budget = CascadeDepth - Cardinality(Children(q)')
      <3>1. CASE q = p
        BY <2>0, <2>1, <2>3, <2>4, <3>1
      <3>2. CASE q = parent /\ parent # None
        <4>1. /\ IsFiniteSet(Children(parent)) /\ Cardinality(Children(parent)) \in Nat
              /\ pubs[parent].budget = CascadeDepth - Cardinality(Children(parent))
          BY <2>1, <3>2, FS_CardinalityType, Zenon DEF Budgets
        <4>2. /\ IsFiniteSet(Children(parent) \cup {p})
              /\ Cardinality(Children(parent) \cup {p}) = Cardinality(Children(parent)) + 1
          BY <2>3, <3>2, <4>1, FS_AddElement, Zenon
        <4>3. pubs'[q].budget = CascadeDepth - Cardinality(Children(q)')
          <5>1. /\ pubs'[q].budget = pubs[parent].budget - 1
                /\ Children(q)' = Children(parent) \cup {p}
            BY <2>1, <2>3, <3>2, Zenon
          <5>2. pubs[parent].budget - 1 = CascadeDepth - Cardinality(Children(parent) \cup {p})
            BY <2>0, <4>1, <4>2
          <5> QED  BY <5>1, <5>2, Zenon
        <4>4. pubs'[q].parent # None => pubs'[pubs'[q].parent].status # "none"
          <5>1. pubs'[q].parent = pubs[q].parent /\ pubs[q].status # "none"
            BY <2>1, <3>2, Zenon
          <5>2. pubs[q].parent # None => /\ pubs[q].parent \in Publications
                                         /\ pubs[pubs[q].parent].status # "none"
            BY <2>2, <5>1, Zenon DEF Budgets
          <5> QED  BY <2>5, <5>1, <5>2, Zenon
        <4> QED  BY <2>3, <3>2, <4>2, <4>3, <4>4, Zenon
      <3>3. CASE q \notin {p, parent}
        <4>1. pubs'[q] = pubs[q] /\ Children(q)' = Children(q)
          BY <2>1, <2>3, <3>3, Zenon
        <4>2. /\ pubs[q].parent # None => /\ pubs[q].parent \in Publications
                                          /\ pubs[pubs[q].parent].status # "none"
              /\ IsFiniteSet(Children(q)) /\ pubs[q].budget = CascadeDepth - Cardinality(Children(q))
          BY <2>2, <2>6, <4>1, Zenon DEF Budgets
        <4> QED  BY <2>5, <4>1, <4>2, Zenon
      <3> QED  BY <2>0, <3>1, <3>2, <3>3, Zenon
    <2> QED  BY <2>6, Zenon DEF Budgets
  <1> QED  BY <1>1, <1>2, JournalStep, Zenon

\* What a step does to the subscriptions: it leaves the counters alone, or it
\* joins, ends or reinstates one row, or it bills rows for an attempt.
Joined(i) ==
    /\ ~subs[i].active /\ ~(topic.active >= MaxRecipients) /\ topic'.active = topic.active + 1
    /\ subs'[i].active /\ subs'[i].state = "active" /\ subs'[i].billed = 0
    /\ \A s \in Subscribers \ {i} : subs'[s] = subs[s]

Ended(i) ==
    /\ subs[i].active /\ topic'.active = topic.active - 1 /\ ~subs'[i].active
    /\ subs'[i].state = subs[i].state /\ subs'[i].billed = subs[i].billed
    /\ \A s \in Subscribers \ {i} : subs'[s] = subs[s]

Judged ==
    /\ topic'.active = topic.active
    /\ \A s \in Subscribers :
           /\ subs'[s].active = subs[s].active
           /\ \/ subs'[s].state = subs[s].state /\ subs'[s].billed = subs[s].billed
              \/ subs'[s].state = "active" /\ subs'[s].billed = 0
              \/ subs'[s].state = IF subs'[s].billed >= DeliveryAttempts THEN "quarantined" ELSE "active"

LEMMA SubscriptionStep ==
    ASSUME Base, [Next]_vars
    PROVE  \/ Judged
           \/ \E i \in Subscribers : Joined(i) \/ Ended(i)
  <1>0. ASSUME UNCHANGED subs, topic'.active = topic.active
        PROVE  Judged
    BY <1>0, Zenon DEF Judged
  <1>1. CASE Changes \/ UNCHANGED vars
    <2>1. ASSUME NEW i \in Subscribers, Unsubscribe(i)
          PROVE  Ended(i)
      <3>1. topic'.active = topic.active - 1 /\ \A s \in Subscribers \ {i} : subs'[s] = subs[s]
        <4>1. PICK g, n : g = topic.generation /\ n = topic.active - 1
          BY Zenon
        <4>2. /\ topic' = [generation |-> g, active |-> n]
              /\ \A s \in Subscribers \ {i} : subs'[s] = subs[s]
          BY <2>1, <4>1, ChangeIs, Zenon
        <4> QED  BY <4>1, <4>2, Zenon
      <3>2. /\ subs[i].active /\ ~subs'[i].active
            /\ subs'[i].state = subs[i].state /\ subs'[i].billed = subs[i].billed
        BY <2>1, Zenon DEF Unsubscribe, Base, TypeOK
      <3> QED  BY <3>1, <3>2, Zenon DEF Ended
    <2>2. ASSUME NEW i \in Subscribers, Reinstate(i)
          PROVE  Judged
      <3>1. UNCHANGED topic /\ \A s \in Subscribers \ {i} : subs'[s] = subs[s]
        BY <2>2, ChangeIs, Zenon DEF Reinstate
      <3>2. subs'[i].active = subs[i].active /\ subs'[i].state = "active" /\ subs'[i].billed = 0
        BY <2>2, Zenon DEF Reinstate, Reinstated, Base, TypeOK
      <3> QED  BY <3>1, <3>2, Zenon DEF Judged
    <2>3. CASE ~\E i \in Subscribers : Unsubscribe(i) \/ Reinstate(i)
      BY <1>0, <1>1, <2>3, Zenon DEF Changes, RechargeCredit, RotateChannel, vars, topicVars
    <2> QED  BY <1>1, <2>1, <2>2, <2>3, Zenon
  <1>2. ASSUME NEW w \in Workers,
               \/ Begins(w) \/ Reads(w) \/ PublishRow(w) \/ EnqueueEntry(w)
               \/ RebindChannelFence(w) \/ AckRelease(w) \/ TrimChannel(w) \/ RecordUnallocated(w)
               \/ CheckAttribution(w) \/ Abandon(w)
        PROVE  Judged
    <2>1. CASE Begins(w) \/ Reads(w)
      BY <1>0, <2>1, CallBegins, Zenon DEF Begins, Reads, ReadLive, ReadRelease, ReadConsumed, ReadBound,
         ReadClamp, OnlyWorkers, topicVars
    <2>2. CASE PublishRow(w) \/ EnqueueEntry(w)
      BY <1>0, <2>2, Zenon DEF PublishRow, EnqueueEntry, topicVars
    <2>3. CASE RebindChannelFence(w)
      BY <1>0, <2>3, Zenon DEF RebindChannelFence, Base, Heads
    <2>4. CASE AckRelease(w) \/ TrimChannel(w) \/ RecordUnallocated(w) \/ CheckAttribution(w)
               \/ Abandon(w)
      BY <1>0, <2>4, Zenon DEF AckRelease, TrimChannel, RecordUnallocated, CheckAttribution, Abandon,
         topicVars
    <2> QED  BY <1>2, <2>1, <2>2, <2>3, <2>4, Zenon
  <1>3. ASSUME NEW w \in Workers, SubscribeCommit(w)
        PROVE  Judged \/ \E i \in Subscribers : Joined(i)
    <2>1. PICK i : i = worker[w].id /\ i \in Subscribers
      BY <1>3, Zenon DEF Base, Crew, Fit, SubscribeCommit
    <2>2. CASE ~UNCHANGED <<topic, subs, late>>
      <3>1. /\ ~subs[i].active /\ ~(topic.active >= MaxRecipients) /\ topic'.active = topic.active + 1
            /\ \A s \in Subscribers \ {i} : subs'[s] = subs[s]
        <4>1. PICK g, n : g = topic.generation /\ n = topic.active + 1
          BY Zenon
        <4>2. /\ ~subs[i].active /\ ~(topic.active >= MaxRecipients)
              /\ topic' = [generation |-> g, active |-> n]
              /\ \A s \in Subscribers \ {i} : subs'[s] = subs[s]
          BY <1>3, <2>1, <2>2, <4>1, SubscribeIs, Zenon
        <4> QED  BY <4>1, <4>2, Zenon
      <3>2. subs'[i].active /\ subs'[i].state = "active" /\ subs'[i].billed = 0
        BY <1>3, <2>1, <2>2 DEF SubscribeCommit, Base, TypeOK
      <3> QED  BY <2>1, <3>1, <3>2, Zenon DEF Joined
    <2> QED  BY <1>0, <2>2, Zenon
  <1>4. ASSUME NEW w \in Workers, AdvanceCommit(w)
        PROVE  Judged
    <2>1. PICK i : i = worker[w].id /\ i \in Subscribers
      BY <1>4, AdvanceIs, Zenon
    <2>2. UNCHANGED topic
      BY <1>4, Zenon DEF AdvanceCommit
    <2>3. CASE ~UNCHANGED subs
      <3>1. \E n : /\ subs'[i] = SubOf(subs[i].active, subs[i].state, n, subs[i].billed,
                                       subs[i].generation)
                   /\ \A s \in Subscribers \ {i} : subs'[s] = subs[s]
        BY <1>4, <2>1, <2>3, AdvanceIs, Zenon
      <3> QED  BY <2>2, <3>1, SubFields DEF Judged
    <2> QED  BY <1>0, <2>2, <2>3, Zenon
  <1>5. ASSUME NEW w \in Workers, PublishCommit(w)
        PROVE  Judged
    <2>1. UNCHANGED topic
      BY <1>5, Zenon DEF PublishCommit
    <2>2. CASE pubs[worker[w].id].status = "pending"
      <3>1. PICK n \in Nat : subs' = Billed(n)
        BY <1>5, <2>2, CommitIs, Zenon
      <3>2. ASSUME NEW s \in Subscribers
            PROVE  /\ subs'[s].active = subs[s].active
                   /\ \/ subs'[s].state = subs[s].state /\ subs'[s].billed = subs[s].billed
                      \/ subs'[s].state = IF subs'[s].billed >= DeliveryAttempts
                                          THEN "quarantined" ELSE "active"
        <4>1. CASE s \in Entitled /\ subs[s].cursor < n - 1
          <5>1. PICK m, t : /\ m = subs[s].billed + 1
                            /\ t = IF m >= DeliveryAttempts THEN "quarantined" ELSE "active"
            BY Zenon
          <5>2. subs'[s] = SubOf(subs[s].active, t, subs[s].cursor, m, subs[s].generation)
            BY <3>1, <4>1, <5>1, Written, Zenon
          <5>3. subs'[s].active = subs[s].active /\ subs'[s].state = t /\ subs'[s].billed = m
            <6>1. PICK q : q = SubOf(subs[s].active, t, subs[s].cursor, m, subs[s].generation)
              BY Zenon
            <6>2. q.active = subs[s].active /\ q.state = t /\ q.billed = m
              BY <6>1, Zenon DEF SubOf
            <6> QED  BY <5>2, <6>1, <6>2, Zenon
          <5> QED  BY <5>1, <5>3, Zenon
        <4>2. CASE ~(s \in Entitled /\ subs[s].cursor < n - 1)
          BY <3>1, <4>2, Written, Zenon
        <4> QED  BY <4>1, <4>2, Zenon
      <3> QED  BY <2>1, <3>2, Zenon DEF Judged
    <2>3. CASE pubs[worker[w].id].status # "pending"
      BY <1>0, <1>5, <2>1, <2>3, Zenon DEF PublishCommit
    <2> QED  BY <2>2, <2>3, Zenon
  <1>6. CASE Owners
    BY <1>0, <1>6, Zenon DEF Owners, OwnerAck, OwnerCompact, topicVars
  <1> QED  BY <1>1, <1>2, <1>3, <1>4, <1>5, <1>6, Steps, Zenon

LEMMA CountersNext ==
    ASSUME Base, Counters, [Next]_vars
    PROVE  Counters'
  <1>0. /\ topic.active \in Nat /\ MaxRecipients \in Nat /\ DeliveryAttempts \in Nat
        /\ DeliveryAttempts > 0
        /\ \A s \in Subscribers : subs[s].billed \in Nat
    BY FS_CardinalityType, TopicBoundAssumption DEF Base, TypeOK, Counters
  <1>1. CASE Judged
    <2>1. Active' = Active
      BY <1>1, Zenon DEF Judged, Active
    <2>2. \A s \in Subscribers : subs'[s].state = "quarantined" <=> subs'[s].billed >= DeliveryAttempts
      BY <1>0, <1>1 DEF Judged, Counters
    <2> QED  BY <1>1, <2>1, <2>2, Zenon DEF Judged, Counters
  <1>2. ASSUME NEW i \in Subscribers, Joined(i)
        PROVE  Counters'
    <2>1. Active' = Active \cup {i} /\ i \notin Active
      BY <1>2, Zenon DEF Joined, Active
    <2>2. IsFiniteSet(Active \cup {i}) /\ Cardinality(Active \cup {i}) = Cardinality(Active) + 1
      BY <2>1, FS_AddElement, Zenon DEF Counters
    <2>3. \A s \in Subscribers : subs'[s].state = "quarantined" <=> subs'[s].billed >= DeliveryAttempts
      <3>1. /\ subs'[i].state = "active" /\ subs'[i].billed = 0
            /\ \A s \in Subscribers \ {i} : subs'[s] = subs[s]
        BY <1>2, Zenon DEF Joined
      <3>2. ~(0 >= DeliveryAttempts)
        BY TopicBoundAssumption
      <3> QED  BY <3>1, <3>2, Zenon DEF Counters
    <2>4. topic'.active = topic.active + 1 /\ topic'.active <= MaxRecipients
      BY <1>0, <1>2 DEF Joined
    <2> QED  BY <2>1, <2>2, <2>3, <2>4, Zenon DEF Counters
  <1>3. ASSUME NEW i \in Subscribers, Ended(i)
        PROVE  Counters'
    <2>1. Active' = Active \ {i} /\ i \in Active
      BY <1>3, Zenon DEF Ended, Active
    <2>2. IsFiniteSet(Active \ {i}) /\ Cardinality(Active \ {i}) = Cardinality(Active) - 1
      BY <2>1, FS_RemoveElement, Zenon DEF Counters
    <2>3. \A s \in Subscribers : subs'[s].state = "quarantined" <=> subs'[s].billed >= DeliveryAttempts
      BY <1>3, Zenon DEF Ended, Counters
    <2>4. topic'.active = topic.active - 1 /\ topic'.active <= MaxRecipients
      BY <1>0, <1>3 DEF Ended, Counters
    <2> QED  BY <2>1, <2>2, <2>3, <2>4, Zenon DEF Counters
  <1> QED  BY <1>1, <1>2, <1>3, SubscriptionStep, Zenon

LEMMA BooksStart ==
    ASSUME Init
    PROVE  Charges /\ Budgets /\ Counters
  <1>1. IsFiniteSet({}) /\ Cardinality({}) = 0
    BY FS_EmptySet, Zenon
  <1>2. /\ CreditUnits \in Nat /\ MaxRecipients \in Nat /\ DeliveryAttempts \in Nat
        /\ DeliveryAttempts > 0
    BY TopicBoundAssumption, Zenon
  <1>3. \A p \in Publications : pubs[p].status = "none"
    BY Zenon DEF Init, NoPub
  <1>4. /\ \A s \in Subscribers : ~subs[s].active /\ subs[s].state = "active" /\ subs[s].billed = 0
        /\ topic.active = 0
    BY Zenon DEF Init, NoSub
  <1>5. credit.balance = CreditUnits /\ credit.charged = {} /\ credit.recharges = {}
    BY Zenon DEF Init
  <1>6. Charges
    BY <1>1, <1>2, <1>3, <1>5, Zenon DEF Charges
  <1>7. Active = {}
    BY <1>4, Zenon DEF Active
  <1>8. Counters
    BY <1>1, <1>2, <1>4, <1>7 DEF Counters
  <1> QED  BY <1>3, <1>6, <1>8, Zenon DEF Budgets

-----------------------------------------------------------------------------
(* Theorems.                                                               *)

LEMMA BaseHolds == Spec => []Base
  BY BaseStarts, BaseNext, PTL DEF Spec

\* The queue under the topic verifies in every state: its live entries are
\* numbered without a gap up to the last one issued, the backlog is what they
\* weigh and never beyond the capacity, whatever the topic's calls enqueue,
\* acknowledge and compact (verify_queue_state, nlos-channel).
THEOREM QueueStaysSound == Spec => []QueueSound
  <1>1. Base => QueueSound
    BY InvIsSound, Zenon DEF Base
  <1> QED  BY <1>1, BaseHolds, PTL

\* The books balance: one charge per publication row and one grant per recharge
\* key, a parent's budget short by exactly its children, the subscription
\* counter equal to the active rows and within max_recipients, quarantine
\* exactly when the attempts are used up, whatever calls are replayed, resumed
\* or cut off (publish, subscribe, unsubscribe, reinstate; nlos-topic).
THEOREM BooksAlwaysBalance == Spec => []BooksBalance
  <1>1. Spec => [](Charges /\ Budgets /\ Counters)
    BY BooksStart, ChargesNext, BudgetsNext, CountersNext, BaseHolds, PTL DEF Spec
  <1>2. Base /\ Charges /\ Budgets /\ Counters => BooksBalance
    BY Zenon DEF Base, Charges, Budgets, Counters, Active, BooksBalance
  <1> QED  BY <1>1, <1>2, BaseHolds, PTL

=============================================================================
