-------------------------- MODULE ChannelWakeProofs --------------------------
(***************************************************************************)
(* Proofs about ChannelWait, continued from ChannelWaitProofs: where the   *)
(* wakes go once the notifiers are done with them, whose keys the registry *)
(* holds and in which order it forgets the ones nobody waits for.          *)
(***************************************************************************)
EXTENDS ChannelWaitProofs

-----------------------------------------------------------------------------
(* The invariants.                                                         *)

\* Whose keys the registry holds.
Holders ==
    /\ fiber \in [Fibers -> {"absent", "running", "terminal"}]
    /\ \A w \in WaitIds : \A f \in Fibers :
           registry[<<w, f>>] # "none" => <<w, f>> \in armed /\ fiber[f] = "running"
    /\ \A w \in WaitIds : /\ registry[Orphaned(w)] # "pending"
                          /\ registry[Orphaned(w)] = "buffered" => KeysOf(w, "pending") = {}

Carried(w) == \E n \in NotifyKeys : Carries(n, w)

\* Nobody pends on the wait, and nobody is about to.
Quiet(w) ==
    /\ \A k \in WaitKeys : k[1] = w => ~(registry[k] = "pending" /\ future[k] = "pending")
    /\ \A f \in Fibers : ~(call[f].at = "enroll" /\ call[f].wait = w)

\* Where the wake a notifier brought is, once the notifier is done with it.
WakeInv ==
    \A w \in WaitIds : rows[w].state = "woken" /\ runtime = "up" =>
        \/ SelfFlipped(w) \/ w \in dropped \cup taken \/ Carried(w) \/ Quiet(w)
        \/ KeysOf(w, "buffered") # {}
        \/ \E f \in Fibers : <<w, f>> \in armed /\ fiber[f] = "terminal"

\* The waits with an orphaned buffered wake, and the order that lists them.
Orphans(reg) == {w \in WaitIds : reg[Orphaned(w)] = "buffered"}
Lists(o, S) == o \in Seq(WaitIds) /\ IsInjective(o) /\ Range(o) = S
OrderInv == Lists(order, Orphans(registry)) /\ Len(order) <= OrphanCapacity

\* The rest of the types.
PlainInv ==
    /\ runtime \in {"up", "flagged", "down"}
    /\ cancelled \subseteq Fibers
    /\ armed \subseteq WaitKeys
    /\ dropped \cup taken \subseteq WaitIds

-----------------------------------------------------------------------------
(* The age order: sequences of waits without a wait twice.                 *)

LEMMA ListedIs ==
    ASSUME NEW o \in Seq(WaitIds)
    PROVE  /\ Len(o) \in Nat /\ DOMAIN o = 1..Len(o) /\ \A i \in 1..Len(o) : o[i] \in WaitIds
  OBVIOUS

\* The oldest of the waits, or another one, gives up its place.
LEMMA Unlisted ==
    ASSUME NEW o, NEW S, Lists(o, S), NEW i \in DOMAIN o, NEW n,
           n = [j \in 1..(Len(o) - 1) |-> IF j < i THEN o[j] ELSE o[j + 1]]
    PROVE  Lists(n, S \ {o[i]}) /\ Len(n) = Len(o) - 1
  <1>0. /\ Len(o) \in Nat /\ i \in 1..Len(o) /\ Len(o) - 1 \in Nat
        /\ DOMAIN o = 1..Len(o) /\ \A j \in 1..Len(o) : o[j] \in WaitIds
    BY ListedIs DEF Lists
  <1>1. n \in Seq(WaitIds) /\ Len(n) = Len(o) - 1 /\ DOMAIN n = 1..(Len(o) - 1)
    BY <1>0
  <1>2. ASSUME NEW a \in DOMAIN n
        PROVE  \E b \in DOMAIN o : n[a] = o[b] /\ b # i /\ b = IF a < i THEN a ELSE a + 1
    BY <1>0, <1>1
  <1>3. IsInjective(n)
    <2> SUFFICES ASSUME NEW a \in DOMAIN n, NEW b \in DOMAIN n, n[a] = n[b]
                 PROVE  a = b
      BY Zenon DEF IsInjective
    <2>1. PICK c \in DOMAIN o : n[a] = o[c] /\ c = IF a < i THEN a ELSE a + 1
      BY <1>2, Zenon
    <2>2. PICK d \in DOMAIN o : n[b] = o[d] /\ d = IF b < i THEN b ELSE b + 1
      BY <1>2, Zenon
    <2>3. c = d
      BY <2>1, <2>2, Zenon DEF Lists, IsInjective
    <2> QED  BY <1>0, <1>1, <2>1, <2>2, <2>3
  <1>4. ASSUME NEW b \in DOMAIN o, b # i
        PROVE  \E a \in DOMAIN n : n[a] = o[b]
    <2>1. PICK a \in 1..(Len(o) - 1) : (a < i /\ a = b) \/ (~(a < i) /\ a + 1 = b)
      <3>1. CASE b < i
        BY <1>0, <1>4, <3>1
      <3>2. CASE ~(b < i)
        <4>1. b - 1 \in 1..(Len(o) - 1) /\ ~(b - 1 < i) /\ (b - 1) + 1 = b
          BY <1>0, <1>4, <3>2
        <4> QED  BY <4>1, Zenon
      <3> QED  BY <3>1, <3>2, Zenon
    <2> QED  BY <1>1, <2>1, Zenon
  <1>5. \A b \in DOMAIN o : o[b] = o[i] => b = i
    BY Zenon DEF Lists, IsInjective
  <1>6. ASSUME NEW w
        PROVE  w \in Range(n) <=> w \in S /\ w # o[i]
    <2>1. w \in S <=> \E b \in DOMAIN o : w = o[b]
      BY Zenon DEF Lists, Range
    <2>2. w \in Range(n) <=> \E a \in DOMAIN n : w = n[a]
      BY Zenon DEF Range
    <2>3. ASSUME w \in Range(n)
          PROVE  w \in S /\ w # o[i]
      BY <1>2, <1>5, <2>1, <2>2, <2>3, Zenon
    <2>4. ASSUME w \in S, w # o[i]
          PROVE  w \in Range(n)
      BY <1>4, <2>1, <2>2, <2>4
    <2> QED  BY <2>3, <2>4, Zenon
  <1>7. Range(n) = S \ {o[i]}
    BY <1>6, Zenon
  <1> QED  BY <1>1, <1>3, <1>7, Zenon DEF Lists

LEMMA ListedLast ==
    ASSUME NEW o, NEW S, Lists(o, S), NEW w \in WaitIds \ S
    PROVE  Lists(Append(o, w), S \cup {w}) /\ Len(Append(o, w)) = Len(o) + 1
  <1>0. /\ Len(o) \in Nat /\ DOMAIN o = 1..Len(o) /\ o \in Seq(WaitIds)
    BY ListedIs, Zenon DEF Lists
  <1> DEFINE n == Append(o, w)
  <1>1. /\ n \in Seq(WaitIds) /\ Len(n) = Len(o) + 1 /\ DOMAIN n = 1..(Len(o) + 1)
        /\ n[Len(o) + 1] = w /\ \A i \in 1..Len(o) : n[i] = o[i]
    BY <1>0
  <1> HIDE DEF n
  <1>2. \A i \in DOMAIN o : o[i] # w /\ o[i] \in S
    BY Zenon DEF Lists, Range
  <1>3. IsInjective(n)
    <2> SUFFICES ASSUME NEW a \in DOMAIN n, NEW b \in DOMAIN n, n[a] = n[b]
                 PROVE  a = b
      BY Zenon DEF IsInjective
    <2>1. CASE a \in DOMAIN o /\ b \in DOMAIN o
      BY <1>0, <1>1, <2>1, Zenon DEF Lists, IsInjective
    <2>2. CASE ~(a \in DOMAIN o /\ b \in DOMAIN o)
      BY <1>0, <1>1, <1>2, <2>2
    <2> QED  BY <2>1, <2>2, Zenon
  <1>4. \A i \in DOMAIN n : n[i] = w \/ (i \in DOMAIN o /\ n[i] = o[i])
    BY <1>0, <1>1
  <1>5. /\ Len(o) + 1 \in DOMAIN n /\ \A i \in DOMAIN o : i \in DOMAIN n /\ n[i] = o[i]
    BY <1>0, <1>1
  <1>6. Range(n) = S \cup {w}
    BY <1>1, <1>2, <1>4, <1>5 DEF Lists, Range
  <1> QED  BY <1>1, <1>3, <1>6, Zenon DEF Lists, n

\* What is left of the order when the oldest c make room, c at most one.
LEMMA ListedFrom ==
    ASSUME NEW o, NEW S, Lists(o, S), NEW c \in 0..1, c <= Len(o)
    PROVE  /\ Lists(SubSeq(o, c + 1, Len(o)), S \ {o[i] : i \in 1..c})
           /\ Len(SubSeq(o, c + 1, Len(o))) = Len(o) - c
  <1>0. /\ Len(o) \in Nat /\ DOMAIN o = 1..Len(o) /\ o \in Seq(WaitIds)
        /\ \A i \in 1..Len(o) : o[i] \in WaitIds
    BY ListedIs, Zenon DEF Lists
  <1>1. CASE c = 0
    <2>1. SubSeq(o, 1, Len(o)) = o
      BY <1>0
    <2>2. c + 1 = 1 /\ 1..c = {} /\ Len(o) - c = Len(o)
      BY <1>0, <1>1
    <2> QED  BY <2>1, <2>2, Zenon
  <1>2. CASE c = 1
    <2>1. PICK n : n = [j \in 1..(Len(o) - 1) |-> IF j < 1 THEN o[j] ELSE o[j + 1]]
      BY Zenon
    <2>2. 1 \in DOMAIN o /\ {o[i] : i \in 1..c} = {o[1]} /\ c + 1 = 2 /\ Len(o) - c = Len(o) - 1
      BY <1>0, <1>2
    <2>3. Lists(n, S \ {o[1]}) /\ Len(n) = Len(o) - 1
      BY <2>1, <2>2, Unlisted, Zenon
    <2>4. SubSeq(o, 2, Len(o)) = n
      BY <1>0, <1>2, <2>1
    <2> QED  BY <2>2, <2>3, <2>4, Zenon
  <1> QED  BY <1>1, <1>2

\* A pass that keeps every age slot keeps the order.
LEMMA RetainedAll ==
    ASSUME order \in Seq(WaitIds), NEW reg, \A w \in Range(order) : reg[Orphaned(w)] # "none"
    PROVE  Retained(reg) = order
  <1>0. /\ Len(order) \in Nat /\ DOMAIN order = 1..Len(order)
        /\ \A i \in 1..Len(order) : order[i] \in WaitIds /\ reg[Orphaned(order[i])] # "none"
    BY ListedIs, Zenon DEF Range
  <1> DEFINE n == Len(order)
             Step(g) == [i \in 0..n |->
                           IF i = 0 THEN <<>>
                           ELSE IF reg[Orphaned(order[i])] # "none" THEN Append(g[i - 1], order[i]) ELSE g[i - 1]]
             p == [i \in 0..n |-> SubSeq(order, 1, i)]
             k == CHOOSE g : g = Step(g)
  <1>1. Retained(reg) = k[n]
    BY Zenon DEF Retained
  <1>2. \A i \in 1..n : Append(SubSeq(order, 1, i - 1), order[i]) = SubSeq(order, 1, i)
    BY <1>0
  <1>3. SubSeq(order, 1, 0) = <<>> /\ SubSeq(order, 1, n) = order
    BY <1>0
  <1>4. p = Step(p)
    <2>1. ASSUME NEW i \in 0..n
          PROVE  p[i] = Step(p)[i]
      <3>1. CASE i = 0
        BY <1>3, <3>1, Zenon
      <3>2. CASE i # 0
        <4>1. i \in 1..n /\ i - 1 \in 0..n
          BY <1>0, <3>2
        <4> QED  BY <1>0, <1>2, <4>1
      <3> QED  BY <3>1, <3>2, Zenon
    <2> HIDE DEF k
    <2> QED  BY <2>1, Zenon
  <1>5. \A i \in 0..n : k[i] = IF i = 0 THEN <<>>
                             ELSE IF reg[Orphaned(order[i])] # "none" THEN Append(k[i - 1], order[i]) ELSE k[i - 1]
    <2>1. k = Step(k)
      BY <1>4, Zenon
    <2>2. ASSUME NEW i \in 0..n, NEW g
          PROVE  Step(g)[i] = IF i = 0 THEN <<>>
                              ELSE IF reg[Orphaned(order[i])] # "none" THEN Append(g[i - 1], order[i]) ELSE g[i - 1]
      BY Zenon
    <2> HIDE DEF k, Step
    <2> QED  BY <2>1, <2>2, Zenon
  <1> HIDE DEF k
  <1>6. \A i \in 0..n : k[i] = SubSeq(order, 1, i)
    <2> DEFINE Bad == {i \in 0..n : k[i] # SubSeq(order, 1, i)}
    <2> SUFFICES ASSUME Bad # {}
                 PROVE  FALSE
      BY Zenon
    <2>1. PICK m \in Bad : \A x \in Bad : m <= x
      <3>1. Bad \in SUBSET Nat
        BY <1>0
      <3> HIDE DEF Bad
      <3> QED  BY <3>1, MinNumber, Zenon
    <2>2. m # 0
      BY <1>0, <1>3, <1>5, <2>1, Zenon
    <2>3. m \in 1..n /\ m - 1 \in 0..n /\ m - 1 \notin Bad
      BY <1>0, <2>1, <2>2
    <2>4. k[m - 1] = SubSeq(order, 1, m - 1)
      BY <2>3, Zenon
    <2>5. k[m] = Append(k[m - 1], order[m])
      <3>1. m \in 0..n /\ reg[Orphaned(order[m])] # "none"
        BY <1>0, <2>3, Zenon
      <3> QED  BY <1>5, <2>2, <3>1, Zenon
    <2> QED  BY <1>2, <2>1, <2>3, <2>4, <2>5, Zenon
  <1> QED  BY <1>0, <1>1, <1>3, <1>6

-----------------------------------------------------------------------------
(* Whose keys the registry holds.                                          *)

\* The steps that may touch the registry.
LEMMA RegistrySteps ==
    ASSUME [Next]_vars
    PROVE  \/ UNCHANGED registryVars
           \/ ShutdownClear \/ Crash
           \/ \E f \in Fibers : Finish(f) \/ CallConsume(f) \/ CallEnroll(f)
           \/ \E k \in WaitKeys : Poll(k) \/ Drop(k)
           \/ \E n \in NotifyKeys, w \in WaitIds : DeliverOne(n, w)
  <1>1. CASE Apart
    BY <1>1, Zenon DEF Apart, Spawn, CancelScope, ShutdownFlag, vars
  <1>2. CASE Starts
    BY <1>2, StartsLeave, Zenon
  <1>3. CASE \E f \in Fibers : Walks(f) \/ CallRegister(f) \/ CallFlip(f)
    BY <1>3, Zenon DEF Walks, SweepNext, CallInspect, CallMeasure, CallRegister, CallFlip
  <1>4. CASE (\E n \in NotifyKeys : Hands(n) \/ Commit(n) \/ Notify(n)) \/ \E w \in WaitIds : CancelRow(w)
    BY <1>4, Zenon DEF Hands, DeliverStart, Redeliver, Commit, Notify, CancelRow
  <1> QED  BY <1>1, <1>2, <1>3, <1>4, Steps, Zenon

\* What only grows in one life of the process.
LEMMA Grows ==
    ASSUME Inv, Holders, [Next]_vars, ~Crash
    PROVE  /\ armed \subseteq armed' /\ dropped \subseteq dropped' /\ taken \subseteq taken'
           /\ fiber' \in [Fibers -> {"absent", "running", "terminal"}]
           /\ \A f \in Fibers : /\ fiber[f] = "terminal" => fiber'[f] = "terminal"
                                /\ fiber[f] = "running" => fiber'[f] = "running" \/ Finish(f)
                                /\ Finish(f) => fiber[f] = "running" /\ fiber'[f] = "terminal"
           /\ runtime' = "up" => runtime = "up"
  <1>1. armed \subseteq armed'
    BY ArmedOf, CallStarts, CallRegisters, Zenon
  <1>2. CASE UNCHANGED <<dropped, taken, fiber, runtime>>
    BY <1>1, <1>2, Zenon DEF Holders, Finish
  <1>3. CASE Starts \/ \E f \in Fibers : CallRegister(f) \/ CallFlip(f)
    BY <1>2, <1>3, StartsLeave, Zenon DEF CallRegister, CallFlip, historyVars, fiberVars
  <1>4. CASE (\E n \in NotifyKeys : Commit(n) \/ Notify(n)) \/ \E w \in WaitIds : CancelRow(w)
    BY <1>2, <1>4, Zenon DEF Commit, Notify, CancelRow, historyVars, fiberVars
  <1>5. CASE \E f \in Fibers : Walks(f)
    <2>1. UNCHANGED <<dropped, fiber, runtime>>
      BY <1>5, WalksLeave, Zenon DEF fiberVars
    <2>2. taken \subseteq taken'
      BY <1>5, Zenon DEF Walks, SweepNext, CallInspect, CallMeasure, CallConsume, CallEnroll, historyVars
    <2> QED  BY <1>1, <2>1, <2>2, Zenon DEF Holders, Finish
  <1>6. CASE \E n \in NotifyKeys : Hands(n)
    <2>1. UNCHANGED <<fiber, runtime>>
      BY <1>6, HandsLeave, Zenon DEF fiberVars
    <2>2. dropped \subseteq dropped' /\ taken \subseteq taken'
      BY <1>6, Zenon DEF Hands, DeliverStart, Redeliver, DeliverOne, Hand, BufferOrphan, historyVars
    <2> QED  BY <1>1, <2>1, <2>2, Zenon DEF Holders, Finish
  <1>7. CASE Apart
    <2>1. UNCHANGED <<dropped, taken>> /\ (runtime' = "up" => runtime = "up")
      BY <1>7, Zenon DEF Apart, Spawn, CancelScope, Finish, Poll, Drop, ShutdownFlag, ShutdownClear,
         vars, historyVars, fiberVars
    <2>2. CASE UNCHANGED fiber
      BY <1>1, <2>1, <2>2, Zenon DEF Holders, Finish
    <2>3. ASSUME NEW f \in Fibers, Spawn(f)
          PROVE  fiber[f] = "absent" /\ fiber' = [fiber EXCEPT ![f] = "running"]
      BY <2>3, Zenon DEF Spawn
    <2>4. ASSUME NEW f \in Fibers, Finish(f)
          PROVE  fiber[f] = "running" /\ fiber' = [fiber EXCEPT ![f] = "terminal"]
      BY <2>4, Zenon DEF Finish
    <2>5. \/ UNCHANGED fiber
          \/ \E f \in Fibers : Spawn(f) \/ Finish(f)
      BY <1>7, Zenon DEF Apart, CancelScope, Poll, Drop, ShutdownFlag, ShutdownClear, vars, fiberVars
    <2>6. CASE \E f \in Fibers : Spawn(f)
      BY <1>1, <2>1, <2>3, <2>4, <2>6, Zenon DEF Holders
    <2>7. CASE \E f \in Fibers : Finish(f)
      <3>1. PICK f \in Fibers : Finish(f)
        BY <2>7, Zenon
      <3>2. fiber[f] = "running" /\ fiber' = [fiber EXCEPT ![f] = "terminal"]
        BY <2>4, <3>1, Zenon
      <3>3. \A g \in Fibers : Finish(g) => fiber'[g] = "terminal" /\ fiber[g] = "running"
        BY <2>4, Zenon DEF Holders
      <3> QED  BY <1>1, <2>1, <3>1, <3>2, <3>3, Zenon DEF Holders
    <2> QED  BY <2>2, <2>5, <2>6, <2>7, Zenon
  <1> QED  BY <1>3, <1>4, <1>5, <1>6, <1>7, Steps, Zenon

\* What makes a step keep the holders: keys only go, but with a reason.
LEMMA HoldersKept ==
    ASSUME Inv, Tidings, Holders, [Next]_vars, ~Crash,
           \A f \in Fibers : Finish(f) => \A w \in WaitIds : registry'[<<w, f>>] = "none",
           \A w \in WaitIds : \A f \in Fibers : registry'[<<w, f>>] # "none" =>
               registry[<<w, f>>] # "none" \/ (<<w, f>> \in armed /\ fiber[f] = "running"),
           \A w \in WaitIds : registry'[Orphaned(w)] # "pending",
           \A w \in WaitIds : registry'[Orphaned(w)] = "buffered" =>
               \A k \in WaitKeys : k[1] = w => registry'[k] # "pending"
    PROVE  Holders'
  <1>1. \A w \in WaitIds : \A f \in Fibers : registry'[<<w, f>>] # "none" => <<w, f>> \in armed' /\ fiber'[f] = "running"
    BY Grows, Zenon DEF Holders
  <1>2. \A w \in WaitIds : registry'[Orphaned(w)] = "buffered" => KeysOf(w, "pending")' = {}
    BY Zenon DEF KeysOf
  <1> QED  BY <1>1, <1>2, Grows, Zenon DEF Holders

LEMMA KeyForms ==
    /\ \A w \in WaitIds : \A f \in Fibers : <<w, f>> \in WaitKeys /\ <<w, f>> # Orphaned(w)
    /\ \A w \in WaitIds : Orphaned(w) \in WaitKeys /\ Orphaned(w)[1] = w
    /\ \A v, w \in WaitIds : Orphaned(v) = Orphaned(w) => v = w
    /\ \A k \in WaitKeys : k[1] \in WaitIds /\ (k = Orphaned(k[1]) \/ (k[2] \in Fibers /\ k = <<k[1], k[2]>>))
  BY WaitBoundAssumption DEF WaitKeys, Orphaned

\* A step that takes keys out of the registry, or leaves them.
LEMMA HoldersShrink ==
    ASSUME Inv, Tidings, Holders, [Next]_vars, ~Crash,
           \A f \in Fibers : Finish(f) => \A w \in WaitIds : registry'[<<w, f>>] = "none",
           \A k \in WaitKeys : registry'[k] \in {registry[k], "none"}
    PROVE  Holders'
  <1>1. \A w \in WaitIds : registry'[Orphaned(w)] # "pending"
    BY KeyForms, Zenon DEF Holders
  <1>2. \A w \in WaitIds : registry'[Orphaned(w)] = "buffered" => \A k \in WaitKeys : k[1] = w => registry'[k] # "pending"
    BY KeyForms, Zenon DEF Holders, KeysOf
  <1>3. \A w \in WaitIds : \A f \in Fibers : registry'[<<w, f>>] # "none" => registry[<<w, f>>] # "none"
    BY KeyForms, Zenon
  <1> QED  BY <1>1, <1>2, <1>3, HoldersKept, Zenon

LEMMA FinishClears ==
    ASSUME NEW f \in Fibers, Finish(f)
    PROVE  \A w \in WaitIds : registry'[<<w, f>>] = "none"
  <1>1. registry' = [k \in WaitKeys |-> IF k \in {l \in WaitKeys : l[2] = f} THEN "none" ELSE registry[k]]
    BY Zenon DEF Finish
  <1> QED  BY <1>1, KeyForms, Zenon

LEMMA HoldersNext ==
    ASSUME Inv, Tidings, Holders, [Next]_vars
    PROVE  Holders'
  <1>1. CASE Crash
    <2>1. registry' = [k \in WaitKeys |-> "none"] /\ fiber' = [f \in Fibers |-> "absent"]
      BY <1>1, Zenon DEF Crash
    <2> QED  BY <2>1, KeyForms, Zenon DEF Holders
  <1>2. ASSUME ~Crash, \A k \in WaitKeys : registry'[k] \in {registry[k], "none"}
        PROVE  Holders'
    BY <1>2, FinishClears, HoldersShrink, Zenon
  <1>3. CASE ~Crash /\ UNCHANGED registryVars
    BY <1>2, <1>3, Zenon DEF registryVars
  <1>4. CASE ~Crash /\ (ShutdownClear \/ \E f \in Fibers : Finish(f))
    <2>1. PICK S : registry' = [k \in WaitKeys |-> IF k \in S THEN "none" ELSE registry[k]]
      <3>1. CASE ShutdownClear
        <4>1. registry' = [k \in WaitKeys |-> IF k \in WaitKeys THEN "none" ELSE registry[k]]
          BY <3>1, Zenon DEF ShutdownClear
        <4> QED  BY <4>1, Zenon
      <3>2. CASE \E f \in Fibers : Finish(f)
        BY <3>2, Zenon DEF Finish
      <3> QED  BY <1>4, <3>1, <3>2, Zenon
    <2> QED  BY <1>2, <1>4, <2>1, Zenon
  <1>5. ASSUME ~Crash, NEW k \in WaitKeys, Poll(k) \/ Drop(k)
        PROVE  Holders'
    <2>1. registry' = registry \/ registry' = [registry EXCEPT ![k] = IF @ = "pending" THEN "none" ELSE @]
      BY <1>5, Zenon DEF Poll, Drop, PollCancelled, PollReady, DropFuture
    <2> QED  BY <1>2, <1>5, <2>1, Zenon DEF Tidings
  <1>6. ASSUME ~Crash, NEW f \in Fibers, CallConsume(f) \/ CallEnroll(f)
        PROVE  Holders'
    <2>1. PICK w \in WaitIds : w = call[f].wait /\ <<w, f>> \in armed
      BY <1>6, Zenon DEF CallConsume, CallEnroll, Inv, CallInv, Shaped, CallFit
    <2>2. CASE registry' = registry \/ \E k \in WaitKeys : registry' = [registry EXCEPT ![k] = "none"]
      BY <1>2, <1>6, <2>2, Zenon DEF Tidings
    <2>3. CASE /\ registry' = [registry EXCEPT ![<<w, f>>] = "pending"] /\ MayArm(f)
               /\ KeysOf(w, "buffered") = {}
      <3>1. <<w, f>> \in WaitKeys /\ fiber[f] = "running"
        BY <2>3, KeyForms, Zenon DEF MayArm
      <3>2. /\ registry'[<<w, f>>] = "pending"
            /\ \A k \in WaitKeys : k # <<w, f>> => registry'[k] = registry[k]
        BY <2>3, <3>1, Zenon DEF Tidings
      <3>3. \A v \in WaitIds : <<w, f>> # Orphaned(v)
        BY WaitBoundAssumption, Zenon DEF Orphaned
      <3>4. \A v \in WaitIds : registry'[Orphaned(v)] = registry[Orphaned(v)]
        BY <3>2, <3>3, KeyForms, Zenon
      <3>5. registry[Orphaned(w)] # "buffered"
        BY <2>3, KeyForms, Zenon DEF KeysOf
      <3>6. \A v \in WaitIds : registry'[Orphaned(v)] # "pending"
        BY <3>4, Zenon DEF Holders
      <3>7. \A v \in WaitIds : registry'[Orphaned(v)] = "buffered" =>
                \A k \in WaitKeys : k[1] = v => registry'[k] # "pending"
        <4> SUFFICES ASSUME NEW v \in WaitIds, registry'[Orphaned(v)] = "buffered", NEW k \in WaitKeys, k[1] = v
                     PROVE  registry'[k] # "pending"
          BY Zenon
        <4>1. v # w /\ registry[k] # "pending"
          BY <3>4, <3>5, Zenon DEF Holders, KeysOf
        <4> QED  BY <3>2, <4>1
      <3>8. \A v \in WaitIds : \A g \in Fibers : registry'[<<v, g>>] # "none" =>
                registry[<<v, g>>] # "none" \/ (<<v, g>> \in armed /\ fiber[g] = "running")
        <4> SUFFICES ASSUME NEW v \in WaitIds, NEW g \in Fibers, registry'[<<v, g>>] # "none"
                     PROVE  registry[<<v, g>>] # "none" \/ (<<v, g>> \in armed /\ fiber[g] = "running")
          BY Zenon
        <4>1. CASE <<v, g>> = <<w, f>>
          BY <2>1, <3>1, <4>1, Zenon
        <4>2. CASE <<v, g>> # <<w, f>>
          BY <3>2, <4>2, KeyForms, Zenon
        <4> QED  BY <4>1, <4>2, Zenon
      <3> QED  BY <1>6, <3>6, <3>7, <3>8, FinishClears, HoldersKept, Zenon
    <2> QED  BY <1>6, <2>1, <2>2, <2>3, Zenon DEF CallConsume, CallEnroll, RacedBuffer, KeysOf,
                registryVars
  <1>7. ASSUME ~Crash, NEW n \in NotifyKeys, NEW w \in WaitIds, DeliverOne(n, w)
        PROVE  Holders'
    <2>1. CASE registry' = registry
      BY <1>2, <1>7, <2>1, Zenon
    <2>2. ASSUME NEW k \in KeysOf(w, "pending"), Hand(k)
          PROVE  Holders'
      <3>1. k \in WaitKeys /\ k[1] = w /\ registry[k] = "pending"
        BY Zenon DEF KeysOf
      <3>2. PICK a \in {"none", "buffered"} : registry' = [registry EXCEPT ![k] = a]
        BY <2>2, Zenon DEF Hand
      <3>3. registry'[k] = a /\ \A l \in WaitKeys : l # k => registry'[l] = registry[l]
        BY <3>1, <3>2, Zenon DEF Tidings
      <3>4. \A v \in WaitIds : k # Orphaned(v)
        BY <3>1, Zenon DEF Holders
      <3>5. \A v \in WaitIds : registry'[Orphaned(v)] = registry[Orphaned(v)]
        BY <3>3, <3>4, KeyForms, Zenon
      <3>6. \A l \in WaitKeys : registry'[l] = "pending" => registry[l] = "pending"
        BY <3>3, Zenon
      <3>7. \A l \in WaitKeys : registry'[l] # "none" => registry[l] # "none"
        BY <3>1, <3>3, Zenon
      <3>8. \A v \in WaitIds : registry'[Orphaned(v)] # "pending"
        BY <3>5, Zenon DEF Holders
      <3>9. \A v \in WaitIds : registry'[Orphaned(v)] = "buffered" =>
                \A l \in WaitKeys : l[1] = v => registry'[l] # "pending"
        BY <3>5, <3>6, Zenon DEF Holders, KeysOf
      <3>10. \A v \in WaitIds : \A g \in Fibers : registry'[<<v, g>>] # "none" => registry[<<v, g>>] # "none"
        BY <3>7, KeyForms, Zenon
      <3> QED  BY <1>7, <3>8, <3>9, <3>10, FinishClears, HoldersKept, Zenon
    <2>3. CASE KeysOf(w, "pending") = {} /\ BufferOrphan(w)
      <3>1. PICK S : registry' = [k \in WaitKeys |-> IF k \in S THEN "none"
                                    ELSE IF k = Orphaned(w) /\ OrphanCapacity > 0 THEN "buffered"
                                    ELSE registry[k]]
        BY <2>3, Zenon DEF BufferOrphan
      <3>2. \A k \in WaitKeys : registry'[k] \in {registry[k], "none"} \/ (k = Orphaned(w) /\ registry'[k] = "buffered")
        BY <3>1, Zenon
      <3>3. \A v \in WaitIds : registry'[Orphaned(v)] # "pending"
        BY <3>2, KeyForms, Zenon DEF Holders
      <3>4. \A k \in WaitKeys : registry'[k] = "pending" => registry[k] = "pending"
        BY <3>2, Zenon
      <3>5. \A v \in WaitIds : registry'[Orphaned(v)] = "buffered" => registry[Orphaned(v)] = "buffered" \/ v = w
        BY <3>2, KeyForms, Zenon
      <3>6. \A v \in WaitIds : registry'[Orphaned(v)] = "buffered" =>
                \A k \in WaitKeys : k[1] = v => registry'[k] # "pending"
        BY <2>3, <3>4, <3>5, Zenon DEF Holders, KeysOf
      <3>7. \A v \in WaitIds : \A g \in Fibers : <<v, g>> \in WaitKeys /\ <<v, g>> # Orphaned(w)
        BY WaitBoundAssumption, KeyForms, Zenon DEF Orphaned
      <3>8. \A v \in WaitIds : \A g \in Fibers : registry'[<<v, g>>] # "none" => registry[<<v, g>>] # "none"
        BY <3>2, <3>7, Zenon
      <3> QED  BY <1>7, <3>3, <3>6, <3>8, FinishClears, HoldersKept, Zenon
    <2> QED  BY <1>7, <2>1, <2>2, <2>3, Zenon DEF DeliverOne, registryVars
  <1> QED  BY <1>1, <1>3, <1>4, <1>5, <1>6, <1>7, RegistrySteps, Zenon

-----------------------------------------------------------------------------
(* Where the wakes go.                                                     *)

LEMMA WokenOf ==
    ASSUME Inv, [Next]_vars, NEW w \in WaitIds, rows'[w].state = "woken"
    PROVE  \/ rows'[w] = rows[w]
           \/ \E n \in NotifyKeys : Notify(n) /\ w \in receipts'[n].woken
           \/ SelfFlipped(w)'
  <1>1. CASE UNCHANGED rowVars
    BY <1>1, Zenon DEF rowVars
  <1>2. CASE Apart \/ Starts \/ Crash \/ \E f \in Fibers : Walks(f)
    BY <1>1, <1>2, ApartLeaves, StartsLeave, WalksLeave, Zenon DEF Crash
  <1>3. CASE \E n \in NotifyKeys : Hands(n) \/ Commit(n)
    BY <1>1, <1>3, HandsLeave, Zenon DEF Commit
  <1>4. CASE \E n \in NotifyKeys : Notify(n)
    BY <1>4, NotifyIs, Zenon
  <1>5. CASE \E v \in WaitIds : CancelRow(v)
    BY <1>5, CancelKeeps, Zenon DEF CancelRow, Inv
  <1>6. ASSUME NEW f \in Fibers, CallFlip(f)
        PROVE  rows'[w] = rows[w] \/ SelfFlipped(w)'
    <2>1. PICK v \in WaitIds : v = call[f].wait
      BY <1>6, FlipIs, Zenon
    <2>2. SelfNotifyKey(v) \in DOMAIN receipts' /\ (rows'[w] = rows[w] \/ w \in receipts'[SelfNotifyKey(v)].woken)
      BY <1>6, <2>1, FlipIs, Zenon
    <2> QED  BY <2>2, Zenon DEF SelfFlipped
  <1>7. ASSUME NEW f \in Fibers, CallRegister(f)
        PROVE  rows'[w] = rows[w]
    <2>1. PICK v \in WaitIds, t \in Nat : v = call[f].wait /\ t = call[f].target
      BY <1>7, Zenon DEF CallRegister, Inv, CallInv, Shaped, CallType
    <2>2. RegisterWait(v, f, t)
      BY <1>7, <2>1, Zenon DEF CallRegister
    <2> QED  BY <2>2, RegisterKeeps, Zenon DEF Inv
  <1> QED  BY <1>2, <1>3, <1>4, <1>5, <1>6, <1>7, Steps, Zenon

\* A wait comes to pend only in the critical section of an arming call.
LEMMA PendOf ==
    ASSUME Inv, Tidings, [Next]_vars, NEW k \in WaitKeys, registry'[k] = "pending", future'[k] = "pending"
    PROVE  \/ registry[k] = "pending" /\ future[k] = "pending"
           \/ \E f \in Fibers : CallEnroll(f) /\ call[f].wait = k[1]
  <1>1. CASE UNCHANGED registryVars
    BY <1>1, Zenon DEF registryVars
  <1>2. CASE ShutdownClear \/ Crash
    BY <1>2, Zenon DEF ShutdownClear, Crash
  <1>3. ASSUME NEW f \in Fibers, Finish(f)
        PROVE  registry[k] = "pending" /\ future[k] = "pending"
    <2>1. PICK S : /\ registry' = [l \in WaitKeys |-> IF l \in S THEN "none" ELSE registry[l]]
                   /\ future' = CloseSenders(S)
      BY <1>3, Zenon DEF Finish
    <2> QED  BY <2>1, ClosesSenders, Zenon
  <1>4. ASSUME NEW f \in Fibers, CallConsume(f)
        PROVE  registry[k] = "pending" /\ future[k] = "pending"
    <2>1. future' = future /\ (registry' = registry \/ \E l \in WaitKeys : registry' = [registry EXCEPT ![l] = "none"])
      BY <1>4, Zenon DEF CallConsume, KeysOf
    <2> QED  BY <2>1, Zenon DEF Tidings
  <1>5. ASSUME NEW f \in Fibers, CallEnroll(f), call[f].wait # k[1]
        PROVE  registry[k] = "pending" /\ future[k] = "pending"
    <2>1. PICK w : w = call[f].wait
      BY Zenon
    <2>2. CASE future' = future /\ (registry' = registry \/ \E l \in WaitKeys : registry' = [registry EXCEPT ![l] = "none"])
      BY <2>2, Zenon DEF Tidings
    <2>3. CASE registry' = [registry EXCEPT ![<<w, f>>] = "pending"] /\ future' = [future EXCEPT ![<<w, f>>] = "pending"]
      <3>1. k # <<w, f>>
        BY <1>5, <2>1
      <3> QED  BY <2>3, <3>1, Zenon DEF Tidings
    <2> QED  BY <1>5, <2>1, <2>2, <2>3, Zenon DEF CallEnroll, RacedBuffer, KeysOf, registryVars
  <1>6. ASSUME NEW l \in WaitKeys, Poll(l) \/ Drop(l)
        PROVE  registry[k] = "pending" /\ future[k] = "pending"
    <2>1. /\ registry' = registry \/ registry' = [registry EXCEPT ![l] = IF @ = "pending" THEN "none" ELSE @]
          /\ future' = [future EXCEPT ![l] = "none"] \/ future' = [future EXCEPT ![l] = IF @ = "pending" THEN "dropped" ELSE "none"]
      BY <1>6, Zenon DEF Poll, Drop, PollCancelled, PollReady, DropFuture
    <2> QED  BY <2>1, Zenon DEF Tidings
  <1>7. ASSUME NEW n \in NotifyKeys, NEW w \in WaitIds, DeliverOne(n, w)
        PROVE  registry[k] = "pending" /\ future[k] = "pending"
    <2>1. CASE UNCHANGED <<registry, future>>
      BY <2>1, Zenon
    <2>2. ASSUME NEW l \in KeysOf(w, "pending"), Hand(l)
          PROVE  registry[k] = "pending" /\ future[k] = "pending"
      <3>1. l \in WaitKeys
        BY Zenon DEF KeysOf
      <3>2. PICK a \in {"none", "buffered"}, b \in {"fired", "none"} :
                registry' = [registry EXCEPT ![l] = a] /\ future' = [future EXCEPT ![l] = b]
        BY <2>2, Zenon DEF Hand
      <3> QED  BY <3>1, <3>2, Zenon DEF Tidings
    <2>3. CASE BufferOrphan(w)
      <3>1. PICK S : registry' = [l \in WaitKeys |-> IF l \in S THEN "none"
                                    ELSE IF l = Orphaned(w) /\ OrphanCapacity > 0 THEN "buffered"
                                    ELSE registry[l]]
        BY <2>3, Zenon DEF BufferOrphan
      <3>2. future' = future
        BY <2>3, Zenon DEF BufferOrphan
      <3> QED  BY <3>1, <3>2, Zenon
    <2> QED  BY <1>7, <2>1, <2>2, <2>3, Zenon DEF DeliverOne, registryVars
  <1> QED  BY <1>1, <1>2, <1>3, <1>4, <1>5, <1>6, <1>7, RegistrySteps, Zenon

\* A row that is WOKEN is covered: no call goes on to arm it.
LEMMA EnrollOf ==
    ASSUME Inv, [Next]_vars, NEW f \in Fibers, NEW w \in WaitIds, rows[w].state = "woken",
           call'[f].at = "enroll", call'[f].wait = w
    PROVE  call[f].at = "enroll" /\ call[f].wait = w
  <1>0. ASSUME NEW r, call' = [call EXCEPT ![f] = r]
        PROVE  call'[f] = r
    BY <1>0, Zenon DEF Inv, CallInv
  <1>1. CASE Crash \/ Begun(f)
    <2>1. CASE Crash
      BY <2>1, Zenon DEF Crash, Idle
    <2>2. CASE Begun(f)
      <3>1. PICK r : call' = [call EXCEPT ![f] = r] /\ r.at \in {"register", "next"}
        BY <2>2, Zenon DEF Begun
      <3> QED  BY <1>0, <3>1, Zenon
    <2> QED  BY <1>1, <2>1, <2>2, Zenon
  <1>2. ASSUME NEW a \in CallPhase \ {"enroll"}, Goto(f, a)
        PROVE  FALSE
    <2>1. PICK r : call' = [call EXCEPT ![f] = r] /\ r.at = a
      BY <1>2, GotoIs DEF Inv
    <2> QED  BY <1>0, <2>1, Zenon
  <1>3. ASSUME NEW a \in CallPhase, Goto(f, a)
        PROVE  call[f].wait = w
    <2>1. PICK r : call' = [call EXCEPT ![f] = r] /\ r.wait = call[f].wait
      BY <1>3, GotoIs DEF Inv
    <2> QED  BY <1>0, <2>1, Zenon
  <1>4. ASSUME Done(f)
        PROVE  FALSE
    <2>1. PICK r : call' = [call EXCEPT ![f] = r] /\ r.at \in {"idle", "next"}
      BY <1>4, DoneIs, Zenon DEF Inv
    <2> QED  BY <1>0, <2>1, Zenon
  <1>5. CASE CallRegister(f) \/ CallFlip(f)
    BY <1>2, <1>4, <1>5, Zenon DEF CallRegister, CallFlip, CallPhase
  <1>6. CASE SweepNext(f)
    <2>1. Idle.at # "enroll"
      BY Zenon DEF Idle
    <2>2. \/ call' = [call EXCEPT ![f] = Idle]
          \/ \E r : call' = [call EXCEPT ![f] = r] /\ r.at \in {"measure", "consume", "next"}
      BY <1>6, CallSweeps, Zenon
    <2> QED  BY <1>0, <2>1, <2>2, Zenon
  <1>7. CASE CallInspect(f)
    <2>1. PICK a \in CallPhase : Goto(f, a) /\ (a = "enroll" => RowRead(call[f].wait) = "pending")
      BY <1>4, <1>7, Zenon DEF CallInspect, CallPhase
    <2> QED  BY <1>2, <1>3, <2>1, Zenon DEF RowRead
  <1>8. CASE CallMeasure(f)
    <2>1. PICK a \in CallPhase : Goto(f, a) /\ (a = "enroll" => ~Covered(call[f].wait))
      BY <1>8, Zenon DEF CallMeasure, CallPhase
    <2>2. Covered(w)
      BY WrittenIsIssued DEF Covered, HighWater, Inv, QueueInv, QueueShape, RowInv, NotifierInv
    <2> QED  BY <1>2, <1>3, <2>1, <2>2, Zenon
  <1>9. CASE CallConsume(f) \/ CallEnroll(f)
    BY <1>4, <1>9, Zenon DEF CallConsume, CallEnroll
  <1>10. CASE call'[f] = call[f]
    BY <1>10, Zenon
  <1> QED  BY <1>1, <1>5, <1>6, <1>7, <1>8, <1>9, <1>10, CallOf, Zenon DEF Walks

LEMMA QuietStays ==
    ASSUME Inv, Tidings, [Next]_vars, NEW w \in WaitIds, rows[w].state = "woken", Quiet(w)
    PROVE  Quiet(w)'
  <1>1. \A k \in WaitKeys : k[1] = w => ~(registry'[k] = "pending" /\ future'[k] = "pending")
    BY PendOf, Zenon DEF Quiet, CallEnroll
  <1>2. \A f \in Fibers : ~(call'[f].at = "enroll" /\ call'[f].wait = w)
    BY EnrollOf, Zenon DEF Quiet
  <1> QED  BY <1>1, <1>2, Zenon DEF Quiet

\* A buffered wake stays, is taken or dropped, or goes with its fiber.
LEMMA BufferedOf ==
    ASSUME Inv, Tidings, Holders, [Next]_vars, NEW k \in WaitKeys, registry[k] = "buffered",
           ~Crash, runtime' = "up"
    PROVE  \/ registry'[k] = "buffered" \/ k[1] \in dropped' \cup taken'
           \/ \E f \in Fibers : Finish(f) /\ k[2] = f
  <1>1. CASE UNCHANGED registryVars
    BY <1>1, Zenon DEF registryVars
  <1>2. CASE ShutdownClear
    BY <1>2, Zenon DEF ShutdownClear
  <1>3. ASSUME NEW f \in Fibers, Finish(f), k[2] # f
        PROVE  registry'[k] = "buffered"
    <2>1. registry' = [l \in WaitKeys |-> IF l \in {j \in WaitKeys : j[2] = f} THEN "none" ELSE registry[l]]
      BY <1>3, Zenon DEF Finish
    <2> QED  BY <1>3, <2>1, Zenon
  <1>4. ASSUME NEW f \in Fibers, CallConsume(f) \/ CallEnroll(f)
        PROVE  registry'[k] = "buffered" \/ k[1] \in taken'
    <2>1. PICK w : w = call[f].wait
      BY Zenon
    <2>2. ASSUME NEW l \in KeysOf(w, "buffered"), registry' = [registry EXCEPT ![l] = "none"], taken' = taken \cup {w}
          PROVE  registry'[k] = "buffered" \/ k[1] \in taken'
      BY <2>2, Zenon DEF KeysOf, Tidings
    <2>3. CASE registry' = [registry EXCEPT ![<<w, f>>] = "pending"] /\ KeysOf(w, "buffered") = {}
      <3>1. k # <<w, f>>
        BY <2>3, Zenon DEF KeysOf
      <3> QED  BY <2>3, <3>1, Zenon DEF Tidings
    <2> QED  BY <1>4, <2>1, <2>2, <2>3, Zenon DEF CallConsume, CallEnroll, RacedBuffer, registryVars
  <1>5. ASSUME NEW l \in WaitKeys, Poll(l) \/ Drop(l)
        PROVE  registry'[k] = "buffered"
    <2>1. registry' = registry \/ registry' = [registry EXCEPT ![l] = IF @ = "pending" THEN "none" ELSE @]
      BY <1>5, Zenon DEF Poll, Drop, PollCancelled, PollReady, DropFuture
    <2> QED  BY <2>1, Zenon DEF Tidings
  <1>6. ASSUME NEW n \in NotifyKeys, NEW w \in WaitIds, DeliverOne(n, w)
        PROVE  registry'[k] = "buffered" \/ k[1] \in dropped'
    <2>1. ASSUME NEW l \in KeysOf(w, "pending"), Hand(l)
          PROVE  registry'[k] = "buffered"
      <3>1. PICK a : registry' = [registry EXCEPT ![l] = a]
        BY <2>1, Zenon DEF Hand
      <3>2. l # k
        BY Zenon DEF KeysOf
      <3> QED  BY <3>1, <3>2, Zenon DEF Tidings
    <2>2. CASE BufferOrphan(w)
      <3>1. PICK E : E = Evicted(w)
        BY Zenon
      <3>2. /\ registry' = [l \in WaitKeys |-> IF l \in {Orphaned(v) : v \in E} THEN "none"
                                ELSE IF l = Orphaned(w) /\ OrphanCapacity > 0 THEN "buffered" ELSE registry[l]]
            /\ dropped' = dropped \cup E
        BY <2>2, <3>1, Zenon DEF BufferOrphan
      <3>3. k \in {Orphaned(v) : v \in E} => k[1] \in E
        BY DEF Orphaned
      <3> QED  BY <3>2, <3>3, Zenon
    <2> QED  BY <1>6, <2>1, <2>2, Zenon DEF DeliverOne, registryVars
  <1> QED  BY <1>1, <1>2, <1>3, <1>4, <1>5, <1>6, RegistrySteps, Zenon

\* A wake a notifier carries is carried on, or handed over.
LEMMA CarriedOf ==
    ASSUME Inv, Tidings, Holders, [Next]_vars, NEW w \in WaitIds, NEW n \in NotifyKeys, Carries(n, w),
           ~Crash, runtime = "up"
    PROVE  Carries(n, w)' \/ w \in dropped' \cup taken' \/ KeysOf(w, "buffered")' # {}
  <1>0. /\ n \in DOMAIN receipts => n \in DOMAIN receipts' /\ receipts'[n] = receipts[n]
        /\ n \in DOMAIN receipts /\ w \in receipts[n].woken
    BY RowNext, Zenon DEF RowsMove, Carries, Inv, NotifierInv
  <1>1. CASE notifier'[n] = notifier[n]
    BY <1>0, <1>1, Zenon DEF Carries
  <1>2. CASE Commit(n)
    BY <1>0, <1>2, CommitIs, Zenon DEF Carries
  <1>3. CASE Notify(n)
    <2>1. notifier'[n].at = "notified" /\ notifier'[n].todo = receipts'[n].woken
      BY <1>3, NotifyIs, Zenon
    <2> QED  BY <1>0, <2>1, Zenon DEF Carries
  <1>4. CASE DeliverStart(n)
    <2>1. w \in notifier[n].todo
      BY <1>4, Zenon DEF DeliverStart, Carries
    <2>2. notifier' = [notifier EXCEPT ![n].at = "deliver"]
      BY <1>4, <2>1, Zenon DEF DeliverStart
    <2>3. notifier'[n].at = "deliver" /\ notifier'[n].todo = notifier[n].todo
      BY <2>2, Zenon DEF Inv, NotifierInv
    <2> QED  BY <2>1, <2>3, Zenon DEF Carries
  <1>5. CASE Redeliver(n)
    BY <1>5, Zenon DEF Redeliver, Carries
  <1>6. ASSUME NEW v \in WaitIds, DeliverOne(n, v), v # w
        PROVE  Carries(n, w)'
    <2>1. w \in notifier[n].todo /\ notifier \in [NotifyKeys -> NotifierType]
      BY <1>6, Zenon DEF DeliverOne, Carries, Inv, NotifierInv, NotifierType
    <2>2. PICK S : S = notifier[n].todo \ {v}
      BY Zenon
    <2>3. notifier' = [notifier EXCEPT ![n].todo = S, ![n].at = "deliver"]
      BY <1>6, <2>1, <2>2, Zenon DEF DeliverOne
    <2>4. notifier'[n].at = "deliver" /\ notifier'[n].todo = S
      BY <2>1, <2>3, Zenon DEF NotifierType
    <2> QED  BY <1>6, <2>1, <2>2, <2>4, Zenon DEF Carries
  <1>7. ASSUME DeliverOne(n, w)
        PROVE  w \in dropped' \cup taken' \/ KeysOf(w, "buffered")' # {}
    <2>1. ASSUME NEW k \in KeysOf(w, "pending"), Hand(k)
          PROVE  w \in dropped' \cup taken' \/ KeysOf(w, "buffered")' # {}
      <3>1. k \in WaitKeys /\ k[1] = w
        BY Zenon DEF KeysOf
      <3>2. CASE future[k] = "pending"
        BY <2>1, <3>1, <3>2, Zenon DEF Hand
      <3>3. CASE future[k] # "pending"
        <4>1. registry' = [registry EXCEPT ![k] = "buffered"]
          BY <2>1, <3>3, Zenon DEF Hand
        <4>2. registry'[k] = "buffered"
          BY <3>1, <4>1, Zenon DEF Tidings
        <4> QED  BY <3>1, <4>2, Zenon DEF KeysOf
      <3> QED  BY <3>2, <3>3, Zenon
    <2>2. CASE BufferOrphan(w)
      <3>1. PICK E : E = Evicted(w)
        BY Zenon
      <3>2. /\ registry' = [l \in WaitKeys |-> IF l \in {Orphaned(v) : v \in E} THEN "none"
                                ELSE IF l = Orphaned(w) /\ OrphanCapacity > 0 THEN "buffered" ELSE registry[l]]
            /\ dropped' = dropped \cup E
        BY <2>2, <3>1, Zenon DEF BufferOrphan
      <3>3. CASE w \in E
        BY <3>2, <3>3, Zenon
      <3>4. CASE w \notin E
        <4>1. OrphanCapacity > 0
          <5>1. OrphanCapacity # 0
            BY <3>1, <3>4, Zenon DEF Evicted
          <5> QED  BY <5>1, WaitBoundAssumption
        <4>2. Orphaned(w) \notin {Orphaned(v) : v \in E}
          BY <3>4, Zenon DEF Orphaned
        <4>3. registry'[Orphaned(w)] = "buffered"
          BY <3>2, <4>1, <4>2, KeyForms, Zenon
        <4> QED  BY <4>3, KeyForms, Zenon DEF KeysOf
      <3> QED  BY <3>3, <3>4, Zenon
    <2>3. CASE KeysOf(w, "buffered") # {} /\ UNCHANGED registryVars
      BY <2>3, Zenon DEF KeysOf, registryVars
    <2> QED  BY <1>7, <2>1, <2>2, <2>3, Zenon DEF DeliverOne
  <1> QED  BY <1>1, <1>2, <1>3, <1>4, <1>5, <1>6, <1>7, NotifierOf, Zenon DEF Hands

LEMMA WakeNext ==
    ASSUME Inv, Tidings, Holders, WakeInv, [Next]_vars
    PROVE  WakeInv'
  <1> SUFFICES ASSUME NEW w \in WaitIds, rows'[w].state = "woken", runtime' = "up"
               PROVE  \/ SelfFlipped(w)' \/ w \in dropped' \cup taken' \/ Carried(w)' \/ Quiet(w)'
                      \/ KeysOf(w, "buffered")' # {}
                      \/ \E f \in Fibers : <<w, f>> \in armed' /\ fiber'[f] = "terminal"
    BY Zenon DEF WakeInv
  <1>1. CASE Crash
    <2>1. registry' = [k \in WaitKeys |-> "none"] /\ call' = [f \in Fibers |-> Idle]
      BY <1>1, Zenon DEF Crash
    <2> QED  BY <2>1, Zenon DEF Quiet, Idle
  <1>2. CASE ~Crash /\ rows'[w] # rows[w]
    <2>1. ASSUME NEW n \in NotifyKeys, Notify(n), w \in receipts'[n].woken
          PROVE  Carried(w)'
      BY <2>1, NotifyIs, Zenon DEF Carried, Carries
    <2> QED  BY <1>2, <2>1, WokenOf, Zenon
  <1>3. CASE ~Crash /\ rows'[w] = rows[w]
    <2>0. runtime = "up" /\ rows[w].state = "woken"
      BY <1>3, Grows, Zenon
    <2>1. CASE SelfFlipped(w)
      BY <2>1, RowNext, Zenon DEF SelfFlipped, RowsMove
    <2>2. CASE w \in dropped \cup taken
      BY <1>3, <2>2, Grows, Zenon
    <2>3. CASE Carried(w)
      BY <1>3, <2>0, <2>3, CarriedOf, Zenon DEF Carried
    <2>4. CASE Quiet(w)
      BY <2>0, <2>4, QuietStays, Zenon
    <2>5. CASE KeysOf(w, "buffered") # {}
      <3>1. PICK k \in WaitKeys : k[1] = w /\ registry[k] = "buffered"
        BY <2>5, Zenon DEF KeysOf
      <3>2. CASE registry'[k] = "buffered"
        BY <3>1, <3>2, Zenon DEF KeysOf
      <3>3. ASSUME NEW f \in Fibers, Finish(f), k[2] = f
            PROVE  <<w, f>> \in armed' /\ fiber'[f] = "terminal"
        <4>1. k = <<w, f>>
          BY <3>1, <3>3, KeyForms, WaitBoundAssumption DEF Orphaned
        <4>2. <<w, f>> \in armed
          BY <3>1, <4>1, Zenon DEF Holders
        <4> QED  BY <1>3, <3>3, <4>2, Grows, Zenon
      <3> QED  BY <1>3, <3>1, <3>2, <3>3, BufferedOf, Zenon
    <2>6. CASE \E f \in Fibers : <<w, f>> \in armed /\ fiber[f] = "terminal"
      BY <1>3, <2>6, Grows, Zenon
    <2> QED  BY <2>0, <2>1, <2>2, <2>3, <2>4, <2>5, <2>6, Zenon DEF WakeInv
  <1> QED  BY <1>1, <1>2, <1>3, Zenon

LEMMA WakesReach ==
    ASSUME Inv, Tidings, Holders, WakeInv
    PROVE  WakeReachesItsWait
  <1> SUFFICES ASSUME NEW k \in WaitKeys, Stranded(k), ~SelfFlipped(k[1]), k[1] \notin dropped \cup taken
               PROVE  \E f \in Fibers \ {k[2]} : <<k[1], f>> \in armed
    BY Zenon DEF WakeReachesItsWait
  <1>1. PICK w \in WaitIds : w = k[1]
    BY KeyForms, Zenon
  <1>2. /\ registry[k] = "pending" /\ ~Carried(w) /\ ~Quiet(w) /\ rows[w].state = "woken" /\ runtime = "up"
    BY <1>1, Zenon DEF Stranded, Carried, Quiet
  <1>3. k[2] \in Fibers /\ k = <<w, k[2]>> /\ fiber[k[2]] = "running"
    BY <1>1, <1>2, KeyForms, Zenon DEF Holders
  <1>4. CASE KeysOf(w, "buffered") # {}
    <2>1. PICK l \in WaitKeys : l[1] = w /\ registry[l] = "buffered"
      BY <1>4, Zenon DEF KeysOf
    <2>2. l # Orphaned(w)
      BY <1>1, <1>2, <2>1, Zenon DEF Holders, KeysOf
    <2>3. l[2] \in Fibers /\ l = <<w, l[2]>>
      BY <2>1, <2>2, KeyForms, Zenon
    <2>4. l[2] # k[2]
      BY <1>2, <1>3, <2>1, <2>3, Zenon
    <2> QED  BY <1>1, <2>1, <2>3, <2>4, Zenon DEF Holders
  <1>5. CASE \E f \in Fibers : <<w, f>> \in armed /\ fiber[f] = "terminal"
    BY <1>1, <1>3, <1>5, Zenon
  <1> QED  BY <1>1, <1>2, <1>4, <1>5, Zenon DEF WakeInv

-----------------------------------------------------------------------------
(* The age order.                                                          *)

LEMMA OrderKeeps ==
    ASSUME OrderInv, order' = order,
           \A w \in WaitIds : registry'[Orphaned(w)] = "buffered" <=> registry[Orphaned(w)] = "buffered"
    PROVE  OrderInv'
  <1>1. Orphans(registry') = Orphans(registry)
    BY Zenon DEF Orphans
  <1> QED  BY <1>1, Zenon DEF OrderInv

\* remove: the entry and its age slot go together.
LEMMA OrderLoses ==
    ASSUME OrderInv, Tidings, NEW k \in WaitKeys, registry[k] = "buffered",
           registry' = [registry EXCEPT ![k] = "none"], order' = OrderWithout(k)
    PROVE  OrderInv'
  <1>1. CASE k # Orphaned(k[1])
    <2>1. \A w \in WaitIds : Orphaned(w) # k
      BY <1>1, KeyForms, Zenon
    <2>2. order' = order
      BY <1>1, Zenon DEF OrderWithout
    <2> QED  BY <2>1, <2>2, KeyForms, OrderKeeps, Zenon DEF Tidings
  <1>2. CASE k = Orphaned(k[1])
    <2>1. PICK w \in WaitIds : w = k[1] /\ k = Orphaned(w)
      BY <1>2, KeyForms, Zenon
    <2>2. order \in Seq(WaitIds) /\ w \in Range(order)
      BY <2>1, Zenon DEF OrderInv, Lists, Orphans
    <2>3. PICK i \in DOMAIN order : order[i] = w
      BY <2>2, Zenon DEF Range
    <2>4. {j \in DOMAIN order : order[j] = w} = {i}
      BY <2>3, Zenon DEF OrderInv, Lists, IsInjective
    <2>5. Min({i}) = i
      BY <2>2, <2>3, ListedIs DEF Min
    <2>6. order' = [j \in 1..(Len(order) - 1) |-> IF j < i THEN order[j] ELSE order[j + 1]]
      BY <2>1, <2>4, <2>5, Zenon DEF OrderWithout
    <2>7. Lists(order', Orphans(registry) \ {w}) /\ Len(order') = Len(order) - 1
      BY <2>3, <2>6, Unlisted DEF OrderInv
    <2>8. Orphans(registry') = Orphans(registry) \ {w}
      BY <2>1, KeyForms DEF Orphans, Tidings
    <2>9. Len(order) \in Nat /\ OrphanCapacity \in Nat /\ Len(order) <= OrphanCapacity
      BY <2>2, ListedIs, WaitBoundAssumption, Zenon DEF OrderInv
    <2>10. Len(order') <= OrphanCapacity
      BY <2>7, <2>9
    <2> QED  BY <2>7, <2>8, <2>10, Zenon DEF OrderInv
  <1> QED  BY <1>1, <1>2, Zenon

\* buffer_orphan: the oldest entry makes room for the new one at capacity.
LEMMA OrderBuffers ==
    ASSUME OrderInv, NEW w \in WaitIds, KeysOf(w, "buffered") = {}, BufferOrphan(w)
    PROVE  OrderInv'
  <1>0. order \in Seq(WaitIds) /\ Len(order) \in Nat /\ Len(order) <= OrphanCapacity /\ OrphanCapacity \in Nat
    BY ListedIs, WaitBoundAssumption, Zenon DEF OrderInv, Lists
  <1>1. PICK E : E = Evicted(w)
    BY Zenon
  <1>2. ASSUME NEW v \in WaitIds
        PROVE  v \in Orphans(registry') <=> v \notin E /\ (v \in Orphans(registry) \/ (v = w /\ OrphanCapacity > 0))
    <2>1. registry' = [k \in WaitKeys |-> IF k \in {Orphaned(u) : u \in E} THEN "none"
                                ELSE IF k = Orphaned(w) /\ OrphanCapacity > 0 THEN "buffered" ELSE registry[k]]
      BY <1>1, Zenon DEF BufferOrphan
    <2>2. Orphaned(v) \in WaitKeys /\ (Orphaned(v) = Orphaned(w) <=> v = w)
      BY KeyForms, Zenon
    <2>3. Orphaned(v) \in {Orphaned(u) : u \in E} <=> v \in E
      BY Zenon DEF Orphaned
    <2> QED  BY <2>1, <2>2, <2>3, Zenon DEF Orphans
  <1>3. Orphans(registry') \subseteq WaitIds /\ Orphans(registry) \subseteq WaitIds
    BY Zenon DEF Orphans
  <1>4. CASE OrphanCapacity = 0
    <2>1. E = {w} /\ order' = order /\ Len(order) = 0
      BY <1>0, <1>1, <1>4 DEF Evicted, BufferOrphan, BufferedOrder
    <2>2. Orphans(registry) = {}
      <3>1. order \in Seq(WaitIds) /\ Range(order) = Orphans(registry)
        BY Zenon DEF OrderInv, Lists
      <3>2. DOMAIN order = 1..0 /\ 1..0 = {}
        BY <2>1, <3>1, ListedIs
      <3> QED  BY <3>1, <3>2, Zenon DEF Range
    <2>3. Orphans(registry') = {}
      BY <1>2, <1>3, <1>4, <2>2
    <2> QED  BY <2>1, <2>2, <2>3, Zenon DEF OrderInv
  <1>5. CASE OrphanCapacity # 0
    <2>0. OrphanCapacity > 0
      BY <1>0, <1>5
    <2>1. PICK c \in 0..1 : /\ c <= Len(order) /\ E = {order[i] : i \in 1..c} /\ Cardinality(E) = c
                            /\ Len(order) - c < OrphanCapacity
      <3>1. E = {order[i] : i \in 1..(Len(order) - OrphanCapacity + 1)}
        BY <1>1, <1>5, Zenon DEF Evicted
      <3>2. CASE Len(order) < OrphanCapacity
        <4>1. 1..(Len(order) - OrphanCapacity + 1) = {} /\ 1..0 = {}
          BY <1>0, <3>2
        <4>2. E = {order[i] : i \in 1..0} /\ E = {}
          BY <3>1, <4>1, Zenon
        <4>3. Cardinality(E) = 0
          BY <4>2, FS_EmptySet, Zenon
        <4>4. 0 \in 0..1 /\ 0 <= Len(order) /\ Len(order) - 0 < OrphanCapacity
          BY <1>0, <3>2
        <4> QED  BY <4>2, <4>3, <4>4, Zenon
      <3>3. CASE Len(order) = OrphanCapacity
        <4>1. 1..(Len(order) - OrphanCapacity + 1) = 1..1 /\ 1..1 = {1} /\ 1 <= Len(order) /\ Len(order) - 1 < OrphanCapacity
          BY <1>0, <2>0, <3>3
        <4>2. E = {order[i] : i \in 1..1} /\ E = {order[1]}
          BY <3>1, <4>1, Zenon
        <4>3. Cardinality({order[1]}) = 1
          BY FS_Singleton, Zenon
        <4>4. 1 \in 0..1
          OBVIOUS
        <4> QED  BY <4>1, <4>2, <4>3, <4>4, Zenon
      <3> QED  BY <1>0, <3>2, <3>3
    <2>2. PICK o : o = SubSeq(order, c + 1, Len(order))
      BY Zenon
    <2>3. order' = Append(o, w)
      BY <1>1, <1>5, <2>1, <2>2, Zenon DEF BufferOrphan, BufferedOrder
    <2>4. Lists(o, Orphans(registry) \ E) /\ Len(o) = Len(order) - c
      BY <2>1, <2>2, ListedFrom, Zenon DEF OrderInv
    <2>5. w \notin Orphans(registry)
      BY KeyForms, Zenon DEF Orphans, KeysOf
    <2>6. Lists(order', (Orphans(registry) \ E) \cup {w}) /\ Len(order') = Len(o) + 1
      BY <2>3, <2>4, <2>5, ListedLast, Zenon
    <2>7. E \subseteq Orphans(registry)
      BY <1>0, <2>1, ListedIs DEF OrderInv, Lists, Range
    <2>8. Orphans(registry') = (Orphans(registry) \ E) \cup {w}
      BY <1>2, <1>3, <2>0, <2>5, <2>7, Zenon
    <2>9. Len(order') <= OrphanCapacity
      BY <1>0, <2>1, <2>4, <2>6
    <2> QED  BY <2>6, <2>8, <2>9, Zenon DEF OrderInv
  <1> QED  BY <1>4, <1>5, Zenon

\* The rest of the types: cancelled fibers, armed keys and what became of wakes.
LEMMA PlainNext ==
    ASSUME Inv, Tidings, Holders, PlainInv, OrderInv, [Next]_vars
    PROVE  PlainInv'
  <1>1. runtime' \in {"up", "flagged", "down"} /\ cancelled' \subseteq Fibers
    <2>1. CASE UNCHANGED <<runtime, cancelled>>
      BY <2>1, Zenon DEF PlainInv
    <2>2. CASE Apart
      BY <2>2, Zenon DEF Apart, Spawn, CancelScope, Finish, Poll, Drop, ShutdownFlag, ShutdownClear,
         Crash, vars, fiberVars, PlainInv
    <2>3. CASE (\E f \in Fibers : Walks(f)) \/ \E n \in NotifyKeys : Hands(n)
      BY <2>1, <2>3, WalksLeave, HandsLeave, Zenon DEF fiberVars
    <2>4. CASE Starts \/ \E f \in Fibers : CallRegister(f) \/ CallFlip(f)
      BY <2>1, <2>4, StartsLeave, Zenon DEF CallRegister, CallFlip, fiberVars
    <2>5. CASE (\E n \in NotifyKeys : Commit(n) \/ Notify(n)) \/ \E w \in WaitIds : CancelRow(w)
      BY <2>1, <2>5, Zenon DEF Commit, Notify, CancelRow, fiberVars
    <2>6. CASE Crash
      BY <2>6, Zenon DEF Crash
    <2> QED  BY <2>2, <2>3, <2>4, <2>5, <2>6, Steps, Zenon
  <1>2. armed' \subseteq WaitKeys
    <2>1. ASSUME NEW f \in Fibers, CallRegister(f)
          PROVE  armed' \subseteq WaitKeys
      <3>1. armed' \subseteq armed \cup {<<call[f].wait, f>>} /\ call[f].wait \in WaitIds
        BY <2>1, CallRegisters, Zenon
      <3> QED  BY <3>1, KeyForms DEF PlainInv
    <2>2. CASE Starts
      <3>1. ASSUME NEW f \in Fibers, NEW S \in SUBSET WaitIds, armed' = armed \cup (S \X {f})
            PROVE  armed' \subseteq WaitKeys
        BY <3>1, Zenon DEF PlainInv, WaitKeys
      <3>2. CASE armed' = armed
        BY <3>2, Zenon DEF PlainInv
      <3>3. Listed \subseteq WaitIds /\ PendingRows \subseteq WaitIds
        BY Zenon DEF Listed, PendingRows
      <3> QED  BY <2>2, <3>1, <3>2, <3>3, Zenon DEF Starts, WaitForChannel, RearmChannelWaits,
                  ResumeBinding, historyVars
    <2>3. CASE Crash
      BY <2>3, Zenon DEF Crash
    <2> QED  BY <2>1, <2>2, <2>3, ArmedOf, Zenon DEF PlainInv
  <1>3. dropped' \cup taken' \subseteq WaitIds
    <2>1. CASE UNCHANGED <<dropped, taken>>
      BY <2>1, Zenon DEF PlainInv
    <2>2. CASE Apart \/ Starts
      BY <2>1, <2>2, StartsLeave, Zenon DEF Apart, Spawn, CancelScope, Finish, Poll, Drop,
         ShutdownFlag, ShutdownClear, vars, historyVars
    <2>3. CASE Crash
      BY <2>3, Zenon DEF Crash
    <2>4. ASSUME NEW f \in Fibers, Walks(f) \/ CallRegister(f) \/ CallFlip(f)
          PROVE  dropped' \cup taken' \subseteq WaitIds
      <3>1. CASE CallConsume(f) \/ CallEnroll(f)
        <4>1. call[f].wait \in WaitIds
          BY <3>1, Zenon DEF CallConsume, CallEnroll, Inv, CallInv, Shaped
        <4>2. dropped' = dropped /\ taken' \subseteq taken \cup {call[f].wait}
          BY <3>1, Zenon DEF CallConsume, CallEnroll
        <4> QED  BY <4>1, <4>2, Zenon DEF PlainInv
      <3> QED  BY <2>1, <2>4, <3>1, Zenon DEF Walks, SweepNext, CallInspect, CallMeasure, CallRegister,
                  CallFlip, historyVars
    <2>5. ASSUME NEW n \in NotifyKeys, NEW w \in WaitIds, DeliverOne(n, w)
          PROVE  dropped' \cup taken' \subseteq WaitIds
      <3>1. Evicted(w) \subseteq WaitIds
        <4>1. order \in Seq(WaitIds) /\ Len(order) \in Nat /\ OrphanCapacity \in Nat
              /\ \A i \in 1..Len(order) : order[i] \in WaitIds
          BY ListedIs, WaitBoundAssumption, Zenon DEF OrderInv, Lists
        <4>2. OrphanCapacity # 0 => \A i \in 1..(Len(order) - OrphanCapacity + 1) : i \in 1..Len(order)
          BY <4>1
        <4> QED  BY <4>1, <4>2, Zenon DEF Evicted
      <3>2. \A k \in KeysOf(w, "pending") : k[1] = w
        BY Zenon DEF KeysOf
      <3>3. dropped' \subseteq dropped \cup Evicted(w) /\ taken' \subseteq taken \cup {w}
        BY <2>5, <3>2, Zenon DEF DeliverOne, Hand, BufferOrphan
      <3> QED  BY <3>1, <3>3, Zenon DEF PlainInv
    <2>6. CASE (\E n \in NotifyKeys : Hands(n) \/ Commit(n) \/ Notify(n)) \/ \E w \in WaitIds : CancelRow(w)
      BY <2>1, <2>5, <2>6, Zenon DEF Hands, DeliverStart, Redeliver, Commit, Notify, CancelRow,
         historyVars
    <2> QED  BY <2>2, <2>3, <2>4, <2>6, Steps, Zenon
  <1> QED  BY <1>1, <1>2, <1>3, Zenon DEF PlainInv

LEMMA OrderNext ==
    ASSUME Inv, Tidings, Holders, PlainInv, OrderInv, [Next]_vars
    PROVE  OrderInv'
  <1>1. CASE UNCHANGED registryVars
    BY <1>1, OrderKeeps, Zenon DEF registryVars
  <1>2. CASE ShutdownClear \/ Crash
    <2>1. registry' = [k \in WaitKeys |-> "none"] /\ order' = <<>>
      BY <1>2, Zenon DEF ShutdownClear, Crash
    <2>2. Orphans(registry') = {}
      BY <2>1, KeyForms, Zenon DEF Orphans
    <2>3. Lists(<<>>, {}) /\ Len(<<>>) = 0
      BY DEF Lists, IsInjective, Range
    <2>4. 0 <= OrphanCapacity
      BY WaitBoundAssumption
    <2> QED  BY <2>1, <2>2, <2>3, <2>4, Zenon DEF OrderInv
  <1>3. ASSUME NEW f \in Fibers, Finish(f)
        PROVE  OrderInv'
    <2>1. /\ registry' = [k \in WaitKeys |-> IF k \in {l \in WaitKeys : l[2] = f} THEN "none" ELSE registry[k]]
          /\ order' = Retained(registry')
      BY <1>3, Zenon DEF Finish
    <2>2. \A w \in WaitIds : Orphaned(w) \in WaitKeys /\ Orphaned(w)[2] # f
      BY WaitBoundAssumption, KeyForms, Zenon DEF Orphaned
    <2>3. \A w \in WaitIds : registry'[Orphaned(w)] = registry[Orphaned(w)]
      BY <2>1, <2>2, Zenon
    <2>4. \A w \in Range(order) : registry'[Orphaned(w)] # "none"
      BY <2>3, Zenon DEF OrderInv, Lists, Orphans
    <2>5. order' = order
      BY <2>1, <2>4, RetainedAll, Zenon DEF OrderInv, Lists
    <2> QED  BY <2>3, <2>5, OrderKeeps, Zenon
  <1>4. ASSUME NEW f \in Fibers, CallConsume(f) \/ CallEnroll(f)
        PROVE  OrderInv'
    <2>1. PICK w : w = call[f].wait
      BY Zenon
    <2>2. ASSUME NEW k \in KeysOf(w, "buffered"), registry' = [registry EXCEPT ![k] = "none"], order' = OrderWithout(k)
          PROVE  OrderInv'
      BY <2>2, OrderLoses, Zenon DEF KeysOf
    <2>3. CASE registry' = [registry EXCEPT ![<<w, f>>] = "pending"] /\ order' = order
      <3>1. \A v \in WaitIds : Orphaned(v) # <<w, f>> /\ Orphaned(v) \in WaitKeys
        BY KeyForms, WaitBoundAssumption, Zenon DEF Orphaned
      <3> QED  BY <2>3, <3>1, OrderKeeps, Zenon DEF Tidings
    <2>4. CASE UNCHANGED <<registry, order>>
      BY <2>4, OrderKeeps, Zenon
    <2> QED  BY <1>4, <2>1, <2>2, <2>3, <2>4, Zenon DEF CallConsume, CallEnroll, RacedBuffer,
                registryVars
  <1>5. ASSUME NEW k \in WaitKeys, Poll(k) \/ Drop(k)
        PROVE  OrderInv'
    <2>1. CASE UNCHANGED <<registry, order>>
      BY <2>1, OrderKeeps, Zenon
    <2>2. CASE PollCancelled(k)
      <3>1. k[2] \in Fibers /\ k # Orphaned(k[1])
        BY <2>2, WaitBoundAssumption DEF PollCancelled, PlainInv, Orphaned
      <3>2. order' = order
        BY <2>2, <3>1, Zenon DEF PollCancelled, OrderWithout
      <3>3. PICK a : registry' = [registry EXCEPT ![k] = a]
        BY <2>2, Zenon DEF PollCancelled
      <3>4. \A w \in WaitIds : Orphaned(w) # k /\ Orphaned(w) \in WaitKeys
        BY <3>1, KeyForms, Zenon
      <3> QED  BY <3>2, <3>3, <3>4, OrderKeeps, Zenon DEF Tidings
    <2> QED  BY <1>5, <2>1, <2>2, Zenon DEF Poll, PollReady, Drop, DropFuture
  <1>6. ASSUME NEW n \in NotifyKeys, NEW w \in WaitIds, DeliverOne(n, w)
        PROVE  OrderInv'
    <2>1. ASSUME NEW k \in KeysOf(w, "pending"), Hand(k)
          PROVE  OrderInv'
      <3>1. PICK a : registry' = [registry EXCEPT ![k] = a] /\ order' = order
        BY <2>1, Zenon DEF Hand
      <3>2. \A v \in WaitIds : Orphaned(v) # k /\ Orphaned(v) \in WaitKeys
        BY KeyForms, Zenon DEF KeysOf, Holders
      <3> QED  BY <3>1, <3>2, OrderKeeps, Zenon DEF Tidings
    <2>2. CASE KeysOf(w, "buffered") = {} /\ BufferOrphan(w)
      BY <2>2, OrderBuffers, Zenon
    <2> QED  BY <1>1, <1>6, <2>1, <2>2, Zenon DEF DeliverOne
  <1> QED  BY <1>1, <1>2, <1>3, <1>4, <1>5, <1>6, RegistrySteps, Zenon

LEMMA OrderIsExact ==
    ASSUME Inv, Tidings, Holders, PlainInv, OrderInv
    PROVE  OrphansExact
  <1>1. order \in Seq(WaitIds) /\ Len(order) <= OrphanCapacity /\ IsInjective(order)
        /\ Range(order) = {w \in WaitIds : registry[Orphaned(w)] = "buffered"}
    BY Zenon DEF OrderInv, Lists, Orphans
  <1>2. \A f \in Fibers : call[f].at \in CallPhase
    BY Zenon DEF Inv, CallInv, Shaped, CallType
  <1>3. told \cup dropped \cup taken \subseteq WaitIds
    BY Zenon DEF PlainInv, Tidings
  <1> QED  BY <1>1, <1>2, <1>3, Zenon DEF OrphansExact, TypeOK, PlainInv, Tidings, Holders

LEMMA WakesStart ==
    ASSUME Init
    PROVE  Holders /\ WakeInv /\ PlainInv /\ OrderInv
  <1>1. /\ registry = [k \in WaitKeys |-> "none"] /\ future = [k \in WaitKeys |-> "none"] /\ order = <<>>
        /\ call = [f \in Fibers |-> Idle] /\ fiber = [f \in Fibers |-> "absent"]
        /\ told = {} /\ armed = {} /\ dropped = {} /\ taken = {} /\ runtime = "up" /\ cancelled = {}
        /\ \A w \in WaitIds : rows[w].state = "none"
    BY Zenon DEF Init, WaitInit, NoRow
  <1>2. WakeInv /\ PlainInv
    BY <1>1, Zenon DEF WakeInv, PlainInv
  <1>3. Holders
    BY <1>1, KeyForms, Zenon DEF Holders
  <1>4. Orphans(registry) = {}
    BY <1>1, KeyForms, Zenon DEF Orphans
  <1>5. Lists(<<>>, {}) /\ Len(<<>>) = 0 /\ 0 <= OrphanCapacity
    <2>1. << >> \in Seq(WaitIds) /\ Len(<< >>) = 0 /\ DOMAIN << >> = {}
      OBVIOUS
    <2>2. 0 <= OrphanCapacity
      BY WaitBoundAssumption
    <2> QED  BY <2>1, <2>2, Zenon DEF Lists, IsInjective, Range
  <1> QED  BY <1>1, <1>2, <1>3, <1>4, <1>5, Zenon DEF OrderInv

-----------------------------------------------------------------------------
(* Theorems.                                                               *)

LEMMA HoldersHold == Spec => []Holders
  BY WakesStart, HoldersNext, InvHolds, TidingsHold, PTL DEF Spec

\* No wake a notifier brings is lost: a wait whose row is WOKEN stays pending
\* with nobody carrying its wake only when an arming call flipped the row, when
\* the bounded buffer dropped the wake, or when another arming call for the wait
\* could take it (deliver, buffer_orphan and the critical section of the arm).
THEOREM WakesReachTheirWaits == Spec => []WakeReachesItsWait
  <1>1. Spec => []WakeInv
    BY WakesStart, WakeNext, InvHolds, TidingsHold, HoldersHold, PTL DEF Spec
  <1> QED  BY <1>1, WakesReach, InvHolds, TidingsHold, HoldersHold, PTL

\* The age order of the orphan buffer is exact: each orphaned buffered wake
\* once, oldest first by construction, nothing else, and never beyond the
\* capacity (remove, retain, clear and buffer_orphan of ChannelWaitRegistry).
THEOREM OrphanOrderStaysExact == Spec => []OrphansExact
  <1>1. Spec => [](PlainInv /\ OrderInv)
    BY WakesStart, PlainNext, OrderNext, InvHolds, TidingsHold, HoldersHold, PTL DEF Spec
  <1> QED  BY <1>1, OrderIsExact, InvHolds, TidingsHold, HoldersHold, PTL
=============================================================================
