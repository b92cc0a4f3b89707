-------------------------- MODULE ChannelWaitProofs --------------------------
(***************************************************************************)
(* Proofs about ChannelWait, for any waits, fibers, notifiers and buffer   *)
(* capacity: wakes are accounted once, nobody is told Woken before the     *)
(* flip is committed, and no registered row is missed by a commit that     *)
(* covers it.                                                              *)
(***************************************************************************)
EXTENDS ChannelWait, ChannelQueueProofs

-----------------------------------------------------------------------------
(* The invariants.                                                         *)

RowStates == {"none", "pending", "woken", "cancelled"}

\* The rows and the receipts.  A wait's own key is used up by its flip.
RowInv ==
    /\ rows \in [WaitIds -> [state : RowStates, fiber : Fibers \cup {"none"}, target : Nat, upTo : Nat]]
    /\ DOMAIN receipts \subseteq ReceiptKeys
    /\ \A k \in DOMAIN receipts : \A w \in receipts[k].woken :
           w \in WaitIds /\ rows[w].state = "woken" /\ rows[w].upTo = receipts[k].upTo
    /\ \A w \in WaitIds : rows[w].state = "woken" =>
           rows[w].upTo >= rows[w].target /\ \E k \in DOMAIN receipts : w \in receipts[k].woken
    /\ \A k, l \in DOMAIN receipts : \A w \in receipts[k].woken \cap receipts[l].woken : k = l
    /\ \A w \in WaitIds : SelfNotifyKey(w) \in DOMAIN receipts => rows[w].state \in {"woken", "cancelled"}

\* What the entries and the notifiers have to do with each other.
NotifierInv ==
    /\ notifier \in [NotifyKeys -> [at : {"new", "committed", "notified", "deliver", "refused", "done"},
                                    upTo : Nat, todo : SUBSET WaitIds]]
    /\ \A a, b \in Live : queue.entries[a].key = queue.entries[b].key => a = b
    /\ \A n \in NotifyKeys : notifier[n].at # "new" => notifier[n].upTo \in EntriesUnder(n)
    /\ \A n \in NotifyKeys : n \in DOMAIN receipts => EntriesUnder(n) # {}
    /\ \A n \in NotifyKeys : notifier[n].at \in {"notified", "deliver"} =>
           n \in DOMAIN receipts /\ notifier[n].todo \subseteq receipts[n].woken
    /\ \A n \in NotifyKeys : notifier[n].at = "refused" => runtime # "up"
    /\ \A w \in WaitIds : rows[w].state = "woken" => rows[w].target <= issued

\* What an arming call knows of the row it is at and of the rows it listed.
CallType == [at : CallPhase, sweep : BOOLEAN, wait : WaitIds \cup {Nobody}, target : Nat,
             todo : SUBSET (WaitIds \X {"pending", "woken", "cancelled"})]

\* Only a sweep has rows to go over.
Shaped(r) ==
    /\ r \in CallType
    /\ r.at \notin {"idle", "next"} => r.wait \in WaitIds
    /\ r.todo # {} => r.sweep
    /\ r.at \in {"idle", "register", "inspect"} => r.todo = {}

CallFit(f, r) ==
    /\ r.at \notin {"idle", "next", "register"} => rows[r.wait].state # "none" /\ <<r.wait, f>> \in armed
    /\ r.at = "consume" => rows[r.wait].state = "woken"
    /\ r.at = "flip" => rows[r.wait].target <= issued
    /\ \A row \in r.todo : /\ rows[row[1]].state # "none" /\ <<row[1], f>> \in armed
                           /\ row[2] = "woken" => rows[row[1]].state = "woken"

CallInv ==
    /\ call = [f \in Fibers |-> call[f]]
    /\ \A f \in Fibers : Shaped(call[f]) /\ CallFit(f, call[f])

Inv == QueueInv /\ RowInv /\ NotifierInv /\ CallInv

\* What the registry, the futures and the callers have was woken.
Tidings ==
    /\ registry \in [WaitKeys -> {"none", "pending", "buffered"}]
    /\ future \in [WaitKeys -> {"none", "pending", "dropped", "fired", "closed"}]
    /\ \A k \in WaitKeys : registry[k] = "buffered" => rows[k[1]].state = "woken"
    /\ \A k \in WaitKeys : future[k] = "fired" => rows[k[1]].state = "woken"
    /\ told \subseteq WaitIds /\ \A w \in told : rows[w].state = "woken"

\* A notifier that has still to notify, for the first time, a sequence the row
\* is covered by.
WillFlip(w) ==
    \E n \in NotifyKeys : n \notin DOMAIN receipts /\
        \/ notifier[n].at = "committed" /\ notifier[n].upTo >= rows[w].target
        \/ notifier[n].at = "new" /\ \E s \in EntriesUnder(n) : s >= rows[w].target

CoverInv ==
    \A w \in PendingRows : issued >= rows[w].target =>
        WillFlip(w) \/ WillMeasure(w) \/ (restarted /\ \A f \in Fibers : <<w, f>> \notin armed)

-----------------------------------------------------------------------------
(* The rows.                                                               *)

RowType == [state : RowStates, fiber : Fibers \cup {"none"}, target : Nat, upTo : Nat]

\* What no step does to the rows and the receipts: a decided row stays as it
\* is, a registered one keeps its target, a receipt is never rewritten.
RowsMove ==
    /\ \A w \in WaitIds : rows[w].state # "none" =>
           rows'[w].state # "none" /\ rows'[w].target = rows[w].target
    /\ \A w \in WaitIds : rows[w].state \in {"woken", "cancelled"} => rows'[w] = rows[w]
    /\ DOMAIN receipts \subseteq DOMAIN receipts'
    /\ \A k \in DOMAIN receipts : receipts'[k] = receipts[k]

LEMMA RowWoken ==
    ASSUME NEW r \in RowType, NEW n \in Nat
    PROVE  /\ [r EXCEPT !.state = "woken", !.upTo = n] \in RowType
           /\ [r EXCEPT !.state = "woken", !.upTo = n].state = "woken"
           /\ [r EXCEPT !.state = "woken", !.upTo = n].upTo = n
           /\ [r EXCEPT !.state = "woken", !.upTo = n].target = r.target
  BY Zenon DEF RowType, RowStates

LEMMA RowsUntouched ==
    ASSUME RowInv, UNCHANGED rowVars
    PROVE  RowInv' /\ RowsMove
  BY DEF RowInv, RowsMove, rowVars, ReceiptKeys

LEMMA RegisterKeeps ==
    ASSUME RowInv, NEW w \in WaitIds, NEW f \in Fibers, NEW t \in Nat, RegisterWait(w, f, t)
    PROVE  /\ RowInv' /\ RowsMove /\ UNCHANGED receipts
           /\ \A v \in WaitIds \ {w} : rows'[v] = rows[v]
           /\ rows'[w] = rows[w] \/ (rows[w].state = "none" /\ rows'[w].state = "pending")
           /\ RegisterVerdict(w, f, t) # "conflict" => rows'[w].state # "none"
  <1>1. CASE RegisterVerdict(w, f, t) # "registered"
    <2>1. UNCHANGED rowVars
      BY <1>1, Zenon DEF RegisterWait, rowVars
    <2>2. RegisterVerdict(w, f, t) # "conflict" => rows[w].state # "none"
      BY <1>1, Zenon DEF RegisterVerdict
    <2>3. rows' = rows /\ receipts' = receipts /\ RowInv' /\ RowsMove
      BY <2>1, RowsUntouched, Zenon DEF rowVars
    <2> QED  BY <2>2, <2>3, Zenon
  <1>2. CASE RegisterVerdict(w, f, t) = "registered"
    <2>1. rows[w].state = "none"
      BY <1>2, Zenon DEF RegisterVerdict
    <2>2. PICK r \in RowType : r = [state |-> "pending", fiber |-> f, target |-> t, upTo |-> 0]
      BY Zenon DEF RowType, RowStates
    <2>3. rows' = [rows EXCEPT ![w] = r] /\ UNCHANGED receipts
      BY <1>2, <2>2, Zenon DEF RegisterWait
    <2>4. r.state = "pending"
      BY <2>2, Zenon
    <2>5. /\ rows' \in [WaitIds -> RowType] /\ rows'[w] = r
          /\ \A v \in WaitIds \ {w} : rows'[v] = rows[v]
      BY <2>3, Zenon DEF RowInv, RowType
    <2>6. RowsMove
      BY <2>1, <2>3, <2>5, Zenon DEF RowsMove
    <2>7. RowInv'
      <3>1. \A v \in WaitIds : rows[v].state \in {"woken", "cancelled"} => rows'[v] = rows[v]
        BY <2>6, Zenon DEF RowsMove
      <3>2. \A v \in WaitIds : rows'[v].state = "woken" => rows'[v] = rows[v]
        BY <2>4, <2>5, Zenon
      <3> QED  BY <2>3, <2>5, <3>1, <3>2 DEF RowInv, RowType, ReceiptKeys
    <2> QED  BY <2>1, <2>3, <2>4, <2>5, <2>6, <2>7, Zenon
  <1> QED  BY <1>1, <1>2, Zenon

LEMMA NotifyKeeps ==
    ASSUME RowInv, NEW key \in ReceiptKeys, NEW n \in Nat, NotifyCommits(key, n),
           \A w \in WaitIds : key = SelfNotifyKey(w) => rows[w].state # "none" /\ n = rows[w].target
    PROVE  /\ RowInv' /\ RowsMove
           /\ DOMAIN receipts' = DOMAIN receipts \cup {key}
           /\ receipts'[key].woken = Report(key, n)
           /\ \A w \in WaitIds : \/ rows'[w] = rows[w]
                                 \/ /\ rows[w].state = "pending" /\ rows[w].target <= n
                                    /\ rows'[w].state = "woken" /\ w \in receipts'[key].woken
           /\ key \notin DOMAIN receipts =>
                  \A w \in WaitIds : rows[w].state = "pending" /\ rows[w].target <= n =>
                                         rows'[w].state = "woken"
  <1>1. CASE key \in DOMAIN receipts
    <2>1. UNCHANGED rowVars
      BY <1>1, Zenon DEF NotifyCommits, NotifyVerdict
    <2> QED  BY <1>1, <2>1, RowsUntouched, Zenon DEF rowVars, Report
  <1>2. CASE key \notin DOMAIN receipts
    <2> DEFINE S == SelectPending(n)
    <2>1. S \subseteq WaitIds /\ \A w \in WaitIds : w \in S <=> rows[w].state = "pending" /\ rows[w].target <= n
      BY Zenon DEF SelectPending, PendingRows
    <2>2. /\ rows' = [w \in WaitIds |-> IF w \in S THEN [rows[w] EXCEPT !.state = "woken", !.upTo = n]
                                        ELSE rows[w]]
          /\ receipts' = [k \in DOMAIN receipts \cup {key} |->
                              IF k = key THEN [upTo |-> n, woken |-> S] ELSE receipts[k]]
      BY <1>2, Zenon DEF NotifyCommits, NotifyVerdict
    <2>3. Report(key, n) = S
      BY <1>2, Zenon DEF Report
    <2> HIDE DEF S
    <2>4. /\ DOMAIN receipts' = DOMAIN receipts \cup {key}
          /\ receipts'[key].woken = S /\ receipts'[key].upTo = n
          /\ \A k \in DOMAIN receipts : receipts'[k] = receipts[k]
      BY <1>2, <2>2, Zenon
    <2>5. \A w \in WaitIds : rows[w] \in RowType
      BY Zenon DEF RowInv, RowType
    <2>6. \A w \in WaitIds \ S : rows'[w] = rows[w]
      BY <2>2, Zenon
    <2>7. \A w \in S : /\ rows'[w] \in RowType /\ rows'[w].state = "woken" /\ rows'[w].upTo = n
                       /\ rows'[w].target = rows[w].target
      <3> SUFFICES ASSUME NEW w \in S
                   PROVE  /\ rows'[w] \in RowType /\ rows'[w].state = "woken" /\ rows'[w].upTo = n
                          /\ rows'[w].target = rows[w].target
        BY Zenon
      <3>1. PICK r \in RowType : r = rows[w]
        BY <2>1, <2>5, Zenon
      <3>2. PICK q : q = [r EXCEPT !.state = "woken", !.upTo = n]
        BY Zenon
      <3>3. rows'[w] = q
        BY <2>1, <2>2, <3>1, <3>2, Zenon
      <3>4. q \in RowType /\ q.state = "woken" /\ q.upTo = n /\ q.target = r.target
        BY <3>2, RowWoken, Zenon
      <3> QED  BY <3>1, <3>3, <3>4, Zenon
    <2>8. rows' \in [WaitIds -> RowType]
      BY <2>1, <2>2, <2>5, <2>6, <2>7, Zenon
    <2>9. RowsMove
      BY <2>1, <2>4, <2>6, <2>7, Zenon DEF RowsMove
    <2>10. RowInv'
      <3>1. rows' \in [WaitIds -> [state : RowStates, fiber : Fibers \cup {"none"},
                                   target : Nat, upTo : Nat]]
        BY <2>8, Zenon DEF RowType
      <3>2. (DOMAIN receipts)' \subseteq ReceiptKeys'
        BY <2>4, Zenon DEF RowInv, ReceiptKeys
      <3>3. \A k \in DOMAIN receipts' : \A w \in receipts'[k].woken :
                w \in WaitIds /\ rows'[w].state = "woken" /\ rows'[w].upTo = receipts'[k].upTo
        BY <2>1, <2>4, <2>7, <2>9 DEF RowInv, RowsMove
      <3>4. \A w \in WaitIds : rows'[w].state = "woken" =>
                /\ rows'[w].upTo >= rows'[w].target
                /\ \E k \in DOMAIN receipts' : w \in receipts'[k].woken
        <4> SUFFICES ASSUME NEW w \in WaitIds, rows'[w].state = "woken"
                     PROVE  /\ rows'[w].upTo >= rows'[w].target
                            /\ \E k \in DOMAIN receipts' : w \in receipts'[k].woken
          BY Zenon
        <4>1. CASE w \in S
          BY <2>1, <2>4, <2>5, <2>7, <4>1, Zenon DEF RowType
        <4>2. CASE w \notin S
          BY <2>4, <2>6, <4>2, Zenon DEF RowInv
        <4> QED  BY <4>1, <4>2, Zenon
      <3>5. \A k, l \in DOMAIN receipts' : \A w \in receipts'[k].woken \cap receipts'[l].woken : k = l
        <4>1. \A k \in DOMAIN receipts : receipts[k].woken \cap S = {}
          BY <2>1, Zenon DEF RowInv
        <4> QED  BY <2>4, <4>1, Zenon DEF RowInv
      <3>6. \A w \in WaitIds : SelfNotifyKey(w) \in DOMAIN receipts' => rows'[w].state \in {"woken", "cancelled"}
        <4> SUFFICES ASSUME NEW w \in WaitIds, SelfNotifyKey(w) \in DOMAIN receipts'
                     PROVE  rows'[w].state \in {"woken", "cancelled"}
          BY Zenon
        <4>1. CASE SelfNotifyKey(w) = key
          <5>1. rows[w].state # "none" /\ n = rows[w].target /\ rows[w] \in RowType
            BY <2>5, <4>1, Zenon
          <5>2. w \in S \/ rows[w].state \in {"woken", "cancelled"}
            BY <2>1, <5>1 DEF RowType, RowStates
          <5> QED  BY <2>7, <2>9, <5>2, Zenon DEF RowsMove
        <4>2. CASE SelfNotifyKey(w) # key
          BY <2>4, <2>9, <4>2, Zenon DEF RowInv, RowsMove
        <4> QED  BY <4>1, <4>2, Zenon
      <3> QED  BY <3>1, <3>2, <3>3, <3>4, <3>5, <3>6, Zenon DEF RowInv
    <2> QED  BY <2>1, <2>3, <2>4, <2>6, <2>7, <2>9, <2>10, Zenon
  <1> QED  BY <1>1, <1>2, Zenon

LEMMA CancelKeeps ==
    ASSUME RowInv, NEW w \in WaitIds, CancelWait(w)
    PROVE  /\ RowInv' /\ RowsMove /\ UNCHANGED receipts
           /\ \A v \in WaitIds \ {w} : rows'[v] = rows[v]
           /\ rows[w].state = "pending" /\ rows'[w].state = "cancelled"
  <1>1. rows[w].state = "pending" /\ rows' = [rows EXCEPT ![w].state = "cancelled"] /\ UNCHANGED receipts
    BY Zenon DEF CancelWait, Cancellable
  <1>2. /\ rows' \in [WaitIds -> RowType] /\ rows'[w].state = "cancelled"
        /\ rows'[w].target = rows[w].target
        /\ \A v \in WaitIds \ {w} : rows'[v] = rows[v]
    BY <1>1 DEF RowInv, RowType, RowStates
  <1>3. RowsMove
    BY <1>1, <1>2, Zenon DEF RowsMove
  <1>4. \A v \in WaitIds : rows'[v].state = "woken" => rows'[v] = rows[v]
    BY <1>2, Zenon
  <1>5. RowInv'
    BY <1>1, <1>2, <1>3, <1>4 DEF RowInv, RowsMove, RowType, ReceiptKeys
  <1> QED  BY <1>1, <1>2, <1>3, <1>5, Zenon

LEMMA RowInvAccounts ==
    ASSUME RowInv
    PROVE  WakesAccounted
  <1> SUFFICES ASSUME NEW w \in WaitIds, rows[w].state = "woken"
               PROVE  Cardinality({k \in DOMAIN receipts : w \in receipts[k].woken}) = 1
    BY Zenon DEF RowInv, WakesAccounted
  <1>1. PICK k \in DOMAIN receipts : w \in receipts[k].woken
    BY Zenon DEF RowInv
  <1>2. {l \in DOMAIN receipts : w \in receipts[l].woken} = {k}
    BY <1>1 DEF RowInv
  <1> QED  BY <1>2, FS_Singleton, Zenon

-----------------------------------------------------------------------------
(* The steps, by what they leave alone.                                    *)

\* Steps that touch neither the Channel, the rows, the calls nor the notifiers.
Apart ==
    \/ \E f \in Fibers : Spawn(f) \/ CancelScope(f) \/ Finish(f)
    \/ \E k \in WaitKeys : Poll(k) \/ Drop(k)
    \/ ShutdownFlag \/ ShutdownClear \/ UNCHANGED vars

\* Steps that start a call, or take one a step on without writing a row.
Starts ==
    \/ \E f \in Fibers, w \in WaitIds, t \in Targets : WaitForChannel(f, w, t)
    \/ \E f \in Fibers : RearmChannelWaits(f)
    \/ \E f \in Fibers : \E plan \in SUBSET PendingRows : ResumeBinding(f, plan)

Walks(f) == SweepNext(f) \/ CallInspect(f) \/ CallMeasure(f) \/ CallConsume(f) \/ CallEnroll(f)

Hands(n) == DeliverStart(n) \/ Redeliver(n) \/ \E w \in WaitIds : DeliverOne(n, w)

LEMMA Steps ==
    ASSUME [Next]_vars
    PROVE  \/ Apart \/ Starts \/ Crash
           \/ \E f \in Fibers : Walks(f) \/ CallRegister(f) \/ CallFlip(f)
           \/ \E n \in NotifyKeys : Hands(n) \/ Commit(n) \/ Notify(n)
           \/ \E w \in WaitIds : CancelRow(w)
  BY Zenon DEF Next, CallStep, NotifierStep, Apart, Starts, Walks, Hands

LEMMA ApartLeaves ==
    ASSUME Apart
    PROVE  UNCHANGED <<channelVars, rowVars, call, notifier, armed, restarted>>
  BY Zenon DEF Apart, Spawn, CancelScope, Finish, Poll, Drop, ShutdownFlag, ShutdownClear, vars,
     historyVars

LEMMA StartsLeave ==
    ASSUME Starts
    PROVE  UNCHANGED <<channelVars, rowVars, fiberVars, registryVars, notifier, told, dropped, taken, restarted>>
  BY Zenon DEF Starts, WaitForChannel, RearmChannelWaits, ResumeBinding, historyVars

LEMMA WalksLeave ==
    ASSUME NEW f \in Fibers, Walks(f)
    PROVE  UNCHANGED <<channelVars, rowVars, fiberVars, notifier, armed, dropped, restarted>>
  BY Zenon DEF Walks, SweepNext, CallInspect, CallMeasure, CallConsume, CallEnroll, historyVars

LEMMA HandsLeave ==
    ASSUME NEW n \in NotifyKeys, Hands(n)
    PROVE  UNCHANGED <<channelVars, rowVars, fiberVars, call, told, armed, restarted>>
  BY Zenon DEF Hands, DeliverStart, Redeliver, DeliverOne, historyVars

\* Every step keeps the rows in order, and wakes only what is committed.
LEMMA RowNext ==
    ASSUME Inv, [Next]_vars
    PROVE  /\ RowInv' /\ RowsMove
           /\ \A w \in WaitIds : rows'[w].state = "woken" => rows'[w] = rows[w] \/ rows'[w].target <= issued
  <1>1. ASSUME UNCHANGED rowVars
        PROVE  /\ RowInv' /\ RowsMove /\ \A w \in WaitIds : rows'[w] = rows[w]
    BY <1>1, RowsUntouched, Zenon DEF Inv, rowVars
  <1>2. CASE Apart \/ Starts \/ Crash \/ \E f \in Fibers : Walks(f)
    BY <1>1, <1>2, ApartLeaves, StartsLeave, WalksLeave, Zenon DEF Crash
  <1>3. CASE \E n \in NotifyKeys : Hands(n) \/ Commit(n)
    BY <1>1, <1>3, HandsLeave, Zenon DEF Commit
  <1>4. CASE \E w \in WaitIds : CancelRow(w)
    BY <1>4, CancelKeeps, Zenon DEF CancelRow, Inv
  <1>5. ASSUME NEW f \in Fibers, CallRegister(f)
        PROVE  /\ RowInv' /\ RowsMove /\ \A w \in WaitIds : rows'[w].state = "woken" => rows'[w] = rows[w]
    <2>1. call[f].wait \in WaitIds /\ call[f].target \in Nat
      BY <1>5, Zenon DEF CallRegister, Inv, CallInv, Shaped, CallType
    <2> QED  BY <1>5, <2>1, RegisterKeeps, Zenon DEF CallRegister, Inv
  <1>6. ASSUME NEW f \in Fibers, CallFlip(f)
        PROVE  /\ RowInv' /\ RowsMove
               /\ \A w \in WaitIds : rows'[w] = rows[w] \/ rows'[w].target <= issued
    <2>1. PICK w : w = call[f].wait
      BY Zenon
    <2>2. /\ w \in WaitIds /\ rows[w].state # "none" /\ rows[w].target <= issued
          /\ NotifyCommits(SelfNotifyKey(w), rows[w].target)
      BY <1>6, <2>1, Zenon DEF CallFlip, Inv, CallInv, CallFit, Shaped
    <2>3. PICK n \in Nat : n = rows[w].target
      BY <2>2, Zenon DEF Inv, RowInv
    <2>4. PICK key \in ReceiptKeys : key = SelfNotifyKey(w)
      BY <2>2, Zenon DEF ReceiptKeys
    <2>5. \A v \in WaitIds : key = SelfNotifyKey(v) => rows[v].state # "none" /\ n = rows[v].target
      BY <2>2, <2>3, <2>4, Zenon DEF SelfNotifyKey
    <2>6. /\ RowInv' /\ RowsMove
          /\ \A v \in WaitIds : rows'[v] = rows[v] \/ (rows[v].state = "pending" /\ rows[v].target <= n)
      <3>1. NotifyCommits(key, n)
        BY <2>2, <2>3, <2>4, Zenon DEF NotifyCommits, NotifyVerdict, SelectPending
      <3>2. RowInv
        BY Zenon DEF Inv
      <3>3. /\ RowInv' /\ RowsMove
            /\ \A v \in WaitIds : \/ rows'[v] = rows[v]
                                  \/ /\ rows[v].state = "pending" /\ rows[v].target <= n
                                     /\ rows'[v].state = "woken" /\ v \in receipts'[key].woken
        BY <2>5, <3>1, <3>2, NotifyKeeps, Zenon
      <3> QED  BY <3>3, Zenon
    <2>7. issued \in Nat /\ \A v \in WaitIds : rows[v].target \in Nat
      BY Zenon DEF Inv, QueueInv, QueueShape, RowInv
    <2> QED  BY <2>2, <2>3, <2>6, <2>7 DEF RowsMove
  <1>7. ASSUME NEW m \in NotifyKeys, Notify(m)
        PROVE  /\ RowInv' /\ RowsMove
               /\ \A w \in WaitIds : rows'[w] = rows[w] \/ rows'[w].target <= issued
    <2>1. PICK n \in Nat : n = notifier[m].upTo
      BY Zenon DEF Inv, NotifierInv
    <2>2. NotifyCommits(m, n) /\ n \in Live
      BY <1>7, <2>1, Zenon DEF Notify, Inv, NotifierInv, EntriesUnder
    <2>3. m \in ReceiptKeys /\ \A w \in WaitIds : m # SelfNotifyKey(w)
      BY ReservedKeyAssumption, Zenon DEF ReceiptKeys
    <2>4. /\ RowInv' /\ RowsMove
          /\ \A v \in WaitIds : rows'[v] = rows[v] \/ (rows[v].state = "pending" /\ rows[v].target <= n)
      BY <2>1, <2>2, <2>3, NotifyKeeps, Zenon DEF Inv
    <2>5. n <= issued
      BY <2>2 DEF Inv, QueueInv, Sequenced, QueueShape
    <2>6. issued \in Nat /\ \A v \in WaitIds : rows[v].target \in Nat
      BY Zenon DEF Inv, QueueInv, QueueShape, RowInv
    <2> QED  BY <2>1, <2>4, <2>5, <2>6 DEF RowsMove
  <1> QED  BY <1>2, <1>3, <1>4, <1>5, <1>6, <1>7, Steps, Zenon

-----------------------------------------------------------------------------
(* The notifiers.                                                          *)

NotifierType == [at : {"new", "committed", "notified", "deliver", "refused", "done"},
                 upTo : Nat, todo : SUBSET WaitIds]

\* No two live entries have the same key.
KeysOnce == \A a, b \in Live : queue.entries[a].key = queue.entries[b].key => a = b

LEMMA CommitIs ==
    ASSUME Inv, NEW n \in NotifyKeys, Commit(n)
    PROVE  /\ QueueInv' /\ KeysOnce' /\ notifier[n].at = "new" /\ notifier' \in [NotifyKeys -> NotifierType]
           /\ notifier'[n].at = "committed" /\ notifier'[n].upTo \in EntriesUnder(n)'
           /\ \A m \in NotifyKeys \ {n} : notifier'[m] = notifier[m]
           /\ \A m \in NotifyKeys \ {n} : EntriesUnder(m)' = EntriesUnder(m)
           /\ \/ issued' = issued /\ EntriesUnder(n)' = EntriesUnder(n)
              \/ issued' = issued + 1 /\ EntriesUnder(n) = {} /\ notifier'[n].upTo = issued + 1
  <1>1. /\ Enqueue(n, 1, 1, n) /\ EnqueueVerdict(n, 1, 1, n) \in {"enqueued", "replayed"}
        /\ notifier[n].at = "new"
        /\ notifier' = [notifier EXCEPT ![n].at = "committed", ![n].upTo = EnqueuedAt(n)]
    BY Zenon DEF Commit
  <1>2. QueueInv /\ QueueInv'
    BY <1>1, EnqueueKeeps, Zenon DEF Inv
  <1>3. /\ KeysOnce' /\ EnqueuedAt(n) \in EntriesUnder(n)' /\ EnqueuedAt(n) \in Nat
        /\ \A m \in NotifyKeys \ {n} : EntriesUnder(m)' = EntriesUnder(m)
        /\ \/ issued' = issued /\ EntriesUnder(n)' = EntriesUnder(n)
           \/ issued' = issued + 1 /\ EntriesUnder(n) = {} /\ EnqueuedAt(n) = issued + 1
    <2>1. CASE EnqueueVerdict(n, 1, 1, n) = "enqueued"
      <3>1. /\ EntriesUnder(n) = {} /\ NextSequence = issued + 1 /\ issued' = issued + 1
            /\ Live' = Live \cup {issued + 1}
            /\ queue'.entries[issued + 1].key = n
            /\ \A s \in Live : queue'.entries[s] = queue.entries[s]
        <4>1. PICK r : r = [key |-> n, generation |-> channel.generation, bytes |-> 1, producer |-> n]
          BY Zenon
        <4>2. /\ EntriesUnder(n) = {} /\ NextSequence = issued + 1 /\ issued' = issued + 1
              /\ Live' = Live \cup {issued + 1} /\ queue'.entries[issued + 1] = r
              /\ \A s \in Live : queue'.entries[s] = queue.entries[s]
          BY <1>1, <1>2, <2>1, <4>1, EnqueueWrites, Zenon
        <4> QED  BY <4>1, <4>2
      <3>2. EnqueuedAt(n) = issued + 1 /\ issued \in Nat /\ issued + 1 \notin Live
        BY <1>2, <3>1 DEF EnqueuedAt, QueueInv, QueueShape, Sequenced
      <3>3. \A s \in Live : queue.entries[s].key # n
        BY <3>1, Zenon DEF EntriesUnder
      <3>4. KeysOnce'
        BY <3>1, <3>3 DEF KeysOnce, Inv, NotifierInv
      <3>5. \A m \in NotifyKeys \ {n} : EntriesUnder(m)' = EntriesUnder(m)
        BY <3>1, Zenon DEF EntriesUnder
      <3>6. issued + 1 \in EntriesUnder(n)'
        BY <3>1, Zenon DEF EntriesUnder
      <3> QED  BY <3>1, <3>2, <3>4, <3>5, <3>6
    <2>2. CASE EnqueueVerdict(n, 1, 1, n) = "replayed"
      <3>1. UNCHANGED queue /\ UNCHANGED issued
        BY <1>1, <2>2, Zenon DEF Enqueue
      <3>2. EntriesUnder(n) # {}
        BY <2>2, Zenon DEF EnqueueVerdict
      <3>3. EnqueuedAt(n) \in EntriesUnder(n)
        BY <3>2, Zenon DEF EnqueuedAt
      <3>4. EnqueuedAt(n) \in Nat
        BY <1>2, <3>3 DEF EntriesUnder, QueueInv, QueueShape, Sequenced
      <3> QED  BY <3>1, <3>3, <3>4, Zenon DEF KeysOnce, Inv, NotifierInv, EntriesUnder, Live
    <2> QED  BY <1>1, <2>1, <2>2, Zenon
  <1>4. PICK u \in Nat : /\ u = EnqueuedAt(n)
                         /\ notifier' = [notifier EXCEPT ![n].at = "committed", ![n].upTo = u]
    BY <1>1, <1>3, Zenon
  <1>5. /\ notifier' \in [NotifyKeys -> NotifierType]
        /\ notifier'[n].at = "committed" /\ notifier'[n].upTo = u
        /\ \A m \in NotifyKeys \ {n} : notifier'[m] = notifier[m]
    <2>1. notifier \in [NotifyKeys -> NotifierType]
      BY Zenon DEF Inv, NotifierInv, NotifierType
    <2>2. notifier' = [notifier EXCEPT ![n].at = "committed", ![n].upTo = u]
      BY <1>4, Zenon
    <2>3. notifier' \in [NotifyKeys -> NotifierType]
      BY <2>1, <2>2, Zenon DEF NotifierType
    <2> QED  BY <2>1, <2>2, <2>3, Zenon DEF NotifierType
  <1> QED  BY <1>1, <1>2, <1>3, <1>4, <1>5, Zenon

LEMMA NotifyIs ==
    ASSUME Inv, NEW n \in NotifyKeys, Notify(n)
    PROVE  /\ notifier' \in [NotifyKeys -> NotifierType] /\ notifier[n].at = "committed"
           /\ notifier'[n].at = "notified" /\ notifier'[n].upTo = notifier[n].upTo
           /\ n \in DOMAIN receipts' /\ notifier'[n].todo = receipts'[n].woken
           /\ DOMAIN receipts' = DOMAIN receipts \cup {n}
           /\ n \notin DOMAIN receipts =>
                  \A w \in WaitIds : rows[w].state = "pending" /\ rows[w].target <= notifier[n].upTo =>
                                         rows'[w].state = "woken"
           /\ \A w \in WaitIds : \/ rows'[w] = rows[w]
                                 \/ rows[w].state = "pending" /\ w \in receipts'[n].woken
           /\ \A m \in NotifyKeys \ {n} : notifier'[m] = notifier[m]
  <1>1. PICK u \in Nat : u = notifier[n].upTo
    BY Zenon DEF Inv, NotifierInv
  <1>2. PICK S : S = Report(n, u)
    BY Zenon
  <1>3. /\ notifier[n].at = "committed" /\ NotifyCommits(n, u)
        /\ notifier' = [notifier EXCEPT ![n].at = "notified", ![n].todo = S]
    BY <1>1, <1>2, Zenon DEF Notify
  <1>4. n \in ReceiptKeys /\ \A w \in WaitIds : n # SelfNotifyKey(w)
    BY ReservedKeyAssumption, Zenon DEF ReceiptKeys
  <1>5. /\ DOMAIN receipts' = DOMAIN receipts \cup {n} /\ receipts'[n].woken = S
        /\ n \notin DOMAIN receipts =>
               \A w \in WaitIds : rows[w].state = "pending" /\ rows[w].target <= u => rows'[w].state = "woken"
        /\ \A w \in WaitIds : \/ rows'[w] = rows[w]
                              \/ rows[w].state = "pending" /\ w \in receipts'[n].woken
    BY <1>2, <1>3, <1>4, NotifyKeeps, Zenon DEF Inv
  <1>6. S \subseteq WaitIds
    BY <1>2, Zenon DEF Report, SelectPending, PendingRows, Inv, RowInv
  <1>7. /\ notifier' \in [NotifyKeys -> NotifierType]
        /\ notifier'[n].at = "notified" /\ notifier'[n].upTo = u /\ notifier'[n].todo = S
        /\ \A m \in NotifyKeys \ {n} : notifier'[m] = notifier[m]
    BY <1>1, <1>3, <1>6, Zenon DEF Inv, NotifierInv, NotifierType
  <1> QED  BY <1>1, <1>3, <1>5, <1>7

\* A record handed over, the start and the repetition of a delivery.
LEMMA HandsIs ==
    ASSUME Inv, NEW n \in NotifyKeys, Hands(n)
    PROVE  /\ notifier' \in [NotifyKeys -> NotifierType] /\ notifier[n].at \in {"notified", "deliver", "done"}
           /\ notifier'[n].upTo = notifier[n].upTo /\ notifier'[n].todo \subseteq notifier[n].todo
           /\ notifier'[n].at \in {"deliver", "refused", "done", "committed"}
           /\ notifier'[n].at = "deliver" => notifier[n].at \in {"notified", "deliver"}
           /\ notifier'[n].at = "refused" => runtime # "up"
           /\ \A m \in NotifyKeys \ {n} : notifier'[m] = notifier[m]
  <1>0. notifier \in [NotifyKeys -> NotifierType]
    BY Zenon DEF Inv, NotifierInv, NotifierType
  <1>1. CASE DeliverStart(n)
    <2>1. PICK a : a = IF runtime # "up" THEN "refused" ELSE IF notifier[n].todo = {} THEN "done" ELSE "deliver"
      BY Zenon
    <2>2. notifier[n].at = "notified" /\ notifier' = [notifier EXCEPT ![n].at = a]
      BY <1>1, <2>1, Zenon DEF DeliverStart
    <2>3. a \in {"deliver", "refused", "done"} /\ (a = "refused" => runtime # "up")
      BY <2>1, Zenon
    <2>4. /\ notifier' \in [NotifyKeys -> NotifierType] /\ notifier'[n].at = a
          /\ notifier'[n].upTo = notifier[n].upTo /\ notifier'[n].todo = notifier[n].todo
          /\ \A m \in NotifyKeys \ {n} : notifier'[m] = notifier[m]
      BY <1>0, <2>2, <2>3, Zenon DEF NotifierType
    <2> QED  BY <2>2, <2>3, <2>4, Zenon
  <1>2. CASE Redeliver(n)
    BY <1>0, <1>2, Zenon DEF Redeliver, NotifierType
  <1>3. ASSUME NEW w \in WaitIds, DeliverOne(n, w)
        PROVE  /\ notifier' \in [NotifyKeys -> NotifierType] /\ notifier[n].at = "deliver"
               /\ notifier'[n].upTo = notifier[n].upTo /\ notifier'[n].todo \subseteq notifier[n].todo
               /\ notifier'[n].at \in {"deliver", "done"}
               /\ \A m \in NotifyKeys \ {n} : notifier'[m] = notifier[m]
    <2>1. PICK a, S : /\ a = IF notifier[n].todo = {w} THEN "done" ELSE "deliver"
                      /\ S = notifier[n].todo \ {w}
      BY Zenon
    <2>2. notifier[n].at = "deliver" /\ notifier' = [notifier EXCEPT ![n].todo = S, ![n].at = a]
      BY <1>3, <2>1, Zenon DEF DeliverOne
    <2>3. a \in {"deliver", "done"} /\ S \subseteq notifier[n].todo /\ S \subseteq WaitIds
      BY <1>0, <2>1, Zenon DEF NotifierType
    <2>4. /\ notifier' \in [NotifyKeys -> NotifierType] /\ notifier'[n].at = a
          /\ notifier'[n].upTo = notifier[n].upTo /\ notifier'[n].todo = S
          /\ \A m \in NotifyKeys \ {n} : notifier'[m] = notifier[m]
      BY <1>0, <2>2, <2>3, Zenon DEF NotifierType
    <2> QED  BY <2>2, <2>3, <2>4, Zenon
  <1> QED  BY <1>1, <1>2, <1>3, Zenon DEF Hands

\* The self-flip of an arming call.
LEMMA FlipIs ==
    ASSUME Inv, NEW f \in Fibers, CallFlip(f)
    PROVE  /\ call[f].wait \in WaitIds /\ DOMAIN receipts' = DOMAIN receipts \cup {SelfNotifyKey(call[f].wait)}
           /\ \A v \in WaitIds : \/ rows'[v] = rows[v]
                                 \/ /\ rows[v].state = "pending" /\ rows'[v].state = "woken"
                                    /\ v \in receipts'[SelfNotifyKey(call[f].wait)].woken
           /\ rows'[call[f].wait].state # "pending"
  <1>1. PICK w : w = call[f].wait
    BY Zenon
  <1>2. /\ w \in WaitIds /\ rows[w].state # "none" /\ NotifyCommits(SelfNotifyKey(w), rows[w].target)
    BY <1>1, Zenon DEF CallFlip, Inv, CallInv, CallFit, Shaped
  <1>3. PICK n \in Nat : n = rows[w].target
    BY <1>2, Zenon DEF Inv, RowInv
  <1>4. PICK key \in ReceiptKeys : key = SelfNotifyKey(w)
    BY <1>2, Zenon DEF ReceiptKeys
  <1>5. \A v \in WaitIds : key = SelfNotifyKey(v) => rows[v].state # "none" /\ n = rows[v].target
    BY <1>2, <1>3, <1>4, Zenon DEF SelfNotifyKey
  <1>6. NotifyCommits(key, n)
    BY <1>2, <1>3, <1>4, Zenon DEF NotifyCommits, NotifyVerdict, SelectPending
  <1>7. RowInv
    BY Zenon DEF Inv
  <1>8. /\ RowInv' /\ DOMAIN receipts' = DOMAIN receipts \cup {key}
        /\ \A v \in WaitIds : \/ rows'[v] = rows[v]
                              \/ /\ rows[v].state = "pending" /\ rows[v].target <= n
                                 /\ rows'[v].state = "woken" /\ v \in receipts'[key].woken
    BY <1>5, <1>6, <1>7, NotifyKeeps, Zenon
  <1>9. rows'[w].state # "pending"
    BY <1>2, <1>4, <1>8, Zenon DEF RowInv
  <1> QED  BY <1>1, <1>2, <1>4, <1>8, <1>9, Zenon

\* Receipts come from notifiers and from self-flips.
LEMMA ReceiptsNext ==
    ASSUME Inv, [Next]_vars, NEW n \in NotifyKeys, ~Notify(n)
    PROVE  n \in DOMAIN receipts' <=> n \in DOMAIN receipts
  <1>1. CASE Apart \/ Starts \/ Crash \/ \E f \in Fibers : Walks(f)
    BY <1>1, ApartLeaves, StartsLeave, WalksLeave, Zenon DEF Crash, rowVars
  <1>2. CASE \E m \in NotifyKeys : Hands(m) \/ Commit(m)
    BY <1>2, HandsLeave, Zenon DEF Commit, rowVars
  <1>3. CASE \E w \in WaitIds : CancelRow(w)
    BY <1>3, Zenon DEF CancelRow, CancelWait
  <1>4. CASE \E f \in Fibers : CallRegister(f)
    BY <1>4, Zenon DEF CallRegister, RegisterWait
  <1>5. CASE \E f \in Fibers : CallFlip(f)
    BY <1>5, FlipIs, ReservedKeyAssumption, Zenon
  <1>6. CASE \E m \in NotifyKeys \ {n} : Notify(m)
    BY <1>6, NotifyIs, Zenon
  <1> QED  BY <1>1, <1>2, <1>3, <1>4, <1>5, <1>6, Steps, Zenon

LEMMA ChannelNext ==
    ASSUME Inv, [Next]_vars, \A n \in NotifyKeys : ~Commit(n)
    PROVE  UNCHANGED channelVars
  <1>1. CASE Apart \/ Starts \/ Crash \/ \E f \in Fibers : Walks(f)
    BY <1>1, ApartLeaves, StartsLeave, WalksLeave, Zenon DEF Crash
  <1>2. CASE \E n \in NotifyKeys : Hands(n) \/ Notify(n)
    BY <1>2, HandsLeave, Zenon DEF Notify
  <1>3. CASE \E f \in Fibers : CallRegister(f) \/ CallFlip(f)
    BY <1>3, Zenon DEF CallRegister, CallFlip
  <1>4. CASE \E w \in WaitIds : CancelRow(w)
    BY <1>4, Zenon DEF CancelRow
  <1> QED  BY <1>1, <1>2, <1>3, <1>4, Steps, Zenon

LEMMA QueueNext ==
    ASSUME Inv, [Next]_vars
    PROVE  /\ QueueInv' /\ KeysOnce' /\ issued \in Nat /\ issued' \in Nat /\ issued <= issued'
           /\ \A n \in NotifyKeys : EntriesUnder(n) \subseteq EntriesUnder(n)'
  <1>0. issued \in Nat
    BY Zenon DEF Inv, QueueInv, QueueShape
  <1>1. CASE UNCHANGED channelVars
    BY <1>0, <1>1, QueueUntouched DEF channelVars, KeysOnce, Inv, NotifierInv, Live, EntriesUnder
  <1>2. ASSUME NEW n \in NotifyKeys, Commit(n)
        PROVE  /\ QueueInv' /\ KeysOnce' /\ issued' \in Nat /\ issued <= issued'
               /\ \A m \in NotifyKeys : EntriesUnder(m) \subseteq EntriesUnder(m)'
    BY <1>0, <1>2, CommitIs
  <1> QED  BY <1>0, <1>1, <1>2, ChannelNext, Zenon

\* What makes a step keep the notifiers' invariant: what it does to one of them.
LEMMA NotifierMoves ==
    ASSUME Inv, [Next]_vars, notifier' \in [NotifyKeys -> NotifierType],
           \A n \in NotifyKeys :
               \/ notifier'[n] = notifier[n] /\ ~Notify(n) /\ (runtime' = "up" => runtime = "up")
               \/ Crash /\ (notifier'[n] = notifier[n] \/ notifier'[n].at = "new") /\ notifier'[n].at # "refused"
               \/ Commit(n) \/ Notify(n) \/ Hands(n)
    PROVE  NotifierInv'
  <1>1. QueueInv' /\ KeysOnce' /\ issued \in Nat /\ issued' \in Nat /\ issued <= issued'
    BY QueueNext, Zenon
  <1>2. \A n \in NotifyKeys : EntriesUnder(n) \subseteq EntriesUnder(n)'
    BY QueueNext, Zenon
  <1>3. RowsMove /\ RowInv'
    BY RowNext, Zenon
  <1>4. \A n \in NotifyKeys : notifier'[n].at # "new" => notifier'[n].upTo \in EntriesUnder(n)'
    <2> SUFFICES ASSUME NEW n \in NotifyKeys, notifier'[n].at # "new"
                 PROVE  notifier'[n].upTo \in EntriesUnder(n)'
      BY Zenon
    <2>1. CASE Commit(n)
      BY <2>1, CommitIs, Zenon
    <2>2. CASE Notify(n)
      BY <1>2, <2>2, NotifyIs, Zenon DEF Inv, NotifierInv
    <2>3. CASE Hands(n)
      BY <1>2, <2>3, HandsIs, Zenon DEF Inv, NotifierInv
    <2>4. CASE notifier'[n] = notifier[n]
      BY <1>2, <2>4, Zenon DEF Inv, NotifierInv
    <2> QED  BY <2>1, <2>2, <2>3, <2>4, Zenon
  <1>5. \A n \in NotifyKeys : n \in DOMAIN receipts' => EntriesUnder(n)' # {}
    <2> SUFFICES ASSUME NEW n \in NotifyKeys, n \in DOMAIN receipts'
                 PROVE  EntriesUnder(n)' # {}
      BY Zenon
    <2>1. CASE Notify(n)
      BY <1>2, <2>1, NotifyIs, Zenon DEF Inv, NotifierInv
    <2>2. CASE ~Notify(n)
      BY <1>2, <2>2, ReceiptsNext, Zenon DEF Inv, NotifierInv
    <2> QED  BY <2>1, <2>2, Zenon
  <1>6. \A n \in NotifyKeys : notifier'[n].at \in {"notified", "deliver"} =>
            n \in DOMAIN receipts' /\ notifier'[n].todo \subseteq receipts'[n].woken
    <2> SUFFICES ASSUME NEW n \in NotifyKeys, notifier'[n].at \in {"notified", "deliver"}
                 PROVE  n \in DOMAIN receipts' /\ notifier'[n].todo \subseteq receipts'[n].woken
      BY Zenon
    <2>1. CASE Commit(n)
      BY <2>1, CommitIs, Zenon
    <2>2. CASE Notify(n)
      BY <2>2, NotifyIs, Zenon
    <2>3. CASE Hands(n)
      BY <1>3, <2>3, HandsIs, Zenon DEF Inv, NotifierInv, RowsMove
    <2>4. CASE notifier'[n] = notifier[n]
      BY <1>3, <2>4, Zenon DEF Inv, NotifierInv, RowsMove
    <2> QED  BY <2>1, <2>2, <2>3, <2>4, Zenon
  <1>7. \A n \in NotifyKeys : notifier'[n].at = "refused" => runtime' # "up"
    <2> SUFFICES ASSUME NEW n \in NotifyKeys, notifier'[n].at = "refused"
                 PROVE  runtime' # "up"
      BY Zenon
    <2>1. CASE Commit(n)
      BY <2>1, CommitIs, Zenon
    <2>2. CASE Notify(n)
      BY <2>2, NotifyIs, Zenon
    <2>3. CASE Hands(n)
      BY <2>3, HandsIs, HandsLeave, Zenon DEF fiberVars
    <2>4. CASE ~(Commit(n) \/ Notify(n) \/ Hands(n))
      BY <2>4, Zenon DEF Inv, NotifierInv
    <2> QED  BY <2>1, <2>2, <2>3, <2>4, Zenon
  <1>8. \A w \in WaitIds : rows'[w].state = "woken" => rows'[w].target <= issued'
    <2>1. \A w \in WaitIds : rows[w].target \in Nat /\ rows'[w].target \in Nat
      BY <1>3, Zenon DEF Inv, RowInv
    <2>2. \A w \in WaitIds : rows'[w].state = "woken" => rows'[w] = rows[w] \/ rows'[w].target <= issued
      BY RowNext, Zenon
    <2> QED  BY <1>1, <2>1, <2>2 DEF Inv, NotifierInv
  <1> QED  BY <1>1, <1>4, <1>5, <1>6, <1>7, <1>8, Zenon DEF NotifierInv, NotifierType, KeysOnce

LEMMA NotifierNext ==
    ASSUME Inv, [Next]_vars
    PROVE  NotifierInv'
  <1>0. notifier \in [NotifyKeys -> NotifierType]
    BY Zenon DEF Inv, NotifierInv, NotifierType
  <1>1. CASE UNCHANGED notifier /\ (\A n \in NotifyKeys : ~Notify(n)) /\ (runtime' = "up" => runtime = "up")
    BY <1>0, <1>1, NotifierMoves, Zenon
  <1>2. CASE Apart
    <2>1. runtime' = "up" => runtime = "up"
      BY <1>2, Zenon DEF Apart, Spawn, CancelScope, Finish, Poll, Drop, ShutdownFlag, ShutdownClear,
         vars, fiberVars
    <2>2. \A n \in NotifyKeys : ~Notify(n)
      BY <1>2, ApartLeaves, NotifyIs, Zenon
    <2> QED  BY <1>1, <1>2, <2>1, <2>2, ApartLeaves, Zenon
  <1>3. CASE Starts \/ \E f \in Fibers : Walks(f)
    <2>1. UNCHANGED <<runtime, notifier>>
      BY <1>3, StartsLeave, WalksLeave, Zenon DEF fiberVars
    <2>2. \A n \in NotifyKeys : ~Notify(n)
      BY <2>1, NotifyIs, Zenon
    <2> QED  BY <1>1, <2>1, <2>2, Zenon
  <1>4. CASE (\E f \in Fibers : CallRegister(f) \/ CallFlip(f)) \/ \E w \in WaitIds : CancelRow(w)
    <2>1. UNCHANGED <<runtime, notifier>>
      BY <1>4, Zenon DEF CallRegister, CallFlip, CancelRow, fiberVars
    <2>2. \A n \in NotifyKeys : ~Notify(n)
      BY <2>1, NotifyIs, Zenon
    <2> QED  BY <1>1, <2>1, <2>2, Zenon
  <1>5. CASE \E n \in NotifyKeys : Hands(n) \/ Commit(n) \/ Notify(n)
    <2>1. PICK n \in NotifyKeys : Hands(n) \/ Commit(n) \/ Notify(n)
      BY <1>5, Zenon
    <2>2. /\ notifier' \in [NotifyKeys -> NotifierType] /\ \A m \in NotifyKeys \ {n} : notifier'[m] = notifier[m]
      BY <2>1, HandsIs, CommitIs, NotifyIs, Zenon
    <2>3. UNCHANGED runtime
      BY <2>1, HandsLeave, Zenon DEF Commit, Notify, fiberVars
    <2>4. \A m \in NotifyKeys \ {n} : ~Notify(m)
      BY <2>2, NotifyIs, Zenon
    <2> QED  BY <2>1, <2>2, <2>3, <2>4, NotifierMoves, Zenon
  <1>6. CASE Crash
    <2>1. notifier' = [n \in NotifyKeys |-> IF notifier[n].at = "done" THEN notifier[n] ELSE NewNotifier]
      BY <1>6, Zenon DEF Crash
    <2>2. NewNotifier \in NotifierType /\ NewNotifier.at = "new"
      BY Zenon DEF NewNotifier, NotifierType
    <2>3. notifier' \in [NotifyKeys -> NotifierType]
      BY <1>0, <2>1, <2>2, Zenon
    <2> QED  BY <1>6, <2>1, <2>2, <2>3, NotifierMoves, Zenon
  <1> QED  BY <1>2, <1>3, <1>4, <1>5, <1>6, Steps, Zenon

-----------------------------------------------------------------------------
(* The calls.                                                              *)

LEMMA FitMoves ==
    ASSUME NEW f \in Fibers, NEW r, Shaped(r), CallFit(f, r), RowsMove, armed \subseteq armed',
           issued \in Nat, issued' \in Nat, issued <= issued', RowInv
    PROVE  CallFit(f, r)'
  <1>1. r.at \notin {"idle", "next"} => r.wait \in WaitIds
    BY Zenon DEF Shaped
  <1>2. \A w \in WaitIds : rows[w].target \in Nat
    BY Zenon DEF RowInv
  <1>3. \A row \in r.todo : row[1] \in WaitIds
    BY Zenon DEF Shaped, CallType
  <1>4. \A row \in r.todo : /\ rows'[row[1]].state # "none" /\ <<row[1], f>> \in armed'
                            /\ row[2] = "woken" => rows'[row[1]].state = "woken"
    <2> SUFFICES ASSUME NEW row \in r.todo
                 PROVE  /\ rows'[row[1]].state # "none" /\ <<row[1], f>> \in armed'
                        /\ row[2] = "woken" => rows'[row[1]].state = "woken"
      BY Zenon
    <2>1. PICK w \in WaitIds : w = row[1]
      BY <1>3, Zenon
    <2>2. rows[w].state # "none" /\ <<w, f>> \in armed /\ (row[2] = "woken" => rows[w].state = "woken")
      BY <2>1, Zenon DEF CallFit
    <2> QED  BY <2>1, <2>2, Zenon DEF RowsMove
  <1>5. /\ r.at \notin {"idle", "next", "register"} =>
               rows'[r.wait].state # "none" /\ <<r.wait, f>> \in armed'
        /\ r.at = "consume" => rows'[r.wait].state = "woken"
        /\ r.at = "flip" => rows'[r.wait].target <= issued'
    BY <1>1, <1>2 DEF CallFit, RowsMove
  <1> QED  BY <1>4, <1>5, Zenon DEF CallFit

LEMMA CallMoves ==
    ASSUME Inv, [Next]_vars, armed \subseteq armed', NEW f \in Fibers, NEW r,
           call' = [call EXCEPT ![f] = r], Shaped(r), CallFit(f, r)'
    PROVE  CallInv'
  <1>1. /\ call' = [g \in Fibers |-> call'[g]] /\ call'[f] = r
        /\ \A g \in Fibers \ {f} : call'[g] = call[g]
    BY Zenon DEF Inv, CallInv
  <1>2. ASSUME NEW g \in Fibers
        PROVE  Shaped(call'[g]) /\ CallFit(g, call[g])'
    <2>1. CASE g = f
      BY <1>1, <2>1, Zenon DEF CallFit
    <2>2. CASE g # f
      <3>1. PICK q : q = call[g]
        BY Zenon
      <3>2. Shaped(q) /\ CallFit(g, q)
        BY <3>1, Zenon DEF Inv, CallInv
      <3>3. CallFit(g, q)'
        BY <3>2, FitMoves, RowNext, QueueNext, Zenon DEF Inv
      <3>4. call'[g] = q
        BY <1>1, <2>2, <3>1, Zenon
      <3> QED  BY <3>2, <3>3, <3>4, Zenon DEF CallFit
    <2> QED  BY <2>1, <2>2, Zenon
  <1> QED  BY <1>1, <1>2, Zenon DEF CallInv

LEMMA CallFramed ==
    ASSUME Inv, [Next]_vars, armed \subseteq armed', UNCHANGED call
    PROVE  CallInv'
  <1>1. ASSUME NEW g \in Fibers
        PROVE  Shaped(call'[g]) /\ CallFit(g, call[g])'
    <2>1. PICK q : q = call[g]
      BY Zenon
    <2>2. Shaped(q) /\ CallFit(g, q)
      BY <2>1, Zenon DEF Inv, CallInv
    <2>3. CallFit(g, q)'
      BY <2>2, FitMoves, RowNext, QueueNext, Zenon DEF Inv
    <2> QED  BY <2>1, <2>2, <2>3, Zenon DEF CallFit
  <1> QED  BY <1>1, Zenon DEF CallInv, Inv

\* Goto and Done, on the record of a call.
LEMMA GotoIs ==
    ASSUME CallInv, NEW f \in Fibers, NEW a \in CallPhase, Goto(f, a)
    PROVE  \E r \in CallType : /\ call' = [call EXCEPT ![f] = r] /\ r.at = a
                               /\ r.sweep = call[f].sweep /\ r.wait = call[f].wait
                               /\ r.todo = call[f].todo
  <1>1. PICK q \in CallType : q = call[f]
    BY Zenon DEF CallInv, Shaped
  <1>2. PICK r : r = [q EXCEPT !.at = a]
    BY Zenon
  <1>3. r \in CallType /\ r.at = a /\ r.sweep = q.sweep /\ r.wait = q.wait /\ r.todo = q.todo
    BY <1>1, <1>2, Zenon DEF CallType
  <1>4. call' = [call EXCEPT ![f] = r]
    BY <1>1, <1>2, Zenon DEF Goto
  <1> QED  BY <1>1, <1>3, <1>4, Zenon

LEMMA DoneIs ==
    ASSUME CallInv, NEW f \in Fibers, Done(f)
    PROVE  \E r : /\ Shaped(r) /\ call' = [call EXCEPT ![f] = r] /\ r.at \in {"idle", "next"}
                  /\ r.todo = call[f].todo
  <1>1. PICK q : q = call[f] /\ Shaped(q)
    BY Zenon DEF CallInv
  <1>2. CASE q.sweep
    <2>1. PICK r : r = [q EXCEPT !.at = "next"]
      BY Zenon
    <2>2. Shaped(r) /\ r.at = "next" /\ r.todo = q.todo
      BY <1>1, <1>2, <2>1, Zenon DEF CallType, CallPhase, Shaped
    <2>3. call' = [call EXCEPT ![f] = r]
      BY <1>1, <1>2, <2>1, Zenon DEF Done
    <2> QED  BY <1>1, <2>2, <2>3, Zenon
  <1>3. CASE ~q.sweep
    <2>1. Shaped(Idle) /\ Idle.at = "idle" /\ Idle.todo = {}
      BY Zenon DEF Idle, CallType, CallPhase, Shaped
    <2>2. call' = [call EXCEPT ![f] = Idle]
      BY <1>1, <1>3, Zenon DEF Done
    <2>3. q.todo = {}
      BY <1>1, <1>3, Zenon DEF Shaped
    <2> QED  BY <1>1, <2>1, <2>2, <2>3, Zenon
  <1> QED  BY <1>2, <1>3, Zenon

LEMMA FitNow ==
    ASSUME Inv, [Next]_vars, armed \subseteq armed', NEW f \in Fibers, NEW r, Shaped(r), CallFit(f, r)
    PROVE  CallFit(f, r)'
  BY FitMoves, RowNext, QueueNext, Zenon DEF Inv

LEMMA DoneFits ==
    ASSUME Inv, [Next]_vars, armed \subseteq armed', NEW f \in Fibers, Done(f)
    PROVE  CallInv'
  <1>1. PICK r : /\ Shaped(r) /\ call' = [call EXCEPT ![f] = r] /\ r.at \in {"idle", "next"}
                 /\ r.todo = call[f].todo
    BY DoneIs, Zenon DEF Inv
  <1>2. CallFit(f, r)
    BY <1>1, Zenon DEF CallFit, Inv, CallInv
  <1> QED  BY <1>1, <1>2, FitNow, CallMoves, Zenon

\* Goto takes the row along.
LEMMA GotoFits ==
    ASSUME Inv, [Next]_vars, armed \subseteq armed', NEW f \in Fibers,
           call[f].at \notin {"idle", "next"},
           NEW a \in {"inspect", "measure", "flip", "reread", "consume", "enroll"}, Goto(f, a),
           a = "inspect" => call[f].todo = {},
           rows'[call[f].wait].state # "none", <<call[f].wait, f>> \in armed',
           a = "consume" => rows'[call[f].wait].state = "woken",
           a = "flip" => rows'[call[f].wait].target <= issued'
    PROVE  CallInv'
  <1>0. a \in CallPhase /\ Shaped(call[f])
    BY Zenon DEF CallPhase, Inv, CallInv
  <1>1. PICK r \in CallType : /\ call' = [call EXCEPT ![f] = r] /\ r.at = a
                              /\ r.sweep = call[f].sweep /\ r.wait = call[f].wait
                              /\ r.todo = call[f].todo
    BY <1>0, GotoIs, Zenon DEF Inv
  <1>2. Shaped(r)
    BY <1>0, <1>1, Zenon DEF Shaped
  <1>3. \A row \in r.todo : /\ rows'[row[1]].state # "none" /\ <<row[1], f>> \in armed'
                            /\ row[2] = "woken" => rows'[row[1]].state = "woken"
    <2> SUFFICES ASSUME NEW row \in r.todo
                 PROVE  /\ rows'[row[1]].state # "none" /\ <<row[1], f>> \in armed'
                        /\ row[2] = "woken" => rows'[row[1]].state = "woken"
      BY Zenon
    <2>1. PICK w \in WaitIds : w = row[1]
      BY <1>2, Zenon DEF Shaped, CallType
    <2>2. rows[w].state # "none" /\ <<w, f>> \in armed /\ (row[2] = "woken" => rows[w].state = "woken")
      BY <1>1, <2>1, Zenon DEF CallFit, Inv, CallInv
    <2> QED  BY <2>1, <2>2, RowNext, Zenon DEF RowsMove
  <1>4. CallFit(f, r)'
    BY <1>1, <1>3, Zenon DEF CallFit
  <1> QED  BY <1>1, <1>2, <1>4, CallMoves, Zenon

LEMMA CallWalks ==
    ASSUME Inv, [Next]_vars, NEW f \in Fibers,
           CallInspect(f) \/ CallMeasure(f) \/ CallFlip(f) \/ CallConsume(f) \/ CallEnroll(f)
    PROVE  CallInv'
  <1>0. /\ armed' = armed /\ Shaped(call[f]) /\ CallFit(f, call[f])
        /\ call[f].at \in {"inspect", "reread", "measure", "flip", "consume", "enroll"}
    BY Zenon DEF CallInspect, CallMeasure, CallFlip, CallConsume, CallEnroll, Inv, CallInv, historyVars
  <1>1. PICK w \in WaitIds : w = call[f].wait
    BY <1>0, Zenon DEF Shaped
  <1>2. rows[w].state # "none" /\ <<w, f>> \in armed' /\ rows'[w].state # "none" /\ rows[w].target \in Nat
    BY <1>0, <1>1, RowNext, Zenon DEF CallFit, RowsMove, Inv, RowInv
  <1>3. CASE CallInspect(f)
    <2>1. CASE Done(f)
      BY <1>0, <2>1, DoneFits, Zenon
    <2>2. CASE Goto(f, "consume") /\ rows[w].state = "woken"
      BY <1>0, <1>1, <1>2, <2>2, GotoFits, RowNext, Zenon DEF RowsMove
    <2>3. CASE Goto(f, "measure") \/ Goto(f, "enroll")
      BY <1>0, <1>1, <1>2, <2>3, GotoFits, Zenon
    <2> QED  BY <1>1, <1>3, <2>1, <2>2, <2>3, Zenon DEF CallInspect, RowRead
  <1>4. CASE CallMeasure(f)
    <2>1. HighWater = issued /\ issued \in Nat /\ issued' \in Nat /\ issued <= issued'
      BY WrittenIsIssued, QueueNext, Zenon DEF HighWater, Inv, QueueInv
    <2>2. CASE Covered(w)
      <3>1. Goto(f, "flip")
        BY <1>1, <1>4, <2>2, Zenon DEF CallMeasure
      <3>2. rows'[w].target <= issued'
        BY <1>2, <2>1, <2>2, RowNext DEF Covered, RowsMove
      <3> QED  BY <1>0, <1>1, <1>2, <3>1, <3>2, GotoFits, Zenon
    <2>3. CASE ~Covered(w)
      <3>1. Goto(f, "enroll")
        BY <1>1, <1>4, <2>3, Zenon DEF CallMeasure
      <3> QED  BY <1>0, <1>1, <1>2, <3>1, GotoFits, Zenon
    <2> QED  BY <2>2, <2>3, Zenon
  <1>5. CASE CallFlip(f)
    <2>1. Goto(f, "reread")
      BY <1>5, Zenon DEF CallFlip
    <2> QED  BY <1>0, <1>1, <1>2, <2>1, GotoFits, Zenon
  <1>6. CASE CallConsume(f) \/ CallEnroll(f)
    BY <1>0, <1>6, DoneFits, Zenon DEF CallConsume, CallEnroll
  <1> QED  BY <1>3, <1>4, <1>5, <1>6, Zenon

LEMMA CallSweeps ==
    ASSUME Inv, [Next]_vars, NEW f \in Fibers, SweepNext(f)
    PROVE  /\ CallInv'
           /\ \/ call[f].todo = {} /\ call' = [call EXCEPT ![f] = Idle]
              \/ \E r : \E w \in WaitIds : \E s \in {"pending", "woken", "cancelled"} :
                     /\ <<w, s>> \in call[f].todo /\ call' = [call EXCEPT ![f] = r]
                     /\ r.todo = call[f].todo \ {<<w, s>>} /\ r.wait = w
                     /\ r.at = (IF s = "pending" THEN "measure" ELSE IF s = "woken" THEN "consume" ELSE "next")
  <1>0. armed' = armed /\ Shaped(call[f]) /\ CallFit(f, call[f]) /\ call[f].at = "next"
    BY Zenon DEF SweepNext, Inv, CallInv, historyVars
  <1>1. CASE call[f].todo = {} /\ call' = [call EXCEPT ![f] = Idle]
    <2>1. Shaped(Idle) /\ CallFit(f, Idle)
      BY Zenon DEF Idle, CallType, CallPhase, Shaped, CallFit
    <2> QED  BY <1>0, <1>1, <2>1, FitNow, CallMoves, Zenon
  <1>2. ASSUME NEW row \in call[f].todo,
               call' = [call EXCEPT ![f].todo = @ \ {row}, ![f].wait = row[1],
                                    ![f].at = CASE row[2] = "cancelled" -> "next"
                                                [] row[2] = "woken" -> "consume"
                                                [] row[2] = "pending" -> "measure"]
        PROVE  /\ CallInv'
               /\ \E r : \E w \in WaitIds : \E s \in {"pending", "woken", "cancelled"} :
                     /\ <<w, s>> \in call[f].todo /\ call' = [call EXCEPT ![f] = r]
                     /\ r.todo = call[f].todo \ {<<w, s>>} /\ r.wait = w
                     /\ r.at = (IF s = "pending" THEN "measure" ELSE IF s = "woken" THEN "consume" ELSE "next")
    <2>1. PICK q \in CallType : q = call[f] /\ (q.todo # {} => q.sweep)
      BY <1>0, Zenon DEF Shaped
    <2>2. PICK w \in WaitIds, s \in {"pending", "woken", "cancelled"} : row = <<w, s>>
      BY <2>1 DEF CallType
    <2>3. PICK a, T : /\ T = q.todo \ {row}
                      /\ a = IF s = "pending" THEN "measure" ELSE IF s = "woken" THEN "consume" ELSE "next"
      BY Zenon
    <2>4. (CASE row[2] = "cancelled" -> "next" [] row[2] = "woken" -> "consume"
             [] row[2] = "pending" -> "measure") = a
      BY <2>2, <2>3, Zenon
    <2>5. PICK r : r = [q EXCEPT !.todo = T, !.wait = w, !.at = a]
      BY Zenon
    <2>6. call' = [call EXCEPT ![f] = r]
      BY <1>2, <2>1, <2>2, <2>3, <2>4, <2>5, Zenon DEF Inv, CallInv
    <2>7. T \subseteq WaitIds \X {"pending", "woken", "cancelled"} /\ a \in CallPhase
      BY <2>1, <2>3, Zenon DEF CallType, CallPhase
    <2>8. r \in CallType /\ r.todo = T /\ r.wait = w /\ r.at = a /\ r.sweep = q.sweep
      BY <2>1, <2>5, <2>7, Zenon DEF CallType
    <2>9. Shaped(r)
      BY <2>1, <2>3, <2>8, Zenon DEF Shaped
    <2>10. CallFit(f, r)
      <3>1. rows[w].state # "none" /\ <<w, f>> \in armed /\ (s = "woken" => rows[w].state = "woken")
        BY <1>0, <2>2, Zenon DEF CallFit
      <3>2. a \in {"measure", "consume", "next"} /\ (a = "consume" => s = "woken")
        BY <2>3, Zenon
      <3> QED  BY <1>0, <2>1, <2>3, <2>8, <3>1, <3>2, Zenon DEF CallFit
    <2>11. CallInv'
      BY <1>0, <2>6, <2>9, <2>10, FitNow, CallMoves, Zenon
    <2> QED  BY <2>1, <2>2, <2>3, <2>6, <2>8, <2>11, Zenon
  <1> QED  BY <1>1, <1>2, Zenon DEF SweepNext

\* A sweep that starts: the rows it goes over, and those of them it listed.
SweepsOver(f, S, T) ==
    /\ StartCall(f) /\ UNCHANGED rowVars /\ S \subseteq Listed
    /\ T \subseteq {<<w, rows[w].state>> : w \in S}
    /\ \A w \in S : rows[w].state = "pending" => <<w, "pending">> \in T
    /\ call' = [call EXCEPT ![f] = [Idle EXCEPT !.at = "next", !.sweep = TRUE, !.todo = T]]
    /\ armed' = armed \cup (S \X {f})

\* What is new in a call that starts: the rows it arms and has still to look at.
Begun(f) ==
    \E r : /\ call[f].at = "idle" /\ fiber[f] = "running" /\ call' = [call EXCEPT ![f] = r]
           /\ r.at \in {"register", "next"} /\ \A k \in armed' \ armed : k[2] = f
           /\ \A w \in WaitIds : <<w, f>> \in armed' \ armed /\ rows[w].state = "pending" =>
                  <<w, "pending">> \in r.todo

\* A call that starts: the gates passed, the listing made.
LEMMA CallStarts ==
    ASSUME Inv, [Next]_vars, Starts
    PROVE  /\ CallInv' /\ armed \subseteq armed'
           /\ \E f \in Fibers : Begun(f)
  <1>1. ASSUME NEW f \in Fibers, NEW w \in WaitIds, NEW t \in Targets, WaitForChannel(f, w, t)
        PROVE  CallInv' /\ armed \subseteq armed' /\ Begun(f)
    <2>1. PICK r : r = [Idle EXCEPT !.at = "register", !.wait = w, !.target = t]
      BY Zenon
    <2>2. r = [at |-> "register", sweep |-> FALSE, wait |-> w, target |-> t, todo |-> {}]
      BY <2>1, Zenon DEF Idle
    <2>3. t \in Nat
      BY WaitBoundAssumption, Zenon
    <2>4. Shaped(r) /\ CallFit(f, r) /\ r.at = "register"
      BY <2>2, <2>3, Zenon DEF Shaped, CallFit, CallType, CallPhase
    <2>5. /\ call' = [call EXCEPT ![f] = r] /\ armed' = armed
          /\ call[f].at = "idle" /\ fiber[f] = "running"
      BY <1>1, <2>1, Zenon DEF WaitForChannel, historyVars, StartCall, MayArm
    <2>6. CallInv'
      BY <2>4, <2>5, FitNow, CallMoves, Zenon
    <2> QED  BY <2>4, <2>5, <2>6, Zenon DEF Begun
  <1>2. ASSUME NEW f \in Fibers, NEW S, NEW T, SweepsOver(f, S, T)
        PROVE  CallInv' /\ armed \subseteq armed' /\ Begun(f)
    <2>1. PICK r : r = [Idle EXCEPT !.at = "next", !.sweep = TRUE, !.todo = T]
      BY Zenon
    <2>2. r = [at |-> "next", sweep |-> TRUE, wait |-> Nobody, target |-> 0, todo |-> T]
      BY <2>1, Zenon DEF Idle
    <2>3. T \subseteq WaitIds \X {"pending", "woken", "cancelled"}
      BY <1>2 DEF SweepsOver, Listed, Inv, RowInv, RowStates
    <2>4. r.at = "next" /\ r.todo = T
      BY <2>2, Zenon
    <2>5. Shaped(r)
      BY <2>2, <2>3, Zenon DEF Shaped, CallType, CallPhase
    <2>6. \A row \in T : /\ rows'[row[1]].state # "none" /\ <<row[1], f>> \in armed'
                         /\ row[2] = "woken" => rows'[row[1]].state = "woken"
      BY <1>2 DEF SweepsOver, Listed, rowVars
    <2>7. CallFit(f, r)'
      BY <2>4, <2>6, Zenon DEF CallFit
    <2>8. call' = [call EXCEPT ![f] = r] /\ armed \subseteq armed'
      BY <1>2, <2>1, Zenon DEF SweepsOver
    <2>9. CallInv'
      BY <2>5, <2>7, <2>8, CallMoves, Zenon
    <2>10. call[f].at = "idle" /\ fiber[f] = "running"
      BY <1>2, Zenon DEF SweepsOver, StartCall, MayArm
    <2>11. /\ \A k \in armed' \ armed : k[2] = f
           /\ \A w \in WaitIds : <<w, f>> \in armed' \ armed => w \in S
      BY <1>2, Zenon DEF SweepsOver
    <2> QED  BY <1>2, <2>4, <2>8, <2>9, <2>10, <2>11, Zenon DEF SweepsOver, Begun
  <1>3. CASE \E f \in Fibers : RearmChannelWaits(f)
    <2>1. PICK f \in Fibers : RearmChannelWaits(f)
      BY <1>3, Zenon
    <2>2. PICK S, T : S = Listed /\ T = {<<w, rows[w].state>> : w \in S}
      BY Zenon
    <2>3. /\ StartCall(f) /\ UNCHANGED rowVars /\ armed' = armed \cup (S \X {f})
          /\ call' = [call EXCEPT ![f] = [Idle EXCEPT !.at = "next", !.sweep = TRUE, !.todo = T]]
      BY <2>1, <2>2, Zenon DEF RearmChannelWaits
    <2>4. \A w \in S : rows[w].state = "pending" => <<w, "pending">> \in T
      BY <2>2, Zenon
    <2>5. SweepsOver(f, S, T)
      BY <2>2, <2>3, <2>4, Zenon DEF SweepsOver
    <2> QED  BY <1>2, <2>5, Zenon
  <1>4. CASE \E f \in Fibers : \E plan \in SUBSET PendingRows : ResumeBinding(f, plan)
    <2>1. PICK f \in Fibers : \E plan \in SUBSET PendingRows : ResumeBinding(f, plan)
      BY <1>4, Zenon
    <2>2. PICK S : S \subseteq PendingRows /\ ResumeBinding(f, S)
      BY <2>1, Zenon
    <2>3. PICK T : T = {<<w, "pending">> : w \in S}
      BY Zenon
    <2>4. /\ StartCall(f) /\ UNCHANGED rowVars /\ armed' = armed \cup (S \X {f})
          /\ call' = [call EXCEPT ![f] = [Idle EXCEPT !.at = "next", !.sweep = TRUE, !.todo = T]]
      BY <2>2, <2>3, Zenon DEF ResumeBinding
    <2>5. S \subseteq Listed /\ T \subseteq {<<w, rows[w].state>> : w \in S}
      BY <2>2, <2>3, Zenon DEF PendingRows, Listed
    <2>6. \A w \in S : <<w, "pending">> \in T
      BY <2>3, Zenon
    <2>7. SweepsOver(f, S, T)
      BY <2>4, <2>5, <2>6, Zenon DEF SweepsOver
    <2> QED  BY <1>2, <2>7, Zenon
  <1> QED  BY <1>1, <1>3, <1>4, Zenon DEF Starts

LEMMA CallRegisters ==
    ASSUME Inv, [Next]_vars, NEW f \in Fibers, CallRegister(f)
    PROVE  /\ CallInv' /\ armed \subseteq armed' /\ call[f].wait \in WaitIds /\ call[f].todo = {}
           /\ \A v \in WaitIds \ {call[f].wait} : rows'[v] = rows[v]
           /\ \/ armed' = armed /\ rows' = rows /\ Done(f)
              \/ armed' = armed \cup {<<call[f].wait, f>>} /\ Goto(f, "inspect")
  <1>1. /\ call[f].wait \in WaitIds /\ call[f].target \in Nat /\ call[f].todo = {}
        /\ call[f].at = "register"
    BY Zenon DEF CallRegister, Inv, CallInv, Shaped, CallType
  <1>2. PICK w \in WaitIds, t \in Nat : w = call[f].wait /\ t = call[f].target
    BY <1>1, Zenon
  <1>3. /\ RegisterWait(w, f, t)
        /\ IF RegisterVerdict(w, f, t) = "conflict" THEN Done(f) /\ UNCHANGED armed
           ELSE Goto(f, "inspect") /\ armed' = armed \cup {<<w, f>>}
    BY <1>2, Zenon DEF CallRegister
  <1>4. /\ \A v \in WaitIds \ {w} : rows'[v] = rows[v]
        /\ RegisterVerdict(w, f, t) # "conflict" => rows'[w].state # "none"
    BY <1>3, RegisterKeeps, Zenon DEF Inv
  <1>5. CASE RegisterVerdict(w, f, t) = "conflict"
    <2>1. Done(f) /\ armed' = armed /\ rows' = rows
      BY <1>3, <1>5, Zenon DEF RegisterWait
    <2>2. CallInv'
      BY <2>1, DoneFits, Zenon
    <2> QED  BY <1>1, <1>2, <1>4, <2>1, <2>2, Zenon
  <1>6. CASE RegisterVerdict(w, f, t) # "conflict"
    <2>1. Goto(f, "inspect") /\ armed' = armed \cup {<<w, f>>}
      BY <1>3, <1>6, Zenon
    <2>2. CallInv'
      BY <1>1, <1>2, <1>4, <1>6, <2>1, GotoFits, Zenon
    <2> QED  BY <1>1, <1>2, <1>4, <2>1, <2>2, Zenon
  <1> QED  BY <1>5, <1>6, Zenon

LEMMA CallNext ==
    ASSUME Inv, [Next]_vars
    PROVE  CallInv'
  <1>1. CASE Apart
    BY <1>1, ApartLeaves, CallFramed, Zenon
  <1>2. CASE Starts
    BY <1>2, CallStarts, Zenon
  <1>3. CASE Crash
    <2>1. call' = [f \in Fibers |-> Idle]
      BY <1>3, Zenon DEF Crash
    <2>2. ASSUME NEW f \in Fibers
          PROVE  Shaped(call'[f]) /\ CallFit(f, call[f])'
      <3>1. PICK r : r = Idle
        BY Zenon
      <3>2. Shaped(r) /\ r.at = "idle" /\ r.todo = {}
        BY <3>1, Zenon DEF Idle, Shaped, CallType, CallPhase
      <3>3. CallFit(f, r)'
        BY <3>2, Zenon DEF CallFit
      <3>4. call'[f] = r
        BY <2>1, <3>1, Zenon
      <3> QED  BY <3>2, <3>3, <3>4, Zenon DEF CallFit
    <2> QED  BY <2>1, <2>2, Zenon DEF CallInv
  <1>4. CASE \E f \in Fibers : Walks(f) \/ CallFlip(f)
    BY <1>4, CallWalks, CallSweeps, Zenon DEF Walks
  <1>5. CASE \E f \in Fibers : CallRegister(f)
    BY <1>5, CallRegisters, Zenon
  <1>6. CASE (\E n \in NotifyKeys : Hands(n) \/ Commit(n) \/ Notify(n)) \/ \E w \in WaitIds : CancelRow(w)
    <2>1. UNCHANGED <<call, armed>>
      BY <1>6, HandsLeave, Zenon DEF Commit, Notify, CancelRow, historyVars
    <2> QED  BY <2>1, CallFramed, Zenon
  <1> QED  BY <1>1, <1>2, <1>3, <1>4, <1>5, <1>6, Steps, Zenon

LEMMA InvStarts ==
    ASSUME Init
    PROVE  Inv
  <1>1. QueueInv /\ Live = {} /\ issued = 0
    BY QueueStarts, Zenon DEF Init, ChannelInit, Live, NoEntries
  <1>2. RowInv
    BY Zenon DEF Init, WaitInit, NoRow, RowInv, RowStates
  <1>3. NotifierInv
    <2>1. NewNotifier \in NotifierType /\ NewNotifier.at = "new"
      BY Zenon DEF NewNotifier, NotifierType
    <2>2. \A n \in NotifyKeys : notifier[n] = NewNotifier
      BY Zenon DEF Init
    <2>3. notifier \in [NotifyKeys -> NotifierType] /\ DOMAIN receipts = {}
      BY <2>1, Zenon DEF Init, WaitInit
    <2>4. \A w \in WaitIds : rows[w].state = "none"
      BY Zenon DEF Init, WaitInit, NoRow
    <2> QED  BY <1>1, <2>1, <2>2, <2>3, <2>4, Zenon DEF NotifierInv, NotifierType
  <1>4. CallInv
    <2>1. PICK r : r = Idle
      BY Zenon
    <2>2. Shaped(r) /\ r.at = "idle" /\ r.todo = {}
      BY <2>1, Zenon DEF Idle, Shaped, CallType, CallPhase
    <2>3. \A f \in Fibers : CallFit(f, r)
      BY <2>2, Zenon DEF CallFit
    <2>4. call = [f \in Fibers |-> r]
      BY <2>1, Zenon DEF Init
    <2> QED  BY <2>2, <2>3, <2>4, Zenon DEF CallInv
  <1> QED  BY <1>1, <1>2, <1>3, <1>4, Zenon DEF Inv

LEMMA InvNext ==
    ASSUME Inv, [Next]_vars
    PROVE  Inv'
  BY RowNext, QueueNext, NotifierNext, CallNext, Zenon DEF Inv

-----------------------------------------------------------------------------
(* Who is told what.                                                       *)

\* What makes a step keep Tidings: it spreads nothing but what is woken.
LEMMA TidingsKept ==
    ASSUME Inv, Tidings, [Next]_vars,
           registry' \in [WaitKeys -> {"none", "pending", "buffered"}],
           future' \in [WaitKeys -> {"none", "pending", "dropped", "fired", "closed"}],
           \A k \in WaitKeys : registry'[k] = "buffered" => registry[k] = "buffered" \/ rows[k[1]].state = "woken",
           \A k \in WaitKeys : future'[k] = "fired" => future[k] = "fired" \/ rows[k[1]].state = "woken",
           \A w \in told' : w \in told \/ (w \in WaitIds /\ rows[w].state = "woken")
    PROVE  Tidings'
  <1>1. \A w \in WaitIds : rows[w].state = "woken" => rows'[w].state = "woken"
    BY RowNext, Zenon DEF RowsMove
  <1>2. \A k \in WaitKeys : k[1] \in WaitIds
    BY Zenon DEF WaitKeys
  <1>3. /\ \A k \in WaitKeys : registry'[k] = "buffered" => rows'[k[1]].state = "woken"
        /\ \A k \in WaitKeys : future'[k] = "fired" => rows'[k[1]].state = "woken"
    BY <1>1, <1>2, Zenon DEF Tidings
  <1>4. told' \subseteq WaitIds /\ \A w \in told' : rows'[w].state = "woken"
    BY <1>1, Zenon DEF Tidings
  <1> QED  BY <1>3, <1>4, Zenon DEF Tidings

LEMMA ClosesSenders ==
    ASSUME Tidings, NEW S
    PROVE  /\ CloseSenders(S) \in [WaitKeys -> {"none", "pending", "dropped", "fired", "closed"}]
           /\ \A k \in WaitKeys : CloseSenders(S)[k] \in {future[k], "closed", "none"}
           /\ \A k \in WaitKeys : k \in S => CloseSenders(S)[k] # "pending"
           /\ \A k \in WaitKeys : CloseSenders(S)[k] = "pending" => future[k] = "pending"
  BY Zenon DEF CloseSenders, Tidings

LEMMA TidingsApart ==
    ASSUME Inv, Tidings, [Next]_vars, Apart \/ Crash
    PROVE  Tidings'
  <1>1. CASE UNCHANGED <<registry, future, told>>
    BY <1>1, TidingsKept, Zenon DEF Tidings
  <1>2. CASE \E f \in Fibers : Spawn(f) \/ CancelScope(f)
    BY <1>1, <1>2, Zenon DEF Spawn, CancelScope, registryVars, historyVars
  <1>3. CASE ShutdownFlag \/ UNCHANGED vars
    BY <1>1, <1>3, Zenon DEF ShutdownFlag, registryVars, historyVars, vars
  <1>4. CASE \E f \in Fibers : Finish(f)
    <2>1. PICK S : /\ registry' = [k \in WaitKeys |-> IF k \in S THEN "none" ELSE registry[k]]
                   /\ future' = CloseSenders(S) /\ told' = told
      BY <1>4, Zenon DEF Finish, historyVars
    <2>2. /\ registry' \in [WaitKeys -> {"none", "pending", "buffered"}]
          /\ \A k \in WaitKeys : registry'[k] \in {"none", registry[k]}
      BY <2>1, Zenon DEF Tidings
    <2> QED  BY <2>1, <2>2, ClosesSenders, TidingsKept, Zenon
  <1>5. CASE ShutdownClear
    <2>1. registry' = [k \in WaitKeys |-> "none"] /\ future' = CloseSenders(WaitKeys) /\ told' = told
      BY <1>5, Zenon DEF ShutdownClear, historyVars
    <2> QED  BY <2>1, ClosesSenders, TidingsKept, Zenon
  <1>6. CASE Crash
    <2>1. registry' = [k \in WaitKeys |-> "none"] /\ future' = [k \in WaitKeys |-> "none"] /\ told' = told
      BY <1>6, Zenon DEF Crash
    <2> QED  BY <2>1, TidingsKept, Zenon
  <1>7. ASSUME NEW k \in WaitKeys, PollCancelled(k)
        PROVE  Tidings'
    <2>1. PICK a : a = IF registry[k] = "pending" THEN "none" ELSE registry[k]
      BY Zenon
    <2>2. registry' = [registry EXCEPT ![k] = a] /\ future' = [future EXCEPT ![k] = "none"] /\ told' = told
      BY <1>7, <2>1, Zenon DEF PollCancelled, Tidings
    <2>3. a \in {"none", "buffered"} /\ (a = "buffered" => registry[k] = "buffered")
      BY <2>1, Zenon DEF Tidings
    <2> QED  BY <2>2, <2>3, TidingsKept, Zenon DEF Tidings
  <1>8. ASSUME NEW k \in WaitKeys, PollReady(k)
        PROVE  Tidings'
    <2>1. /\ registry' = registry /\ future' = [future EXCEPT ![k] = "none"]
          /\ \A w \in told' : w \in told \/ (w = k[1] /\ future[k] = "fired")
      BY <1>8, Zenon DEF PollReady
    <2>2. future[k] = "fired" => k[1] \in WaitIds /\ rows[k[1]].state = "woken"
      BY Zenon DEF Tidings, WaitKeys
    <2> QED  BY <2>1, <2>2, TidingsKept, Zenon DEF Tidings
  <1>9. ASSUME NEW k \in WaitKeys, DropFuture(k)
        PROVE  Tidings'
    <2>1. PICK a \in {"dropped", "none"} : future' = [future EXCEPT ![k] = a]
      BY <1>9, Zenon DEF DropFuture
    <2>2. registry' = registry /\ told' = told
      BY <1>9, Zenon DEF DropFuture
    <2> QED  BY <2>1, <2>2, TidingsKept, Zenon DEF Tidings
  <1> QED  BY <1>2, <1>3, <1>4, <1>5, <1>6, <1>7, <1>8, <1>9, Zenon DEF Apart, Poll, Drop

LEMMA TidingsWalks ==
    ASSUME Inv, Tidings, [Next]_vars, NEW f \in Fibers, Walks(f)
    PROVE  Tidings'
  <1>1. CASE SweepNext(f) \/ CallMeasure(f)
    <2>1. UNCHANGED <<registry, future, told>>
      BY <1>1, Zenon DEF SweepNext, CallMeasure, registryVars, historyVars
    <2> QED  BY <2>1, TidingsKept, Zenon DEF Tidings
  <1>2. PICK w : w = call[f].wait
    BY Zenon
  <1>3. CASE CallInspect(f)
    <2>1. w \in WaitIds
      BY <1>2, <1>3, Zenon DEF CallInspect, Inv, CallInv, Shaped
    <2>2. UNCHANGED <<registry, future>> /\ \A v \in told' : v \in told \/ (v = w /\ rows[w].state = "woken")
      BY <1>2, <1>3, Zenon DEF CallInspect, RowRead, registryVars
    <2> QED  BY <2>1, <2>2, TidingsKept, Zenon DEF Tidings
  <1>4. ASSUME NEW k \in KeysOf(w, "buffered"), registry' = [registry EXCEPT ![k] = "none"]
        PROVE  /\ w \in WaitIds /\ rows[w].state = "woken"
               /\ registry' \in [WaitKeys -> {"none", "pending", "buffered"}]
               /\ \A l \in WaitKeys : registry'[l] = "buffered" => registry[l] = "buffered"
    BY <1>4 DEF KeysOf, Tidings, WaitKeys
  <1>5. CASE CallConsume(f)
    <2>1. w \in WaitIds /\ rows[w].state = "woken" /\ told' = told \cup {w} /\ future' = future
      BY <1>2, <1>5, Zenon DEF CallConsume, Inv, CallInv, Shaped, CallFit
    <2>2. \/ registry' = registry
          \/ \E k \in KeysOf(w, "buffered") : registry' = [registry EXCEPT ![k] = "none"]
      BY <1>2, <1>5, Zenon DEF CallConsume
    <2>3. /\ registry' \in [WaitKeys -> {"none", "pending", "buffered"}]
          /\ \A l \in WaitKeys : registry'[l] = "buffered" => registry[l] = "buffered"
      BY <1>4, <2>2, Zenon DEF Tidings
    <2> QED  BY <2>1, <2>3, TidingsKept, Zenon DEF Tidings
  <1>6. CASE CallEnroll(f)
    <2>1. CASE UNCHANGED <<registry, future, told>>
      BY <2>1, TidingsKept, Zenon DEF Tidings
    <2>2. ASSUME NEW k \in KeysOf(w, "buffered"), registry' = [registry EXCEPT ![k] = "none"],
                 told' = told \cup {w}, future' = future
          PROVE  Tidings'
      BY <1>4, <2>2, TidingsKept, Zenon DEF Tidings
    <2>3. CASE /\ registry' = [registry EXCEPT ![<<w, f>>] = "pending"]
               /\ future' = [future EXCEPT ![<<w, f>>] = "pending"] /\ told' = told
      BY <2>3, TidingsKept, Zenon DEF Tidings
    <2> QED  BY <1>2, <1>6, <2>1, <2>2, <2>3, Zenon DEF CallEnroll, RacedBuffer, registryVars
  <1> QED  BY <1>1, <1>3, <1>5, <1>6, Zenon DEF Walks

LEMMA TidingsHands ==
    ASSUME Inv, Tidings, [Next]_vars, NEW n \in NotifyKeys, Hands(n)
    PROVE  Tidings'
  <1>0. told' = told
    BY HandsLeave, Zenon
  <1>1. CASE UNCHANGED <<registry, future>>
    BY <1>0, <1>1, TidingsKept, Zenon DEF Tidings
  <1>2. ASSUME NEW w \in WaitIds, DeliverOne(n, w)
        PROVE  Tidings'
    <2>1. rows[w].state = "woken"
      BY <1>2 DEF DeliverOne, Inv, NotifierInv, RowInv
    <2>2. ASSUME NEW k \in KeysOf(w, "pending"), Hand(k)
          PROVE  Tidings'
      <3>1. k \in WaitKeys /\ k[1] = w
        BY Zenon DEF KeysOf
      <3>2. PICK a \in {"none", "buffered"}, b \in {"fired", "none"} :
                registry' = [registry EXCEPT ![k] = a] /\ future' = [future EXCEPT ![k] = b]
        BY <2>2, Zenon DEF Hand
      <3> QED  BY <1>0, <2>1, <3>1, <3>2, TidingsKept, Zenon DEF Tidings
    <2>3. CASE BufferOrphan(w)
      <3>1. PICK S : registry' = [k \in WaitKeys |-> IF k \in S THEN "none"
                                    ELSE IF k = Orphaned(w) /\ OrphanCapacity > 0 THEN "buffered"
                                    ELSE registry[k]]
        BY <2>3, Zenon DEF BufferOrphan
      <3>2. /\ registry' \in [WaitKeys -> {"none", "pending", "buffered"}]
            /\ \A k \in WaitKeys : registry'[k] = "buffered" => registry[k] = "buffered" \/ k = Orphaned(w)
        BY <3>1, Zenon DEF Tidings
      <3>3. future' = future /\ Orphaned(w)[1] = w
        BY <2>3, Zenon DEF BufferOrphan, Orphaned
      <3> QED  BY <1>0, <2>1, <3>2, <3>3, TidingsKept, Zenon DEF Tidings
    <2> QED  BY <1>1, <1>2, <2>2, <2>3, Zenon DEF DeliverOne, registryVars
  <1> QED  BY <1>1, <1>2, Zenon DEF Hands, DeliverStart, Redeliver, registryVars

LEMMA TidingsNext ==
    ASSUME Inv, Tidings, [Next]_vars
    PROVE  Tidings'
  <1>1. CASE UNCHANGED <<registry, future, told>>
    BY <1>1, TidingsKept, Zenon DEF Tidings
  <1>2. CASE Starts \/ \E f \in Fibers : CallRegister(f) \/ CallFlip(f)
    BY <1>1, <1>2, StartsLeave, Zenon DEF CallRegister, CallFlip, registryVars, historyVars
  <1>3. CASE (\E n \in NotifyKeys : Commit(n) \/ Notify(n)) \/ \E w \in WaitIds : CancelRow(w)
    BY <1>1, <1>3, Zenon DEF Commit, Notify, CancelRow, registryVars, historyVars
  <1> QED  BY <1>2, <1>3, TidingsApart, TidingsWalks, TidingsHands, Steps, Zenon

LEMMA ToldAreCommitted ==
    ASSUME Inv, Tidings
    PROVE  ToldOnlyCommitted
  BY Zenon DEF Inv, NotifierInv, Tidings, ToldOnlyCommitted

-----------------------------------------------------------------------------
(* No commit is missed.                                                    *)

\* Which steps a call, a notifier, a row and the armed keys move by.
LEMMA CallOf ==
    ASSUME Inv, [Next]_vars, NEW f \in Fibers
    PROVE  \/ call'[f] = call[f]
           \/ Crash \/ Begun(f) \/ CallRegister(f) \/ CallFlip(f) \/ Walks(f)
  <1>1. CASE Apart
    BY <1>1, ApartLeaves, Zenon
  <1>2. CASE Starts
    <2>1. PICK g \in Fibers : Begun(g)
      BY <1>2, CallStarts, Zenon
    <2>2. CASE g # f
      BY <2>1, <2>2, Zenon DEF Begun, Inv, CallInv
    <2> QED  BY <2>1, <2>2, Zenon
  <1>3. ASSUME NEW g \in Fibers, g # f, Walks(g) \/ CallRegister(g) \/ CallFlip(g)
        PROVE  call'[f] = call[f]
    <2>1. CASE (\E a : Goto(g, a)) \/ Done(g)
      BY <1>3, <2>1, Zenon DEF Goto, Done, Inv, CallInv
    <2>2. CASE SweepNext(g)
      BY <1>3, <2>2, Zenon DEF SweepNext, Inv, CallInv
    <2> QED  BY <1>3, <2>1, <2>2, Zenon DEF Walks, CallRegister, CallFlip, CallInspect, CallMeasure,
                CallConsume, CallEnroll
  <1>4. CASE (\E n \in NotifyKeys : Hands(n) \/ Commit(n) \/ Notify(n)) \/ \E w \in WaitIds : CancelRow(w)
    BY <1>4, HandsLeave, Zenon DEF Commit, Notify, CancelRow
  <1> QED  BY <1>1, <1>2, <1>3, <1>4, Steps, Zenon

LEMMA NotifierOf ==
    ASSUME Inv, [Next]_vars, NEW n \in NotifyKeys
    PROVE  notifier'[n] = notifier[n] \/ Crash \/ Commit(n) \/ Notify(n) \/ Hands(n)
  <1>1. CASE Apart \/ Starts \/ \E f \in Fibers : Walks(f)
    BY <1>1, ApartLeaves, StartsLeave, WalksLeave, Zenon
  <1>2. CASE (\E f \in Fibers : CallRegister(f) \/ CallFlip(f)) \/ \E w \in WaitIds : CancelRow(w)
    BY <1>2, Zenon DEF CallRegister, CallFlip, CancelRow
  <1>3. CASE \E m \in NotifyKeys \ {n} : Hands(m) \/ Commit(m) \/ Notify(m)
    BY <1>3, HandsIs, CommitIs, NotifyIs, Zenon
  <1> QED  BY <1>1, <1>2, <1>3, Steps, Zenon

LEMMA ArmedOf ==
    ASSUME Inv, [Next]_vars
    PROVE  /\ armed' = armed \/ Crash \/ (\E f \in Fibers : CallRegister(f)) \/ (Starts /\ \E f \in Fibers : Begun(f))
           /\ restarted => restarted'
  <1>1. CASE Apart \/ \E f \in Fibers : Walks(f)
    BY <1>1, ApartLeaves, WalksLeave
  <1>2. CASE Starts
    BY <1>2, StartsLeave, CallStarts
  <1>3. CASE (\E f \in Fibers : CallRegister(f) \/ CallFlip(f)) \/ \E w \in WaitIds : CancelRow(w)
    <2>1. CASE \E f \in Fibers : CallRegister(f)
      <3>1. PICK f \in Fibers : CallRegister(f)
        BY <2>1, Zenon
      <3>2. restarted' = restarted
        BY <3>1, Zenon DEF CallRegister
      <3> QED  BY <2>1, <3>2, Zenon
    <2>2. CASE \E f \in Fibers : CallFlip(f)
      <3>1. PICK f \in Fibers : CallFlip(f)
        BY <2>2, Zenon
      <3>2. armed' = armed /\ restarted' = restarted
        BY <3>1, Zenon DEF CallFlip, historyVars
      <3> QED  BY <3>2, Zenon
    <2>3. CASE \E w \in WaitIds : CancelRow(w)
      <3>1. PICK w \in WaitIds : CancelRow(w)
        BY <2>3, Zenon
      <3>2. armed' = armed /\ restarted' = restarted
        BY <3>1, Zenon DEF CancelRow, historyVars
      <3> QED  BY <3>2, Zenon
    <2> QED  BY <1>3, <2>1, <2>2, <2>3, Zenon
  <1>4. CASE \E n \in NotifyKeys : Hands(n) \/ Commit(n) \/ Notify(n)
    BY <1>4, HandsLeave DEF Commit, Notify, historyVars
  <1>5. CASE Crash
    BY <1>5, Zenon DEF Crash
  <1> QED  BY <1>1, <1>2, <1>3, <1>4, <1>5, Steps, Zenon

LEMMA RowOf ==
    ASSUME Inv, [Next]_vars, NEW w \in WaitIds, rows'[w].state = "pending"
    PROVE  \/ rows'[w] = rows[w]
           \/ \E f \in Fibers : CallRegister(f) /\ call[f].wait = w /\ Goto(f, "inspect")
  <1>1. CASE UNCHANGED rowVars
    BY <1>1, Zenon DEF rowVars
  <1>2. CASE Apart \/ Starts \/ Crash \/ \E f \in Fibers : Walks(f)
    BY <1>1, <1>2, ApartLeaves, StartsLeave, WalksLeave, Zenon DEF Crash
  <1>3. CASE \E n \in NotifyKeys : Hands(n) \/ Commit(n)
    BY <1>1, <1>3, HandsLeave, Zenon DEF Commit
  <1>4. CASE \E n \in NotifyKeys : Notify(n)
    <2>1. PICK n \in NotifyKeys : Notify(n)
      BY <1>4, Zenon
    <2>2. rows'[w] = rows[w] \/ w \in receipts'[n].woken
      BY <2>1, NotifyIs, Zenon
    <2>3. n \in DOMAIN receipts' /\ RowInv'
      BY <2>1, NotifyIs, RowNext, Zenon
    <2>4. w \in receipts'[n].woken => rows'[w].state = "woken"
      BY <2>3, Zenon DEF RowInv
    <2> QED  BY <2>2, <2>4, Zenon
  <1>5. CASE \E v \in WaitIds : CancelRow(v)
    BY <1>5, CancelKeeps, Zenon DEF CancelRow, Inv
  <1>6. CASE \E f \in Fibers : CallFlip(f)
    BY <1>6, FlipIs, Zenon
  <1>7. CASE \E f \in Fibers : CallRegister(f)
    BY <1>7, CallRegisters, Zenon
  <1> QED  BY <1>2, <1>3, <1>4, <1>5, <1>6, <1>7, Steps, Zenon

\* A notifier that is to flip a row flips it, or still is to.
LEMMA FlipStays ==
    ASSUME Inv, [Next]_vars, NEW w \in WaitIds, rows[w].state = "pending", rows'[w] = rows[w], WillFlip(w)
    PROVE  WillFlip(w)'
  <1>0. rows[w].target \in Nat
    BY Zenon DEF Inv, RowInv
  <1>1. PICK n \in NotifyKeys : n \notin DOMAIN receipts /\
            \/ notifier[n].at = "committed" /\ notifier[n].upTo >= rows[w].target
            \/ notifier[n].at = "new" /\ \E s \in EntriesUnder(n) : s >= rows[w].target
    BY Zenon DEF WillFlip
  <1>2. notifier[n].upTo \in Nat /\ (notifier[n].at = "committed" => notifier[n].upTo \in EntriesUnder(n))
    BY Zenon DEF Inv, NotifierInv
  <1>3. \E s \in EntriesUnder(n) : s >= rows[w].target
    BY <1>1, <1>2, Zenon
  <1>4. CASE Notify(n)
    BY <1>0, <1>1, <1>2, <1>4, NotifyIs, Zenon
  <1>5. CASE ~Notify(n)
    <2>1. n \notin DOMAIN receipts'
      BY <1>1, <1>5, ReceiptsNext, Zenon
    <2>2. PICK s : s \in EntriesUnder(n) /\ s \in EntriesUnder(n)' /\ s >= rows[w].target
      BY <1>3, QueueNext, Zenon
    <2>3. CASE notifier'[n].at = "new"
      BY <2>1, <2>2, <2>3, Zenon DEF WillFlip
    <2>4. CASE Commit(n)
      <3>1. notifier'[n].at = "committed" /\ notifier'[n].upTo \in EntriesUnder(n)'
        BY <2>4, CommitIs, Zenon
      <3>2. notifier'[n].upTo = s
        BY <2>2, <3>1, QueueNext, Zenon DEF KeysOnce, EntriesUnder
      <3> QED  BY <2>1, <2>2, <3>1, <3>2, Zenon DEF WillFlip
    <2>5. CASE Crash
      <3>1. notifier'[n] = NewNotifier
        BY <1>1, <2>5, Zenon DEF Crash
      <3>2. NewNotifier.at = "new"
        BY Zenon DEF NewNotifier
      <3>3. notifier'[n].at = "new"
        BY <3>1, <3>2, Zenon
      <3> QED  BY <2>3, <3>3, Zenon
    <2>6. CASE notifier'[n] = notifier[n]
      BY <1>1, <2>1, <2>2, <2>3, <2>6, Zenon DEF WillFlip
    <2> QED  BY <1>1, <1>5, <2>4, <2>5, <2>6, HandsIs, NotifierOf, Zenon
  <1> QED  BY <1>4, <1>5, Zenon

\* A call that is to measure a covered row goes on to flip it.
LEMMA MeasureStays ==
    ASSUME Inv, [Next]_vars, NEW w \in WaitIds, rows[w].state = "pending", rows'[w] = rows[w],
           issued >= rows[w].target, WillMeasure(w), ~Crash
    PROVE  WillMeasure(w)'
  <1>1. PICK f \in Fibers : \/ call[f].wait = w /\ call[f].at \in {"inspect", "measure", "flip"}
                            \/ <<w, "pending">> \in call[f].todo
    BY Zenon DEF WillMeasure
  <1>2. CASE call'[f] = call[f]
    BY <1>1, <1>2, Zenon DEF WillMeasure
  <1>3. CASE Begun(f) \/ CallRegister(f)
    BY <1>1, <1>3, Zenon DEF Begun, CallRegister, Inv, CallInv, Shaped
  <1>4. ASSUME NEW a \in CallPhase, Goto(f, a), a \in {"inspect", "measure", "flip"} \/ <<w, "pending">> \in call[f].todo
        PROVE  WillMeasure(w)'
    <2>1. PICK r : call' = [call EXCEPT ![f] = r] /\ r.at = a /\ r.wait = call[f].wait /\ r.todo = call[f].todo
      <3>1. CallInv
        BY Zenon DEF Inv
      <3>2. \E r \in CallType : /\ call' = [call EXCEPT ![f] = r] /\ r.at = a
                                /\ r.sweep = call[f].sweep /\ r.wait = call[f].wait
                                /\ r.todo = call[f].todo
        BY <1>4, <3>1, GotoIs, Zenon
      <3> QED  BY <3>2, Zenon
    <2>2. call'[f] = r
      BY <2>1, Zenon DEF Inv, CallInv
    <2> QED  BY <1>1, <1>4, <2>1, <2>2, Zenon DEF WillMeasure
  <1>5. ASSUME Done(f), <<w, "pending">> \in call[f].todo
        PROVE  WillMeasure(w)'
    <2>1. PICK r : call' = [call EXCEPT ![f] = r] /\ r.todo = call[f].todo
      BY <1>5, DoneIs, Zenon DEF Inv
    <2>2. call'[f] = r
      BY <2>1, Zenon DEF Inv, CallInv
    <2> QED  BY <1>5, <2>1, <2>2, Zenon DEF WillMeasure
  <1>6. CASE CallFlip(f)
    <2>1. call[f].wait # w /\ call[f].at = "flip" /\ Goto(f, "reread")
      BY <1>6, FlipIs, Zenon DEF CallFlip
    <2>2. "reread" \in CallPhase /\ <<w, "pending">> \in call[f].todo
      BY <1>1, <2>1, Zenon DEF CallPhase
    <2> QED  BY <1>4, <2>1, <2>2, Zenon
  <1>7. CASE CallMeasure(f)
    <2>1. CASE call[f].wait = w
      <3>1. Covered(w)
        BY WrittenIsIssued, Zenon DEF Covered, HighWater, Inv, QueueInv
      <3>2. Goto(f, "flip") /\ "flip" \in CallPhase
        BY <1>7, <2>1, <3>1, Zenon DEF CallMeasure, CallPhase
      <3> QED  BY <1>4, <3>2, Zenon
    <2>2. CASE call[f].wait # w
      <3>1. PICK a \in {"flip", "enroll"} : Goto(f, a)
        BY <1>7, Zenon DEF CallMeasure
      <3> QED  BY <1>1, <1>4, <2>2, <3>1, Zenon DEF CallPhase
    <2> QED  BY <2>1, <2>2, Zenon
  <1>8. CASE CallInspect(f)
    <2>1. CASE call[f].wait = w /\ call[f].at = "inspect"
      <3>1. Goto(f, "measure") /\ "measure" \in CallPhase
        BY <1>8, <2>1, Zenon DEF CallInspect, RowRead, CallPhase
      <3> QED  BY <1>4, <3>1, Zenon
    <2>2. CASE ~(call[f].wait = w /\ call[f].at = "inspect")
      <3>1. <<w, "pending">> \in call[f].todo
        BY <1>1, <1>8, <2>2, Zenon DEF CallInspect
      <3>2. Done(f) \/ \E a \in CallPhase : Goto(f, a)
        BY <1>8, Zenon DEF CallInspect, CallPhase
      <3> QED  BY <1>4, <1>5, <3>1, <3>2, Zenon
    <2> QED  BY <2>1, <2>2, Zenon
  <1>9. CASE CallConsume(f) \/ CallEnroll(f)
    BY <1>1, <1>5, <1>9, Zenon DEF CallConsume, CallEnroll
  <1>10. CASE SweepNext(f)
    <2>1. <<w, "pending">> \in call[f].todo
      BY <1>1, <1>10, Zenon DEF SweepNext
    <2>2. PICK r, v, s : /\ call' = [call EXCEPT ![f] = r]
                         /\ r.todo = call[f].todo \ {<<v, s>>} /\ r.wait = v
                         /\ r.at = (IF s = "pending" THEN "measure" ELSE IF s = "woken" THEN "consume" ELSE "next")
      BY <1>10, <2>1, CallSweeps, Zenon
    <2>3. call'[f] = r
      BY <2>2, Zenon DEF Inv, CallInv
    <2>4. CASE <<w, "pending">> = <<v, s>>
      BY <2>2, <2>3, <2>4, Zenon DEF WillMeasure
    <2>5. CASE <<w, "pending">> # <<v, s>>
      BY <2>1, <2>2, <2>3, <2>5, Zenon DEF WillMeasure
    <2> QED  BY <2>4, <2>5, Zenon
  <1> QED  BY <1>2, <1>3, <1>6, <1>7, <1>8, <1>9, <1>10, CallOf, Zenon DEF Walks

LEMMA CoverNext ==
    ASSUME Inv, CoverInv, [Next]_vars
    PROVE  CoverInv'
  <1> SUFFICES ASSUME NEW w \in WaitIds, rows'[w].state = "pending", issued' >= rows'[w].target
               PROVE  \/ WillFlip(w)' \/ WillMeasure(w)'
                      \/ (restarted' /\ \A f \in Fibers : <<w, f>> \notin armed')
    BY Zenon DEF CoverInv, PendingRows
  <1>0. issued \in Nat /\ rows[w].target \in Nat
    BY QueueNext, Zenon DEF Inv, RowInv
  <1>1. ASSUME NEW f \in Fibers, call[f].wait = w, Goto(f, "inspect")
        PROVE  WillMeasure(w)'
    <2>1. PICK r : call' = [call EXCEPT ![f] = r] /\ r.at = "inspect" /\ r.wait = call[f].wait
      BY <1>1, GotoIs DEF Inv, CallPhase
    <2>2. call'[f] = r
      BY <2>1, Zenon DEF Inv, CallInv
    <2> QED  BY <1>1, <2>1, <2>2, Zenon DEF WillMeasure
  <1>2. CASE rows'[w] # rows[w]
    BY <1>1, <1>2, RowOf, Zenon
  <1>3. CASE rows'[w] = rows[w] /\ ~(issued >= rows[w].target)
    <2>1. PICK n \in NotifyKeys : Commit(n)
      BY <1>3, ChannelNext, Zenon DEF channelVars
    <2>2. issued' = issued + 1 /\ EntriesUnder(n) = {} /\ notifier'[n].upTo = issued + 1 /\ notifier'[n].at = "committed"
      BY <1>3, <2>1, CommitIs, Zenon
    <2>3. n \notin DOMAIN receipts'
      BY <2>1, <2>2, Zenon DEF Commit, rowVars, Inv, NotifierInv
    <2> QED  BY <1>3, <2>2, <2>3, Zenon DEF WillFlip
  <1>4. CASE rows'[w] = rows[w] /\ issued >= rows[w].target
    <2>1. CASE WillFlip(w)
      BY <1>4, <2>1, FlipStays, Zenon
    <2>2. CASE Crash
      BY <2>2, Zenon DEF Crash
    <2>3. CASE WillMeasure(w) /\ ~Crash
      BY <1>4, <2>3, MeasureStays, Zenon
    <2>4. CASE restarted /\ (\A f \in Fibers : <<w, f>> \notin armed) /\ ~Crash
      <3>1. restarted'
        BY <2>4, ArmedOf, Zenon
      <3>2. CASE armed' = armed
        BY <2>4, <3>1, <3>2, Zenon
      <3>3. ASSUME NEW f \in Fibers, CallRegister(f)
            PROVE  WillMeasure(w)' \/ \A g \in Fibers : <<w, g>> \notin armed'
        <4>1. CASE armed' = armed
          BY <2>4, <4>1, Zenon
        <4>2. CASE armed' = armed \cup {<<call[f].wait, f>>} /\ Goto(f, "inspect")
          <5>1. CASE call[f].wait = w
            BY <1>1, <4>2, <5>1, Zenon
          <5>2. CASE call[f].wait # w
            BY <2>4, <4>2, <5>2, Zenon
          <5> QED  BY <5>1, <5>2, Zenon
        <4> QED  BY <3>3, <4>1, <4>2, CallRegisters, Zenon
      <3>4. ASSUME NEW f \in Fibers, Begun(f)
            PROVE  WillMeasure(w)' \/ \A g \in Fibers : <<w, g>> \notin armed'
        <4>1. PICK r : /\ call' = [call EXCEPT ![f] = r] /\ \A k \in armed' \ armed : k[2] = f
                       /\ <<w, f>> \in armed' \ armed /\ rows[w].state = "pending" => <<w, "pending">> \in r.todo
          BY <3>4, Zenon DEF Begun
        <4>2. call'[f] = r
          BY <4>1, Zenon DEF Inv, CallInv
        <4>3. CASE <<w, f>> \in armed'
          BY <1>4, <2>4, <4>1, <4>2, <4>3, Zenon DEF WillMeasure
        <4>4. CASE <<w, f>> \notin armed'
          BY <2>4, <4>1, <4>4
        <4> QED  BY <4>3, <4>4, Zenon
      <3> QED  BY <2>4, <3>1, <3>2, <3>3, <3>4, ArmedOf, Zenon
    <2> QED  BY <1>4, <2>1, <2>2, <2>3, <2>4, Zenon DEF CoverInv, PendingRows
  <1> QED  BY <1>2, <1>3, <1>4, Zenon

LEMMA CoveredAreFlipped ==
    ASSUME Inv, CoverInv
    PROVE  CoveredRowIsFlipped
  <1>1. HighWater = issued
    BY WrittenIsIssued, Zenon DEF HighWater, Inv, QueueInv
  <1>2. \A w \in WaitIds : WillFlip(w) => WillNotify(w)
    BY Zenon DEF WillFlip, WillNotify
  <1> QED  BY <1>1, <1>2, Zenon DEF CoverInv, CoveredRowIsFlipped, PendingRows

LEMMA TidingsStart ==
    ASSUME Init
    PROVE  Tidings /\ CoverInv
  <1>1. /\ registry = [k \in WaitKeys |-> "none"] /\ future = [k \in WaitKeys |-> "none"]
        /\ told = {} /\ \A w \in WaitIds : rows[w].state = "none"
    BY Zenon DEF Init, WaitInit, NoRow
  <1> QED  BY <1>1, Zenon DEF Tidings, CoverInv, PendingRows

-----------------------------------------------------------------------------
(* Theorems.                                                               *)

LEMMA InvHolds == Spec => []Inv
  BY InvStarts, InvNext, PTL DEF Spec

LEMMA TidingsHold == Spec => []Tidings
  BY TidingsStart, TidingsNext, InvHolds, PTL DEF Spec

\* Wakes are accounted once: a row that is WOKEN is in exactly one receipt, with
\* the sequence that receipt reports, and every receipt's records are rows that
\* are WOKEN, whatever is notified, replayed and cancelled (notify_channel).
THEOREM WakesStayAccounted == Spec => []WakesAccounted
  <1>1. Inv => WakesAccounted
    BY RowInvAccounts, Zenon DEF Inv
  <1> QED  BY <1>1, InvHolds, PTL

\* A caller is told Woken only when its row is durably WOKEN and the sequence
\* it waits for was committed, whichever way it learns so: by reading the row,
\* by its own flip, from the buffer or from its future (wait_for_channel).
THEOREM ToldStaysCommitted == Spec => []ToldOnlyCommitted
  BY ToldAreCommitted, InvHolds, TidingsHold, PTL

\* No commit is missed: while a committed sequence covers a pending row, a
\* notifier has still to notify it, a call has still to measure it, or the
\* process restarted and nobody armed the row since (the flip of
\* wait_for_channel and the sweeps).
THEOREM CoveredStaysFlipped == Spec => []CoveredRowIsFlipped
  <1>1. Spec => []CoverInv
    BY TidingsStart, CoverNext, InvHolds, PTL DEF Spec
  <1> QED  BY <1>1, CoveredAreFlipped, InvHolds, PTL

=============================================================================
