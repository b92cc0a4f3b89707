----------------------------- MODULE ChannelWait -----------------------------
(***************************************************************************)
(* Waiting for a Channel sequence (nlos-runtime-tokio/src/channel_wait.rs  *)
(* and replay.rs): the in-memory registry that mirrors the durable wait    *)
(* rows, its bounded buffer of early wakes, the calls that arm a wait      *)
(* (wait_for_channel, rearm_channel_waits, resume_binding), and the        *)
(* notifiers that commit an entry, flip the rows it covers and deliver the *)
(* report (NotificationService::publish of nlos-notify, then               *)
(* TokioChannelWakeSink::deliver).                                         *)
(*                                                                         *)
(* The calls are synchronous, but they take several transactions and one   *)
(* registry lock, and everything else may run between any two of them.  A  *)
(* crash keeps the Channel and the rows and loses the registry, the fibers *)
(* and the calls under way; a notifier cut off starts over under its key.  *)
(*                                                                         *)
(* Abstractions: a binding is run by one fiber, so the fiber stands for    *)
(* both.  A key <<w, f>> has one future slot, which follows its latest     *)
(* future: an earlier one was superseded, and its only effect left is to   *)
(* resolve.  A ready future resolves in the step that returns it.          *)
(* FiberState and the health counters are left out, and so are the         *)
(* incarnation gate of resume_binding and its report-only events.          *)
(***************************************************************************)
EXTENDS WaitRegistry, Sequences

CONSTANTS
  Fibers,          \* FiberHandle, and the binding it runs
  Targets,         \* target sequences asked for
  OrphanCapacity,  \* orphan_buffer_capacity
  MaxCalls,        \* bound on arming calls
  MaxDisturbances, \* bound on everything below that uses Disturb
  MaxEvents,       \* bound on disturbances and committed entries together
  Nobody           \* the fiber of an orphaned key

ASSUME WaitBoundAssumption ==
  /\ {OrphanCapacity, MaxCalls, MaxDisturbances, MaxEvents} \subseteq Nat
  /\ Targets \subseteq Nat \ {0}
  /\ Nobody \notin Fibers

VARIABLES
  runtime,    \* Inner.shutdown and the progress of shutdown()
  fiber,      \* the fiber registry
  cancelled,  \* fibers whose CancellationScope is cancelled
  registry,   \* ChannelWaitRegistry.map, by wait and fiber
  order,      \* ChannelWaitRegistry.orphan_order
  future,     \* the ChannelSequenceWait taken out, by wait and fiber
  call,       \* the arming call each fiber is in
  notifier,   \* the notifiers
  told,       \* history: waits for which some caller was told Woken
  armed,      \* history: the keys arming calls of this process went over
  dropped,    \* history: waits whose buffered wake was dropped
  taken,      \* history: waits whose wake some caller of this process took
  restarted,  \* history: the process has been restarted
  used        \* how much of each bound is used up

fiberVars == <<runtime, fiber, cancelled>>
registryVars == <<registry, order, future>>
historyVars == <<told, armed, dropped, taken, restarted>>
vars == <<channelVars, rowVars, fiberVars, registryVars, call, notifier, historyVars, used>>

WaitKeys == WaitIds \X (Fibers \cup {Nobody})
Orphaned(w) == <<w, Nobody>>

Idle == [at |-> "idle", sweep |-> FALSE, wait |-> Nobody, target |-> 0, todo |-> {}]
NewNotifier == [at |-> "new", upTo |-> 0, todo |-> {}]

CallPhase == {"idle", "register", "inspect", "measure", "flip", "reread", "consume", "enroll", "next"}

TypeOK ==
  /\ runtime \in {"up", "flagged", "down"}
  /\ fiber \in [Fibers -> {"absent", "running", "terminal"}]
  /\ cancelled \subseteq Fibers
  /\ registry \in [WaitKeys -> {"none", "pending", "buffered"}]
  /\ order \in Seq(WaitIds) /\ Len(order) <= OrphanCapacity
  /\ future \in [WaitKeys -> {"none", "pending", "dropped", "fired", "closed"}]
  /\ \A f \in Fibers : call[f].at \in CallPhase
  /\ armed \subseteq WaitKeys
  /\ told \cup dropped \cup taken \subseteq WaitIds

Init ==
  /\ ChannelInit
  /\ WaitInit
  /\ runtime = "up"
  /\ fiber = [f \in Fibers |-> "absent"]
  /\ cancelled = {}
  /\ registry = [k \in WaitKeys |-> "none"]
  /\ order = <<>>
  /\ future = [k \in WaitKeys |-> "none"]
  /\ call = [f \in Fibers |-> Idle]
  /\ notifier = [n \in NotifyKeys |-> NewNotifier]
  /\ told = {} /\ armed = {} /\ dropped = {} /\ taken = {} /\ restarted = FALSE
  /\ used = [calls |-> 0, disturbances |-> 0, events |-> 0]

\* Cancellations, terminations, dropped futures, repeated deliveries, shutdown
\* and crashes share one bound.
Disturb ==
  /\ used.disturbances < MaxDisturbances
  /\ used.events < MaxEvents
  /\ used' = [used EXCEPT !.disturbances = @ + 1, !.events = @ + 1]

\* Some key of wait w is in the given state; the code takes any of them.
KeysOf(w, state) == {k \in WaitKeys : k[1] = w /\ registry[k] = state}

\* Dropping the senders of the given keys closes the futures that wait on them.
CloseSenders(S) ==
  [k \in WaitKeys |-> IF k \in S /\ future[k] = "pending" THEN "closed"
                      ELSE IF k \in S /\ future[k] = "dropped" THEN "none" ELSE future[k]]

(***************************************************************************)
(* Faulty variants; no action uses them.                                   *)
(***************************************************************************)
\* remove leaves the age slot behind.
OrderKept(k) == order

\* The critical section does not look for a buffered wake.
IgnoresBuffer(w) == {}

\* A row is armed without asking how far the Channel has come.
NeverCovered(w) == FALSE

\* The flip is taken for granted and the row not read again.
TakenForWoken(w) == "woken"

(***************************************************************************)
(* ChannelWaitRegistry: what becomes of the map and of the age order.      *)
(***************************************************************************)
\* remove: an orphaned key gives up its age slot with its entry.
OrderWithout(k) ==
  LET slots == {i \in DOMAIN order : order[i] = k[1]}
      first == Min(slots)
  IN  IF k # Orphaned(k[1]) \/ slots = {} THEN order
      ELSE [i \in 1..(Len(order) - 1) |-> IF i < first THEN order[i] ELSE order[i + 1]]

\* retain: one pass over the age slots, oldest first.
Retained(reg) ==
  LET kept[i \in 0..Len(order)] ==
        IF i = 0 THEN <<>>
        ELSE IF reg[Orphaned(order[i])] # "none" THEN Append(kept[i - 1], order[i]) ELSE kept[i - 1]
  IN  kept[Len(order)]

\* buffer_orphan: none at capacity zero, else the oldest make room.
Evicted(w) ==
  IF OrphanCapacity = 0 THEN {w}
  ELSE {order[i] : i \in 1..(Len(order) - OrphanCapacity + 1)}

BufferedOrder(w) ==
  IF OrphanCapacity = 0 THEN order
  ELSE Append(SubSeq(order, Cardinality(Evicted(w)) + 1, Len(order)), w)

(***************************************************************************)
(* Fibers and the runtime.                                                 *)
(***************************************************************************)
Spawn(f) ==
  /\ runtime = "up"
  /\ fiber[f] = "absent"
  /\ fiber' = [fiber EXCEPT ![f] = "running"]
  /\ UNCHANGED <<channelVars, rowVars, runtime, cancelled, registryVars, call, notifier, historyVars, used>>

CancelScope(f) ==
  /\ Disturb
  /\ fiber[f] = "running"
  /\ f \notin cancelled
  /\ cancelled' = cancelled \cup {f}
  /\ UNCHANGED <<channelVars, rowVars, runtime, fiber, registryVars, call, notifier, historyVars>>

\* The end of run_fiber: one critical section for the terminal state and the
\* purge of the fiber's keys.
Finish(f) ==
  LET mine == {k \in WaitKeys : k[2] = f} IN
  /\ Disturb
  /\ fiber[f] = "running"
  /\ fiber' = [fiber EXCEPT ![f] = "terminal"]
  /\ registry' = [k \in WaitKeys |-> IF k \in mine THEN "none" ELSE registry[k]]
  /\ order' = Retained(registry')
  /\ future' = CloseSenders(mine)
  /\ UNCHANGED <<channelVars, rowVars, runtime, cancelled, call, notifier, historyVars>>

ShutdownFlag ==
  /\ Disturb
  /\ runtime = "up"
  /\ runtime' = "flagged"
  /\ UNCHANGED <<channelVars, rowVars, fiber, cancelled, registryVars, call, notifier, historyVars>>

ShutdownClear ==
  /\ runtime = "flagged"
  /\ runtime' = "down"
  /\ registry' = [k \in WaitKeys |-> "none"]
  /\ order' = <<>>
  /\ future' = CloseSenders(WaitKeys)
  /\ UNCHANGED <<channelVars, rowVars, fiber, cancelled, call, notifier, historyVars, used>>

(***************************************************************************)
(* The arming calls.  wait_for_channel registers the row, reads it back,   *)
(* and flips it itself when the Channel has already come far enough; a     *)
(* sweep (rearm_channel_waits, resume_binding) goes over rows it listed.   *)
(***************************************************************************)
MayArm(f) == fiber[f] = "running" /\ f \notin cancelled

\* What the three calls have in common: one at a time for a fiber.
StartCall(f) ==
  /\ call[f].at = "idle"
  /\ runtime = "up"
  /\ MayArm(f)
  /\ used.calls < MaxCalls
  /\ used' = [used EXCEPT !.calls = @ + 1]

Goto(f, at) == call' = [call EXCEPT ![f].at = at]
Done(f) == call' = [call EXCEPT ![f] = IF call[f].sweep THEN [@ EXCEPT !.at = "next"] ELSE Idle]

\* The gates of wait_for_channel; refused, it has no effect.
WaitForChannel(f, w, target) ==
  /\ StartCall(f)
  /\ call' = [call EXCEPT ![f] = [Idle EXCEPT !.at = "register", !.wait = w, !.target = target]]
  /\ UNCHANGED <<channelVars, rowVars, fiberVars, registryVars, notifier, historyVars>>

CallRegister(f) ==
  /\ call[f].at = "register"
  /\ RegisterWait(call[f].wait, f, call[f].target)
  /\ IF RegisterVerdict(call[f].wait, f, call[f].target) = "conflict"
     THEN Done(f) /\ UNCHANGED armed
     ELSE Goto(f, "inspect") /\ armed' = armed \cup {<<call[f].wait, f>>}
  /\ UNCHANGED <<channelVars, fiberVars, registryVars, notifier, told, dropped, taken, restarted, used>>

\* The gates of rearm_channel_waits and its listing: every row there is.
RearmChannelWaits(f) ==
  /\ StartCall(f)
  /\ call' = [call EXCEPT ![f] = [Idle EXCEPT !.at = "next", !.sweep = TRUE,
                                  !.todo = {<<w, rows[w].state>> : w \in Listed}]]
  /\ armed' = armed \cup (Listed \X {f})
  /\ UNCHANGED <<channelVars, rowVars, fiberVars, registryVars, notifier, told, dropped, taken, restarted>>

\* resume_binding: the pending rows of the binding that the plan names.
ResumeBinding(f, plan) ==
  /\ StartCall(f)
  /\ plan \subseteq {w \in PendingRows : rows[w].fiber = f}
  /\ call' = [call EXCEPT ![f] = [Idle EXCEPT !.at = "next", !.sweep = TRUE,
                                  !.todo = {<<w, "pending">> : w \in plan}]]
  /\ armed' = armed \cup (plan \X {f})
  /\ UNCHANGED <<channelVars, rowVars, fiberVars, registryVars, notifier, told, dropped, taken, restarted>>

\* The loop of a sweep, and the match of arm_durable_row on the listed state.
SweepNext(f) ==
  /\ call[f].at = "next"
  /\ \/ /\ call[f].todo = {}
        /\ call' = [call EXCEPT ![f] = Idle]
     \/ \E row \in call[f].todo :
          call' = [call EXCEPT ![f].todo = @ \ {row}, ![f].wait = row[1],
                               ![f].at = CASE row[2] = "cancelled" -> "next"
                                           [] row[2] = "woken" -> "consume"
                                           [] row[2] = "pending" -> "measure"]
  /\ UNCHANGED <<channelVars, rowVars, fiberVars, registryVars, notifier, historyVars, used>>

\* inspect_wait, before the flip and after it.
RowRead(w) == rows[w].state

CallInspect(f) ==
  LET w == call[f].wait IN
  /\ call[f].at \in {"inspect", "reread"}
  /\ \/ /\ RowRead(w) = "woken"
        /\ IF call[f].sweep
           THEN Goto(f, "consume") /\ UNCHANGED told
           ELSE Done(f) /\ told' = told \cup {w}
     \/ /\ RowRead(w) = "cancelled"
        /\ Done(f)
        /\ UNCHANGED told
     \/ /\ RowRead(w) = "pending"
        /\ Goto(f, IF call[f].at = "inspect" THEN "measure" ELSE "enroll")
        /\ UNCHANGED told
  /\ UNCHANGED <<channelVars, rowVars, fiberVars, registryVars, notifier, armed, dropped, taken, restarted, used>>

Covered(w) == HighWater >= rows[w].target

CallMeasure(f) ==
  /\ call[f].at = "measure"
  /\ Goto(f, IF Covered(call[f].wait) THEN "flip" ELSE "enroll")
  /\ UNCHANGED <<channelVars, rowVars, fiberVars, registryVars, notifier, historyVars, used>>

\* The self-flip; the report it gets is not used.
CallFlip(f) ==
  LET w == call[f].wait IN
  /\ call[f].at = "flip"
  /\ NotifyCommits(SelfNotifyKey(w), rows[w].target)
  /\ Goto(f, "reread")
  /\ UNCHANGED <<channelVars, fiberVars, registryVars, notifier, historyVars, used>>

\* consume_channel_buffer, for a row that is WOKEN.
CallConsume(f) ==
  LET w == call[f].wait IN
  /\ call[f].at = "consume"
  /\ \/ /\ KeysOf(w, "buffered") = {}
        /\ UNCHANGED <<registry, order, taken>>
     \/ \E k \in KeysOf(w, "buffered") :
          /\ registry' = [registry EXCEPT ![k] = "none"]
          /\ order' = OrderWithout(k)
          /\ taken' = taken \cup {w}
  /\ told' = told \cup {w}
  /\ Done(f)
  /\ UNCHANGED <<channelVars, rowVars, fiberVars, future, notifier, armed, dropped, restarted, used>>

\* A wake that raced the reads of the row and is buffered by now.
RacedBuffer(w) == KeysOf(w, "buffered")

\* The critical section: nothing for a fiber that is done, a buffered wake
\* consumed, or the wait pending, in place of an earlier one under the key.
CallEnroll(f) ==
  LET w == call[f].wait IN
  /\ call[f].at = "enroll"
  /\ \/ /\ ~MayArm(f)
        /\ UNCHANGED <<registryVars, told, taken>>
     \/ \E k \in RacedBuffer(w) :
          /\ MayArm(f)
          /\ registry' = [registry EXCEPT ![k] = "none"]
          /\ order' = OrderWithout(k)
          /\ taken' = taken \cup {w}
          /\ told' = told \cup {w}
          /\ UNCHANGED future
     \/ /\ MayArm(f)
        /\ RacedBuffer(w) = {}
        /\ registry' = [registry EXCEPT ![<<w, f>>] = "pending"]
        /\ future' = [future EXCEPT ![<<w, f>>] = "pending"]
        /\ UNCHANGED <<order, told, taken>>
  /\ Done(f)
  /\ UNCHANGED <<channelVars, rowVars, fiberVars, notifier, armed, dropped, restarted, used>>

(***************************************************************************)
(* The future.                                                             *)
(***************************************************************************)
\* The scope is seen cancelled first: the registration goes by its key.
PollCancelled(k) ==
  /\ future[k] \in {"pending", "fired", "closed"}
  /\ k[2] \in cancelled
  /\ registry' = [registry EXCEPT ![k] = IF @ = "pending" THEN "none" ELSE @]
  /\ order' = OrderWithout(k)
  /\ future' = [future EXCEPT ![k] = "none"]
  /\ UNCHANGED told

PollReady(k) ==
  /\ future[k] \in {"fired", "closed"}
  /\ future' = [future EXCEPT ![k] = "none"]
  /\ told' = IF future[k] = "fired" THEN told \cup {k[1]} ELSE told
  /\ UNCHANGED <<registry, order>>

\* Dropped unpolled: a pending one leaves its sender in the registry.
DropFuture(k) ==
  /\ future[k] \in {"pending", "fired"}
  /\ future' = [future EXCEPT ![k] = IF @ = "pending" THEN "dropped" ELSE "none"]
  /\ UNCHANGED <<registry, order, told>>

Poll(k) ==
  /\ PollCancelled(k) \/ PollReady(k)
  /\ UNCHANGED <<channelVars, rowVars, fiberVars, call, notifier, armed, dropped, taken, restarted, used>>

Drop(k) ==
  /\ DropFuture(k)
  /\ Disturb
  /\ UNCHANGED <<channelVars, rowVars, fiberVars, call, notifier, armed, dropped, taken, restarted>>

(***************************************************************************)
(* The notifiers.  The commit, the notification and each delivered record  *)
(* are steps of their own; a replay of the commit or of the notification   *)
(* answers as the first call did.                                          *)
(***************************************************************************)
Commit(n) ==
  /\ notifier[n].at = "new"
  /\ EnqueuedAt(n) <= MaxSequence
  /\ IF EntriesUnder(n) = {}
     THEN used.events < MaxEvents /\ used' = [used EXCEPT !.events = @ + 1]
     ELSE UNCHANGED used
  /\ Enqueue(n, 1, 1, n)
  /\ EnqueueVerdict(n, 1, 1, n) \in {"enqueued", "replayed"}
  /\ notifier' = [notifier EXCEPT ![n].at = "committed", ![n].upTo = EnqueuedAt(n)]
  /\ UNCHANGED <<rowVars, fiberVars, registryVars, call, historyVars>>

Notify(n) ==
  /\ notifier[n].at = "committed"
  /\ NotifyCommits(n, notifier[n].upTo)
  /\ notifier' = [notifier EXCEPT ![n].at = "notified", ![n].todo = Report(n, notifier[n].upTo)]
  /\ UNCHANGED <<channelVars, fiberVars, registryVars, call, historyVars, used>>

\* deliver looks at the shutdown flag once, before the first record.
DeliverStart(n) ==
  /\ notifier[n].at = "notified"
  /\ notifier' = [notifier EXCEPT ![n].at = IF runtime # "up" THEN "refused"
                                            ELSE IF notifier[n].todo = {} THEN "done" ELSE "deliver"]
  /\ UNCHANGED <<channelVars, rowVars, fiberVars, registryVars, call, historyVars, used>>

\* One record, under the registry lock: taken to a pending wait of the row,
\* buffered again under its key when nobody receives it any more, or buffered
\* as an orphan when no wake of the row is buffered yet.
Hand(k) ==
  /\ registry' = [registry EXCEPT ![k] = IF future[k] = "pending" THEN "none" ELSE "buffered"]
  /\ future' = [future EXCEPT ![k] = IF @ = "pending" THEN "fired" ELSE "none"]
  /\ taken' = IF future[k] = "pending" THEN taken \cup {k[1]} ELSE taken
  /\ UNCHANGED <<order, dropped>>

BufferOrphan(w) ==
  /\ registry' = [k \in WaitKeys |-> IF k \in {Orphaned(v) : v \in Evicted(w)} THEN "none"
                                     ELSE IF k = Orphaned(w) /\ OrphanCapacity > 0 THEN "buffered"
                                     ELSE registry[k]]
  /\ order' = BufferedOrder(w)
  /\ dropped' = dropped \cup Evicted(w)
  /\ UNCHANGED <<future, taken>>

DeliverOne(n, w) ==
  /\ notifier[n].at = "deliver"
  /\ w \in notifier[n].todo
  /\ \/ \E k \in KeysOf(w, "pending") : Hand(k)
     \/ /\ KeysOf(w, "pending") = {}
        /\ KeysOf(w, "buffered") = {}
        /\ BufferOrphan(w)
     \/ /\ KeysOf(w, "pending") = {}
        /\ KeysOf(w, "buffered") # {}
        /\ UNCHANGED <<registryVars, dropped, taken>>
  /\ notifier' = [notifier EXCEPT ![n].todo = @ \ {w},
                                  ![n].at = IF notifier[n].todo = {w} THEN "done" ELSE "deliver"]
  /\ UNCHANGED <<channelVars, rowVars, fiberVars, call, told, armed, restarted, used>>

\* The consumer is at-least-once: it may notify and deliver again.
Redeliver(n) ==
  /\ notifier[n].at = "done"
  /\ Disturb
  /\ notifier' = [notifier EXCEPT ![n].at = "committed"]
  /\ UNCHANGED <<channelVars, rowVars, fiberVars, registryVars, call, historyVars>>

\* cancel_wait, by whoever owns the wait.
CancelRow(w) ==
  /\ Disturb
  /\ CancelWait(w)
  /\ UNCHANGED <<channelVars, fiberVars, registryVars, call, notifier, historyVars>>

Crash ==
  /\ Disturb
  /\ runtime' = "up"
  /\ fiber' = [f \in Fibers |-> "absent"]
  /\ cancelled' = {}
  /\ registry' = [k \in WaitKeys |-> "none"]
  /\ order' = <<>>
  /\ future' = [k \in WaitKeys |-> "none"]
  /\ call' = [f \in Fibers |-> Idle]
  /\ notifier' = [n \in NotifyKeys |->
                    IF notifier[n].at = "done" THEN notifier[n] ELSE NewNotifier]
  /\ armed' = {}
  /\ dropped' = {}
  /\ taken' = {}
  /\ restarted' = TRUE
  /\ UNCHANGED <<channelVars, rowVars, told>>

CallStep(f) ==
  CallRegister(f) \/ SweepNext(f) \/ CallInspect(f) \/ CallMeasure(f) \/ CallFlip(f)
    \/ CallConsume(f) \/ CallEnroll(f)

NotifierStep(n) ==
  Commit(n) \/ Notify(n) \/ DeliverStart(n) \/ (\E w \in WaitIds : DeliverOne(n, w))

Next ==
  \/ \E f \in Fibers : Spawn(f) \/ CancelScope(f) \/ Finish(f) \/ RearmChannelWaits(f) \/ CallStep(f)
  \/ \E f \in Fibers, w \in WaitIds, t \in Targets : WaitForChannel(f, w, t)
  \/ \E f \in Fibers : \E plan \in SUBSET PendingRows : ResumeBinding(f, plan)
  \/ \E k \in WaitKeys : Poll(k) \/ Drop(k)
  \/ \E n \in NotifyKeys : NotifierStep(n) \/ Redeliver(n)
  \/ \E w \in WaitIds : CancelRow(w)
  \/ ShutdownFlag \/ ShutdownClear \/ Crash

Spec == Init /\ [][Next]_vars

-----------------------------------------------------------------------------
(* Properties.                                                             *)

\* The age order of the orphan buffer is exact: it lists each orphaned
\* buffered wake once and nothing else, within capacity, whatever remove,
\* retain, clear and eviction did (ChannelWaitRegistry's invariant).
OrphansExact ==
  /\ TypeOK /\ IsInjective(order)
  /\ Range(order) = {w \in WaitIds : registry[Orphaned(w)] = "buffered"}

\* A caller is told Woken only when the row is durably WOKEN and its target
\* was committed to the Channel, whether it learns so from the row, from its
\* own flip, from a buffered wake or from its future.
ToldOnlyCommitted ==
  \A w \in told : rows[w].state = "woken" /\ rows[w].target <= issued

\* A notifier that has still to notify a sequence the row is covered by.
WillNotify(w) ==
  \E n \in NotifyKeys :
    \/ notifier[n].at = "committed" /\ notifier[n].upTo >= rows[w].target
    \/ /\ notifier[n].at = "new"
       /\ \E s \in EntriesUnder(n) : s >= rows[w].target

\* An arming call that has still to compare the row with the Channel.
WillMeasure(w) ==
  \E f \in Fibers :
    \/ call[f].wait = w /\ call[f].at \in {"inspect", "measure", "flip"}
    \/ <<w, "pending">> \in call[f].todo

\* No commit is missed: a row the Channel already covers stays PENDING only
\* while somebody is still about to flip it, or until the first sweep of a
\* restarted process.  wait_for_channel registers the row before it reads the
\* high-water, and a notifier commits before it notifies; either order of the
\* two leaves one of them to see the other.
CoveredRowIsFlipped ==
  \A w \in PendingRows :
    HighWater >= rows[w].target => WillNotify(w) \/ WillMeasure(w) \/ (restarted /\ \A f \in Fibers : <<w, f>> \notin armed)

\* A notifier that has this wake in hand, or will have it in its report.
Carries(n, w) ==
  \/ notifier[n].at \in {"notified", "deliver"} /\ w \in notifier[n].todo
  \/ /\ notifier[n].at \in {"new", "committed"}
     /\ n \in DOMAIN receipts
     /\ w \in receipts[n].woken

\* A wait that pends although its row is WOKEN and nobody brings it the wake.
Stranded(k) ==
  /\ registry[k] = "pending" /\ future[k] = "pending"
  /\ rows[k[1]].state = "woken"
  /\ runtime = "up"
  /\ \A n \in NotifyKeys : ~Carries(n, k[1])

SelfFlipped(w) == \E v \in WaitIds :
  SelfNotifyKey(v) \in DOMAIN receipts /\ w \in receipts[SelfNotifyKey(v)].woken

\* The wakes notifiers bring arrive: a wait is stranded only when its row was
\* flipped by an arming call, whose report nobody delivers, when its early
\* wake was dropped by the bounded buffer, or when the same wake was taken
\* by another arming call for it meanwhile.  In particular no
\* interleaving of notify_commits and deliver with the reads and the critical
\* section of an arming call loses a wake.
WakeReachesItsWait ==
  \A k \in WaitKeys :
    Stranded(k) => \/ SelfFlipped(k[1])
                   \/ k[1] \in dropped \cup taken
                   \/ \E f \in Fibers \ {k[2]} : <<k[1], f>> \in armed

=============================================================================
