---------------------------- MODULE WakeDelivery ----------------------------
(***************************************************************************)
(* The delivery loop behind the durable outbox: the pump threads           *)
(* (nlos-runtime-tokio/src/pump.rs) that drain the ledger through          *)
(* OutboxConsumer::drain_once (nlos-outbox), the wake sink and the wait    *)
(* registry of the runtime (nlos-runtime-tokio/src/wake.rs), and the       *)
(* reconcile sink that parks a poison entry (nlos-slice-k/src/pump.rs).    *)
(*                                                                         *)
(* The store is OutboxLedger, which OperationStore implements; each of its *)
(* transactions is one atomic step.  The pump polls a batch, and applies   *)
(* and acknowledges its entries one by one while commits, cancellations,   *)
(* registrations, shutdown and a second pump go on around it.  A crash     *)
(* keeps the ledger and loses everything else.                             *)
(*                                                                         *)
(* Abstractions: a wait is for an Operation on behalf of its owner fiber,  *)
(* so the WaitKey is the Operation.  Hints, poll intervals and back-off    *)
(* decide when an idle pump drains again, which the model leaves open.     *)
(* FiberState and usage metering are left out.  A panic of the consumer    *)
(* counts as a failed read, as drain_guarded makes it.                     *)
(***************************************************************************)
EXTENDS OutboxLedger, FiniteSetsExt

CONSTANTS
  Fibers,            \* FiberHandle (id and generation)
  Owner,             \* owner_fiber of each operation
  Waits,             \* OperationWait futures
  Pumps,             \* pump threads, each started at most once per process
  Routable,          \* operations whose late outcome the task authority takes
  BatchLimit,        \* ConsumerConfig.batch_limit
  ParkThreshold,     \* park_threshold of the lane
  FailureThreshold,  \* PumpConfig.failure_threshold
  MaxFaults,         \* bound on storage and clock faults
  MaxUnparks,        \* bound on manual unparks
  MaxCrashes,        \* bound on crashes of the process
  None

\* None, the buffered mark, a sender and an Operation are told apart.
ASSUME NoneAssumption ==
  /\ None \notin Operations \cup Pumps \cup Waits
  /\ "buffered" \notin Waits \cup {None}
ASSUME OwnerAssumption == Owner \in [Operations -> Fibers]
ASSUME BoundAssumption ==
  /\ BatchLimit \in Nat \ {0}
  /\ {ParkThreshold, FailureThreshold, MaxFaults, MaxUnparks, MaxCrashes} \subseteq Nat

VARIABLES
  runtime,    \* Inner.shutdown and the progress of shutdown()
  fiber,      \* the fiber registry
  cancelled,  \* fibers whose CancellationScope is cancelled
  waits,      \* Inner.waits, by operation
  future,     \* the OperationWait futures handed out
  outcome,    \* the last WakeOutcome the sink returned, by operation
  pump,       \* the pump threads
  current,    \* SliceKRuntime.pump
  tracker,    \* ParkTracker of the reconcile lane
  used        \* how much of each bound is used up

waitVars == <<waits, future>>
fiberVars == <<runtime, fiber, cancelled>>
pumpVars == <<pump, current, tracker>>
vars == <<ledgerVars, fiberVars, waitVars, outcome, pumpVars, used>>

FiberPhase == {"absent", "running", "terminal", "gone"}
WaitPhase == {"new", "gated", "pending", "fired", "closed", "woken", "cancelled", "dropped", "lost"}
WakeOutcome == {"none", "delivered", "fiber_gone", "not_waiting"}
PumpPhase == {"none", "idle", "apply", "deliver", "park", "ack", "stopped", "faulted"}

NewWait == [at |-> "new", operation |-> None]
NewPump == [at |-> "none", batch |-> {}, failures |-> 0, stop |-> FALSE]
NoTracker == [stuck |-> 0, count |-> 0]

TypeOK ==
  /\ decided \subseteq Operations
  /\ ledger \in Seq(Notice)
  /\ runtime \in {"up", "flagged", "down"}
  /\ fiber \in [Fibers -> FiberPhase]
  /\ cancelled \subseteq Fibers
  /\ waits \in [Operations -> {None, "buffered"} \cup Waits]
  /\ future \in [Waits -> [at : WaitPhase, operation : Operations \cup {None}]]
  /\ outcome \in [Operations -> WakeOutcome]
  /\ pump \in [Pumps -> [at : PumpPhase, batch : SUBSET Nat, failures : Nat, stop : BOOLEAN]]
  /\ current \in Pumps \cup {None}
  /\ tracker \in [stuck : Nat, count : Nat]
  /\ used \in [faults : Nat, unparks : Nat, crashes : Nat]

\* The volatile state of a process that has just started, on a fresh store or
\* on one whose fibers are lost with the process before (there is no fiber
\* rehydration: their handles are unknown to the new registry).
Volatile(handles) ==
  [runtime |-> "up", fiber |-> [f \in Fibers |-> handles], cancelled |-> {},
   waits |-> [o \in Operations |-> None], future |-> [w \in Waits |-> NewWait],
   outcome |-> [o \in Operations |-> "none"], pump |-> [p \in Pumps |-> NewPump],
   current |-> None, tracker |-> NoTracker]

Init ==
  /\ LedgerInit
  /\ runtime = Volatile("absent").runtime /\ fiber = Volatile("absent").fiber
  /\ cancelled = Volatile("absent").cancelled /\ waits = Volatile("absent").waits
  /\ future = Volatile("absent").future /\ outcome = Volatile("absent").outcome
  /\ pump = Volatile("absent").pump /\ current = Volatile("absent").current
  /\ tracker = Volatile("absent").tracker
  /\ used = [faults |-> 0, unparks |-> 0, crashes |-> 0]

Fault ==
  /\ used.faults < MaxFaults
  /\ used' = [used EXCEPT !.faults = @ + 1]

\* pending_outbox: the first BatchLimit of the entries that wait, in durable
\* sequence order.
Pending(i) == ~ledger[i].acknowledged /\ ~ledger[i].parked
PendingOutbox ==
  {i \in DOMAIN ledger :
     Pending(i) /\ Cardinality({j \in 1..(i - 1) : Pending(j)}) < BatchLimit}

WaitOf(w) == future[w].operation
OwnerOf(w) == Owner[WaitOf(w)]

\* Dropping the sender of a pending wait resolves it: every wait in S that was
\* still pending sees its channel closed.
CloseSenders(fut, S) ==
  [w \in Waits |-> IF w \in S /\ fut[w].at = "pending"
                   THEN [fut[w] EXCEPT !.at = "closed"] ELSE fut[w]]

(***************************************************************************)
(* Faulty variants of the operators below, one per plausible slip in the   *)
(* code; no action uses them.                                              *)
(***************************************************************************)
\* wake does not look at the shutdown flag again under the lock.
DeliverUnchecked(o) == IF fiber[Owner[o]] = "running" THEN "delivered" ELSE "not_waiting"

\* A wait looks at the scope's cancellation only once something has arrived.
PollCancelledLate(w) ==
  LET o == WaitOf(w) IN
  /\ future[w].at \in {"fired", "closed"}
  /\ OwnerOf(w) \in cancelled
  /\ waits' = [waits EXCEPT ![o] = IF @ \in Waits THEN None ELSE @]
  /\ future' = [CloseSenders(future, {waits[o]} \ {w}) EXCEPT ![w].at = "cancelled"]

\* A wake whose receiver is gone is not buffered again.
HandUnbuffered(o) ==
  /\ waits' = [waits EXCEPT ![o] = IF @ \in Waits THEN None ELSE "buffered"]
  /\ future' = [w \in Waits |-> IF w = waits[o] /\ future[w].at = "pending"
                                THEN [future[w] EXCEPT !.at = "fired"] ELSE future[w]]

\* Each failure starts counting anew.
CountAfresh(i) == [stuck |-> i, count |-> 1]

(***************************************************************************)
(* Fibers: spawn, cancellation, the terminal transition with its purge of  *)
(* the wait registry, and reaping.                                         *)
(***************************************************************************)
Spawn(f) ==
  /\ runtime = "up"
  /\ fiber[f] = "absent"
  /\ fiber' = [fiber EXCEPT ![f] = "running"]
  /\ UNCHANGED <<ledgerVars, runtime, cancelled, waitVars, outcome, pumpVars, used>>

Cancel(f) ==
  /\ fiber[f] = "running"
  /\ f \notin cancelled
  /\ cancelled' = cancelled \cup {f}
  /\ UNCHANGED <<ledgerVars, runtime, fiber, waitVars, outcome, pumpVars, used>>

\* The end of run_fiber: waits is held over the transition and the purge.
Purge(f) ==
  LET mine == {o \in Operations : Owner[o] = f} IN
  /\ waits' = [o \in Operations |-> IF o \in mine THEN None ELSE waits[o]]
  /\ future' = CloseSenders(future, {waits[o] : o \in mine})

Finish(f) ==
  /\ fiber[f] = "running"
  /\ fiber' = [fiber EXCEPT ![f] = "terminal"]
  /\ Purge(f)
  /\ UNCHANGED <<ledgerVars, runtime, cancelled, outcome, pumpVars, used>>

\* A join or a detach removes the record; its tombstone fences the handle.
Reap(f) ==
  /\ fiber[f] = "terminal"
  /\ fiber' = [fiber EXCEPT ![f] = "gone"]
  /\ UNCHANGED <<ledgerVars, runtime, cancelled, waitVars, outcome, pumpVars, used>>

(***************************************************************************)
(* wait_for_operation and the OperationWait it returns.                    *)
(***************************************************************************)
\* The unlocked gate and record_for.
WaitGate(w, o) ==
  /\ future[w].at = "new"
  /\ runtime = "up"
  /\ fiber[Owner[o]] \in {"running", "terminal"}
  /\ future' = [future EXCEPT ![w] = [at |-> "gated", operation |-> o]]
  /\ UNCHANGED <<ledgerVars, fiberVars, waits, outcome, pumpVars, used>>

\* The checks under the waits lock.
Registers(w) ==
  /\ runtime = "up"
  /\ fiber[OwnerOf(w)] = "running"
  /\ OwnerOf(w) \notin cancelled

\* The critical section: cancelled at once, woken at once by a buffered wake,
\* or pending, superseding an earlier wait for the same key.
WaitRegister(w) ==
  LET o == WaitOf(w) IN
  /\ future[w].at = "gated"
  /\ \/ /\ ~Registers(w)
        /\ future' = [future EXCEPT ![w].at = "cancelled"]
        /\ UNCHANGED waits
     \/ /\ Registers(w)
        /\ waits[o] = "buffered"
        /\ waits' = [waits EXCEPT ![o] = None]
        /\ future' = [future EXCEPT ![w].at = "woken"]
     \/ /\ Registers(w)
        /\ waits[o] # "buffered"
        /\ waits' = [waits EXCEPT ![o] = w]
        /\ future' = [CloseSenders(future, {waits[o]}) EXCEPT ![w].at = "pending"]
  /\ UNCHANGED <<ledgerVars, fiberVars, outcome, pumpVars, used>>

\* A poll that observes the cancelled scope; remove_pending goes by the key,
\* whichever wait is registered under it.
PollCancelled(w) ==
  LET o == WaitOf(w) IN
  /\ future[w].at \in {"pending", "fired", "closed"}
  /\ OwnerOf(w) \in cancelled
  /\ waits' = [waits EXCEPT ![o] = IF @ \in Waits THEN None ELSE @]
  /\ future' = [CloseSenders(future, {waits[o]} \ {w}) EXCEPT ![w].at = "cancelled"]

\* A poll that finds the value, or the channel closed.  The scope may be
\* flagged already and its notification still under way.
PollReady(w) ==
  /\ future[w].at \in {"fired", "closed"}
  /\ future' = [future EXCEPT ![w].at = IF @ = "fired" THEN "woken" ELSE "cancelled"]
  /\ UNCHANGED waits

WaitPoll(w) ==
  /\ PollCancelled(w) \/ PollReady(w)
  /\ UNCHANGED <<ledgerVars, fiberVars, outcome, pumpVars, used>>

\* The future is dropped: a pending one leaves its sender in the registry, a
\* fired one takes the wake it was sent with it.
WaitDrop(w) ==
  /\ future[w].at \in {"pending", "fired"}
  /\ future' = [future EXCEPT ![w].at = IF @ = "fired" THEN "lost" ELSE "dropped"]
  /\ UNCHANGED <<ledgerVars, fiberVars, waits, outcome, pumpVars, used>>

(***************************************************************************)
(* shutdown: the flag, then the registry.                                  *)
(***************************************************************************)
ShutdownFlag ==
  /\ runtime = "up"
  /\ runtime' = "flagged"
  /\ UNCHANGED <<ledgerVars, fiber, cancelled, waitVars, outcome, pumpVars, used>>

ShutdownClear ==
  /\ runtime = "flagged"
  /\ runtime' = "down"
  /\ waits' = [o \in Operations |-> None]
  /\ future' = CloseSenders(future, {waits[o] : o \in Operations})
  /\ UNCHANGED <<ledgerVars, fiber, cancelled, outcome, pumpVars, used>>

(***************************************************************************)
(* The pump threads.                                                       *)
(***************************************************************************)
Live(p) == pump[p].at \notin {"none", "stopped", "faulted"}
Item(p) == Min(pump[p].batch)
Goto(p, at) == pump' = [pump EXCEPT ![p].at = at]

\* The end of a drain that stopped early: the rest of the batch is forgotten,
\* not acknowledged.
EndDrain(p) == pump' = [pump EXCEPT ![p].at = "idle", ![p].batch = {}]

\* start_pump: refused while the last pump is running.
StartPump(p) ==
  /\ pump[p].at = "none"
  /\ current # None => ~Live(current)
  /\ current' = p
  /\ Goto(p, "idle")
  /\ UNCHANGED <<ledgerVars, fiberVars, waitVars, outcome, tracker, used>>

\* stop_pump: the join is bounded, so the thread may go on after the return.
StopPump ==
  /\ current # None
  /\ pump' = [pump EXCEPT ![current].stop = TRUE]
  /\ current' = None
  /\ UNCHANGED <<ledgerVars, fiberVars, waitVars, outcome, tracker, used>>

PumpStops(p) ==
  /\ pump[p].at = "idle"
  /\ pump[p].stop
  /\ Goto(p, "stopped")
  /\ UNCHANGED <<ledgerVars, waitVars, outcome, tracker, used>>

\* drain_once reads its batch; a pass over nothing is a successful one.
PumpPoll(p) ==
  /\ pump[p].at = "idle"
  /\ ~pump[p].stop
  /\ pump' = [pump EXCEPT ![p].at = IF PendingOutbox = {} THEN "idle" ELSE "apply",
                          ![p].batch = PendingOutbox,
                          ![p].failures = IF PendingOutbox = {} THEN 0 ELSE @]
  /\ UNCHANGED <<ledgerVars, waitVars, outcome, tracker, used>>

PumpReadFails(p) ==
  /\ pump[p].at = "idle"
  /\ ~pump[p].stop
  /\ Fault
  /\ pump' = [pump EXCEPT ![p].failures = @ + 1,
                          ![p].at = IF pump[p].failures + 1 >= FailureThreshold
                                    THEN "faulted" ELSE "idle"]
  /\ UNCHANGED <<ledgerVars, waitVars, outcome, tracker>>

IsWake(i) == ledger[i].kind = "wake_fiber"

\* TokioWakeSink::wake up to its lock.  ShuttingDown ends the pump.
PumpGate(p) ==
  LET o == ledger[Item(p)].operation IN
  /\ pump[p].at = "apply"
  /\ IsWake(Item(p))
  /\ \/ /\ runtime # "up"
        /\ Goto(p, "stopped")
        /\ UNCHANGED outcome
     \/ /\ runtime = "up"
        /\ fiber[Owner[o]] \in {"absent", "gone"}
        /\ outcome' = [outcome EXCEPT ![o] = "fiber_gone"]
        /\ Goto(p, "ack")
     \/ /\ runtime = "up"
        /\ fiber[Owner[o]] \in {"running", "terminal"}
        /\ Goto(p, "deliver")
        /\ UNCHANGED outcome
  /\ UNCHANGED <<ledgerVars, waitVars, tracker, used>>

\* What wake decides under the waits lock.
Verdict(o) ==
  IF runtime # "up" THEN "shutting_down"
  ELSE IF fiber[Owner[o]] = "running" THEN "delivered" ELSE "not_waiting"

\* The handoff: the pending wait is fired and its entry removed; with no wait,
\* or one whose receiver is gone, the wake is buffered under its key.
Hand(o) ==
  \/ /\ \E w \in Waits : waits[o] = w /\ future[w].at = "pending"
     /\ waits' = [waits EXCEPT ![o] = None]
     /\ future' = [future EXCEPT ![waits[o]].at = "fired"]
  \/ /\ ~\E w \in Waits : waits[o] = w /\ future[w].at = "pending"
     /\ waits' = [waits EXCEPT ![o] = "buffered"]
     /\ UNCHANGED future

PumpDeliver(p) ==
  LET o == ledger[Item(p)].operation IN
  /\ pump[p].at = "deliver"
  /\ \/ /\ Verdict(o) = "shutting_down"
        /\ Goto(p, "stopped")
        /\ UNCHANGED <<waitVars, outcome>>
     \/ /\ Verdict(o) = "not_waiting"
        /\ outcome' = [outcome EXCEPT ![o] = "not_waiting"]
        /\ Goto(p, "ack")
        /\ UNCHANGED waitVars
     \/ /\ Verdict(o) = "delivered"
        /\ Hand(o)
        /\ outcome' = [outcome EXCEPT ![o] = "delivered"]
        /\ Goto(p, "ack")
  /\ UNCHANGED <<ledgerVars, tracker, used>>

\* LateOutcomeReconcileSink::reconcile, routed into the task authority.
PumpRoutes(p) ==
  /\ pump[p].at = "apply"
  /\ ~IsWake(Item(p))
  /\ ledger[Item(p)].operation \in Routable
  /\ tracker' = IF tracker.stuck = Item(p) THEN NoTracker ELSE tracker
  /\ Goto(p, "ack")
  /\ UNCHANGED <<ledgerVars, waitVars, outcome, used>>

\* record_apply_failure: consecutive failures of one sequence.
CountFailure(i) ==
  [stuck |-> i, count |-> IF tracker.stuck = i THEN tracker.count + 1 ELSE 1]

\* The same, refused: for good, or by a passing fault.
PumpRefused(p) ==
  /\ pump[p].at = "apply"
  /\ ~IsWake(Item(p))
  /\ IF ledger[Item(p)].operation \in Routable THEN Fault ELSE UNCHANGED used
  /\ tracker' = CountFailure(Item(p))
  /\ IF tracker'.count >= ParkThreshold THEN Goto(p, "park") ELSE EndDrain(p)
  /\ UNCHANGED <<ledgerVars, waitVars, outcome>>

\* park_poison_entry.  An entry that another pump has parked meanwhile is a
\* replay or a conflict, by its reason.
PumpParks(p) ==
  /\ pump[p].at = "park"
  /\ \/ /\ Park(Item(p))
        /\ tracker' = NoTracker
     \/ /\ ledger[Item(p)].parked
        /\ tracker' \in {NoTracker, tracker}
        /\ UNCHANGED ledgerVars
  /\ EndDrain(p)
  /\ UNCHANGED <<waitVars, outcome, used>>

PumpParkFails(p) ==
  /\ pump[p].at = "park"
  /\ Fault
  /\ EndDrain(p)
  /\ UNCHANGED <<ledgerVars, waitVars, outcome, tracker>>

\* The entry is applied: acknowledge it and go on.  The pass is complete, and
\* record_success resets the count, when the batch is.
PumpAcks(p) ==
  /\ pump[p].at = "ack"
  /\ Acknowledge(Item(p))
  /\ LET rest == pump[p].batch \ {Item(p)} IN
     pump' = [pump EXCEPT ![p].batch = rest,
                          ![p].at = IF rest = {} THEN "idle" ELSE "apply",
                          ![p].failures = IF rest = {} THEN 0 ELSE @]
  /\ UNCHANGED <<waitVars, outcome, tracker, used>>

PumpAckFails(p) ==
  /\ pump[p].at = "ack"
  /\ Fault
  /\ EndDrain(p)
  /\ UNCHANGED <<ledgerVars, waitVars, outcome, tracker>>

PumpStep(p) ==
  /\ \/ PumpStops(p) \/ PumpPoll(p) \/ PumpReadFails(p)
     \/ PumpGate(p) \/ PumpDeliver(p)
     \/ PumpRoutes(p) \/ PumpRefused(p) \/ PumpParks(p) \/ PumpParkFails(p)
     \/ PumpAcks(p) \/ PumpAckFails(p)
  /\ UNCHANGED <<fiberVars, current>>

(***************************************************************************)
(* The world around the loop.                                              *)
(***************************************************************************)
\* A store method ends an Operation, which its owner fiber had registered.
StoreCommit(o, kind) ==
  /\ fiber[Owner[o]] # "absent"
  /\ Commit(o, kind)
  /\ UNCHANGED <<fiberVars, waitVars, outcome, pumpVars, used>>

\* SliceKRuntime::unpark_outbox_entry, by hand.
StoreUnpark(i) ==
  /\ Unpark(i)
  /\ used.unparks < MaxUnparks
  /\ used' = [used EXCEPT !.unparks = @ + 1]
  /\ UNCHANGED <<fiberVars, waitVars, outcome, pumpVars>>

\* The process ends, in whatever state, and starts again on the same store.
Crash ==
  /\ used.crashes < MaxCrashes
  /\ used' = [used EXCEPT !.crashes = @ + 1]
  /\ runtime' = Volatile("gone").runtime /\ fiber' = Volatile("gone").fiber
  /\ cancelled' = Volatile("gone").cancelled /\ waits' = Volatile("gone").waits
  /\ future' = Volatile("gone").future /\ outcome' = Volatile("gone").outcome
  /\ pump' = Volatile("gone").pump /\ current' = Volatile("gone").current
  /\ tracker' = Volatile("gone").tracker
  /\ UNCHANGED ledgerVars

Next ==
  \/ \E o \in Operations, kind \in NoticeKind : StoreCommit(o, kind)
  \/ \E i \in DOMAIN ledger : StoreUnpark(i)
  \/ \E f \in Fibers : Spawn(f) \/ Cancel(f) \/ Finish(f) \/ Reap(f)
  \/ \E w \in Waits :
       \/ \E o \in Operations : WaitGate(w, o)
       \/ WaitRegister(w) \/ WaitPoll(w) \/ WaitDrop(w)
  \/ ShutdownFlag \/ ShutdownClear
  \/ \E p \in Pumps : StartPump(p) \/ PumpStep(p)
  \/ StopPump \/ Crash

\* Threads that are running go on running: the pump loop, a shutdown and a
\* registration under way, and the executor, which polls a wait that is ready.
\* Nothing is assumed of clients, operators or fibers.
Fairness ==
  /\ \A p \in Pumps : WF_vars(PumpStep(p))
  /\ \A w \in Waits : WF_vars(WaitRegister(w)) /\ WF_vars(WaitPoll(w))
  /\ WF_vars(ShutdownClear)

Spec == Init /\ [][Next]_vars /\ Fairness

(***************************************************************************)
(* What the loop promises.                                                 *)
(***************************************************************************)
\* wake.rs re-checks the shutdown flag and the fiber's state under the waits
\* lock so that no entry outlives what could consume it: a wait or a buffered
\* wake in the registry belongs to a running fiber of a runtime that has not
\* been shut down, and a wait that pends is the one registered under its key,
\* so that something can still resolve it, however registration, delivery, the
\* terminal purge and shutdown interleave.
RegistryIsLive ==
  /\ \A o \in Operations :
       waits[o] # None => runtime # "down" /\ fiber[Owner[o]] = "running"
  /\ \A w \in Waits : future[w].at = "pending" => waits[WaitOf(w)] = w

\* A wake that the sink reported as Delivered, and that the pump therefore
\* acknowledges for good, is not lost while its fiber can still use it: it is
\* buffered under its key, or it has reached a wait, dropped since or not.
Usable(o) ==
  /\ outcome[o] = "delivered" /\ runtime = "up"
  /\ fiber[Owner[o]] = "running" /\ Owner[o] \notin cancelled
NoLostWake ==
  \A o \in Operations : Usable(o) =>
    \/ waits[o] = "buffered"
    \/ \E w \in Waits : WaitOf(w) = o /\ future[w].at \in {"fired", "woken", "lost"}

\* A fiber is told Woken only for an Operation whose committed notice is a
\* wake: a callback that lost against a cancellation, whose notice asks for
\* reconciliation, never resumes it, through whatever buffering, redelivery
\* or second pump.
NoLateWake ==
  \A w \in Waits :
    future[w].at \in {"fired", "woken", "lost"} =>
      \E i \in DOMAIN ledger : ledger[i].operation = WaitOf(w) /\ ledger[i].kind = "wake_fiber"

\* Both together, in well-typed states: what is delivered is exactly what the
\* store committed to deliver, across crashes, faults and a second pump.
DeliveryExact == TypeOK /\ NoLostWake /\ NoLateWake

\* An OperationWait never pends for ever once its fiber is cancelled or
\* terminal or the runtime is shut down, also when it was being registered
\* while that happened.
WaitsResolve ==
  \A w \in Waits :
    (/\ future[w].at = "pending"
     /\ runtime # "up" \/ OwnerOf(w) \in cancelled \/ fiber[OwnerOf(w)] # "running")
      ~> future[w].at \notin {"pending", "fired", "closed"}

Owed(i) == i \in DOMAIN ledger /\ Pending(i)
Draining == runtime = "up" /\ \E p \in Pumps : Live(p) /\ ~pump[p].stop

\* End to end: the wait of a running fiber on an Operation whose wake is
\* committed is woken while a pump drains, poison entries ahead of it or not.
WakesArrive ==
  \A w \in Waits, i \in 1..Cardinality(Operations) :
    (/\ Owed(i)
     /\ IsWake(i)
     /\ future[w] = [at |-> "pending", operation |-> ledger[i].operation])
      ~> \/ ~Draining
         \/ future[w].at \in {"new", "dropped"}
         \/ OwnerOf(w) \in cancelled \/ fiber[OwnerOf(w)] # "running"
         \/ waits[WaitOf(w)] = "buffered"
         \/ \E v \in Waits : WaitOf(v) = WaitOf(w) /\ future[v].at \in {"woken", "lost"}

=============================================================================
