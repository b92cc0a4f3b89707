------------------------- MODULE WakeDeliveryProofs -------------------------
(***************************************************************************)
(* Proofs about WakeDelivery, for every set of operations, fibers, waits   *)
(* and pumps and every value of the limits and bounds.                     *)
(***************************************************************************)
EXTENDS WakeDelivery, SequenceTheorems, WellFoundedInduction, TLAPS

WaitRecord == [at : WaitPhase, operation : Operations \cup {None}]
PumpRecord == [at : PumpPhase, batch : SUBSET Nat, failures : Nat, stop : BOOLEAN]

(***************************************************************************)
(* Lemmas on the operators the actions are built from.                     *)
(***************************************************************************)
\* The batch is drained from its least sequence, which is one of the batch.
LEMMA MinInSet ==
  ASSUME NEW T \in SUBSET Nat, T # {}
  PROVE  Min(T) \in T
<1> DEFINE R == {ss \in Nat \X Nat : ss[1] < ss[2]}
<1>1. IsWellFoundedOn(R, Nat)
  BY NatLessThanWellFounded, Zenon DEF OpToRel
<1>2. \A a, b \in Nat : a < b => <<a, b>> \in R
  BY Zenon
<1> HIDE DEF R
<1>3. PICK x \in T : \A y \in T : ~(<<y, x>> \in R)
  BY <1>1, WFMin, Zenon
<1>4. ASSUME NEW y \in T PROVE x =< y
  <2>1. x \in Nat /\ y \in Nat
    BY Zenon
  <2>2. ~(y < x)
    BY <1>2, <1>3, <2>1, Zenon
  <2>3. QED
    BY <2>1, <2>2
<1>5. QED
  BY <1>4, Zenon DEF Min

\* A wait moves to another phase; the others stay.
LEMMA FutureSet ==
  ASSUME NEW g \in [Waits -> WaitRecord], NEW w \in Waits, NEW a \in WaitPhase,
         NEW h, h = [g EXCEPT ![w].at = a]
  PROVE  /\ h \in [Waits -> WaitRecord]
         /\ h[w].at = a /\ h[w].operation = g[w].operation
         /\ \A v \in Waits \ {w} : h[v] = g[v]
<1> DEFINE c == [g[w] EXCEPT !.at = a]
<1>1. c \in WaitRecord /\ c.at = a /\ c.operation = g[w].operation
  BY Zenon DEF WaitRecord
<1>2. h = [g EXCEPT ![w] = c]
  BY Zenon
<1> HIDE DEF c
<1>3. QED
  BY <1>1, <1>2, Zenon

\* Dropping senders closes the pending waits among them and nothing else.
LEMMA SendersClosed ==
  ASSUME NEW g \in [Waits -> WaitRecord], NEW S, NEW h, h = CloseSenders(g, S)
  PROVE  /\ h \in [Waits -> WaitRecord]
         /\ \A v \in Waits :
              /\ h[v].operation = g[v].operation
              /\ v \in S /\ g[v].at = "pending" => h[v].at = "closed"
              /\ ~(v \in S /\ g[v].at = "pending") => h[v] = g[v]
<1>1. h = [v \in Waits |-> IF v \in S /\ g[v].at = "pending"
                           THEN [g[v] EXCEPT !.at = "closed"] ELSE g[v]]
  BY Zenon DEF CloseSenders
<1>2. ASSUME NEW v \in Waits
      PROVE  /\ [g[v] EXCEPT !.at = "closed"] \in WaitRecord
             /\ [g[v] EXCEPT !.at = "closed"].at = "closed"
             /\ [g[v] EXCEPT !.at = "closed"].operation = g[v].operation
  BY Zenon DEF WaitRecord, WaitPhase
<1>3. h \in [Waits -> WaitRecord]
  BY <1>1, <1>2, Zenon
<1>4. ASSUME NEW v \in Waits
      PROVE  /\ h[v].operation = g[v].operation
             /\ v \in S /\ g[v].at = "pending" => h[v].at = "closed"
             /\ ~(v \in S /\ g[v].at = "pending") => h[v] = g[v]
  <2>1. CASE v \in S /\ g[v].at = "pending"
    BY <1>1, <1>2, <2>1, Zenon
  <2>2. CASE ~(v \in S /\ g[v].at = "pending")
    BY <1>1, <2>2, Zenon
  <2>3. QED
    BY <2>1, <2>2, Zenon
<1>5. QED
  BY <1>3, <1>4, Zenon

(***************************************************************************)
(* The ledger: no step withdraws a notice or changes what it says.         *)
(***************************************************************************)
LedgerKept ==
  /\ ledger' \in Seq(Notice)
  /\ DOMAIN ledger \subseteq DOMAIN ledger'
  /\ \A i \in DOMAIN ledger :
       ledger'[i].operation = ledger[i].operation /\ ledger'[i].kind = ledger[i].kind

LEMMA CommitKeeps ==
  ASSUME ledger \in Seq(Notice), NEW o \in Operations, NEW kind \in NoticeKind, Commit(o, kind)
  PROVE  LedgerKept
<1> DEFINE e == [operation |-> o, kind |-> kind, acknowledged |-> FALSE, parked |-> FALSE]
<1>1. e \in Notice /\ ledger' = Append(ledger, e)
  BY Zenon DEF Notice, Commit
<1> HIDE DEF e
<1>2. /\ ledger' \in Seq(Notice) /\ Len(ledger') = Len(ledger) + 1
      /\ \A i \in 1 .. Len(ledger) : ledger'[i] = ledger[i]
  BY <1>1, AppendProperties
<1>3. /\ Len(ledger) \in Nat /\ DOMAIN ledger = 1 .. Len(ledger)
      /\ DOMAIN ledger' = 1 .. Len(ledger')
  BY <1>2, LenProperties, Zenon
<1>4. DOMAIN ledger \subseteq DOMAIN ledger'
  BY <1>2, <1>3
<1>5. QED
  BY <1>2, <1>3, <1>4, Zenon DEF LedgerKept

\* Acknowledge, Park and Unpark change a mark of one notice.
LEMMA MarkKeeps ==
  ASSUME ledger \in Seq(Notice), NEW i \in DOMAIN ledger,
         \/ Acknowledge(i) \/ Park(i) \/ Unpark(i)
  PROVE  LedgerKept
<1>1. /\ Len(ledger) \in Nat /\ DOMAIN ledger = 1 .. Len(ledger)
      /\ \A j \in DOMAIN ledger : ledger[j] \in Notice
  BY LenProperties, ElementOfSeq, Zenon
<1>2. ASSUME NEW e \in Notice, e.operation = ledger[i].operation, e.kind = ledger[i].kind,
             ledger' = [ledger EXCEPT ![i] = e]
      PROVE  LedgerKept
  <2>1. ledger' \in Seq(Notice) /\ DOMAIN ledger' = DOMAIN ledger
    BY <1>1, <1>2, ExceptSeq, Zenon
  <2>2. \A j \in DOMAIN ledger : ledger'[j] = IF j = i THEN e ELSE ledger[j]
    BY <1>2, Zenon
  <2>3. QED
    BY <1>2, <2>1, <2>2, Zenon DEF LedgerKept
<1>3. CASE Acknowledge(i)
  <2> DEFINE e == [ledger[i] EXCEPT !.acknowledged = TRUE]
  <2>1. e \in Notice /\ e.operation = ledger[i].operation /\ e.kind = ledger[i].kind
    BY <1>1, Zenon DEF Notice
  <2>2. ledger' = [ledger EXCEPT ![i] = e]
    BY <1>3, Zenon DEF Acknowledge
  <2> HIDE DEF e
  <2>3. QED
    BY <1>2, <2>1, <2>2, Zenon
<1>4. CASE Park(i)
  <2> DEFINE e == [ledger[i] EXCEPT !.parked = TRUE]
  <2>1. e \in Notice /\ e.operation = ledger[i].operation /\ e.kind = ledger[i].kind
    BY <1>1, Zenon DEF Notice
  <2>2. ledger' = [ledger EXCEPT ![i] = e]
    BY <1>4, Zenon DEF Park
  <2> HIDE DEF e
  <2>3. QED
    BY <1>2, <2>1, <2>2, Zenon
<1>5. CASE Unpark(i)
  <2> DEFINE e == [ledger[i] EXCEPT !.parked = FALSE]
  <2>1. e \in Notice /\ e.operation = ledger[i].operation /\ e.kind = ledger[i].kind
    BY <1>1, Zenon DEF Notice
  <2>2. ledger' = [ledger EXCEPT ![i] = e]
    BY <1>5, Zenon DEF Unpark
  <2> HIDE DEF e
  <2>3. QED
    BY <1>2, <2>1, <2>2, Zenon
<1>6. QED
  BY <1>3, <1>4, <1>5, Zenon

(***************************************************************************)
(* The pumps: a batch names notices of the ledger, and a pump that has an  *)
(* entry in hand has one in its batch, at "deliver" a wake.                *)
(***************************************************************************)
Busy == {"apply", "deliver", "park", "ack"}

BatchesHeld ==
  \A p \in Pumps :
    /\ pump[p].batch \subseteq DOMAIN ledger
    /\ pump[p].at \in Busy => pump[p].batch # {}
    /\ pump[p].at = "deliver" => IsWake(Item(p))

\* What a step may make of one pump.
PumpMoved(p) ==
  /\ pump' \in [Pumps -> PumpRecord]
  /\ \A q \in Pumps \ {p} : pump'[q] = pump[q]
  /\ pump'[p].batch \subseteq pump[p].batch \cup DOMAIN ledger
  /\ pump'[p].at \in Busy => pump'[p].batch # {}
  /\ pump'[p].at = "deliver" => pump'[p].batch = pump[p].batch /\ IsWake(Item(p))

LEMMA ItemHeld ==
  ASSUME TypeOK, BatchesHeld, NEW p \in Pumps, pump[p].batch # {} \/ pump[p].at \in Busy
  PROVE  Item(p) \in pump[p].batch /\ Item(p) \in DOMAIN ledger
<1>1. pump[p].batch \in SUBSET Nat
  BY Zenon DEF TypeOK
<1>2. pump[p].batch # {} /\ pump[p].batch \subseteq DOMAIN ledger
  BY Zenon DEF BatchesHeld
<1>3. Min(pump[p].batch) \in pump[p].batch
  BY <1>1, <1>2, MinInSet, Zenon
<1>4. QED
  BY <1>2, <1>3, Zenon DEF Item

LEMMA BatchesKept ==
  ASSUME TypeOK, BatchesHeld, LedgerKept, NEW p \in Pumps, PumpMoved(p)
  PROVE  BatchesHeld'
<1>1. DOMAIN ledger \subseteq DOMAIN ledger' /\ "deliver" \in Busy
  BY Zenon DEF LedgerKept, Busy
<1>2. ASSUME NEW q \in Pumps, pump[q].batch # {}, pump'[q].batch = pump[q].batch,
             IsWake(Item(q))
      PROVE  IsWake(Item(q))'
  <2>1. Item(q) \in DOMAIN ledger
    BY <1>2, ItemHeld, Zenon
  <2>2. Min(pump'[q].batch) = Min(pump[q].batch)
    BY <1>2, Zenon
  <2>3. QED
    BY <1>2, <2>1, <2>2, Zenon DEF IsWake, Item, LedgerKept
<1>3. ASSUME NEW q \in Pumps, q # p
      PROVE  /\ pump'[q].batch \subseteq DOMAIN ledger'
             /\ pump'[q].at \in Busy => pump'[q].batch # {}
             /\ pump'[q].at = "deliver" => IsWake(Item(q))'
  <2>1. pump'[q] = pump[q]
    BY <1>3, Zenon DEF PumpMoved
  <2>2. QED
    BY <1>1, <1>2, <2>1, Zenon DEF BatchesHeld
<1>4. /\ pump'[p].batch \subseteq DOMAIN ledger'
      /\ pump'[p].at \in Busy => pump'[p].batch # {}
      /\ pump'[p].at = "deliver" => IsWake(Item(p))'
  BY <1>1, <1>2, Zenon DEF BatchesHeld, PumpMoved
<1>5. QED
  BY <1>3, <1>4, Zenon DEF BatchesHeld

LEMMA GotoMoves ==
  ASSUME pump \in [Pumps -> PumpRecord], NEW p \in Pumps, NEW a \in PumpPhase, Goto(p, a)
  PROVE  /\ pump' \in [Pumps -> PumpRecord]
         /\ pump'[p].at = a /\ pump'[p].batch = pump[p].batch
         /\ \A q \in Pumps \ {p} : pump'[q] = pump[q]
<1> DEFINE c == [pump[p] EXCEPT !.at = a]
<1>1. c \in PumpRecord /\ c.at = a /\ c.batch = pump[p].batch
  BY Zenon DEF PumpRecord
<1>2. pump' = [pump EXCEPT ![p] = c]
  BY Zenon DEF Goto
<1> HIDE DEF c
<1>3. QED
  BY <1>1, <1>2, Zenon

LEMMA EndDrainMoves ==
  ASSUME pump \in [Pumps -> PumpRecord], NEW p \in Pumps, EndDrain(p)
  PROVE  PumpMoved(p)
<1> DEFINE c == [[pump[p] EXCEPT !.at = "idle"] EXCEPT !.batch = {}]
<1>1. c \in PumpRecord /\ c.at = "idle" /\ c.batch = {}
  BY Zenon DEF PumpRecord, PumpPhase
<1>2. pump' = [pump EXCEPT ![p] = c]
  BY Zenon DEF EndDrain
<1> HIDE DEF c
<1>3. /\ pump' \in [Pumps -> PumpRecord] /\ pump'[p] = c
      /\ \A q \in Pumps \ {p} : pump'[q] = pump[q]
  BY <1>1, <1>2, Zenon
<1>4. QED
  BY <1>1, <1>3, Zenon DEF PumpMoved, Busy

\* Every step of a pump thread keeps to that, and to the ledger.
LEMMA PumpSteps ==
  ASSUME TypeOK, BatchesHeld, NEW p \in Pumps, PumpStep(p)
  PROVE  PumpMoved(p) /\ LedgerKept /\ UNCHANGED decided
<1>0. /\ pump \in [Pumps -> PumpRecord] /\ pump[p] \in PumpRecord /\ ledger \in Seq(Notice)
      /\ DOMAIN ledger \subseteq Nat
  <2>1. pump \in [Pumps -> PumpRecord] /\ ledger \in Seq(Notice)
    BY Zenon DEF TypeOK, PumpRecord
  <2>2. DOMAIN ledger \subseteq Nat
    BY <2>1, LenProperties
  <2>3. QED
    BY <2>1, <2>2, Zenon
<1>1. UNCHANGED ledgerVars => LedgerKept /\ UNCHANGED decided
  BY <1>0, Zenon DEF ledgerVars, LedgerKept
<1>2. ASSUME NEW a \in PumpPhase, Goto(p, a), a \in Busy => pump[p].at \in Busy,
             a = "deliver" => IsWake(Item(p))
      PROVE  PumpMoved(p)
  BY <1>0, <1>2, GotoMoves, Zenon DEF PumpMoved, BatchesHeld
<1>3. CASE PumpStops(p)
  <2>1. Goto(p, "stopped") /\ UNCHANGED ledgerVars
    BY <1>3, Zenon DEF PumpStops
  <2>2. QED
    BY <1>1, <1>2, <2>1, Zenon DEF PumpPhase, Busy
<1>4. CASE PumpPoll(p)
  <2> DEFINE a == IF PendingOutbox = {} THEN "idle" ELSE "apply"
             n == IF PendingOutbox = {} THEN 0 ELSE pump[p].failures
             c == [[[pump[p] EXCEPT !.at = a] EXCEPT !.batch = PendingOutbox]
                      EXCEPT !.failures = n]
  <2>1. PendingOutbox \subseteq DOMAIN ledger /\ a \in PumpPhase /\ n \in Nat
    BY <1>0, Zenon DEF PendingOutbox, PumpPhase, PumpRecord
  <2>2. a \in Busy => PendingOutbox # {} /\ a # "deliver"
    BY Zenon DEF Busy
  <2>3. pump' = [pump EXCEPT ![p] = c] /\ UNCHANGED ledgerVars
    BY <1>4, Zenon DEF PumpPoll
  <2> HIDE DEF a, n
  <2>4. c \in PumpRecord /\ c.at = a /\ c.batch = PendingOutbox
    BY <1>0, <2>1, Zenon DEF PumpRecord
  <2> HIDE DEF c
  <2>5. /\ pump' \in [Pumps -> PumpRecord] /\ pump'[p] = c
        /\ \A q \in Pumps \ {p} : pump'[q] = pump[q]
    BY <1>0, <2>3, <2>4, Zenon
  <2>6. "deliver" \in Busy
    BY Zenon DEF Busy
  <2>7. PumpMoved(p)
    BY <2>1, <2>2, <2>4, <2>5, <2>6, Zenon DEF PumpMoved
  <2>8. QED
    BY <1>1, <2>3, <2>7, Zenon
<1>5. CASE PumpReadFails(p)
  <2> DEFINE n == pump[p].failures + 1
             a == IF n >= FailureThreshold THEN "faulted" ELSE "idle"
             c == [[pump[p] EXCEPT !.failures = n] EXCEPT !.at = a]
  <2>1. n \in Nat /\ a \in PumpPhase /\ a \notin Busy
    BY <1>0 DEF PumpPhase, PumpRecord, Busy
  <2>2. pump' = [pump EXCEPT ![p] = c] /\ UNCHANGED ledgerVars
    BY <1>5, Zenon DEF PumpReadFails
  <2> HIDE DEF a, n
  <2>3. c \in PumpRecord /\ c.at = a /\ c.batch = pump[p].batch
    BY <1>0, <2>1, Zenon DEF PumpRecord
  <2> HIDE DEF c
  <2>4. /\ pump' \in [Pumps -> PumpRecord] /\ pump'[p] = c
        /\ \A q \in Pumps \ {p} : pump'[q] = pump[q]
    BY <1>0, <2>2, <2>3, Zenon
  <2>5. "deliver" \in Busy
    BY Zenon DEF Busy
  <2>6. PumpMoved(p)
    BY <2>1, <2>3, <2>4, <2>5, Zenon DEF PumpMoved
  <2>7. QED
    BY <1>1, <2>2, <2>6, Zenon
<1>6. CASE PumpGate(p)
  <2>1. /\ \/ Goto(p, "stopped") \/ Goto(p, "ack") \/ Goto(p, "deliver")
        /\ pump[p].at = "apply" /\ IsWake(Item(p)) /\ UNCHANGED ledgerVars
    BY <1>6, Zenon DEF PumpGate
  <2>2. QED
    BY <1>1, <1>2, <2>1, Zenon DEF PumpPhase, Busy
<1>7. CASE PumpDeliver(p)
  <2>1. /\ Goto(p, "stopped") \/ Goto(p, "ack")
        /\ pump[p].at = "deliver" /\ UNCHANGED ledgerVars
    BY <1>7, Zenon DEF PumpDeliver
  <2>2. QED
    BY <1>1, <1>2, <2>1, Zenon DEF PumpPhase, Busy
<1>8. CASE PumpRoutes(p)
  <2>1. Goto(p, "ack") /\ pump[p].at = "apply" /\ UNCHANGED ledgerVars
    BY <1>8, Zenon DEF PumpRoutes
  <2>2. QED
    BY <1>1, <1>2, <2>1, Zenon DEF PumpPhase, Busy
<1>9. CASE PumpRefused(p)
  <2>1. /\ Goto(p, "park") \/ EndDrain(p)
        /\ pump[p].at = "apply" /\ UNCHANGED ledgerVars
    BY <1>9, Zenon DEF PumpRefused
  <2>2. QED
    BY <1>0, <1>1, <1>2, <2>1, EndDrainMoves, Zenon DEF PumpPhase, Busy
<1>10. CASE PumpParks(p)
  <2>1. /\ Park(Item(p)) \/ UNCHANGED ledgerVars
        /\ EndDrain(p) /\ pump[p].at = "park"
    BY <1>10, Zenon DEF PumpParks
  <2>2. Item(p) \in DOMAIN ledger
    BY <2>1, ItemHeld, Zenon DEF Busy
  <2>3. LedgerKept /\ UNCHANGED decided
    BY <1>0, <1>1, <2>1, <2>2, MarkKeeps, Zenon DEF Park
  <2>4. QED
    BY <1>0, <2>1, <2>3, EndDrainMoves, Zenon
<1>11. CASE PumpParkFails(p) \/ PumpAckFails(p)
  <2>1. EndDrain(p) /\ UNCHANGED ledgerVars
    BY <1>11, Zenon DEF PumpParkFails, PumpAckFails
  <2>2. QED
    BY <1>0, <1>1, <2>1, EndDrainMoves, Zenon
<1>12. CASE PumpAcks(p)
  <2> DEFINE rest == pump[p].batch \ {Item(p)}
             a == IF rest = {} THEN "idle" ELSE "apply"
             n == IF rest = {} THEN 0 ELSE pump[p].failures
             c == [[[pump[p] EXCEPT !.batch = rest] EXCEPT !.at = a] EXCEPT !.failures = n]
  <2>1. /\ pump[p].at = "ack" /\ Acknowledge(Item(p)) /\ pump' = [pump EXCEPT ![p] = c]
    BY <1>12, Zenon DEF PumpAcks
  <2>2. Item(p) \in DOMAIN ledger
    BY <2>1, ItemHeld, Zenon DEF Busy
  <2>3. LedgerKept /\ UNCHANGED decided
    BY <1>0, <2>1, <2>2, MarkKeeps, Zenon DEF Acknowledge
  <2>4. /\ rest \in SUBSET Nat /\ rest \subseteq pump[p].batch /\ a \in PumpPhase /\ n \in Nat
        /\ a \in Busy => rest # {}
        /\ a # "deliver"
    BY <1>0, Zenon DEF PumpPhase, PumpRecord, Busy
  <2> HIDE DEF a, n, rest
  <2>5. c \in PumpRecord /\ c.at = a /\ c.batch = rest
    BY <1>0, <2>4, Zenon DEF PumpRecord
  <2> HIDE DEF c
  <2>6. /\ pump' \in [Pumps -> PumpRecord] /\ pump'[p] = c
        /\ \A q \in Pumps \ {p} : pump'[q] = pump[q]
    BY <1>0, <2>1, <2>5, Zenon
  <2>7. PumpMoved(p)
    BY <2>4, <2>5, <2>6, Zenon DEF PumpMoved
  <2>8. QED
    BY <2>3, <2>7, Zenon
<1>13. QED
  BY <1>3, <1>4, <1>5, <1>6, <1>7, <1>8, <1>9, <1>10, <1>11, <1>12, Zenon DEF PumpStep

(***************************************************************************)
(* Type correctness and the batches, together: a pump reads the notice     *)
(* that its batch names.                                                   *)
(***************************************************************************)
LEMMA VolatileState ==
  ASSUME NEW h \in FiberPhase
  PROVE  /\ Volatile(h).runtime = "up"
         /\ Volatile(h).fiber = [f \in Fibers |-> h]
         /\ Volatile(h).cancelled = {}
         /\ Volatile(h).waits = [o \in Operations |-> None]
         /\ Volatile(h).future = [w \in Waits |-> NewWait]
         /\ Volatile(h).outcome = [o \in Operations |-> "none"]
         /\ Volatile(h).pump = [p \in Pumps |-> NewPump]
         /\ Volatile(h).current = None
         /\ Volatile(h).tracker = NoTracker
  BY Zenon DEF Volatile

\* What the process starts with is well typed, on a fresh store or after a crash.
LEMMA VolatileType ==
  /\ [f \in Fibers |-> "absent"] \in [Fibers -> FiberPhase]
  /\ [f \in Fibers |-> "gone"] \in [Fibers -> FiberPhase]
  /\ [o \in Operations |-> None] \in [Operations -> {None, "buffered"} \cup Waits]
  /\ [w \in Waits |-> NewWait] \in [Waits -> WaitRecord]
  /\ [o \in Operations |-> "none"] \in [Operations -> WakeOutcome]
  /\ [p \in Pumps |-> NewPump] \in [Pumps -> PumpRecord]
  /\ NoTracker \in [stuck : Nat, count : Nat]
<1>1. NewWait \in WaitRecord /\ NewPump \in PumpRecord
  BY Zenon DEF NewWait, WaitRecord, WaitPhase, NewPump, PumpRecord, PumpPhase
<1>2. "absent" \in FiberPhase /\ "gone" \in FiberPhase /\ "none" \in WakeOutcome
  BY Zenon DEF FiberPhase, WakeOutcome
<1>3. NoTracker \in [stuck : Nat, count : Nat]
  BY Zenon DEF NoTracker
<1>4. QED
  BY <1>1, <1>2, <1>3, Zenon

LEMMA FaultType ==
  ASSUME TypeOK, Fault
  PROVE  used' \in [faults : Nat, unparks : Nat, crashes : Nat]
<1> DEFINE n == used.faults + 1
<1>1. used' = [used EXCEPT !.faults = n] /\ used \in [faults : Nat, unparks : Nat, crashes : Nat]
  BY Zenon DEF Fault, TypeOK
<1>2. n \in Nat
  BY <1>1
<1> HIDE DEF n
<1>3. QED
  BY <1>1, <1>2, Zenon

\* The parts of the state a pump step can change, besides the pump itself.
LEMMA PumpStepType ==
  ASSUME TypeOK, BatchesHeld, NEW p \in Pumps, PumpStep(p)
  PROVE  /\ waits' \in [Operations -> {None, "buffered"} \cup Waits]
         /\ future' \in [Waits -> WaitRecord]
         /\ outcome' \in [Operations -> WakeOutcome]
         /\ tracker' \in [stuck : Nat, count : Nat]
         /\ used' \in [faults : Nat, unparks : Nat, crashes : Nat]
<1>0. /\ waits \in [Operations -> {None, "buffered"} \cup Waits]
      /\ future \in [Waits -> WaitRecord] /\ outcome \in [Operations -> WakeOutcome]
      /\ tracker \in [stuck : Nat, count : Nat]
      /\ used \in [faults : Nat, unparks : Nat, crashes : Nat]
  BY Zenon DEF TypeOK, WaitRecord
<1>1. CASE PumpStops(p) \/ PumpPoll(p)
  BY <1>0, <1>1, Zenon DEF PumpStops, PumpPoll, waitVars
<1>2. CASE PumpReadFails(p) \/ PumpParkFails(p) \/ PumpAckFails(p)
  BY <1>0, <1>2, FaultType, Zenon DEF PumpReadFails, PumpParkFails, PumpAckFails, waitVars
<1>3. CASE PumpGate(p)
  BY <1>0, <1>3, Zenon DEF PumpGate, waitVars, WakeOutcome
<1>4. CASE PumpDeliver(p)
  <2>1. outcome' \in [Operations -> WakeOutcome]
    BY <1>0, <1>4, Zenon DEF PumpDeliver, WakeOutcome
  <2>2. UNCHANGED waitVars \/ \E o \in Operations \cup {ledger[Item(p)].operation} : Hand(o)
    BY <1>4, Zenon DEF PumpDeliver
  <2>3. ASSUME NEW o, Hand(o)
        PROVE  /\ waits' \in [Operations -> {None, "buffered"} \cup Waits]
               /\ future' \in [Waits -> WaitRecord]
    <3>1. waits' \in [Operations -> {None, "buffered"} \cup Waits]
      BY <1>0, <2>3, Zenon DEF Hand
    <3>2. CASE UNCHANGED future
      BY <1>0, <3>1, <3>2, Zenon
    <3>3. ASSUME NEW w \in Waits, future' = [future EXCEPT ![w].at = "fired"]
          PROVE  future' \in [Waits -> WaitRecord]
      BY <1>0, <3>3, FutureSet DEF WaitPhase
    <3>4. QED
      BY <2>3, <3>1, <3>2, <3>3, Zenon DEF Hand
  <2>4. QED
    BY <1>0, <1>4, <2>1, <2>2, <2>3, Zenon DEF PumpDeliver, waitVars
<1>5. CASE PumpRoutes(p)
  BY <1>0, <1>5, VolatileType, Zenon DEF PumpRoutes, waitVars
<1>6. CASE PumpRefused(p)
  <2>1. Item(p) \in Nat
    <3>1. Item(p) \in pump[p].batch
      BY <1>6, ItemHeld, Zenon DEF PumpRefused, Busy
    <3>2. pump[p].batch \in SUBSET Nat
      BY Zenon DEF TypeOK
    <3>3. QED
      BY <3>1, <3>2, Zenon
  <2>2. tracker' \in [stuck : Nat, count : Nat]
    BY <1>0, <1>6, <2>1 DEF PumpRefused, CountFailure
  <2>3. used' \in [faults : Nat, unparks : Nat, crashes : Nat]
    BY <1>0, <1>6, FaultType, Zenon DEF PumpRefused
  <2>4. QED
    BY <1>0, <1>6, <2>2, <2>3, Zenon DEF PumpRefused, waitVars
<1>7. CASE PumpParks(p)
  BY <1>0, <1>7, VolatileType, Zenon DEF PumpParks, waitVars
<1>8. CASE PumpAcks(p)
  BY <1>0, <1>8, Zenon DEF PumpAcks, waitVars
<1>9. QED
  BY <1>1, <1>2, <1>3, <1>4, <1>5, <1>6, <1>7, <1>8, Zenon DEF PumpStep

LEMMA TypeOKStep ==
  ASSUME TypeOK, BatchesHeld, [Next]_vars
  PROVE  TypeOK'
<1>0. /\ decided \subseteq Operations /\ ledger \in Seq(Notice)
      /\ runtime \in {"up", "flagged", "down"} /\ fiber \in [Fibers -> FiberPhase]
      /\ cancelled \subseteq Fibers
      /\ waits \in [Operations -> {None, "buffered"} \cup Waits]
      /\ future \in [Waits -> WaitRecord] /\ outcome \in [Operations -> WakeOutcome]
      /\ pump \in [Pumps -> PumpRecord] /\ current \in Pumps \cup {None}
      /\ tracker \in [stuck : Nat, count : Nat]
      /\ used \in [faults : Nat, unparks : Nat, crashes : Nat]
  BY Zenon DEF TypeOK, WaitRecord, PumpRecord
<1> DEFINE LedgerType == decided' \subseteq Operations /\ ledger' \in Seq(Notice)
           FiberType == /\ runtime' \in {"up", "flagged", "down"}
                        /\ fiber' \in [Fibers -> FiberPhase] /\ cancelled' \subseteq Fibers
           WaitType == /\ waits' \in [Operations -> {None, "buffered"} \cup Waits]
                       /\ future' \in [Waits -> WaitRecord]
           OutcomeType == outcome' \in [Operations -> WakeOutcome]
           PumpType == /\ pump' \in [Pumps -> PumpRecord] /\ current' \in Pumps \cup {None}
                       /\ tracker' \in [stuck : Nat, count : Nat]
           UsedType == used' \in [faults : Nat, unparks : Nat, crashes : Nat]
<1>1. LedgerType /\ FiberType /\ WaitType /\ OutcomeType /\ PumpType /\ UsedType => TypeOK'
  BY Zenon DEF TypeOK, WaitRecord, PumpRecord
<1>2. /\ UNCHANGED ledgerVars => LedgerType
      /\ UNCHANGED fiberVars => FiberType
      /\ UNCHANGED waitVars => WaitType
      /\ UNCHANGED outcome => OutcomeType
      /\ UNCHANGED pumpVars => PumpType
      /\ UNCHANGED used => UsedType
  BY <1>0, Zenon DEF ledgerVars, fiberVars, waitVars, pumpVars
<1> HIDE DEF LedgerType, FiberType, WaitType, OutcomeType, PumpType, UsedType
<1>3. ASSUME NEW o \in Operations, NEW kind \in NoticeKind, StoreCommit(o, kind)
      PROVE  TypeOK'
  <2>1. LedgerType
    BY <1>0, <1>3, CommitKeeps, Zenon DEF StoreCommit, LedgerKept, LedgerType, Commit
  <2>2. QED
    BY <1>1, <1>2, <1>3, <2>1, Zenon DEF StoreCommit
<1>4. ASSUME NEW i \in DOMAIN ledger, StoreUnpark(i)
      PROVE  TypeOK'
  <2>1. LedgerType
    BY <1>0, <1>4, MarkKeeps, Zenon DEF StoreUnpark, LedgerKept, LedgerType, Unpark
  <2>2. UsedType
    <3> DEFINE n == used.unparks + 1
    <3>1. used' = [used EXCEPT !.unparks = n] /\ n \in Nat
      BY <1>0, <1>4 DEF StoreUnpark
    <3> HIDE DEF n
    <3>2. QED
      BY <1>0, <3>1, Zenon DEF UsedType
  <2>3. QED
    BY <1>1, <1>2, <1>4, <2>1, <2>2, Zenon DEF StoreUnpark
<1>5. ASSUME NEW f \in Fibers, Spawn(f) \/ Cancel(f) \/ Reap(f)
      PROVE  TypeOK'
  <2>1. FiberType
    BY <1>0, <1>5, Zenon DEF Spawn, Cancel, Reap, FiberType, FiberPhase
  <2>2. QED
    BY <1>1, <1>2, <1>5, <2>1, Zenon DEF Spawn, Cancel, Reap
<1>6. ASSUME NEW f \in Fibers, Finish(f)
      PROVE  TypeOK'
  <2>1. FiberType
    BY <1>0, <1>6, Zenon DEF Finish, FiberType, FiberPhase
  <2>2. WaitType
    BY <1>0, <1>6, SendersClosed, Zenon DEF Finish, Purge, WaitType
  <2>3. QED
    BY <1>1, <1>2, <1>6, <2>1, <2>2, Zenon DEF Finish
<1>7. ASSUME NEW w \in Waits, NEW o \in Operations, WaitGate(w, o)
      PROVE  TypeOK'
  <2>1. WaitType
    BY <1>0, <1>7, Zenon DEF WaitGate, WaitType, WaitRecord, WaitPhase
  <2>2. QED
    BY <1>1, <1>2, <1>7, <2>1, Zenon DEF WaitGate
<1>8. ASSUME NEW w \in Waits, WaitRegister(w)
      PROVE  TypeOK'
  <2>0. "cancelled" \in WaitPhase /\ "woken" \in WaitPhase /\ "pending" \in WaitPhase
    BY Zenon DEF WaitPhase
  <2>1. waits' \in [Operations -> {None, "buffered"} \cup Waits]
    BY <1>0, <1>8, Zenon DEF WaitRegister
  <2>2. \/ future' = [future EXCEPT ![w].at = "cancelled"]
        \/ future' = [future EXCEPT ![w].at = "woken"]
        \/ future' = [CloseSenders(future, {waits[WaitOf(w)]}) EXCEPT ![w].at = "pending"]
    BY <1>8, Zenon DEF WaitRegister
  <2>3. CloseSenders(future, {waits[WaitOf(w)]}) \in [Waits -> WaitRecord]
    BY <1>0, SendersClosed, Zenon
  <2>4. future' \in [Waits -> WaitRecord]
    <3>1. ASSUME NEW g \in [Waits -> WaitRecord], NEW a \in WaitPhase,
                 future' = [g EXCEPT ![w].at = a]
          PROVE  future' \in [Waits -> WaitRecord]
      BY <3>1, FutureSet, Zenon
    <3>2. QED
      BY <1>0, <2>0, <2>2, <2>3, <3>1, Zenon
  <2>5. WaitType
    BY <2>1, <2>4, Zenon DEF WaitType
  <2>6. QED
    BY <1>1, <1>2, <1>8, <2>5, Zenon DEF WaitRegister
<1>9. ASSUME NEW w \in Waits, WaitPoll(w)
      PROVE  TypeOK'
  <2>0. "cancelled" \in WaitPhase /\ "woken" \in WaitPhase
    BY Zenon DEF WaitPhase
  <2>1. waits' \in [Operations -> {None, "buffered"} \cup Waits]
    BY <1>0, <1>9, Zenon DEF WaitPoll, PollCancelled, PollReady
  <2>2. \/ future' = [CloseSenders(future, {waits[WaitOf(w)]} \ {w}) EXCEPT ![w].at = "cancelled"]
        \/ \E a \in {"woken", "cancelled"} : future' = [future EXCEPT ![w].at = a]
    BY <1>9, Zenon DEF WaitPoll, PollCancelled, PollReady
  <2>3. CloseSenders(future, {waits[WaitOf(w)]} \ {w}) \in [Waits -> WaitRecord]
    BY <1>0, SendersClosed, Zenon
  <2>4. future' \in [Waits -> WaitRecord]
    <3>1. ASSUME NEW g \in [Waits -> WaitRecord], NEW a \in WaitPhase,
                 future' = [g EXCEPT ![w].at = a]
          PROVE  future' \in [Waits -> WaitRecord]
      BY <3>1, FutureSet, Zenon
    <3>2. QED
      BY <1>0, <2>0, <2>2, <2>3, <3>1, Zenon
  <2>5. WaitType
    BY <2>1, <2>4, Zenon DEF WaitType
  <2>6. QED
    BY <1>1, <1>2, <1>9, <2>5, Zenon DEF WaitPoll
<1>10. ASSUME NEW w \in Waits, WaitDrop(w)
       PROVE  TypeOK'
  <2>0. "lost" \in WaitPhase /\ "dropped" \in WaitPhase
    BY Zenon DEF WaitPhase
  <2>1. \E a \in {"lost", "dropped"} : future' = [future EXCEPT ![w].at = a]
    BY <1>10, Zenon DEF WaitDrop
  <2>2. WaitType
    <3>1. ASSUME NEW a \in WaitPhase, future' = [future EXCEPT ![w].at = a]
          PROVE  future' \in [Waits -> WaitRecord]
      BY <1>0, <3>1, FutureSet, Zenon
    <3>2. QED
      BY <1>0, <1>10, <2>0, <2>1, <3>1, Zenon DEF WaitType, WaitDrop
  <2>3. QED
    BY <1>1, <1>2, <1>10, <2>2, Zenon DEF WaitDrop
<1>11. CASE ShutdownFlag
  BY <1>0, <1>1, <1>2, <1>11, Zenon DEF ShutdownFlag, FiberType
<1>12. CASE ShutdownClear
  <2>1. FiberType
    BY <1>0, <1>12, Zenon DEF ShutdownClear, FiberType
  <2>2. WaitType
    BY <1>0, <1>12, SendersClosed, Zenon DEF ShutdownClear, WaitType
  <2>3. QED
    BY <1>1, <1>2, <1>12, <2>1, <2>2, Zenon DEF ShutdownClear
<1>13. ASSUME NEW p \in Pumps, StartPump(p)
       PROVE  TypeOK'
  <2>1. "idle" \in PumpPhase /\ Goto(p, "idle")
    BY <1>13, Zenon DEF StartPump, PumpPhase
  <2>2. PumpType
    BY <1>0, <1>13, <2>1, GotoMoves, Zenon DEF StartPump, PumpType
  <2>3. QED
    BY <1>1, <1>2, <1>13, <2>2, Zenon DEF StartPump
<1>14. CASE StopPump
  <2>1. PumpType
    <3> DEFINE c == [pump[current] EXCEPT !.stop = TRUE]
    <3>1. current \in Pumps /\ pump' = [pump EXCEPT ![current] = c]
      BY <1>0, <1>14, Zenon DEF StopPump
    <3>2. c \in PumpRecord
      BY <1>0, <3>1, Zenon DEF PumpRecord
    <3> HIDE DEF c
    <3>3. QED
      BY <1>0, <1>14, <3>1, <3>2, Zenon DEF StopPump, PumpType
  <2>2. QED
    BY <1>1, <1>2, <1>14, <2>1, Zenon DEF StopPump
<1>15. ASSUME NEW p \in Pumps, PumpStep(p)
       PROVE  TypeOK'
  <2>1. LedgerType
    BY <1>0, <1>15, PumpSteps, Zenon DEF LedgerKept, LedgerType
  <2>2. WaitType /\ OutcomeType /\ UsedType
    BY <1>15, PumpStepType, Zenon DEF WaitType, OutcomeType, UsedType
  <2>3. PumpType
    BY <1>0, <1>15, PumpSteps, PumpStepType, Zenon DEF PumpMoved, PumpType, PumpStep
  <2>4. QED
    BY <1>1, <1>2, <1>15, <2>1, <2>2, <2>3, Zenon DEF PumpStep
<1>16. CASE Crash
  <2>1. "gone" \in FiberPhase
    BY Zenon DEF FiberPhase
  <2>2. FiberType
    BY <1>16, <2>1, VolatileState, VolatileType, Zenon DEF Crash, FiberType
  <2>3. WaitType /\ OutcomeType
    BY <1>16, <2>1, VolatileState, VolatileType, Zenon DEF Crash, WaitType, OutcomeType
  <2>4. PumpType
    BY <1>16, <2>1, VolatileState, VolatileType, Zenon DEF Crash, PumpType
  <2>5. UsedType
    <3> DEFINE n == used.crashes + 1
    <3>1. used' = [used EXCEPT !.crashes = n] /\ n \in Nat
      BY <1>0, <1>16 DEF Crash
    <3> HIDE DEF n
    <3>2. QED
      BY <1>0, <3>1, Zenon DEF UsedType
  <2>6. QED
    BY <1>1, <1>2, <1>16, <2>2, <2>3, <2>4, <2>5, Zenon DEF Crash
<1>17. CASE UNCHANGED vars
  BY <1>1, <1>2, <1>17, Zenon DEF vars
<1>18. QED
  BY <1>3, <1>4, <1>5, <1>6, <1>7, <1>8, <1>9, <1>10, <1>11, <1>12, <1>13, <1>14, <1>15,
     <1>16, <1>17, Zenon DEF Next

\* No step withdraws or rewrites a notice.
LEMMA LedgerStep ==
  ASSUME TypeOK, BatchesHeld, [Next]_vars
  PROVE  LedgerKept
<1>0. ledger \in Seq(Notice)
  BY Zenon DEF TypeOK
<1>1. ASSUME NEW o \in Operations, NEW kind \in NoticeKind, StoreCommit(o, kind)
      PROVE  LedgerKept
  BY <1>0, <1>1, CommitKeeps, Zenon DEF StoreCommit
<1>2. ASSUME NEW i \in DOMAIN ledger, StoreUnpark(i)
      PROVE  LedgerKept
  BY <1>0, <1>2, MarkKeeps, Zenon DEF StoreUnpark
<1>3. ASSUME NEW p \in Pumps, PumpStep(p)
      PROVE  LedgerKept
  BY <1>3, PumpSteps, Zenon
<1>4. CASE UNCHANGED ledgerVars
  BY <1>0, <1>4, Zenon DEF ledgerVars, LedgerKept
<1>5. QED
  BY <1>1, <1>2, <1>3, <1>4, Zenon
     DEF Next, vars, Spawn, Cancel, Finish, Reap, WaitGate, WaitRegister, WaitPoll, WaitDrop,
         ShutdownFlag, ShutdownClear, StartPump, StopPump, Crash

LEMMA BatchesStep ==
  ASSUME TypeOK, BatchesHeld, [Next]_vars
  PROVE  BatchesHeld'
<1>0. pump \in [Pumps -> PumpRecord] /\ LedgerKept
  BY LedgerStep, Zenon DEF TypeOK, PumpRecord
<1>1. ASSUME NEW p \in Pumps, StartPump(p)
      PROVE  BatchesHeld'
  <2>1. "idle" \in PumpPhase /\ "idle" \notin Busy /\ "idle" # "deliver" /\ Goto(p, "idle")
    BY <1>1, Zenon DEF StartPump, PumpPhase, Busy
  <2>2. PumpMoved(p)
    BY <1>0, <2>1, GotoMoves, Zenon DEF PumpMoved
  <2>3. QED
    BY <1>0, <2>2, BatchesKept, Zenon
<1>2. CASE StopPump
  <2> DEFINE p == current
             c == [pump[p] EXCEPT !.stop = TRUE]
  <2>1. p \in Pumps /\ pump' = [pump EXCEPT ![p] = c]
    BY <1>2, Zenon DEF StopPump, TypeOK
  <2>2. c \in PumpRecord /\ c.at = pump[p].at /\ c.batch = pump[p].batch
    BY <1>0, <2>1, Zenon DEF PumpRecord
  <2> HIDE DEF c
  <2>3. /\ pump' \in [Pumps -> PumpRecord] /\ pump'[p] = c
        /\ \A q \in Pumps \ {p} : pump'[q] = pump[q]
    BY <1>0, <2>1, <2>2, Zenon
  <2>4. PumpMoved(p)
    BY <2>1, <2>2, <2>3, Zenon DEF PumpMoved, BatchesHeld
  <2>5. QED
    BY <1>0, <2>1, <2>4, BatchesKept, Zenon
<1>3. ASSUME NEW p \in Pumps, PumpStep(p)
      PROVE  BatchesHeld'
  BY <1>3, PumpSteps, BatchesKept, Zenon
<1>4. CASE Crash
  <2>1. pump' = [p \in Pumps |-> NewPump]
    BY <1>4, VolatileState, Zenon DEF Crash, FiberPhase
  <2>2. NewPump.batch = {} /\ NewPump.at \notin Busy /\ NewPump.at # "deliver"
    BY Zenon DEF NewPump, Busy
  <2>3. QED
    BY <2>1, <2>2, Zenon DEF BatchesHeld
<1>5. CASE UNCHANGED pump
  <2>1. ASSUME NEW p \in Pumps
        PROVE  PumpMoved(p)
    BY <1>0, <1>5, Zenon DEF PumpMoved, BatchesHeld
  <2>2. CASE Pumps = {}
    BY <2>2, Zenon DEF BatchesHeld
  <2>3. QED
    BY <1>0, <2>1, <2>2, BatchesKept, Zenon
<1>6. QED
  BY <1>1, <1>2, <1>3, <1>4, <1>5, Zenon
     DEF Next, vars, pumpVars, StoreCommit, StoreUnpark, Spawn, Cancel, Finish, Reap, WaitGate,
         WaitRegister, WaitPoll, WaitDrop, ShutdownFlag, ShutdownClear

(***************************************************************************)
(* The wait registry.  RegistryIsLive, NoLostWake and NoLateWake are not   *)
(* inductive alone: a registered sender must be that of a wait for the     *)
(* very key it is under, a buffered wake must come from a committed one,   *)
(* and a wake cannot have been delivered to a fiber that is yet to start.  *)
(***************************************************************************)
Told == {"fired", "woken", "lost"}

WakeCommitted(o) ==
  \E i \in DOMAIN ledger : ledger[i].operation = o /\ ledger[i].kind = "wake_fiber"

\* A future past its gate is for an Operation, and a sender in the registry
\* belongs to a future for the key it is under.
WaitsKeyed ==
  /\ \A w \in Waits : future[w].at # "new" => WaitOf(w) \in Operations
  /\ \A o \in Operations, w \in Waits :
       waits[o] = w => WaitOf(w) = o /\ future[w].at # "new"

\* What is buffered was committed as a wake; what was delivered went to a
\* fiber that had started.
WakesFounded ==
  /\ \A o \in Operations : waits[o] = "buffered" => WakeCommitted(o)
  /\ \A o \in Operations : outcome[o] = "delivered" => fiber[Owner[o]] # "absent"

WaitInv == WaitsKeyed /\ WakesFounded /\ RegistryIsLive /\ NoLateWake /\ NoLostWake

WakeInv == TypeOK /\ BatchesHeld /\ WaitInv

\* A step that leaves the registry and the futures alone keeps the invariant
\* when no fiber ends, the runtime does not go down and no wake becomes usable.
LEMMA WaitsKept ==
  ASSUME TypeOK, WaitInv, LedgerKept, UNCHANGED waitVars,
         \A f \in Fibers : fiber[f] = "running" => fiber'[f] = "running",
         runtime' = "down" => runtime = "down",
         \A o \in Operations : outcome'[o] = "delivered" => fiber'[Owner[o]] # "absent",
         \A o \in Operations : Usable(o)' => Usable(o)
  PROVE  WaitInv'
<1>1. waits' = waits /\ future' = future /\ \A o \in Operations : Owner[o] \in Fibers
  BY OwnerAssumption, Zenon DEF waitVars
<1>2. \A o : WakeCommitted(o) => WakeCommitted(o)'
  BY Zenon DEF WakeCommitted, LedgerKept
<1>3. WaitsKeyed'
  BY <1>1, Zenon DEF WaitInv, WaitsKeyed, WaitOf
<1>4. WakesFounded'
  BY <1>1, <1>2, Zenon DEF WaitInv, WakesFounded
<1>5. RegistryIsLive'
  BY <1>1, Zenon DEF WaitInv, RegistryIsLive, WaitOf
<1>6. NoLateWake'
  <2>1. ASSUME NEW w \in Waits, future[w].at \in {"fired", "woken", "lost"}
        PROVE  WakeCommitted(WaitOf(w))'
    BY <1>1, <1>2, <2>1 DEF WaitInv, NoLateWake, WakeCommitted, WaitOf
  <2>2. QED
    BY <1>1, <2>1, Zenon DEF NoLateWake, WakeCommitted, WaitOf
<1>7. NoLostWake'
  BY <1>1, Zenon DEF WaitInv, NoLostWake, WaitOf
<1>8. QED
  BY <1>3, <1>4, <1>5, <1>6, <1>7, Zenon DEF WaitInv

\* The same for a step that moves waits, given what it may do to each.
LEMMA WaitsMoved ==
  ASSUME TypeOK, WaitInv, UNCHANGED <<ledgerVars, cancelled>>,
         RegistryIsLive',
         \* the key of a future is fixed once it is past its gate
         \A v \in Waits : /\ future[v].at # "new" => WaitOf(v)' = WaitOf(v)
                          /\ future[v].at # "new" => future'[v].at # "new"
                          /\ future'[v].at # "new" => WaitOf(v)' \in Operations,
         \* an entry of the registry is old, or of a future for its key
         \A o \in Operations :
           \/ waits'[o] \in {None, waits[o]}
           \/ waits'[o] = "buffered" /\ WakeCommitted(o)
           \/ \E v \in Waits : waits'[o] = v /\ WaitOf(v)' = o /\ future'[v].at # "new",
         \* only a committed wake is told
         \A v \in Waits : future'[v].at \in Told =>
           \/ future[v].at \in Told /\ WaitOf(v)' = WaitOf(v)
           \/ WakeCommitted(WaitOf(v)'),
         \* a delivered wake stays buffered or told while it is usable
         \A o \in Operations : outcome'[o] = "delivered" => fiber'[Owner[o]] # "absent",
         \A o \in Operations : Usable(o)' =>
           \/ waits'[o] = "buffered"
           \/ \E v \in Waits : WaitOf(v)' = o /\ future'[v].at \in Told
  PROVE  WaitInv'
<1>1. \A o : WakeCommitted(o)' = WakeCommitted(o)
  BY Zenon DEF WakeCommitted, ledgerVars
<1>2. WaitsKeyed'
  <2>1. ASSUME NEW o \in Operations, NEW w \in Waits, waits'[o] = w
        PROVE  WaitOf(w)' = o /\ future'[w].at # "new"
    <3>1. w # None /\ w # "buffered"
      BY NoneAssumption, Zenon
    <3>2. CASE waits[o] = w
      <4>1. WaitOf(w) = o /\ future[w].at # "new"
        BY <3>2, Zenon DEF WaitInv, WaitsKeyed
      <4>2. QED
        BY <4>1, Zenon
    <3>3. CASE \E v \in Waits : waits'[o] = v /\ WaitOf(v)' = o /\ future'[v].at # "new"
      BY <2>1, <3>3, Zenon
    <3>4. QED
      BY <2>1, <3>1, <3>2, <3>3, Zenon
  <2>2. QED
    BY <2>1, Zenon DEF WaitsKeyed
<1>3. WakesFounded'
  <2>1. ASSUME NEW o \in Operations, waits'[o] = "buffered"
        PROVE  WakeCommitted(o)'
    <3>1. "buffered" # None /\ "buffered" \notin Waits
      BY NoneAssumption, Zenon
    <3>2. waits[o] = "buffered" => WakeCommitted(o)
      BY Zenon DEF WaitInv, WakesFounded
    <3>3. QED
      BY <1>1, <2>1, <3>1, <3>2
  <2>2. QED
    BY <2>1, Zenon DEF WakesFounded
<1>4. NoLateWake'
  <2>1. ASSUME NEW v \in Waits, future'[v].at \in Told
        PROVE  WakeCommitted(WaitOf(v)')
    BY <2>1 DEF WaitInv, NoLateWake, WakeCommitted, Told
  <2>2. QED
    BY <2>1, Zenon DEF NoLateWake, WakeCommitted, Told, ledgerVars
<1>5. NoLostWake'
  BY Zenon DEF NoLostWake, Told
<1>6. QED
  BY <1>2, <1>3, <1>4, <1>5, Zenon DEF WaitInv

(***************************************************************************)
(* The actions that move waits, one by one.                                *)
(***************************************************************************)
LEMMA WaitGateStep ==
  ASSUME TypeOK, WaitInv, NEW w \in Waits, NEW o \in Operations, WaitGate(w, o)
  PROVE  WaitInv'
<1>0. future \in [Waits -> WaitRecord] /\ "gated" \notin Told /\ "new" \notin Told
  BY Zenon DEF TypeOK, WaitRecord, Told
<1>1. /\ future[w].at = "new" /\ future'[w].at = "gated" /\ future'[w].operation = o
      /\ \A v \in Waits \ {w} : future'[v] = future[v]
      /\ UNCHANGED <<ledgerVars, runtime, fiber, cancelled, waits, outcome>>
  BY <1>0, Zenon DEF WaitGate, fiberVars
<1>2. RegistryIsLive'
  BY <1>1, Zenon DEF WaitInv, RegistryIsLive, WaitOf
<1>3. \A q \in Operations : Usable(q)' => Usable(q)
  BY <1>1, Zenon DEF Usable
<1>4. \A q \in Operations : Usable(q)' =>
        \/ waits'[q] = "buffered"
        \/ \E v \in Waits : WaitOf(v)' = q /\ future'[v].at \in Told
  BY <1>0, <1>1, <1>3 DEF WaitInv, NoLostWake, WaitOf, Told
<1>5. \A q \in Operations : outcome'[q] = "delivered" => fiber'[Owner[q]] # "absent"
  BY <1>1, Zenon DEF WaitInv, WakesFounded
<1>6. \A v \in Waits : /\ future[v].at # "new" => WaitOf(v)' = WaitOf(v)
                       /\ future[v].at # "new" => future'[v].at # "new"
                       /\ future'[v].at # "new" => WaitOf(v)' \in Operations
  BY <1>1, Zenon DEF WaitInv, WaitsKeyed, WaitOf
<1>7. \A v \in Waits : future'[v].at \in Told => future[v].at \in Told /\ WaitOf(v)' = WaitOf(v)
  BY <1>0, <1>1, Zenon DEF WaitOf
<1>8. \A q \in Operations : waits'[q] = waits[q]
  BY <1>1, Zenon
<1>9. QED
  BY <1>1, <1>2, <1>4, <1>5, <1>6, <1>7, <1>8, WaitsMoved, Zenon

LEMMA WaitRegisterStep ==
  ASSUME TypeOK, WaitInv, NEW w \in Waits, WaitRegister(w)
  PROVE  WaitInv'
<1> DEFINE o == WaitOf(w)
<1>0. /\ future \in [Waits -> WaitRecord]
      /\ waits \in [Operations -> {None, "buffered"} \cup Waits]
      /\ "cancelled" \in WaitPhase /\ "woken" \in WaitPhase /\ "pending" \in WaitPhase
      /\ "gated" \notin Told /\ "cancelled" \notin Told /\ "pending" \notin Told
      /\ "woken" \in Told /\ "closed" \notin Told
      /\ "new" \notin {"gated", "cancelled", "woken", "pending", "closed"}
  BY Zenon DEF TypeOK, WaitRecord, WaitPhase, Told
<1>1. /\ future[w].at = "gated" /\ o \in Operations
      /\ UNCHANGED <<ledgerVars, runtime, fiber, cancelled, outcome>>
  BY Zenon DEF WaitRegister, fiberVars, WaitInv, WaitsKeyed
<1>2. \A q \in Operations : Usable(q)' => Usable(q)
  BY <1>1, Zenon DEF Usable
<1>3. \A q \in Operations : outcome'[q] = "delivered" => fiber'[Owner[q]] # "absent"
  BY <1>1, Zenon DEF WaitInv, WakesFounded
<1>4. CASE future' = [future EXCEPT ![w].at = "cancelled"] /\ UNCHANGED waits
  <2>1. /\ future'[w].at = "cancelled" /\ future'[w].operation = o
        /\ \A v \in Waits \ {w} : future'[v] = future[v]
    BY <1>0, <1>4, FutureSet DEF WaitOf
  <2>2. RegistryIsLive'
    BY <1>1, <1>4, <2>1, Zenon DEF WaitInv, RegistryIsLive, WaitOf
  <2>3. \A q \in Operations : Usable(q)' =>
          \/ waits'[q] = "buffered"
          \/ \E v \in Waits : WaitOf(v)' = q /\ future'[v].at \in Told
    BY <1>0, <1>1, <1>2, <1>4, <2>1 DEF WaitInv, NoLostWake, WaitOf, Told
  <2>4. \A v \in Waits : /\ future[v].at # "new" => WaitOf(v)' = WaitOf(v)
                         /\ future[v].at # "new" => future'[v].at # "new"
                         /\ future'[v].at # "new" => WaitOf(v)' \in Operations
    BY <1>0, <1>1, <2>1, Zenon DEF WaitInv, WaitsKeyed, WaitOf
  <2>5. \A v \in Waits : future'[v].at \in Told =>
                           future[v].at \in Told /\ WaitOf(v)' = WaitOf(v)
    BY <1>0, <2>1, Zenon DEF WaitOf
  <2>6. QED
    BY <1>1, <1>3, <1>4, <2>2, <2>3, <2>4, <2>5, WaitsMoved, Zenon
<1>5. CASE /\ waits[o] = "buffered" /\ waits' = [waits EXCEPT ![o] = None]
           /\ future' = [future EXCEPT ![w].at = "woken"]
  <2>1. /\ future'[w].at = "woken" /\ future'[w].operation = o
        /\ \A v \in Waits \ {w} : future'[v] = future[v]
    BY <1>0, <1>5, FutureSet DEF WaitOf
  <2>2. waits'[o] = None /\ \A q \in Operations \ {o} : waits'[q] = waits[q]
    BY <1>0, <1>1, <1>5, Zenon
  <2>3. WakeCommitted(o)
    BY <1>1, <1>5, Zenon DEF WaitInv, WakesFounded
  <2>4. RegistryIsLive'
    <3>1. \A q \in Operations : waits'[q] # None => waits[q] # None
      BY <2>2, Zenon
    <3>2. ASSUME NEW v \in Waits, future'[v].at = "pending"
          PROVE  waits'[WaitOf(v)'] = v
      <4>1. v # w /\ future[v].at = "pending" /\ WaitOf(v)' = WaitOf(v)
        BY <1>0, <2>1, <3>2, Zenon DEF WaitOf
      <4>2. waits[WaitOf(v)] = v /\ WaitOf(v) \in Operations /\ v # "buffered"
        BY <4>1, NoneAssumption, Zenon DEF WaitInv, RegistryIsLive, WaitsKeyed
      <4>3. QED
        BY <1>5, <2>2, <4>1, <4>2, Zenon
    <3>3. QED
      BY <1>1, <3>1, <3>2, Zenon DEF WaitInv, RegistryIsLive
  <2>5. \A q \in Operations : Usable(q)' =>
          \/ waits'[q] = "buffered"
          \/ \E v \in Waits : WaitOf(v)' = q /\ future'[v].at \in Told
    <3> TAKE q \in Operations
    <3>1. CASE q = o
      BY <1>0, <2>1, <3>1, Zenon DEF WaitOf
    <3>2. CASE q # o
      BY <1>0, <1>1, <1>2, <2>1, <2>2, <3>2 DEF WaitInv, NoLostWake, WaitOf, Told
    <3>3. QED
      BY <3>1, <3>2, Zenon
  <2>6. \A v \in Waits : /\ future[v].at # "new" => WaitOf(v)' = WaitOf(v)
                         /\ future[v].at # "new" => future'[v].at # "new"
                         /\ future'[v].at # "new" => WaitOf(v)' \in Operations
    BY <1>0, <1>1, <2>1, Zenon DEF WaitInv, WaitsKeyed, WaitOf
  <2>7. \A v \in Waits : future'[v].at \in Told =>
          \/ future[v].at \in Told /\ WaitOf(v)' = WaitOf(v)
          \/ WakeCommitted(WaitOf(v)')
    BY <2>1, <2>3, Zenon DEF WaitOf
  <2>8. \A q \in Operations : waits'[q] \in {None, waits[q]}
    BY <2>2, Zenon
  <2>9. QED
    BY <1>1, <1>3, <2>4, <2>5, <2>6, <2>7, <2>8, WaitsMoved, Zenon
<1>6. CASE /\ Registers(w) /\ waits[o] # "buffered" /\ waits' = [waits EXCEPT ![o] = w]
           /\ future' = [CloseSenders(future, {waits[o]}) EXCEPT ![w].at = "pending"]
  <2> DEFINE g == CloseSenders(future, {waits[o]})
  <2>1. /\ g \in [Waits -> WaitRecord]
        /\ \A v \in Waits :
             /\ g[v].operation = future[v].operation
             /\ v = waits[o] /\ future[v].at = "pending" => g[v].at = "closed"
             /\ ~(v = waits[o] /\ future[v].at = "pending") => g[v] = future[v]
    BY <1>0, SendersClosed
  <2>2. future' = [g EXCEPT ![w].at = "pending"]
    BY <1>6, Zenon
  <2> HIDE DEF g
  <2>3. /\ future'[w].at = "pending" /\ future'[w].operation = g[w].operation
        /\ \A v \in Waits \ {w} : future'[v] = g[v]
    BY <1>0, <2>1, <2>2, FutureSet
  <2>4. /\ \A v \in Waits : WaitOf(v)' = WaitOf(v)
        /\ future'[w].at = "pending"
        /\ \A v \in Waits \ {w} :
             /\ v = waits[o] /\ future[v].at = "pending" => future'[v].at = "closed"
             /\ ~(v = waits[o] /\ future[v].at = "pending") => future'[v].at = future[v].at
    BY <2>1, <2>3, Zenon DEF WaitOf
  <2>5. waits'[o] = w /\ \A q \in Operations \ {o} : waits'[q] = waits[q]
    BY <1>0, <1>1, <1>6, Zenon
  <2>6. RegistryIsLive'
    <3>1. ASSUME NEW q \in Operations, waits'[q] # None
          PROVE  runtime' # "down" /\ fiber'[Owner[q]] = "running"
      <4>1. CASE q = o
        BY <1>1, <1>6, <4>1, Zenon DEF Registers, OwnerOf
      <4>2. CASE q # o
        BY <1>1, <2>5, <3>1, <4>2, Zenon DEF WaitInv, RegistryIsLive
      <4>3. QED
        BY <4>1, <4>2, Zenon
    <3>2. ASSUME NEW v \in Waits, future'[v].at = "pending"
          PROVE  waits'[WaitOf(v)'] = v
      <4>1. CASE v = w
        BY <2>4, <2>5, <4>1, Zenon
      <4>2. CASE v # w
        <5>1. future[v].at = "pending" /\ v # waits[o]
          BY <1>0, <2>4, <3>2, <4>2, Zenon
        <5>2. waits[WaitOf(v)] = v /\ WaitOf(v) \in Operations
          BY <1>0, <5>1, Zenon DEF WaitInv, RegistryIsLive, WaitsKeyed
        <5>3. QED
          BY <2>4, <2>5, <5>1, <5>2, Zenon
      <4>3. QED
        BY <4>1, <4>2, Zenon
    <3>3. QED
      BY <3>1, <3>2, Zenon DEF RegistryIsLive
  <2>7. \A v \in Waits : future[v].at \in Told => future'[v].at \in Told
    BY <1>0, <1>1, <2>4, Zenon
  <2>8. \A q \in Operations : Usable(q)' =>
          \/ waits'[q] = "buffered"
          \/ \E v \in Waits : WaitOf(v)' = q /\ future'[v].at \in Told
    <3> SUFFICES ASSUME NEW q \in Operations, Usable(q)'
                 PROVE  \/ waits'[q] = "buffered"
                        \/ \E v \in Waits : WaitOf(v)' = q /\ future'[v].at \in Told
      BY Zenon
    <3>1. \/ waits[q] = "buffered"
          \/ \E v \in Waits : WaitOf(v) = q /\ future[v].at \in Told
      BY <1>2, Zenon DEF WaitInv, NoLostWake, Told
    <3>2. QED
      BY <1>6, <2>4, <2>5, <2>7, <3>1, Zenon
  <2>9. \A v \in Waits : /\ future[v].at # "new" => WaitOf(v)' = WaitOf(v)
                         /\ future[v].at # "new" => future'[v].at # "new"
                         /\ future'[v].at # "new" => WaitOf(v)' \in Operations
    BY <1>0, <1>1, <2>4, Zenon DEF WaitInv, WaitsKeyed
  <2>10. \A v \in Waits : future'[v].at \in Told =>
                            future[v].at \in Told /\ WaitOf(v)' = WaitOf(v)
    BY <1>0, <2>4, Zenon
  <2>11. \A q \in Operations :
           \/ waits'[q] \in {None, waits[q]}
           \/ \E v \in Waits : waits'[q] = v /\ WaitOf(v)' = q /\ future'[v].at # "new"
    BY <1>0, <2>4, <2>5, Zenon
  <2>12. QED
    BY <1>1, <1>3, <2>6, <2>8, <2>9, <2>10, <2>11, WaitsMoved, Zenon
<1>7. QED
  BY <1>4, <1>5, <1>6, Zenon DEF WaitRegister

LEMMA WaitPollStep ==
  ASSUME TypeOK, WaitInv, NEW w \in Waits, WaitPoll(w)
  PROVE  WaitInv'
<1> DEFINE o == WaitOf(w)
<1>0. /\ future \in [Waits -> WaitRecord]
      /\ waits \in [Operations -> {None, "buffered"} \cup Waits]
      /\ "cancelled" \in WaitPhase /\ "woken" \in WaitPhase
      /\ "cancelled" \notin Told /\ "closed" \notin Told /\ "pending" \notin Told
      /\ "woken" \in Told /\ "fired" \in Told /\ "new" \notin Told
      /\ "new" \notin {"cancelled", "woken", "pending", "closed", "fired"}
  BY Zenon DEF TypeOK, WaitRecord, WaitPhase, Told
<1>1. /\ future[w].at \in {"pending", "fired", "closed"} /\ o \in Operations
      /\ UNCHANGED <<ledgerVars, runtime, fiber, cancelled, outcome>>
  BY Zenon DEF WaitPoll, PollCancelled, PollReady, fiberVars, WaitInv, WaitsKeyed
<1>2. \A q \in Operations : Usable(q)' => Usable(q)
  BY <1>1, Zenon DEF Usable
<1>3. \A q \in Operations : outcome'[q] = "delivered" => fiber'[Owner[q]] # "absent"
  BY <1>1, Zenon DEF WaitInv, WakesFounded
<1>4. CASE PollReady(w)
  <2> DEFINE a == IF future[w].at = "fired" THEN "woken" ELSE "cancelled"
  <2>1. /\ future[w].at \in {"fired", "closed"} /\ UNCHANGED waits
        /\ future' = [future EXCEPT ![w].at = a]
    BY <1>4, Zenon DEF PollReady
  <2>2. a \in WaitPhase /\ a # "pending" /\ a # "new"
        /\ (a \in Told <=> future[w].at \in Told)
    BY <1>0, <2>1, Zenon
  <2> HIDE DEF a
  <2>3. /\ future'[w].at = a /\ future'[w].operation = o
        /\ \A v \in Waits \ {w} : future'[v] = future[v]
    BY <1>0, <2>1, <2>2, FutureSet DEF WaitOf
  <2>4. \A v \in Waits : /\ WaitOf(v)' = WaitOf(v)
                         /\ future'[v].at \in Told <=> future[v].at \in Told
                         /\ future'[v].at = "pending" => future[v].at = "pending"
                         /\ future'[v].at # "new" <=> future[v].at # "new"
    BY <1>0, <2>1, <2>2, <2>3, Zenon DEF WaitOf
  <2>5. RegistryIsLive'
    BY <1>1, <2>1, <2>4, Zenon DEF WaitInv, RegistryIsLive
  <2>6. \A q \in Operations : Usable(q)' =>
          \/ waits'[q] = "buffered"
          \/ \E v \in Waits : WaitOf(v)' = q /\ future'[v].at \in Told
    BY <1>2, <2>1, <2>4, Zenon DEF WaitInv, NoLostWake, Told
  <2>7. QED
    BY <1>1, <1>3, <2>1, <2>4, <2>5, <2>6, WaitsMoved, Zenon DEF WaitInv, WaitsKeyed
<1>5. CASE PollCancelled(w)
  <2> DEFINE S == {waits[o]} \ {w}
             g == CloseSenders(future, S)
  <2>1. /\ OwnerOf(w) \in cancelled
        /\ waits' = [waits EXCEPT ![o] = IF waits[o] \in Waits THEN None ELSE waits[o]]
        /\ future' = [g EXCEPT ![w].at = "cancelled"]
    BY <1>5, Zenon DEF PollCancelled
  <2>2. /\ g \in [Waits -> WaitRecord]
        /\ \A v \in Waits :
             /\ g[v].operation = future[v].operation
             /\ v \in S /\ future[v].at = "pending" => g[v].at = "closed"
             /\ ~(v \in S /\ future[v].at = "pending") => g[v] = future[v]
    BY <1>0, SendersClosed
  <2> HIDE DEF g
  <2>3. /\ future'[w].at = "cancelled" /\ future'[w].operation = g[w].operation
        /\ \A v \in Waits \ {w} : future'[v] = g[v]
    BY <1>0, <2>1, <2>2, FutureSet
  <2>4. /\ \A v \in Waits : WaitOf(v)' = WaitOf(v)
        /\ future'[w].at = "cancelled"
        /\ \A v \in Waits \ {w} :
             /\ v = waits[o] /\ future[v].at = "pending" => future'[v].at = "closed"
             /\ ~(v = waits[o] /\ future[v].at = "pending") => future'[v].at = future[v].at
    BY <2>2, <2>3, Zenon DEF WaitOf
  <2>5. /\ waits[o] \in Waits => waits'[o] = None
        /\ waits[o] \notin Waits => waits'[o] = waits[o]
        /\ \A q \in Operations \ {o} : waits'[q] = waits[q]
    BY <1>0, <1>1, <2>1, Zenon
  <2>6. RegistryIsLive'
    <3>1. \A q \in Operations : waits'[q] # None => waits[q] # None
      BY <2>5, Zenon
    <3>2. ASSUME NEW v \in Waits, future'[v].at = "pending"
          PROVE  waits'[WaitOf(v)'] = v
      <4>1. v # w /\ future[v].at = "pending" /\ v # waits[o]
        BY <1>0, <2>4, <3>2, Zenon
      <4>2. waits[WaitOf(v)] = v /\ WaitOf(v) \in Operations
        BY <1>0, <4>1, Zenon DEF WaitInv, RegistryIsLive, WaitsKeyed
      <4>3. QED
        BY <2>4, <2>5, <4>1, <4>2, Zenon
    <3>3. QED
      BY <1>1, <3>1, <3>2, Zenon DEF WaitInv, RegistryIsLive
  <2>7. \A q \in Operations : Usable(q)' =>
          \/ waits'[q] = "buffered"
          \/ \E v \in Waits : WaitOf(v)' = q /\ future'[v].at \in Told
    <3> SUFFICES ASSUME NEW q \in Operations, Usable(q)'
                 PROVE  \/ waits'[q] = "buffered"
                        \/ \E v \in Waits : WaitOf(v)' = q /\ future'[v].at \in Told
      BY Zenon
    <3>1. \/ waits[q] = "buffered"
          \/ \E v \in Waits : WaitOf(v) = q /\ future[v].at \in Told
      BY <1>2, Zenon DEF WaitInv, NoLostWake, Told
    <3>2. q # o
      BY <1>2, <2>1, Zenon DEF Usable, OwnerOf
    <3>3. \A v \in Waits : WaitOf(v) = q /\ future[v].at \in Told => future'[v].at \in Told
      BY <1>0, <2>4, <3>2, Zenon
    <3>4. QED
      BY <2>4, <2>5, <3>1, <3>2, <3>3, Zenon
  <2>8. \A v \in Waits : /\ future[v].at # "new" => WaitOf(v)' = WaitOf(v)
                         /\ future[v].at # "new" => future'[v].at # "new"
                         /\ future'[v].at # "new" => WaitOf(v)' \in Operations
    BY <1>0, <1>1, <2>4, Zenon DEF WaitInv, WaitsKeyed
  <2>9. \A v \in Waits : future'[v].at \in Told =>
                           future[v].at \in Told /\ WaitOf(v)' = WaitOf(v)
    BY <1>0, <2>4, Zenon
  <2>10. \A q \in Operations : waits'[q] \in {None, waits[q]}
    BY <2>5, Zenon
  <2>11. QED
    BY <1>1, <1>3, <2>6, <2>7, <2>8, <2>9, <2>10, WaitsMoved, Zenon
<1>6. QED
  BY <1>4, <1>5, Zenon DEF WaitPoll

LEMMA WaitDropStep ==
  ASSUME TypeOK, WaitInv, NEW w \in Waits, WaitDrop(w)
  PROVE  WaitInv'
<1> DEFINE a == IF future[w].at = "fired" THEN "lost" ELSE "dropped"
<1>0. /\ future \in [Waits -> WaitRecord]
      /\ "dropped" \in WaitPhase /\ "lost" \in WaitPhase
      /\ "dropped" \notin Told /\ "pending" \notin Told
      /\ "lost" \in Told /\ "fired" \in Told
      /\ "new" \notin {"dropped", "lost", "pending", "fired"}
  BY Zenon DEF TypeOK, WaitRecord, WaitPhase, Told
<1>1. /\ future[w].at \in {"pending", "fired"} /\ future' = [future EXCEPT ![w].at = a]
      /\ UNCHANGED <<ledgerVars, runtime, fiber, cancelled, waits, outcome>>
  BY Zenon DEF WaitDrop, fiberVars
<1>2. /\ a \in WaitPhase /\ a # "pending" /\ a # "new"
      /\ a \in Told <=> future[w].at \in Told
  BY <1>0, <1>1, Zenon
<1> HIDE DEF a
<1>3. /\ future'[w].at = a /\ future'[w].operation = future[w].operation
      /\ \A v \in Waits \ {w} : future'[v] = future[v]
  BY <1>0, <1>1, <1>2, FutureSet
<1>4. \A v \in Waits : /\ WaitOf(v)' = WaitOf(v)
                       /\ future'[v].at \in Told <=> future[v].at \in Told
                       /\ future'[v].at = "pending" => future[v].at = "pending"
                       /\ future'[v].at # "new" <=> future[v].at # "new"
  BY <1>0, <1>1, <1>2, <1>3, Zenon DEF WaitOf
<1>5. RegistryIsLive'
  BY <1>1, <1>4, Zenon DEF WaitInv, RegistryIsLive
<1>6. \A q \in Operations : Usable(q)' => Usable(q)
  BY <1>1, Zenon DEF Usable
<1>7. \A q \in Operations : Usable(q)' =>
        \/ waits'[q] = "buffered"
        \/ \E v \in Waits : WaitOf(v)' = q /\ future'[v].at \in Told
  BY <1>1, <1>4, <1>6, Zenon DEF WaitInv, NoLostWake, Told
<1>8. \A q \in Operations : outcome'[q] = "delivered" => fiber'[Owner[q]] # "absent"
  BY <1>1, Zenon DEF WaitInv, WakesFounded
<1>9. QED
  BY <1>1, <1>4, <1>5, <1>7, <1>8, WaitsMoved, Zenon DEF WaitInv, WaitsKeyed

\* The terminal transition of a fiber and the end of shutdown remove the
\* entries of a set of keys and close their senders.
LEMMA EntriesRemoved ==
  ASSUME TypeOK, WaitInv, UNCHANGED <<ledgerVars, cancelled, outcome>>,
         NEW mine \in SUBSET Operations,
         waits' = [q \in Operations |-> IF q \in mine THEN None ELSE waits[q]],
         future' = CloseSenders(future, {waits[q] : q \in mine}),
         \A q \in Operations \ mine : waits[q] # None =>
           runtime' # "down" /\ fiber'[Owner[q]] = "running",
         \A q \in mine : runtime' # "up" \/ fiber'[Owner[q]] # "running",
         \A q \in Operations : fiber'[Owner[q]] = "running" => fiber[Owner[q]] = "running",
         \A q \in Operations : fiber'[Owner[q]] = "absent" => fiber[Owner[q]] = "absent",
         runtime' = "up" => runtime = "up"
  PROVE  WaitInv'
<1> DEFINE S == {waits[q] : q \in mine}
<1>0. /\ future \in [Waits -> WaitRecord]
      /\ "closed" \notin Told /\ "pending" \notin Told /\ "new" \notin {"pending", "closed"}
      /\ "closed" # "pending"
  BY Zenon DEF TypeOK, WaitRecord, Told
<1>1. /\ \A v \in Waits :
           /\ future'[v].operation = future[v].operation
           /\ v \in S /\ future[v].at = "pending" => future'[v].at = "closed"
           /\ ~(v \in S /\ future[v].at = "pending") => future'[v] = future[v]
  BY <1>0, SendersClosed
<1>2. \A v \in Waits : /\ WaitOf(v)' = WaitOf(v)
                       /\ future'[v].at \in Told <=> future[v].at \in Told
                       /\ future'[v].at = "pending" => future[v].at = "pending" /\ v \notin S
                       /\ future'[v].at # "new" <=> future[v].at # "new"
  BY <1>0, <1>1 DEF WaitOf
<1>3. /\ \A q \in mine : waits'[q] = None
      /\ \A q \in Operations \ mine : waits'[q] = waits[q]
  BY Zenon
<1>4. RegistryIsLive'
  <2>1. ASSUME NEW v \in Waits, future'[v].at = "pending"
        PROVE  waits'[WaitOf(v)'] = v
    <3>1. waits[WaitOf(v)] = v /\ WaitOf(v) \in Operations /\ v \notin S
      BY <1>0, <1>2, <2>1, Zenon DEF WaitInv, RegistryIsLive, WaitsKeyed
    <3>2. WaitOf(v) \notin mine
      BY <3>1, Zenon
    <3>3. QED
      BY <1>2, <1>3, <3>1, <3>2, Zenon
  <2>2. QED
    BY <1>3, <2>1, Zenon DEF RegistryIsLive
<1> HIDE DEF S
<1>5. \A q \in Operations : Usable(q)' =>
        \/ waits'[q] = "buffered"
        \/ \E v \in Waits : WaitOf(v)' = q /\ future'[v].at \in Told
  <2> SUFFICES ASSUME NEW q \in Operations, Usable(q)'
               PROVE  \/ waits'[q] = "buffered"
                      \/ \E v \in Waits : WaitOf(v)' = q /\ future'[v].at \in Told
    BY Zenon
  <2>1. Usable(q) /\ q \notin mine
    BY Zenon DEF Usable
  <2>2. QED
    BY <1>2, <1>3, <2>1 DEF WaitInv, NoLostWake, Told
<1>6. \A q \in Operations : outcome'[q] = "delivered" => fiber'[Owner[q]] # "absent"
  BY Zenon DEF WaitInv, WakesFounded
<1>7. \A q \in Operations : waits'[q] \in {None, waits[q]}
  BY <1>3, Zenon
<1>8. \A v \in Waits : /\ future[v].at # "new" => WaitOf(v)' = WaitOf(v)
                       /\ future[v].at # "new" => future'[v].at # "new"
                       /\ future'[v].at # "new" => WaitOf(v)' \in Operations
                       /\ future'[v].at \in Told =>
                            future[v].at \in Told /\ WaitOf(v)' = WaitOf(v)
  BY <1>2, Zenon DEF WaitInv, WaitsKeyed
<1>9. QED
  BY <1>4, <1>5, <1>6, <1>7, <1>8, WaitsMoved, Zenon

LEMMA FinishStep ==
  ASSUME TypeOK, WaitInv, NEW f \in Fibers, Finish(f)
  PROVE  WaitInv'
<1> DEFINE mine == {q \in Operations : Owner[q] = f}
<1>1. /\ fiber[f] = "running" /\ fiber' = [fiber EXCEPT ![f] = "terminal"]
      /\ waits' = [q \in Operations |-> IF q \in mine THEN None ELSE waits[q]]
      /\ future' = CloseSenders(future, {waits[q] : q \in mine})
      /\ UNCHANGED <<ledgerVars, runtime, cancelled, outcome>>
  BY Zenon DEF Finish, Purge
<1>2. /\ fiber'[f] = "terminal" /\ \A g \in Fibers \ {f} : fiber'[g] = fiber[g]
      /\ \A q \in Operations : Owner[q] \in Fibers
  BY <1>1, OwnerAssumption, Zenon DEF TypeOK
<1>3. \A q \in Operations \ mine : waits[q] # None =>
        runtime' # "down" /\ fiber'[Owner[q]] = "running"
  BY <1>1, <1>2, Zenon DEF WaitInv, RegistryIsLive
<1>4. /\ \A q \in mine : fiber'[Owner[q]] # "running"
      /\ \A q \in Operations : fiber'[Owner[q]] = "running" => fiber[Owner[q]] = "running"
      /\ \A q \in Operations : fiber'[Owner[q]] = "absent" => fiber[Owner[q]] = "absent"
  BY <1>2, Zenon
<1>5. mine \in SUBSET Operations
  BY Zenon
<1> HIDE DEF mine
<1>6. QED
  BY <1>1, <1>3, <1>4, <1>5, EntriesRemoved, Zenon

LEMMA ShutdownClearStep ==
  ASSUME TypeOK, WaitInv, ShutdownClear
  PROVE  WaitInv'
<1>1. /\ runtime' = "down"
      /\ waits' = [q \in Operations |-> IF q \in Operations THEN None ELSE waits[q]]
      /\ future' = CloseSenders(future, {waits[q] : q \in Operations})
      /\ UNCHANGED <<ledgerVars, fiber, cancelled, outcome>>
  BY Zenon DEF ShutdownClear
<1>2. QED
  BY <1>1, EntriesRemoved, Zenon

\* The handoff of a committed wake to a running fiber.
LEMMA HandStep ==
  ASSUME TypeOK, WaitInv, NEW o \in Operations, WakeCommitted(o), Hand(o),
         runtime # "down", fiber[Owner[o]] = "running",
         outcome' = [outcome EXCEPT ![o] = "delivered"],
         UNCHANGED <<ledgerVars, fiberVars>>
  PROVE  WaitInv'
<1>0. /\ future \in [Waits -> WaitRecord]
      /\ waits \in [Operations -> {None, "buffered"} \cup Waits]
      /\ outcome \in [Operations -> WakeOutcome]
      /\ "fired" \in WaitPhase /\ "fired" \in Told /\ "pending" \notin Told
      /\ "fired" # "new" /\ "pending" # "new"
  BY Zenon DEF TypeOK, WaitRecord, WaitPhase, Told
<1>1. /\ UNCHANGED <<runtime, fiber, cancelled>>
      /\ outcome'[o] = "delivered" /\ \A q \in Operations \ {o} : outcome'[q] = outcome[q]
  BY <1>0, Zenon DEF fiberVars
<1>2. \A q \in Operations \ {o} : Usable(q)' => Usable(q)
  BY <1>1, Zenon DEF Usable
<1>3. \A q \in Operations : outcome'[q] = "delivered" => fiber'[Owner[q]] # "absent"
  BY <1>1, Zenon DEF WaitInv, WakesFounded
<1>4. CASE /\ \E w \in Waits : waits[o] = w /\ future[w].at = "pending"
           /\ waits' = [waits EXCEPT ![o] = None]
           /\ future' = [future EXCEPT ![waits[o]].at = "fired"]
  <2>1. PICK w \in Waits : /\ waits[o] = w /\ future[w].at = "pending"
                           /\ future' = [future EXCEPT ![w].at = "fired"]
    BY <1>4, Zenon
  <2>2. /\ future'[w].at = "fired" /\ future'[w].operation = future[w].operation
        /\ \A v \in Waits \ {w} : future'[v] = future[v]
    BY <1>0, <2>1, FutureSet
  <2>3. waits'[o] = None /\ \A q \in Operations \ {o} : waits'[q] = waits[q]
    BY <1>0, <1>4, Zenon
  <2>4. WaitOf(w) = o
    BY <2>1, Zenon DEF WaitInv, WaitsKeyed
  <2>5. \A v \in Waits : /\ WaitOf(v)' = WaitOf(v)
                         /\ future'[v].at = "pending" => future[v].at = "pending" /\ v # w
                         /\ future'[v].at # "new" <=> future[v].at # "new"
                         /\ future[v].at \in Told => future'[v].at \in Told
                         /\ future'[v].at \in Told => future[v].at \in Told \/ v = w
    BY <1>0, <2>1, <2>2, Zenon DEF WaitOf
  <2>6. RegistryIsLive'
    <3>1. \A q \in Operations : waits'[q] # None =>
            runtime' # "down" /\ fiber'[Owner[q]] = "running"
      BY <1>1, <2>3, Zenon DEF WaitInv, RegistryIsLive
    <3>2. ASSUME NEW v \in Waits, future'[v].at = "pending"
          PROVE  waits'[WaitOf(v)'] = v
      <4>1. v # w /\ waits[WaitOf(v)] = v /\ WaitOf(v) \in Operations
        BY <1>0, <2>5, <3>2, Zenon DEF WaitInv, RegistryIsLive, WaitsKeyed
      <4>2. WaitOf(v) # o
        BY <2>1, <4>1, Zenon
      <4>3. QED
        BY <2>3, <2>5, <4>1, <4>2, Zenon
    <3>3. QED
      BY <3>1, <3>2, Zenon DEF RegistryIsLive
  <2>7. \A q \in Operations : Usable(q)' =>
          \/ waits'[q] = "buffered"
          \/ \E v \in Waits : WaitOf(v)' = q /\ future'[v].at \in Told
    <3>1. WaitOf(w)' = o /\ future'[w].at \in Told
      BY <1>0, <2>2, <2>4, <2>5, Zenon
    <3>2. ASSUME NEW q \in Operations, q # o, Usable(q)'
          PROVE  \/ waits'[q] = "buffered"
                 \/ \E v \in Waits : WaitOf(v)' = q /\ future'[v].at \in Told
      BY <1>2, <2>3, <2>5, <3>2, Zenon DEF WaitInv, NoLostWake, Told
    <3>3. QED
      BY <3>1, <3>2, Zenon
  <2>8. \A v \in Waits : future'[v].at \in Told =>
          \/ future[v].at \in Told /\ WaitOf(v)' = WaitOf(v)
          \/ WakeCommitted(WaitOf(v)')
    BY <2>4, <2>5, Zenon
  <2>9. /\ \A q \in Operations : waits'[q] \in {None, waits[q]}
        /\ \A v \in Waits : /\ future[v].at # "new" => WaitOf(v)' = WaitOf(v)
                            /\ future[v].at # "new" => future'[v].at # "new"
                            /\ future'[v].at # "new" => WaitOf(v)' \in Operations
    BY <2>3, <2>5, Zenon DEF WaitInv, WaitsKeyed
  <2>10. QED
    BY <1>1, <1>3, <2>6, <2>7, <2>8, <2>9, WaitsMoved, Zenon
<1>5. CASE /\ ~\E w \in Waits : waits[o] = w /\ future[w].at = "pending"
           /\ waits' = [waits EXCEPT ![o] = "buffered"]
           /\ UNCHANGED future
  <2>1. waits'[o] = "buffered" /\ \A q \in Operations \ {o} : waits'[q] = waits[q]
    BY <1>0, <1>5, Zenon
  <2>2. \A v \in Waits : WaitOf(v)' = WaitOf(v) /\ future'[v].at = future[v].at
    BY <1>5, Zenon DEF WaitOf
  <2>3. RegistryIsLive'
    <3>1. \A q \in Operations : waits'[q] # None =>
            runtime' # "down" /\ fiber'[Owner[q]] = "running"
      BY <1>1, <2>1, Zenon DEF WaitInv, RegistryIsLive
    <3>2. ASSUME NEW v \in Waits, future'[v].at = "pending"
          PROVE  waits'[WaitOf(v)'] = v
      <4>1. future[v].at = "pending" /\ waits[WaitOf(v)] = v /\ WaitOf(v) \in Operations
        BY <1>0, <2>2, <3>2, Zenon DEF WaitInv, RegistryIsLive, WaitsKeyed
      <4>2. WaitOf(v) # o
        BY <1>5, <4>1, Zenon
      <4>3. QED
        BY <2>1, <2>2, <4>1, <4>2, Zenon
    <3>3. QED
      BY <3>1, <3>2, Zenon DEF RegistryIsLive
  <2>4. \A q \in Operations : Usable(q)' =>
          \/ waits'[q] = "buffered"
          \/ \E v \in Waits : WaitOf(v)' = q /\ future'[v].at \in Told
    BY <1>2, <2>1, <2>2, Zenon DEF WaitInv, NoLostWake, Told
  <2>5. \A q \in Operations : \/ waits'[q] \in {None, waits[q]}
                              \/ waits'[q] = "buffered" /\ WakeCommitted(q)
    BY <2>1, Zenon
  <2>6. \A v \in Waits : /\ future[v].at # "new" => WaitOf(v)' = WaitOf(v)
                         /\ future[v].at # "new" => future'[v].at # "new"
                         /\ future'[v].at # "new" => WaitOf(v)' \in Operations
                         /\ future'[v].at \in Told =>
                              future[v].at \in Told /\ WaitOf(v)' = WaitOf(v)
    BY <2>2, Zenon DEF WaitInv, WaitsKeyed
  <2>7. QED
    BY <1>1, <1>3, <2>3, <2>4, <2>5, <2>6, WaitsMoved, Zenon
<1>6. QED
  BY <1>4, <1>5, Zenon DEF Hand

\* Every step of a pump keeps the registry sound: what it delivers is the wake
\* that its batch holds, and what it reports otherwise makes nothing usable.
LEMMA PumpWaitStep ==
  ASSUME TypeOK, BatchesHeld, WaitInv, NEW p \in Pumps, PumpStep(p)
  PROVE  WaitInv'
<1> DEFINE o == ledger[Item(p)].operation
<1>0. LedgerKept /\ UNCHANGED fiberVars /\ outcome \in [Operations -> WakeOutcome]
      /\ "fiber_gone" # "delivered" /\ "not_waiting" # "delivered"
  BY PumpSteps, Zenon DEF PumpStep, TypeOK
<1>1. ASSUME UNCHANGED waitVars,
             \A q \in Operations : outcome'[q] = "delivered" => outcome[q] = "delivered"
      PROVE  WaitInv'
  <2>1. UNCHANGED <<runtime, fiber, cancelled>>
    BY <1>0, Zenon DEF fiberVars
  <2>2. \A q \in Operations : Usable(q)' => Usable(q)
    BY <1>1, <2>1, Zenon DEF Usable
  <2>3. \A q \in Operations : outcome'[q] = "delivered" => fiber'[Owner[q]] # "absent"
    BY <1>1, <2>1, Zenon DEF WaitInv, WakesFounded
  <2>4. QED
    BY <1>0, <1>1, <2>1, <2>2, <2>3, WaitsKept, Zenon
<1>2. ASSUME pump[p].at \in Busy
      PROVE  o \in Operations /\ (IsWake(Item(p)) => WakeCommitted(o))
  <2>1. Item(p) \in DOMAIN ledger
    BY <1>2, ItemHeld, Zenon
  <2>2. ledger[Item(p)] \in Notice
    BY <2>1, ElementOfSeq, LenProperties DEF TypeOK
  <2>3. QED
    BY <2>1, <2>2, Zenon DEF Notice, IsWake, WakeCommitted
<1>3. CASE PumpGate(p)
  <2>1. UNCHANGED waitVars /\ (UNCHANGED outcome \/ outcome' = [outcome EXCEPT ![o] = "fiber_gone"])
    BY <1>3, Zenon DEF PumpGate
  <2>2. \A q \in Operations : outcome'[q] = "delivered" => outcome[q] = "delivered"
    BY <1>0, <2>1, Zenon
  <2>3. QED
    BY <1>1, <2>1, <2>2, Zenon
<1>4. CASE PumpDeliver(p)
  <2>1. pump[p].at = "deliver" /\ UNCHANGED ledgerVars
    BY <1>4, Zenon DEF PumpDeliver
  <2>2. o \in Operations /\ WakeCommitted(o)
    BY <1>2, <2>1, Zenon DEF Busy, BatchesHeld
  <2>3. \/ UNCHANGED <<waitVars, outcome>>
        \/ UNCHANGED waitVars /\ outcome' = [outcome EXCEPT ![o] = "not_waiting"]
        \/ Verdict(o) = "delivered" /\ Hand(o) /\ outcome' = [outcome EXCEPT ![o] = "delivered"]
    BY <1>4, Zenon DEF PumpDeliver
  <2>4. CASE \/ UNCHANGED <<waitVars, outcome>>
             \/ UNCHANGED waitVars /\ outcome' = [outcome EXCEPT ![o] = "not_waiting"]
    <3>1. \A q \in Operations : outcome'[q] = "delivered" => outcome[q] = "delivered"
      BY <1>0, <2>4, Zenon
    <3>2. QED
      BY <1>1, <2>4, <3>1, Zenon
  <2>5. CASE /\ Verdict(o) = "delivered" /\ Hand(o)
             /\ outcome' = [outcome EXCEPT ![o] = "delivered"]
    <3>1. runtime # "down" /\ fiber[Owner[o]] = "running"
      BY <2>5, Zenon DEF Verdict
    <3> HIDE DEF o
    <3>2. QED
      BY <1>0, <2>1, <2>2, <2>5, <3>1, HandStep, Zenon
  <2>6. QED
    BY <2>3, <2>4, <2>5, Zenon
<1>5. CASE UNCHANGED <<waitVars, outcome>>
  BY <1>1, <1>5, Zenon
<1>6. QED
  BY <1>3, <1>4, <1>5, Zenon
     DEF PumpStep, PumpStops, PumpPoll, PumpReadFails, PumpRoutes, PumpRefused, PumpParks,
         PumpParkFails, PumpAcks, PumpAckFails

\* A registry that has just been made holds nothing, whatever the store holds.
LEMMA FreshRegistry ==
  ASSUME waits = [q \in Operations |-> None], future = [v \in Waits |-> NewWait],
         outcome = [q \in Operations |-> "none"]
  PROVE  WaitInv
<1>1. /\ \A q \in Operations : waits[q] = None /\ outcome[q] = "none"
      /\ \A v \in Waits : future[v].at = "new" /\ v # None
      /\ None # "buffered"
  BY NoneAssumption, Zenon DEF NewWait
<1>2. WaitsKeyed /\ WakesFounded /\ RegistryIsLive
  BY <1>1, Zenon DEF WaitsKeyed, WakesFounded, RegistryIsLive
<1>3. NoLateWake /\ NoLostWake
  BY <1>1, Zenon DEF NoLateWake, NoLostWake, Usable
<1>4. QED
  BY <1>2, <1>3, Zenon DEF WaitInv

LEMMA WaitInvStep ==
  ASSUME TypeOK, BatchesHeld, WaitInv, [Next]_vars
  PROVE  WaitInv'
<1>0. LedgerKept /\ fiber \in [Fibers -> FiberPhase] /\ cancelled \subseteq Fibers
      /\ \A q \in Operations : Owner[q] \in Fibers
  BY LedgerStep, OwnerAssumption, Zenon DEF TypeOK
<1>1. ASSUME UNCHANGED waitVars, UNCHANGED outcome,
             \A f \in Fibers : fiber[f] = "running" => fiber'[f] = "running",
             \A f \in Fibers : fiber'[f] = "running" =>
               fiber[f] = "running" \/ fiber[f] = "absent",
             \A f \in Fibers : fiber'[f] = "absent" => fiber[f] = "absent",
             cancelled \subseteq cancelled',
             runtime' = "up" => runtime = "up", runtime' = "down" => runtime = "down"
      PROVE  WaitInv'
  <2>1. \A q \in Operations : outcome'[q] = "delivered" => fiber'[Owner[q]] # "absent"
    BY <1>0, <1>1, Zenon DEF WaitInv, WakesFounded
  <2>2. \A q \in Operations : Usable(q)' => Usable(q)
    BY <1>0, <1>1, Zenon DEF Usable, WaitInv, WakesFounded
  <2>3. QED
    BY <1>0, <1>1, <2>1, <2>2, WaitsKept, Zenon
<1>2. CASE UNCHANGED <<fiberVars, waitVars, outcome>>
  BY <1>1, <1>2, Zenon DEF fiberVars
<1>3. ASSUME NEW f \in Fibers, Spawn(f) \/ Cancel(f) \/ Reap(f)
      PROVE  WaitInv'
  <2>1. UNCHANGED waitVars /\ UNCHANGED outcome /\ UNCHANGED runtime
    BY <1>3, Zenon DEF Spawn, Cancel, Reap
  <2>2. CASE Spawn(f)
    BY <1>0, <1>1, <2>1, <2>2, Zenon DEF Spawn
  <2>3. CASE Cancel(f)
    BY <1>0, <1>1, <2>1, <2>3, Zenon DEF Cancel
  <2>4. CASE Reap(f)
    BY <1>0, <1>1, <2>1, <2>4, Zenon DEF Reap
  <2>5. QED
    BY <1>3, <2>2, <2>3, <2>4, Zenon
<1>4. CASE ShutdownFlag
  BY <1>1, <1>4, Zenon DEF ShutdownFlag
<1>5. CASE Crash
  <2>1. /\ waits' = [q \in Operations |-> None] /\ future' = [v \in Waits |-> NewWait]
        /\ outcome' = [q \in Operations |-> "none"]
    BY <1>5, VolatileState, Zenon DEF Crash, FiberPhase
  <2>2. /\ \A q \in Operations : waits'[q] = None /\ outcome'[q] = "none"
        /\ \A v \in Waits : future'[v].at = "new" /\ v # None
        /\ None # "buffered"
    BY <2>1, NoneAssumption, Zenon DEF NewWait
  <2>3. WaitsKeyed' /\ WakesFounded' /\ RegistryIsLive'
    BY <2>2, Zenon DEF WaitsKeyed, WakesFounded, RegistryIsLive
  <2>4. NoLateWake' /\ NoLostWake'
    BY <2>2, Zenon DEF NoLateWake, NoLostWake, Usable
  <2>5. QED
    BY <2>3, <2>4, Zenon DEF WaitInv
<1>6. ASSUME NEW p \in Pumps, PumpStep(p)
      PROVE  WaitInv'
  BY <1>6, PumpWaitStep, Zenon
<1>7. ASSUME NEW w \in Waits,
             \/ \E o \in Operations : WaitGate(w, o)
             \/ WaitRegister(w) \/ WaitPoll(w) \/ WaitDrop(w)
      PROVE  WaitInv'
  BY <1>7, WaitGateStep, WaitRegisterStep, WaitPollStep, WaitDropStep, Zenon
<1>8. ASSUME NEW f \in Fibers, Finish(f)
      PROVE  WaitInv'
  BY <1>8, FinishStep, Zenon
<1>9. CASE ShutdownClear
  BY <1>9, ShutdownClearStep, Zenon
<1>10. ASSUME NEW o \in Operations, NEW kind \in NoticeKind, StoreCommit(o, kind)
       PROVE  WaitInv'
  BY <1>2, <1>10, Zenon DEF StoreCommit
<1>11. ASSUME NEW i \in DOMAIN ledger, StoreUnpark(i)
       PROVE  WaitInv'
  BY <1>2, <1>11, Zenon DEF StoreUnpark
<1>12. ASSUME NEW p \in Pumps, StartPump(p)
       PROVE  WaitInv'
  BY <1>2, <1>12, Zenon DEF StartPump
<1>13. CASE StopPump \/ UNCHANGED vars
  BY <1>2, <1>13, Zenon DEF StopPump, vars
<1>14. QED
  BY <1>3, <1>4, <1>5, <1>6, <1>7, <1>8, <1>9, <1>10, <1>11, <1>12, <1>13, Zenon DEF Next

LEMMA WakeInvInit ==
  ASSUME Init
  PROVE  WakeInv
<1>1. /\ runtime = "up" /\ fiber = [f \in Fibers |-> "absent"] /\ cancelled = {}
      /\ waits = [o \in Operations |-> None] /\ future = [w \in Waits |-> NewWait]
      /\ outcome = [o \in Operations |-> "none"] /\ pump = [p \in Pumps |-> NewPump]
      /\ current = None /\ tracker = NoTracker
  BY VolatileState, Zenon DEF Init, FiberPhase
<1>2. decided = {} /\ ledger = << >> /\ used = [faults |-> 0, unparks |-> 0, crashes |-> 0]
  BY Zenon DEF Init, LedgerInit
<1>3. TypeOK
  <2>1. ledger \in Seq(Notice)
    BY <1>2
  <2>2. used \in [faults : Nat, unparks : Nat, crashes : Nat]
    BY <1>2, Zenon
  <2>3. QED
    BY <1>1, <1>2, <2>1, <2>2, VolatileType, Zenon DEF TypeOK, WaitRecord, PumpRecord
<1>4. BatchesHeld
  <2>1. NewPump.batch = {} /\ NewPump.at \notin Busy /\ NewPump.at # "deliver"
    BY Zenon DEF NewPump, Busy
  <2>2. QED
    BY <1>1, <2>1, Zenon DEF BatchesHeld
<1>5. QED
  BY <1>1, <1>3, <1>4, FreshRegistry, Zenon DEF WakeInv

LEMMA WakeInvariant == Spec => []WakeInv
<1>1. Init => WakeInv
  BY WakeInvInit, Zenon
<1>2. WakeInv /\ [Next]_vars => WakeInv'
  BY TypeOKStep, BatchesStep, WaitInvStep, Zenon DEF WakeInv
<1>3. QED
  BY <1>1, <1>2, PTL DEF Spec

\* The wait registry holds nothing that nobody can consume, and loses no wait
\* that pends: wake.rs checks the flag and the fiber again under the waits
\* lock, and the purge and shutdown take every entry they outlive.
THEOREM RegistryStaysLive == Spec => []RegistryIsLive
<1>1. WakeInv => RegistryIsLive
  BY Zenon DEF WakeInv, WaitInv
<1>2. QED
  BY <1>1, WakeInvariant, PTL

\* What the pumps deliver is what the store committed to deliver: no wake that
\* was acknowledged as delivered is lost to a fiber that can use it, and no
\* fiber is woken without a committed wake, through crashes, faults, parked
\* entries, superseded and dropped waits and any number of pumps.
THEOREM DeliveryStaysExact == Spec => []DeliveryExact
<1>1. WakeInv => DeliveryExact
  BY Zenon DEF WakeInv, WaitInv, DeliveryExact
<1>2. QED
  BY <1>1, WakeInvariant, PTL

=============================================================================
