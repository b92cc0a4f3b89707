------------------------ MODULE OperationStoreProofs ------------------------
(***************************************************************************)
(* Proofs about OperationStore, for every set of operations, callbacks,    *)
(* receipts, keys, digests, results and reasons.                           *)
(***************************************************************************)
EXTENDS OperationStore, SequenceTheorems, TLAPS

(***************************************************************************)
(* Lemmas on the operators the actions are built from.                     *)
(***************************************************************************)
\* insert_outbox appends a well-formed entry.
LEMMA InsertOutboxType ==
  ASSUME outbox \in Seq(OutboxEntry), NEW kind \in OutboxKind, NEW o \in Operations,
         NEW cb \in Callbacks \cup {None}, NEW st \in Terminal, NEW r \in Receipts,
         InsertOutbox(kind, o, cb, st, r)
  PROVE  outbox' \in Seq(OutboxEntry)
<1> DEFINE e == [kind |-> kind, operation |-> o, callback |-> cb, state |-> st,
                 receipt |-> r, acknowledged |-> FALSE, parked |-> None,
                 unparked |-> None, parkCount |-> 0]
<1>1. e \in OutboxEntry
  BY Zenon DEF OutboxEntry
<1> HIDE DEF e
<1>2. outbox' = Append(outbox, e)
  BY Zenon DEF InsertOutbox, e
<1>3. QED
  BY <1>1, <1>2

LEMMA CancelOutboxType ==
  ASSUME outbox \in Seq(OutboxEntry), NEW o \in Operations, NEW r \in Receipts,
         CancelOutbox(o, r)
  PROVE  outbox' \in Seq(OutboxEntry)
<1>1. "cancelled_before_effect" \in Terminal /\ "wake_fiber" \in OutboxKind
  BY Zenon DEF Terminal, CompletionOutcome, OutboxKind
<1>2. CASE state[o] = "registered"
  BY <1>1, <1>2, InsertOutboxType, Zenon DEF CancelOutbox
<1>3. CASE state[o] # "registered"
  BY <1>3, Zenon DEF CancelOutbox
<1>4. QED
  BY <1>2, <1>3, Zenon

\* Filling in the result of a call keeps the calls well typed.
LEMMA ResultType ==
  ASSUME call \in [Keys -> Call], NEW k \in Keys, NEW r \in Receipts, NEW w \in Results,
         call' = [call EXCEPT ![k].receipt = r, ![k].result = w]
  PROVE  call' \in [Keys -> Call]
<1> DEFINE c == [[call[k] EXCEPT !.receipt = r] EXCEPT !.result = w]
<1>1. c \in Call
  BY Zenon DEF Call
<1>2. call' = [call EXCEPT ![k] = c]
  BY Zenon
<1> HIDE DEF c
<1>3. QED
  BY <1>1, <1>2, Zenon

(***************************************************************************)
(* Type correctness: no call of the store writes a malformed row.          *)
(***************************************************************************)
LEMMA TypeOKStep ==
  TypeOK /\ [Next]_vars => TypeOK'
<1> SUFFICES ASSUME TypeOK, [Next]_vars PROVE TypeOK'
  BY Zenon
<1>1. ASSUME NEW o \in Operations, register(o) PROVE TypeOK'
  <2>1. UNCHANGED <<dispatchVars, call, outbox>> /\ InsertMachine(o)
    BY <1>1, Zenon DEF register
  <2>2. QED
    BY <2>1, Zenon DEF TypeOK, dispatchVars, InsertMachine, OperationState, Open
<1>2. ASSUME NEW o \in Operations, activate_dispatch(o) PROVE TypeOK'
  BY <1>2, Zenon DEF activate_dispatch, MachineDispatch, TypeOK, OperationState, Open, Ticket
<1>3. ASSUME NEW o \in Operations, NEW cb \in Callbacks, prepare_dispatch(o, cb) PROVE TypeOK'
  BY <1>3, Zenon DEF prepare_dispatch, TypeOK, machineVars, Ticket
<1>4. ASSUME NEW o \in Operations, NEW cb \in Callbacks, dispatch(o, cb) PROVE TypeOK'
  BY <1>4, Zenon DEF dispatch, dispatchVars, MachineDispatch, TypeOK, OperationState, Open, Ticket
<1>5. ASSUME NEW o \in Operations, NEW r \in Receipts,
             MachineCancel(o, r), CancelOutbox(o, r), UNCHANGED dispatchVars,
             call' \in [Keys -> Call]
      PROVE  TypeOK'
  <2>1. outbox' \in Seq(OutboxEntry)
    BY <1>5, CancelOutboxType, Zenon DEF TypeOK
  <2>2. cancelEpoch' \in [Operations -> Nat] /\ UNCHANGED <<issued, accepted>>
    BY <1>5 DEF MachineCancel, TypeOK
  <2>3. state' \in [Operations -> OperationState]
    BY <1>5, Zenon DEF MachineCancel, TypeOK, OperationState, Open, Terminal, CompletionOutcome
  <2>4. receipt' \in [Operations -> Receipts \cup {None}]
    BY <1>5, Zenon DEF MachineCancel, TypeOK
  <2>5. QED
    BY <1>5, <2>1, <2>2, <2>3, <2>4, Zenon DEF TypeOK, dispatchVars
<1>6. ASSUME NEW o \in Operations, NEW r \in Receipts, NEW outcome \in CompletionOutcome,
             MachineComplete(o, outcome, r),
             InsertOutbox(CompletionKind(o), o, issued[o].callback, outcome, r),
             UNCHANGED dispatchVars, call' \in [Keys -> Call]
      PROVE  TypeOK'
  <2>1. /\ CompletionKind(o) \in OutboxKind
        /\ issued[o].callback \in Callbacks \cup {None}
        /\ outcome \in Terminal
    BY <1>6, Zenon DEF CompletionKind, OutboxKind, TypeOK, Ticket, Terminal
  <2>2. outbox' \in Seq(OutboxEntry)
    BY <1>6, <2>1, InsertOutboxType, Zenon DEF TypeOK
  <2>3. QED
    BY <1>6, <2>1, <2>2, Zenon DEF MachineComplete, TypeOK, dispatchVars, OperationState, Terminal
<1>7. ASSUME NEW o \in Operations, NEW k \in Keys, NEW d \in Digests,
             begin_idempotent_operation(k, d, o)
      PROVE  TypeOK'
  <2>1. call' \in [Keys -> Call]
    BY <1>7, Zenon DEF begin_idempotent_operation, TypeOK, Call
  <2>2. QED
    BY <1>7, <2>1, Zenon DEF begin_idempotent_operation, InsertMachine, TypeOK, dispatchVars,
                      OperationState, Open
<1>8. ASSUME NEW o \in Operations, NEW r \in Receipts, NEW outcome \in CompletionOutcome,
             NEW w \in Results, complete_idempotent_operation(o, outcome, r, w)
      PROVE  TypeOK'
  <2>1. call' \in [Keys -> Call] /\ UNCHANGED dispatchVars
    BY <1>8, ResultType, Zenon DEF complete_idempotent_operation, TypeOK
  <2>2. CASE /\ MachineComplete(o, outcome, r)
             /\ InsertOutbox(CompletionKind(o), o, issued[o].callback, outcome, r)
    BY <1>6, <2>1, <2>2, Zenon
  <2>3. CASE UNCHANGED <<machineVars, outbox>>
    BY <2>1, <2>3, Zenon DEF TypeOK, machineVars, dispatchVars
  <2>4. QED
    BY <1>8, <2>2, <2>3, Zenon DEF complete_idempotent_operation
<1>9. ASSUME NEW o \in Operations, NEW r \in Receipts, NEW w \in Results,
             cancel_idempotent_before_dispatch(o, r, w)
      PROVE  TypeOK'
  <2>1. call' \in [Keys -> Call]
    BY <1>9, ResultType, Zenon DEF cancel_idempotent_before_dispatch, TypeOK
  <2>2. QED
    BY <1>5, <1>9, <2>1, Zenon DEF cancel_idempotent_before_dispatch
<1>10. ASSUME NEW i \in DOMAIN outbox, acknowledge_outbox(i) PROVE TypeOK'
  <2> DEFINE e == [outbox[i] EXCEPT !.acknowledged = TRUE]
  <2>0. outbox[i] \in OutboxEntry /\ i \in 1..Len(outbox)
    BY ElementOfSeq DEF TypeOK
  <2>1. e \in OutboxEntry
    BY <2>0, Zenon DEF OutboxEntry
  <2> HIDE DEF e
  <2>2. outbox' = [outbox EXCEPT ![i] = e]
    BY <1>10, Zenon DEF acknowledge_outbox, e
  <2>3. outbox' \in Seq(OutboxEntry)
    BY <2>0, <2>1, <2>2, ExceptSeq, Zenon DEF TypeOK
  <2>4. QED
    BY <1>10, <2>3, Zenon DEF acknowledge_outbox, TypeOK, machineVars, dispatchVars
<1>11. ASSUME NEW i \in DOMAIN outbox, NEW why \in Reasons, park_outbox_entry(i, why)
       PROVE  TypeOK'
  <2> DEFINE n == outbox[i].parkCount + 1
             e == [outbox[i] EXCEPT !.parked = why, !.parkCount = n]
  <2>0. outbox[i] \in OutboxEntry /\ i \in 1..Len(outbox)
    BY ElementOfSeq DEF TypeOK
  <2>5. n \in Nat
    BY <2>0 DEF OutboxEntry
  <2> HIDE DEF n
  <2>1. e \in OutboxEntry
    BY <2>0, <2>5, Zenon DEF OutboxEntry
  <2> HIDE DEF e
  <2>2. outbox' = [outbox EXCEPT ![i] = e]
    BY <1>11, Zenon DEF park_outbox_entry, e, n
  <2>3. outbox' \in Seq(OutboxEntry)
    BY <2>0, <2>1, <2>2, ExceptSeq, Zenon DEF TypeOK
  <2>4. QED
    BY <1>11, <2>3, Zenon DEF park_outbox_entry, TypeOK, machineVars, dispatchVars
<1>12. ASSUME NEW i \in DOMAIN outbox, NEW why \in Reasons, unpark_outbox_entry(i, why)
       PROVE  TypeOK'
  <2> DEFINE e == [outbox[i] EXCEPT !.parked = None, !.unparked = why]
  <2>0. outbox[i] \in OutboxEntry /\ i \in 1..Len(outbox)
    BY ElementOfSeq DEF TypeOK
  <2>1. e \in OutboxEntry
    BY <2>0, Zenon DEF OutboxEntry
  <2> HIDE DEF e
  <2>2. outbox' = [outbox EXCEPT ![i] = e]
    BY <1>12, Zenon DEF unpark_outbox_entry, e
  <2>3. outbox' \in Seq(OutboxEntry)
    BY <2>0, <2>1, <2>2, ExceptSeq, Zenon DEF TypeOK
  <2>4. QED
    BY <1>12, <2>3, Zenon DEF unpark_outbox_entry, TypeOK, machineVars, dispatchVars
<1>13. CASE UNCHANGED vars
  BY <1>13, Zenon DEF vars, machineVars, dispatchVars, TypeOK
<1>14. ASSUME NEW o \in Operations, NEW r \in Receipts, NEW expected \in 0..1,
              request_cancel(o, r) \/ request_cancel_idempotent(o, expected, r)
       PROVE  TypeOK'
  BY <1>5, <1>14, Zenon DEF request_cancel, request_cancel_idempotent, TypeOK
<1>15. ASSUME NEW o \in Operations, NEW r \in Receipts, NEW outcome \in CompletionOutcome,
              complete(o, outcome, r)
       PROVE  TypeOK'
  BY <1>6, <1>15, Zenon DEF complete, TypeOK
<1>16. QED
  BY <1>1, <1>2, <1>3, <1>4, <1>7, <1>8, <1>9, <1>10, <1>11, <1>12, <1>13, <1>14, <1>15,
     OutcomesAssumption DEF Next

\* No sequence of store calls writes a malformed row (property TypeOK).
THEOREM TypeCorrect == Spec => []TypeOK
<1>1. Init => TypeOK
  BY DEF Init, TypeOK, OperationState, Ticket, NoTicket, Call, NoCall
<1>2. QED
  BY <1>1, TypeOKStep, PTL DEF Spec

(***************************************************************************)
(* The effects a step can have on the rows: one transition of one machine, *)
(* a new preparation, a result filled in, or marks on one outbox entry.    *)
(* Each lemma below says what that effect leaves alone.                    *)
(***************************************************************************)
\* A prepared callback is a real one.
PreparationsNamed ==
  \A o \in Operations : preparation[o].callback = None => preparation[o] = NoTicket

\* One entry got new marks (acknowledged, parked, unparked, park count).
OutboxMarked ==
  /\ UNCHANGED <<machineVars, dispatchVars, call>>
  /\ DOMAIN outbox' = DOMAIN outbox
  /\ \A i \in DOMAIN outbox :
       /\ outbox'[i].operation = outbox[i].operation
       /\ outbox'[i].kind = outbox[i].kind
       /\ outbox'[i].callback = outbox[i].callback
       /\ outbox'[i].state = outbox[i].state
       /\ outbox'[i].receipt = outbox[i].receipt
       /\ outbox[i].acknowledged => outbox'[i].acknowledged

\* A machine is inserted; a call may claim it.
Inserted(o) ==
  /\ InsertMachine(o)
  /\ UNCHANGED <<dispatchVars, outbox>>

\* A machine is dispatched directly, or through its preparation.
Dispatched(o, cb) ==
  /\ MachineDispatch(o, cb)
  /\ \/ preparation[o] = NoTicket /\ UNCHANGED activated
     \/ /\ preparation[o] = [callback |-> cb, epoch |-> 0]
        /\ activated' = activated \cup {o}
  /\ UNCHANGED <<preparation, call, outbox>>

Cancelled(o, r) ==
  /\ MachineCancel(o, r)
  /\ CancelOutbox(o, r)
  /\ UNCHANGED dispatchVars

Completed(o, outcome, r) ==
  /\ MachineComplete(o, outcome, r)
  /\ InsertOutbox(CompletionKind(o), o, issued[o].callback, outcome, r)
  /\ UNCHANGED dispatchVars

\* Every step of the store has one of these effects, or is a call of the
\* outbox's consumer.
LEMMA StoreEffects ==
  ASSUME TypeOK, PreparationsNamed, [Next]_vars
  PROVE  \/ \E o \in Operations : Inserted(o)
         \/ \E o \in Operations, cb \in Callbacks : Dispatched(o, cb)
         \/ \E o \in Operations, cb \in Callbacks : prepare_dispatch(o, cb)
         \/ \E o \in Operations, r \in Receipts : Cancelled(o, r)
         \/ \E o \in Operations, r \in Receipts, outcome \in CompletionOutcome :
              Completed(o, outcome, r)
         \/ UNCHANGED <<machineVars, dispatchVars, outbox>>
         \/ \E i \in DOMAIN outbox :
              \/ acknowledge_outbox(i)
              \/ \E why \in Reasons : park_outbox_entry(i, why) \/ unpark_outbox_entry(i, why)
<1>1. ASSUME NEW o \in Operations, register(o) PROVE Inserted(o)
  BY <1>1, Zenon DEF register, Inserted
<1>2. ASSUME NEW o \in Operations, activate_dispatch(o)
      PROVE  \E cb \in Callbacks : Dispatched(o, cb)
  <2> DEFINE cb == preparation[o].callback
  <2>1. preparation[o] \in Ticket
    BY Zenon DEF TypeOK
  <2>2. cb \in Callbacks
    BY <1>2, <2>1, Zenon DEF activate_dispatch, PreparationsNamed, Ticket
  <2>3. preparation[o] = [callback |-> cb, epoch |-> 0]
    BY <1>2, <2>1, Zenon DEF activate_dispatch, Ticket
  <2>4. Dispatched(o, cb)
    BY <1>2, <2>3, Zenon DEF activate_dispatch, Dispatched
  <2>5. QED
    BY <2>2, <2>4, Zenon
<1>3. ASSUME NEW o \in Operations, NEW cb \in Callbacks, dispatch(o, cb)
      PROVE  Dispatched(o, cb)
  BY <1>3, Zenon DEF dispatch, Dispatched, dispatchVars
<1>4. ASSUME NEW o \in Operations, NEW k \in Keys, NEW d \in Digests,
             begin_idempotent_operation(k, d, o)
      PROVE  Inserted(o)
  BY <1>4, Zenon DEF begin_idempotent_operation, Inserted
<1>5. ASSUME NEW o \in Operations, NEW r \in Receipts, NEW expected \in 0..1,
             request_cancel(o, r) \/ request_cancel_idempotent(o, expected, r)
      PROVE  Cancelled(o, r)
  BY <1>5, Zenon DEF request_cancel, request_cancel_idempotent, Cancelled
<1>6. ASSUME NEW o \in Operations, NEW r \in Receipts, NEW w \in Results,
             cancel_idempotent_before_dispatch(o, r, w)
      PROVE  Cancelled(o, r)
  BY <1>6, Zenon DEF cancel_idempotent_before_dispatch, Cancelled
<1>7. ASSUME NEW o \in Operations, NEW r \in Receipts, NEW outcome \in CompletionOutcome,
             complete(o, outcome, r)
      PROVE  Completed(o, outcome, r)
  BY <1>7, Zenon DEF complete, Completed
<1>8. ASSUME NEW o \in Operations, NEW r \in Receipts, NEW outcome \in CompletionOutcome,
             NEW w \in Results, complete_idempotent_operation(o, outcome, r, w)
      PROVE  Completed(o, outcome, r) \/ UNCHANGED <<machineVars, dispatchVars, outbox>>
  BY <1>8, Zenon DEF complete_idempotent_operation, Completed
<1>9. CASE UNCHANGED vars
  BY <1>9, Zenon DEF vars
<1>10. QED
  BY <1>1, <1>2, <1>3, <1>4, <1>5, <1>6, <1>7, <1>8, <1>9, OutcomesAssumption DEF Next

\* The consumer's calls only mark entries.
LEMMA Effects ==
  ASSUME TypeOK, PreparationsNamed, [Next]_vars
  PROVE  \/ \E o \in Operations : Inserted(o)
         \/ \E o \in Operations, cb \in Callbacks : Dispatched(o, cb)
         \/ \E o \in Operations, cb \in Callbacks : prepare_dispatch(o, cb)
         \/ \E o \in Operations, r \in Receipts : Cancelled(o, r)
         \/ \E o \in Operations, r \in Receipts, outcome \in CompletionOutcome :
              Completed(o, outcome, r)
         \/ UNCHANGED <<machineVars, dispatchVars, outbox>>
         \/ OutboxMarked
<1>1. ASSUME NEW i \in DOMAIN outbox, acknowledge_outbox(i) PROVE OutboxMarked
  <2>1. UNCHANGED <<machineVars, dispatchVars, call>>
    BY <1>1, Zenon DEF acknowledge_outbox
  <2>2. outbox' = [outbox EXCEPT ![i] = [outbox[i] EXCEPT !.acknowledged = TRUE]]
    BY <1>1, Zenon DEF acknowledge_outbox
  <2>3. \A j \in DOMAIN outbox : outbox[j] \in OutboxEntry
    BY ElementOfSeq DEF TypeOK
  <2>4. QED
    BY <2>1, <2>2, <2>3, Zenon DEF OutboxMarked, OutboxEntry
<1>2. ASSUME NEW i \in DOMAIN outbox, NEW why \in Reasons, park_outbox_entry(i, why)
       PROVE  OutboxMarked
  <2> DEFINE n == outbox[i].parkCount + 1
  <2>1. UNCHANGED <<machineVars, dispatchVars, call>>
    BY <1>2, Zenon DEF park_outbox_entry
  <2>2. outbox' = [outbox EXCEPT ![i] = [outbox[i] EXCEPT !.parked = why, !.parkCount = n]]
    BY <1>2, Zenon DEF park_outbox_entry
  <2> HIDE DEF n
  <2>3. \A j \in DOMAIN outbox : outbox[j] \in OutboxEntry
    BY ElementOfSeq DEF TypeOK
  <2>4. QED
    BY <2>1, <2>2, <2>3, Zenon DEF OutboxMarked, OutboxEntry
<1>3. ASSUME NEW i \in DOMAIN outbox, NEW why \in Reasons, unpark_outbox_entry(i, why)
       PROVE  OutboxMarked
  <2>1. UNCHANGED <<machineVars, dispatchVars, call>>
    BY <1>3, Zenon DEF unpark_outbox_entry
  <2>2. outbox' = [outbox EXCEPT ![i] = [outbox[i] EXCEPT !.parked = None, !.unparked = why]]
    BY <1>3, Zenon DEF unpark_outbox_entry
  <2>3. \A j \in DOMAIN outbox : outbox[j] \in OutboxEntry
    BY ElementOfSeq DEF TypeOK
  <2>4. QED
    BY <2>1, <2>2, <2>3, Zenon DEF OutboxMarked, OutboxEntry
<1>4. QED
  BY <1>1, <1>2, <1>3, StoreEffects, Zenon

(***************************************************************************)
(* The safety invariants.  RestoreAccepts needs that a prepared callback   *)
(* is a real one; OneEntryPerOutcome needs RestoreAccepts (an Operation    *)
(* cancelled before dispatch has accepted no callback) and the type of the *)
(* entries (an entry exists only for a terminal row, so the transition     *)
(* that appends one finds none); LateCallbackReconciles needs both.        *)
(***************************************************************************)
StoreInv ==
  /\ TypeOK
  /\ PreparationsNamed
  /\ RestoreAccepts
  /\ OneEntryPerOutcome
  /\ LateCallbackReconciles
  /\ NoDispatchBypass

LEMMA PreparationsNamedStep ==
  ASSUME TypeOK, PreparationsNamed, [Next]_vars
  PROVE  PreparationsNamed'
<1>1. ASSUME NEW o \in Operations, NEW cb \in Callbacks, prepare_dispatch(o, cb)
      PROVE  PreparationsNamed'
  BY <1>1, NoneAssumption, Zenon DEF prepare_dispatch, PreparationsNamed, TypeOK
<1>2. CASE UNCHANGED preparation
  BY <1>2, Zenon DEF PreparationsNamed
<1>3. QED
  BY <1>1, <1>2, Effects, Zenon
     DEF Inserted, Dispatched, Cancelled, Completed, OutboxMarked, dispatchVars

\* A step touches the row of one Operation.
OthersKept(o) ==
  \A p \in Operations \ {o} :
    /\ state'[p] = state[p] /\ receipt'[p] = receipt[p]
    /\ accepted'[p] = accepted[p] /\ cancelEpoch'[p] = cancelEpoch[p]
    /\ issued'[p] = issued[p]

LEMMA OneRowMoves ==
  ASSUME RestoreAccepts, NEW o \in Operations, OthersKept(o), RowRestores(o)'
  PROVE  RestoreAccepts'
<1>1. ASSUME NEW p \in Operations, p # o PROVE RowRestores(p)'
  <2>1. /\ state'[p] = state[p] /\ receipt'[p] = receipt[p]
        /\ accepted'[p] = accepted[p] /\ cancelEpoch'[p] = cancelEpoch[p]
        /\ issued'[p] = issued[p]
    BY <1>1, Zenon DEF OthersKept
  <2>2. RowRestores(p)
    BY Zenon DEF RestoreAccepts
  <2>3. QED
    BY <2>1, <2>2, Zenon DEF RowRestores
<1>2. QED
  BY <1>1, Zenon DEF RestoreAccepts

\* What each transition leaves in the row of its Operation.
LEMMA InsertedRow ==
  ASSUME TypeOK, NEW o \in Operations, Inserted(o)
  PROVE  /\ OthersKept(o)
         /\ state[o] = "absent" /\ state'[o] = "registered" /\ receipt'[o] = receipt[o]
         /\ accepted'[o] = accepted[o] /\ cancelEpoch'[o] = cancelEpoch[o]
         /\ issued'[o] = issued[o]
<1>1. state \in [Operations -> OperationState]
  BY Zenon DEF TypeOK
<1>2. state[o] = "absent" /\ state' = [state EXCEPT ![o] = "registered"]
      /\ UNCHANGED <<receipt, cancelEpoch, issued, accepted>>
  BY Zenon DEF Inserted, InsertMachine
<1>3. QED
  BY <1>1, <1>2, Zenon DEF OthersKept

LEMMA DispatchedRow ==
  ASSUME TypeOK, NEW o \in Operations, NEW cb \in Callbacks, Dispatched(o, cb)
  PROVE  /\ OthersKept(o)
         /\ state[o] = "registered" /\ state'[o] = "dispatched" /\ receipt'[o] = receipt[o]
         /\ accepted'[o] = accepted[o] /\ cancelEpoch'[o] = cancelEpoch[o]
         /\ issued'[o].callback = cb /\ issued'[o].epoch = cancelEpoch[o]
<1>1. state \in [Operations -> OperationState] /\ issued \in [Operations -> Ticket]
  BY Zenon DEF TypeOK
<1>2. /\ state[o] = "registered" /\ state' = [state EXCEPT ![o] = "dispatched"]
      /\ issued' = [issued EXCEPT ![o] = [callback |-> cb, epoch |-> cancelEpoch[o]]]
      /\ UNCHANGED <<receipt, cancelEpoch, accepted>>
  BY Zenon DEF Dispatched, MachineDispatch
<1>3. QED
  BY <1>1, <1>2, Zenon DEF OthersKept

LEMMA CancelledRow ==
  ASSUME TypeOK, NEW o \in Operations, NEW r \in Receipts, Cancelled(o, r)
  PROVE  /\ OthersKept(o)
         /\ accepted' = accepted /\ issued' = issued
         /\ cancelEpoch'[o] = cancelEpoch[o] + 1
         /\ \/ /\ state[o] = "registered" /\ state'[o] = "cancelled_before_effect"
               /\ receipt'[o] = r
            \/ /\ state[o] = "dispatched" /\ state'[o] = "cancel_requested"
               /\ receipt'[o] = receipt[o]
<1>1. /\ state \in [Operations -> OperationState] /\ cancelEpoch \in [Operations -> Nat]
      /\ receipt \in [Operations -> Receipts \cup {None}]
  BY Zenon DEF TypeOK
<1>2. cancelEpoch' = [cancelEpoch EXCEPT ![o] = cancelEpoch[o] + 1]
      /\ UNCHANGED <<issued, accepted>>
  BY Zenon DEF Cancelled, MachineCancel
<1>3. CASE /\ state[o] = "registered"
           /\ state' = [state EXCEPT ![o] = "cancelled_before_effect"]
           /\ receipt' = [receipt EXCEPT ![o] = r]
  BY <1>1, <1>2, <1>3, Zenon DEF OthersKept
<1>4. CASE /\ state[o] = "dispatched"
           /\ state' = [state EXCEPT ![o] = "cancel_requested"]
           /\ UNCHANGED receipt
  BY <1>1, <1>2, <1>4, Zenon DEF OthersKept
<1>5. QED
  BY <1>3, <1>4, Zenon DEF Cancelled, MachineCancel

LEMMA CompletedRow ==
  ASSUME TypeOK, NEW o \in Operations, NEW r \in Receipts,
         NEW outcome \in CompletionOutcome, Completed(o, outcome, r)
  PROVE  /\ OthersKept(o)
         /\ issued[o].callback # None /\ state[o] \in {"dispatched", "cancel_requested"}
         /\ state'[o] = outcome /\ receipt'[o] = r
         /\ accepted'[o] = issued[o].callback
         /\ cancelEpoch' = cancelEpoch /\ issued' = issued
<1>1. /\ state \in [Operations -> OperationState]
      /\ receipt \in [Operations -> Receipts \cup {None}]
      /\ accepted \in [Operations -> Callbacks \cup {None}]
  BY Zenon DEF TypeOK
<1>2. /\ issued[o].callback # None /\ state[o] \in {"dispatched", "cancel_requested"}
      /\ state' = [state EXCEPT ![o] = outcome]
      /\ receipt' = [receipt EXCEPT ![o] = r]
      /\ accepted' = [accepted EXCEPT ![o] = issued[o].callback]
      /\ UNCHANGED <<cancelEpoch, issued>>
  BY Zenon DEF Completed, MachineComplete
<1>3. QED
  BY <1>1, <1>2, Zenon DEF OthersKept

LEMMA RestoreAcceptsStep ==
  ASSUME TypeOK, PreparationsNamed, RestoreAccepts, [Next]_vars
  PROVE  RestoreAccepts'
<1>0. "cancelled_before_effect" \in Terminal /\ Terminal = CompletionOutcome
      /\ "registered" \notin Terminal /\ "dispatched" \notin Terminal
      /\ "cancel_requested" \notin Terminal /\ "absent" \notin Terminal
  BY Zenon DEF Terminal, CompletionOutcome
<1>1. ASSUME NEW o \in Operations, Inserted(o) PROVE RestoreAccepts'
  <2>1. RowRestores(o)
    BY Zenon DEF RestoreAccepts
  <2>2. RowRestores(o)'
    BY <1>0, <1>1, <2>1, InsertedRow, Zenon DEF RowRestores
  <2>3. QED
    BY <1>1, <2>2, InsertedRow, OneRowMoves, Zenon
<1>2. ASSUME NEW o \in Operations, NEW cb \in Callbacks, Dispatched(o, cb)
      PROVE  RestoreAccepts'
  <2>1. RowRestores(o)
    BY Zenon DEF RestoreAccepts
  <2>2. cb # None
    BY NoneAssumption, Zenon
  <2>3. /\ state[o] = "registered" /\ state'[o] = "dispatched" /\ receipt'[o] = receipt[o]
        /\ accepted'[o] = accepted[o] /\ cancelEpoch'[o] = cancelEpoch[o]
        /\ issued'[o].callback = cb /\ issued'[o].epoch = cancelEpoch[o]
    BY <1>2, DispatchedRow, Zenon
  <2>4. accepted[o] = None /\ receipt[o] = None
    BY <1>0, <2>1, <2>3, Zenon DEF RowRestores
  <2>5. RowRestores(o)'
    BY <1>0, <2>2, <2>3, <2>4, Zenon DEF RowRestores
  <2>6. QED
    BY <1>2, <2>5, DispatchedRow, OneRowMoves, Zenon
<1>3. ASSUME NEW o \in Operations, NEW r \in Receipts, Cancelled(o, r)
      PROVE  RestoreAccepts'
  <2>1. RowRestores(o) /\ r # None
    BY NoneAssumption, Zenon DEF RestoreAccepts
  <2>2. RowRestores(o)'
    <3>1. CASE state[o] = "registered"
      <4>1. /\ state'[o] = "cancelled_before_effect" /\ receipt'[o] = r
            /\ cancelEpoch'[o] = cancelEpoch[o] + 1
            /\ accepted' = accepted /\ issued' = issued
        BY <1>3, <3>1, CancelledRow, Zenon
      <4>2. issued[o].callback = None /\ cancelEpoch[o] = 0 /\ accepted[o] = None
        BY <2>1, <3>1, Zenon DEF RowRestores
      <4>3. cancelEpoch'[o] = 1
        BY <4>1, <4>2
      <4>4. QED
        BY <1>0, <2>1, <4>1, <4>2, <4>3, Zenon DEF RowRestores
    <3>2. CASE state[o] = "dispatched"
      <4>1. /\ state'[o] = "cancel_requested" /\ receipt'[o] = receipt[o]
            /\ cancelEpoch'[o] = cancelEpoch[o] + 1
            /\ accepted' = accepted /\ issued' = issued
        BY <1>3, <3>2, CancelledRow, Zenon
      <4>2. /\ issued[o].callback # None /\ cancelEpoch[o] = issued[o].epoch
            /\ accepted[o] = None /\ receipt[o] = None
        BY <1>0, <2>1, <3>2, Zenon DEF RowRestores
      <4>3. QED
        BY <1>0, <4>1, <4>2, Zenon DEF RowRestores
    <3>3. QED
      BY <1>3, <3>1, <3>2, CancelledRow, Zenon
  <2>3. QED
    BY <1>3, <2>2, CancelledRow, OneRowMoves, Zenon
<1>4. ASSUME NEW o \in Operations, NEW r \in Receipts, NEW outcome \in CompletionOutcome,
             Completed(o, outcome, r)
      PROVE  RestoreAccepts'
  <2>1. RowRestores(o) /\ r # None
    BY NoneAssumption, Zenon DEF RestoreAccepts
  <2>2. /\ issued[o].callback # None /\ state[o] \in {"dispatched", "cancel_requested"}
        /\ state'[o] = outcome /\ receipt'[o] = r
        /\ accepted'[o] = issued[o].callback
        /\ cancelEpoch' = cancelEpoch /\ issued' = issued
    BY <1>4, CompletedRow, Zenon
  <2>3. cancelEpoch[o] \in {issued[o].epoch, issued[o].epoch + 1}
    BY <2>1, <2>2, Zenon DEF RowRestores
  <2>4. outcome \in Terminal
        /\ outcome \notin {"absent", "registered", "dispatched", "cancel_requested"}
    BY <1>0, Zenon
  <2>5. RowRestores(o)'
    BY <2>1, <2>2, <2>3, <2>4, Zenon DEF RowRestores
  <2>6. QED
    BY <1>4, <2>5, CompletedRow, OneRowMoves, Zenon
<1>5. CASE UNCHANGED machineVars
  BY <1>5, Zenon DEF machineVars, RestoreAccepts, RowRestores
<1>6. QED
  BY <1>1, <1>2, <1>3, <1>4, <1>5, Effects, Zenon DEF prepare_dispatch, OutboxMarked

\* The entry a terminal transition of o appends keeps the correspondence
\* between terminal rows and entries, as o had none.
Appended(o, kind, cb) ==
  /\ \A i \in DOMAIN outbox :
       outbox'[i] = outbox[i] /\ outbox[i].operation \in Operations \ {o}
  /\ \A i \in DOMAIN outbox' : i \notin DOMAIN outbox =>
       outbox'[i].operation = o /\ outbox'[i].kind = kind /\ outbox'[i].callback = cb

LEMMA AppendEntry ==
  ASSUME TypeOK, OneEntryPerOutcome,
         NEW o \in Operations, state[o] \notin Terminal,
         NEW kind \in OutboxKind, NEW cb \in Callbacks \cup {None},
         NEW st \in Terminal, NEW r \in Receipts,
         InsertOutbox(kind, o, cb, st, r),
         OthersKept(o), state'[o] = st, receipt'[o] = r, accepted'[o] = cb
  PROVE  OneEntryPerOutcome' /\ Appended(o, kind, cb)
<1> DEFINE e == [kind |-> kind, operation |-> o, callback |-> cb, state |-> st,
                 receipt |-> r, acknowledged |-> FALSE, parked |-> None,
                 unparked |-> None, parkCount |-> 0]
           n == Len(outbox) + 1
<1>1. outbox \in Seq(OutboxEntry) /\ e \in OutboxEntry
  BY Zenon DEF TypeOK, OutboxEntry
<1>2. /\ e.operation = o /\ e.kind = kind /\ e.callback = cb
      /\ e.state = st /\ e.receipt = r
  BY Zenon
<1>3. outbox' = Append(outbox, e)
  BY Zenon DEF InsertOutbox
<1> HIDE DEF e
<1>4. /\ Len(outbox) \in Nat
      /\ DOMAIN outbox = 1 .. Len(outbox)
      /\ DOMAIN outbox' = 1 .. n
      /\ outbox'[n] = e
      /\ \A i \in DOMAIN outbox : outbox'[i] = outbox[i]
  <2>1. Len(outbox) \in Nat /\ DOMAIN outbox = 1 .. Len(outbox)
    BY <1>1, LenProperties, Zenon
  <2>2. /\ Append(outbox, e) \in Seq(OutboxEntry)
        /\ Len(Append(outbox, e)) = n
        /\ \A i \in 1 .. Len(outbox) : Append(outbox, e)[i] = outbox[i]
        /\ Append(outbox, e)[n] = e
    BY <1>1, AppendProperties
  <2>3. DOMAIN outbox' = 1 .. n
    BY <1>3, <2>2, LenProperties, Zenon
  <2>4. QED
    BY <1>3, <2>1, <2>2, <2>3, Zenon
<1>5. \A i \in DOMAIN outbox : outbox[i] \in OutboxEntry
  BY <1>1, ElementOfSeq
<1>6. \A i \in DOMAIN outbox : outbox[i].operation # o /\ outbox[i].operation \in Operations
  <2> TAKE i \in DOMAIN outbox
  <2>1. outbox[i].operation \in Operations /\ outbox[i].state \in Terminal
    BY <1>5, Zenon DEF OutboxEntry
  <2>2. state[outbox[i].operation] = outbox[i].state
    BY Zenon DEF OneEntryPerOutcome
  <2>3. QED
    BY <2>1, <2>2, Zenon
<1>7. \A i \in DOMAIN outbox' : i \in DOMAIN outbox \/ i = n
  <2>1. Len(outbox) \in Nat /\ DOMAIN outbox = 1 .. Len(outbox) /\ DOMAIN outbox' = 1 .. n
    BY <1>4, Zenon
  <2>2. \A i \in 1 .. n : i \in 1 .. Len(outbox) \/ i = n
    BY <2>1
  <2>3. QED
    BY <2>1, <2>2, Zenon
<1> HIDE DEF n
<1>8. \A i, j \in DOMAIN outbox' : outbox'[i].operation = outbox'[j].operation => i = j
  <2> TAKE i, j \in DOMAIN outbox'
  <2>1. CASE i \in DOMAIN outbox /\ j \in DOMAIN outbox
    BY <1>4, <2>1, Zenon DEF OneEntryPerOutcome
  <2>2. CASE i = n /\ j = n
    BY <2>2, Zenon
  <2>3. CASE i \in DOMAIN outbox /\ j = n
    BY <1>2, <1>4, <1>6, <2>3, Zenon
  <2>4. CASE i = n /\ j \in DOMAIN outbox
    BY <1>2, <1>4, <1>6, <2>4, Zenon
  <2>5. QED
    BY <1>7, <2>1, <2>2, <2>3, <2>4, Zenon
<1>9. \A i \in DOMAIN outbox' :
        /\ state'[outbox'[i].operation] = outbox'[i].state
        /\ receipt'[outbox'[i].operation] = outbox'[i].receipt
        /\ accepted'[outbox'[i].operation] = outbox'[i].callback
  <2> TAKE i \in DOMAIN outbox'
  <2>1. CASE i \in DOMAIN outbox
    <3>1. /\ state[outbox[i].operation] = outbox[i].state
          /\ receipt[outbox[i].operation] = outbox[i].receipt
          /\ accepted[outbox[i].operation] = outbox[i].callback
      BY <2>1, Zenon DEF OneEntryPerOutcome
    <3>2. outbox'[i] = outbox[i] /\ outbox[i].operation \in Operations \ {o}
      BY <1>4, <1>6, <2>1, Zenon
    <3>3. QED
      BY <3>1, <3>2, Zenon DEF OthersKept
  <2>2. CASE i = n
    BY <1>2, <1>4, <2>2, Zenon
  <2>3. QED
    BY <1>7, <2>1, <2>2, Zenon
<1>10. ASSUME NEW p \in Operations, state'[p] \in Terminal
       PROVE  \E i \in DOMAIN outbox' : outbox'[i].operation = p
  <2>1. CASE p = o
    BY <1>2, <1>4, <2>1 DEF n
  <2>2. CASE p # o
    <3>1. state[p] \in Terminal
      BY <1>10, <2>2, Zenon DEF OthersKept
    <3>2. PICK i \in DOMAIN outbox : outbox[i].operation = p
      BY <3>1, Zenon DEF OneEntryPerOutcome
    <3>3. QED
      BY <1>4, <3>2 DEF n
  <2>3. QED
    BY <2>1, <2>2, Zenon
<1>11. OneEntryPerOutcome'
  BY <1>8, <1>9, <1>10, Zenon DEF OneEntryPerOutcome
<1>12. Appended(o, kind, cb)
  BY <1>2, <1>4, <1>6, <1>7, Zenon DEF Appended
<1>13. QED
  BY <1>11, <1>12, Zenon

LEMMA OutboxStep ==
  ASSUME TypeOK, PreparationsNamed, RestoreAccepts, OneEntryPerOutcome,
         LateCallbackReconciles, [Next]_vars
  PROVE  OneEntryPerOutcome' /\ LateCallbackReconciles'
<1>0. /\ "cancelled_before_effect" \in Terminal /\ Terminal = CompletionOutcome
      /\ "registered" \notin Terminal /\ "dispatched" \notin Terminal
      /\ "cancel_requested" \notin Terminal /\ "absent" \notin Terminal
      /\ "wake_fiber" \in OutboxKind /\ "reconcile_effect" \in OutboxKind
      /\ "wake_fiber" # "reconcile_effect"
  BY Zenon DEF Terminal, CompletionOutcome, OutboxKind
<1>1. \A i \in DOMAIN outbox :
        /\ outbox[i].operation \in Operations
        /\ state[outbox[i].operation] \in Terminal
  <2>1. \A i \in DOMAIN outbox : outbox[i] \in OutboxEntry
    BY ElementOfSeq DEF TypeOK
  <2>2. QED
    BY <2>1, Zenon DEF OneEntryPerOutcome, OutboxEntry
<1>2. ASSUME NEW o \in Operations, state[o] \notin Terminal, state'[o] \notin Terminal,
             UNCHANGED outbox, OthersKept(o)
      PROVE  OneEntryPerOutcome' /\ LateCallbackReconciles'
  <2>1. \A i \in DOMAIN outbox : outbox[i].operation \in Operations \ {o}
    BY <1>1, <1>2, Zenon
  <2>2. OneEntryPerOutcome'
    <3>1. \A i, j \in DOMAIN outbox' : outbox'[i].operation = outbox'[j].operation => i = j
      BY <1>2, Zenon DEF OneEntryPerOutcome
    <3>2. ASSUME NEW i \in DOMAIN outbox
          PROVE  /\ state'[outbox[i].operation] = outbox[i].state
                 /\ receipt'[outbox[i].operation] = outbox[i].receipt
                 /\ accepted'[outbox[i].operation] = outbox[i].callback
      <4>1. /\ state[outbox[i].operation] = outbox[i].state
            /\ receipt[outbox[i].operation] = outbox[i].receipt
            /\ accepted[outbox[i].operation] = outbox[i].callback
        BY Zenon DEF OneEntryPerOutcome
      <4>2. QED
        BY <1>2, <2>1, <4>1, Zenon DEF OthersKept
    <3>3. ASSUME NEW p \in Operations, state'[p] \in Terminal
          PROVE  \E i \in DOMAIN outbox : outbox[i].operation = p
      <4>1. state[p] \in Terminal
        BY <1>2, <3>3, Zenon DEF OthersKept
      <4>2. QED
        BY <4>1, Zenon DEF OneEntryPerOutcome
    <3>4. QED
      BY <1>2, <3>1, <3>2, <3>3, Zenon DEF OneEntryPerOutcome
  <2>3. LateCallbackReconciles'
    <3> SUFFICES ASSUME NEW i \in DOMAIN outbox
                 PROVE  (outbox[i].kind = "reconcile_effect") <=>
                        (/\ outbox[i].callback # None
                         /\ cancelEpoch'[outbox[i].operation] # issued'[outbox[i].operation].epoch)
      BY <1>2, Zenon DEF LateCallbackReconciles
    <3>1. /\ cancelEpoch'[outbox[i].operation] = cancelEpoch[outbox[i].operation]
          /\ issued'[outbox[i].operation] = issued[outbox[i].operation]
      BY <1>2, <2>1, Zenon DEF OthersKept
    <3>2. QED
      BY <3>1, Zenon DEF LateCallbackReconciles
  <2>4. QED
    BY <2>2, <2>3, Zenon
<1>3. ASSUME NEW o \in Operations, Inserted(o)
      PROVE  OneEntryPerOutcome' /\ LateCallbackReconciles'
  <2>1. UNCHANGED outbox
    BY <1>3, Zenon DEF Inserted
  <2>2. QED
    BY <1>0, <1>2, <1>3, <2>1, InsertedRow, Zenon
<1>4. ASSUME NEW o \in Operations, NEW cb \in Callbacks, Dispatched(o, cb)
      PROVE  OneEntryPerOutcome' /\ LateCallbackReconciles'
  <2>1. UNCHANGED outbox
    BY <1>4, Zenon DEF Dispatched
  <2>2. QED
    BY <1>0, <1>2, <1>4, <2>1, DispatchedRow, Zenon
<1>5. ASSUME NEW o \in Operations, NEW kind \in OutboxKind, NEW cb \in Callbacks \cup {None},
             OthersKept(o), Appended(o, kind, cb),
             (kind = "reconcile_effect") <=>
               (cb # None /\ cancelEpoch'[o] # issued'[o].epoch)
      PROVE  LateCallbackReconciles'
  <2> SUFFICES ASSUME NEW i \in DOMAIN outbox'
               PROVE  (outbox'[i].kind = "reconcile_effect") <=>
                      (/\ outbox'[i].callback # None
                       /\ cancelEpoch'[outbox'[i].operation] # issued'[outbox'[i].operation].epoch)
    BY Zenon DEF LateCallbackReconciles
  <2>1. CASE i \in DOMAIN outbox
    <3>1. outbox'[i] = outbox[i] /\ outbox[i].operation \in Operations \ {o}
      BY <1>5, <2>1, Zenon DEF Appended
    <3>2. /\ cancelEpoch'[outbox[i].operation] = cancelEpoch[outbox[i].operation]
          /\ issued'[outbox[i].operation] = issued[outbox[i].operation]
      BY <1>5, <3>1, Zenon DEF OthersKept
    <3>3. (outbox[i].kind = "reconcile_effect") <=>
            (/\ outbox[i].callback # None
             /\ cancelEpoch[outbox[i].operation] # issued[outbox[i].operation].epoch)
      BY <2>1, Zenon DEF LateCallbackReconciles
    <3>4. QED
      BY <3>1, <3>2, <3>3, Zenon
  <2>2. CASE i \notin DOMAIN outbox
    <3>1. outbox'[i].operation = o /\ outbox'[i].kind = kind /\ outbox'[i].callback = cb
      BY <1>5, <2>2, Zenon DEF Appended
    <3>2. QED
      BY <1>5, <3>1, Zenon
  <2>3. QED
    BY <2>1, <2>2, Zenon
<1>6. ASSUME NEW o \in Operations, NEW r \in Receipts, Cancelled(o, r)
      PROVE  OneEntryPerOutcome' /\ LateCallbackReconciles'
  <2>1. CASE state[o] = "dispatched"
    <3>1. UNCHANGED outbox
      BY <1>6, <2>1, Zenon DEF Cancelled, CancelOutbox
    <3>2. OthersKept(o) /\ state'[o] = "cancel_requested"
      BY <1>6, <2>1, CancelledRow, Zenon
    <3>3. QED
      BY <1>0, <1>2, <2>1, <3>1, <3>2, Zenon
  <2>2. CASE state[o] = "registered"
    <3>1. accepted[o] = None
      <4>1. RowRestores(o)
        BY Zenon DEF RestoreAccepts
      <4>2. QED
        BY <2>2, <4>1, Zenon DEF RowRestores
    <3>2. /\ OthersKept(o) /\ state'[o] = "cancelled_before_effect" /\ receipt'[o] = r
          /\ accepted' = accepted
      BY <1>6, <2>2, CancelledRow, Zenon
    <3>3. InsertOutbox("wake_fiber", o, None, "cancelled_before_effect", r)
      BY <1>6, <2>2, Zenon DEF Cancelled, CancelOutbox
    <3>4. state[o] \notin Terminal /\ accepted'[o] = None
      BY <1>0, <2>2, <3>1, <3>2, Zenon
    <3>5. OneEntryPerOutcome' /\ Appended(o, "wake_fiber", None)
      BY <1>0, <3>2, <3>3, <3>4, AppendEntry, Zenon
    <3>6. LateCallbackReconciles'
      BY <1>0, <1>5, <3>2, <3>5, Zenon
    <3>7. QED
      BY <3>5, <3>6, Zenon
  <2>3. QED
    BY <1>6, <2>1, <2>2, Zenon DEF Cancelled, MachineCancel
<1>7. ASSUME NEW o \in Operations, NEW r \in Receipts, NEW outcome \in CompletionOutcome,
             Completed(o, outcome, r)
      PROVE  OneEntryPerOutcome' /\ LateCallbackReconciles'
  <2> DEFINE cb == issued[o].callback
  <2>1. /\ OthersKept(o) /\ cb # None /\ state[o] \in {"dispatched", "cancel_requested"}
        /\ state'[o] = outcome /\ receipt'[o] = r /\ accepted'[o] = cb
        /\ cancelEpoch' = cancelEpoch /\ issued' = issued
    BY <1>7, CompletedRow, Zenon
  <2>2. cb \in Callbacks \cup {None} /\ issued[o].epoch \in Nat
    <3>1. issued[o] \in Ticket
      BY Zenon DEF TypeOK
    <3>2. QED
      BY <3>1, Zenon DEF Ticket
  <2>3. CompletionKind(o) \in OutboxKind /\ state[o] \notin Terminal
    BY <1>0, <2>1, Zenon DEF CompletionKind
  <2>4. (CompletionKind(o) = "reconcile_effect") <=> (cancelEpoch[o] # issued[o].epoch)
    <3>1. RowRestores(o)
      BY Zenon DEF RestoreAccepts
    <3>2. CASE state[o] = "dispatched"
      <4>1. cancelEpoch[o] = issued[o].epoch
        BY <3>1, <3>2, Zenon DEF RowRestores
      <4>2. QED
        BY <3>2, <4>1, Zenon DEF CompletionKind, WakeAllowed
    <3>3. CASE state[o] = "cancel_requested"
      <4>1. cancelEpoch[o] = issued[o].epoch + 1
        BY <3>1, <3>3, Zenon DEF RowRestores
      <4>2. cancelEpoch[o] # issued[o].epoch
        BY <2>2, <4>1
      <4>3. QED
        BY <3>3, <4>2, Zenon DEF CompletionKind, WakeAllowed
    <3>4. QED
      BY <2>1, <3>2, <3>3, Zenon
  <2>5. InsertOutbox(CompletionKind(o), o, cb, outcome, r)
    BY <1>7, Zenon DEF Completed
  <2> HIDE DEF cb
  <2>6. OneEntryPerOutcome' /\ Appended(o, CompletionKind(o), cb)
    BY <1>0, <2>1, <2>2, <2>3, <2>5, AppendEntry, Zenon
  <2>7. LateCallbackReconciles'
    BY <1>5, <2>1, <2>2, <2>3, <2>4, <2>6, Zenon
  <2>8. QED
    BY <2>6, <2>7, Zenon
<1>8. CASE UNCHANGED <<machineVars, outbox>>
  BY <1>8, Zenon DEF machineVars, OneEntryPerOutcome, LateCallbackReconciles
<1>9. CASE OutboxMarked
  <2>1. UNCHANGED <<state, receipt, cancelEpoch, issued, accepted>>
    BY <1>9, Zenon DEF OutboxMarked, machineVars
  <2>2. /\ DOMAIN outbox' = DOMAIN outbox
        /\ \A i \in DOMAIN outbox :
             /\ outbox'[i].operation = outbox[i].operation
             /\ outbox'[i].kind = outbox[i].kind
             /\ outbox'[i].callback = outbox[i].callback
             /\ outbox'[i].state = outbox[i].state
             /\ outbox'[i].receipt = outbox[i].receipt
    BY <1>9, Zenon DEF OutboxMarked
  <2>3. OneEntryPerOutcome'
    <3>1. \A i, j \in DOMAIN outbox' : outbox'[i].operation = outbox'[j].operation => i = j
      BY <2>2, Zenon DEF OneEntryPerOutcome
    <3>2. ASSUME NEW i \in DOMAIN outbox'
          PROVE  /\ state'[outbox'[i].operation] = outbox'[i].state
                 /\ receipt'[outbox'[i].operation] = outbox'[i].receipt
                 /\ accepted'[outbox'[i].operation] = outbox'[i].callback
      <4>1. /\ state[outbox[i].operation] = outbox[i].state
            /\ receipt[outbox[i].operation] = outbox[i].receipt
            /\ accepted[outbox[i].operation] = outbox[i].callback
        BY <2>2, Zenon DEF OneEntryPerOutcome
      <4>2. QED
        BY <2>1, <2>2, <4>1, Zenon
    <3>3. ASSUME NEW p \in Operations, state'[p] \in Terminal
          PROVE  \E i \in DOMAIN outbox' : outbox'[i].operation = p
      <4>1. PICK i \in DOMAIN outbox : outbox[i].operation = p
        BY <2>1, <3>3, Zenon DEF OneEntryPerOutcome
      <4>2. QED
        BY <2>2, <4>1, Zenon
    <3>4. QED
      BY <3>1, <3>2, <3>3, Zenon DEF OneEntryPerOutcome
  <2>4. LateCallbackReconciles'
    <3> SUFFICES ASSUME NEW i \in DOMAIN outbox'
                 PROVE  (outbox'[i].kind = "reconcile_effect") <=>
                        (/\ outbox'[i].callback # None
                         /\ cancelEpoch[outbox'[i].operation] # issued[outbox'[i].operation].epoch)
      BY <2>1, Zenon DEF LateCallbackReconciles
    <3>1. QED
      BY <2>2, Zenon DEF LateCallbackReconciles
  <2>5. QED
    BY <2>3, <2>4, Zenon
<1>10. QED
  BY <1>3, <1>4, <1>6, <1>7, <1>8, <1>9, Effects, Zenon DEF prepare_dispatch

LEMMA NoDispatchBypassStep ==
  ASSUME TypeOK, PreparationsNamed, RestoreAccepts, NoDispatchBypass, [Next]_vars
  PROVE  NoDispatchBypass'
<1>1. ASSUME NEW o \in Operations, NEW cb \in Callbacks, Dispatched(o, cb)
      PROVE  NoDispatchBypass'
  <2>1. cancelEpoch[o] = 0 /\ issued[o].callback = None
    BY <1>1, Zenon DEF Dispatched, MachineDispatch, RestoreAccepts, RowRestores
  <2>2. issued' = [issued EXCEPT ![o] = [callback |-> cb, epoch |-> 0]]
        /\ UNCHANGED preparation
    BY <1>1, <2>1, Zenon DEF Dispatched, MachineDispatch
  <2>3. CASE preparation[o] = NoTicket /\ UNCHANGED activated
    BY <2>2, <2>3, Zenon DEF NoDispatchBypass, TypeOK
  <2>4. CASE /\ preparation[o] = [callback |-> cb, epoch |-> 0]
             /\ activated' = activated \cup {o}
    <3>1. preparation[o] # NoTicket
      <4>1. preparation[o].callback = cb
        BY <2>4
      <4>2. NoTicket.callback = None
        BY Zenon DEF NoTicket
      <4>3. QED
        BY <4>1, <4>2, NoneAssumption, Zenon
    <3>2. QED
      BY <2>2, <2>4, <3>1, Zenon DEF NoDispatchBypass, TypeOK
  <2>5. QED
    BY <1>1, <2>3, <2>4, Zenon DEF Dispatched
<1>2. ASSUME NEW o \in Operations, NEW cb \in Callbacks, prepare_dispatch(o, cb)
      PROVE  NoDispatchBypass'
  <2>1. o \notin activated /\ issued[o].callback = None
    BY <1>2, Zenon DEF prepare_dispatch, NoDispatchBypass, RestoreAccepts, RowRestores
  <2>2. QED
    BY <1>2, <2>1, Zenon DEF prepare_dispatch, machineVars, NoDispatchBypass, TypeOK
<1>3. CASE UNCHANGED <<dispatchVars, issued>>
  BY <1>3, Zenon DEF dispatchVars, NoDispatchBypass
<1>4. QED
  BY <1>1, <1>2, <1>3, Effects, Zenon
     DEF Inserted, InsertMachine, Cancelled, MachineCancel, Completed, MachineComplete,
         OutboxMarked, machineVars

LEMMA StoreInvariant == Spec => []StoreInv
<1>1. Init => StoreInv
  <2> SUFFICES ASSUME Init PROVE StoreInv
    BY Zenon
  <2>1. TypeOK
    <3>1. "absent" \in OperationState
      BY Zenon DEF OperationState
    <3>2. NoTicket \in Ticket /\ NoCall \in Call
      BY Zenon DEF Ticket, NoTicket, Call, NoCall
    <3>3. outbox \in Seq(OutboxEntry)
      BY DEF Init
    <3>4. /\ state \in [Operations -> OperationState]
          /\ receipt \in [Operations -> Receipts \cup {None}]
          /\ cancelEpoch \in [Operations -> Nat]
          /\ accepted \in [Operations -> Callbacks \cup {None}]
      BY <3>1, Zenon DEF Init
    <3>5. /\ issued \in [Operations -> Ticket] /\ preparation \in [Operations -> Ticket]
          /\ activated \in SUBSET Operations /\ call \in [Keys -> Call]
      BY <3>2, Zenon DEF Init
    <3>6. QED
      BY <3>3, <3>4, <3>5, Zenon DEF TypeOK
  <2>2. outbox = <<>> /\ DOMAIN outbox = {}
    BY DEF Init
  <2>3. PreparationsNamed /\ RestoreAccepts /\ NoDispatchBypass
    BY Zenon DEF Init, PreparationsNamed, RestoreAccepts, RowRestores, NoDispatchBypass, NoTicket,
           Terminal, CompletionOutcome
  <2>4. OneEntryPerOutcome /\ LateCallbackReconciles
    BY <2>2, Zenon DEF Init, OneEntryPerOutcome, LateCallbackReconciles, Terminal, CompletionOutcome
  <2>5. QED
    BY <2>1, <2>3, <2>4, Zenon DEF StoreInv
<1>2. StoreInv /\ [Next]_vars => StoreInv'
  BY TypeOKStep, PreparationsNamedStep, RestoreAcceptsStep, OutboxStep, NoDispatchBypassStep, Zenon
     DEF StoreInv
<1>3. QED
  BY <1>1, <1>2, PTL DEF Spec

\* Whatever calls the store has served, every row it holds loads again
\* (property RestoreAccepts, OperationMachine::restore).
THEOREM RowsLoadAgain == Spec => []RestoreAccepts
<1>1. StoreInv => RestoreAccepts
  BY Zenon DEF StoreInv
<1>2. QED
  BY <1>1, StoreInvariant, PTL

\* Every terminal transition has exactly one outbox entry, which says what
\* the row says (property OneEntryPerOutcome, the transactional outbox).
THEOREM OutboxIsExact == Spec => []OneEntryPerOutcome
<1>1. StoreInv => OneEntryPerOutcome
  BY Zenon DEF StoreInv
<1>2. QED
  BY <1>1, StoreInvariant, PTL

\* A completion is routed to reconciliation exactly when a cancellation came
\* before it (property LateCallbackReconciles, wake_allowed).
THEOREM CancellationWins == Spec => []LateCallbackReconciles
<1>1. StoreInv => LateCallbackReconciles
  BY Zenon DEF StoreInv
<1>2. QED
  BY <1>1, StoreInvariant, PTL

\* A prepared Operation is dispatched only by activating that preparation
\* (property NoDispatchBypass, activate_dispatch and dispatch).
THEOREM PreparationFences == Spec => []NoDispatchBypass
<1>1. StoreInv => NoDispatchBypass
  BY Zenon DEF StoreInv
<1>2. QED
  BY <1>1, StoreInvariant, PTL

(***************************************************************************)
(* The idempotent calls.  What a key answers rests on two facts about the  *)
(* rows, whichever call moves them: a receipt is written once, and a row   *)
(* never disappears, so an Operation that a key has claimed cannot be      *)
(* inserted, and claimed, again.                                           *)
(***************************************************************************)
ClaimsExist ==
  \A k \in Keys : call[k].operation # None => state[call[k].operation] # "absent"

CallInv == StoreInv /\ ClaimsExist /\ ResultMatchesOutcome

\* A terminal row keeps its receipt and a row stays.
LEMMA RowsSettle ==
  ASSUME TypeOK, PreparationsNamed, RestoreAccepts, [Next]_vars, NEW p \in Operations
  PROVE  /\ receipt[p] # None => receipt'[p] = receipt[p]
         /\ state[p] # "absent" => state'[p] # "absent"
<1>0. /\ "registered" \notin Terminal /\ "dispatched" \notin Terminal
      /\ "cancel_requested" \notin Terminal /\ "absent" \notin Terminal
      /\ "cancelled_before_effect" # "absent" /\ Terminal = CompletionOutcome
  BY Zenon DEF Terminal, CompletionOutcome
<1>1. RowRestores(p)
  BY Zenon DEF RestoreAccepts
<1>2. receipt[p] # None => state[p] \in Terminal
  BY <1>1, Zenon DEF RowRestores
<1>3. ASSUME NEW o \in Operations, OthersKept(o), p # o
      PROVE  receipt'[p] = receipt[p] /\ state'[p] = state[p]
  BY <1>3, Zenon DEF OthersKept
<1>4. ASSUME NEW o \in Operations, Inserted(o)
      PROVE  /\ receipt[p] # None => receipt'[p] = receipt[p]
             /\ state[p] # "absent" => state'[p] # "absent"
  BY <1>3, <1>4, InsertedRow, Zenon
<1>5. ASSUME NEW o \in Operations, NEW cb \in Callbacks, Dispatched(o, cb)
      PROVE  /\ receipt[p] # None => receipt'[p] = receipt[p]
             /\ state[p] # "absent" => state'[p] # "absent"
  BY <1>3, <1>5, DispatchedRow, Zenon
<1>6. ASSUME NEW o \in Operations, NEW r \in Receipts, Cancelled(o, r)
      PROVE  /\ receipt[p] # None => receipt'[p] = receipt[p]
             /\ state[p] # "absent" => state'[p] # "absent"
  BY <1>0, <1>2, <1>3, <1>6, CancelledRow, Zenon
<1>7. ASSUME NEW o \in Operations, NEW r \in Receipts, NEW outcome \in CompletionOutcome,
             Completed(o, outcome, r)
      PROVE  /\ receipt[p] # None => receipt'[p] = receipt[p]
             /\ state[p] # "absent" => state'[p] # "absent"
  BY <1>0, <1>2, <1>3, <1>7, CompletedRow
<1>8. CASE UNCHANGED machineVars
  BY <1>8, Zenon DEF machineVars
<1>9. QED
  BY <1>4, <1>5, <1>6, <1>7, <1>8, Effects, Zenon DEF prepare_dispatch, OutboxMarked

\* A key claims an Operation that it inserts, or the key that claimed o gets
\* its answer together with, or after, the receipt of o.
Claimed(k, o) ==
  /\ call[k].operation = None
  /\ state[o] = "absent" /\ state'[o] = "registered"
  /\ \A j \in Keys \ {k} : call'[j] = call[j]
  /\ call'[k].operation = o /\ call'[k].receipt = None

Answered(k, o) ==
  /\ call[k].operation = o /\ call[k].receipt = None
  /\ \A j \in Keys \ {k} : call'[j] = call[j]
  /\ call'[k].operation = o
  /\ call'[k].result # None
  /\ receipt'[o] = call'[k].receipt

LEMMA AnswerWritten ==
  ASSUME TypeOK, NEW k \in Keys, NEW o \in Operations, NEW r \in Receipts, NEW w \in Results,
         call[k].operation = o, call[k].receipt = None,
         call' = [call EXCEPT ![k].receipt = r, ![k].result = w],
         receipt'[o] = r
  PROVE  Answered(k, o)
<1> DEFINE c == [[call[k] EXCEPT !.receipt = r] EXCEPT !.result = w]
<1>1. call \in [Keys -> Call] /\ call[k] \in Call
  BY Zenon DEF TypeOK
<1>2. c.operation = call[k].operation /\ c.receipt = r /\ c.result = w
  BY <1>1, Zenon DEF Call
<1>3. call' = [call EXCEPT ![k] = c]
  BY Zenon
<1> HIDE DEF c
<1>4. call'[k] = c /\ \A j \in Keys \ {k} : call'[j] = call[j]
  BY <1>1, <1>3, Zenon
<1>5. w # None
  BY NoneAssumption, Zenon
<1>6. QED
  BY <1>2, <1>4, <1>5, Zenon DEF Answered

LEMMA CallEffects ==
  ASSUME TypeOK, [Next]_vars
  PROVE  \/ UNCHANGED call
         \/ \E k \in Keys, o \in Operations : Claimed(k, o)
         \/ \E k \in Keys, o \in Operations : Answered(k, o)
<1>1. ASSUME NEW o \in Operations, NEW k \in Keys, NEW d \in Digests,
             begin_idempotent_operation(k, d, o)
      PROVE  Claimed(k, o)
  <2>1. call \in [Keys -> Call] /\ state \in [Operations -> OperationState]
    BY Zenon DEF TypeOK
  <2>2. call[k].operation = None /\ InsertMachine(o)
        /\ call' = [call EXCEPT ![k] = [operation |-> o, digest |-> d,
                                        receipt |-> None, result |-> None]]
    BY <1>1, Zenon DEF begin_idempotent_operation
  <2>3. state[o] = "absent" /\ state'[o] = "registered"
    BY <2>1, <2>2, Zenon DEF InsertMachine
  <2>4. /\ call'[k] = [operation |-> o, digest |-> d, receipt |-> None, result |-> None]
        /\ \A j \in Keys \ {k} : call'[j] = call[j]
    BY <2>1, <2>2, Zenon
  <2>5. QED
    BY <2>2, <2>3, <2>4 DEF Claimed
<1>2. ASSUME NEW o \in Operations, NEW r \in Receipts, NEW w \in Results,
             cancel_idempotent_before_dispatch(o, r, w)
      PROVE  \E k \in Keys : Answered(k, o)
  <2>1. PICK k \in Keys : /\ call[k].operation = o /\ call[k].receipt = None
                          /\ call' = [call EXCEPT ![k].receipt = r, ![k].result = w]
    BY <1>2, Zenon DEF cancel_idempotent_before_dispatch, CallOf
  <2>2. state[o] = "registered" /\ Cancelled(o, r)
    BY <1>2, Zenon DEF cancel_idempotent_before_dispatch, Cancelled
  <2>3. receipt'[o] = r
    BY <2>2, CancelledRow, Zenon
  <2>4. QED
    BY <2>1, <2>3, AnswerWritten, Zenon
<1>3. ASSUME NEW o \in Operations, NEW r \in Receipts, NEW outcome \in CompletionOutcome,
             NEW w \in Results, complete_idempotent_operation(o, outcome, r, w)
      PROVE  \E k \in Keys : Answered(k, o)
  <2>1. PICK k \in Keys : /\ call[k].operation = o /\ call[k].receipt = None
                          /\ call' = [call EXCEPT ![k].receipt = r, ![k].result = w]
    BY <1>3, Zenon DEF complete_idempotent_operation, CallOf
  <2>2. CASE Completed(o, outcome, r)
    BY <2>1, <2>2, CompletedRow, AnswerWritten, Zenon
  <2>3. CASE DuplicateCompletion(o, outcome, r) /\ UNCHANGED machineVars
    <3>1. receipt'[o] = r
      BY <2>3, Zenon DEF DuplicateCompletion, machineVars
    <3>2. QED
      BY <2>1, <3>1, AnswerWritten, Zenon
  <2>4. QED
    BY <1>3, <2>2, <2>3, Zenon DEF complete_idempotent_operation, Completed
<1>4. CASE UNCHANGED vars
  BY <1>4, Zenon DEF vars
<1>5. ASSUME NEW o \in Operations,
             \/ register(o) \/ activate_dispatch(o)
             \/ \E cb \in Callbacks : prepare_dispatch(o, cb) \/ dispatch(o, cb)
             \/ \E r \in Receipts :
                  \/ request_cancel(o, r)
                  \/ \E expected \in 0..1 : request_cancel_idempotent(o, expected, r)
                  \/ \E outcome \in Outcomes : complete(o, outcome, r)
      PROVE  UNCHANGED call
  BY <1>5, Zenon DEF register, activate_dispatch, prepare_dispatch, dispatch, request_cancel,
              request_cancel_idempotent, complete
<1>6. ASSUME NEW i \in DOMAIN outbox,
             \/ acknowledge_outbox(i)
             \/ \E why \in Reasons : park_outbox_entry(i, why) \/ unpark_outbox_entry(i, why)
      PROVE  UNCHANGED call
  BY <1>6, Zenon DEF acknowledge_outbox, park_outbox_entry, unpark_outbox_entry
<1>7. QED
  BY <1>1, <1>2, <1>3, <1>4, <1>5, <1>6, OutcomesAssumption, Zenon DEF Next

LEMMA CallInvStep ==
  ASSUME CallInv, [Next]_vars
  PROVE  CallInv'
<1>1. TypeOK /\ PreparationsNamed /\ RestoreAccepts /\ ClaimsExist /\ ResultMatchesOutcome
  BY Zenon DEF CallInv, StoreInv
<1>2. StoreInv'
  BY TypeOKStep, PreparationsNamedStep, RestoreAcceptsStep, OutboxStep, NoDispatchBypassStep, Zenon
     DEF CallInv, StoreInv
<1>3. \A k \in Keys : call[k].operation \in Operations \cup {None}
  BY <1>1, Zenon DEF TypeOK, Call
<1>4. \A p \in Operations : /\ receipt[p] # None => receipt'[p] = receipt[p]
                            /\ state[p] # "absent" => state'[p] # "absent"
  BY <1>1, RowsSettle, Zenon
<1>5. \A k \in Keys : call[k].receipt # None =>
        /\ call[k].operation # None /\ call[k].result # None
        /\ receipt[call[k].operation] = call[k].receipt
  BY <1>1, Zenon DEF ResultMatchesOutcome
<1>6. \A k1, k2 \in Keys :
        call[k1].operation # None /\ call[k1].operation = call[k2].operation => k1 = k2
  BY <1>1, Zenon DEF ResultMatchesOutcome
<1>7. \A k \in Keys : call[k].operation # None => state[call[k].operation] # "absent"
  BY <1>1, Zenon DEF ClaimsExist
<1>8. ASSUME NEW j \in Keys, call'[j] = call[j]
      PROVE  /\ call'[j].receipt # None =>
                  /\ call'[j].operation # None /\ call'[j].result # None
                  /\ receipt'[call'[j].operation] = call'[j].receipt
             /\ call'[j].operation # None => state'[call'[j].operation] # "absent"
  BY <1>3, <1>4, <1>5, <1>7, <1>8, Zenon
<1>9. CASE UNCHANGED call
  <2>1. ClaimsExist'
    BY <1>8, <1>9, Zenon DEF ClaimsExist
  <2>2. ResultMatchesOutcome'
    BY <1>6, <1>8, <1>9, Zenon DEF ResultMatchesOutcome
  <2>3. QED
    BY <1>2, <2>1, <2>2, Zenon DEF CallInv
<1>10. ASSUME NEW k \in Keys, NEW o \in Operations, Claimed(k, o)
       PROVE  CallInv'
  <2>1. \A j \in Keys \ {k} : call'[j] = call[j]
    BY <1>10, Zenon DEF Claimed
  <2>2. call'[k].operation = o /\ call'[k].receipt = None /\ state'[o] # "absent"
    BY <1>10, Zenon DEF Claimed
  <2>3. \A j \in Keys \ {k} : call'[j].operation # o
    BY <1>7, <1>10, <2>1, NoneAssumption DEF Claimed
  <2>4. ClaimsExist'
    BY <1>8, <2>1, <2>2, Zenon DEF ClaimsExist
  <2>5. \A j \in Keys : call'[j].receipt # None =>
          /\ call'[j].operation # None /\ call'[j].result # None
          /\ receipt'[call'[j].operation] = call'[j].receipt
    BY <1>8, <2>1, <2>2, Zenon
  <2>6. ASSUME NEW k1 \in Keys, NEW k2 \in Keys, call'[k1].operation # None,
               call'[k1].operation = call'[k2].operation
        PROVE  k1 = k2
    BY <1>6, <2>1, <2>2, <2>3, <2>6
  <2>7. ResultMatchesOutcome'
    BY <2>5, <2>6, Zenon DEF ResultMatchesOutcome
  <2>8. QED
    BY <1>2, <2>4, <2>7, Zenon DEF CallInv
<1>11. ASSUME NEW k \in Keys, NEW o \in Operations, Answered(k, o)
       PROVE  CallInv'
  <2>1. \A j \in Keys \ {k} : call'[j] = call[j]
    BY <1>11, Zenon DEF Answered
  <2>2. /\ call[k].operation = o /\ call'[k].operation = o
        /\ call'[k].result # None /\ receipt'[o] = call'[k].receipt
    BY <1>11, Zenon DEF Answered
  <2>3. o # None /\ state'[o] # "absent"
    BY <1>4, <1>7, <2>2, NoneAssumption, Zenon
  <2>4. ClaimsExist'
    BY <1>8, <2>1, <2>2, <2>3, Zenon DEF ClaimsExist
  <2>5. \A j \in Keys : call'[j].receipt # None =>
          /\ call'[j].operation # None /\ call'[j].result # None
          /\ receipt'[call'[j].operation] = call'[j].receipt
    BY <1>8, <2>1, <2>2, <2>3, Zenon
  <2>6. \A j \in Keys : call'[j].operation = call[j].operation
    BY <2>1, <2>2, Zenon
  <2>7. ResultMatchesOutcome'
    BY <1>6, <2>5, <2>6 DEF ResultMatchesOutcome
  <2>8. QED
    BY <1>2, <2>4, <2>7, Zenon DEF CallInv
<1>12. QED
  BY <1>1, <1>9, <1>10, <1>11, CallEffects, Zenon

\* What a client reads under an idempotency key is the receipt of the one
\* Operation that key claimed, and no Operation answers two keys (property
\* ResultMatchesOutcome, complete_idempotent_operation and
\* cancel_idempotent_before_dispatch against complete and request_cancel).
THEOREM AnswersAreOutcomes == Spec => []ResultMatchesOutcome
<1>1. Init => ClaimsExist /\ ResultMatchesOutcome
  BY DEF Init, NoCall, ClaimsExist, ResultMatchesOutcome
<1>2. CallInv /\ [Next]_vars => CallInv'
  BY CallInvStep, Zenon
<1>3. StoreInv /\ ClaimsExist /\ ResultMatchesOutcome => CallInv
  BY Zenon DEF CallInv
<1>4. CallInv => ResultMatchesOutcome
  BY Zenon DEF CallInv
<1>5. QED
  BY <1>1, <1>2, <1>3, <1>4, StoreInvariant, PTL DEF Spec

(***************************************************************************)
(* The store implements OutboxLedger.  StoreInv is what makes a terminal   *)
(* transition a Commit: the Operation was not decided before, so the step  *)
(* adds it to the decided ones and one notice to the ledger.               *)
(***************************************************************************)
LEMMA ViewType ==
  ASSUME TypeOK
  PROVE  /\ LedgerView \in Seq(Ledger!Notice)
         /\ Len(LedgerView) = Len(outbox) /\ DOMAIN LedgerView = DOMAIN outbox
         /\ Len(outbox) \in Nat /\ DOMAIN outbox = 1 .. Len(outbox)
         /\ \A i \in DOMAIN outbox : outbox[i] \in OutboxEntry
<1>1. outbox \in Seq(OutboxEntry)
  BY Zenon DEF TypeOK
<1>2. Len(outbox) \in Nat /\ DOMAIN outbox = 1 .. Len(outbox)
  BY <1>1, LenProperties, Zenon
<1>3. \A i \in DOMAIN outbox : outbox[i] \in OutboxEntry
  BY <1>1, ElementOfSeq
<1>4. \A i \in DOMAIN outbox : AsNotice(outbox[i]) \in Ledger!Notice
  <2> TAKE i \in DOMAIN outbox
  <2>1. /\ outbox[i].operation \in Operations /\ outbox[i].kind \in OutboxKind
        /\ outbox[i].acknowledged \in BOOLEAN
    BY <1>3, Zenon DEF OutboxEntry
  <2>2. (outbox[i].parked # None) \in BOOLEAN
    BY Zenon
  <2>3. QED
    BY <2>1, <2>2, Zenon DEF AsNotice, Ledger!Notice, Ledger!NoticeKind, OutboxKind
<1>5. LedgerView \in [1 .. Len(outbox) -> Ledger!Notice]
  BY <1>2, <1>4, Zenon DEF LedgerView
<1>6. QED
  BY <1>2, <1>3, <1>5, SeqDef

\* Rows that stay on their side of the decision are invisible.
LEMMA LedgerStutters ==
  ASSUME UNCHANGED outbox,
         \A o \in Operations : state'[o] \in Terminal <=> state[o] \in Terminal
  PROVE  UNCHANGED Ledger!ledgerVars
<1>1. LedgerView' = LedgerView
  BY Zenon DEF LedgerView, AsNotice
<1>2. Decided' = Decided
  BY Zenon DEF Decided
<1>3. QED
  BY <1>1, <1>2, Zenon DEF Ledger!ledgerVars

\* A terminal transition with its entry is a Commit.
LEMMA LedgerCommits ==
  ASSUME TypeOK, NEW o \in Operations, state[o] \notin Terminal, state'[o] \in Terminal,
         OthersKept(o), NEW kind \in OutboxKind, NEW cb \in Callbacks \cup {None},
         NEW st \in Terminal, NEW r \in Receipts, InsertOutbox(kind, o, cb, st, r)
  PROVE  Ledger!Commit(o, kind)
<1> DEFINE e == [kind |-> kind, operation |-> o, callback |-> cb, state |-> st,
                 receipt |-> r, acknowledged |-> FALSE, parked |-> None,
                 unparked |-> None, parkCount |-> 0]
           notice == [operation |-> o, kind |-> kind, acknowledged |-> FALSE, parked |-> FALSE]
           n == Len(outbox) + 1
<1>1. o \notin Decided /\ Decided' = Decided \cup {o}
  BY Zenon DEF Decided, OthersKept
<1>2. /\ outbox \in Seq(OutboxEntry) /\ e \in OutboxEntry
      /\ AsNotice(e) = notice /\ notice \in Ledger!Notice
  <2>1. outbox \in Seq(OutboxEntry) /\ e \in OutboxEntry
    BY Zenon DEF TypeOK, OutboxEntry
  <2>2. AsNotice(e) = notice
    BY Zenon DEF AsNotice
  <2>3. notice \in Ledger!Notice
    BY Zenon DEF Ledger!Notice, Ledger!NoticeKind, OutboxKind
  <2>4. QED
    BY <2>1, <2>2, <2>3, Zenon
<1>3. outbox' = Append(outbox, e)
  BY Zenon DEF InsertOutbox
<1> HIDE DEF e, notice
<1>4. /\ Len(outbox) \in Nat /\ DOMAIN outbox = 1 .. Len(outbox)
      /\ LedgerView \in Seq(Ledger!Notice) /\ Len(LedgerView) = Len(outbox)
  BY ViewType, Zenon
<1>5. /\ Append(outbox, e) \in Seq(OutboxEntry) /\ Len(Append(outbox, e)) = n
      /\ \A i \in 1 .. Len(outbox) : Append(outbox, e)[i] = outbox[i]
      /\ Append(outbox, e)[n] = e
  BY <1>2, AppendProperties
<1>6. DOMAIN outbox' = 1 .. n
  BY <1>3, <1>5, LenProperties, Zenon
<1>7. /\ Append(LedgerView, notice) \in Seq(Ledger!Notice)
      /\ Len(Append(LedgerView, notice)) = n
      /\ \A i \in 1 .. Len(outbox) : Append(LedgerView, notice)[i] = LedgerView[i]
      /\ Append(LedgerView, notice)[n] = notice
  BY <1>2, <1>4, AppendProperties
<1>8. Append(LedgerView, notice) \in [1 .. n -> Ledger!Notice]
  BY <1>7, LenProperties, Zenon
<1>9. LedgerView' = [i \in 1 .. n |-> AsNotice(outbox'[i])]
  <2>1. LedgerView' = [i \in DOMAIN outbox' |-> AsNotice(outbox'[i])]
    BY Zenon DEF LedgerView, AsNotice
  <2>2. QED
    BY <1>6, <2>1, Zenon
<1>10. \A i \in 1 .. n : i \in 1 .. Len(outbox) \/ i = n
  BY <1>4
<1>11. \A i \in 1 .. Len(outbox) : LedgerView[i] = AsNotice(outbox[i])
  BY <1>4, Zenon DEF LedgerView
<1>12. \A i \in 1 .. n : AsNotice(outbox'[i]) = Append(LedgerView, notice)[i]
  <2> SUFFICES ASSUME NEW i \in 1 .. n
               PROVE  AsNotice(outbox'[i]) = Append(LedgerView, notice)[i]
    BY Zenon
  <2>1. CASE i \in 1 .. Len(outbox)
    <3>1. outbox'[i] = outbox[i]
      BY <1>3, <1>5, <2>1, Zenon
    <3>2. Append(LedgerView, notice)[i] = AsNotice(outbox[i])
      BY <1>7, <1>11, <2>1, Zenon
    <3>3. QED
      BY <3>1, <3>2, Zenon
  <2>2. CASE i = n
    BY <1>2, <1>3, <1>5, <1>7, <2>2, Zenon
  <2>3. QED
    BY <1>10, <2>1, <2>2, Zenon
<1> HIDE DEF n
<1>13. LedgerView' = Append(LedgerView, notice)
  BY <1>8, <1>9, <1>12, Zenon
<1>14. QED
  BY <1>1, <1>13, Zenon DEF Ledger!Commit, notice

\* What marking an entry makes of the notice about it.
Acknowledging(e, x) == [AsNotice(e) EXCEPT !.acknowledged = x]
Parking(e, x) == [AsNotice(e) EXCEPT !.parked = x]

LEMMA NoticeMarked ==
  ASSUME NEW e, NEW f, e.operation = f.operation, e.kind = f.kind, NEW x
  PROVE  /\ e.parked = f.parked /\ e.acknowledged = x => AsNotice(e) = Acknowledging(f, x)
         /\ e.acknowledged = f.acknowledged /\ (e.parked # None) = x =>
              AsNotice(e) = Parking(f, x)
<1>1. ASSUME e.parked = f.parked, e.acknowledged = x
      PROVE  AsNotice(e) = Acknowledging(f, x)
  BY <1>1 DEF AsNotice, Acknowledging
<1>2. ASSUME e.acknowledged = f.acknowledged, NEW y, y = (e.parked # None)
      PROVE  AsNotice(e) = Parking(f, y)
  BY <1>2 DEF AsNotice, Parking
<1>3. QED
  BY <1>1, <1>2, Zenon

\* A change to the marks of entry i shows in notice i only.
LEMMA LedgerMarks ==
  ASSUME TypeOK, NEW i \in DOMAIN outbox, NEW e,
         outbox' = [outbox EXCEPT ![i] = e], UNCHANGED machineVars
  PROVE  /\ LedgerView' = [LedgerView EXCEPT ![i] = AsNotice(e)]
         /\ Decided' = Decided
         /\ i \in DOMAIN LedgerView /\ LedgerView[i] = AsNotice(outbox[i])
         /\ outbox[i] \in OutboxEntry
<1>1. /\ outbox[i] \in OutboxEntry /\ DOMAIN LedgerView = DOMAIN outbox
      /\ DOMAIN outbox' = DOMAIN outbox
  BY ViewType, Zenon
<1>2. \A j \in DOMAIN outbox : outbox'[j] = IF j = i THEN e ELSE outbox[j]
  BY Zenon
<1>3. LedgerView' = [j \in DOMAIN outbox |-> AsNotice(outbox'[j])]
  BY <1>1, Zenon DEF LedgerView, AsNotice
<1>4. \A j \in DOMAIN outbox : LedgerView[j] = AsNotice(outbox[j])
  BY Zenon DEF LedgerView
<1>5. LedgerView' = [LedgerView EXCEPT ![i] = AsNotice(e)]
  BY <1>1, <1>2, <1>3, <1>4, Zenon
<1>6. Decided' = Decided
  BY Zenon DEF Decided, machineVars
<1>7. QED
  BY <1>1, <1>4, <1>5, <1>6, Zenon

LEMMA LedgerStep ==
  ASSUME TypeOK, PreparationsNamed, [Next]_vars
  PROVE  [Ledger!LedgerNext]_(Ledger!ledgerVars)
<1>0. /\ "cancelled_before_effect" \in Terminal /\ Terminal = CompletionOutcome
      /\ "registered" \notin Terminal /\ "dispatched" \notin Terminal
      /\ "cancel_requested" \notin Terminal /\ "absent" \notin Terminal
      /\ "wake_fiber" \in OutboxKind /\ "reconcile_effect" \in OutboxKind
      /\ OutboxKind = Ledger!NoticeKind
  BY Zenon DEF Terminal, CompletionOutcome, OutboxKind, Ledger!NoticeKind
<1>1. ASSUME NEW o \in Operations, state[o] \notin Terminal, state'[o] \notin Terminal,
             UNCHANGED outbox, OthersKept(o)
      PROVE  UNCHANGED Ledger!ledgerVars
  BY <1>1, LedgerStutters, Zenon DEF OthersKept
<1>2. ASSUME NEW o \in Operations, Inserted(o)
      PROVE  UNCHANGED Ledger!ledgerVars
  <2>1. UNCHANGED outbox
    BY <1>2, Zenon DEF Inserted
  <2>2. QED
    BY <1>0, <1>1, <1>2, <2>1, InsertedRow, Zenon
<1>3. ASSUME NEW o \in Operations, NEW cb \in Callbacks, Dispatched(o, cb)
      PROVE  UNCHANGED Ledger!ledgerVars
  <2>1. UNCHANGED outbox
    BY <1>3, Zenon DEF Dispatched
  <2>2. QED
    BY <1>0, <1>1, <1>3, <2>1, DispatchedRow, Zenon
<1>4. ASSUME NEW o \in Operations, NEW r \in Receipts, Cancelled(o, r)
      PROVE  [Ledger!LedgerNext]_(Ledger!ledgerVars)
  <2>1. CASE state[o] = "dispatched"
    <3>1. UNCHANGED outbox
      BY <1>4, <2>1, Zenon DEF Cancelled, CancelOutbox
    <3>2. OthersKept(o) /\ state'[o] = "cancel_requested"
      BY <1>4, <2>1, CancelledRow, Zenon
    <3>3. QED
      BY <1>0, <1>1, <2>1, <3>1, <3>2, Zenon
  <2>2. CASE state[o] = "registered"
    <3>1. OthersKept(o) /\ state'[o] = "cancelled_before_effect"
      BY <1>4, <2>2, CancelledRow, Zenon
    <3>2. InsertOutbox("wake_fiber", o, None, "cancelled_before_effect", r)
      BY <1>4, <2>2, Zenon DEF Cancelled, CancelOutbox
    <3>3. Ledger!Commit(o, "wake_fiber")
      BY <1>0, <2>2, <3>1, <3>2, LedgerCommits, Zenon
    <3>4. QED
      BY <1>0, <3>3, Zenon DEF Ledger!LedgerNext
  <2>3. QED
    BY <1>4, <2>1, <2>2, Zenon DEF Cancelled, MachineCancel
<1>5. ASSUME NEW o \in Operations, NEW r \in Receipts, NEW outcome \in CompletionOutcome,
             Completed(o, outcome, r)
      PROVE  [Ledger!LedgerNext]_(Ledger!ledgerVars)
  <2> DEFINE cb == issued[o].callback
  <2>1. /\ OthersKept(o) /\ state[o] \in {"dispatched", "cancel_requested"}
        /\ state'[o] = outcome
    BY <1>5, CompletedRow, Zenon
  <2>2. cb \in Callbacks \cup {None}
    BY Zenon DEF TypeOK, Ticket
  <2>3. CompletionKind(o) \in OutboxKind
    BY <1>0, Zenon DEF CompletionKind
  <2>4. InsertOutbox(CompletionKind(o), o, cb, outcome, r)
    BY <1>5, Zenon DEF Completed
  <2> HIDE DEF cb
  <2>5. Ledger!Commit(o, CompletionKind(o))
    BY <1>0, <2>1, <2>2, <2>3, <2>4, LedgerCommits, Zenon
  <2>6. QED
    BY <1>0, <2>3, <2>5, Zenon DEF Ledger!LedgerNext
<1>6. CASE UNCHANGED <<machineVars, outbox>>
  BY <1>6, LedgerStutters, Zenon DEF machineVars
<1>7. ASSUME NEW i \in DOMAIN outbox, acknowledge_outbox(i)
      PROVE  [Ledger!LedgerNext]_(Ledger!ledgerVars)
  <2> DEFINE e == [outbox[i] EXCEPT !.acknowledged = TRUE]
  <2>1. outbox' = [outbox EXCEPT ![i] = e] /\ UNCHANGED machineVars
    BY <1>7, Zenon DEF acknowledge_outbox
  <2>2. outbox[i] \in OutboxEntry
    BY ViewType, Zenon
  <2>3. AsNotice(e) = Acknowledging(outbox[i], TRUE)
    <3>1. /\ e.operation = outbox[i].operation /\ e.kind = outbox[i].kind
          /\ e.acknowledged = TRUE /\ e.parked = outbox[i].parked
      BY <2>2, Zenon DEF OutboxEntry
    <3> HIDE DEF e
    <3>2. QED
      BY <3>1, NoticeMarked, Zenon
  <2> HIDE DEF e
  <2>4. /\ LedgerView' = [LedgerView EXCEPT ![i] = AsNotice(e)] /\ Decided' = Decided
        /\ i \in DOMAIN LedgerView /\ LedgerView[i] = AsNotice(outbox[i])
    BY <2>1, LedgerMarks, Zenon
  <2>5. Ledger!Acknowledge(i)
    BY <2>3, <2>4, Zenon DEF Ledger!Acknowledge, Acknowledging
  <2>6. QED
    BY <2>4, <2>5, Zenon DEF Ledger!LedgerNext
<1>8. ASSUME NEW i \in DOMAIN outbox, NEW why \in Reasons, park_outbox_entry(i, why)
      PROVE  [Ledger!LedgerNext]_(Ledger!ledgerVars)
  <2> DEFINE n == outbox[i].parkCount + 1
             e == [outbox[i] EXCEPT !.parked = why, !.parkCount = n]
  <2>1. outbox' = [outbox EXCEPT ![i] = e] /\ UNCHANGED machineVars /\ outbox[i].parked = None
    BY <1>8, Zenon DEF park_outbox_entry
  <2> HIDE DEF n
  <2>2. outbox[i] \in OutboxEntry /\ why # None
    BY ViewType, NoneAssumption, Zenon
  <2>3. AsNotice(e) = Parking(outbox[i], TRUE) /\ AsNotice(outbox[i]).parked = FALSE
    <3>1. /\ e.operation = outbox[i].operation /\ e.kind = outbox[i].kind
          /\ e.acknowledged = outbox[i].acknowledged
          /\ e.parked = why
      BY <2>2, Zenon DEF OutboxEntry
    <3>2. (e.parked # None) = TRUE
      BY <2>2, <3>1, Zenon
    <3>3. AsNotice(outbox[i]).parked = FALSE
      BY <2>1, Zenon DEF AsNotice
    <3> HIDE DEF e
    <3>4. AsNotice(e) = Parking(outbox[i], TRUE)
      BY <3>1, <3>2, NoticeMarked, Zenon
    <3>5. QED
      BY <3>3, <3>4, Zenon
  <2> HIDE DEF e
  <2>4. /\ LedgerView' = [LedgerView EXCEPT ![i] = AsNotice(e)] /\ Decided' = Decided
        /\ i \in DOMAIN LedgerView /\ LedgerView[i] = AsNotice(outbox[i])
    BY <2>1, LedgerMarks, Zenon
  <2>5. Ledger!Park(i)
    BY <2>3, <2>4, Zenon DEF Ledger!Park, Parking
  <2>6. QED
    BY <2>4, <2>5, Zenon DEF Ledger!LedgerNext
<1>9. ASSUME NEW i \in DOMAIN outbox, NEW why \in Reasons, unpark_outbox_entry(i, why)
      PROVE  [Ledger!LedgerNext]_(Ledger!ledgerVars)
  <2> DEFINE e == [outbox[i] EXCEPT !.parked = None, !.unparked = why]
  <2>1. outbox' = [outbox EXCEPT ![i] = e] /\ UNCHANGED machineVars /\ outbox[i].parked # None
    BY <1>9, Zenon DEF unpark_outbox_entry
  <2>2. outbox[i] \in OutboxEntry
    BY ViewType, Zenon
  <2>3. AsNotice(e) = Parking(outbox[i], FALSE) /\ AsNotice(outbox[i]).parked = TRUE
    <3>1. /\ e.operation = outbox[i].operation /\ e.kind = outbox[i].kind
          /\ e.acknowledged = outbox[i].acknowledged
          /\ e.parked = None
      BY <2>2, Zenon DEF OutboxEntry
    <3>2. (e.parked # None) = FALSE
      BY <3>1, Zenon
    <3>3. AsNotice(outbox[i]).parked = TRUE
      BY <2>1, Zenon DEF AsNotice
    <3> HIDE DEF e
    <3>4. AsNotice(e) = Parking(outbox[i], FALSE)
      BY <3>1, <3>2, NoticeMarked, Zenon
    <3>5. QED
      BY <3>3, <3>4, Zenon
  <2> HIDE DEF e
  <2>4. /\ LedgerView' = [LedgerView EXCEPT ![i] = AsNotice(e)] /\ Decided' = Decided
        /\ i \in DOMAIN LedgerView /\ LedgerView[i] = AsNotice(outbox[i])
    BY <2>1, LedgerMarks, Zenon
  <2>5. Ledger!Unpark(i)
    BY <2>3, <2>4, Zenon DEF Ledger!Unpark, Parking
  <2>6. QED
    BY <2>4, <2>5, Zenon DEF Ledger!LedgerNext
<1>10. CASE \E i \in DOMAIN outbox :
              \/ acknowledge_outbox(i)
              \/ \E why \in Reasons : park_outbox_entry(i, why) \/ unpark_outbox_entry(i, why)
  BY <1>7, <1>8, <1>9, <1>10, Zenon
<1>11. QED
  BY <1>2, <1>3, <1>4, <1>5, <1>6, <1>10, StoreEffects, Zenon DEF prepare_dispatch

\* Every method of the store is a step of OutboxLedger or invisible to the
\* consumer of the outbox (property ImplementsLedger): the decision and its one
\* notice commit together, and no later call adds, withdraws or reverts one.
THEOREM StoreImplementsLedger == Spec => ImplementsLedger
<1>1. Init => Ledger!LedgerInit
  <2> SUFFICES ASSUME Init PROVE Ledger!LedgerInit
    BY Zenon
  <2>1. Decided = {}
    BY Zenon DEF Init, Decided, Terminal, CompletionOutcome
  <2>2. LedgerView = <<>>
    BY DEF Init, LedgerView
  <2>3. QED
    BY <2>1, <2>2, Zenon DEF Ledger!LedgerInit
<1>2. StoreInv /\ [Next]_vars => [Ledger!LedgerNext]_(Ledger!ledgerVars)
  BY LedgerStep, Zenon DEF StoreInv
<1>3. QED
  BY <1>1, <1>2, StoreInvariant, PTL DEF Spec, ImplementsLedger, Ledger!LedgerSpec

=============================================================================
