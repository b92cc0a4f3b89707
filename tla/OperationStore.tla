--------------------------- MODULE OperationStore ---------------------------
(***************************************************************************)
(* The durable authority for Operations: the state machine of              *)
(* crates/nlos-operation and the SQLite store of crates/nlos-store that    *)
(* persists it, with its dispatch preparations, its idempotent calls and   *)
(* its transactional outbox.                                               *)
(*                                                                         *)
(* Every method of SqliteOperationStore takes the connection mutex and     *)
(* runs one BEGIN IMMEDIATE transaction (WAL, synchronous = FULL), so each *)
(* method is one atomic action and a crash leaves the state of the last    *)
(* committed method: the variables below are the durable rows.  A method   *)
(* that returns an error or replays an old decision commits no change and  *)
(* is a stuttering step; only the branches that write are actions.         *)
(*                                                                         *)
(* Abstractions: an Operation stands for its immutable OperationSpec (id,  *)
(* generation, owner fiber, cancellation scope); a call naming another     *)
(* generation fails in load_machine or validate_handle and changes         *)
(* nothing.  Identifiers, receipts, digests and result bytes are members   *)
(* of small sets.  Time stamps are left out.                               *)
(***************************************************************************)
EXTENDS Naturals, Sequences, FiniteSets

CONSTANTS Operations,     \* OperationId with its OperationSpec
          Callbacks,      \* CallbackId
          Receipts,       \* ReceiptId
          Keys,           \* (IdempotencyScope, IdempotencyKey)
          Digests,        \* request_digest_sha256
          Results,        \* result_wire
          Outcomes,       \* the CompletionOutcomes that drivers report
          Reasons,        \* park_reason and unpark_reason
          MaxParks,       \* bound on park_count, for model checking
          None            \* SQL NULL

ASSUME NoneAssumption ==
  /\ None \notin Operations
  /\ None \notin Callbacks
  /\ None \notin Receipts
  /\ None \notin Digests
  /\ None \notin Results
  /\ None \notin Reasons

ASSUME MaxParksAssumption == MaxParks \in Nat

CompletionOutcome ==
  {"completed", "failed", "cancelled_before_effect", "partial_effect", "effect_unknown"}

ASSUME OutcomesAssumption == Outcomes \subseteq CompletionOutcome

VARIABLES
  state,          \* operations.state_kind; "absent" when there is no row
  receipt,        \* operations.receipt_id
  cancelEpoch,    \* operations.cancel_epoch
  issued,         \* operations.issued_callback_id and issued_cancel_epoch
  accepted,       \* operations.accepted_callback_id
  preparation,    \* operation_dispatch_preparations
  activated,      \* operations with an operation_dispatch_activation_receipts row
  call,           \* idempotent_calls, by key
  outbox          \* operation_outbox, by sequence

machineVars == <<state, receipt, cancelEpoch, issued, accepted>>
dispatchVars == <<preparation, activated>>
vars == <<machineVars, dispatchVars, call, outbox>>

(***************************************************************************)
(* The values of the rows.                                                 *)
(***************************************************************************)
Open == {"registered", "dispatched", "cancel_requested"}
Terminal == CompletionOutcome
OperationState == {"absent"} \cup Open \cup Terminal

Ticket == [callback : Callbacks \cup {None}, epoch : Nat]
NoTicket == [callback |-> None, epoch |-> 0]

OutboxKind == {"wake_fiber", "reconcile_effect"}
OutboxEntry == [kind : OutboxKind, operation : Operations,
                callback : Callbacks \cup {None},
                state : Terminal, receipt : Receipts,
                acknowledged : BOOLEAN,
                parked : Reasons \cup {None}, unparked : Reasons \cup {None},
                parkCount : Nat]

Call == [operation : Operations \cup {None}, digest : Digests \cup {None},
         receipt : Receipts \cup {None}, result : Results \cup {None}]
NoCall == [operation |-> None, digest |-> None, receipt |-> None, result |-> None]

TypeOK ==
  /\ state \in [Operations -> OperationState]
  /\ receipt \in [Operations -> Receipts \cup {None}]
  /\ cancelEpoch \in [Operations -> Nat]
  /\ issued \in [Operations -> Ticket]
  /\ accepted \in [Operations -> Callbacks \cup {None}]
  /\ preparation \in [Operations -> Ticket]
  /\ activated \in SUBSET Operations
  /\ call \in [Keys -> Call]
  /\ outbox \in Seq(OutboxEntry)

Init ==
  /\ state = [o \in Operations |-> "absent"]
  /\ receipt = [o \in Operations |-> None]
  /\ cancelEpoch = [o \in Operations |-> 0]
  /\ issued = [o \in Operations |-> NoTicket]
  /\ accepted = [o \in Operations |-> None]
  /\ preparation = [o \in Operations |-> NoTicket]
  /\ activated = {}
  /\ call = [k \in Keys |-> NoCall]
  /\ outbox = <<>>

(***************************************************************************)
(* Faulty variants of the operators below, one per plausible slip in the   *)
(* code; no action uses them.                                              *)
(***************************************************************************)
\* The cancellation forgets to advance the epoch.
CancelWithoutEpoch(o, r) ==
  /\ state[o] \in {"registered", "dispatched"}
  /\ \/ /\ state[o] = "registered"
        /\ state' = [state EXCEPT ![o] = "cancelled_before_effect"]
        /\ receipt' = [receipt EXCEPT ![o] = r]
     \/ /\ state[o] = "dispatched"
        /\ state' = [state EXCEPT ![o] = "cancel_requested"]
        /\ UNCHANGED receipt
  /\ UNCHANGED <<cancelEpoch, issued, accepted>>

\* A duplicate is recognised by its callback alone.
DuplicateByCallback(o, outcome, r) ==
  /\ accepted[o] # None
  /\ accepted[o] = issued[o].callback

\* Only the state is consulted, not the epoch of the ticket.
WakeWhileOpen(o) == state[o] \in {"dispatched", "cancel_requested"}

\* The direct path does not look for a preparation.
DispatchUnfenced(o, cb) ==
  /\ state[o] = "registered"
  /\ state' = [state EXCEPT ![o] = "dispatched"]
  /\ issued' = [issued EXCEPT ![o] = [callback |-> cb, epoch |-> cancelEpoch[o]]]
  /\ UNCHANGED <<receipt, cancelEpoch, accepted, dispatchVars, call, outbox>>

\* A cancellation before dispatch emits nothing.
CancelSilently(o, r) == UNCHANGED outbox

(***************************************************************************)
(* OperationMachine: the transitions of one Operation.                     *)
(***************************************************************************)
\* insert_machine of OperationMachine::new.
InsertMachine(o) ==
  /\ state[o] = "absent"
  /\ state' = [state EXCEPT ![o] = "registered"]
  /\ UNCHANGED <<receipt, cancelEpoch, issued, accepted>>

\* OperationMachine::dispatch: the ticket carries the epoch of this moment.
MachineDispatch(o, cb) ==
  /\ state[o] = "registered"
  /\ state' = [state EXCEPT ![o] = "dispatched"]
  /\ issued' = [issued EXCEPT ![o] = [callback |-> cb, epoch |-> cancelEpoch[o]]]
  /\ UNCHANGED <<receipt, cancelEpoch, accepted>>

\* OperationMachine::request_cancel: an undispatched Operation ends here, a
\* dispatched one waits for its callback under a newer epoch.
MachineCancel(o, r) ==
  /\ state[o] \in {"registered", "dispatched"}
  /\ cancelEpoch' = [cancelEpoch EXCEPT ![o] = @ + 1]
  /\ \/ /\ state[o] = "registered"
        /\ state' = [state EXCEPT ![o] = "cancelled_before_effect"]
        /\ receipt' = [receipt EXCEPT ![o] = r]
     \/ /\ state[o] = "dispatched"
        /\ state' = [state EXCEPT ![o] = "cancel_requested"]
        /\ UNCHANGED receipt
  /\ UNCHANGED <<issued, accepted>>

\* OperationMachine::complete of the issued ticket, first acceptance.  The
\* ticket a driver holds is issued[o]: dispatch happens once.
MachineComplete(o, outcome, r) ==
  /\ issued[o].callback # None
  /\ accepted[o] = None
  /\ state[o] \in {"dispatched", "cancel_requested"}
  /\ state' = [state EXCEPT ![o] = outcome]
  /\ receipt' = [receipt EXCEPT ![o] = r]
  /\ accepted' = [accepted EXCEPT ![o] = issued[o].callback]
  /\ UNCHANGED <<cancelEpoch, issued>>

\* OperationMachine::complete, CompletionDecision::Duplicate.
DuplicateCompletion(o, outcome, r) ==
  /\ accepted[o] # None
  /\ accepted[o] = issued[o].callback
  /\ state[o] = outcome
  /\ receipt[o] = r

\* wake_allowed: the completion won against every cancellation.
WakeAllowed(o) ==
  /\ issued[o].epoch = cancelEpoch[o]
  /\ state[o] = "dispatched"

CompletionKind(o) == IF WakeAllowed(o) THEN "wake_fiber" ELSE "reconcile_effect"

\* insert_outbox, after the machine has its terminal state st and receipt r.
InsertOutbox(kind, o, cb, st, r) ==
  outbox' = Append(outbox,
              [kind |-> kind, operation |-> o, callback |-> cb, state |-> st,
               receipt |-> r, acknowledged |-> FALSE, parked |-> None,
               unparked |-> None, parkCount |-> 0])

(***************************************************************************)
(* SqliteOperationStore: registration, dispatch, cancellation, completion. *)
(***************************************************************************)
register(o) ==
  /\ InsertMachine(o)
  /\ UNCHANGED <<dispatchVars, call, outbox>>

\* prepare_dispatch, decision Prepared.
prepare_dispatch(o, cb) ==
  /\ state[o] # "absent"
  /\ preparation[o] = NoTicket
  /\ state[o] = "registered"
  /\ preparation' = [preparation EXCEPT ![o] = [callback |-> cb, epoch |-> cancelEpoch[o]]]
  /\ UNCHANGED <<machineVars, activated, call, outbox>>

\* activate_dispatch, decision Activated: the row and the activation receipt
\* commit together.
activate_dispatch(o) ==
  /\ preparation[o] # NoTicket
  /\ o \notin activated
  /\ preparation[o].epoch = 0
  /\ MachineDispatch(o, preparation[o].callback)
  /\ activated' = activated \cup {o}
  /\ UNCHANGED <<preparation, call, outbox>>

\* dispatch: the direct path, fenced while a preparation exists.
dispatch(o, cb) ==
  /\ preparation[o] = NoTicket
  /\ MachineDispatch(o, cb)
  /\ UNCHANGED <<dispatchVars, call, outbox>>

\* The wake that every cancellation before dispatch commits.
CancelOutbox(o, r) ==
  IF state[o] = "registered"
  THEN InsertOutbox("wake_fiber", o, None, "cancelled_before_effect", r)
  ELSE UNCHANGED outbox

request_cancel(o, r) ==
  /\ MachineCancel(o, r)
  /\ CancelOutbox(o, r)
  /\ UNCHANGED <<dispatchVars, call>>

\* request_cancel_idempotent, decision Applied: the caller's epoch is current.
request_cancel_idempotent(o, expected, r) ==
  /\ cancelEpoch[o] = expected
  /\ state[o] \notin Terminal
  /\ MachineCancel(o, r)
  /\ CancelOutbox(o, r)
  /\ UNCHANGED <<dispatchVars, call>>

complete(o, outcome, r) ==
  /\ MachineComplete(o, outcome, r)
  /\ InsertOutbox(CompletionKind(o), o, issued[o].callback, outcome, r)
  /\ UNCHANGED <<dispatchVars, call>>

(***************************************************************************)
(* SqliteOperationStore: idempotent calls.                                 *)
(***************************************************************************)
\* load_idempotency_record_by_operation; (operation_id, generation) is UNIQUE.
CallOf(o, k) == call[k].operation = o

begin_idempotent_operation(k, d, o) ==
  /\ call[k].operation = None
  /\ InsertMachine(o)
  /\ call' = [call EXCEPT ![k] = [operation |-> o, digest |-> d,
                                  receipt |-> None, result |-> None]]
  /\ UNCHANGED <<dispatchVars, outbox>>

\* complete_idempotent_operation without a stored result.  A first completion
\* also moves the machine and emits the outbox entry; a duplicate of a
\* completion that came through complete() only fills in the result.
complete_idempotent_operation(o, outcome, r, w) ==
  /\ \E k \in Keys :
       /\ CallOf(o, k)
       /\ call[k].receipt = None
       /\ call' = [call EXCEPT ![k].receipt = r, ![k].result = w]
  /\ \/ /\ MachineComplete(o, outcome, r)
        /\ InsertOutbox(CompletionKind(o), o, issued[o].callback, outcome, r)
     \/ /\ DuplicateCompletion(o, outcome, r)
        /\ UNCHANGED <<machineVars, outbox>>
  /\ UNCHANGED dispatchVars

cancel_idempotent_before_dispatch(o, r, w) ==
  /\ \E k \in Keys :
       /\ CallOf(o, k)
       /\ call[k].receipt = None
       /\ call' = [call EXCEPT ![k].receipt = r, ![k].result = w]
  /\ state[o] = "registered"
  /\ MachineCancel(o, r)
  /\ CancelOutbox(o, r)
  /\ UNCHANGED dispatchVars

(***************************************************************************)
(* SqliteOperationStore: the outbox.                                       *)
(***************************************************************************)
\* pending_outbox: the sequences the consumer is served, without the LIMIT.
PendingOutbox == {i \in DOMAIN outbox : ~outbox[i].acknowledged /\ outbox[i].parked = None}

acknowledge_outbox(i) ==
  /\ i \in DOMAIN outbox
  /\ outbox' = [outbox EXCEPT ![i].acknowledged = TRUE]
  /\ UNCHANGED <<machineVars, dispatchVars, call>>

\* park_outbox_entry, decision Parked.
park_outbox_entry(i, why) ==
  /\ i \in DOMAIN outbox
  /\ outbox[i].parked = None
  /\ outbox[i].parkCount < MaxParks
  /\ outbox' = [outbox EXCEPT ![i].parked = why, ![i].parkCount = @ + 1]
  /\ UNCHANGED <<machineVars, dispatchVars, call>>

\* unpark_outbox_entry, decision Unparked: the adjudication of the last cycle
\* replaces that of the cycle before.
unpark_outbox_entry(i, why) ==
  /\ i \in DOMAIN outbox
  /\ outbox[i].parked # None
  /\ outbox' = [outbox EXCEPT ![i].parked = None, ![i].unparked = why]
  /\ UNCHANGED <<machineVars, dispatchVars, call>>

Next ==
  \/ \E o \in Operations :
       \/ register(o)
       \/ activate_dispatch(o)
       \/ \E cb \in Callbacks : prepare_dispatch(o, cb) \/ dispatch(o, cb)
       \/ \E r \in Receipts :
            \/ request_cancel(o, r)
            \/ \E expected \in 0..1 : request_cancel_idempotent(o, expected, r)
            \/ \E outcome \in Outcomes : complete(o, outcome, r)
            \/ \E w \in Results :
                 \/ cancel_idempotent_before_dispatch(o, r, w)
                 \/ \E outcome \in Outcomes :
                      complete_idempotent_operation(o, outcome, r, w)
       \/ \E k \in Keys, d \in Digests : begin_idempotent_operation(k, d, o)
  \/ \E i \in DOMAIN outbox :
       \/ acknowledge_outbox(i)
       \/ \E why \in Reasons : park_outbox_entry(i, why) \/ unpark_outbox_entry(i, why)

Spec == Init /\ [][Next]_vars

(***************************************************************************)
(* The store implements the ledger: a terminal row is a decision, and the  *)
(* consumer's view of an outbox row is the notice about it.                *)
(***************************************************************************)
Decided == {o \in Operations : state[o] \in Terminal}
AsNotice(e) == [operation |-> e.operation, kind |-> e.kind,
                acknowledged |-> e.acknowledged, parked |-> e.parked # None]
LedgerView == [i \in DOMAIN outbox |-> AsNotice(outbox[i])]
Ledger == INSTANCE OutboxLedger WITH decided <- Decided, ledger <- LedgerView

\* Every method of SqliteOperationStore is a step of OutboxLedger or invisible
\* to the consumer: whichever of the methods ends an Operation, the decision
\* and its single notice commit together, and no later call adds a second
\* notice, withdraws one or takes an acknowledgement back.
ImplementsLedger == Ledger!LedgerSpec

(***************************************************************************)
(* What the store promises.                                                *)
(***************************************************************************)
\* What OperationMachine::restore validates of a row.
RowRestores(o) ==
  LET issuedCb == issued[o].callback IN
  /\ accepted[o] # None => accepted[o] = issuedCb
  /\ state[o] \in {"absent", "registered"} => issuedCb = None /\ cancelEpoch[o] = 0
  /\ state[o] = "dispatched" =>
       issuedCb # None /\ accepted[o] = None /\ cancelEpoch[o] = issued[o].epoch
  /\ state[o] = "cancel_requested" =>
       issuedCb # None /\ accepted[o] = None /\ cancelEpoch[o] = issued[o].epoch + 1
  /\ state[o] \in Terminal \ {"cancelled_before_effect"} => accepted[o] # None
  /\ state[o] = "cancelled_before_effect" /\ issuedCb = None =>
       accepted[o] = None /\ cancelEpoch[o] = 1
  /\ state[o] \in Terminal /\ issuedCb # None =>
       accepted[o] # None /\ cancelEpoch[o] \in {issued[o].epoch, issued[o].epoch + 1}
  /\ state[o] \in Terminal <=> receipt[o] # None

\* Every row passes the cross-field validation of OperationMachine::restore,
\* so no sequence of store calls leaves an Operation that a later load
\* rejects as corrupt: a callback is accepted only if it was issued, an open
\* dispatched row has its ticket, and the epoch is the ticket's or, after one
\* cancellation, the next one.
RestoreAccepts == \A o \in Operations : RowRestores(o)

\* The terminal transition of an Operation and its outbox entry commit in one
\* transaction, whichever of the six methods makes it: an Operation has an
\* entry exactly when it is terminal, never two, and the entry says what the
\* row says.
OneEntryPerOutcome ==
  /\ \A i, j \in DOMAIN outbox : outbox[i].operation = outbox[j].operation => i = j
  /\ \A i \in DOMAIN outbox :
       LET e == outbox[i] IN
       /\ state[e.operation] = e.state
       /\ receipt[e.operation] = e.receipt
       /\ accepted[e.operation] = e.callback
  /\ \A o \in Operations :
       state[o] \in Terminal => \E i \in DOMAIN outbox : outbox[i].operation = o

\* A callback that lost the race against a cancellation never wakes the
\* fiber: its entry asks for reconciliation exactly when the epoch has moved
\* past the one in the ticket (wake_allowed in OperationMachine::complete).
LateCallbackReconciles ==
  \A i \in DOMAIN outbox :
    LET e == outbox[i] IN
    (e.kind = "reconcile_effect") <=>
      (e.callback # None /\ cancelEpoch[e.operation] # issued[e.operation].epoch)

\* dispatch cannot bypass a preparation: a prepared Operation that carries an
\* issued callback was activated, with the prepared callback and epoch, and
\* only prepared Operations are ever activated.
NoDispatchBypass ==
  \A o \in Operations :
    /\ o \in activated => preparation[o] # NoTicket /\ issued[o] = preparation[o]
    /\ preparation[o] # NoTicket /\ issued[o].callback # None => o \in activated

\* What a client is told under an idempotency key is the outcome of the one
\* Operation that key claimed: a stored result carries the receipt of the
\* Operation's terminal row, and no Operation answers two keys.
ResultMatchesOutcome ==
  /\ \A k \in Keys :
       call[k].receipt # None =>
         /\ call[k].operation # None
         /\ call[k].result # None
         /\ receipt[call[k].operation] = call[k].receipt
  /\ \A k1, k2 \in Keys :
       call[k1].operation # None /\ call[k1].operation = call[k2].operation => k1 = k2

=============================================================================
