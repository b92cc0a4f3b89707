---------------------------- MODULE OutboxLedger ----------------------------
(***************************************************************************)
(* What the operation store promises to whoever drains its outbox.  An     *)
(* Operation is decided once; the decision and the one notice about it     *)
(* appear together, at the end of an append-only ledger; a notice changes  *)
(* only by being acknowledged, for ever, or by being parked and unparked.  *)
(*                                                                         *)
(* OperationStore implements this specification, and WakeDelivery composes *)
(* the pump and the runtime with it.                                       *)
(***************************************************************************)
EXTENDS Naturals, Sequences

CONSTANT Operations

VARIABLES
  decided,   \* operations whose row is terminal
  ledger     \* operation_outbox, by sequence

ledgerVars == <<decided, ledger>>

NoticeKind == {"wake_fiber", "reconcile_effect"}
Notice == [operation : Operations, kind : NoticeKind,
           acknowledged : BOOLEAN, parked : BOOLEAN]

LedgerInit ==
  /\ decided = {}
  /\ ledger = <<>>

\* The transaction that makes the Operation terminal.
Commit(o, kind) ==
  /\ o \notin decided
  /\ decided' = decided \cup {o}
  /\ ledger' = Append(ledger, [operation |-> o, kind |-> kind,
                               acknowledged |-> FALSE, parked |-> FALSE])

Acknowledge(i) ==
  /\ ledger' = [ledger EXCEPT ![i].acknowledged = TRUE]
  /\ UNCHANGED decided

Park(i) ==
  /\ ~ledger[i].parked
  /\ ledger' = [ledger EXCEPT ![i].parked = TRUE]
  /\ UNCHANGED decided

Unpark(i) ==
  /\ ledger[i].parked
  /\ ledger' = [ledger EXCEPT ![i].parked = FALSE]
  /\ UNCHANGED decided

LedgerNext ==
  \/ \E o \in Operations, kind \in NoticeKind : Commit(o, kind)
  \/ \E i \in DOMAIN ledger : Acknowledge(i) \/ Park(i) \/ Unpark(i)

LedgerSpec == LedgerInit /\ [][LedgerNext]_ledgerVars

=============================================================================
