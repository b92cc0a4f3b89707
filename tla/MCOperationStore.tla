-------------------------- MODULE MCOperationStore --------------------------
(***************************************************************************)
(* Small instances of OperationStore.                                      *)
(***************************************************************************)
EXTENDS OperationStore, TLC

\* Identifiers, receipts and result bytes are only compared for equality.
Symmetry == Permutations(Operations) \cup Permutations(Callbacks)
              \cup Permutations(Receipts) \cup Permutations(Keys)

=============================================================================
