---------------------------- MODULE MCTaskCommit ----------------------------
(***************************************************************************)
(* Instances of TaskCommit: two effects with an endpoint each.             *)
(***************************************************************************)
EXTENDS TaskCommit, TLC

CONSTANTS a1, a2, e1, e2, store, driver, gateway

MCEndpoint == [e \in Effects |-> IF e = e1 THEN driver ELSE gateway]

\* A takeover of a permit over both effects, by one attempt.
Alone == {[attempts |-> {a}, effects |-> Effects, participants |-> Participants,
           terms |-> 2, faults |-> 0] : a \in Attempts}

\* Two attempts, with both effects or with a takeover.
Contending ==
    {[attempts |-> Attempts, effects |-> Effects, participants |-> {}, terms |-> 0, faults |-> 1],
     [attempts |-> Attempts, effects |-> {e1}, participants |-> {driver}, terms |-> 2, faults |-> 1]}

MCScopes == Contending \cup Alone

Symmetry == Permutations(Attempts)
=============================================================================
