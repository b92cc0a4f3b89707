---------------------------- MODULE MCConsensusCore ----------------------------
(* Instances of ConsensusCore for TLC.                                        *)
EXTENDS ConsensusCore, TLC

(* The voters that contend are interchangeable, and so are the others.        *)
VoterSymmetry == Permutations(Contenders) \union Permutations(Voter \ Contenders)
=============================================================================
