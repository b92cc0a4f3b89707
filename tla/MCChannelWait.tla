---------------------------- MODULE MCChannelWait ----------------------------
EXTENDS ChannelWait, TLC

Symmetry == Permutations(WaitIds) \cup Permutations(Fibers) \cup Permutations(NotifyKeys)
=============================================================================
