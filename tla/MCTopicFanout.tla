---------------------------- MODULE MCTopicFanout ----------------------------
EXTENDS TopicFanout, TLC

Symmetry == Permutations(Workers) \cup Permutations(Subscribers) \cup Permutations(Publications)
=============================================================================
