-------------------------- MODULE MCSocialCounters --------------------------
(* Small instances of SocialCounters: all requests in one process.         *)
EXTENDS SocialCounters, TLC

LikesAndFollows == {"like", "follow"}

Symmetry ==
    Permutations(Handlers) \cup Permutations(Runners) \cup Permutations(Users)

OneProcess == [h \in Handlers |-> "p1"]

=============================================================================
