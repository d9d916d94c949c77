---------------------------- MODULE MCMasterKey ----------------------------
(* Instances of MasterKey for TLC.                                         *)
EXTENDS MasterKey, TLC

Symmetry == Permutations(Tabs)

=============================================================================
