--------------------------- MODULE MCDiaryPrivacy ---------------------------
(* Instances of DiaryPrivacy for TLC.                                      *)
EXTENDS DiaryPrivacy, TLC

Symmetry == Permutations(Requests)

=============================================================================
