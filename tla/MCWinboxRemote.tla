--------------------------- MODULE MCWinboxRemote ---------------------------
(* Instances of WinboxRemote.                                               *)
EXTENDS WinboxRemote, TLC

Symmetry == Permutations(Session)
=============================================================================
