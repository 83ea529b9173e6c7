--------------------------- MODULE MCWinboxWorker ---------------------------
(* Small instances of WinboxWorker for TLC. *)
EXTENDS WinboxWorker, TLC

\* Ids, displays and ports are interchangeable in every action and invariant.
Symmetry == Permutations(Session) \cup Permutations(Display) \cup Permutations(WsPort)
=============================================================================
