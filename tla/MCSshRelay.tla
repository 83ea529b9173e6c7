----------------------------- MODULE MCSshRelay -----------------------------
(* Instances of SshRelay: every token is for the same user and device, the  *)
(* case in which the per-user and per-device limits are hardest to keep.    *)
EXTENDS SshRelay, TLC

CONSTANTS u1, d1

OneUser == [k \in Token |-> u1]
OneDevice == [k \in Token |-> d1]

Symmetry == Permutations(Request) \cup Permutations(Token) \cup Permutations(Key)
=============================================================================
