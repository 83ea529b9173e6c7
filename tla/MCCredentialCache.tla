------------------------- MODULE MCCredentialCache --------------------------
(* Instances of CredentialCache.  The callers are in one replica; any other  *)
(* replica is there to take events of the queue group away from it.          *)
EXTENDS CredentialCache

OneReplica == CHOOSE r \in Replica : TRUE
Callers == {OneReplica} \X {"poll", "other"}
OnlyLoop == {OneReplica} \X {"poll"}
Rep == [c \in Caller |-> c[1]]
Loops == {c \in Caller : c[2] = "poll"}
=============================================================================
