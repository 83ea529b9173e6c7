---------------------------- MODULE ChangeLedger ----------------------------
(***************************************************************************)
(* What staging promises: a change is made, listed, approved with all      *)
(* that is on the list, and takes effect at most once for an approval.     *)
(* Approval is all the device ever acts on.                                *)
(***************************************************************************)
EXTENDS Integers

CONSTANT Item     \* the changes

VARIABLES
  made,       \* the changes there are
  listed,     \* those on the operator's list
  approved,   \* those that may take effect, once
  effects     \* how often each took effect

ledgerVars == <<made, listed, approved, effects>>

LedgerInit ==
  /\ made = {} /\ listed = {} /\ approved = {}
  /\ effects = [c \in Item |-> 0]

Make(c) ==
  /\ c \in Item \ made
  /\ made' = made \cup {c}
  /\ listed' = listed \cup {c}
  /\ UNCHANGED <<approved, effects>>

\* All of the list is approved, none of it waiting from an earlier approval.
Approve ==
  /\ listed # {}
  /\ listed \cap approved = {}
  /\ approved' = approved \cup listed
  /\ UNCHANGED <<made, listed, effects>>

\* An approved change takes effect; the approvals S are withdrawn with it.
Take(c, S) ==
  /\ c \in approved
  /\ effects' = [effects EXCEPT ![c] = @ + 1]
  /\ approved' = approved \ (S \cup {c})
  /\ UNCHANGED <<made, listed>>

Withdraw(S) ==
  /\ approved' = approved \ S
  /\ UNCHANGED <<made, listed, effects>>

\* The list is emptied; what is approved stays approved.
Clear ==
  /\ listed' = {}
  /\ UNCHANGED <<made, approved, effects>>

LedgerNext ==
  \/ \E c \in Item : Make(c)
  \/ Approve
  \/ \E S \in SUBSET approved : Withdraw(S) \/ \E c \in Item : Take(c, S)
  \/ Clear

LedgerSpec == LedgerInit /\ [][LedgerNext]_ledgerVars
=============================================================================
