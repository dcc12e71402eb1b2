------------------------- MODULE MCUnverifiedAccounts -------------------------
(* An instance of UnverifiedAccounts for TLC: two replicas sweep, each reminding *)
(* one account at a time, while two accounts are registered, used and changed.   *)
EXTENDS UnverifiedAccounts
=============================================================================
