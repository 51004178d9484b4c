---------------------------- MODULE MCLockTable ----------------------------
(* Instances of LockTable for TLC: start timestamps by transaction number. *)
EXTENDS LockTable

StartTsById == [t \in Txns |-> t]

=============================================================================
