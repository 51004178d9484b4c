--------------------------- MODULE ReplicatedLog ---------------------------
(***************************************************************************)
(* What a replica group promises to the server above it and to its         *)
(* clients: one sequence of requests that only grows.  Every replica       *)
(* executes a prefix of it, and a client is told of the place its request  *)
(* has in it.                                                              *)
(***************************************************************************)
EXTENDS Naturals, Sequences, SequencesExt

CONSTANT Replicas

VARIABLES
  chosen,     \* the sequence
  executed,   \* what each replica has executed
  told        \* what clients know: requests and their places

lvars == <<chosen, executed, told>>

Init ==
  /\ chosen = <<>>
  /\ executed = [r \in Replicas |-> <<>>]
  /\ told = {}

(* Some replica executes more of the sequence, or what it executes becomes *)
(* the next part of the sequence.                                          *)
Execute(r) ==
  /\ IsPrefix(chosen, chosen')
  /\ IsPrefix(executed[r], executed'[r])
  /\ IsPrefix(executed'[r], chosen')
  /\ executed' = [executed EXCEPT ![r] = executed'[r]]
  /\ UNCHANGED told

(* A client is told of the place of its request.                           *)
Tell(t) ==
  /\ t.opnum \in DOMAIN chosen
  /\ chosen[t.opnum] = t.req
  /\ told' = told \cup {t}
  /\ UNCHANGED <<chosen, executed>>

Next ==
  \/ \E r \in Replicas : Execute(r)
  \/ \E t \in told' : Tell(t)

Spec == Init /\ [][Next]_lvars

=============================================================================
