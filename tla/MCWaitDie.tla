----------------------------- MODULE MCWaitDie -----------------------------
(* Instances of WaitDie: the smaller a number, the older the transaction.  *)
EXTENDS WaitDie

CONSTANTS a, b

StartTsById == [t \in Txns |-> t]

Locks(read, write) == [read |-> read, write |-> write]

(* Readers of both keys, one of which upgrades; a writer of both.          *)
Upgrades ==
  <<Locks({a}, {a, b}), Locks({a, b}, {}), Locks({a}, {b}), Locks({}, {a, b}), Locks({}, {})>>

(* A writer that waits for a and dies over b, among others that wait for a.*)
Deserted ==
  <<Locks({a}, {b}), Locks({}, {a}), Locks({a}, {}), Locks({}, {a, b}), Locks({a}, {})>>

(* Everything four transactions may do with one key.                       *)
OneKey == {s \in [Txns -> [read : {{}, {a}}, write : {{}, {a}}]] : s[5] = Locks({}, {})}

MCScripts == OneKey \cup {Upgrades, Deserted}

=============================================================================
