---------------------------- MODULE AtomicStore ----------------------------
(***************************************************************************)
(* What the store promises to read-write transactions: strict              *)
(* serializability.  A transaction takes effect at one moment, before its  *)
(* client is told that it has committed; at that moment every key it has   *)
(* read still has the version it has seen, and all its writes happen.  One *)
(* whose client is told that it has aborted never takes effect.            *)
(***************************************************************************)
EXTENDS Naturals

CONSTANTS Txns, Keys, NoTxn,
          Reads, Writes    \* the keys each transaction reads and writes

VARIABLES
  db,          \* the transaction that wrote each key last
  committed,   \* the transactions that have taken effect
  seen,        \* the version of each key that a transaction has read
  told         \* what its client knows of a transaction

avars == <<db, committed, seen, told>>

Init ==
  /\ db = [k \in Keys |-> NoTxn]
  /\ committed = {}
  /\ seen = [t \in Txns |-> [k \in Keys |-> NoTxn]]
  /\ told = [t \in Txns |-> "NONE"]

(* A read may return any version: it is the commit that judges it.         *)
Read(t, k, version) ==
  /\ t \notin committed /\ told[t] = "NONE"
  /\ seen' = [seen EXCEPT ![t][k] = version]
  /\ UNCHANGED <<db, committed, told>>

Commit(t) ==
  /\ t \notin committed /\ told[t] = "NONE"
  /\ \A k \in Reads[t] : seen[t][k] = db[k]
  /\ db' = [k \in Keys |-> IF k \in Writes[t] THEN t ELSE db[k]]
  /\ committed' = committed \cup {t}
  /\ UNCHANGED <<seen, told>>

Tell(t, outcome) ==
  /\ told[t] = "NONE"
  /\ outcome = "COMMITTED" <=> t \in committed
  /\ told' = [told EXCEPT ![t] = outcome]
  /\ UNCHANGED <<db, committed, seen>>

Next ==
  \E t \in Txns :
    \/ \E k \in Reads[t], version \in Txns \cup {NoTxn} : Read(t, k, version)
    \/ Commit(t)
    \/ \E outcome \in {"COMMITTED", "ABORTED"} : Tell(t, outcome)

Spec == Init /\ [][Next]_avars

=============================================================================
