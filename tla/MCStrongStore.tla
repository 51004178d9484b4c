--------------------------- MODULE MCStrongStore ---------------------------
(* Instances of StrongStore: two shards with one key each.                 *)
EXTENDS StrongStore

CONSTANTS s1, s2, a, b

StartTsById == [t \in Txns |-> t]
TwoShards == [k \in Keys |-> IF k = a THEN s1 ELSE s2]
CoordinatorOdd == [t \in Txns |-> IF t % 2 = 1 THEN s1 ELSE s2]

Ops(get, update, put) == [get |-> get, update |-> update, put |-> put]

(* Write skew, with an older blind writer of both keys in its way.         *)
Skew == [t \in Txns |-> CASE t = 1 -> Ops({}, {}, {a, b})
                         [] t = 2 -> Ops({a}, {b}, {b})
                         [] t = 3 -> Ops({b}, {}, {a})]

(* Two that read and write everything, in any order.                       *)
Crossed == [t \in Txns |-> Ops({a}, {b}, {a, b})]

(* A reader of both keys, and an older writer of each.                     *)
Squeezed == [t \in Txns |-> CASE t = 1 -> Ops({}, {}, {a})
                             [] t = 2 -> Ops({}, {}, {b})
                             [] t = 3 -> Ops({a, b}, {}, {b})]

=============================================================================
