-------------------------- MODULE MCSnapshotReads --------------------------
(* Shard a has the keys x and z, shard b has y.  The setups differ in what *)
(* the transactions touch, so that each kind of conflict happens in one.   *)
EXTENDS SnapshotReads, TLC

CONSTANTS a, b, x, y, z, c1, c2, c3, w1, w2, r1, r2

MCShardOf == (x :> a) @@ (y :> b) @@ (z :> a)
MCId      == (c1 :> 2) @@ (c2 :> 1) @@ (a :> 3) @@ (b :> 4) @@ (c3 :> 5)

(* The clocks agree, or those of shard b and of client c3 lag.             *)
Exact == [n \in Nodes |-> 0]
Lag   == [n \in Nodes |-> IF n \in {b, c3} THEN -Error ELSE Error]

Writers(first, second) == (w1 :> first) @@ (w2 :> second)
Readers(first, second) == (r1 :> first) @@ (r2 :> second)

(* Sessions that only write, or only read, or write and then read.         *)
ReadOnce   == (c1 :> <<w1>>) @@ (c2 :> <<w2>>) @@ (c3 :> <<r1>>)
OneWriter  == (c1 :> <<w1>>) @@ (c2 :> <<>>) @@ (c3 :> <<r1, r2>>)
TwoReaders == (c1 :> <<w1>>) @@ (c2 :> <<r1>>) @@ (c3 :> <<r2>>)
WriteRead  == (c1 :> <<w1, r1>>) @@ (c2 :> <<w2>>) @@ (c3 :> <<>>)

Setup(mode, latency, offsets, sessions, writes, reads, at, last) ==
  [consistency |-> mode, latency |-> latency, skew |-> offsets, program |-> sessions,
   keys |-> writes @@ reads, coordinator |-> at, last_start |-> last]

MCSetups ==
  { \* A session sees a write at one shard that the other shard has not applied.
    Setup("RSS", 6, Lag, OneWriter, Writers({x, y}, {z}), Readers({x}, {y}), Writers(a, a), 5),
    \* One writer may be skipped when the other one must be waited for.
    Setup("RSS", 3, Exact, ReadOnce, Writers({x}, {z}), Readers({x, z}, {y}), Writers(a, a), 5),
    \* Writers that touch nothing in common, at shards whose clocks differ.
    Setup("RSS", 1, Lag, ReadOnce, Writers({x}, {y}), Readers({x, y}, {x}), Writers(a, b), 5),
    \* Readers of two sessions.
    Setup("SS",  0, Lag, TwoReaders, Writers({x, y}, {z}), Readers({x}, {y}), Writers(a, a), 5),
    \* Writers that wait for each other's locks.
    Setup("SS",  0, Lag, WriteRead, Writers({x, y}, {y, z}), Readers({y}, {x}), Writers(a, b), 3),
    Setup("RSS", 2, Lag, WriteRead, Writers({x, y}, {y, z}), Readers({y}, {x}), Writers(a, b), 3) }

=============================================================================
