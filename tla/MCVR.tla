------------------------------- MODULE MCVR -------------------------------
(* Bounds of single runs of VR.                                            *)
EXTENDS VR

(* Nobody sends a null commit before an operation is committed.            *)
Quiet == \A m \in msgs : m.type = "Commit" => m.opnum > 0

(* Besides, the replica that leads view 0 hears of no other view.          *)
Deaf == Quiet /\ rep[0].view = 0

=============================================================================
