---------------------------- MODULE MCDualLanes ----------------------------
(* DualLanes on a small instance: one payload a lane, so that the limits     *)
(* that span the lanes are the ones reached first.                           *)
EXTENDS DualLanes

CONSTANTS j1, p1, h1, w1

MCPayload == {p1}
MCHeavyPayload == {h1}
MCJob == {j1}
MCJobOf == [p \in MCPayload |-> j1]
MCWorker == {w1}
MCNone == {}
=============================================================================
