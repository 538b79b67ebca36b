--------------------------- MODULE MCHeavyQueue ---------------------------
(* HeavyQueue on a small instance: two payloads, one of them critical, one   *)
(* worker id, three leases.  The other lane is empty (module DualLanes has   *)
(* both).                                                                    *)
EXTENDS HeavyQueue

CONSTANTS p1, p2, w1

MCPayload == {p1, p2}
MCCritical == {p2}
MCWorker == {w1}
=============================================================================
