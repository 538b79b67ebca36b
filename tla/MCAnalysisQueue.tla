-------------------------- MODULE MCAnalysisQueue --------------------------
(* AnalysisQueue on a small instance: one job known under two payload texts  *)
(* (enqueued by a superadmin's request, critical, and by a reconciler), one  *)
(* worker id, two leases.                                                    *)
EXTENDS AnalysisQueue

CONSTANTS j1, p1, p2, w1

MCPayload == {p1, p2}
MCCritical == {p2}
MCJob == {j1}
MCJobOf == [p \in MCPayload |-> j1]
MCWorker == {w1}
=============================================================================
