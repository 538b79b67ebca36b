--------------------------- MODULE MCAnalysisJobs ---------------------------
(* AnalysisJobs on a small instance: one job and two worker processes, of    *)
(* which one has yet to start.                                               *)
EXTENDS AnalysisJobs

CONSTANTS j1, w1, w2

MCJob == {j1}
MCWorker == {w1, w2}
MCFirstOnly == {w1}
MCBoth == {w1, w2}
=============================================================================
