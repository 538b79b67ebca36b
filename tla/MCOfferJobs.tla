---------------------------- MODULE MCOfferJobs ----------------------------
(***************************************************************************)
(* Model values for OfferJobs: one request with two attempts, two workers. *)
(***************************************************************************)
EXTENDS OfferJobs

CONSTANTS o1, w1, w2
MCOffer == {o1}
MCWorker == {w1, w2}
MCAsked == {"high"}
MCActual == {3}
=============================================================================
