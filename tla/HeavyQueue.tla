---------------------------- MODULE HeavyQueue ----------------------------
(***************************************************************************)
(* The heavy lane of worker/heavy_queue.py (exports and photo transforms). *)
(* A heavy task acknowledges its lease whether the work succeeded or not   *)
(* (runner.py, _run_heavy_job_task), and the heavy reaper asks no database:*)
(* it requeues whatever expired, and the drop it falls back to finds the   *)
(* same record gone, so it never takes effect.                             *)
(***************************************************************************)
EXTENDS JobLane

vars == <<laneVars, peerVars>>

Init == LaneInit

Next == LaneStep

Spec == Init /\ [][Next]_vars

\* Every worker's main loop runs the reaper and takes a payload when it has a
\* slot; the event loop resumes what a reaper has begun.  Reapers may die, but
\* not for ever.  Nothing is assumed of the tasks: no lease need be renewed or
\* acknowledged, as when their worker has died.
Fairness ==
    /\ WF_vars(Tick)
    /\ WF_vars(ScanExpired)
    /\ \A t \in 1..MaxLeases : SF_vars(LoadScanned(t))
    /\ SF_vars(\E h \in reaping : RequeueExpired(h))
    /\ WF_vars(\E w \in Worker : Dequeue(w))

FairSpec == Spec /\ Fairness

-----------------------------------------------------------------------------
\* Every variable holds what the keys of worker/heavy_queue.py can hold.
TypeOK == LaneTypeOK

\* Leases and processing entries of a payload always pair up: nothing in
\* processing is beyond the reaper's reach and no lease is without its entry.
LeasesMatchProcessing ==
    \A raw \in Payload : Cardinality(Entries(raw)) = Cardinality(LeasesOf(raw))

\* So the lane never holds more than max_depth payloads, requeues included.
DepthWithinLimit == Depth =< MaxDepth

\* A lease that has expired is settled or renewed: crashed workers do not
\* keep their payloads, nor their slots, for ever.  (Once the bound on leases
\* is reached nothing leaves the queue and the requeue may find it full.)
ExpiredLeaseSettled ==
    \A t \in 1..MaxLeases :
        (t \in DOMAIN lease /\ Expired(t))
            ~> (t \notin DOMAIN lease \/ ~Expired(t) \/ leaseSeq = MaxLeases)

\* A payload leaves the lane by an acknowledgement alone: copies in the queue
\* and under lease fall only with a live lease of its own.
Copies(raw) ==
    Cardinality({i \in DOMAIN queue : queue[i] = raw}) + Cardinality(LeasesOf(raw))
LostOnlyByAck ==
    [][ \A raw \in Payload :
          Copies(raw)' < Copies(raw) =>
              \E t \in LeasesOf(raw), w \in Worker : Ack(t, w) ]_vars
=============================================================================
