----------------------------- MODULE DualLanes -----------------------------
(***************************************************************************)
(* The analysis lane and the heavy lane over the same Redis.  Each lane's  *)
(* scripts read the lengths of the other lane's lists (the peer keys of    *)
(* the capacity guard and of the lease script) to keep the two limits that *)
(* span both: max_concurrent_jobs leased and max_global_queued waiting.    *)
(***************************************************************************)
EXTENDS Integers, Sequences, FiniteSets

CONSTANTS
    Payload, Critical, Job, JobOf, DueTime, PromoteLimit,    \* of the analysis lane
    HeavyPayload, HeavyCritical,                             \* of the heavy lane
    Worker, MaxConcurrent, MaxGlobalQueued, LeaseTimeout,
    MaxDepth, HeavyMaxDepth,
    MaxTime, MaxLeases, HeavyMaxLeases,                      \* bounds
    PeerBound         \* bound: as in JobLane, and no tighter than the limits

ASSUME LanesAssumption ==
    /\ Critical \subseteq Payload /\ HeavyCritical \subseteq HeavyPayload
    /\ JobOf \in [Payload -> Job] /\ DueTime \subseteq Nat
    /\ {MaxDepth, HeavyMaxDepth, MaxConcurrent, MaxGlobalQueued} \subseteq Nat \ {0}
    /\ {LeaseTimeout, PromoteLimit} \subseteq Nat \ {0}
    /\ {MaxTime, MaxLeases, HeavyMaxLeases, PeerBound} \subseteq Nat
    /\ MaxConcurrent =< PeerBound /\ MaxGlobalQueued =< PeerBound

VARIABLES
    now,
    queue, processing, lease, leaseSeq, scanned, reaping,
    retry, dlqActive, dlqLast, reviving, purging,
    hQueue, hProcessing, hLease, hLeaseSeq, hScanned, hReaping

A == INSTANCE AnalysisQueue
        WITH peerQueued <- Len(hQueue), peerProcessing <- Cardinality(DOMAIN hProcessing)

H == INSTANCE HeavyQueue
        WITH Payload <- HeavyPayload, Critical <- HeavyCritical, MaxDepth <- HeavyMaxDepth,
             MaxLeases <- HeavyMaxLeases,
             queue <- hQueue, processing <- hProcessing, lease <- hLease,
             leaseSeq <- hLeaseSeq, scanned <- hScanned, reaping <- hReaping,
             peerQueued <- Len(queue), peerProcessing <- Cardinality(DOMAIN processing)

heavyLane == <<hQueue, hProcessing, hLease, hLeaseSeq, hScanned, hReaping>>
analysisLane == <<queue, processing, lease, leaseSeq, scanned, reaping,
                  retry, dlqActive, dlqLast, reviving, purging>>
vars == <<now, analysisLane, heavyLane>>

Init == hQueue = <<>> /\ hProcessing = <<>> /\ A!Init /\ H!Init

\* One script runs at a time; a tick of the clock is a step of both lanes.
Next ==
    \/ UNCHANGED heavyLane /\ A!Next
    \/ UNCHANGED analysisLane /\ H!Next

Spec == Init /\ [][Next]_vars

-----------------------------------------------------------------------------
\* The limits that span both lanes hold whichever lane's workers poll and
\* whatever is requeued, promoted or revived meanwhile: leased payloads never
\* exceed max_concurrent_jobs, waiting ones never max_global_queued.
LimitsShared ==
    /\ Cardinality(DOMAIN processing) + Cardinality(DOMAIN hProcessing) =< MaxConcurrent
    /\ Len(queue) + Len(hQueue) =< MaxGlobalQueued

\* Side by side, each lane still behaves as its own specification says: to it
\* the other is no more than a neighbour whose lengths move.
EachLaneSpec == A!Spec /\ H!Spec
=============================================================================
