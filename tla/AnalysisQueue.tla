--------------------------- MODULE AnalysisQueue ---------------------------
(***************************************************************************)
(* The analysis lane of worker/queue.py: a JobLane that can also park a    *)
(* leased payload in the scheduled-retry zset, move it to the dead-letter  *)
(* queue and bring it back, and be purged of everything it holds of a job. *)
(* Its callers (API handlers, worker tasks, reapers, the startup and read  *)
(* reconcilers) are the environment here: a call may come at any time and, *)
(* for a purge, work from a snapshot that is arbitrarily old.  Module      *)
(* AnalysisJobs puts those callers in.                                     *)
(***************************************************************************)
EXTENDS JobLane

CONSTANTS
    Job,              \* analysis job ids
    JobOf,            \* the job_id in each payload
    DueTime,          \* the times a retry may be scheduled for
    PromoteLimit      \* limit: payloads one promotion may move

ASSUME AnalysisAssumption ==
    /\ JobOf \in [Payload -> Job]
    /\ DueTime \subseteq Nat
    /\ PromoteLimit \in Nat \ {0}

VARIABLES
    retry,            \* payload -> due time: the scheduled-retry zset
    dlqActive,        \* analysis:dlq:active
    dlqLast,          \* job -> payload: the last entry of its DLQ history list
    reviving,         \* requeue_dlq_job calls in flight
    purging           \* tokens a purge has still to delete the lease of

parkVars == <<retry, dlqActive, dlqLast, reviving, purging>>
vars == <<laneVars, peerVars, parkVars>>

Revival == [job : Job, raw : Payload, pushed : BOOLEAN]

Init ==
    /\ LaneInit
    /\ retry = <<>>
    /\ dlqActive = {}
    /\ dlqLast = <<>>
    /\ reviving = {}
    /\ purging = {}

-----------------------------------------------------------------------------
(* Settling a lease by parking its payload: the scripts compare the lease   *)
(* time of the caller's copy with the record's, s with lease[t].leasedAt.   *)

OwnsAsLeased(t, w, s) == Owns(t, w) /\ lease[t].leasedAt = s

\* ZADD of a payload that is already parked only moves its due time.
ScheduleRetry(t, w, s, due) ==
    /\ OwnsAsLeased(t, w, s)
    /\ retry' = Extend(retry, lease[t].raw, due)
    /\ Release(t)
    /\ UNCHANGED <<queue, leaseSeq, now, reaperVars, peerVars,
                   dlqActive, dlqLast, reviving, purging>>

\* Slip: the entry is not pushed onto the job's history list.
MoveToDlqUnlisted(t, w, s) ==
    /\ OwnsAsLeased(t, w, s)
    /\ dlqActive' = dlqActive \cup {JobOf[lease[t].raw]}
    /\ Release(t)
    /\ UNCHANGED <<queue, leaseSeq, now, reaperVars, peerVars,
                   retry, dlqLast, reviving, purging>>

MoveToDlq(t, w, s) ==
    /\ OwnsAsLeased(t, w, s)
    /\ dlqLast' = Extend(dlqLast, JobOf[lease[t].raw], lease[t].raw)
    /\ dlqActive' = dlqActive \cup {JobOf[lease[t].raw]}
    /\ Release(t)
    /\ UNCHANGED <<queue, leaseSeq, now, reaperVars, peerVars, retry, reviving, purging>>

\* One run of the promotion script: payloads that are due, earliest first,
\* each pushed as "standard" while the guard admits it.
Due == {raw \in DOMAIN retry : retry[raw] =< now}
InScoreOrder(s) ==
    /\ IsInjective(s)
    /\ \A i, j \in DOMAIN s : i < j => retry[s[i]] =< retry[s[j]]
    /\ \A raw \in Due \ Range(s) : \A i \in DOMAIN s : retry[s[i]] =< retry[raw]

PromoteRetries ==
    \E n \in 1..PromoteLimit : \E s \in [1..n -> Due] :
        /\ InScoreOrder(s)
        /\ HasRoom(n)
        /\ n = PromoteLimit \/ Range(s) = Due \/ ~HasRoom(n + 1)
        /\ queue' = queue \o s
        /\ retry' = Without(retry, Range(s))
        /\ UNCHANGED <<processing, lease, leaseSeq, now, reaperVars, peerVars,
                       dlqActive, dlqLast, reviving, purging>>

-----------------------------------------------------------------------------
(* requeue_dlq_job: SISMEMBER and LINDEX, the guarded push, then SREM.  A    *)
(* refused push raises; the process may also die between two commands.      *)

ReadDlq(j) ==
    /\ j \in dlqActive
    /\ reviving' = reviving \cup {[job |-> j, raw |-> dlqLast[j], pushed |-> FALSE]}
    /\ UNCHANGED <<laneVars, peerVars, retry, dlqActive, dlqLast, purging>>

\* The push passes no priority on: a critical payload comes back as standard.
PushDlq(r) ==
    /\ r \in reviving /\ ~r.pushed
    /\ HasRoom(1)
    /\ queue' = Push(r.raw, FALSE)
    /\ reviving' = (reviving \ {r}) \cup {[r EXCEPT !.pushed = TRUE]}
    /\ UNCHANGED <<processing, lease, leaseSeq, now, reaperVars, peerVars,
                   retry, dlqActive, dlqLast, purging>>

RemoveDlq(r) ==
    /\ r \in reviving /\ r.pushed
    /\ dlqActive' = dlqActive \ {r.job}
    /\ reviving' = reviving \ {r}
    /\ UNCHANGED <<laneVars, peerVars, retry, dlqLast, purging>>

AbandonDlq(r) ==
    /\ r \in reviving
    /\ reviving' = reviving \ {r}
    /\ UNCHANGED <<laneVars, peerVars, retry, dlqActive, dlqLast, purging>>

-----------------------------------------------------------------------------
(* purge_analysis_job_transport, one Redis command a step, as driven by a   *)
(* snapshot: a payload it saw queued, in processing under some lease record *)
(* (or, its lease read too early, under none), parked, or a job in the DLQ. *)

\* LREM 0: what is left of the queue, in its order.
PurgeQueued(raw) ==
    LET kept == {i \in DOMAIN queue : queue[i] # raw}
        n == Cardinality(kept) IN
    /\ \E place \in [1..n -> kept] :
          /\ \A i, k \in 1..n : i < k => place[i] < place[k]
          /\ queue' = [i \in 1..n |-> queue[place[i]]]
    /\ UNCHANGED <<processing, lease, leaseSeq, now, reaperVars, peerVars, parkVars>>

\* T is the token the snapshot found for the payload, if it found one.
PurgeProcessing(raw, T) ==
    /\ processing' = Without(processing, Entries(raw))
    /\ purging' = purging \cup (T \cap LeasesOf(raw))
    /\ UNCHANGED <<queue, lease, leaseSeq, now, reaperVars, peerVars,
                   retry, dlqActive, dlqLast, reviving>>

PurgeLease(t) ==
    /\ t \in purging
    /\ lease' = Without(lease, {t})
    /\ purging' = purging \ {t}
    /\ UNCHANGED <<queue, processing, leaseSeq, now, reaperVars, peerVars,
                   retry, dlqActive, dlqLast, reviving>>

PurgeRetry(raw) ==
    /\ retry' = Without(retry, {raw})
    /\ UNCHANGED <<laneVars, peerVars, dlqActive, dlqLast, reviving, purging>>

PurgeDlq(j) ==
    /\ dlqActive' = dlqActive \ {j}
    /\ UNCHANGED <<laneVars, peerVars, retry, dlqLast, reviving, purging>>

-----------------------------------------------------------------------------
ParkStep ==
    \/ \E t \in DOMAIN lease, w \in Worker, s \in 0..now :
          \/ \E due \in DueTime : ScheduleRetry(t, w, s, due)
          \/ MoveToDlq(t, w, s)
    \/ PromoteRetries
    \/ \E j \in Job : ReadDlq(j)
    \/ \E r \in reviving : PushDlq(r) \/ RemoveDlq(r) \/ AbandonDlq(r)

PurgeStep ==
    \/ \E raw \in Payload : PurgeQueued(raw) \/ PurgeRetry(raw)
    \/ \E raw \in Payload, T \in {{}} \cup {{t} : t \in DOMAIN lease} : PurgeProcessing(raw, T)
    \/ \E t \in purging : PurgeLease(t)
    \/ \E j \in Job : PurgeDlq(j)

Next ==
    \/ LaneStep /\ UNCHANGED parkVars
    \/ \E h \in reaping : DropExpired(h) /\ UNCHANGED parkVars
    \/ ParkStep
    \/ PurgeStep

Spec == Init /\ [][Next]_vars

-----------------------------------------------------------------------------
\* Every variable holds what the keys of worker/queue.py can hold.
TypeOK ==
    /\ LaneTypeOK
    /\ IsPartial(retry, Payload, DueTime)
    /\ IsPartial(dlqLast, Job, Payload)
    /\ dlqActive \subseteq DOMAIN dlqLast
    /\ reviving \subseteq Revival
    /\ purging \subseteq 1..leaseSeq

\* No payload sits in the processing list more often than there are leases
\* for it: an entry nobody holds a lease of would never be reaped and would
\* take a slot of max_concurrent_jobs for good.
ProcessingRecoverable ==
    \A raw \in Payload : Cardinality(Entries(raw)) =< Cardinality(LeasesOf(raw))

\* The lane's depth guard: queued and processing payloads stay within
\* max_depth, but for the one that a requeue of a lease without an entry adds.
DepthBounded == Depth =< MaxDepth + 1

\* A token is granted once, and its lease record keeps the payload and the
\* worker it was granted for through renewals, purges and reaping.
LeaseIdentity ==
    [][ \A t \in DOMAIN lease' :
          IF t \in DOMAIN lease
          THEN lease'[t].raw = lease[t].raw /\ lease'[t].worker = lease[t].worker
          ELSE t > leaseSeq ]_vars
=============================================================================
