------------------------- MODULE AnalysisJobsProofs -------------------------
(***************************************************************************)
(* Theorems about the rows of analysis jobs and their lane, for any number *)
(* of jobs, workers, leases and clock ticks, and any limits.               *)
(*   - Every step of AnalysisJobs is a step of JobLifecycle or leaves the  *)
(*     rows alone (RowsLiveTheLifecycle); what the lifecycle promises then *)
(*     holds of the rows.                                                  *)
(*   - Every step is a step of AnalysisQueue or leaves the lane alone      *)
(*     (LaneKeepsItsSpec); what AnalysisQueueProofs proves then holds of   *)
(*     this lane, whose constants meet that module's assumptions.          *)
(*   - The safety invariants of the run MCJobsReads, by one inductive      *)
(*     invariant.  Neither is inductive alone: a heartbeat is written from *)
(*     what the task remembers of its renewal, and a task whose job has a  *)
(*     result acknowledges it, running or not.                             *)
(***************************************************************************)
EXTENDS AnalysisJobs, FiniteSetTheorems, SequenceTheorems, TLAPS

LaneTypes ==
    /\ Q!LaneTypeOK
    /\ Q!IsPartial(retry, Job, DueTime)
    /\ Q!IsPartial(dlqLast, Job, Job)
    /\ dlqActive \subseteq DOMAIN dlqLast
    /\ reviving \subseteq Q!Revival
    /\ purging \subseteq 1..leaseSeq

RowTypes ==
    /\ Q!IsPartial(row, Job, Row)
    /\ results \in [Job -> Nat]

TaskTypes ==
    /\ up \in [Worker -> {"new", "starting", "up", "dead"}]
    /\ Q!IsPartial(task, 1..leaseSeq, Task)

CallerTypes ==
    /\ Q!IsPartial(verdict, reaping, {"reset", "requeue", "drop"})
    /\ DOMAIN recon \subseteq (Worker \cup {Api}) \X Job
    /\ creating \cup reprocessing \subseteq DOMAIN row
    /\ canceling \subseteq [job : DOMAIN row, loaded : {"queued", "running"}]
    /\ spent \in Nat

Types == LaneTypes /\ RowTypes /\ TaskTypes /\ CallerTypes

-----------------------------------------------------------------------------
(* Partial functions *)

\* An entry that is there is replaced; no other entry changes.
LEMMA ReplaceIsPartial ==
    ASSUME NEW f, NEW S, NEW T, NEW x, NEW v, x \in DOMAIN f => v \in T, Q!IsPartial(f, S, T)
    PROVE  /\ Q!IsPartial([f EXCEPT ![x] = v], S, T)
           /\ DOMAIN [f EXCEPT ![x] = v] = DOMAIN f
           /\ x \in DOMAIN f => [f EXCEPT ![x] = v][x] = v
           /\ \A y \in DOMAIN f \ {x} : [f EXCEPT ![x] = v][y] = f[y]
    BY DEF Q!IsPartial

-----------------------------------------------------------------------------
(* The lane.  Each step of the system is one of these steps of the lane. *)

LeaseStep ==
    \/ \E j \in Job : Q!Enqueue(j)
    \/ \E w \in Worker : Q!Dequeue(w)
    \/ \E t \in DOMAIN lease, w \in Worker : Q!Ack(t, w) \/ Q!Renew(t, w)
    \/ Q!ScanExpired
    \/ \E t \in scanned : Q!LoadScanned(t)
    \/ \E h \in reaping : Q!RequeueExpired(h) \/ Q!LeaveExpired(h) \/ Q!DropExpired(h)
    \/ Q!ReaperDies
    \/ Q!Tick

ParkStep ==
    \/ \E t \in DOMAIN lease, w \in Worker : \E s :
          Q!MoveToDlq(t, w, s) \/ \E due \in DueTime : Q!ScheduleRetry(t, w, s, due)
    \/ Q!PromoteRetries
    \/ \E j \in Job : Q!ReadDlq(j)
    \/ \E r \in reviving : Q!PushDlq(r) \/ Q!RemoveDlq(r) \/ Q!AbandonDlq(r)

PurgeStep ==
    \/ \E j \in Job : Q!PurgeQueued(j) \/ Q!PurgeRetry(j) \/ Q!PurgeDlq(j)
    \/ \E j \in Job : \E u : Q!PurgeProcessing(j, {u})
    \/ \E t \in purging : Q!PurgeLease(t)

ForgetReaped ==
    /\ scanned' = {} /\ reaping' = {}
    /\ UNCHANGED <<queue, processing, lease, leaseSeq, now, parked>>

LaneMoves ==
    \/ LeaseStep /\ UNCHANGED parked
    \/ ParkStep
    \/ PurgeStep
    \/ ForgetReaped
    \/ UNCHANGED lane

\* A token is granted once, in order; a lease record keeps its payload and its
\* worker, and its lease time only grows.
LeasesKept ==
    /\ leaseSeq' \in {leaseSeq, leaseSeq + 1}
    /\ now' \in {now, now + 1}
    /\ \A t \in DOMAIN lease' :
          \/ /\ t \in DOMAIN lease
             /\ lease'[t].raw = lease[t].raw
             /\ lease'[t] = lease[t] \/ lease'[t].leasedAt = now
          \/ t = leaseSeq + 1 /\ lease'[t].leasedAt = now

LEMMA LaneConstants ==
    /\ {MaxDepth, MaxConcurrent, MaxGlobalQueued, LeaseTimeout, PromoteLimit} \subseteq Nat \ {0}
    /\ MaxTime \in Nat /\ MaxLeases \in Nat /\ RetryDelay \in Nat
    /\ Api \notin Worker
    BY JobsAssumption

\* A release takes the lease and at most an entry.
LEMMA ReleaseTypes ==
    ASSUME Q!LaneTypeOK, NEW t, t \in DOMAIN lease, Q!Release(t)
    PROVE  /\ Q!IsPartial(processing', 1..MaxLeases, Job)
           /\ Q!IsPartial(lease', 1..MaxLeases, Q!LeaseRecord)
           /\ DOMAIN processing' \subseteq DOMAIN processing
           /\ DOMAIN lease' \subseteq DOMAIN lease
           /\ \A u \in DOMAIN lease' : lease'[u] = lease[u]
<1>1. /\ Q!IsPartial(processing, 1..MaxLeases, Job)
      /\ Q!IsPartial(lease, 1..MaxLeases, Q!LeaseRecord)
    BY DEF Q!LaneTypeOK
<1>2. PICK gone : processing' = Q!Without(processing, gone)
    BY DEF Q!Release, Q!LremFirst
<1>3. lease' = Q!Without(lease, {t})
    BY DEF Q!Release
<1>4. /\ Q!IsPartial(Q!Without(processing, gone), 1..MaxLeases, Job)
      /\ DOMAIN Q!Without(processing, gone) \subseteq DOMAIN processing
    BY <1>1 DEF Q!IsPartial, Q!Without, Q!Restrict
<1>5. /\ Q!IsPartial(Q!Without(lease, {t}), 1..MaxLeases, Q!LeaseRecord)
      /\ DOMAIN Q!Without(lease, {t}) = DOMAIN lease \ {t}
      /\ \A u \in DOMAIN lease \ {t} : Q!Without(lease, {t})[u] = lease[u]
    BY <1>1 DEF Q!IsPartial, Q!Without, Q!Restrict
<1> QED
    BY <1>2, <1>3, <1>4, <1>5

LEMMA PushTypes ==
    ASSUME NEW j \in Job, NEW critical, queue \in Seq(Job)
    PROVE  Q!Push(j, critical) \in Seq(Job)
<1>1. <<j>> \in Seq(Job)
    OBVIOUS
<1>2. <<j>> \o queue \in Seq(Job) /\ Append(queue, j) \in Seq(Job)
    BY <1>1, ConcatProperties, AppendProperties
<1> QED
    BY <1>2 DEF Q!Push

LEMMA LeaseStepKeeps ==
    ASSUME LaneTypes, LeaseStep, UNCHANGED parked
    PROVE  LaneTypes' /\ LeasesKept
<1> USE DEF Q!LaneTypeOK, LaneTypes
<1>0. leaseSeq \in Nat /\ now \in Nat /\ MaxLeases \in Nat /\ MaxTime \in Nat
    BY LaneConstants
<1> SUFFICES Q!LaneTypeOK' /\ LeasesKept
  <2>1. LeasesKept => 1..leaseSeq \subseteq 1..leaseSeq'
    BY <1>0 DEF LeasesKept
  <2>2. /\ retry' = retry /\ dlqActive' = dlqActive /\ dlqLast' = dlqLast
        /\ reviving' = reviving /\ purging' = purging
    BY DEF parked
  <2> QED
    BY <2>1, <2>2
<1>1. ASSUME NEW j \in Job, Q!Enqueue(j)
      PROVE  Q!LaneTypeOK' /\ LeasesKept
  <2>1. queue' \in Seq(Job)
    BY <1>1, PushTypes DEF Q!Enqueue
  <2> QED
    BY <1>1, <2>1 DEF Q!Enqueue, Q!reaperVars, LeasesKept
<1>2. ASSUME NEW w \in Worker, Q!Dequeue(w)
      PROVE  Q!LaneTypeOK' /\ LeasesKept
  <2>1. Head(queue) \in Job /\ Tail(queue) \in Seq(Job)
    BY <1>2, HeadTailProperties DEF Q!Dequeue
  <2>2. /\ Q!NextToken = leaseSeq + 1 /\ Q!NextToken \in 1..MaxLeases
        /\ leaseSeq' = leaseSeq + 1 /\ leaseSeq' \in 0..MaxLeases
    BY <1>0, <1>2 DEF Q!Dequeue, Q!NextToken
  <2>3. [raw |-> Head(queue), worker |-> w, leasedAt |-> now] \in Q!LeaseRecord
    BY <2>1 DEF Q!LeaseRecord
  <2>4. /\ Q!IsPartial(processing', 1..MaxLeases, Job)
        /\ DOMAIN processing' = DOMAIN processing \cup {leaseSeq + 1}
    <3>1. processing' = Q!Extend(processing, leaseSeq + 1, Head(queue))
      BY <1>2, <2>2 DEF Q!Dequeue
    <3>2. leaseSeq + 1 \in 1..MaxLeases /\ Q!IsPartial(processing, 1..MaxLeases, Job)
      BY <2>2
    <3> QED
      BY <2>1, <3>1, <3>2 DEF Q!IsPartial, Q!Extend
  <2>5. /\ Q!IsPartial(lease', 1..MaxLeases, Q!LeaseRecord)
        /\ DOMAIN lease' = DOMAIN lease \cup {leaseSeq + 1}
        /\ lease'[leaseSeq + 1] = [raw |-> Head(queue), worker |-> w, leasedAt |-> now]
        /\ \A t \in DOMAIN lease \ {leaseSeq + 1} : lease'[t] = lease[t]
    <3>1. lease' = Q!Extend(lease, leaseSeq + 1,
                            [raw |-> Head(queue), worker |-> w, leasedAt |-> now])
      BY <1>2, <2>2 DEF Q!Dequeue
    <3>2. leaseSeq + 1 \in 1..MaxLeases /\ Q!IsPartial(lease, 1..MaxLeases, Q!LeaseRecord)
      BY <2>2
    <3> QED
      BY <2>3, <3>1, <3>2 DEF Q!IsPartial, Q!Extend
  <2>6. leaseSeq + 1 \notin DOMAIN lease
    BY <1>0
  <2>7. (DOMAIN processing \cup DOMAIN lease \cup scanned)' \subseteq 1..leaseSeq'
    BY <1>0, <1>2, <2>2, <2>4, <2>5 DEF Q!Dequeue, Q!reaperVars
  <2>8. LeasesKept
    BY <1>2, <2>2, <2>5, <2>6 DEF LeasesKept, Q!Dequeue
  <2> QED
    BY <1>2, <2>1, <2>2, <2>4, <2>5, <2>7, <2>8 DEF Q!Dequeue, Q!reaperVars
<1>3. ASSUME NEW t \in DOMAIN lease, NEW w \in Worker, Q!Ack(t, w)
      PROVE  Q!LaneTypeOK' /\ LeasesKept
    BY <1>3, ReleaseTypes DEF Q!Ack, Q!reaperVars, LeasesKept
<1>4. ASSUME NEW t \in DOMAIN lease, NEW w \in Worker, Q!Renew(t, w)
      PROVE  Q!LaneTypeOK' /\ LeasesKept
  <2>1. [lease[t] EXCEPT !.leasedAt = now] \in Q!LeaseRecord
    BY DEF Q!IsPartial, Q!LeaseRecord
  <2>2. lease' = [lease EXCEPT ![t] = [lease[t] EXCEPT !.leasedAt = now]]
    BY <1>4 DEF Q!Renew
  <2>3. /\ Q!IsPartial(lease', 1..MaxLeases, Q!LeaseRecord) /\ DOMAIN lease' = DOMAIN lease
        /\ lease'[t] = [lease[t] EXCEPT !.leasedAt = now]
        /\ \A u \in DOMAIN lease \ {t} : lease'[u] = lease[u]
    BY <2>1, <2>2, ReplaceIsPartial
  <2>4. lease'[t].raw = lease[t].raw /\ lease'[t].leasedAt = now
    BY <2>3 DEF Q!IsPartial, Q!LeaseRecord
  <2>5. LeasesKept
    BY <1>4, <2>3, <2>4 DEF Q!Renew, LeasesKept
  <2> QED
    BY <1>4, <2>3, <2>5 DEF Q!Renew, Q!reaperVars
<1>5. ASSUME Q!ScanExpired
      PROVE  Q!LaneTypeOK' /\ LeasesKept
    BY <1>5 DEF Q!ScanExpired, LeasesKept
<1>6. ASSUME NEW t \in scanned, Q!LoadScanned(t)
      PROVE  Q!LaneTypeOK' /\ LeasesKept
  <2>1. ASSUME t \in DOMAIN lease
        PROVE  [token |-> t, raw |-> lease[t].raw, worker |-> lease[t].worker,
                leasedAt |-> lease[t].leasedAt] \in Q!Handle
    BY <2>1 DEF Q!IsPartial, Q!LeaseRecord, Q!Handle
  <2>2. reaping' \subseteq Q!Handle
    BY <1>6, <2>1 DEF Q!LoadScanned
  <2> QED
    BY <1>6, <2>2 DEF Q!LoadScanned, LeasesKept
<1>7. ASSUME NEW h \in reaping, Q!RequeueExpired(h)
      PROVE  Q!LaneTypeOK' /\ LeasesKept
  <2>1. h.token \in DOMAIN lease /\ lease[h.token].raw \in Job
    BY <1>7 DEF Q!RequeueExpired, Q!Current, Q!IsPartial, Q!LeaseRecord
  <2>2. queue' \in Seq(Job)
    BY <1>7, <2>1, PushTypes DEF Q!RequeueExpired
  <2> QED
    BY <1>7, <2>1, <2>2, ReleaseTypes DEF Q!RequeueExpired, LeasesKept
<1>8. ASSUME NEW h \in reaping, Q!DropExpired(h)
      PROVE  Q!LaneTypeOK' /\ LeasesKept
    BY <1>8, ReleaseTypes DEF Q!DropExpired, Q!Current, LeasesKept
<1>9. ASSUME NEW h \in reaping, Q!LeaveExpired(h)
      PROVE  Q!LaneTypeOK' /\ LeasesKept
    BY <1>9 DEF Q!LeaveExpired, LeasesKept
<1>10. ASSUME Q!ReaperDies
       PROVE  Q!LaneTypeOK' /\ LeasesKept
    BY <1>10 DEF Q!ReaperDies, LeasesKept
<1>11. ASSUME Q!Tick
       PROVE  Q!LaneTypeOK' /\ LeasesKept
    BY <1>0, <1>11 DEF Q!Tick, Q!reaperVars, LeasesKept
<1> QED
    BY <1>1, <1>2, <1>3, <1>4, <1>5, <1>6, <1>7, <1>8, <1>9, <1>10, <1>11 DEF LeaseStep

\* A payload that leaves its lease for the retry zset or the DLQ.
LEMMA ParkedTypes ==
    ASSUME LaneTypes, NEW t, t \in DOMAIN lease, Q!Release(t),
           UNCHANGED <<queue, leaseSeq, now, scanned, reaping>>
    PROVE  Q!LaneTypeOK' /\ LeasesKept
    BY ReleaseTypes DEF LaneTypes, Q!LaneTypeOK, LeasesKept

LEMMA ParkStepKeeps ==
    ASSUME LaneTypes, ParkStep
    PROVE  LaneTypes' /\ LeasesKept
<1> USE DEF LaneTypes
<1>1. ASSUME NEW t \in DOMAIN lease, NEW w, NEW s, NEW due \in DueTime, Q!ScheduleRetry(t, w, s, due)
      PROVE  LaneTypes' /\ LeasesKept
  <2>1. Q!LaneTypeOK' /\ LeasesKept
    BY <1>1, ParkedTypes DEF Q!ScheduleRetry, Q!reaperVars
  <2>2. lease[t].raw \in Job
    BY DEF Q!LaneTypeOK, Q!IsPartial, Q!LeaseRecord
  <2>3. Q!IsPartial(retry', Job, DueTime)
    BY <1>1, <2>2 DEF Q!ScheduleRetry, Q!IsPartial, Q!Extend
  <2> QED
    BY <1>1, <2>1, <2>3 DEF Q!ScheduleRetry
<1>2. ASSUME NEW t \in DOMAIN lease, NEW w, NEW s, Q!MoveToDlq(t, w, s)
      PROVE  LaneTypes' /\ LeasesKept
  <2>1. Q!LaneTypeOK' /\ LeasesKept
    BY <1>2, ParkedTypes DEF Q!MoveToDlq, Q!reaperVars
  <2>2. lease[t].raw \in Job
    BY DEF Q!LaneTypeOK, Q!IsPartial, Q!LeaseRecord
  <2>3. Q!IsPartial(dlqLast', Job, Job) /\ dlqActive' \subseteq DOMAIN dlqLast'
    BY <1>2, <2>2 DEF Q!MoveToDlq, Q!IsPartial, Q!Extend
  <2> QED
    BY <1>2, <2>1, <2>3 DEF Q!MoveToDlq
<1>3. ASSUME Q!PromoteRetries
      PROVE  LaneTypes' /\ LeasesKept
  <2>0. PICK n \in 1..PromoteLimit : \E s \in [1..n -> Q!Due] :
          /\ queue' = queue \o s
          /\ retry' = Q!Without(retry, Q!Range(s))
          /\ UNCHANGED <<processing, lease, leaseSeq, now, scanned, reaping,
                         dlqActive, dlqLast, reviving, purging>>
    BY <1>3 DEF Q!PromoteRetries, Q!reaperVars
  <2>1. PICK s \in [1..n -> Q!Due] :
          /\ queue' = queue \o s
          /\ retry' = Q!Without(retry, Q!Range(s))
          /\ UNCHANGED <<processing, lease, leaseSeq, now, scanned, reaping,
                         dlqActive, dlqLast, reviving, purging>>
    BY <2>0
  <2>2. s \in Seq(Job)
    BY LaneConstants DEF Q!Due, Q!IsPartial
  <2>3. queue' \in Seq(Job)
    BY <2>1, <2>2, ConcatProperties DEF Q!LaneTypeOK
  <2>4. Q!LaneTypeOK' /\ LeasesKept
    BY <2>1, <2>3 DEF Q!LaneTypeOK, LeasesKept
  <2>5. Q!IsPartial(retry', Job, DueTime)
    BY <2>1 DEF Q!IsPartial, Q!Without, Q!Restrict
  <2> QED
    BY <2>1, <2>4, <2>5
<1>4. ASSUME NEW j \in Job, Q!ReadDlq(j)
      PROVE  LaneTypes' /\ LeasesKept
  <2>1. Q!LaneTypeOK' /\ LeasesKept
    BY <1>4 DEF Q!ReadDlq, Q!LaneTypeOK, Q!laneVars, LeasesKept
  <2>2. [job |-> j, raw |-> dlqLast[j], pushed |-> FALSE] \in Q!Revival
    BY <1>4 DEF Q!ReadDlq, Q!IsPartial, Q!Revival
  <2> QED
    BY <1>4, <2>1, <2>2 DEF Q!ReadDlq, Q!laneVars
<1>5. ASSUME NEW r \in reviving, Q!PushDlq(r)
      PROVE  LaneTypes' /\ LeasesKept
  <2>1. r.raw \in Job /\ [r EXCEPT !.pushed = TRUE] \in Q!Revival
    BY DEF Q!Revival
  <2>2. queue' \in Seq(Job)
    BY <1>5, <2>1, PushTypes DEF Q!PushDlq, Q!LaneTypeOK
  <2>3. Q!LaneTypeOK' /\ LeasesKept
    BY <1>5, <2>2 DEF Q!PushDlq, Q!LaneTypeOK, Q!reaperVars, LeasesKept
  <2> QED
    BY <1>5, <2>1, <2>3 DEF Q!PushDlq
<1>6. ASSUME NEW r \in reviving, Q!RemoveDlq(r) \/ Q!AbandonDlq(r)
      PROVE  LaneTypes' /\ LeasesKept
  <2>1. Q!LaneTypeOK' /\ LeasesKept
    BY <1>6 DEF Q!RemoveDlq, Q!AbandonDlq, Q!LaneTypeOK, Q!laneVars, LeasesKept
  <2> QED
    BY <1>6, <2>1 DEF Q!RemoveDlq, Q!AbandonDlq, Q!laneVars
<1> QED
    BY <1>1, <1>2, <1>3, <1>4, <1>5, <1>6 DEF ParkStep

\* The lane counts as this module does.
LEMMA SameCardinality ==
    ASSUME NEW S
    PROVE  Q!Cardinality(S) = Cardinality(S)
    BY DEF Q!Cardinality, Cardinality

\* What LREM 0 leaves of a queue is a queue.
LEMMA PurgedQueueIsQueue ==
    ASSUME queue \in Seq(Job), NEW j, Q!PurgeQueued(j)
    PROVE  queue' \in Seq(Job)
<1> DEFINE kept == {i \in DOMAIN queue : queue[i] # j}
           n == Cardinality(kept)
<1>1. Len(queue) \in Nat /\ DOMAIN queue = 1..Len(queue)
    BY LenProperties
<1>2. IsFiniteSet(1..Len(queue))
    BY <1>1, FS_Interval
<1>3. n \in Nat
    BY <1>1, <1>2, FS_Subset, FS_CardinalityType
<1>4. PICK place \in [1..n -> kept] : queue' = [i \in 1..n |-> queue[place[i]]]
    BY SameCardinality DEF Q!PurgeQueued
<1> HIDE DEF n
<1>5. \A i \in 1..n : queue[place[i]] \in Job
    BY <1>1, <1>4, ElementOfSeq
<1> QED
    BY <1>3, <1>4, <1>5

LEMMA PurgeStepKeeps ==
    ASSUME LaneTypes, PurgeStep
    PROVE  LaneTypes' /\ LeasesKept
<1> USE DEF LaneTypes, Q!LaneTypeOK, LeasesKept
<1>1. ASSUME NEW j \in Job, Q!PurgeQueued(j)
      PROVE  LaneTypes' /\ LeasesKept
  <2>1. queue' \in Seq(Job)
    BY <1>1, PurgedQueueIsQueue
  <2> QED
    BY <1>1, <2>1 DEF Q!PurgeQueued, Q!reaperVars, Q!parkVars
<1>2. ASSUME NEW j \in Job, Q!PurgeRetry(j)
      PROVE  LaneTypes' /\ LeasesKept
  <2>1. Q!IsPartial(retry', Job, DueTime)
    BY <1>2 DEF Q!PurgeRetry, Q!IsPartial, Q!Without, Q!Restrict
  <2> QED
    BY <1>2, <2>1 DEF Q!PurgeRetry, Q!laneVars
<1>3. ASSUME NEW j \in Job, NEW T, Q!PurgeProcessing(j, T)
      PROVE  LaneTypes' /\ LeasesKept
  <2>1. /\ Q!IsPartial(processing', 1..MaxLeases, Job)
        /\ DOMAIN processing' \subseteq DOMAIN processing
    BY <1>3 DEF Q!PurgeProcessing, Q!IsPartial, Q!Without, Q!Restrict
  <2>2. purging' \subseteq 1..leaseSeq
    BY <1>3 DEF Q!PurgeProcessing, Q!LeasesOf
  <2> QED
    BY <1>3, <2>1, <2>2 DEF Q!PurgeProcessing, Q!reaperVars
<1>4. ASSUME NEW t \in purging, Q!PurgeLease(t)
      PROVE  LaneTypes' /\ LeasesKept
  <2>1. lease' = Q!Without(lease, {t})
    BY <1>4 DEF Q!PurgeLease
  <2>2. /\ Q!IsPartial(lease', 1..MaxLeases, Q!LeaseRecord)
        /\ DOMAIN lease' \subseteq DOMAIN lease
        /\ \A u \in DOMAIN lease' : lease'[u] = lease[u]
    BY <2>1 DEF Q!IsPartial, Q!Without, Q!Restrict
  <2> QED
    BY <1>4, <2>2 DEF Q!PurgeLease, Q!reaperVars
<1>5. ASSUME NEW j \in Job, Q!PurgeDlq(j)
      PROVE  LaneTypes' /\ LeasesKept
    BY <1>5 DEF Q!PurgeDlq, Q!laneVars
<1> QED
    BY <1>1, <1>2, <1>3, <1>4, <1>5 DEF PurgeStep

\* The lane stays well typed and its leases are kept, by whatever moves it.
LEMMA LaneMovesKeep ==
    ASSUME LaneTypes, LaneMoves
    PROVE  LaneTypes' /\ LeasesKept
<1>1. CASE ForgetReaped
    BY <1>1 DEF ForgetReaped, LaneTypes, Q!LaneTypeOK, LeasesKept, parked
<1>2. CASE UNCHANGED lane
    BY <1>2 DEF lane, LaneTypes, Q!LaneTypeOK, LeasesKept
<1> QED
    BY <1>1, <1>2, LeaseStepKeeps, ParkStepKeeps, PurgeStepKeeps DEF LaneMoves

LEMMA ApiLaneMoves ==
    ASSUME Types, ApiStep
    PROVE  LaneMoves
<1> USE DEF LaneMoves
<1>1. ASSUME NEW j \in Job, CreateRow(j) \/ EnqueueCreated(j) \/ BeginCancel(j)
      PROVE  LaneMoves
    BY <1>1 DEF CreateRow, EnqueueCreated, BeginCancel, LeaseStep, lane
<1>2. ASSUME NEW c, FinishCancel(c)
      PROVE  LaneMoves
    BY <1>2 DEF FinishCancel
<1>3. ASSUME NEW j \in Job, Reprocess(j) \/ ReviveOrEnqueue(j) \/ ReadJob(j)
      PROVE  LaneMoves
    BY <1>3 DEF Reprocess, ReviveOrEnqueue, ReadJob, LeaseStep, ParkStep
<1>4. ASSUME NEW r \in reviving, Revive(r)
      PROVE  LaneMoves
    BY <1>4 DEF Revive, ParkStep
<1>5. ASSUME ApiDies
      PROVE  LaneMoves
    BY <1>5 DEF ApiDies, ParkStep
<1> QED
    BY <1>1, <1>2, <1>3, <1>4, <1>5 DEF ApiStep

LEMMA TaskLaneMoves ==
    ASSUME Types, TaskStep
    PROVE  LaneMoves
<1> USE DEF LaneMoves
<1>1. ASSUME NEW w \in Worker, Lease(w)
      PROVE  LaneMoves
    BY <1>1 DEF Lease, LeaseStep
<1>2. ASSUME NEW w \in Worker, Crash(w)
      PROVE  LaneMoves
    BY <1>2 DEF Crash, ForgetReaped, lane, parked
<1>3. ASSUME NEW t \in DOMAIN task, Settle(t)
      PROVE  LaneMoves
  <2>1. task[t].worker \in Worker /\ task[t].due \in DueTime
    BY DEF Types, TaskTypes, Q!IsPartial, Task
  <2>2. CASE Q!Ack(t, task[t].worker) /\ UNCHANGED parked
    BY <2>1, <2>2 DEF LeaseStep, Q!Ack, Q!Owns
  <2>3. CASE Q!ScheduleRetry(t, task[t].worker, task[t].leasedAt, task[t].due)
    BY <2>1, <2>3 DEF ParkStep, Q!ScheduleRetry, Q!OwnsAsLeased, Q!Owns
  <2>4. CASE Q!MoveToDlq(t, task[t].worker, task[t].leasedAt)
    BY <2>1, <2>4 DEF ParkStep, Q!MoveToDlq, Q!OwnsAsLeased, Q!Owns
  <2>5. CASE UNCHANGED lane
    BY <2>5
  <2> QED
    BY <1>3, <2>2, <2>3, <2>4, <2>5 DEF Settle
<1>4. ASSUME NEW t \in DOMAIN task, Renew(t)
      PROVE  LaneMoves
  <2>1. task[t].worker \in Worker
    BY DEF Types, TaskTypes, Q!IsPartial, Task
  <2>2. CASE Q!Renew(t, task[t].worker) /\ UNCHANGED parked
    BY <2>1, <2>2 DEF LeaseStep, Q!Renew, Q!Owns
  <2> QED
    BY <1>4, <2>2 DEF Renew
<1>5. ASSUME NEW t \in DOMAIN task,
             \/ Claim(t) \/ Refuse(t) \/ Fail(t) \/ Check(t) \/ Persist(t) \/ DatabaseFails(t)
             \/ SettleFails(t) \/ Heartbeat(t) \/ HeartbeatFails(t)
      PROVE  LaneMoves
    BY <1>5 DEF Claim, Refuse, Fail, Check, Persist, DatabaseFails, SettleFails, Heartbeat,
                HeartbeatFails
<1> QED
    BY <1>1, <1>2, <1>3, <1>4, <1>5 DEF TaskStep

LEMMA ReaperLaneMoves ==
    ASSUME ReaperStep
    PROVE  LaneMoves
<1> USE DEF LaneMoves
<1>1. CASE Scan \/ \E t \in scanned : Load(t)
    BY <1>1 DEF Scan, Load, LeaseStep
<1>2. ASSUME NEW h \in reaping, Judge(h) \/ ResetByReaper(h)
      PROVE  LaneMoves
    BY <1>2 DEF Judge, ResetByReaper
<1>3. ASSUME NEW h \in reaping, FinalizeExpired(h)
      PROVE  LaneMoves
    BY <1>3 DEF FinalizeExpired, LeaseStep
<1>4. CASE ReaperFails \/ Tick
    BY <1>4 DEF ReaperFails, Tick, LeaseStep
<1>5. CASE Promote
    BY <1>5 DEF Promote, ParkStep
<1> QED
    BY <1>1, <1>2, <1>3, <1>4, <1>5 DEF ReaperStep

LEMMA ReconcilerLaneMoves ==
    ASSUME Types, ReconcilerStep
    PROVE  LaneMoves
<1> USE DEF LaneMoves
<1>1. ASSUME NEW w, StartWorker(w)
      PROVE  LaneMoves
    BY <1>1 DEF StartWorker
<1>2. ASSUME NEW k \in DOMAIN recon, Observes(k) \/ ResetsRow(k)
      PROVE  LaneMoves
    BY <1>2 DEF Observes, ResetsRow
<1>3. ASSUME NEW k \in DOMAIN recon, MovesTransport(k)
      PROVE  LaneMoves
  <2>1. k[2] \in Job
    BY DEF Types, CallerTypes
  <2>2. CASE Q!Enqueue(k[2]) /\ UNCHANGED parked
    BY <2>1, <2>2 DEF LeaseStep
  <2>3. CASE PurgeStep
    BY <2>3
  <2>4. CASE UNCHANGED lane
    BY <2>4
  <2>5. Q!PurgeLease(recon[k].snap.token) => PurgeStep
    BY DEF PurgeStep, Q!PurgeLease
  <2> QED
    BY <1>3, <2>1, <2>2, <2>3, <2>4, <2>5 DEF MovesTransport, PurgeStep
<1> QED
    BY <1>1, <1>2, <1>3 DEF ReconcilerStep

LEMMA EveryStepMovesTheLane ==
    ASSUME Types, Next
    PROVE  LaneMoves
    BY ApiLaneMoves, TaskLaneMoves, ReaperLaneMoves, ReconcilerLaneMoves DEF Next

-----------------------------------------------------------------------------
(* The rows.  Each step of the system moves at most one of them, in one of   *)
(* these ways.                                                               *)

SameResults == results' = results

CreatesRow(j) ==
    /\ j \notin DOMAIN row
    /\ row' = Q!Extend(row, j, [status |-> "queued", attempts |-> 0, token |-> 0,
                                worker |-> NoWorker, leasedAt |-> 0, byClaim |-> FALSE])
    /\ SameResults

ClaimsRow(t) ==
    /\ StatusIs(task[t].job, "queued")
    /\ row' = [row EXCEPT ![task[t].job] = Claimed(row[task[t].job], t)]
    /\ Goto(t, "running")
    /\ SameResults

Beaten(r, t) == [r EXCEPT !.leasedAt = task[t].renewedAt, !.byClaim = FALSE]

BeatsRow(t) ==
    /\ task[t].renewals = "beat"
    /\ OwnedBy(task[t].job, t, task[t].worker)
    /\ row' = [row EXCEPT ![task[t].job] = Beaten(row[task[t].job], t)]
    /\ SameResults

GivesBackRow(j) ==
    /\ StatusIs(j, "running")
    /\ row' = [row EXCEPT ![j] = Released(@, "queued")]
    /\ SameResults

\* Whatever the row has become, and whether or not there is one.
EndsRow(j, loaded, s) ==
    /\ row' = [row EXCEPT ![j] = Overwrite(@, loaded, s)]
    /\ SameResults

CompletesRow(t) ==
    /\ task[t].pc = "complete"
    /\ row' = [row EXCEPT ![task[t].job] = Overwrite(@, "running", "completed")]
    /\ results' = [results EXCEPT ![task[t].job] = @ + 1]

ReprocessesRow(j) ==
    /\ StatusIs(j, "dead_letter")
    /\ row' = [row EXCEPT ![j] = [Released(@, "queued") EXCEPT !.attempts = 0]]
    /\ SameResults
    /\ spent' = spent + 1

RowMoves ==
    \/ \E j \in Job : CreatesRow(j)
    \/ \E j : GivesBackRow(j) \/ ReprocessesRow(j)
    \/ \E j, loaded : \E s \in Final \ {"completed"} : EndsRow(j, loaded, s)
    \/ \E t \in DOMAIN task : ClaimsRow(t) \/ BeatsRow(t) \/ CompletesRow(t)
    \/ UNCHANGED db

LEMMA EveryStepMovesTheRows ==
    ASSUME Next
    PROVE  RowMoves
<1> USE DEF RowMoves, SameResults
<1>1. ASSUME NEW j \in Job,
             \/ CreateRow(j) \/ EnqueueCreated(j) \/ BeginCancel(j)
             \/ Reprocess(j) \/ ReviveOrEnqueue(j) \/ ReadJob(j)
      PROVE  RowMoves
  <2>1. CASE CreateRow(j)
    BY <2>1 DEF CreateRow, CreatesRow
  <2>2. CASE EnqueueCreated(j) \/ BeginCancel(j) \/ ReadJob(j)
    BY <2>2 DEF EnqueueCreated, BeginCancel, ReadJob
  <2>3. CASE Reprocess(j)
    BY <2>3 DEF Reprocess, ReprocessesRow, Spend
  <2>4. CASE ReviveOrEnqueue(j)
    BY <2>4 DEF ReviveOrEnqueue, BackToDeadLetter, EndsRow, db, Final
  <2> QED
    BY <1>1, <2>1, <2>2, <2>3, <2>4
<1>2. ASSUME NEW c \in canceling, FinishCancel(c)
      PROVE  RowMoves
  <2>1. EndsRow(c.job, c.loaded, "canceled")
    BY <1>2 DEF FinishCancel, EndsRow
  <2> QED
    BY <2>1 DEF Final
<1>3. ASSUME NEW r \in reviving, Revive(r)
      PROVE  RowMoves
    BY <1>3 DEF Revive, BackToDeadLetter, EndsRow, db, Final
<1>4. ASSUME ApiDies
      PROVE  RowMoves
    BY <1>4 DEF ApiDies
<1>5. ASSUME NEW w \in Worker, Lease(w) \/ Crash(w) \/ StartWorker(w)
      PROVE  RowMoves
    BY <1>5 DEF Lease, Crash, StartWorker
<1>6. ASSUME NEW t \in DOMAIN task,
             Claim(t) \/ Refuse(t) \/ Fail(t) \/ Check(t) \/ Persist(t) \/ DatabaseFails(t)
      PROVE  RowMoves
  <2>1. CASE Claim(t)
    BY <2>1 DEF Claim, ClaimsRow, db
  <2>2. CASE Refuse(t) \/ Check(t) \/ DatabaseFails(t)
    BY <2>2 DEF Refuse, Check, DatabaseFails
  <2>3. CASE Fail(t)
    <3>1. \E loaded : EndsRow(task[t].job, loaded, "failed")
      BY <2>3 DEF Fail, EndsRow
    <3> QED
      BY <3>1 DEF Final
  <2>4. CASE Persist(t)
    BY <2>4 DEF Persist, StoreResult, StoreDeadLetter, StoreRetry, LoseRetry,
                CompletesRow, EndsRow, GivesBackRow, Final
  <2> QED
    BY <1>6, <2>1, <2>2, <2>3, <2>4
<1>7. ASSUME NEW t \in DOMAIN task,
             \/ Settle(t) \/ SettleFails(t) \/ Renew(t) \/ Heartbeat(t) \/ HeartbeatFails(t)
      PROVE  RowMoves
  <2>1. CASE Settle(t) \/ SettleFails(t) \/ Renew(t) \/ HeartbeatFails(t)
    BY <2>1 DEF Settle, SettleFails, Renew, HeartbeatFails
  <2>2. CASE Heartbeat(t)
    <3>1. ASSUME row' = [row EXCEPT ![task[t].job].leasedAt = task[t].renewedAt,
                                   ![task[t].job].byClaim = FALSE]
          PROVE  row' = [row EXCEPT ![task[t].job] = Beaten(row[task[t].job], t)]
      BY <3>1 DEF Beaten
    <3> QED
      BY <2>2, <3>1 DEF Heartbeat, BeatsRow, db
  <2> QED
    BY <1>7, <2>1, <2>2
<1>8. ASSUME ReaperStep
      PROVE  RowMoves
  <2>1. CASE \E h \in reaping : ResetByReaper(h)
    BY <2>1 DEF ResetByReaper, GivesBackRow, db
  <2> QED
    BY <1>8, <2>1 DEF ReaperStep, Scan, Load, Judge, FinalizeExpired, ReaperFails, Promote, Tick
<1>9. ASSUME NEW k \in DOMAIN recon, Observes(k) \/ MovesTransport(k) \/ ResetsRow(k)
      PROVE  RowMoves
    BY <1>9 DEF Observes, MovesTransport, ResetsRow, GivesBackRow, db
<1> QED
    BY <1>1, <1>2, <1>3, <1>4, <1>5, <1>6, <1>7, <1>8, <1>9
       DEF Next, ApiStep, TaskStep, ReconcilerStep

\* A row that is released, overwritten or reprocessed remains a row of the table.
LEMMA ReleasedRow ==
    ASSUME NEW r \in Row, NEW s \in {"queued", "running"} \cup Final
    PROVE  /\ Released(r, s) \in Row
           /\ Released(r, s).status = s /\ Released(r, s).attempts = r.attempts
<1>1. 0 \in 0..MaxLeases /\ 0 \in 0..MaxTime /\ NoWorker \in Worker \cup {NoWorker}
    BY LaneConstants
<1>2. Released(r, s) \in Row
    BY <1>1, Zenon DEF Released, Row
<1>3. Released(r, s).status = s /\ Released(r, s).attempts = r.attempts
    BY DEF Released, Row
<1> QED
    BY <1>2, <1>3

LEMMA OverwrittenRow ==
    ASSUME NEW r \in Row, NEW loaded, NEW s \in {"queued", "running"} \cup Final
    PROVE  /\ Overwrite(r, loaded, s) \in Row
           /\ Overwrite(r, loaded, s).status = s
           /\ Overwrite(r, loaded, s).attempts = r.attempts
<1>1. CASE loaded = "running"
    BY <1>1, ReleasedRow DEF Overwrite
<1>2. CASE loaded # "running"
  <2>1. Overwrite(r, loaded, s) = [r EXCEPT !.status = s]
    BY <1>2 DEF Overwrite
  <2> QED
    BY <2>1 DEF Row
<1> QED
    BY <1>1, <1>2

LEMMA ReprocessedRow ==
    ASSUME NEW r \in Row
    PROVE  LET q == [Released(r, "queued") EXCEPT !.attempts = 0] IN
           q \in Row /\ q.status = "queued" /\ q.attempts = 0
<1>1. Released(r, "queued") \in Row /\ Released(r, "queued").status = "queued"
    BY ReleasedRow
<1> QED
    BY <1>1 DEF Row

LEMMA RowTypesKept ==
    ASSUME Types, RowMoves
    PROVE  RowTypes' /\ DOMAIN row \subseteq DOMAIN row'
<1> USE DEF RowTypes, SameResults
<1>1. /\ Q!IsPartial(row, Job, Row) /\ results \in [Job -> Nat]
      /\ \A j \in DOMAIN row : row[j] \in Row
      /\ MaxLeases \in Nat /\ MaxTime \in Nat /\ now \in 0..MaxTime /\ 1..leaseSeq \subseteq 0..MaxLeases
    BY LaneConstants DEF Types, LaneTypes, Q!LaneTypeOK, Q!IsPartial
<1>2. ASSUME NEW j \in Job, CreatesRow(j)
      PROVE  RowTypes' /\ DOMAIN row \subseteq DOMAIN row'
  <2>1. [status |-> "queued", attempts |-> 0, token |-> 0, worker |-> NoWorker,
         leasedAt |-> 0, byClaim |-> FALSE] \in Row
    BY <1>1 DEF Row
  <2> QED
    BY <1>1, <1>2, <2>1 DEF CreatesRow, Q!IsPartial, Q!Extend
<1>3. ASSUME NEW j, GivesBackRow(j)
      PROVE  RowTypes' /\ DOMAIN row \subseteq DOMAIN row'
  <2>1. j \in DOMAIN row => Released(row[j], "queued") \in Row
    BY <1>1, ReleasedRow
  <2> QED
    BY <1>1, <1>3, <2>1, ReplaceIsPartial DEF GivesBackRow
<1>4. ASSUME NEW j, ReprocessesRow(j)
      PROVE  RowTypes' /\ DOMAIN row \subseteq DOMAIN row'
  <2>1. j \in DOMAIN row => [Released(row[j], "queued") EXCEPT !.attempts = 0] \in Row
    BY <1>1, ReprocessedRow
  <2> QED
    BY <1>1, <1>4, <2>1, ReplaceIsPartial DEF ReprocessesRow
<1>5. ASSUME NEW j, NEW loaded, NEW s \in Final,
             row' = [row EXCEPT ![j] = Overwrite(@, loaded, s)]
      PROVE  Q!IsPartial(row', Job, Row) /\ DOMAIN row \subseteq DOMAIN row'
  <2>1. j \in DOMAIN row => Overwrite(row[j], loaded, s) \in Row
    BY <1>1, OverwrittenRow
  <2> QED
    BY <1>1, <1>5, <2>1, ReplaceIsPartial
<1>6. ASSUME NEW t \in DOMAIN task, ClaimsRow(t)
      PROVE  RowTypes' /\ DOMAIN row \subseteq DOMAIN row'
  <2> DEFINE j == task[t].job
             v == Claimed(row[j], t)
  <2>1. task[t].worker \in Worker /\ t \in 0..MaxLeases
    BY <1>1 DEF Types, TaskTypes, Q!IsPartial, Task
  <2>2. j \in DOMAIN row => v \in Row
    <3>1. j \in DOMAIN row => row[j] \in Row /\ row[j].attempts + 1 \in Nat
      BY <1>1 DEF Row
    <3>2. "running" \in {"queued", "running"} \cup Final
      OBVIOUS
    <3> QED
      BY <1>1, <2>1, <3>1, <3>2, Zenon DEF Row, Claimed
  <2>3. row' = [row EXCEPT ![j] = v] /\ results' = results
    BY <1>6 DEF ClaimsRow
  <2> HIDE DEF v, j
  <2> QED
    BY <1>1, <2>2, <2>3, ReplaceIsPartial
<1>7. ASSUME NEW t \in DOMAIN task, BeatsRow(t)
      PROVE  RowTypes' /\ DOMAIN row \subseteq DOMAIN row'
  <2> DEFINE j == task[t].job
             v == Beaten(row[j], t)
  <2>1. task[t].renewedAt \in 0..MaxTime
    BY <1>1 DEF Types, TaskTypes, Q!IsPartial, Task
  <2>2. j \in DOMAIN row => v \in Row
    BY <1>1, <2>1 DEF Row, Beaten
  <2>3. row' = [row EXCEPT ![j] = v] /\ results' = results
    BY <1>7 DEF BeatsRow
  <2> HIDE DEF v, j
  <2> QED
    BY <1>1, <2>2, <2>3, ReplaceIsPartial
<1>8. ASSUME NEW t \in DOMAIN task, CompletesRow(t)
      PROVE  RowTypes' /\ DOMAIN row \subseteq DOMAIN row'
  <2>1. "completed" \in Final
    BY DEF Final
  <2>2. results' \in [Job -> Nat]
    <3>1. \A j \in Job : results[j] + 1 \in Nat
      BY <1>1
    <3> QED
      BY <1>1, <1>8, <3>1 DEF CompletesRow
  <2> QED
    BY <1>5, <1>8, <2>1, <2>2 DEF CompletesRow
<1>9. CASE UNCHANGED db
    BY <1>1, <1>9 DEF db
<1>10. ASSUME NEW j, NEW loaded, NEW s \in Final \ {"completed"}, EndsRow(j, loaded, s)
       PROVE  RowTypes' /\ DOMAIN row \subseteq DOMAIN row'
    BY <1>1, <1>5, <1>10 DEF EndsRow
<1> QED
    BY <1>2, <1>3, <1>4, <1>6, <1>7, <1>8, <1>9, <1>10 DEF RowMoves

-----------------------------------------------------------------------------
(* The rows live the lifecycle. *)

Status == Column("status", "none")
Attempts == Column("attempts", 0)

LEMMA ColumnTypes ==
    ASSUME RowTypes
    PROVE  /\ Status \in [Job -> {"none", "queued", "running"} \cup Final]
           /\ Attempts \in [Job -> Nat]
           /\ \A j \in Job : Status[j] = IF j \in DOMAIN row THEN row[j].status ELSE "none"
           /\ \A j \in Job : Attempts[j] = IF j \in DOMAIN row THEN row[j].attempts ELSE 0
           /\ \A j \in DOMAIN row : j \in Job /\ row[j] \in Row /\ row[j].status # "none"
    BY DEF RowTypes, Q!IsPartial, Row, Status, Attempts, Column, Final

\* A write to one row moves that row's status and attempts, and no other's.
MovesOnly(j) ==
    /\ j \in DOMAIN row
    /\ DOMAIN row' = DOMAIN row
    /\ \A i \in DOMAIN row \ {j} : row'[i] = row[i]

LEMMA ColumnsFollow ==
    ASSUME RowTypes, NEW j, MovesOnly(j)
    PROVE  /\ j \in Job
           /\ Status' = [Status EXCEPT ![j] = row'[j].status]
           /\ Attempts' = [Attempts EXCEPT ![j] = row'[j].attempts]
<1>1. j \in Job
    BY ColumnTypes DEF MovesOnly
<1> QED
    BY <1>1 DEF MovesOnly, Status, Attempts, Column

\* A task that has an outcome to store has claimed a row.
HasClaimed ==
    \A t \in DOMAIN task :
        task[t].pc \in {"running", "complete", "retry", "dead"} => task[t].job \in DOMAIN row

LEMMA RowMovesAreLifecycleSteps ==
    ASSUME Types, HasClaimed, RowMoves
    PROVE  L!Next \/ UNCHANGED L!vars
<1> USE DEF SameResults
<1>0. RowTypes
    BY DEF Types
<1>1. /\ L!vars = <<Status, Attempts, results>>
      /\ UNCHANGED L!vars <=> UNCHANGED <<Status, Attempts, results>>
      /\ \A j, s : L!Become(j, s) <=> Status' = [Status EXCEPT ![j] = s]
    BY DEF L!vars, L!Become, Status, Attempts
<1>2. ASSUME NEW j \in Job, CreatesRow(j)
      PROVE  L!Create(j)
  <2>1. /\ DOMAIN row' = DOMAIN row \cup {j}
        /\ row'[j] = [status |-> "queued", attempts |-> 0, token |-> 0,
                      worker |-> NoWorker, leasedAt |-> 0, byClaim |-> FALSE]
        /\ \A i \in DOMAIN row : row'[i] = row[i]
    BY <1>2 DEF CreatesRow, Q!Extend
  <2>2. Status' = [Status EXCEPT ![j] = "queued"] /\ Attempts' = Attempts
    <3>1. row'[j].status = "queued" /\ row'[j].attempts = 0 /\ j \notin DOMAIN row
      BY <1>2, <2>1 DEF CreatesRow
    <3>2. \A i \in Job : /\ Status'[i] = [Status EXCEPT ![j] = "queued"][i]
                         /\ Attempts'[i] = Attempts[i]
      BY <2>1, <3>1 DEF Status, Attempts, Column
    <3>3. /\ Status' = [i \in Job |-> Status'[i]] /\ Attempts' = [i \in Job |-> Attempts'[i]]
          /\ Attempts = [i \in Job |-> Attempts[i]]
          /\ [Status EXCEPT ![j] = "queued"] = [i \in Job |-> [Status EXCEPT ![j] = "queued"][i]]
      BY DEF Status, Attempts, Column
    <3> QED
      BY <3>2, <3>3
  <2>3. Status[j] = "none"
    BY <1>2 DEF CreatesRow, Status, Column
  <2> QED
    BY <1>1, <1>2, <2>2, <2>3 DEF CreatesRow, L!Create, Status, Attempts
<1>3. ASSUME NEW j, GivesBackRow(j)
      PROVE  j \in Job /\ L!GiveBack(j)
  <2>1. j \in DOMAIN row /\ j \in Job /\ Status[j] = "running" /\ row[j] \in Row
    BY <1>0, <1>3, ColumnTypes DEF GivesBackRow, StatusIs
  <2>2. MovesOnly(j) /\ row'[j].status = "queued" /\ row'[j].attempts = Attempts[j]
    <3>1. MovesOnly(j) /\ row'[j] = Released(row[j], "queued")
      BY <1>3, <2>1 DEF GivesBackRow, MovesOnly
    <3> QED
      BY <1>0, <2>1, <3>1, ReleasedRow, ColumnTypes
  <2>3. Status' = [Status EXCEPT ![j] = "queued"] /\ Attempts' = [Attempts EXCEPT ![j] = Attempts[j]]
    BY <1>0, <2>1, <2>2, ColumnsFollow
  <2>4. Attempts' = Attempts
    BY <1>0, <2>3, ColumnTypes
  <2> QED
    BY <1>1, <1>3, <2>1, <2>3, <2>4 DEF GivesBackRow, L!GiveBack, Status, Attempts
<1>4. ASSUME NEW j, ReprocessesRow(j)
      PROVE  j \in Job /\ L!Reprocess(j)
  <2>1. j \in DOMAIN row /\ j \in Job /\ Status[j] = "dead_letter" /\ row[j] \in Row
    BY <1>0, <1>4, ColumnTypes DEF ReprocessesRow, StatusIs
  <2>2. MovesOnly(j) /\ row'[j].status = "queued" /\ row'[j].attempts = 0
    BY <1>4, <2>1, ReprocessedRow DEF ReprocessesRow, MovesOnly
  <2>3. Status' = [Status EXCEPT ![j] = "queued"] /\ Attempts' = [Attempts EXCEPT ![j] = 0]
    BY <1>0, <2>1, <2>2, ColumnsFollow
  <2> QED
    BY <1>1, <1>4, <2>1, <2>3 DEF ReprocessesRow, L!Reprocess, Status, Attempts
<1>5. ASSUME NEW j, NEW loaded, NEW s \in Final,
             row' = [row EXCEPT ![j] = Overwrite(@, loaded, s)]
      PROVE  /\ j \in DOMAIN row => /\ j \in Job /\ Status[j] # "none"
                                    /\ Status' = [Status EXCEPT ![j] = s] /\ Attempts' = Attempts
             /\ j \notin DOMAIN row => Status' = Status /\ Attempts' = Attempts
  <2>1. CASE j \in DOMAIN row
    <3>1. j \in Job /\ Status[j] # "none" /\ row[j] \in Row
      BY <1>0, <2>1, ColumnTypes
    <3>2. MovesOnly(j) /\ row'[j].status = s /\ row'[j].attempts = Attempts[j]
      <4>1. MovesOnly(j) /\ row'[j] = Overwrite(row[j], loaded, s)
        BY <1>5, <2>1 DEF MovesOnly
      <4>2. row[j].attempts = Attempts[j]
        BY <1>0, <2>1, <3>1, ColumnTypes
      <4>3. /\ Overwrite(row[j], loaded, s).status = s
            /\ Overwrite(row[j], loaded, s).attempts = row[j].attempts
        <5>1. s \in {"queued", "running"} \cup Final
          OBVIOUS
        <5> QED
          BY <3>1, <5>1, OverwrittenRow, Zenon
      <4> QED
        BY <4>1, <4>2, <4>3
    <3>3. Status' = [Status EXCEPT ![j] = s] /\ Attempts' = [Attempts EXCEPT ![j] = Attempts[j]]
      BY <1>0, <2>1, <3>2, ColumnsFollow
    <3>4. Attempts' = Attempts
      BY <1>0, <3>3, ColumnTypes
    <3> QED
      BY <2>1, <3>1, <3>3, <3>4
  <2>2. CASE j \notin DOMAIN row
    <3>1. row' = row
      BY <1>0, <1>5, <2>2 DEF RowTypes, Q!IsPartial
    <3> QED
      BY <2>2, <3>1 DEF Status, Attempts, Column
  <2> QED
    BY <2>1, <2>2
<1>6. ASSUME NEW j, NEW loaded, NEW s \in Final \ {"completed"}, EndsRow(j, loaded, s)
      PROVE  (j \in Job /\ L!EndOtherwise(j)) \/ UNCHANGED L!vars
  <2>1. s \in L!Ended \ {"completed"}
    BY DEF Final, L!Ended
  <2>2. CASE j \in DOMAIN row
    BY <1>1, <1>5, <1>6, <2>1, <2>2 DEF EndsRow, L!EndOtherwise, Status, Attempts
  <2>3. CASE j \notin DOMAIN row
    BY <1>1, <1>5, <1>6, <2>3 DEF EndsRow
  <2> QED
    BY <2>2, <2>3
<1>7. ASSUME NEW t \in DOMAIN task, ClaimsRow(t)
      PROVE  task[t].job \in Job /\ L!Claim(task[t].job)
  <2> DEFINE j == task[t].job
  <2>1. j \in DOMAIN row /\ j \in Job /\ Status[j] = "queued" /\ row[j] \in Row
    BY <1>0, <1>7, ColumnTypes DEF ClaimsRow, StatusIs
  <2>2. Claimed(row[j], t).status = "running" /\ Claimed(row[j], t).attempts = Attempts[j] + 1
    BY <1>0, <2>1, ColumnTypes DEF Claimed, Row
  <2>3. MovesOnly(j) /\ row'[j].status = "running" /\ row'[j].attempts = Attempts[j] + 1
    BY <1>7, <2>1, <2>2 DEF ClaimsRow, MovesOnly
  <2>4. /\ Status' = [Status EXCEPT ![j] = "running"]
        /\ Attempts' = [Attempts EXCEPT ![j] = Attempts[j] + 1]
    BY <1>0, <2>1, <2>3, ColumnsFollow
  <2> QED
    BY <1>1, <1>7, <2>1, <2>4 DEF ClaimsRow, L!Claim, Status, Attempts
<1>8. ASSUME NEW t \in DOMAIN task, BeatsRow(t)
      PROVE  UNCHANGED L!vars
  <2> DEFINE j == task[t].job
  <2>1. j \in DOMAIN row /\ j \in Job /\ row[j] \in Row
    BY <1>0, <1>8, ColumnTypes DEF BeatsRow, OwnedBy, StatusIs
  <2>2. Beaten(row[j], t).status = Status[j] /\ Beaten(row[j], t).attempts = Attempts[j]
    BY <1>0, <2>1, ColumnTypes DEF Beaten, Row
  <2>3. MovesOnly(j) /\ row'[j].status = Status[j] /\ row'[j].attempts = Attempts[j]
    BY <1>8, <2>1, <2>2 DEF BeatsRow, MovesOnly
  <2>4. Status' = Status /\ Attempts' = Attempts
    <3>1. /\ Status' = [Status EXCEPT ![j] = Status[j]]
          /\ Attempts' = [Attempts EXCEPT ![j] = Attempts[j]]
      BY <1>0, <2>1, <2>3, ColumnsFollow
    <3> QED
      BY <1>0, <3>1, ColumnTypes
  <2> QED
    BY <1>1, <1>8, <2>4 DEF BeatsRow
<1>9. ASSUME NEW t \in DOMAIN task, CompletesRow(t)
      PROVE  task[t].job \in Job /\ L!Complete(task[t].job)
  <2>1. "completed" \in Final /\ task[t].job \in DOMAIN row
    BY <1>9 DEF Final, CompletesRow, HasClaimed
  <2>2. /\ task[t].job \in Job /\ Status[task[t].job] # "none" /\ Attempts' = Attempts
        /\ Status' = [Status EXCEPT ![task[t].job] = "completed"]
    BY <1>5, <1>9, <2>1 DEF CompletesRow
  <2> QED
    BY <1>1, <1>9, <2>2 DEF CompletesRow, L!Complete, Status, Attempts
<1>10. CASE UNCHANGED db
    BY <1>1, <1>10 DEF db, Status, Attempts, Column
<1> QED
    BY <1>2, <1>3, <1>4, <1>6, <1>7, <1>8, <1>9, <1>10 DEF RowMoves, L!Next

-----------------------------------------------------------------------------
(* Tasks and processes *)

TaskPc == {"leased", "failQueued", "failRunning", "running", "complete", "retry", "dead",
           "ack", "park", "bury"}

\* The tasks stay tasks whatever a step makes of one of them.
LEMMA TaskUpdates ==
    ASSUME Q!IsPartial(task, 1..leaseSeq, Task), MaxTime \in Nat, NEW t \in DOMAIN task
    PROVE  /\ task[t] \in Task
           /\ \A pc \in TaskPc : Goto(t, pc) => Q!IsPartial(task', 1..leaseSeq, Task)
           /\ \A pc \in TaskPc, due \in DueTime :
                 task' = [task EXCEPT ![t].pc = pc, ![t].due = due] =>
                    Q!IsPartial(task', 1..leaseSeq, Task)
           /\ \A r \in {"on", "beat", "off"} :
                 task' = [task EXCEPT ![t].renewals = r] => Q!IsPartial(task', 1..leaseSeq, Task)
           /\ \A r \in {"on", "beat", "off"}, n \in 0..MaxTime :
                 task' = [task EXCEPT ![t].renewals = r, ![t].renewedAt = n] =>
                    Q!IsPartial(task', 1..leaseSeq, Task)
<1> USE DEF Q!IsPartial
<1>1. task[t] \in Task
    OBVIOUS
<1>2. ASSUME NEW v \in Task, task' = [task EXCEPT ![t] = v]
      PROVE  Q!IsPartial(task', 1..leaseSeq, Task)
    BY <1>2
<1>3. ASSUME NEW pc \in TaskPc, Goto(t, pc)
      PROVE  Q!IsPartial(task', 1..leaseSeq, Task)
  <2>1. [task[t] EXCEPT !.pc = pc] \in Task
    BY <1>1 DEF Task, TaskPc
  <2> QED
    BY <1>2, <1>3, <2>1 DEF Goto
<1>4. ASSUME NEW pc \in TaskPc, NEW due \in DueTime,
             task' = [task EXCEPT ![t].pc = pc, ![t].due = due]
      PROVE  Q!IsPartial(task', 1..leaseSeq, Task)
  <2>1. [[task[t] EXCEPT !.pc = pc] EXCEPT !.due = due] \in Task
    <3>1. [task[t] EXCEPT !.pc = pc] \in Task
      BY <1>1 DEF Task, TaskPc
    <3> QED
      BY <3>1 DEF Task
  <2>2. task' = [task EXCEPT ![t] = [[task[t] EXCEPT !.pc = pc] EXCEPT !.due = due]]
    BY <1>4
  <2> QED
    BY <1>2, <2>1, <2>2
<1>5. ASSUME NEW r \in {"on", "beat", "off"}, task' = [task EXCEPT ![t].renewals = r]
      PROVE  Q!IsPartial(task', 1..leaseSeq, Task)
  <2>1. [task[t] EXCEPT !.renewals = r] \in Task
    BY <1>1 DEF Task
  <2> QED
    BY <1>2, <1>5, <2>1
<1>6. ASSUME NEW r \in {"on", "beat", "off"}, NEW n \in 0..MaxTime,
             task' = [task EXCEPT ![t].renewals = r, ![t].renewedAt = n]
      PROVE  Q!IsPartial(task', 1..leaseSeq, Task)
  <2>1. [[task[t] EXCEPT !.renewals = r] EXCEPT !.renewedAt = n] \in Task
    <3>1. [task[t] EXCEPT !.renewals = r] \in Task
      BY <1>1 DEF Task
    <3> QED
      BY <3>1 DEF Task
  <2>2. task' = [task EXCEPT ![t] = [[task[t] EXCEPT !.renewals = r] EXCEPT !.renewedAt = n]]
    BY <1>6
  <2> QED
    BY <1>2, <2>1, <2>2
<1> QED
    BY <1>1, <1>3, <1>4, <1>5, <1>6

LEMMA TasksStayTasks ==
    ASSUME Types, TaskStep
    PROVE  Q!IsPartial(task', 1..leaseSeq', Task)
<1>0. /\ Q!IsPartial(task, 1..leaseSeq, Task) /\ Q!LaneTypeOK
      /\ MaxTime \in Nat /\ RetryDelay \in Nat /\ now \in 0..MaxTime /\ leaseSeq \in Nat
      /\ 0 \in DueTime /\ now + RetryDelay \in DueTime
    BY LaneConstants DEF Types, TaskTypes, LaneTypes, Q!LaneTypeOK, DueTime
<1>1. ASSUME NEW w \in Worker, Lease(w)
      PROVE  Q!IsPartial(task', 1..leaseSeq', Task)
  <2>1. Head(queue) \in Job /\ leaseSeq' = leaseSeq + 1
    BY <1>0, <1>1 DEF Lease, Q!Dequeue, Q!LaneTypeOK
  <2>2. [worker |-> w, job |-> Head(queue), pc |-> "leased", leasedAt |-> now,
         due |-> 0, renewals |-> "on", renewedAt |-> now] \in Task
    BY <1>0, <2>1 DEF Task
  <2>3. task' = Q!Extend(task, leaseSeq + 1,
                        [worker |-> w, job |-> Head(queue), pc |-> "leased", leasedAt |-> now,
                         due |-> 0, renewals |-> "on", renewedAt |-> now])
    BY <1>1 DEF Lease
  <2>4. leaseSeq + 1 \in 1..leaseSeq' /\ 1..leaseSeq \subseteq 1..leaseSeq'
    BY <1>0, <2>1
  <2> QED
    BY <1>0, <2>2, <2>3, <2>4 DEF Q!IsPartial, Q!Extend
<1>2. ASSUME NEW w \in Worker, Crash(w)
      PROVE  Q!IsPartial(task', 1..leaseSeq', Task)
    BY <1>0, <1>2 DEF Crash, Q!IsPartial, Q!Without, Q!Restrict
<1>3. ASSUME NEW t \in DOMAIN task,
             Claim(t) \/ Refuse(t) \/ Fail(t) \/ Check(t) \/ DatabaseFails(t)
      PROVE  Q!IsPartial(task', 1..leaseSeq', Task)
  <2>1. leaseSeq' = leaseSeq
    BY <1>3 DEF Claim, Refuse, Fail, Check, DatabaseFails, lane
  <2>2. \E pc \in TaskPc : Goto(t, pc)
    BY <1>3 DEF Claim, Refuse, Fail, Check, DatabaseFails, TaskPc
  <2> QED
    BY <1>0, <2>1, <2>2, TaskUpdates
<1>4. ASSUME NEW t \in DOMAIN task, Persist(t)
      PROVE  Q!IsPartial(task', 1..leaseSeq', Task)
  <2>1. leaseSeq' = leaseSeq
    BY <1>4 DEF Persist, lane
  <2>2. CASE \E pc \in TaskPc : Goto(t, pc)
    BY <1>0, <2>1, <2>2, TaskUpdates
  <2>3. CASE StoreRetry(t)
    <3>1. "park" \in TaskPc /\ now + RetryDelay \in DueTime
      BY <1>0 DEF TaskPc
    <3>2. task' = [task EXCEPT ![t].pc = "park", ![t].due = now + RetryDelay]
      BY <2>3 DEF StoreRetry
    <3> QED
      BY <1>0, <2>1, <3>1, <3>2, TaskUpdates
  <2>4. (\E pc \in TaskPc : Goto(t, pc)) \/ StoreRetry(t)
    BY <1>4 DEF Persist, StoreResult, StoreDeadLetter, LoseRetry, TaskPc
  <2> QED
    BY <2>2, <2>3, <2>4
<1>5. ASSUME NEW t \in DOMAIN task, Settle(t) \/ SettleFails(t)
      PROVE  Q!IsPartial(task', 1..leaseSeq', Task)
  <2>1. leaseSeq' = leaseSeq /\ task' = Q!Without(task, {t})
    BY <1>5 DEF Settle, SettleFails, Q!Ack, Q!ScheduleRetry, Q!MoveToDlq, lane
  <2> QED
    BY <1>0, <2>1 DEF Q!IsPartial, Q!Without, Q!Restrict
<1>6. ASSUME NEW t \in DOMAIN task, Renew(t) \/ Heartbeat(t) \/ HeartbeatFails(t)
      PROVE  Q!IsPartial(task', 1..leaseSeq', Task)
  <2>1. leaseSeq' = leaseSeq
    BY <1>6 DEF Renew, Heartbeat, HeartbeatFails, Q!Renew, lane
  <2>2. \/ \E r \in {"on", "beat", "off"} : task' = [task EXCEPT ![t].renewals = r]
        \/ task' = [task EXCEPT ![t].renewals = "beat", ![t].renewedAt = now]
    BY <1>6 DEF Renew, Heartbeat, HeartbeatFails
  <2> QED
    BY <1>0, <2>1, <2>2, TaskUpdates
<1> QED
    BY <1>1, <1>2, <1>3, <1>4, <1>5, <1>6 DEF TaskStep

\* Nobody but the tasks of the workers moves a task.
LEMMA OthersLeaveTasks ==
    ASSUME ApiStep \/ ReaperStep \/ ReconcilerStep
    PROVE  task' = task
<1>1. CASE ApiStep
    BY <1>1 DEF ApiStep, CreateRow, EnqueueCreated, BeginCancel, FinishCancel, Reprocess,
                ReviveOrEnqueue, ReadJob, Revive, ApiDies, workers
<1>2. CASE ReaperStep
    BY <1>2 DEF ReaperStep, Scan, Load, Judge, ResetByReaper, FinalizeExpired, ReaperFails,
                Promote, Tick, workers
<1>3. CASE ReconcilerStep
    BY <1>3 DEF ReconcilerStep, StartWorker, Observes, MovesTransport, ResetsRow
<1> QED
    BY <1>1, <1>2, <1>3

LEMMA TaskTypesKept ==
    ASSUME Types, LeasesKept, Next
    PROVE  TaskTypes'
<1>1. Q!IsPartial(task', 1..leaseSeq', Task)
  <2>1. CASE TaskStep
    BY <2>1, TasksStayTasks
  <2>2. CASE ApiStep \/ ReaperStep \/ ReconcilerStep
    <3>1. leaseSeq \in Nat /\ leaseSeq' \in {leaseSeq, leaseSeq + 1}
      BY LaneConstants DEF LeasesKept, Types, LaneTypes, Q!LaneTypeOK
    <3>2. 1..leaseSeq \subseteq 1..leaseSeq'
      BY <3>1
    <3> QED
      BY <2>2, <3>2, OthersLeaveTasks DEF Types, TaskTypes, Q!IsPartial
  <2> QED
    BY <2>1, <2>2 DEF Next
<1>2. up' \in [Worker -> {"new", "starting", "up", "dead"}]
  <2>0. up \in [Worker -> {"new", "starting", "up", "dead"}]
    BY DEF Types, TaskTypes
  <2>1. CASE ApiStep
    BY <2>0, <2>1 DEF ApiStep, CreateRow, EnqueueCreated, BeginCancel, FinishCancel, Reprocess,
                      ReviveOrEnqueue, ReadJob, Revive, ApiDies, workers
  <2>2. CASE TaskStep
    BY <2>0, <2>2 DEF TaskStep, Lease, Crash, Claim, Refuse, Fail, Check, Persist, DatabaseFails,
                      Settle, SettleFails, Renew, Heartbeat, HeartbeatFails
  <2>3. CASE ReaperStep
    BY <2>0, <2>3 DEF ReaperStep, Scan, Load, Judge, ResetByReaper, FinalizeExpired, ReaperFails,
                      Promote, Tick, workers
  <2>4. CASE ReconcilerStep
    BY <2>0, <2>4 DEF ReconcilerStep, StartWorker, Observes, Decided, MovesTransport, ResetsRow,
                      Proceed
  <2> QED
    BY <2>1, <2>2, <2>3, <2>4 DEF Next
<1> QED
    BY <1>1, <1>2 DEF TaskTypes

-----------------------------------------------------------------------------
(* What callers, reapers and reconcilers have in hand *)

VerdictOK == Q!IsPartial(verdict, reaping, {"reset", "requeue", "drop"})

LEMMA VerdictsKept ==
    ASSUME Types, Next
    PROVE  VerdictOK'
<1>0. VerdictOK
    BY DEF Types, CallerTypes, VerdictOK
<1> USE DEF VerdictOK, Q!IsPartial
<1>1. ASSUME verdict' = verdict, reaping \subseteq reaping'
      PROVE  VerdictOK'
    BY <1>0, <1>1
<1>2. CASE ApiStep
  <2>1. verdict' = verdict
    BY <1>2 DEF ApiStep, CreateRow, EnqueueCreated, BeginCancel, FinishCancel, Reprocess,
                ReviveOrEnqueue, ReadJob, Revive, ApiDies
  <2>2. reaping' = reaping
    BY <1>2 DEF ApiStep, CreateRow, EnqueueCreated, BeginCancel, FinishCancel, Reprocess,
                ReviveOrEnqueue, ReadJob, Revive, ApiDies, lane, Q!Enqueue, Q!ReadDlq, Q!PushDlq,
                Q!RemoveDlq, Q!AbandonDlq, Q!reaperVars, Q!laneVars
  <2> QED
    BY <1>1, <2>1, <2>2
<1>3. CASE TaskStep
  <2>1. ASSUME NEW w, Crash(w)
        PROVE  VerdictOK'
    <3>1. CASE UNCHANGED <<reaping, verdict>>
      BY <1>1, <3>1
    <3>2. CASE reaping' = {} /\ verdict' = <<>>
      BY <3>2
    <3> QED
      BY <2>1, <3>1, <3>2 DEF Crash
  <2>2. ASSUME NEW w, Lease(w)
        PROVE  VerdictOK'
    BY <1>1, <2>2 DEF Lease, Q!Dequeue, Q!reaperVars
  <2>3. ASSUME NEW t,
               \/ Claim(t) \/ Refuse(t) \/ Fail(t) \/ Check(t) \/ Persist(t) \/ DatabaseFails(t)
               \/ SettleFails(t) \/ Heartbeat(t) \/ HeartbeatFails(t)
        PROVE  VerdictOK'
    BY <1>1, <2>3 DEF Claim, Refuse, Fail, Check, Persist, DatabaseFails, SettleFails, Heartbeat,
                      HeartbeatFails, lane
  <2>4. ASSUME NEW t, Settle(t) \/ Renew(t)
        PROVE  VerdictOK'
    BY <1>1, <2>4 DEF Settle, Renew, lane, Q!Ack, Q!ScheduleRetry, Q!MoveToDlq, Q!Renew, Q!reaperVars
  <2> QED
    BY <1>3, <2>1, <2>2, <2>3, <2>4 DEF TaskStep
<1>4. CASE ReaperStep
  <2>1. ASSUME NEW t, Scan \/ Load(t) \/ Promote \/ Tick
        PROVE  VerdictOK'
    BY <1>1, <2>1 DEF Scan, Load, Promote, Tick, Q!ScanExpired, Q!LoadScanned, Q!PromoteRetries,
                      Q!Tick, Q!reaperVars
  <2>2. ASSUME NEW h \in reaping, Judge(h)
        PROVE  VerdictOK'
    <3>1. Verdict(h) \in {"reset", "requeue", "drop"}
      BY DEF Verdict
    <3>2. reaping' = reaping /\ verdict' = Q!Extend(verdict, h, Verdict(h))
      BY <2>2 DEF Judge, lane
    <3> QED
      BY <1>0, <3>1, <3>2 DEF Q!Extend
  <2>3. ASSUME NEW h \in reaping, ResetByReaper(h)
        PROVE  VerdictOK'
    BY <1>0, <2>3 DEF ResetByReaper, lane
  <2>4. ASSUME NEW h \in reaping, FinalizeExpired(h)
        PROVE  VerdictOK'
    <3>1. reaping' = reaping \ {h} /\ verdict' = Q!Without(verdict, {h})
      BY <2>4 DEF FinalizeExpired, Q!RequeueExpired, Q!LeaveExpired, Q!DropExpired
    <3> QED
      BY <1>0, <3>1 DEF Q!Without, Q!Restrict
  <2>5. CASE ReaperFails
    BY <1>0, <2>5 DEF ReaperFails, Restrict
  <2> QED
    BY <1>4, <2>1, <2>2, <2>3, <2>4, <2>5 DEF ReaperStep
<1>5. CASE ReconcilerStep
  <2>1. ASSUME NEW w, StartWorker(w)
        PROVE  VerdictOK'
    BY <1>1, <2>1 DEF StartWorker, lane
  <2>2. ASSUME NEW k, Observes(k) \/ ResetsRow(k)
        PROVE  VerdictOK'
    BY <1>1, <2>2 DEF Observes, ResetsRow, lane
  <2>3. ASSUME NEW k, MovesTransport(k)
        PROVE  VerdictOK'
    BY <1>1, <2>3 DEF MovesTransport, lane, Q!PurgeQueued, Q!PurgeProcessing, Q!PurgeLease,
                      Q!PurgeRetry, Q!PurgeDlq, Q!Enqueue, Q!reaperVars, Q!laneVars
  <2> QED
    BY <1>5, <2>1, <2>2, <2>3 DEF ReconcilerStep
<1> QED
    BY <1>2, <1>3, <1>4, <1>5 DEF Next

LEMMA ReconcilersKept ==
    ASSUME Types, Next
    PROVE  DOMAIN recon' \subseteq (Worker \cup {Api}) \X Job
<1>0. DOMAIN recon \subseteq (Worker \cup {Api}) \X Job
    BY DEF Types, CallerTypes
<1>1. CASE ApiStep
  <2>1. ASSUME NEW j \in Job, ReadJob(j)
        PROVE  DOMAIN recon' \subseteq (Worker \cup {Api}) \X Job
    <3>1. DOMAIN recon' = DOMAIN recon \cup {<<Api, j>>}
      BY <2>1 DEF ReadJob, Q!Extend
    <3> QED
      BY <1>0, <3>1
  <2> QED
    BY <1>0, <1>1, <2>1 DEF ApiStep, CreateRow, EnqueueCreated, BeginCancel, FinishCancel,
                            Reprocess, ReviveOrEnqueue, Revive, ApiDies
<1>2. CASE TaskStep
  <2>1. ASSUME NEW w, Crash(w)
        PROVE  DOMAIN recon' \subseteq DOMAIN recon
    BY <2>1 DEF Crash, Q!Without, Q!Restrict
  <2> QED
    BY <1>0, <1>2, <2>1 DEF TaskStep, Lease, Claim, Refuse, Fail, Check, Persist, DatabaseFails,
                            Settle, SettleFails, Renew, Heartbeat, HeartbeatFails
<1>3. CASE ReaperStep
    BY <1>0, <1>3 DEF ReaperStep, Scan, Load, Judge, ResetByReaper, FinalizeExpired, ReaperFails,
                      Promote, Tick
<1>4. CASE ReconcilerStep
  <2>1. ASSUME NEW w \in Worker, StartWorker(w)
        PROVE  DOMAIN recon' \subseteq (Worker \cup {Api}) \X Job
    BY <1>0, <2>1 DEF StartWorker
  <2>2. ASSUME NEW k \in DOMAIN recon, NEW r, Proceed(k, r)
        PROVE  DOMAIN recon' \subseteq DOMAIN recon
    BY <2>2 DEF Proceed, Q!Without, Q!Restrict
  <2>3. ASSUME NEW k \in DOMAIN recon, Observes(k)
        PROVE  DOMAIN recon' \subseteq DOMAIN recon
    BY <2>2, <2>3 DEF Observes, Decided
  <2>4. ASSUME NEW k \in DOMAIN recon, MovesTransport(k)
        PROVE  DOMAIN recon' \subseteq DOMAIN recon
    BY <2>2, <2>4 DEF MovesTransport
  <2>5. ASSUME NEW k \in DOMAIN recon, ResetsRow(k)
        PROVE  DOMAIN recon' \subseteq DOMAIN recon
    BY <2>2, <2>5 DEF ResetsRow, Q!Without, Q!Restrict
  <2> QED
    BY <1>0, <1>4, <2>1, <2>3, <2>4, <2>5 DEF ReconcilerStep
<1> QED
    BY <1>1, <1>2, <1>3, <1>4 DEF Next

LEMMA CallersKept ==
    ASSUME Types, Next, DOMAIN row \subseteq DOMAIN row'
    PROVE  /\ (creating \cup reprocessing)' \subseteq DOMAIN row'
           /\ canceling' \subseteq [job : DOMAIN row', loaded : {"queued", "running"}]
           /\ spent' \in Nat /\ (spent' = 0 => spent = 0)
<1> DEFINE Sets == /\ (creating \cup reprocessing)' \subseteq DOMAIN row'
                   /\ canceling' \subseteq [job : DOMAIN row', loaded : {"queued", "running"}]
           Count == spent' \in {spent, spent + 1}
<1>0. /\ creating \cup reprocessing \subseteq DOMAIN row
      /\ canceling \subseteq [job : DOMAIN row, loaded : {"queued", "running"}]
      /\ spent \in Nat
    BY DEF Types, CallerTypes
<1>1. ASSUME ApiStep
      PROVE  Sets /\ Count
  <2>1. ASSUME NEW j \in Job, CreateRow(j)
        PROVE  j \in DOMAIN row'
    BY <2>1 DEF CreateRow, Q!Extend
  <2>2. ASSUME NEW j \in Job, StatusIs(j, "queued") \/ StatusIs(j, "running")
        PROVE  j \in DOMAIN row /\ [job |-> j, loaded |-> row[j].status] \in
                   [job : DOMAIN row, loaded : {"queued", "running"}]
    BY <2>2 DEF StatusIs
  <2>3. ASSUME NEW j \in Job, CreateRow(j) \/ EnqueueCreated(j) \/ ReadJob(j)
        PROVE  Sets /\ Count
    <3>1. CASE CreateRow(j)
      BY <1>0, <2>1, <3>1 DEF CreateRow, counters
    <3>2. CASE EnqueueCreated(j)
      BY <1>0, <3>2 DEF EnqueueCreated, counters
    <3>3. CASE ReadJob(j)
      BY <1>0, <3>3 DEF ReadJob, callers
    <3> QED
      BY <2>3, <3>1, <3>2, <3>3
  <2>4. ASSUME NEW j \in Job, BeginCancel(j)
        PROVE  Sets /\ Count
    BY <1>0, <2>2, <2>4 DEF BeginCancel, Spend
  <2>5. ASSUME NEW c, FinishCancel(c)
        PROVE  Sets /\ Count
    BY <1>0, <2>5 DEF FinishCancel, counters
  <2>6. ASSUME NEW j \in Job, Reprocess(j)
        PROVE  Sets /\ Count
    BY <1>0, <2>6 DEF Reprocess, StatusIs, Spend
  <2>7. ASSUME NEW j \in Job, ReviveOrEnqueue(j)
        PROVE  Sets /\ Count
    BY <1>0, <2>7 DEF ReviveOrEnqueue, counters
  <2>8. ASSUME NEW r, Revive(r)
        PROVE  Sets /\ Count
    BY <1>0, <2>8 DEF Revive, callers, counters
  <2>9. ASSUME ApiDies
        PROVE  Sets /\ Count
    BY <1>0, <2>9 DEF ApiDies, Spend
  <2> HIDE DEF Sets, Count
  <2> QED
    BY <1>1, <2>3, <2>4, <2>5, <2>6, <2>7, <2>8, <2>9 DEF ApiStep
<1>2. ASSUME TaskStep
      PROVE  Sets /\ Count
  <2>1. UNCHANGED callers /\ Count
    BY <1>2 DEF TaskStep, Lease, Crash, Claim, Refuse, Fail, Check, Persist, DatabaseFails,
                Settle, SettleFails, Renew, Heartbeat, HeartbeatFails, Spend, counters
  <2> QED
    BY <1>0, <2>1 DEF callers
<1>3. ASSUME ReaperStep
      PROVE  Sets /\ Count
  <2>1. UNCHANGED callers /\ Count
    BY <1>3 DEF ReaperStep, Scan, Load, Judge, ResetByReaper, FinalizeExpired, ReaperFails,
                Promote, Tick, Spend, counters
  <2> QED
    BY <1>0, <2>1 DEF callers
<1>4. ASSUME ReconcilerStep
      PROVE  Sets /\ Count
  <2>1. UNCHANGED callers /\ Count
    BY <1>4 DEF ReconcilerStep, StartWorker, Observes, MovesTransport, ResetsRow, counters
  <2> QED
    BY <1>0, <2>1 DEF callers
<1>5. Sets /\ Count
    BY <1>1, <1>2, <1>3, <1>4 DEF Next
<1> QED
    BY <1>0, <1>5

\* Any step keeps the types and the leases, and moves rows as above.
LEMMA TypesKept ==
    ASSUME Types, Next
    PROVE  Types' /\ LeasesKept /\ RowMoves
<1>1. LaneTypes' /\ LeasesKept
    BY EveryStepMovesTheLane, LaneMovesKeep DEF Types
<1>2. RowMoves /\ RowTypes' /\ DOMAIN row \subseteq DOMAIN row'
    BY EveryStepMovesTheRows, RowTypesKept
<1>3. TaskTypes'
    BY <1>1, TaskTypesKept
<1>4. CallerTypes'
    BY <1>2, VerdictsKept, ReconcilersKept, CallersKept DEF CallerTypes, VerdictOK
<1> QED
    BY <1>1, <1>2, <1>3, <1>4 DEF Types

LEMMA TypesAtFirst == Init => Types
<1> SUFFICES ASSUME Init PROVE Types
    OBVIOUS
<1>1. /\ DOMAIN <<>> = {} /\ \A S : <<>> \in [{} -> S]
      /\ <<>> \in Seq(Job)
    OBVIOUS
<1>2. /\ 0 \in 0..MaxTime /\ 0 \in 0..MaxLeases /\ 0 \in Nat /\ 1..0 = {}
    BY LaneConstants
<1>3. LaneTypes
    BY <1>1, <1>2 DEF Init, Q!Init, Q!LaneInit, LaneTypes, Q!LaneTypeOK, Q!IsPartial
<1>4. RowTypes /\ TaskTypes /\ CallerTypes
    BY <1>1, <1>2 DEF Init, RowTypes, TaskTypes, CallerTypes, Q!IsPartial
<1> QED
    BY <1>3, <1>4 DEF Types

LEMMA TypesAreTypeOK == Types => TypeOK
<1> SUFFICES ASSUME Types PROVE TypeOK
    OBVIOUS
<1>1. DOMAIN row \subseteq Job
    BY DEF Types, RowTypes, Q!IsPartial
<1>2. DOMAIN retry \cup creating \cup reprocessing \subseteq Job
    BY <1>1 DEF Types, LaneTypes, CallerTypes, Q!IsPartial
<1> QED
    BY <1>2 DEF Types, LaneTypes, RowTypes, TaskTypes, CallerTypes, TypeOK

-----------------------------------------------------------------------------
(* What one step makes of a row and of a task *)

EndedForGood(j) == j \in DOMAIN row /\ row[j].status \in Final

HoldsClaim == {"running", "complete", "retry", "dead"}

\* Of a row that is there afterwards.
RowGoesOn(j) ==
    \/ j \in DOMAIN row /\ row'[j] = row[j]
    \/ j \notin DOMAIN row /\ row'[j].status = "queued" /\ row'[j].token = 0
    \/ /\ j \in DOMAIN row
       /\ row'[j].status # "running" /\ row'[j].token \in {0, row[j].token}
       /\ row[j].status \in Final => row'[j].status \in Final \/ spent' = spent + 1
    \/ \E t \in DOMAIN task :
          /\ j = task[t].job /\ StatusIs(j, "queued")
          /\ row'[j] = Claimed(row[j], t) /\ Goto(t, "running")
    \/ \E t \in DOMAIN task :
          /\ task[t].renewals = "beat" /\ OwnedBy(j, t, task[t].worker)
          /\ row'[j] = Beaten(row[j], t)

LEMMA RowsGoOn ==
    ASSUME Types, RowMoves
    PROVE  \A j \in DOMAIN row' : RowGoesOn(j)
<1> SUFFICES ASSUME NEW j \in DOMAIN row' PROVE RowGoesOn(j)
    OBVIOUS
<1>0. \A i \in DOMAIN row : row[i] \in Row
    BY DEF Types, RowTypes, Q!IsPartial
<1>1. ASSUME NEW i \in Job, CreatesRow(i)
      PROVE  RowGoesOn(j)
  <2>1. DOMAIN row' = DOMAIN row \cup {i} /\ \A k \in DOMAIN row : row'[k] = row[k]
    BY <1>1 DEF CreatesRow, Q!Extend
  <2>2. row'[i].status = "queued" /\ row'[i].token = 0 /\ i \notin DOMAIN row
    BY <1>1 DEF CreatesRow, Q!Extend
  <2> QED
    BY <2>1, <2>2 DEF RowGoesOn
<1>2. ASSUME NEW i, NEW r, row' = [row EXCEPT ![i] = r], i # j
      PROVE  RowGoesOn(j)
    BY <1>2 DEF RowGoesOn
<1>3. ASSUME NEW i, NEW s \in {"queued"} \cup Final, NEW r \in Row
      PROVE  Released(r, s).status = s /\ Released(r, s).token = 0
    BY DEF Released, Row
<1>4. ASSUME NEW i, GivesBackRow(i)
      PROVE  RowGoesOn(j)
  <2>1. i \in DOMAIN row /\ row[i].status \notin Final
    BY <1>4 DEF GivesBackRow, StatusIs, Final
  <2>2. CASE i = j
    <3>1. row'[j] = Released(row[j], "queued")
      BY <1>4, <2>2 DEF GivesBackRow
    <3> QED
      BY <1>0, <1>3, <2>1, <2>2, <3>1 DEF RowGoesOn
  <2> QED
    BY <1>2, <1>4, <2>2 DEF GivesBackRow
<1>5. ASSUME NEW i, ReprocessesRow(i)
      PROVE  RowGoesOn(j)
  <2>1. CASE i = j
    <3>1. row'[j] = [Released(row[j], "queued") EXCEPT !.attempts = 0] /\ j \in DOMAIN row
      BY <1>5, <2>1 DEF ReprocessesRow
    <3>2. row'[j].status = "queued" /\ row'[j].token = 0
      BY <1>0, <3>1 DEF Released, Row
    <3> QED
      BY <1>5, <2>1, <3>1, <3>2 DEF ReprocessesRow, RowGoesOn
  <2> QED
    BY <1>2, <1>5, <2>1 DEF ReprocessesRow
<1>6. ASSUME NEW i, NEW loaded, NEW s \in Final, row' = [row EXCEPT ![i] = Overwrite(@, loaded, s)]
      PROVE  RowGoesOn(j)
  <2>1. CASE i = j
    <3>1. j \in DOMAIN row /\ row'[j] = Overwrite(row[j], loaded, s) /\ row[j] \in Row
      BY <1>0, <1>6, <2>1
    <3>2. Overwrite(row[j], loaded, s).status = s
      <4>1. s \in {"queued", "running"} \cup Final
        OBVIOUS
      <4> QED
        BY <3>1, <4>1, OverwrittenRow, Zenon
    <3>3. Overwrite(row[j], loaded, s).token \in {0, row[j].token}
      BY <3>1 DEF Overwrite, Released, Row
    <3>4. s # "running"
      BY DEF Final
    <3> QED
      BY <3>1, <3>2, <3>3, <3>4 DEF RowGoesOn
  <2> QED
    BY <1>2, <1>6, <2>1
<1>7. ASSUME NEW i, NEW loaded, NEW s \in Final \ {"completed"}, EndsRow(i, loaded, s)
      PROVE  RowGoesOn(j)
    BY <1>6, <1>7 DEF EndsRow
<1>8. ASSUME NEW t \in DOMAIN task, ClaimsRow(t)
      PROVE  RowGoesOn(j)
  <2>1. CASE task[t].job = j
    BY <1>8, <2>1 DEF ClaimsRow, StatusIs, RowGoesOn
  <2> QED
    BY <1>2, <1>8, <2>1 DEF ClaimsRow
<1>9. ASSUME NEW t \in DOMAIN task, BeatsRow(t)
      PROVE  RowGoesOn(j)
  <2>1. CASE task[t].job = j
    BY <1>9, <2>1 DEF BeatsRow, OwnedBy, StatusIs, RowGoesOn
  <2> QED
    BY <1>2, <1>9, <2>1 DEF BeatsRow
<1>10. ASSUME NEW t \in DOMAIN task, CompletesRow(t)
       PROVE  RowGoesOn(j)
    BY <1>6, <1>10 DEF CompletesRow, Final
<1>11. CASE UNCHANGED db
    BY <1>11 DEF db, RowGoesOn
<1> QED
    BY <1>1, <1>4, <1>5, <1>7, <1>8, <1>9, <1>10, <1>11 DEF RowMoves

\* Of a task that is there afterwards.
TaskGoesOn(t) ==
    \/ /\ t \in DOMAIN task
       /\ task'[t].job = task[t].job /\ task'[t].worker = task[t].worker
       /\ task'[t].renewals = "beat" =>
             \/ task[t].renewals = "beat" /\ task'[t].renewedAt = task[t].renewedAt
             \/ task'[t].renewedAt = now /\ t \in DOMAIN lease /\ lease'[t].leasedAt = now
       /\ \/ task'[t].pc = task[t].pc
          \/ task'[t].pc \notin HoldsClaim \cup {"bury"}
          \/ task'[t].pc \in HoldsClaim /\ task[t].pc \in HoldsClaim
          \/ task'[t].pc = "running" /\ StatusIs(task[t].job, "queued")
          \/ task'[t].pc = "bury" /\ spent' = spent + 1
          \/ /\ task'[t].pc = "bury" /\ task[t].pc = "dead"
             /\ row' = [row EXCEPT ![task[t].job] = Overwrite(@, "running", "dead_letter")]
    \/ /\ t = leaseSeq + 1
       /\ task'[t].pc = "leased" /\ task'[t].renewals = "on"
       /\ lease'[t].raw = task'[t].job

LEMMA TasksGoOn ==
    ASSUME Types, Next
    PROVE  \A t \in DOMAIN task' : TaskGoesOn(t)
<1> SUFFICES ASSUME NEW t \in DOMAIN task' PROVE TaskGoesOn(t)
    OBVIOUS
<1>0. \A u \in DOMAIN task : task[u] \in Task
    BY DEF Types, TaskTypes, Q!IsPartial
<1>1. ASSUME t \in DOMAIN task, task'[t] = task[t]
      PROVE  TaskGoesOn(t)
    BY <1>1 DEF TaskGoesOn
<1>2. ASSUME NEW u \in DOMAIN task, NEW pc, Goto(u, pc), u = t
      PROVE  /\ t \in DOMAIN task /\ task'[t].job = task[t].job /\ task'[t].worker = task[t].worker
             /\ task'[t].renewals = task[t].renewals /\ task'[t].renewedAt = task[t].renewedAt
             /\ task'[t].pc = pc
    BY <1>0, <1>2 DEF Goto, Task
<1>3. ASSUME NEW w \in Worker, Lease(w)
      PROVE  TaskGoesOn(t)
  <2>1. /\ task' = Q!Extend(task, leaseSeq + 1,
                        [worker |-> w, job |-> Head(queue), pc |-> "leased", leasedAt |-> now,
                         due |-> 0, renewals |-> "on", renewedAt |-> now])
        /\ lease' = Q!Extend(lease, leaseSeq + 1,
                        [raw |-> Head(queue), worker |-> w, leasedAt |-> now])
    BY <1>3 DEF Lease, Q!Dequeue, Q!NextToken
  <2>2. CASE t = leaseSeq + 1
    BY <2>1, <2>2 DEF Q!Extend, TaskGoesOn
  <2>3. CASE t # leaseSeq + 1
    BY <1>1, <2>1, <2>3 DEF Q!Extend
  <2> QED
    BY <2>2, <2>3
<1>4. ASSUME NEW w, Crash(w)
      PROVE  TaskGoesOn(t)
    BY <1>1, <1>4 DEF Crash, Q!Without, Q!Restrict
<1>5. ASSUME NEW u \in DOMAIN task, NEW pc, Goto(u, pc), u # t
      PROVE  TaskGoesOn(t)
    BY <1>1, <1>5 DEF Goto
<1>6. ASSUME NEW u \in DOMAIN task, Claim(u) \/ Refuse(u) \/ Fail(u) \/ Check(u) \/ DatabaseFails(u)
      PROVE  TaskGoesOn(t)
  <2>1. \E pc : Goto(u, pc)
    BY <1>6 DEF Claim, Refuse, Fail, Check, DatabaseFails
  <2>2. CASE u = t
    <3>1. CASE Claim(u)
      BY <1>2, <2>2, <3>1 DEF Claim, TaskGoesOn, HoldsClaim
    <3>2. CASE Refuse(u) \/ Fail(u)
      BY <1>2, <2>2, <3>2 DEF Refuse, Fail, TaskGoesOn, HoldsClaim
    <3>3. CASE Check(u)
      BY <1>2, <2>2, <3>3 DEF Check, TaskGoesOn, HoldsClaim
    <3>4. CASE DatabaseFails(u)
      BY <1>2, <2>2, <3>4 DEF DatabaseFails, Spend, TaskGoesOn, HoldsClaim
    <3> QED
      BY <1>6, <3>1, <3>2, <3>3, <3>4
  <2> QED
    BY <1>5, <2>1, <2>2
<1>7. ASSUME NEW u \in DOMAIN task, Persist(u)
      PROVE  TaskGoesOn(t)
  <2>1. CASE StoreRetry(u)
    <3>1. task' = [task EXCEPT ![u].pc = "park", ![u].due = now + RetryDelay]
      BY <2>1 DEF StoreRetry
    <3>2. CASE u = t
      BY <1>0, <3>1, <3>2 DEF TaskGoesOn, HoldsClaim, Task
    <3> QED
      BY <1>1, <3>1, <3>2
  <2>2. CASE StoreResult(u) \/ LoseRetry(u)
    BY <1>2, <1>5, <2>2 DEF StoreResult, LoseRetry, TaskGoesOn, HoldsClaim
  <2>3. CASE StoreDeadLetter(u)
    BY <1>2, <1>5, <2>3 DEF StoreDeadLetter, TaskGoesOn
  <2> QED
    BY <1>7, <2>1, <2>2, <2>3 DEF Persist
<1>8. ASSUME NEW u \in DOMAIN task, Settle(u) \/ SettleFails(u)
      PROVE  TaskGoesOn(t)
    BY <1>1, <1>8 DEF Settle, SettleFails, Q!Without, Q!Restrict
<1>9. ASSUME NEW u \in DOMAIN task, NEW r, task' = [task EXCEPT ![u].renewals = r], r # "beat"
      PROVE  TaskGoesOn(t)
  <2>1. CASE u = t
    BY <1>0, <1>9, <2>1 DEF TaskGoesOn, Task
  <2> QED
    BY <1>1, <1>9, <2>1
<1>10. ASSUME NEW u \in DOMAIN task, Heartbeat(u) \/ HeartbeatFails(u)
       PROVE  TaskGoesOn(t)
    BY <1>9, <1>10 DEF Heartbeat, HeartbeatFails
<1>11. ASSUME NEW u \in DOMAIN task, Renew(u)
       PROVE  TaskGoesOn(t)
  <2>1. CASE /\ Q!Renew(u, task[u].worker)
             /\ task' = [task EXCEPT ![u].renewals = "beat", ![u].renewedAt = now]
    <3>1. CASE u = t
      <4>1. /\ t \in DOMAIN lease /\ lease[t] \in Q!LeaseRecord
            /\ lease' = [lease EXCEPT ![t] = [lease[t] EXCEPT !.leasedAt = now]]
        BY <2>1, <3>1 DEF Q!Renew, Q!Owns, Types, LaneTypes, Q!LaneTypeOK, Q!IsPartial
      <4>2. lease'[t].leasedAt = now
        BY <4>1 DEF Q!LeaseRecord
      <4> QED
        BY <1>0, <2>1, <3>1, <4>1, <4>2 DEF TaskGoesOn, Task
    <3> QED
      BY <1>1, <2>1, <3>1
  <2> QED
    BY <1>9, <1>11, <2>1 DEF Renew
<1>12. CASE ApiStep \/ ReaperStep \/ ReconcilerStep
    BY <1>1, <1>12, OthersLeaveTasks
<1> QED
    BY <1>3, <1>4, <1>6, <1>7, <1>8, <1>10, <1>11, <1>12 DEF Next, TaskStep

\* A job gets into the DLQ by the task that buries its payload.
LEMMA DlqGoesOn ==
    ASSUME Types, Next
    PROVE  \A j \in dlqActive' :
              j \in dlqActive
              \/ \E t \in DOMAIN task \cap DOMAIN lease : task[t].pc = "bury" /\ j = lease[t].raw
<1> SUFFICES ASSUME NEW j \in dlqActive', j \notin dlqActive
             PROVE  \E t \in DOMAIN task \cap DOMAIN lease :
                       task[t].pc = "bury" /\ j = lease[t].raw
    OBVIOUS
<1>1. ASSUME NEW t \in DOMAIN task, Settle(t)
      PROVE  \E u \in DOMAIN task \cap DOMAIN lease : task[u].pc = "bury" /\ j = lease[u].raw
  <2>1. task[t].pc = "bury" /\ Q!MoveToDlq(t, task[t].worker, task[t].leasedAt)
    BY <1>1 DEF Settle, Q!Ack, Q!ScheduleRetry, lane, parked
  <2>2. t \in DOMAIN lease /\ lease[t].raw \in Job
    BY <2>1 DEF Q!MoveToDlq, Q!OwnsAsLeased, Q!Owns, Types, LaneTypes, Q!LaneTypeOK, Q!IsPartial,
                Q!LeaseRecord
  <2>3. j = lease[t].raw
    BY <2>1, <2>2 DEF Q!MoveToDlq
  <2> QED
    BY <2>1, <2>2, <2>3
<1>2. CASE ApiStep
    BY <1>2 DEF ApiStep, CreateRow, EnqueueCreated, BeginCancel, FinishCancel, Reprocess,
                ReviveOrEnqueue, ReadJob, Revive, ApiDies, lane, parked, Q!Enqueue, Q!ReadDlq,
                Q!PushDlq, Q!RemoveDlq, Q!AbandonDlq
<1>3. ASSUME NEW w, Lease(w) \/ Crash(w) \/ StartWorker(w)
      PROVE  FALSE
    BY <1>3 DEF Lease, Crash, StartWorker, lane, parked
<1>4. ASSUME NEW t, \/ Claim(t) \/ Refuse(t) \/ Fail(t) \/ Check(t) \/ Persist(t)
                    \/ DatabaseFails(t) \/ SettleFails(t)
                    \/ Renew(t) \/ Heartbeat(t) \/ HeartbeatFails(t)
      PROVE  FALSE
    BY <1>4 DEF Claim, Refuse, Fail, Check, Persist, DatabaseFails, SettleFails, Renew, Heartbeat,
                HeartbeatFails, lane, parked
<1>5. CASE ReaperStep
    BY <1>5 DEF ReaperStep, Scan, Load, Judge, ResetByReaper, FinalizeExpired, ReaperFails,
                Promote, Tick, Q!PromoteRetries, lane, parked
<1>6. ASSUME NEW k, Observes(k) \/ ResetsRow(k)
      PROVE  FALSE
    BY <1>6 DEF Observes, ResetsRow, lane
<1>7. ASSUME NEW k, MovesTransport(k)
      PROVE  FALSE
  <2>1. CASE Q!PurgeQueued(k[2]) \/ Q!PurgeRetry(k[2]) \/ Q!PurgeDlq(k[2])
    BY <2>1 DEF Q!PurgeQueued, Q!PurgeRetry, Q!PurgeDlq, Q!parkVars
  <2>2. CASE \E T : Q!PurgeProcessing(k[2], T)
    BY <2>2 DEF Q!PurgeProcessing
  <2>3. CASE \E t : Q!PurgeLease(t)
    BY <2>3 DEF Q!PurgeLease
  <2>4. CASE UNCHANGED parked
    BY <2>4 DEF parked
  <2> QED
    BY <1>7, <2>1, <2>2, <2>3, <2>4 DEF MovesTransport, lane, parked
<1> QED
    BY <1>7, <1>1, <1>2, <1>3, <1>4, <1>5, <1>6 DEF Next, TaskStep, ReconcilerStep

RunsNext(j) == j \in DOMAIN row' /\ row'[j].status = "running"

\* A task that has claimed its job gives the claim up only with the row, or
\* when it finds the row another's or a result there.
ClaimsGoOn ==
    \A t \in DOMAIN task :
        task[t].pc \in HoldsClaim =>
            \/ /\ t \in DOMAIN task' /\ task'[t].pc \in HoldsClaim
               /\ task'[t].job = task[t].job /\ task'[t].worker = task[t].worker
            \/ spent' = spent + 1
            \/ ~RunsNext(task[t].job)
            \/ /\ row' = row
               /\ ~OwnedBy(task[t].job, t, task[t].worker) \/ results[task[t].job] > 0

LEMMA ClaimsGoOnAtEveryStep ==
    ASSUME Types, Next
    PROVE  ClaimsGoOn
<1> SUFFICES ASSUME NEW t \in DOMAIN task, task[t].pc \in HoldsClaim, spent' # spent + 1
             PROVE  \/ /\ t \in DOMAIN task' /\ task'[t].pc \in HoldsClaim
                       /\ task'[t].job = task[t].job /\ task'[t].worker = task[t].worker
                    \/ ~RunsNext(task[t].job)
                    \/ /\ row' = row
                       /\ ~OwnedBy(task[t].job, t, task[t].worker) \/ results[task[t].job] > 0
    BY DEF ClaimsGoOn
<1> DEFINE Holds == /\ t \in DOMAIN task' /\ task'[t].pc \in HoldsClaim
                    /\ task'[t].job = task[t].job /\ task'[t].worker = task[t].worker
           NotRunning == ~RunsNext(task[t].job)
           Lost == /\ row' = row
                   /\ ~OwnedBy(task[t].job, t, task[t].worker) \/ results[task[t].job] > 0
<1> SUFFICES Holds \/ NotRunning \/ Lost
    OBVIOUS
<1>0. task[t] \in Task /\ leaseSeq + 1 # t
    BY DEF Types, TaskTypes, Q!IsPartial, LaneTypes, Q!LaneTypeOK
<1>1. ASSUME t \in DOMAIN task', task'[t] = task[t]
      PROVE  Holds
    BY <1>1
<1>2. ASSUME NEW u \in DOMAIN task, NEW pc, Goto(u, pc), u # t
      PROVE  Holds
    BY <1>1, <1>2 DEF Goto
<1>3. ASSUME NEW pc \in HoldsClaim, Goto(t, pc)
      PROVE  Holds
    BY <1>0, <1>3 DEF Goto, Task
<1>4. ASSUME NEW w, Lease(w)
      PROVE  Holds
    BY <1>0, <1>1, <1>4 DEF Lease, Q!Extend
<1>5. ASSUME NEW u \in DOMAIN task, Claim(u) \/ Fail(u)
      PROVE  Holds
  <2>1. u # t /\ \E pc : Goto(u, pc)
    BY <1>5 DEF Claim, Fail, HoldsClaim
  <2> QED
    BY <1>2, <2>1
<1>6. ASSUME NEW u \in DOMAIN task, Check(u)
      PROVE  Holds \/ Lost
  <2>1. CASE u # t
    BY <1>2, <1>6, <2>1 DEF Check
  <2>2. CASE u = t /\ \E pc \in HoldsClaim : Goto(u, pc)
    BY <1>3, <2>2
  <2> QED
    BY <1>6, <2>1, <2>2 DEF Check, HoldsClaim, db
<1>7. ASSUME NEW u \in DOMAIN task, Persist(u)
      PROVE  Holds \/ NotRunning
  <2>1. CASE u # t
    <3>1. CASE StoreRetry(u)
      BY <1>1, <2>1, <3>1 DEF StoreRetry
    <3> QED
      BY <1>2, <1>7, <2>1, <3>1 DEF Persist, StoreResult, StoreDeadLetter, LoseRetry
  <2>2. CASE u = t
    <3>0. \A j \in DOMAIN row : row[j] \in Row
      BY DEF Types, RowTypes, Q!IsPartial
    <3>1. ASSUME NEW s \in {"completed", "dead_letter"},
                 row' = [row EXCEPT ![task[t].job] = Overwrite(@, "running", s)]
          PROVE  NotRunning
      BY <3>0, <3>1 DEF Overwrite, Released, Row, RunsNext
    <3>2. CASE StoreResult(u) \/ StoreDeadLetter(u)
      BY <2>2, <3>1, <3>2 DEF StoreResult, StoreDeadLetter
    <3>3. CASE StoreRetry(u)
      BY <2>2, <3>0, <3>3 DEF StoreRetry, Released, Row, StatusIs, RunsNext
    <3>4. CASE LoseRetry(u)
      BY <2>2, <3>4 DEF LoseRetry, StatusIs, RunsNext, db
    <3> QED
      BY <1>7, <3>2, <3>3, <3>4 DEF Persist
  <2> QED
    BY <2>1, <2>2
<1>8. ASSUME NEW u \in DOMAIN task, Settle(u)
      PROVE  Holds
    BY <1>1, <1>8 DEF Settle, HoldsClaim, Q!Without, Q!Restrict
<1>9. ASSUME NEW u \in DOMAIN task, NEW r, task' = [task EXCEPT ![u].renewals = r]
      PROVE  Holds
    BY <1>0, <1>9 DEF Task
<1>10. ASSUME NEW u \in DOMAIN task, Renew(u) \/ Heartbeat(u)
       PROVE  Holds
  <2>1. CASE task' = [task EXCEPT ![u].renewals = "beat", ![u].renewedAt = now]
    BY <1>0, <2>1 DEF Task
  <2> QED
    BY <1>9, <1>10, <2>1 DEF Renew, Heartbeat
<1>11. ASSUME NEW u,
              Crash(u) \/ Refuse(u) \/ DatabaseFails(u) \/ SettleFails(u) \/ HeartbeatFails(u)
       PROVE  FALSE
    BY <1>11 DEF Crash, Refuse, DatabaseFails, SettleFails, HeartbeatFails, Spend
<1>12. CASE ApiStep \/ ReaperStep \/ ReconcilerStep
    BY <1>1, <1>12, OthersLeaveTasks
<1> QED
    BY <1>4, <1>5, <1>6, <1>7, <1>8, <1>10, <1>11, <1>12 DEF Next, TaskStep

-----------------------------------------------------------------------------
(* The inductive invariant *)

LeasesMatch ==
    /\ \A t \in DOMAIN lease : lease[t].leasedAt =< now
    /\ \A t \in DOMAIN task \cap DOMAIN lease :
          /\ lease[t].raw = task[t].job
          /\ task[t].renewals = "beat" => task[t].renewedAt =< lease[t].leasedAt
    /\ \A j \in DOMAIN row : row[j].token =< leaseSeq

\* While nothing has died, failed or been canceled or reprocessed.
EndsAreFinal ==
    spent = 0 =>
        /\ \A j \in Job : results[j] > 0 => EndedForGood(j)
        /\ \A j \in dlqActive : EndedForGood(j)
        /\ \A t \in DOMAIN task : task[t].pc = "bury" => EndedForGood(task[t].job)

IInv == Types /\ HasClaimed /\ LeasesMatch /\ HeartbeatNeverAhead /\ EndsAreFinal /\ RunningRowsAreRun

LEMMA IInvAtFirst == Init => IInv
<1> SUFFICES ASSUME Init PROVE IInv
    OBVIOUS
<1>1. /\ row = <<>> /\ task = <<>> /\ lease = <<>> /\ dlqActive = {}
      /\ \A j \in Job : results[j] = 0
    BY DEF Init, Q!Init, Q!LaneInit
<1>2. DOMAIN row = {} /\ DOMAIN task = {} /\ DOMAIN lease = {}
    BY <1>1
<1>3. HasClaimed /\ LeasesMatch /\ HeartbeatNeverAhead
    BY <1>2 DEF HasClaimed, LeasesMatch, HeartbeatNeverAhead
<1>4. EndsAreFinal /\ RunningRowsAreRun
    BY <1>1, <1>2 DEF EndsAreFinal, RunningRowsAreRun, StatusIs
<1> QED
    BY <1>3, <1>4, TypesAtFirst DEF IInv

LEMMA HasClaimedKept ==
    ASSUME Types, HasClaimed, Next
    PROVE  HasClaimed'
<1> SUFFICES ASSUME NEW t \in DOMAIN task', task'[t].pc \in HoldsClaim
             PROVE  task'[t].job \in DOMAIN row'
    BY DEF HasClaimed, HoldsClaim
<1>1. TaskGoesOn(t) /\ DOMAIN row \subseteq DOMAIN row'
    BY TasksGoOn, EveryStepMovesTheRows, RowTypesKept
<1>2. \A u \in DOMAIN task : task[u].pc \in HoldsClaim => task[u].job \in DOMAIN row
    BY DEF HasClaimed, HoldsClaim
<1> QED
    BY <1>1, <1>2 DEF TaskGoesOn, HoldsClaim, StatusIs

\* What a step makes of the numbers that the next two lemmas compare.
LEMMA Clocks ==
    ASSUME Types
    PROVE  /\ leaseSeq \in Nat /\ now \in Nat /\ LeaseTimeout \in Nat
           /\ \A t \in DOMAIN lease : t =< leaseSeq /\ lease[t].leasedAt \in Nat
           /\ \A t \in DOMAIN task : t \in Nat /\ t =< leaseSeq /\ task[t].renewedAt \in Nat
           /\ \A j \in DOMAIN row : row[j] \in Row /\ row[j].token \in Nat /\ row[j].leasedAt \in Nat
<1>1. /\ Q!IsPartial(lease, 1..MaxLeases, Q!LeaseRecord) /\ DOMAIN lease \subseteq 1..leaseSeq
      /\ leaseSeq \in 0..MaxLeases /\ now \in 0..MaxTime /\ MaxTime \in Nat /\ MaxLeases \in Nat
    BY LaneConstants DEF Types, LaneTypes, Q!LaneTypeOK
<1>2. Q!IsPartial(task, 1..leaseSeq, Task) /\ Q!IsPartial(row, Job, Row)
    BY DEF Types, TaskTypes, RowTypes
<1>3. \A r \in Q!LeaseRecord : r.leasedAt \in Nat
    BY <1>1 DEF Q!LeaseRecord
<1>4. \A r \in Task : r.renewedAt \in Nat
    BY <1>1 DEF Task
<1>5. \A r \in Row : r.token \in Nat /\ r.leasedAt \in Nat
    BY <1>1 DEF Row
<1>6. LeaseTimeout \in Nat
    BY LaneConstants
<1>7. \A t \in DOMAIN lease : t \in 1..leaseSeq /\ lease[t].leasedAt \in Nat
    BY <1>1, <1>3 DEF Q!IsPartial
<1>8. \A t \in DOMAIN task : t \in 1..leaseSeq /\ task[t].renewedAt \in Nat
    BY <1>2, <1>4 DEF Q!IsPartial
<1>9. \A j \in DOMAIN row : row[j] \in Row /\ row[j].token \in Nat /\ row[j].leasedAt \in Nat
    BY <1>2, <1>5 DEF Q!IsPartial
<1> QED
    BY <1>1, <1>6, <1>7, <1>8, <1>9

\* A lease time of a lease that stays is never taken back.
LEMMA LeasesOnlyRenew ==
    ASSUME Types, LeasesMatch, LeasesKept, Types'
    PROVE  /\ \A t \in DOMAIN lease' : lease'[t].leasedAt =< now'
           /\ \A t \in DOMAIN lease \cap DOMAIN lease' :
                 /\ lease'[t].raw = lease[t].raw
                 /\ lease[t].leasedAt =< lease'[t].leasedAt
           /\ \A t \in DOMAIN lease' : t =< leaseSeq => t \in DOMAIN lease
           /\ leaseSeq =< leaseSeq'
    BY Clocks DEF LeasesKept, LeasesMatch

LEMMA LeasesMatchKept ==
    ASSUME Types, HasClaimed, LeasesMatch, Next
    PROVE  LeasesMatch'
<1>0. Types' /\ LeasesKept /\ RowMoves
    BY TypesKept
<1>1. \A t \in DOMAIN lease' : lease'[t].leasedAt =< now'
    BY <1>0, LeasesOnlyRenew
<1>2. ASSUME NEW t \in DOMAIN task' \cap DOMAIN lease'
      PROVE  /\ lease'[t].raw = task'[t].job
             /\ task'[t].renewals = "beat" => task'[t].renewedAt =< lease'[t].leasedAt
  <2>1. TaskGoesOn(t)
    BY TasksGoOn
  <2>2. CASE t \in DOMAIN task
    <3>1. t \in DOMAIN lease /\ t # leaseSeq + 1
      BY <1>0, <2>2, Clocks, LeasesOnlyRenew
    <3>2. /\ lease'[t].raw = lease[t].raw /\ lease[t].leasedAt =< lease'[t].leasedAt
          /\ lease[t].raw = task[t].job
          /\ task[t].renewals = "beat" => task[t].renewedAt =< lease[t].leasedAt
      BY <1>0, <2>2, <3>1, LeasesOnlyRenew DEF LeasesMatch
    <3>3. lease[t].leasedAt \in Nat /\ lease'[t].leasedAt \in Nat /\ task[t].renewedAt \in Nat /\ now \in Nat
      <4>1. \A u \in DOMAIN lease' : lease'[u].leasedAt = lease[u].leasedAt \/ lease'[u].leasedAt = now
        BY <1>0 DEF LeasesKept
      <4> QED
        BY <2>2, <3>1, <4>1, Clocks
    <3> QED
      BY <2>1, <2>2, <3>1, <3>2, <3>3 DEF TaskGoesOn
  <2>3. CASE t \notin DOMAIN task
    BY <2>1, <2>3 DEF TaskGoesOn
  <2> QED
    BY <2>2, <2>3
<1>3. ASSUME NEW j \in DOMAIN row'
      PROVE  row'[j].token =< leaseSeq'
  <2>1. RowGoesOn(j)
    BY <1>0, RowsGoOn
  <2>2. leaseSeq \in Nat /\ leaseSeq' \in Nat /\ leaseSeq =< leaseSeq'
    BY <1>0, Clocks DEF LeasesKept
  <2>3. \A i \in DOMAIN row : row[i].token \in Nat /\ row[i].token =< leaseSeq /\ row[i] \in Row
    BY Clocks DEF LeasesMatch
  <2>4. \A t \in DOMAIN task, r \in Row : Claimed(r, t).token = t /\ Beaten(r, t).token = r.token
    BY DEF Claimed, Beaten, Row
  <2> QED
    BY <2>1, <2>2, <2>3, <2>4, Clocks DEF RowGoesOn, StatusIs, OwnedBy
<1> QED
    BY <1>1, <1>2, <1>3 DEF LeasesMatch

\* A heartbeat is written with what the renewal set the lease to, and a lease
\* that is renewed again, or granted again, is only later.
LEMMA HeartbeatKept ==
    ASSUME Types, HasClaimed, LeasesMatch, HeartbeatNeverAhead, Next
    PROVE  HeartbeatNeverAhead'
<1>0. Types' /\ LeasesKept /\ RowMoves
    BY TypesKept
<1> SUFFICES ASSUME NEW j \in DOMAIN row', row'[j].status = "running", ~row'[j].byClaim,
                    row'[j].token \in DOMAIN lease'
             PROVE  row'[j].leasedAt =< lease'[row'[j].token].leasedAt
    BY DEF HeartbeatNeverAhead
<1>1. RowGoesOn(j)
    BY <1>0, RowsGoOn
<1>2. ASSUME NEW t \in DOMAIN lease', t =< leaseSeq
      PROVE  /\ t \in DOMAIN lease /\ lease[t].leasedAt =< lease'[t].leasedAt
             /\ lease[t].leasedAt \in Nat /\ lease'[t].leasedAt \in Nat
  <2>1. t \in DOMAIN lease /\ lease[t].leasedAt =< lease'[t].leasedAt
    BY <1>0, <1>2, LeasesOnlyRenew
  <2>2. lease'[t].leasedAt = lease[t].leasedAt \/ lease'[t].leasedAt = now
    BY <1>0, <2>1 DEF LeasesKept
  <2> QED
    BY <2>1, <2>2, Clocks
<1>3. CASE j \in DOMAIN row /\ row'[j] = row[j]
  <2>1. row[j].token =< leaseSeq /\ row[j].leasedAt \in Nat
    BY <1>3, Clocks DEF LeasesMatch
  <2>2. row[j].token \in DOMAIN lease
    BY <1>2, <1>3, <2>1
  <2>3. row[j].leasedAt =< lease[row[j].token].leasedAt
    BY <1>3, <2>2 DEF HeartbeatNeverAhead
  <2> QED
    BY <1>2, <1>3, <2>1, <2>3
<1>4. ASSUME NEW t \in DOMAIN task, j = task[t].job, StatusIs(j, "queued"),
             row'[j] = Claimed(row[j], t)
      PROVE  FALSE
  <2>1. row[j] \in Row
    BY <1>4, Clocks DEF StatusIs
  <2> QED
    BY <1>4, <2>1 DEF Claimed, Row
<1>5. ASSUME NEW t \in DOMAIN task, task[t].renewals = "beat", OwnedBy(j, t, task[t].worker),
             row'[j] = Beaten(row[j], t)
      PROVE  row'[j].leasedAt =< lease'[row'[j].token].leasedAt
  <2>1. row[j] \in Row /\ row[j].token = t
    BY <1>5, Clocks DEF OwnedBy, StatusIs
  <2>2. row'[j].token = t /\ row'[j].leasedAt = task[t].renewedAt
    BY <1>5, <2>1 DEF Beaten, Row
  <2>3. t =< leaseSeq /\ task[t].renewedAt \in Nat
    BY Clocks
  <2>4. t \in DOMAIN lease /\ task[t].renewedAt =< lease[t].leasedAt
    BY <1>2, <1>5, <2>2, <2>3 DEF LeasesMatch
  <2> QED
    BY <1>2, <2>2, <2>3, <2>4
<1> QED
    BY <1>1, <1>3, <1>4, <1>5 DEF RowGoesOn

LEMMA EndsStayFinal ==
    ASSUME Types, RowMoves, spent' # spent + 1, NEW j, EndedForGood(j)
    PROVE  EndedForGood(j)'
<1>1. j \in DOMAIN row' /\ RowGoesOn(j)
    BY RowTypesKept, RowsGoOn DEF EndedForGood
<1> QED
    BY <1>1 DEF RowGoesOn, EndedForGood, StatusIs, OwnedBy, Final

LEMMA EndsAreFinalKept ==
    ASSUME Types, HasClaimed, LeasesMatch, EndsAreFinal, Next
    PROVE  EndsAreFinal'
<1>0. Types' /\ RowMoves /\ spent \in Nat
    BY TypesKept DEF Types, CallerTypes
<1> SUFFICES ASSUME spent' = 0
             PROVE  /\ \A j \in Job : results'[j] > 0 => EndedForGood(j)'
                    /\ \A j \in dlqActive' : EndedForGood(j)'
                    /\ \A t \in DOMAIN task' : task'[t].pc = "bury" =>
                          task'[t].job \in DOMAIN row' /\ row'[task'[t].job].status \in Final
    BY DEF EndsAreFinal, EndedForGood
<1>1. spent = 0 /\ spent' # spent + 1
    BY <1>0, CallersKept, RowTypesKept
<1>2. \A j : EndedForGood(j) => EndedForGood(j)'
  <2> SUFFICES ASSUME NEW j, EndedForGood(j) PROVE EndedForGood(j)'
      OBVIOUS
  <2> QED
    BY <1>0, <1>1, EndsStayFinal
<1>3. /\ \A j \in Job : results[j] > 0 => EndedForGood(j)
      /\ \A j \in dlqActive : EndedForGood(j)
      /\ \A t \in DOMAIN task : task[t].pc = "bury" => EndedForGood(task[t].job)
    BY <1>1 DEF EndsAreFinal
<1>4. ASSUME NEW j \in DOMAIN row, NEW s \in Final, row' = [row EXCEPT ![j] = Overwrite(@, "running", s)]
      PROVE  EndedForGood(j)'
  <2>1. row[j] \in Row /\ s \in {"queued", "running"} \cup Final
    BY Clocks
  <2>2. Overwrite(row[j], "running", s).status = s
    BY <2>1, OverwrittenRow, Zenon
  <2> QED
    BY <1>4, <2>2 DEF EndedForGood
<1>5. ASSUME NEW j \in Job, results'[j] > 0
      PROVE  EndedForGood(j)'
  <2>1. CASE results[j] > 0
    BY <1>2, <1>3, <2>1
  <2>2. CASE ~(results[j] > 0)
    <3>0. results \in [Job -> Nat]
      BY DEF Types, RowTypes
    <3>1. PICK t \in DOMAIN task : CompletesRow(t)
      BY <1>0, <1>5, <2>2 DEF RowMoves, CreatesRow, ClaimsRow, BeatsRow, GivesBackRow, EndsRow,
                              ReprocessesRow, SameResults, db
    <3>2. task[t].job = j
      BY <1>5, <2>2, <3>0, <3>1 DEF CompletesRow
    <3>3. j \in DOMAIN row
      BY <3>1, <3>2 DEF CompletesRow, HasClaimed
    <3> QED
      BY <1>4, <3>1, <3>2, <3>3 DEF CompletesRow, Final
  <2> QED
    BY <2>1, <2>2
<1>6. ASSUME NEW j \in dlqActive'
      PROVE  EndedForGood(j)'
  <2>1. CASE j \in dlqActive
    BY <1>2, <1>3, <2>1
  <2>2. ASSUME NEW t \in DOMAIN task \cap DOMAIN lease, task[t].pc = "bury", j = lease[t].raw
        PROVE  EndedForGood(j)
    BY <1>3, <2>2 DEF LeasesMatch
  <2> QED
    BY <1>2, <2>1, <2>2, DlqGoesOn
<1>7. ASSUME NEW t \in DOMAIN task', task'[t].pc = "bury"
      PROVE  task'[t].job \in DOMAIN row' /\ row'[task'[t].job].status \in Final
  <2>1. /\ t \in DOMAIN task /\ task'[t].job = task[t].job
        /\ \/ task[t].pc = "bury"
           \/ /\ task[t].pc = "dead"
              /\ row' = [row EXCEPT ![task[t].job] = Overwrite(@, "running", "dead_letter")]
    BY <1>1, <1>7, TasksGoOn DEF TaskGoesOn, HoldsClaim
  <2>2. CASE task[t].pc = "bury"
    <3>1. EndedForGood(task[t].job)
      BY <1>3, <2>1, <2>2
    <3>2. DOMAIN row \subseteq DOMAIN row' /\ RowGoesOn(task[t].job)
      BY <1>0, <3>1, RowTypesKept, RowsGoOn DEF EndedForGood
    <3> QED
      BY <1>1, <2>1, <3>1, <3>2 DEF RowGoesOn, EndedForGood, StatusIs, OwnedBy, Final
  <2>3. CASE row' = [row EXCEPT ![task[t].job] = Overwrite(@, "running", "dead_letter")]
             /\ task[t].pc = "dead"
    <3>1. task[t].job \in DOMAIN row /\ "dead_letter" \in Final
      BY <2>1, <2>3 DEF HasClaimed, Final
    <3> DEFINE j == task[t].job
    <3>2. row[j] \in Row /\ "dead_letter" \in {"queued", "running"} \cup Final
      BY <3>1, Clocks
    <3>3. Overwrite(row[j], "running", "dead_letter").status = "dead_letter"
      BY <3>2, OverwrittenRow, Zenon
    <3> QED
      BY <2>1, <2>3, <3>1, <3>3
  <2> QED
    BY <2>1, <2>2, <2>3
<1> QED
    BY <1>5, <1>6, <1>7

LEMMA RunningRowsKept ==
    ASSUME IInv, Next
    PROVE  RunningRowsAreRun'
<1>0. Types /\ Types' /\ RowMoves /\ spent \in Nat
    BY TypesKept DEF IInv, Types, CallerTypes
<1> SUFFICES ASSUME spent' = 0, NEW j \in Job, RunsNext(j)
             PROVE  /\ row'[j].token \in DOMAIN task'
                    /\ task'[row'[j].token].job = j
                    /\ task'[row'[j].token].worker = row'[j].worker
                    /\ task'[row'[j].token].pc \in HoldsClaim
    BY DEF RunningRowsAreRun, StatusIs, RunsNext, HoldsClaim
<1>1. spent = 0 /\ spent' # spent + 1
    BY <1>0, CallersKept, RowTypesKept
<1>2. RowGoesOn(j)
    BY <1>0, RowsGoOn DEF RunsNext
<1>3. ASSUME NEW t \in DOMAIN task, OwnedBy(j, t, task[t].worker), task[t].job = j,
             task[t].pc \in HoldsClaim, row'[j].token = t, row'[j].worker = task[t].worker
      PROVE  /\ row'[j].token \in DOMAIN task'
             /\ task'[row'[j].token].job = j
             /\ task'[row'[j].token].worker = row'[j].worker
             /\ task'[row'[j].token].pc \in HoldsClaim
  <2>1. results[j] = 0
    <3>1. results[j] \in Nat /\ ~EndedForGood(j)
      BY <1>0, <1>3 DEF Types, RowTypes, EndedForGood, OwnedBy, StatusIs, Final
    <3> QED
      BY <1>1, <3>1 DEF IInv, EndsAreFinal
  <2>2. /\ t \in DOMAIN task' /\ task'[t].pc \in HoldsClaim
        /\ task'[t].job = task[t].job /\ task'[t].worker = task[t].worker
    BY <1>0, <1>1, <1>3, <2>1, ClaimsGoOnAtEveryStep DEF ClaimsGoOn
  <2> QED
    BY <1>3, <2>2
<1>4. ASSUME StatusIs(j, "running")
      PROVE  /\ row[j].token \in DOMAIN task /\ OwnedBy(j, row[j].token, task[row[j].token].worker)
             /\ task[row[j].token].job = j /\ task[row[j].token].worker = row[j].worker
             /\ task[row[j].token].pc \in HoldsClaim
    BY <1>1, <1>4 DEF IInv, RunningRowsAreRun, OwnedBy, HoldsClaim
<1>5. CASE j \in DOMAIN row /\ row'[j] = row[j]
    BY <1>3, <1>4, <1>5 DEF RunsNext, StatusIs
<1>6. ASSUME NEW t \in DOMAIN task, j = task[t].job, StatusIs(j, "queued"),
             row'[j] = Claimed(row[j], t), Goto(t, "running")
      PROVE  /\ row'[j].token = t /\ row'[j].worker = task[t].worker
             /\ t \in DOMAIN task' /\ task'[t].pc = "running"
             /\ task'[t].job = task[t].job /\ task'[t].worker = task[t].worker
  <2>1. row[j] \in Row /\ task[t] \in Task
    BY <1>0, <1>6, Clocks DEF StatusIs, Types, TaskTypes, Q!IsPartial
  <2> QED
    BY <1>6, <2>1 DEF Claimed, Goto, Row, Task
<1>7. ASSUME NEW t \in DOMAIN task, OwnedBy(j, t, task[t].worker), row'[j] = Beaten(row[j], t)
      PROVE  /\ row'[j].token = t /\ row'[j].worker = task[t].worker
             /\ task[t].job = j /\ task[t].pc \in HoldsClaim
  <2>1. row[j] \in Row /\ StatusIs(j, "running") /\ row[j].token = t /\ row[j].worker = task[t].worker
    BY <1>0, <1>7, Clocks DEF OwnedBy, StatusIs
  <2>2. row'[j].token = row[j].token /\ row'[j].worker = row[j].worker
    BY <1>7, <2>1 DEF Beaten, Row
  <2> QED
    BY <1>4, <2>1, <2>2
<1> QED
  <2>1. CASE \E t \in DOMAIN task : /\ j = task[t].job /\ StatusIs(j, "queued")
                                    /\ row'[j] = Claimed(row[j], t) /\ Goto(t, "running")
    BY <1>6, <2>1 DEF HoldsClaim
  <2>2. CASE \E t \in DOMAIN task : OwnedBy(j, t, task[t].worker) /\ row'[j] = Beaten(row[j], t)
    BY <1>3, <1>7, <2>2
  <2> QED
    BY <1>1, <1>2, <1>5, <2>1, <2>2 DEF RowGoesOn, RunsNext

LEMMA IInvKept == IInv /\ [Next]_vars => IInv'
<1> SUFFICES ASSUME IInv, [Next]_vars PROVE IInv'
    OBVIOUS
<1>1. CASE Next
    BY <1>1, TypesKept, HasClaimedKept, LeasesMatchKept, HeartbeatKept, EndsAreFinalKept,
       RunningRowsKept DEF IInv
<1>2. CASE UNCHANGED vars
    BY <1>2 DEF vars, lane, db, workers, callers, IInv, Types, LaneTypes, Q!LaneTypeOK, RowTypes,
                TaskTypes, CallerTypes, HasClaimed, LeasesMatch, HeartbeatNeverAhead,
                EndsAreFinal, EndedForGood, RunningRowsAreRun, StatusIs
<1> QED
    BY <1>1, <1>2

-----------------------------------------------------------------------------
(* The theorems *)

LEMMA Invariance == Spec => []IInv
    BY IInvAtFirst, IInvKept, PTL DEF Spec

\* Every table, key and process of the analysis jobs holds what it can hold,
\* whatever API handlers, workers, reapers and reconcilers do to it.
THEOREM JobsTypeCorrect == Spec => []TypeOK
<1>1. IInv => TypeOK
    BY TypesAreTypeOK DEF IInv
<1> QED
    BY <1>1, Invariance, PTL

\* A heartbeat in a row is never ahead of its lease, so that the reaper does
\* not take a lapsed lease for a renewed one; and a task lets go of its lease
\* only when its row is no longer running under it, while nothing has failed.
THEOREM RunningRowsHaveTheirTask == Spec => []RunningRowsFollow
<1>1. IInv => RunningRowsFollow
    BY DEF IInv, RunningRowsFollow
<1> QED
    BY <1>1, Invariance, PTL

\* While nothing has failed, what is in the DLQ has ended: a dead letter is
\* written to the row before the payload is moved, and stays there.
THEOREM DeadLettersAreOfEndedJobs == Spec => []DeadLettersHaveEnded
<1>1. IInv => DeadLettersHaveEnded
    BY DEF IInv, EndsAreFinal, EndedForGood, DeadLettersHaveEnded
<1> QED
    BY <1>1, Invariance, PTL

\* The rows live the lifecycle: each transaction of a handler, a task, a reaper
\* or a reconciler is one transition of one job, or none.
THEOREM RowsLiveTheLifecycle == Spec => Lifecycle
<1>1. Init => L!Init
  <2> SUFFICES ASSUME Init PROVE L!Init
      OBVIOUS
  <2>1. DOMAIN row = {} /\ results = [j \in Job |-> 0]
    BY DEF Init
  <2> QED
    BY <2>1 DEF L!Init, Column
<1>2. IInv /\ [Next]_vars => [L!Next]_(L!vars)
  <2> SUFFICES ASSUME IInv, [Next]_vars PROVE L!Next \/ UNCHANGED L!vars
      OBVIOUS
  <2>1. CASE Next
    BY <2>1, EveryStepMovesTheRows, RowMovesAreLifecycleSteps DEF IInv
  <2>2. CASE UNCHANGED vars
    BY <2>2 DEF vars, db, L!vars, Column
  <2> QED
    BY <2>1, <2>2
<1> QED
    BY <1>1, <1>2, Invariance, PTL DEF Spec, Lifecycle, L!Spec

\* What a task schedules and a purge looks for is what the lane expects of its
\* callers: the lease time of a lease granted by now, and no token or the token
\* of a lease there is.
LEMMA LaneMovesAreQueueSteps ==
    ASSUME Types, LeasesMatch, LaneMoves
    PROVE  Q!Next \/ UNCHANGED Q!vars
<1>1. CASE LeaseStep /\ UNCHANGED parked
  <2>1. UNCHANGED Q!parkVars
    BY <1>1 DEF parked, Q!parkVars
  <2>2. Q!LaneStep \/ \E h \in reaping : Q!DropExpired(h)
    BY <1>1 DEF LeaseStep, Q!LaneStep
  <2> QED
    BY <2>1, <2>2 DEF Q!Next
<1>2. CASE ParkStep
  <2>1. ASSUME NEW t \in DOMAIN lease, NEW w, NEW s, Q!OwnsAsLeased(t, w, s)
        PROVE  s \in 0..now
    BY <2>1, Clocks DEF Q!OwnsAsLeased, LeasesMatch
  <2>2. ASSUME NEW t \in DOMAIN lease, NEW w \in Worker, NEW s,
               Q!MoveToDlq(t, w, s) \/ \E due \in DueTime : Q!ScheduleRetry(t, w, s, due)
        PROVE  Q!ParkStep
    <3>1. Q!OwnsAsLeased(t, w, s)
      BY <2>2 DEF Q!MoveToDlq, Q!ScheduleRetry
    <3> QED
      BY <2>1, <2>2, <3>1 DEF Q!ParkStep
  <2>3. Q!ParkStep
    BY <1>2, <2>2 DEF ParkStep, Q!ParkStep
  <2> QED
    BY <2>3 DEF Q!Next
<1>3. CASE PurgeStep
  <2>1. ASSUME NEW j \in Job, NEW u, Q!PurgeProcessing(j, {u})
        PROVE  \E S \in {{}} \cup {{t} : t \in DOMAIN lease} : Q!PurgeProcessing(j, S)
    <3>1. {u} \cap DOMAIN lease \in {{}} \cup {{t} : t \in DOMAIN lease}
      BY <2>1
    <3>2. ({u} \cap DOMAIN lease) \cap Q!LeasesOf(j) = {u} \cap Q!LeasesOf(j)
      BY DEF Q!LeasesOf
    <3>3. Q!PurgeProcessing(j, {u} \cap DOMAIN lease)
      BY <2>1, <3>2 DEF Q!PurgeProcessing
    <3> QED
      BY <3>1, <3>3
  <2>2. Q!PurgeStep
    BY <1>3, <2>1 DEF PurgeStep, Q!PurgeStep
  <2> QED
    BY <2>2 DEF Q!Next
<1>4. CASE ForgetReaped
  <2>1. UNCHANGED <<Q!parkVars, Q!peerVars>>
    BY <1>4 DEF ForgetReaped, parked, Q!parkVars, Q!peerVars
  <2>2. CASE Q!reaperVars' = Q!reaperVars
    BY <1>4, <2>1, <2>2 DEF ForgetReaped, Q!vars, Q!laneVars, Q!reaperVars
  <2>3. CASE Q!reaperVars' # Q!reaperVars
    <3>1. Q!ReaperDies
      BY <1>4, <2>1, <2>3 DEF ForgetReaped, Q!ReaperDies
    <3> QED
      BY <2>1, <3>1 DEF Q!Next, Q!LaneStep
  <2> QED
    BY <2>2, <2>3
<1>5. CASE UNCHANGED lane
    BY <1>5 DEF lane, Q!vars, Q!laneVars, Q!peerVars, Q!parkVars
<1> QED
    BY <1>1, <1>2, <1>3, <1>4, <1>5 DEF LaneMoves

\* What AnalysisQueue and JobLane assume of their constants holds here.
LEMMA LaneAssumptionsHold ==
    /\ {} \subseteq Job /\ [j \in Job |-> j] \in [Job -> Job]
    /\ {MaxDepth, MaxConcurrent, MaxGlobalQueued, LeaseTimeout, PromoteLimit} \subseteq Nat \ {0}
    /\ {MaxTime, MaxLeases, 0} \subseteq Nat
    /\ DueTime \subseteq Nat
    BY JobsAssumption DEF DueTime

\* The lane is moved as its own specification says, for all the ways in which
\* handlers, tasks, reapers and reconcilers call on it and die: what is proved
\* of AnalysisQueue in an arbitrary environment holds of it in this one.
THEOREM LaneKeepsItsSpec == Spec => LaneOnItsOwn
<1>1. Init => Q!Init
    BY DEF Init
<1>2. IInv /\ [Next]_vars => [Q!Next]_(Q!vars)
  <2> SUFFICES ASSUME IInv, [Next]_vars PROVE Q!Next \/ UNCHANGED Q!vars
      OBVIOUS
  <2>1. LaneMoves
    BY EveryStepMovesTheLane DEF IInv, vars, LaneMoves
  <2> QED
    BY <2>1, LaneMovesAreQueueSteps DEF IInv
<1> QED
    BY <1>1, <1>2, Invariance, PTL DEF Spec, LaneOnItsOwn, Q!Spec

\* Rows and lane each keep the specification written for them alone.
THEOREM EachPartKeepsItsSpec == Spec => EachPartSpec
    BY RowsLiveTheLifecycle, LaneKeepsItsSpec DEF EachPartSpec

\* What the lifecycle keeps: a completed job has a result, a job without a row
\* has none.
LEMMA LifecycleKeepsResults ==
    ASSUME Types, Types', L!CompletedHasResult, L!Next \/ UNCHANGED L!vars
    PROVE  L!CompletedHasResult'
<1> DEFINE States == {"none", "queued", "running"} \cup Final
<1>1. Status \in [Job -> States] /\ Status' \in [Job -> States] /\ results \in [Job -> Nat]
    BY DEF Types, RowTypes, Q!IsPartial, Row, Status, Column, Final
<1>2. L!CompletedHasResult <=>
        \A j \in Job : /\ Status[j] = "completed" => results[j] > 0
                       /\ Status[j] = "none" => results[j] = 0
    BY DEF L!CompletedHasResult, Status
<1>3. L!CompletedHasResult' <=>
        \A j \in Job : /\ Status'[j] = "completed" => results'[j] > 0
                       /\ Status'[j] = "none" => results'[j] = 0
    BY DEF L!CompletedHasResult, Status
<1>4. ASSUME NEW k \in Job, NEW s \in States \ {"completed", "none"},
             Status' = [Status EXCEPT ![k] = s], results' = results
      PROVE  L!CompletedHasResult'
    BY <1>1, <1>2, <1>3, <1>4
<1>5. ASSUME NEW k \in Job, L!Create(k) \/ L!Claim(k) \/ L!GiveBack(k) \/ L!Reprocess(k)
      PROVE  L!CompletedHasResult'
  <2>1. PICK s \in {"queued", "running"} : Status' = [Status EXCEPT ![k] = s]
    BY <1>5 DEF L!Create, L!Claim, L!GiveBack, L!Reprocess, L!Become, Status
  <2>2. results' = results
    BY <1>5 DEF L!Create, L!Claim, L!GiveBack, L!Reprocess
  <2> QED
    BY <1>4, <2>1, <2>2
<1>6. ASSUME NEW k \in Job, L!EndOtherwise(k)
      PROVE  L!CompletedHasResult'
    BY <1>4, <1>6 DEF L!EndOtherwise, L!Become, L!Ended, Final, Status
<1>7. ASSUME NEW k \in Job, L!Complete(k)
      PROVE  L!CompletedHasResult'
  <2>1. /\ Status' = [Status EXCEPT ![k] = "completed"]
        /\ results' = [results EXCEPT ![k] = results[k] + 1]
    BY <1>7 DEF L!Complete, L!Become, Status
  <2> QED
    BY <1>1, <1>2, <1>3, <2>1
<1>8. CASE UNCHANGED L!vars
    BY <1>2, <1>3, <1>8 DEF L!vars, Status
<1> QED
    BY <1>5, <1>6, <1>7, <1>8 DEF L!Next

\* An analysis is called completed only when a result of it is stored, and a
\* result is stored only of a job that exists: complete_job_with_result writes
\* both in one transaction.
THEOREM CompletedJobsHaveResults == Spec => []L!CompletedHasResult
<1>1. Init => L!CompletedHasResult
  <2> SUFFICES ASSUME Init PROVE L!CompletedHasResult
      OBVIOUS
  <2>1. DOMAIN row = {} /\ results = [j \in Job |-> 0]
    BY DEF Init
  <2> QED
    BY <2>1 DEF L!CompletedHasResult, Column
<1>2. IInv /\ IInv' /\ L!CompletedHasResult /\ [Next]_vars => L!CompletedHasResult'
  <2> SUFFICES ASSUME IInv, IInv', L!CompletedHasResult, [Next]_vars PROVE L!CompletedHasResult'
      OBVIOUS
  <2>1. L!Next \/ UNCHANGED L!vars
    <3>1. CASE Next
      BY <3>1, EveryStepMovesTheRows, RowMovesAreLifecycleSteps DEF IInv
    <3>2. CASE UNCHANGED vars
      BY <3>2 DEF vars, db, L!vars, Column
    <3> QED
      BY <3>1, <3>2
  <2> QED
    BY <2>1, LifecycleKeepsResults DEF IInv
<1> QED
    BY <1>1, <1>2, Invariance, PTL DEF Spec

\* A job that was completed, failed or canceled may end again, by a write that
\* comes late, but it is never queued or run again.
THEOREM EndedJobsStayEnded == Spec => L!NoRevival
<1>1. IInv /\ [Next]_vars =>
        [\A j \in Job : Column("status", "none")[j] \in L!Ended \ {"dead_letter"}
            => Column("status", "none")'[j] \in L!Ended]_(L!vars)
  <2> SUFFICES ASSUME IInv, Next \/ UNCHANGED vars, NEW j \in Job,
                      Status[j] \in L!Ended \ {"dead_letter"}
               PROVE  Status'[j] \in L!Ended
      BY DEF Status
  <2>1. L!Next \/ UNCHANGED L!vars
    <3>1. CASE Next
      BY <3>1, EveryStepMovesTheRows, RowMovesAreLifecycleSteps DEF IInv
    <3>2. CASE UNCHANGED vars
      BY <3>2 DEF vars, db, L!vars, Column
    <3> QED
      BY <3>1, <3>2
  <2>2. Status \in [Job -> {"none", "queued", "running"} \cup Final]
    BY ColumnTypes DEF IInv, Types
  <2>3. CASE UNCHANGED L!vars
    BY <2>3 DEF L!vars, Status
  <2>4. ASSUME NEW k \in Job, L!Create(k) \/ L!Claim(k) \/ L!GiveBack(k) \/ L!Reprocess(k)
        PROVE  Status'[j] \in L!Ended
    <3>1. k # j /\ \E s : Status' = [Status EXCEPT ![k] = s]
      BY <2>4 DEF L!Create, L!Claim, L!GiveBack, L!Reprocess, L!Become, L!Ended, Status
    <3> QED
      BY <2>2, <3>1
  <2>5. ASSUME NEW k \in Job, L!Complete(k) \/ L!EndOtherwise(k)
        PROVE  Status'[j] \in L!Ended
    <3>1. \E s \in L!Ended : Status' = [Status EXCEPT ![k] = s]
      BY <2>5 DEF L!Complete, L!EndOtherwise, L!Become, L!Ended, Status
    <3> QED
      BY <2>2, <3>1
  <2> QED
    BY <2>1, <2>3, <2>4, <2>5 DEF L!Next
<1> QED
    BY <1>1, Invariance, PTL DEF Spec, L!NoRevival

=============================================================================
