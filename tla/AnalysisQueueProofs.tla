------------------------ MODULE AnalysisQueueProofs ------------------------
(***************************************************************************)
(* Theorems about the analysis lane, for any payloads, workers, jobs and   *)
(* limits, and whatever callers do with it.  That no processing entry      *)
(* outnumbers its payload's leases is not inductive: a purge removes the   *)
(* entries first and the lease it had seen later, when the payload may be  *)
(* in processing again.  The invariant leaves the leases that a purge has  *)
(* still to delete out of the count.                                       *)
(***************************************************************************)
EXTENDS AnalysisQueue, JobLaneProofs

Recoverable(raw) ==
    Cardinality(Entries(raw)) =< Cardinality(LeasesOf(raw) \ purging)

Inv ==
    /\ TypeOK
    /\ \A raw \in Payload : Recoverable(raw)
    /\ DepthBounded

-----------------------------------------------------------------------------
(* Types *)

LEMMA TypesInitially == Init => TypeOK
<1> SUFFICES ASSUME Init PROVE TypeOK
    OBVIOUS
<1>1. LaneTypeOK
    BY LaneInitTypes DEF Init
<1>2. DOMAIN << >> = {} /\ << >> \in [{} -> DueTime] /\ << >> \in [{} -> Payload]
    OBVIOUS
<1> QED
    BY <1>1, <1>2 DEF Init, TypeOK, IsPartial

\* Tokens only grow.
LEMMA SequenceGrows ==
    ASSUME LaneTypeOK, LaneStep \/ \E h \in reaping : DropExpired(h)
    PROVE  leaseSeq' \in Nat /\ leaseSeq =< leaseSeq'
<1>1. leaseSeq \in Nat
    BY TokensAreFinite
<1>2. leaseSeq' = leaseSeq \/ leaseSeq' = leaseSeq + 1
    BY DEF LaneStep, DropExpired, Enqueue, Dequeue, Ack, Renew, ScanExpired, LoadScanned,
           RequeueExpired, LeaveExpired, ReaperDies, Tick, PeerMoves, laneVars
<1> QED
    BY <1>1, <1>2

\* A release and a change of what is parked leave the lane well typed.
LEMMA ParkedTypes ==
    ASSUME LaneTypeOK, NEW t \in DOMAIN lease, Release(t),
           UNCHANGED <<queue, leaseSeq, now, reaperVars, peerVars>>
    PROVE  LaneTypeOK'
    BY ReleaseTypes DEF LaneTypeOK, reaperVars, peerVars

LEMMA ParkStepTypes ==
    ASSUME TypeOK, ParkStep
    PROVE  TypeOK'
<1> USE DEF TypeOK
<1>1. ASSUME NEW t \in DOMAIN lease, NEW w \in Worker, NEW s \in 0..now, NEW due \in DueTime,
             ScheduleRetry(t, w, s, due)
      PROVE  TypeOK'
  <2>1. LaneTypeOK'
    BY <1>1, ParkedTypes DEF ScheduleRetry
  <2>2. lease[t].raw \in Payload
    BY DEF LaneTypeOK, IsPartial, LeaseRecord
  <2>3. IsPartial(retry', Payload, DueTime)
    BY <1>1, <2>2, ExtendIsPartial DEF ScheduleRetry
  <2> QED
    BY <1>1, <2>1, <2>3 DEF ScheduleRetry
<1>2. ASSUME NEW t \in DOMAIN lease, NEW w \in Worker, NEW s \in 0..now, MoveToDlq(t, w, s)
      PROVE  TypeOK'
  <2>1. LaneTypeOK'
    BY <1>2, ParkedTypes DEF MoveToDlq
  <2>2. lease[t].raw \in Payload /\ JobOf[lease[t].raw] \in Job
    BY AnalysisAssumption DEF LaneTypeOK, IsPartial, LeaseRecord
  <2>3. IsPartial(dlqLast', Job, Payload)
    BY <1>2, <2>2, ExtendIsPartial DEF MoveToDlq
  <2>4. dlqActive' \subseteq DOMAIN dlqLast'
    BY <1>2 DEF MoveToDlq, Extend
  <2> QED
    BY <1>2, <2>1, <2>3, <2>4 DEF MoveToDlq
<1>3. ASSUME PromoteRetries
      PROVE  TypeOK'
  <2>0. PICK n \in 1..PromoteLimit : \E s \in [1..n -> Due] :
          /\ queue' = queue \o s
          /\ retry' = Without(retry, Range(s))
          /\ UNCHANGED <<processing, lease, leaseSeq, now, reaperVars, peerVars,
                         dlqActive, dlqLast, reviving, purging>>
    BY <1>3 DEF PromoteRetries
  <2>1. PICK s \in [1..n -> Due] :
          /\ queue' = queue \o s
          /\ retry' = Without(retry, Range(s))
          /\ UNCHANGED <<processing, lease, leaseSeq, now, reaperVars, peerVars,
                         dlqActive, dlqLast, reviving, purging>>
    BY <2>0
  <2>2. s \in Seq(Payload)
    BY AnalysisAssumption DEF Due, IsPartial
  <2>3. queue' \in Seq(Payload)
    BY <2>1, <2>2, ConcatProperties DEF LaneTypeOK
  <2>4. LaneTypeOK'
    BY <2>1, <2>3 DEF LaneTypeOK, reaperVars, peerVars
  <2>5. IsPartial(retry', Payload, DueTime)
    BY <2>1, WithoutIsPartial
  <2> QED
    BY <2>1, <2>4, <2>5
<1>4. ASSUME NEW j \in Job, ReadDlq(j)
      PROVE  TypeOK'
  <2>1. LaneTypeOK'
    BY <1>4 DEF ReadDlq, LaneTypeOK, laneVars, peerVars
  <2>2. [job |-> j, raw |-> dlqLast[j], pushed |-> FALSE] \in Revival
    BY <1>4 DEF ReadDlq, IsPartial, Revival
  <2> QED
    BY <1>4, <2>1, <2>2 DEF ReadDlq, laneVars
<1>5. ASSUME NEW r \in reviving, PushDlq(r)
      PROVE  TypeOK'
  <2>1. r.raw \in Payload /\ [r EXCEPT !.pushed = TRUE] \in Revival
    BY DEF Revival
  <2>2. queue' \in Seq(Payload)
    BY <1>5, <2>1, PushProperties DEF PushDlq, LaneTypeOK
  <2>3. LaneTypeOK'
    BY <1>5, <2>2 DEF PushDlq, LaneTypeOK, reaperVars, peerVars
  <2> QED
    BY <1>5, <2>1, <2>3 DEF PushDlq
<1>6. ASSUME NEW r \in reviving, RemoveDlq(r) \/ AbandonDlq(r)
      PROVE  TypeOK'
  <2>1. LaneTypeOK'
    BY <1>6 DEF RemoveDlq, AbandonDlq, LaneTypeOK, laneVars, peerVars
  <2> QED
    BY <1>6, <2>1 DEF RemoveDlq, AbandonDlq, laneVars
<1> QED
    BY <1>1, <1>2, <1>3, <1>4, <1>5, <1>6 DEF ParkStep

\* What LREM 0 leaves of a queue is a queue, no longer than it was.
LEMMA PurgeQueuedShortens ==
    ASSUME queue \in Seq(Payload), NEW raw, PurgeQueued(raw)
    PROVE  queue' \in Seq(Payload) /\ Len(queue') =< Len(queue)
<1> DEFINE kept == {i \in DOMAIN queue : queue[i] # raw}
           n == Cardinality(kept)
<1>1. Len(queue) \in Nat /\ DOMAIN queue = 1..Len(queue)
    BY LenProperties
<1>2. IsFiniteSet(1..Len(queue)) /\ Cardinality(1..Len(queue)) = Len(queue)
    BY <1>1, FS_Interval
<1>3. IsFiniteSet(kept) /\ n =< Len(queue)
    BY <1>1, <1>2, FS_Subset
<1>4. n \in Nat
    BY <1>3, FS_CardinalityType
<1>5. PICK place \in [1..n -> kept] : queue' = [i \in 1..n |-> queue[place[i]]]
    BY DEF PurgeQueued
<1> HIDE DEF n
<1>6. \A i \in 1..n : queue[place[i]] \in Payload
    BY <1>1, <1>5, ElementOfSeq
<1>7. queue' \in Seq(Payload)
    BY <1>4, <1>5, <1>6
<1>8. Len(queue') = n
    BY <1>4, <1>5
<1> QED
    BY <1>3, <1>7, <1>8

LEMMA PurgeStepTypes ==
    ASSUME TypeOK, PurgeStep
    PROVE  TypeOK'
<1> USE DEF TypeOK
<1>1. ASSUME NEW raw \in Payload, PurgeQueued(raw)
      PROVE  TypeOK'
  <2>1. queue' \in Seq(Payload)
    BY <1>1, PurgeQueuedShortens DEF LaneTypeOK
  <2> QED
    BY <1>1, <2>1 DEF PurgeQueued, LaneTypeOK, reaperVars, peerVars, parkVars
<1>2. ASSUME NEW raw \in Payload, PurgeRetry(raw)
      PROVE  TypeOK'
  <2>1. IsPartial(retry', Payload, DueTime)
    BY <1>2, WithoutIsPartial DEF PurgeRetry
  <2> QED
    BY <1>2, <2>1 DEF PurgeRetry, LaneTypeOK, laneVars, peerVars
<1>3. ASSUME NEW raw \in Payload, NEW T, PurgeProcessing(raw, T)
      PROVE  TypeOK'
  <2>1. IsPartial(processing', 1..MaxLeases, Payload)
    BY <1>3, WithoutIsPartial DEF PurgeProcessing, LaneTypeOK
  <2>2. DOMAIN processing' \subseteq DOMAIN processing
    BY <1>3 DEF PurgeProcessing, Without, Restrict
  <2>3. purging' \subseteq 1..leaseSeq
    BY <1>3, TokensAreFinite DEF PurgeProcessing
  <2> QED
    BY <1>3, <2>1, <2>2, <2>3 DEF PurgeProcessing, LaneTypeOK, reaperVars, peerVars
<1>4. ASSUME NEW t \in purging, PurgeLease(t)
      PROVE  TypeOK'
  <2>1. IsPartial(lease', 1..MaxLeases, LeaseRecord)
    BY <1>4, WithoutIsPartial DEF PurgeLease, LaneTypeOK
  <2>2. DOMAIN lease' \subseteq DOMAIN lease
    BY <1>4 DEF PurgeLease, Without, Restrict
  <2> QED
    BY <1>4, <2>1, <2>2 DEF PurgeLease, LaneTypeOK, reaperVars, peerVars
<1>5. ASSUME NEW j \in Job, PurgeDlq(j)
      PROVE  TypeOK'
    BY <1>5 DEF PurgeDlq, LaneTypeOK, laneVars, peerVars
<1> QED
    BY <1>1, <1>2, <1>3, <1>4, <1>5 DEF PurgeStep

LEMMA TypesPreserved == TypeOK /\ [Next]_vars => TypeOK'
<1> SUFFICES ASSUME TypeOK, [Next]_vars PROVE TypeOK'
    OBVIOUS
<1>1. ASSUME LaneStep \/ (\E h \in reaping : DropExpired(h)), UNCHANGED parkVars
      PROVE  TypeOK'
  <2>1. LaneTypeOK'
    BY <1>1, LaneStepTypes DEF TypeOK
  <2>2. purging' \subseteq 1..leaseSeq'
    BY <1>1, SequenceGrows, TokensAreFinite DEF TypeOK, parkVars
  <2> QED
    BY <1>1, <2>1, <2>2 DEF TypeOK, parkVars
<1>2. CASE UNCHANGED vars
    BY <1>2 DEF TypeOK, LaneTypeOK, vars, laneVars, peerVars, parkVars
<1> QED
    BY <1>1, <1>2, ParkStepTypes, PurgeStepTypes DEF Next

-----------------------------------------------------------------------------
(* Entries and leases *)

LEMMA HeldStaysRecoverable ==
    ASSUME TypeOK, NEW raw, Recoverable(raw), UNCHANGED purging,
           Untouched(raw) \/ AddsPair(raw) \/ TakesPair(raw)
    PROVE  Recoverable(raw)'
<1> DEFINE held == LeasesOf(raw) \ purging
<1>1. LaneTypeOK
    BY DEF TypeOK
<1>2. IsFiniteSet(Entries(raw)) /\ IsFiniteSet(held)
    BY <1>1, TokensAreFinite, FS_Subset
<1>3. Cardinality(Entries(raw)) \in Nat /\ Cardinality(held) \in Nat
    BY <1>2, FS_CardinalityType
<1>4. Cardinality(Entries(raw)) =< Cardinality(held)
    BY DEF Recoverable
<1>5. CASE Untouched(raw)
    BY <1>5 DEF Untouched, Recoverable
<1>6. CASE AddsPair(raw)
  <2>1. NextToken \notin purging
    BY <1>1, TokensAreFinite DEF TypeOK, NextToken
  <2>2. NextToken \notin held /\ (LeasesOf(raw) \ purging)' = held \cup {NextToken}
    BY <1>6, <2>1 DEF AddsPair
  <2>3. Cardinality((LeasesOf(raw) \ purging)') = Cardinality(held) + 1
    BY <1>2, <2>2, FS_AddElement
  <2>4. Cardinality(Entries(raw)') = Cardinality(Entries(raw)) + 1
    BY <1>2, <1>6, FS_AddElement DEF AddsPair
  <2> QED
    BY <1>3, <1>4, <2>3, <2>4 DEF Recoverable
<1>7. CASE TakesPair(raw)
  <2>1. PICK t \in LeasesOf(raw) : LeasesOf(raw)' = LeasesOf(raw) \ {t}
    BY <1>7 DEF TakesPair
  <2>2. (LeasesOf(raw) \ purging)' = held \ {t}
    BY <2>1
  <2>3. /\ Cardinality((LeasesOf(raw) \ purging)') \in Nat
        /\ Cardinality((LeasesOf(raw) \ purging)') >= Cardinality(held) - 1
    <3> HIDE DEF held
    <3>1. /\ IsFiniteSet(held \ {t})
          /\ Cardinality(held \ {t}) =
               IF t \in held THEN Cardinality(held) - 1 ELSE Cardinality(held)
      BY <1>2, FS_RemoveElement
    <3>2. Cardinality(held \ {t}) \in Nat
      BY <3>1, FS_CardinalityType
    <3> QED
      BY <1>3, <2>2, <3>1, <3>2
  <2>4. CASE Entries(raw) = {}
    <3>1. Cardinality(Entries(raw)') = 0
      BY <1>7, <2>4, FS_EmptySet DEF TakesPair
    <3> QED
      BY <2>3, <3>1 DEF Recoverable
  <2>5. CASE Entries(raw) # {}
    <3>1. Cardinality(Entries(raw)') = Cardinality(Entries(raw)) - 1
      BY <1>2, <1>7, <2>5, FS_RemoveElement DEF TakesPair
    <3> QED
      BY <1>3, <1>4, <2>3, <3>1 DEF Recoverable
  <2> QED
    BY <2>4, <2>5
<1> QED
    BY <1>5, <1>6, <1>7

\* A purge removes a payload's entries before it promises to delete a lease,
\* and the promise leaves that lease out of the count.
LEMMA PurgeStaysRecoverable ==
    ASSUME TypeOK, \A raw \in Payload : Recoverable(raw), PurgeStep, NEW raw \in Payload
    PROVE  Recoverable(raw)'
<1>1. LaneTypeOK
    BY DEF TypeOK
<1>2. ASSUME UNCHANGED <<processing, lease, purging>>
      PROVE  Recoverable(raw)'
    BY <1>2 DEF Recoverable, Entries, LeasesOf
<1>3. ASSUME NEW r \in Payload, PurgeQueued(r) \/ PurgeRetry(r)
      PROVE  Recoverable(raw)'
    BY <1>2, <1>3 DEF PurgeQueued, PurgeRetry, laneVars, parkVars
<1>4. ASSUME NEW j \in Job, PurgeDlq(j)
      PROVE  Recoverable(raw)'
    BY <1>2, <1>4 DEF PurgeDlq, laneVars
<1>5. ASSUME NEW t \in purging, PurgeLease(t)
      PROVE  Recoverable(raw)'
  <2>1. (LeasesOf(raw) \ purging)' = LeasesOf(raw) \ purging
    BY <1>5 DEF PurgeLease, LeasesOf, Without, Restrict
  <2>2. Entries(raw)' = Entries(raw)
    BY <1>5 DEF PurgeLease, Entries
  <2> QED
    BY <2>1, <2>2 DEF Recoverable
<1>6. ASSUME NEW r \in Payload, NEW T, PurgeProcessing(r, T)
      PROVE  Recoverable(raw)'
  <2>1. processing' = [t \in DOMAIN processing \ Entries(r) |-> processing[t]] /\ lease' = lease
    BY <1>6 DEF PurgeProcessing, Without, Restrict
  <2>2. LeasesOf(raw)' = LeasesOf(raw)
    BY <2>1 DEF LeasesOf
  <2>3. CASE raw = r
    <3>1. Entries(raw)' = {}
      BY <2>1, <2>3 DEF Entries
    <3>2. Cardinality((LeasesOf(raw) \ purging)') \in Nat
      BY <1>1, <2>2, TokensAreFinite, FS_Subset, FS_CardinalityType
    <3> QED
      BY <3>1, <3>2, FS_EmptySet DEF Recoverable
  <2>4. CASE raw # r
    <3>1. Entries(raw)' = Entries(raw)
      BY <2>1, <2>4 DEF Entries
    <3>2. (LeasesOf(raw) \ purging)' = LeasesOf(raw) \ purging
      BY <1>6, <2>2, <2>4 DEF PurgeProcessing, LeasesOf
    <3> QED
      BY <3>1, <3>2 DEF Recoverable
  <2> QED
    BY <2>3, <2>4
<1> QED
    BY <1>3, <1>4, <1>5, <1>6 DEF PurgeStep

LEMMA ParkStepPairs ==
    ASSUME TypeOK, ParkStep, NEW raw
    PROVE  UNCHANGED purging /\ (Untouched(raw) \/ TakesPair(raw))
<1>1. LaneTypeOK
    BY DEF TypeOK
<1>2. ASSUME NEW t \in DOMAIN lease, NEW w, NEW s, NEW due, ScheduleRetry(t, w, s, due)
      PROVE  UNCHANGED purging /\ (Untouched(raw) \/ TakesPair(raw))
    BY <1>1, <1>2, ReleasePairs DEF ScheduleRetry
<1>3. ASSUME NEW t \in DOMAIN lease, NEW w, NEW s, MoveToDlq(t, w, s)
      PROVE  UNCHANGED purging /\ (Untouched(raw) \/ TakesPair(raw))
    BY <1>1, <1>3, ReleasePairs DEF MoveToDlq
<1>4. ASSUME \/ PromoteRetries
             \/ \E j \in Job : ReadDlq(j)
             \/ \E r \in reviving : PushDlq(r) \/ RemoveDlq(r) \/ AbandonDlq(r)
      PROVE  UNCHANGED purging /\ Untouched(raw)
  <2>1. UNCHANGED <<processing, lease, purging>>
    BY <1>4 DEF PromoteRetries, ReadDlq, PushDlq, RemoveDlq, AbandonDlq, laneVars
  <2> QED
    BY <2>1 DEF Untouched, Entries, LeasesOf
<1> QED
    BY <1>2, <1>3, <1>4 DEF ParkStep

LEMMA RecoverablePreserved ==
    ASSUME TypeOK, \A raw \in Payload : Recoverable(raw), [Next]_vars, NEW raw \in Payload
    PROVE  Recoverable(raw)'
<1>1. LaneTypeOK /\ Recoverable(raw)
    BY DEF TypeOK
<1>2. ASSUME LaneStep \/ (\E h \in reaping : DropExpired(h)), UNCHANGED parkVars
      PROVE  Recoverable(raw)'
  <2>1. UNCHANGED purging
    BY <1>2 DEF parkVars
  <2>2. Untouched(raw) \/ AddsPair(raw) \/ TakesPair(raw)
    BY <1>1, <1>2, LaneStepPairs
  <2> QED
    BY <1>1, <2>1, <2>2, HeldStaysRecoverable
<1>3. CASE ParkStep
    BY <1>1, <1>3, ParkStepPairs, HeldStaysRecoverable
<1>4. CASE PurgeStep
    BY <1>4, PurgeStaysRecoverable
<1>5. CASE UNCHANGED vars
    BY <1>1, <1>5 DEF Recoverable, Entries, LeasesOf, vars, laneVars, parkVars
<1> QED
    BY <1>2, <1>3, <1>4, <1>5 DEF Next

-----------------------------------------------------------------------------
(* Depth *)

LEMMA DepthPreserved ==
    ASSUME TypeOK, TypeOK', DepthBounded, [Next]_vars
    PROVE  DepthBounded'
<1>0. /\ LaneTypeOK /\ MaxDepth \in Nat
      /\ Len(queue) \in Nat /\ Cardinality(DOMAIN processing) \in Nat /\ Depth \in Nat
    BY LaneAssumption, DepthIsNatural DEF TypeOK
<1>1. Depth' \in Nat
    BY DepthStaysNatural DEF TypeOK
<1>2. ASSUME LaneStep \/ (\E h \in reaping : DropExpired(h))
      PROVE  Depth' =< MaxDepth + 1
    BY <1>0, <1>1, <1>2, LaneStepDepth DEF DepthBounded
<1>3. ASSUME NEW t \in DOMAIN lease, Release(t), UNCHANGED queue
      PROVE  Depth' =< Depth
    BY <1>0, <1>3, ReleaseDepth DEF Depth
<1>4. ASSUME ParkStep
      PROVE  Depth' =< Depth \/ Depth' =< MaxDepth
  <2>1. ASSUME NEW t \in DOMAIN lease, NEW w, NEW s, NEW due,
               ScheduleRetry(t, w, s, due) \/ MoveToDlq(t, w, s)
        PROVE  Depth' =< Depth
    BY <1>3, <2>1 DEF ScheduleRetry, MoveToDlq
  <2>2. ASSUME PromoteRetries
        PROVE  Depth' =< MaxDepth
    <3>1. PICK n \in 1..PromoteLimit : \E s \in [1..n -> Due] :
            HasRoom(n) /\ queue' = queue \o s /\ UNCHANGED processing
      BY <2>2 DEF PromoteRetries
    <3>2. PICK s \in [1..n -> Due] : HasRoom(n) /\ queue' = queue \o s /\ UNCHANGED processing
      BY <3>1
    <3>3. n \in Nat /\ Due \subseteq Payload
      BY AnalysisAssumption DEF TypeOK, Due, IsPartial
    <3>4. s \in Seq(Payload)
      BY <3>3, SeqDef
    <3>5. Len(s) = n
      BY <3>3, <3>4, LenProperties
    <3>6. Len(queue') = Len(queue) + n
      BY <1>0, <3>2, <3>4, <3>5, ConcatProperties DEF LaneTypeOK
    <3>7. Len(queue) + Cardinality(DOMAIN processing) + n =< MaxDepth
      BY <3>2 DEF HasRoom, Depth
    <3>8. Depth' = Len(queue') + Cardinality(DOMAIN processing)
      BY <3>2 DEF Depth
    <3> QED
      BY <1>0, <3>3, <3>6, <3>7, <3>8
  <2>3. ASSUME NEW r \in reviving, PushDlq(r)
        PROVE  Depth' =< MaxDepth
    <3>1. r.raw \in Payload
      BY DEF TypeOK, Revival
    <3>2. Len(queue') = Len(queue) + 1
      BY <1>0, <2>3, <3>1, PushProperties DEF PushDlq, LaneTypeOK
    <3>3. Len(queue) + Cardinality(DOMAIN processing) + 1 =< MaxDepth
      BY <2>3 DEF PushDlq, HasRoom, Depth
    <3>4. Depth' = Len(queue') + Cardinality(DOMAIN processing)
      BY <2>3 DEF PushDlq, Depth
    <3> QED
      BY <1>0, <3>2, <3>3, <3>4
  <2>4. ASSUME \/ \E j \in Job : ReadDlq(j)
               \/ \E r \in reviving : RemoveDlq(r) \/ AbandonDlq(r)
        PROVE  Depth' =< Depth
    BY <1>0, <2>4 DEF ReadDlq, RemoveDlq, AbandonDlq, laneVars, Depth
  <2> QED
    BY <1>4, <2>1, <2>2, <2>3, <2>4 DEF ParkStep
<1>5. ASSUME PurgeStep
      PROVE  Depth' =< Depth
  <2>1. ASSUME NEW raw \in Payload, PurgeQueued(raw)
        PROVE  Depth' =< Depth
    <3>1. Len(queue') =< Len(queue) /\ queue' \in Seq(Payload)
      BY <1>0, <2>1, PurgeQueuedShortens DEF LaneTypeOK
    <3>2. Len(queue') \in Nat
      BY <3>1, LenProperties
    <3>3. UNCHANGED processing
      BY <2>1 DEF PurgeQueued
    <3> QED
      BY <1>0, <3>1, <3>2, <3>3 DEF Depth
  <2>2. ASSUME NEW raw \in Payload, NEW T, PurgeProcessing(raw, T)
        PROVE  Depth' =< Depth
    <3>1. DOMAIN processing' \subseteq DOMAIN processing
      BY <2>2 DEF PurgeProcessing, Without, Restrict
    <3>2. /\ Cardinality(DOMAIN processing') =< Cardinality(DOMAIN processing)
          /\ IsFiniteSet(DOMAIN processing')
      BY <1>0, <3>1, TokensAreFinite, FS_Subset
    <3>3. Cardinality(DOMAIN processing') \in Nat
      BY <3>2, FS_CardinalityType
    <3> QED
      BY <1>0, <2>2, <3>2, <3>3 DEF PurgeProcessing, Depth
  <2>3. ASSUME \/ \E raw \in Payload : PurgeRetry(raw)
               \/ \E t \in purging : PurgeLease(t)
               \/ \E j \in Job : PurgeDlq(j)
        PROVE  Depth' =< Depth
    <3>1. UNCHANGED <<queue, processing>>
      BY <2>3 DEF PurgeRetry, PurgeLease, PurgeDlq, laneVars
    <3> QED
      BY <1>0, <3>1 DEF Depth
  <2> QED
    BY <1>5, <2>1, <2>2, <2>3 DEF PurgeStep
<1>6. CASE UNCHANGED vars
    BY <1>0, <1>6 DEF vars, laneVars, Depth, DepthBounded
<1> QED
    BY <1>0, <1>1, <1>2, <1>4, <1>5, <1>6 DEF Next, DepthBounded

-----------------------------------------------------------------------------
(* Leases *)

\* A lane's step grants new tokens only, and leaves the payload and the worker of
\* the leases it keeps.
LEMMA LaneStepLeases ==
    ASSUME LaneTypeOK, LaneStep \/ \E h \in reaping : DropExpired(h), NEW t \in DOMAIN lease'
    PROVE  IF t \in DOMAIN lease
           THEN lease'[t].raw = lease[t].raw /\ lease'[t].worker = lease[t].worker
           ELSE t > leaseSeq
<1> DEFINE Kept(u) == IF u \in DOMAIN lease
                      THEN lease'[u].raw = lease[u].raw /\ lease'[u].worker = lease[u].worker
                      ELSE u > leaseSeq
<1>1. leaseSeq \in Nat
    BY TokensAreFinite
<1>2. ASSUME NEW w \in Worker, Dequeue(w)
      PROVE  Kept(t)
  <2>1. lease' = Extend(lease, leaseSeq + 1,
                        [raw |-> Head(queue), worker |-> w, leasedAt |-> now])
    BY <1>2 DEF Dequeue, NextToken
  <2>2. t \in DOMAIN lease => t # leaseSeq + 1
    BY <1>1, TokensAreFinite
  <2>3. CASE t \in DOMAIN lease
    BY <2>1, <2>2, <2>3 DEF Extend
  <2>4. CASE t \notin DOMAIN lease
    BY <1>1, <2>1, <2>4 DEF Extend
  <2> QED
    BY <2>3, <2>4
<1>3. ASSUME NEW u \in DOMAIN lease, NEW w \in Worker, Renew(u, w)
      PROVE  Kept(t)
  <2>1. lease' = [lease EXCEPT ![u].leasedAt = now] /\ lease[u] \in LeaseRecord
    BY <1>3 DEF Renew, LaneTypeOK, IsPartial
  <2> QED
    BY <2>1 DEF LeaseRecord
<1>4. ASSUME NEW u \in DOMAIN lease, Release(u)
      PROVE  Kept(t)
    BY <1>4, ReleaseTakesOne
<1>5. ASSUME NEW u \in DOMAIN lease, NEW w \in Worker, Ack(u, w)
      PROVE  Kept(t)
    BY <1>4, <1>5 DEF Ack
<1>6. ASSUME NEW h \in reaping, RequeueExpired(h) \/ DropExpired(h)
      PROVE  Kept(t)
    BY <1>4, <1>6 DEF RequeueExpired, DropExpired, Current
<1>7. ASSUME UNCHANGED lease
      PROVE  Kept(t)
    BY <1>7
<1>8. ASSUME NEW h \in reaping, LeaveExpired(h)
      PROVE  Kept(t)
    BY <1>7, <1>8 DEF LeaveExpired
<1>9. ASSUME \/ \E raw \in Payload : Enqueue(raw)
             \/ ScanExpired \/ (\E u \in scanned : LoadScanned(u))
             \/ ReaperDies \/ Tick \/ PeerMoves
      PROVE  Kept(t)
    BY <1>7, <1>9 DEF Enqueue, ScanExpired, LoadScanned, ReaperDies, Tick, PeerMoves, laneVars
<1> QED
    BY <1>2, <1>3, <1>5, <1>6, <1>8, <1>9 DEF LaneStep

LEMMA StepKeepsLeases ==
    ASSUME TypeOK, Next, NEW t \in DOMAIN lease'
    PROVE  IF t \in DOMAIN lease
           THEN lease'[t].raw = lease[t].raw /\ lease'[t].worker = lease[t].worker
           ELSE t > leaseSeq
<1> DEFINE Same == t \in DOMAIN lease /\ lease'[t] = lease[t]
<1>1. LaneTypeOK
    BY DEF TypeOK
<1>2. ASSUME NEW u \in DOMAIN lease, Release(u)
      PROVE  Same
    BY <1>1, <1>2, ReleaseTakesOne
<1>3. CASE ParkStep
  <2>1. ASSUME NEW u \in DOMAIN lease, NEW w, NEW s, NEW due,
               ScheduleRetry(u, w, s, due) \/ MoveToDlq(u, w, s)
        PROVE  Same
    BY <1>2, <2>1 DEF ScheduleRetry, MoveToDlq
  <2>2. ASSUME \/ PromoteRetries \/ \E j \in Job : ReadDlq(j)
               \/ \E r \in reviving : PushDlq(r) \/ RemoveDlq(r) \/ AbandonDlq(r)
        PROVE  UNCHANGED lease
    BY <2>2 DEF PromoteRetries, ReadDlq, PushDlq, RemoveDlq, AbandonDlq, laneVars
  <2> QED
    BY <1>3, <2>1, <2>2 DEF ParkStep
<1>4. CASE PurgeStep
  <2>1. ASSUME NEW u \in purging, PurgeLease(u)
        PROVE  Same
    BY <2>1 DEF PurgeLease, Without, Restrict
  <2>2. ASSUME \/ \E raw \in Payload : PurgeQueued(raw) \/ PurgeRetry(raw)
               \/ \E raw \in Payload, T \in {{}} \cup {{u} : u \in DOMAIN lease} :
                     PurgeProcessing(raw, T)
               \/ \E j \in Job : PurgeDlq(j)
        PROVE  UNCHANGED lease
    BY <2>2 DEF PurgeQueued, PurgeRetry, PurgeProcessing, PurgeDlq, laneVars
  <2> QED
    BY <1>4, <2>1, <2>2 DEF PurgeStep
<1>5. CASE LaneStep \/ \E h \in reaping : DropExpired(h)
    BY <1>1, <1>5, LaneStepLeases
<1> QED
    BY <1>3, <1>4, <1>5 DEF Next

-----------------------------------------------------------------------------
LEMMA InvInitially == Init => Inv
<1> SUFFICES ASSUME Init PROVE Inv
    OBVIOUS
<1>1. Depth = 0
    BY FS_EmptySet, EmptySeq DEF Init, LaneInit, Depth
<1>2. ASSUME NEW raw \in Payload
      PROVE  Recoverable(raw)
  <2>1. Entries(raw) = {} /\ LeasesOf(raw) \ purging = {}
    BY DEF Init, LaneInit, Entries, LeasesOf
  <2> QED
    BY <2>1, FS_EmptySet DEF Recoverable
<1> QED
    BY <1>1, <1>2, TypesInitially, LaneAssumption DEF Inv, DepthBounded

LEMMA InvPreserved == Inv /\ [Next]_vars => Inv'
<1> SUFFICES ASSUME Inv, [Next]_vars PROVE Inv'
    OBVIOUS
<1>1. TypeOK'
    BY TypesPreserved DEF Inv
<1>2. ASSUME NEW raw \in Payload
      PROVE  Recoverable(raw)'
    BY <1>2, RecoverablePreserved DEF Inv
<1>3. DepthBounded'
    BY <1>1, DepthPreserved DEF Inv
<1> QED
    BY <1>1, <1>2, <1>3 DEF Inv

\* The analysis lane's keys always hold what worker/queue.py can put there.
THEOREM AnalysisTypes == Spec => []TypeOK
    BY TypesInitially, TypesPreserved, PTL DEF Spec

\* No entry of the processing list is ever left without a lease that could
\* expire and be reaped, purges from stale snapshots included.
THEOREM AnalysisRecoverable == Spec => []ProcessingRecoverable
<1>1. Inv => ProcessingRecoverable
  <2> SUFFICES ASSUME Inv, NEW raw \in Payload
               PROVE  Cardinality(Entries(raw)) =< Cardinality(LeasesOf(raw))
      BY DEF ProcessingRecoverable
  <2>1. IsFiniteSet(LeasesOf(raw)) /\ IsFiniteSet(Entries(raw))
      BY TokensAreFinite DEF Inv, TypeOK
  <2>2. Cardinality(LeasesOf(raw) \ purging) =< Cardinality(LeasesOf(raw))
      BY <2>1, FS_Subset
  <2>3. /\ Cardinality(LeasesOf(raw) \ purging) \in Nat /\ Cardinality(LeasesOf(raw)) \in Nat
        /\ Cardinality(Entries(raw)) \in Nat
      BY <2>1, FS_Subset, FS_CardinalityType
  <2> QED
      BY <2>2, <2>3 DEF Inv, Recoverable
<1> QED
    BY <1>1, InvInitially, InvPreserved, PTL DEF Spec

\* The guard of the lane's scripts keeps its depth to max_depth, but for one
\* payload: requeueing a lease whose entry was purged adds to a full lane.
THEOREM AnalysisDepth == Spec => []DepthBounded
<1>1. Inv => DepthBounded
    BY DEF Inv
<1> QED
    BY <1>1, InvInitially, InvPreserved, PTL DEF Spec

\* A token is never granted again, and the lease under it never changes hands
\* or payloads: what a task or a reaper has in hand is about the lease it read.
THEOREM AnalysisLeases == Spec => LeaseIdentity
<1>1. TypeOK /\ [Next]_vars =>
        [\A t \in DOMAIN lease' :
            IF t \in DOMAIN lease
            THEN lease'[t].raw = lease[t].raw /\ lease'[t].worker = lease[t].worker
            ELSE t > leaseSeq]_vars
    BY StepKeepsLeases
<1> QED
    BY <1>1, AnalysisTypes, PTL DEF Spec, LeaseIdentity
=============================================================================
