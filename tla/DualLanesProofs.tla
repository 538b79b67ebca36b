--------------------------- MODULE DualLanesProofs ---------------------------
(***************************************************************************)
(* Theorems about the two lanes side by side, for any payloads, workers    *)
(* and limits.  That the lanes keep the limits they share is inductive as  *)
(* it stands, once the lists are known to be lists: each script that adds  *)
(* to a list has just read the length of the other lane's.  It is also why *)
(* each lane is a neighbour to the other that stays within PeerBound, and  *)
(* so why each still behaves as its own specification says.                *)
(***************************************************************************)
EXTENDS DualLanes, FiniteSetTheorems, SequenceTheorems, TLAPS

IsSequence(q) == \E S : q \in Seq(S)

Lists ==
    /\ IsSequence(queue) /\ IsSequence(hQueue)
    /\ IsFiniteSet(DOMAIN processing) /\ IsFiniteSet(DOMAIN hProcessing)

IInv == Lists /\ LimitsShared

LEMMA LimitsAreNumbers ==
    /\ {MaxConcurrent, MaxGlobalQueued, PeerBound, PromoteLimit} \subseteq Nat
    /\ MaxConcurrent =< PeerBound /\ MaxGlobalQueued =< PeerBound
    BY LanesAssumption

-----------------------------------------------------------------------------
(* Lists *)

LEMMA LengthsAreNumbers ==
    /\ \A q : IsSequence(q) => Len(q) \in Nat
    /\ \A S : IsFiniteSet(S) => Cardinality(S) \in Nat
    BY LenProperties, FS_CardinalityType DEF IsSequence

\* A push at either end makes a list one longer.
LEMMA PushedList ==
    ASSUME NEW q, NEW x, IsSequence(q)
    PROVE  /\ IsSequence(Append(q, x)) /\ Len(Append(q, x)) = Len(q) + 1
           /\ IsSequence(<<x>> \o q) /\ Len(<<x>> \o q) = Len(q) + 1
<1>1. PICK S : q \in Seq(S)
    BY DEF IsSequence
<1> DEFINE T == S \cup {x}
<1>2. q \in Seq(T) /\ x \in T /\ <<x>> \in Seq(T) /\ Len(<<x>>) = 1
    BY <1>1
<1>3. /\ Append(q, x) \in Seq(T) /\ Len(Append(q, x)) = Len(q) + 1
      /\ <<x>> \o q \in Seq(T) /\ Len(<<x>> \o q) = Len(q) + 1
    BY <1>2, AppendProperties, ConcatProperties, LenProperties
<1> QED
    BY <1>3 DEF IsSequence

LEMMA PoppedList ==
    ASSUME NEW q, IsSequence(q), q # <<>>
    PROVE  IsSequence(Tail(q)) /\ Len(Tail(q)) =< Len(q)
<1>1. PICK S : q \in Seq(S)
    BY DEF IsSequence
<1>2. Tail(q) \in Seq(S) /\ Len(Tail(q)) = Len(q) - 1 /\ Len(q) \in Nat
    BY <1>1, HeadTailProperties, LenProperties
<1> QED
    BY <1>2 DEF IsSequence

\* A set of tokens with one more, or with fewer.
LEMMA OneMore ==
    ASSUME NEW S, NEW x, IsFiniteSet(S)
    PROVE  IsFiniteSet(S \cup {x}) /\ Cardinality(S \cup {x}) =< Cardinality(S) + 1
<1> DEFINE n == Cardinality(S)
           m == Cardinality(S \cup {x})
<1>1. IsFiniteSet(S \cup {x}) /\ m = IF x \in S THEN n ELSE n + 1
    BY FS_AddElement
<1>2. n \in Nat
    BY FS_CardinalityType
<1> HIDE DEF n, m
<1>3. m =< n + 1
    BY <1>1, <1>2
<1> QED
    BY <1>1, <1>3 DEF n, m

LEMMA Fewer ==
    ASSUME NEW S, NEW T, IsFiniteSet(S), T \subseteq S
    PROVE  IsFiniteSet(T) /\ Cardinality(T) =< Cardinality(S)
    BY FS_Subset

-----------------------------------------------------------------------------
(* What a step of the analysis lane does to the lengths of its lists: one    *)
(* grows only up to what the other lane leaves of the limit.                 *)

Moves(q, q1, p, p1, peerQ, peerP) ==
    /\ IsSequence(q1) /\ IsFiniteSet(DOMAIN p1)
    /\ Len(q1) =< Len(q) \/ Len(q1) + Len(peerQ) =< MaxGlobalQueued
    /\ \/ Cardinality(DOMAIN p1) =< Cardinality(DOMAIN p)
       \/ Cardinality(DOMAIN p1) + Cardinality(DOMAIN peerP) =< MaxConcurrent

AnalysisMoves == Moves(queue, queue', processing, processing', hQueue, hProcessing)
HeavyMoves == Moves(hQueue, hQueue', hProcessing, hProcessing', queue, processing)

LEMMA SameListsMove ==
    ASSUME NEW q, NEW p, NEW peerQ, NEW peerP, IsSequence(q), IsFiniteSet(DOMAIN p)
    PROVE  Moves(q, q, p, p, peerQ, peerP)
    BY LengthsAreNumbers DEF Moves

\* A release or a purge: processing entries go, none comes.
LEMMA ShorterListsMove ==
    ASSUME NEW q, NEW q1, NEW p, NEW p1, NEW peerQ, NEW peerP,
           IsFiniteSet(DOMAIN p), DOMAIN p1 \subseteq DOMAIN p,
           IsSequence(q1),
           Len(q1) =< Len(q) \/ Len(q1) + Len(peerQ) =< MaxGlobalQueued
    PROVE  Moves(q, q1, p, p1, peerQ, peerP)
    BY Fewer DEF Moves

\* The lengths as the scripts read them.
LEMMA SameLengths ==
    /\ A!GlobalQueued = Len(queue) + Len(hQueue)
    /\ H!GlobalQueued = Len(hQueue) + Len(queue)
    /\ \A S : A!Cardinality(S) = Cardinality(S) /\ H!Cardinality(S) = Cardinality(S)
    BY DEF A!GlobalQueued, H!GlobalQueued, A!Cardinality, H!Cardinality, Cardinality

\* What LREM 0 leaves of a queue is a queue, and no longer.
LEMMA PurgedList ==
    ASSUME IsSequence(queue), NEW raw, A!PurgeQueued(raw)
    PROVE  IsSequence(queue') /\ Len(queue') =< Len(queue)
<1> DEFINE kept == {i \in DOMAIN queue : queue[i] # raw}
           n == Cardinality(kept)
<1>1. PICK S : queue \in Seq(S)
    BY DEF IsSequence
<1>2. Len(queue) \in Nat /\ DOMAIN queue = 1..Len(queue) /\ \A i \in DOMAIN queue : queue[i] \in S
    BY <1>1, LenProperties
<1>3. IsFiniteSet(1..Len(queue)) /\ Cardinality(1..Len(queue)) = Len(queue)
    BY <1>2, FS_Interval
<1>4. kept \subseteq 1..Len(queue)
    BY <1>2
<1>5. n \in Nat /\ n =< Len(queue)
    BY <1>3, <1>4, FS_Subset, FS_CardinalityType
<1>6. PICK place \in [1..n -> kept] : queue' = [i \in 1..n |-> queue[place[i]]]
    BY SameLengths DEF A!PurgeQueued
<1>7. queue' \in [1..n -> S]
    BY <1>2, <1>4, <1>6
<1>8. queue' \in Seq(S) /\ Len(queue') = n
    BY <1>5, <1>7, SeqDef, LenProperties
<1> QED
    BY <1>5, <1>8 DEF IsSequence

\* The promotion script appends what is due, after it has found room for it.
LEMMA PromotedList ==
    ASSUME IsSequence(queue), A!PromoteRetries
    PROVE  IsSequence(queue') /\ Len(queue') + Len(hQueue) =< MaxGlobalQueued
<1>1. PICK S : queue \in Seq(S)
    BY DEF IsSequence
<1>2. PICK n \in 1..PromoteLimit : \E s \in [1..n -> A!Due] : A!HasRoom(n) /\ queue' = queue \o s
    BY DEF A!PromoteRetries
<1>3. PICK s \in [1..n -> A!Due] : A!HasRoom(n) /\ queue' = queue \o s
    BY <1>2
<1> DEFINE T == S \cup A!Due
<1>4. n \in Nat
    BY LimitsAreNumbers
<1>5. s \in [1..n -> T]
    OBVIOUS
<1>6. s \in Seq(T) /\ Len(s) = n
    BY <1>4, <1>5, SeqDef, LenProperties
<1>7. queue \in Seq(T)
    BY <1>1
<1>8. queue \o s \in Seq(T) /\ Len(queue \o s) = Len(queue) + Len(s)
    BY <1>6, <1>7, ConcatProperties
<1>9. Len(queue) + Len(hQueue) + n =< MaxGlobalQueued
    BY <1>3, SameLengths DEF A!HasRoom
<1>10. Len(queue) \in Nat
    BY LengthsAreNumbers
<1>11. IsSequence(queue')
    BY <1>3, <1>8 DEF IsSequence
<1> QED
    BY <1>3, <1>6, <1>8, <1>9, <1>10, <1>11

LEMMA AnalysisStepMoves ==
    ASSUME Lists, A!Next
    PROVE  AnalysisMoves
<1> USE DEF AnalysisMoves
<1>0. /\ IsSequence(queue) /\ IsFiniteSet(DOMAIN processing)
      /\ Len(queue) \in Nat /\ Len(hQueue) \in Nat
    BY LengthsAreNumbers DEF Lists
<1>1. ASSUME UNCHANGED <<queue, processing>>
      PROVE  AnalysisMoves
    BY <1>0, <1>1, SameListsMove
<1>2. ASSUME DOMAIN processing' \subseteq DOMAIN processing, IsSequence(queue'),
             \/ Len(queue') =< Len(queue) \/ Len(queue') + Len(hQueue) =< MaxGlobalQueued
      PROVE  AnalysisMoves
    BY <1>0, <1>2, ShorterListsMove
<1>3. ASSUME NEW raw, NEW critical, queue' = A!Push(raw, critical), processing' = processing,
             A!HasRoom(1)
      PROVE  AnalysisMoves
  <2>1. IsSequence(queue') /\ Len(queue') = Len(queue) + 1
    BY <1>0, <1>3, PushedList DEF A!Push
  <2> QED
    BY <1>0, <1>2, <1>3, <2>1, SameLengths DEF A!HasRoom
<1>4. ASSUME NEW t, A!Release(t)
      PROVE  DOMAIN processing' \subseteq DOMAIN processing
    BY <1>4 DEF A!Release, A!LremFirst, A!Without, A!Restrict
<1>5. ASSUME NEW t, A!Release(t), queue' = queue
      PROVE  AnalysisMoves
    BY <1>0, <1>2, <1>4, <1>5
<1>6. ASSUME NEW w, A!Dequeue(w)
      PROVE  AnalysisMoves
  <2>1. DOMAIN processing' = DOMAIN processing \cup {A!NextToken}
    BY <1>6 DEF A!Dequeue, A!Extend
  <2>2. /\ IsFiniteSet(DOMAIN processing')
        /\ Cardinality(DOMAIN processing') =< Cardinality(DOMAIN processing) + 1
    BY <1>0, <2>1, OneMore
  <2>3. Cardinality(DOMAIN processing) + Cardinality(DOMAIN hProcessing) < MaxConcurrent
    BY <1>6, SameLengths DEF A!Dequeue, A!HasSlot
  <2>4. /\ Cardinality(DOMAIN processing) \in Nat /\ Cardinality(DOMAIN processing') \in Nat
        /\ Cardinality(DOMAIN hProcessing) \in Nat
    BY <1>0, <2>2, LengthsAreNumbers DEF Lists
  <2>5. IsSequence(queue') /\ Len(queue') =< Len(queue)
    BY <1>0, <1>6, PoppedList DEF A!Dequeue
  <2> QED
    BY <2>2, <2>3, <2>4, <2>5, LimitsAreNumbers DEF Moves
<1>7. ASSUME NEW h, A!RequeueExpired(h)
      PROVE  AnalysisMoves
  <2>1. /\ \E critical : queue' = A!Push(lease[h.token].raw, critical)
        /\ A!Release(h.token)
        /\ Len(queue) + Len(hQueue) + 1 =< MaxGlobalQueued
    BY <1>7, SameLengths DEF A!RequeueExpired, A!RequeueFits
  <2>2. IsSequence(queue') /\ Len(queue') = Len(queue) + 1
    BY <1>0, <2>1, PushedList DEF A!Push
  <2> QED
    BY <1>0, <1>2, <1>4, <2>1, <2>2
<1>8. ASSUME NEW raw, A!PurgeQueued(raw)
      PROVE  AnalysisMoves
  <2>1. processing' = processing
    BY <1>8 DEF A!PurgeQueued
  <2> QED
    BY <1>0, <1>2, <1>8, <2>1, PurgedList
<1>9. ASSUME A!PromoteRetries
      PROVE  AnalysisMoves
  <2>1. processing' = processing
    BY <1>9 DEF A!PromoteRetries
  <2> QED
    BY <1>0, <1>2, <1>9, <2>1, PromotedList
<1>10. ASSUME NEW raw, NEW T, A!PurgeProcessing(raw, T)
       PROVE  AnalysisMoves
  <2>1. DOMAIN processing' \subseteq DOMAIN processing /\ queue' = queue
    BY <1>10 DEF A!PurgeProcessing, A!Without, A!Restrict
  <2> QED
    BY <1>0, <1>2, <2>1
<1>11. CASE A!LaneStep
  <2>1. CASE \E raw \in Payload : A!Enqueue(raw)
    BY <1>3, <2>1 DEF A!Enqueue
  <2>2. CASE \E t, w : A!Ack(t, w)
    BY <1>5, <2>2 DEF A!Ack
  <2>3. CASE \/ \E t, w : A!Renew(t, w)
             \/ A!ScanExpired \/ A!ReaperDies \/ A!Tick \/ A!PeerMoves
             \/ \E t : A!LoadScanned(t)
             \/ \E h : A!LeaveExpired(h)
    BY <1>1, <2>3 DEF A!Renew, A!ScanExpired, A!ReaperDies, A!Tick, A!PeerMoves, A!laneVars,
                      A!LoadScanned, A!LeaveExpired
  <2> QED
    BY <1>6, <1>7, <1>11, <2>1, <2>2, <2>3 DEF A!LaneStep
<1>12. CASE \E h : A!DropExpired(h)
    BY <1>5, <1>12 DEF A!DropExpired
<1>13. CASE A!ParkStep
  <2>1. CASE \E t, w, s, due : A!ScheduleRetry(t, w, s, due)
    BY <1>5, <2>1 DEF A!ScheduleRetry
  <2>2. CASE \E t, w, s : A!MoveToDlq(t, w, s)
    BY <1>5, <2>2 DEF A!MoveToDlq
  <2>3. CASE \E r : A!PushDlq(r)
    BY <1>3, <2>3 DEF A!PushDlq
  <2>4. CASE \/ \E j : A!ReadDlq(j)
             \/ \E r : A!RemoveDlq(r) \/ A!AbandonDlq(r)
    BY <1>1, <2>4 DEF A!ReadDlq, A!RemoveDlq, A!AbandonDlq, A!laneVars
  <2> QED
    BY <1>9, <1>13, <2>1, <2>2, <2>3, <2>4 DEF A!ParkStep
<1>14. CASE A!PurgeStep
  <2>1. CASE \/ \E raw : A!PurgeRetry(raw) \/ A!PurgeDlq(raw)
             \/ \E t : A!PurgeLease(t)
    BY <1>1, <2>1 DEF A!PurgeRetry, A!PurgeDlq, A!PurgeLease, A!laneVars
  <2> QED
    BY <1>8, <1>10, <1>14, <2>1 DEF A!PurgeStep
<1> QED
    BY <1>11, <1>12, <1>13, <1>14 DEF A!Next

LEMMA HeavyStepMoves ==
    ASSUME Lists, H!Next
    PROVE  HeavyMoves
<1> USE DEF HeavyMoves
<1>0. /\ IsSequence(hQueue) /\ IsFiniteSet(DOMAIN hProcessing)
      /\ Len(queue) \in Nat /\ Len(hQueue) \in Nat
    BY LengthsAreNumbers DEF Lists
<1>1. ASSUME UNCHANGED <<hQueue, hProcessing>>
      PROVE  HeavyMoves
    BY <1>0, <1>1, SameListsMove
<1>2. ASSUME DOMAIN hProcessing' \subseteq DOMAIN hProcessing, IsSequence(hQueue'),
             \/ Len(hQueue') =< Len(hQueue) \/ Len(hQueue') + Len(queue) =< MaxGlobalQueued
      PROVE  HeavyMoves
    BY <1>0, <1>2, ShorterListsMove
<1>3. ASSUME NEW raw, H!Enqueue(raw)
      PROVE  HeavyMoves
  <2>1. /\ \E critical : hQueue' = H!Push(raw, critical)
        /\ hProcessing' = hProcessing
        /\ Len(hQueue) + Len(queue) + 1 =< MaxGlobalQueued
    BY <1>3, SameLengths DEF H!Enqueue, H!HasRoom
  <2>2. IsSequence(hQueue') /\ Len(hQueue') = Len(hQueue) + 1
    BY <1>0, <2>1, PushedList DEF H!Push
  <2> QED
    BY <1>0, <1>2, <2>1, <2>2
<1>4. ASSUME NEW t, H!Release(t)
      PROVE  DOMAIN hProcessing' \subseteq DOMAIN hProcessing
    BY <1>4 DEF H!Release, H!LremFirst, H!Without, H!Restrict
<1>5. ASSUME NEW t, NEW w, H!Ack(t, w)
      PROVE  HeavyMoves
    BY <1>0, <1>2, <1>4, <1>5 DEF H!Ack
<1>6. ASSUME NEW w, H!Dequeue(w)
      PROVE  HeavyMoves
  <2>1. DOMAIN hProcessing' = DOMAIN hProcessing \cup {H!NextToken}
    BY <1>6 DEF H!Dequeue, H!Extend
  <2>2. /\ IsFiniteSet(DOMAIN hProcessing')
        /\ Cardinality(DOMAIN hProcessing') =< Cardinality(DOMAIN hProcessing) + 1
    BY <1>0, <2>1, OneMore
  <2>3. Cardinality(DOMAIN hProcessing) + Cardinality(DOMAIN processing) < MaxConcurrent
    BY <1>6, SameLengths DEF H!Dequeue, H!HasSlot
  <2>4. /\ Cardinality(DOMAIN hProcessing) \in Nat /\ Cardinality(DOMAIN hProcessing') \in Nat
        /\ Cardinality(DOMAIN processing) \in Nat
    BY <1>0, <2>2, LengthsAreNumbers DEF Lists
  <2>5. IsSequence(hQueue') /\ Len(hQueue') =< Len(hQueue)
    BY <1>0, <1>6, PoppedList DEF H!Dequeue
  <2> QED
    BY <2>2, <2>3, <2>4, <2>5, LimitsAreNumbers DEF Moves
<1>7. ASSUME NEW h, H!RequeueExpired(h)
      PROVE  HeavyMoves
  <2>1. /\ \E critical : hQueue' = H!Push(hLease[h.token].raw, critical)
        /\ H!Release(h.token)
        /\ Len(hQueue) + Len(queue) + 1 =< MaxGlobalQueued
    BY <1>7, SameLengths DEF H!RequeueExpired, H!RequeueFits
  <2>2. IsSequence(hQueue') /\ Len(hQueue') = Len(hQueue) + 1
    BY <1>0, <2>1, PushedList DEF H!Push
  <2> QED
    BY <1>0, <1>2, <1>4, <2>1, <2>2
<1>8. CASE \/ \E t, w : H!Renew(t, w)
           \/ H!ScanExpired \/ H!ReaperDies \/ H!Tick \/ H!PeerMoves
           \/ \E t : H!LoadScanned(t)
           \/ \E h : H!LeaveExpired(h)
    BY <1>1, <1>8 DEF H!Renew, H!ScanExpired, H!ReaperDies, H!Tick, H!PeerMoves, H!laneVars,
                      H!LoadScanned, H!LeaveExpired
<1> QED
    BY <1>3, <1>5, <1>6, <1>7, <1>8 DEF H!Next, H!LaneStep

-----------------------------------------------------------------------------
(* The limits *)

LEMMA IInvAtFirst == Init => IInv
<1> SUFFICES ASSUME Init PROVE IInv
    OBVIOUS
<1>1. queue = <<>> /\ hQueue = <<>> /\ processing = <<>> /\ hProcessing = <<>>
    BY DEF Init, A!Init, A!LaneInit
<1>2. DOMAIN processing = {} /\ DOMAIN hProcessing = {} /\ Len(queue) = 0 /\ Len(hQueue) = 0
    BY <1>1
<1>3. <<>> \in Seq({}) /\ IsFiniteSet({}) /\ Cardinality({}) = 0
    BY FS_EmptySet
<1>4. Lists
    BY <1>1, <1>2, <1>3 DEF Lists, IsSequence
<1> QED
    BY <1>2, <1>3, <1>4, LimitsAreNumbers DEF IInv, LimitsShared

\* One lane's list grows only within what the other leaves, and the other's
\* does not move meanwhile.
LEMMA LimitsKept ==
    ASSUME IInv,
           \/ AnalysisMoves /\ UNCHANGED <<hQueue, hProcessing>>
           \/ HeavyMoves /\ UNCHANGED <<queue, processing>>
    PROVE  IInv'
<1>1. /\ Len(queue) \in Nat /\ Len(hQueue) \in Nat
      /\ Cardinality(DOMAIN processing) \in Nat /\ Cardinality(DOMAIN hProcessing) \in Nat
    BY LengthsAreNumbers DEF IInv, Lists
<1>2. Lists'
    BY DEF IInv, Lists, AnalysisMoves, HeavyMoves, Moves, IsSequence
<1>3. /\ Len(queue') \in Nat /\ Len(hQueue') \in Nat
      /\ Cardinality(DOMAIN processing') \in Nat /\ Cardinality(DOMAIN hProcessing') \in Nat
  <2>1. /\ IsSequence(queue') /\ IsSequence(hQueue')
        /\ IsFiniteSet(DOMAIN processing') /\ IsFiniteSet(DOMAIN hProcessing')
    BY <1>2 DEF Lists, IsSequence
  <2> QED
    BY <2>1, LengthsAreNumbers
<1>4. CASE AnalysisMoves /\ UNCHANGED <<hQueue, hProcessing>>
  <2>1. Len(queue') + Len(hQueue) =< MaxGlobalQueued
    BY <1>1, <1>3, <1>4, LimitsAreNumbers DEF IInv, LimitsShared, AnalysisMoves, Moves
  <2>2. Cardinality(DOMAIN processing') + Cardinality(DOMAIN hProcessing) =< MaxConcurrent
    BY <1>1, <1>3, <1>4, LimitsAreNumbers DEF IInv, LimitsShared, AnalysisMoves, Moves
  <2> QED
    BY <1>2, <1>4, <2>1, <2>2 DEF IInv, LimitsShared
<1>5. CASE HeavyMoves /\ UNCHANGED <<queue, processing>>
  <2>1. Len(queue) + Len(hQueue') =< MaxGlobalQueued
    BY <1>1, <1>3, <1>5, LimitsAreNumbers DEF IInv, LimitsShared, HeavyMoves, Moves
  <2>2. Cardinality(DOMAIN processing) + Cardinality(DOMAIN hProcessing') =< MaxConcurrent
    BY <1>1, <1>3, <1>5, LimitsAreNumbers DEF IInv, LimitsShared, HeavyMoves, Moves
  <2> QED
    BY <1>2, <1>5, <2>1, <2>2 DEF IInv, LimitsShared
<1> QED
    BY <1>4, <1>5

LEMMA IInvKept == IInv /\ [Next]_vars => IInv'
<1> SUFFICES ASSUME IInv, [Next]_vars PROVE IInv'
    OBVIOUS
<1>1. CASE UNCHANGED heavyLane /\ A!Next
    BY <1>1, AnalysisStepMoves, LimitsKept DEF IInv, heavyLane
<1>2. CASE UNCHANGED analysisLane /\ H!Next
    BY <1>2, HeavyStepMoves, LimitsKept DEF IInv, analysisLane
<1>3. CASE UNCHANGED vars
    BY <1>3 DEF IInv, Lists, LimitsShared, IsSequence, vars, analysisLane, heavyLane
<1> QED
    BY <1>1, <1>2, <1>3 DEF Next

LEMMA Invariance == Spec => []IInv
    BY IInvAtFirst, IInvKept, PTL DEF Spec

\* Whichever lane's workers poll, and whatever is enqueued, requeued, promoted,
\* revived or purged, no more payloads are leased in both lanes together than
\* max_concurrent_jobs, and no more wait than max_global_queued.
THEOREM LimitsHoldAcrossLanes == Spec => []LimitsShared
<1>1. IInv => LimitsShared
    BY DEF IInv
<1> QED
    BY <1>1, Invariance, PTL

-----------------------------------------------------------------------------
(* Each lane to itself *)

\* The lengths of the other lane's lists are within what it may reach.
PeersBounded ==
    /\ Len(queue) \in 0..PeerBound /\ Len(hQueue) \in 0..PeerBound
    /\ Cardinality(DOMAIN processing) \in 0..PeerBound
    /\ Cardinality(DOMAIN hProcessing) \in 0..PeerBound

LEMMA PeersAreBounded == IInv => PeersBounded
<1> SUFFICES ASSUME IInv PROVE PeersBounded
    OBVIOUS
<1>1. /\ Len(queue) \in Nat /\ Len(hQueue) \in Nat
      /\ Cardinality(DOMAIN processing) \in Nat /\ Cardinality(DOMAIN hProcessing) \in Nat
    BY LengthsAreNumbers DEF IInv, Lists
<1>2. /\ Len(queue) =< PeerBound /\ Len(hQueue) =< PeerBound
      /\ Cardinality(DOMAIN processing) =< PeerBound /\ Cardinality(DOMAIN hProcessing) =< PeerBound
    BY <1>1, LimitsAreNumbers DEF IInv, LimitsShared
<1> QED
    BY <1>1, <1>2, LimitsAreNumbers DEF PeersBounded

LEMMA PeersStayBounded == IInv' => PeersBounded'
    BY PeersAreBounded, PTL

\* To the heavy lane a step of the analysis lane is a tick or a peer's move.
LEMMA AnalysisStepToHeavy ==
    ASSUME IInv', UNCHANGED heavyLane, A!Next
    PROVE  H!Next
<1> USE DEF H!Next, H!LaneStep
<1>1. CASE now' = now
    BY <1>1, PeersStayBounded, SameLengths DEF PeersBounded, H!PeerMoves, H!laneVars, heavyLane
<1>2. CASE now' # now
  <2>1. A!Tick
    BY <1>2 DEF A!Next, A!LaneStep, A!Enqueue, A!Dequeue, A!Ack, A!Renew, A!ScanExpired,
                A!LoadScanned, A!RequeueExpired, A!LeaveExpired, A!ReaperDies, A!PeerMoves,
                A!DropExpired, A!ParkStep, A!ScheduleRetry, A!MoveToDlq, A!PromoteRetries,
                A!ReadDlq, A!PushDlq, A!RemoveDlq, A!AbandonDlq, A!PurgeStep, A!PurgeQueued,
                A!PurgeRetry, A!PurgeProcessing, A!PurgeLease, A!PurgeDlq, A!laneVars
  <2> QED
    BY <2>1 DEF A!Tick, H!Tick, H!reaperVars, H!peerVars, heavyLane
<1> QED
    BY <1>1, <1>2

LEMMA HeavyStepToAnalysis ==
    ASSUME IInv', UNCHANGED analysisLane, H!Next
    PROVE  A!Next
<1>1. CASE now' = now
  <2>1. A!PeerMoves /\ UNCHANGED A!parkVars
    BY <1>1, PeersStayBounded, SameLengths DEF PeersBounded, A!PeerMoves, A!laneVars, A!parkVars,
                                               analysisLane
  <2> QED
    BY <2>1 DEF A!Next, A!LaneStep
<1>2. CASE now' # now
  <2>1. H!Tick
    BY <1>2 DEF H!Next, H!LaneStep, H!Enqueue, H!Dequeue, H!Ack, H!Renew, H!ScanExpired,
                H!LoadScanned, H!RequeueExpired, H!LeaveExpired, H!ReaperDies, H!PeerMoves,
                H!laneVars
  <2>2. A!Tick /\ UNCHANGED A!parkVars
    BY <2>1 DEF H!Tick, A!Tick, A!reaperVars, A!peerVars, A!parkVars, analysisLane
  <2> QED
    BY <2>2 DEF A!Next, A!LaneStep
<1> QED
    BY <1>1, <1>2

\* Side by side on one Redis, each lane behaves as it does next to any lane
\* whose lengths stay within PeerBound, so what is proved of a lane alone
\* holds of it here.
THEOREM EachLaneKeepsItsSpec == Spec => EachLaneSpec
<1>1. Init => A!Init /\ H!Init
    BY DEF Init
<1>2. IInv' /\ [Next]_vars => [A!Next]_(A!vars) /\ [H!Next]_(H!vars)
  <2> SUFFICES ASSUME IInv', [Next]_vars
               PROVE  (A!Next \/ UNCHANGED A!vars) /\ (H!Next \/ UNCHANGED H!vars)
      OBVIOUS
  <2>1. CASE Next
    BY <2>1, AnalysisStepToHeavy, HeavyStepToAnalysis DEF Next
  <2>2. CASE UNCHANGED vars
    BY <2>2, SameLengths DEF vars, analysisLane, heavyLane, A!vars, A!laneVars, A!peerVars,
                             A!parkVars, A!reaperVars, H!vars, H!laneVars, H!peerVars, H!reaperVars
  <2> QED
    BY <2>1, <2>2
<1> QED
    BY <1>1, <1>2, Invariance, PTL DEF Spec, EachLaneSpec, A!Spec, H!Spec
=============================================================================
