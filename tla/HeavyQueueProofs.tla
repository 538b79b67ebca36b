-------------------------- MODULE HeavyQueueProofs --------------------------
(***************************************************************************)
(* Theorems about the heavy lane, for any payloads, workers and limits.    *)
(* Types are inductive by themselves; that leases and entries pair up is   *)
(* inductive with them; and the depth stays within max_depth because of    *)
(* the pairing, which has every requeue take an entry for the one it adds. *)
(*                                                                         *)
(* The copies of a payload are its positions in the queue and its leases.  *)
(* Lemmas say what a push at either end, a pop and a release make of the   *)
(* two counts; every script but the acknowledgement takes a copy only to   *)
(* put it elsewhere.                                                       *)
(***************************************************************************)
EXTENDS HeavyQueue, JobLaneProofs, FunctionTheorems

Inv == TypeOK /\ LeasesMatchProcessing /\ DepthWithinLimit

LEMMA InvInitially == Init => Inv
<1> SUFFICES ASSUME Init PROVE Inv
    OBVIOUS
<1>1. LaneTypeOK
    BY LaneInitTypes DEF Init
<1>2. ASSUME NEW raw
      PROVE  Entries(raw) = {} /\ LeasesOf(raw) = {}
    BY DEF Init, LaneInit, Entries, LeasesOf
<1>3. LeasesMatchProcessing
    BY <1>2 DEF LeasesMatchProcessing
<1>4. Depth = 0
    BY FS_EmptySet, EmptySeq DEF Init, LaneInit, Depth
<1> QED
    BY <1>1, <1>3, <1>4, LaneAssumption DEF Inv, TypeOK, DepthWithinLimit

\* Whatever a step does to the pairs of a payload, it leaves them pairs.
LEMMA PairsStayPairs ==
    ASSUME LaneTypeOK, NEW raw,
           Cardinality(Entries(raw)) = Cardinality(LeasesOf(raw)),
           Untouched(raw) \/ AddsPair(raw) \/ TakesPair(raw)
    PROVE  Cardinality(Entries(raw))' = Cardinality(LeasesOf(raw))'
<1>1. IsFiniteSet(Entries(raw)) /\ IsFiniteSet(LeasesOf(raw))
    BY TokensAreFinite
<1>2. CASE Untouched(raw)
    BY <1>2 DEF Untouched
<1>3. CASE AddsPair(raw)
  <2>1. Cardinality(Entries(raw)') = Cardinality(Entries(raw)) + 1
    BY <1>1, <1>3, FS_AddElement DEF AddsPair
  <2>2. Cardinality(LeasesOf(raw)') = Cardinality(LeasesOf(raw)) + 1
    BY <1>1, <1>3, FS_AddElement DEF AddsPair
  <2> QED
    BY <2>1, <2>2
<1>4. CASE TakesPair(raw)
  <2>1. PICK t \in LeasesOf(raw) : LeasesOf(raw)' = LeasesOf(raw) \ {t}
    BY <1>4 DEF TakesPair
  <2>2. Entries(raw) # {}
    BY <1>1, <2>1, FS_EmptySet
  <2>3. PICK u \in Entries(raw) : Entries(raw)' = Entries(raw) \ {u}
    BY <1>4, <2>2 DEF TakesPair
  <2> QED
    BY <1>1, <2>1, <2>3, FS_RemoveElement
<1> QED
    BY <1>2, <1>3, <1>4

LEMMA InvPreserved == Inv /\ [Next]_vars => Inv'
<1> SUFFICES ASSUME Inv, [Next]_vars PROVE Inv'
    OBVIOUS
<1>1. CASE Next
  <2>1. LaneTypeOK /\ LaneStep
    BY <1>1 DEF Inv, TypeOK, Next
  <2>2. LaneTypeOK'
    BY <2>1, LaneStepTypes
  <2>3. ASSUME NEW raw \in Payload
        PROVE  Cardinality(Entries(raw))' = Cardinality(LeasesOf(raw))'
    BY <2>1, LaneStepPairs, PairsStayPairs DEF Inv, LeasesMatchProcessing
  <2>4. LeasesMatchProcessing'
    BY <2>3 DEF LeasesMatchProcessing
  <2>5. ASSUME NEW t \in DOMAIN lease
        PROVE  Entries(lease[t].raw) # {}
    <3>1. lease[t].raw \in Payload /\ t \in LeasesOf(lease[t].raw)
      BY <2>1 DEF LaneTypeOK, IsPartial, LeaseRecord, LeasesOf
    <3>2. Cardinality(LeasesOf(lease[t].raw)) # 0
      BY <2>1, <3>1, TokensAreFinite, FS_EmptySet
    <3> QED
      BY <3>1, <3>2, FS_EmptySet DEF Inv, LeasesMatchProcessing
  <2>6. Depth' =< Depth \/ Depth' =< MaxDepth
    BY <2>1, <2>5, LaneStepDepth
  <2>7. Depth \in Nat /\ Depth' \in Nat
    BY <2>1, <2>2, DepthIsNatural, DepthStaysNatural
  <2>8. DepthWithinLimit'
    BY <2>6, <2>7, LaneAssumption DEF Inv, DepthWithinLimit
  <2> QED
    BY <2>2, <2>4, <2>8 DEF Inv, TypeOK
<1>2. CASE UNCHANGED vars
    BY <1>2 DEF Inv, TypeOK, LeasesMatchProcessing, DepthWithinLimit, vars, laneVars, peerVars,
                LaneTypeOK, Entries, LeasesOf, Depth
<1> QED
    BY <1>1, <1>2

\* The heavy lane's keys always hold what worker/heavy_queue.py can put there.
THEOREM HeavyTypes == Spec => []TypeOK
<1>1. Inv => TypeOK
    BY DEF Inv
<1> QED
    BY <1>1, InvInitially, InvPreserved, PTL DEF Spec

\* Nothing in processing is out of the reaper's reach, and no lease is without
\* its entry: heavy_queue.py's scripts make, move and delete both together.
THEOREM HeavyPairs == Spec => []LeasesMatchProcessing
<1>1. Inv => LeasesMatchProcessing
    BY DEF Inv
<1> QED
    BY <1>1, InvInitially, InvPreserved, PTL DEF Spec

\* The heavy lane never holds more than max_depth payloads, although a requeue
\* does not ask for room.
THEOREM HeavyDepth == Spec => []DepthWithinLimit
<1>1. Inv => DepthWithinLimit
    BY DEF Inv
<1> QED
    BY <1>1, InvInitially, InvPreserved, PTL DEF Spec

-----------------------------------------------------------------------------
(* Copies of a payload. *)

\* The positions of a payload in a queue.
Positions(q, raw) == {i \in DOMAIN q : q[i] = raw}

LEMMA PositionsFinite ==
    ASSUME NEW q \in Seq(Payload), NEW raw
    PROVE  IsFiniteSet(Positions(q, raw)) /\ Cardinality(Positions(q, raw)) \in Nat
<1>1. Positions(q, raw) \subseteq 1..Len(q) /\ Len(q) \in Nat
    BY DEF Positions
<1>2. IsFiniteSet(1..Len(q))
    BY <1>1, FS_Interval
<1>3. IsFiniteSet(Positions(q, raw))
  <2> DEFINE S == Positions(q, raw)
             T == 1..Len(q)
  <2>1. S \subseteq T /\ IsFiniteSet(T)
      BY <1>1, <1>2
  <2> HIDE DEF S, T
  <2>2. IsFiniteSet(S)
      BY <2>1, FS_Subset
  <2> QED
      BY <2>2 DEF S
<1> QED
    BY <1>3, FS_CardinalityType

\* A payload more at the end of a queue.
LEMMA AppendedCopies ==
    ASSUME NEW q \in Seq(Payload), NEW x \in Payload, NEW raw
    PROVE  Cardinality(Positions(Append(q, x), raw))
             = Cardinality(Positions(q, raw)) + (IF x = raw THEN 1 ELSE 0)
<1> DEFINE n == Len(q) + 1
<1>1. n \notin Positions(q, raw)
    BY DEF Positions
<1>2. CASE x = raw
  <2>1. Positions(Append(q, x), raw) = Positions(q, raw) \cup {n}
      BY <1>2 DEF Positions
  <2> HIDE DEF n
  <2> QED
      BY <1>1, <1>2, <2>1, PositionsFinite, FS_AddElement
<1>3. CASE x # raw
  <2>1. Positions(Append(q, x), raw) = Positions(q, raw)
      BY <1>3 DEF Positions
  <2> QED
      BY <1>3, <2>1, PositionsFinite
<1> QED
    BY <1>2, <1>3

\* A payload more at the head: the others are where they were, one further on.
LEMMA ShiftedCopies ==
    ASSUME NEW q \in Seq(Payload), NEW r \in Seq(Payload), Len(r) = Len(q) + 1,
           \A i \in 1..Len(q) : r[i + 1] = q[i], NEW raw
    PROVE  Cardinality(Positions(r, raw))
             = Cardinality(Positions(q, raw)) + (IF r[1] = raw THEN 1 ELSE 0)
<1> DEFINE S == Positions(q, raw)
           T == Positions(r, raw) \ {1}
           f == [i \in S |-> i + 1]
<1>1. Len(q) \in Nat /\ Len(r) \in Nat /\ DOMAIN q = 1..Len(q) /\ DOMAIN r = 1..Len(r)
    OBVIOUS
<1>2. f \in [S -> T]
    BY <1>1 DEF Positions
<1>3. \A a, b \in S : f[a] = f[b] => a = b
    BY <1>1 DEF Positions
<1>4. ASSUME NEW t \in T PROVE \E s \in S : f[s] = t
  <2>1. t - 1 \in S
      BY <1>1 DEF Positions
  <2>2. f[t - 1] = t
      BY <1>1, <2>1 DEF Positions
  <2> QED
      BY <2>1, <2>2
<1>5. f \in Bijection(S, T)
  <2> HIDE DEF f, S, T
  <2> QED
      BY <1>2, <1>3, <1>4, Fun_IsBij
<1>6. ExistsBijection(S, T)
    BY <1>5, Fun_ExistsBij
<1>7. Cardinality(T) = Cardinality(S) /\ IsFiniteSet(T) /\ Cardinality(S) \in Nat
    BY <1>6, PositionsFinite, FS_Bijection
<1>8. CASE r[1] = raw
  <2>1. Positions(r, raw) = T \cup {1} /\ 1 \notin T
      BY <1>1, <1>8 DEF Positions
  <2> HIDE DEF S, T
  <2>2. Cardinality(T \cup {1}) = Cardinality(T) + 1
      BY <1>7, <2>1, FS_AddElement
  <2> QED
      BY <1>7, <1>8, <2>1, <2>2 DEF S
<1>9. CASE r[1] # raw
  <2>1. Positions(r, raw) = T
      BY <1>9 DEF Positions
  <2> HIDE DEF T
  <2> QED
      BY <1>7, <1>9, <2>1
<1> QED
    BY <1>8, <1>9

\* A payload pushed at either end is one copy more of it.
LEMMA PushedCopies ==
    ASSUME LaneTypeOK, NEW x \in Payload, NEW critical, NEW raw
    PROVE  Cardinality(Positions(Push(x, critical), raw))
             = Cardinality(Positions(queue, raw)) + (IF x = raw THEN 1 ELSE 0)
<1>1. queue \in Seq(Payload)
    BY DEF LaneTypeOK
<1>2. CASE critical
  <2> DEFINE r == <<x>> \o queue
  <2>1. r \in Seq(Payload) /\ Len(r) = Len(queue) + 1 /\ r[1] = x /\ \A i \in 1..Len(queue) : r[i + 1] = queue[i]
      BY <1>1
  <2>2. Push(x, critical) = r
      BY <1>2 DEF Push
  <2> HIDE DEF r
  <2> QED
      BY <1>1, <2>1, <2>2, ShiftedCopies
<1>3. CASE ~ critical
    BY <1>1, <1>3, AppendedCopies DEF Push
<1> QED
    BY <1>2, <1>3

LEMMA CopiesAre ==
    /\ \A raw : Copies(raw) = Cardinality(Positions(queue, raw)) + Cardinality(LeasesOf(raw))
    /\ \A raw : Copies(raw)' = Cardinality(Positions(queue', raw)) + Cardinality(LeasesOf(raw)')
    BY DEF Copies, Positions

\* A release takes a lease of its payload and none of another.
LEMMA ReleasedLeases ==
    ASSUME LaneTypeOK, NEW t \in DOMAIN lease, Release(t), NEW raw
    PROVE  /\ Cardinality(LeasesOf(raw)) \in Nat
           /\ Cardinality(LeasesOf(raw)')
                = Cardinality(LeasesOf(raw)) - (IF lease[t].raw = raw THEN 1 ELSE 0)
<1>1. LeasesOf(raw)' = LeasesOf(raw) \ {t} /\ IsFiniteSet(LeasesOf(raw))
    BY ReleaseTakesOne, TokensAreFinite
<1>2. t \in LeasesOf(raw) <=> lease[t].raw = raw
    BY DEF LeasesOf
<1>3. Cardinality(LeasesOf(raw)) \in Nat
    BY <1>1, FS_CardinalityType
<1> DEFINE A == LeasesOf(raw)
<1>4. CASE t \in A
  <2>1. Cardinality(A \ {t}) = Cardinality(A) - 1
      BY <1>1, <1>4, FS_RemoveElement
  <2> QED
      BY <1>1, <1>2, <1>3, <1>4, <2>1
<1>5. CASE t \notin A
  <2>1. LeasesOf(raw)' = LeasesOf(raw)
      BY <1>1, <1>5
  <2> QED
      BY <1>2, <1>3, <1>5, <2>1
<1> QED
    BY <1>3, <1>4, <1>5

\* Copies of a payload fall only when one of its leases is acknowledged.
LEMMA StepKeepsCopies ==
    ASSUME LaneTypeOK, LaneStep, NEW raw \in Payload,
           ~ \E t \in LeasesOf(raw), w \in Worker : Ack(t, w)
    PROVE  ~ (Copies(raw)' < Copies(raw))
<1>0. /\ queue \in Seq(Payload) /\ Cardinality(Positions(queue, raw)) \in Nat
      /\ IsFiniteSet(LeasesOf(raw)) /\ Cardinality(LeasesOf(raw)) \in Nat
    BY PositionsFinite, TokensAreFinite, FS_CardinalityType DEF LaneTypeOK
<1>1. ASSUME UNCHANGED <<queue, lease>>
      PROVE  ~ (Copies(raw)' < Copies(raw))
  <2>1. queue' = queue /\ LeasesOf(raw)' = LeasesOf(raw)
      BY <1>1 DEF LeasesOf
  <2>2. Cardinality(Positions(queue', raw)) = Cardinality(Positions(queue, raw))
      BY <2>1
  <2> QED
      BY <1>0, <2>1, <2>2, CopiesAre
<1>2. ASSUME NEW x \in Payload, Enqueue(x)
      PROVE  ~ (Copies(raw)' < Copies(raw))
  <2>1. queue' = Push(x, x \in Critical) /\ LeasesOf(raw)' = LeasesOf(raw)
      BY <1>2 DEF Enqueue, LeasesOf
  <2>2. Cardinality(Positions(queue', raw)) = Cardinality(Positions(queue, raw)) + (IF x = raw THEN 1 ELSE 0)
      BY <2>1, PushedCopies
  <2> QED
      BY <1>0, <2>1, <2>2, CopiesAre
<1>3. ASSUME NEW w \in Worker, Dequeue(w)
      PROVE  ~ (Copies(raw)' < Copies(raw))
  <2>1. queue # <<>> /\ queue' = Tail(queue)
      BY <1>3 DEF Dequeue
  <2>2. /\ queue' \in Seq(Payload) /\ Len(queue) = Len(queue') + 1
        /\ queue[1] = Head(queue) /\ \A i \in 1..Len(queue') : queue[i + 1] = queue'[i]
      BY <1>0, <2>1
  <2>3. Cardinality(Positions(queue, raw))
          = Cardinality(Positions(queue', raw)) + (IF Head(queue) = raw THEN 1 ELSE 0)
      BY <1>0, <2>2, ShiftedCopies
  <2>4. Cardinality(Positions(queue', raw)) \in Nat
      BY <2>2, PositionsFinite
  <2>5. lease' = [u \in DOMAIN lease \cup {NextToken} |->
                     IF u = NextToken THEN [raw |-> Head(queue), worker |-> w, leasedAt |-> now]
                     ELSE lease[u]]
      BY <1>3 DEF Dequeue, Extend
  <2>6. NextToken \notin DOMAIN lease
      BY LaneAssumption DEF LaneTypeOK, NextToken
  <2>7. CASE Head(queue) = raw
    <3>1. LeasesOf(raw)' = LeasesOf(raw) \cup {NextToken} /\ NextToken \notin LeasesOf(raw)
        BY <2>5, <2>6, <2>7 DEF LeasesOf
    <3>2. Cardinality(LeasesOf(raw)') = Cardinality(LeasesOf(raw)) + 1
        BY <1>0, <3>1, FS_AddElement
    <3> QED
        BY <1>0, <2>3, <2>4, <2>7, <3>2, CopiesAre
  <2>8. CASE Head(queue) # raw
    <3>1. LeasesOf(raw)' = LeasesOf(raw)
        BY <2>5, <2>6, <2>8 DEF LeasesOf
    <3> QED
        BY <1>0, <2>3, <2>4, <2>8, <3>1, CopiesAre
  <2> QED
      BY <2>7, <2>8
<1>4. ASSUME NEW t \in DOMAIN lease, NEW w \in Worker, Ack(t, w)
      PROVE  ~ (Copies(raw)' < Copies(raw))
  <2>1. lease[t].raw # raw
      BY <1>4 DEF LeasesOf
  <2>2. Release(t) /\ queue' = queue
      BY <1>4 DEF Ack
  <2>3. Cardinality(LeasesOf(raw)') = Cardinality(LeasesOf(raw))
      BY <1>0, <2>1, <2>2, ReleasedLeases
  <2> QED
      BY <1>0, <2>2, <2>3, CopiesAre
<1>5. ASSUME NEW t \in DOMAIN lease, NEW w \in Worker, Renew(t, w)
      PROVE  ~ (Copies(raw)' < Copies(raw))
  <2>1. DOMAIN lease' = DOMAIN lease /\ \A u \in DOMAIN lease : lease'[u].raw = lease[u].raw
      BY <1>5 DEF Renew, LaneTypeOK, IsPartial, LeaseRecord
  <2>2. LeasesOf(raw)' = LeasesOf(raw) /\ queue' = queue
      BY <1>5, <2>1 DEF Renew, LeasesOf
  <2> QED
      BY <1>0, <2>2, CopiesAre
<1>6. ASSUME NEW h \in reaping, RequeueExpired(h)
      PROVE  ~ (Copies(raw)' < Copies(raw))
  <2> DEFINE t == h.token
             x == lease[t].raw
  <2>1. t \in DOMAIN lease /\ Release(t) /\ queue' = Push(x, x \in Critical)
      BY <1>6 DEF RequeueExpired, Current
  <2>2. x \in Payload
      BY <2>1 DEF LaneTypeOK, IsPartial, LeaseRecord
  <2>3. Cardinality(Positions(queue', raw)) = Cardinality(Positions(queue, raw)) + (IF x = raw THEN 1 ELSE 0)
      BY <2>1, <2>2, PushedCopies
  <2>4. Cardinality(LeasesOf(raw)') = Cardinality(LeasesOf(raw)) - (IF x = raw THEN 1 ELSE 0)
      BY <2>1, ReleasedLeases
  <2> QED
      BY <1>0, <2>3, <2>4, CopiesAre
<1>7. ASSUME \/ ScanExpired
             \/ \E t \in scanned : LoadScanned(t)
             \/ \E h \in reaping : LeaveExpired(h)
             \/ ReaperDies \/ Tick \/ PeerMoves
      PROVE  ~ (Copies(raw)' < Copies(raw))
    BY <1>1, <1>7 DEF ScanExpired, LoadScanned, LeaveExpired, ReaperDies, Tick, PeerMoves, laneVars
<1> QED
    BY <1>2, <1>3, <1>4, <1>5, <1>6, <1>7 DEF LaneStep

\* A payload leaves the heavy lane by an acknowledgement of its own lease and
\* no other way (heavy_queue.py's dequeue, requeue and drop scripts), however
\* many workers, reapers and requeues there are.
THEOREM AckAloneLoses == Spec => LostOnlyByAck
<1> DEFINE A == \A raw \in Payload :
                  Copies(raw)' < Copies(raw) => \E t \in LeasesOf(raw), w \in Worker : Ack(t, w)
<1>1. Inv /\ [Next]_vars => [A]_vars
    BY StepKeepsCopies DEF Inv, TypeOK, Next
<1> QED
    BY <1>1, InvInitially, InvPreserved, PTL DEF Spec, LostOnlyByAck
=============================================================================
