--------------------------- MODULE JobLaneProofs ---------------------------
(***************************************************************************)
(* Lemmas about the steps of a lane, for the proofs about the two lanes    *)
(* that are built from them: what each does to the types of the lane's     *)
(* keys, and to the entries and the leases of a payload.                   *)
(***************************************************************************)
EXTENDS JobLane, FiniteSetTheorems, SequenceTheorems, WellFoundedInduction, TLAPS

\* The least element CHOOSE finds in a non-empty set of naturals is in the set.
LEMMA MinIsElement ==
    ASSUME NEW S, S \subseteq Nat, S # {}
    PROVE  Min(S) \in S
<1>1. PICK x \in S : \A y \in S : <<y, x>> \notin OpToRel(<, Nat)
    BY NatLessThanWellFounded, WFMin, Zenon
<1>2. \A y \in S : ~ (y < x)
    BY <1>1, Zenon DEF OpToRel
<1>3. \A y \in S : x =< y
    BY <1>2
<1> QED
    BY <1>3 DEF Min

\* Restricting and extending a partial function keep it one.
LEMMA WithoutIsPartial ==
    ASSUME NEW f, NEW S, NEW T, NEW R, IsPartial(f, S, T)
    PROVE  /\ IsPartial(Without(f, R), S, T)
           /\ DOMAIN Without(f, R) = DOMAIN f \ R
           /\ \A x \in DOMAIN f \ R : Without(f, R)[x] = f[x]
    BY DEF IsPartial, Without, Restrict

LEMMA ExtendIsPartial ==
    ASSUME NEW f, NEW S, NEW T, NEW x \in S, NEW v \in T, IsPartial(f, S, T)
    PROVE  /\ IsPartial(Extend(f, x, v), S, T)
           /\ DOMAIN Extend(f, x, v) = DOMAIN f \cup {x}
           /\ Extend(f, x, v)[x] = v
           /\ \A y \in DOMAIN f \ {x} : Extend(f, x, v)[y] = f[y]
    BY DEF IsPartial, Extend

\* A payload pushed at either end leaves a queue one payload longer.
LEMMA PushProperties ==
    ASSUME NEW raw \in Payload, NEW critical, queue \in Seq(Payload)
    PROVE  /\ Push(raw, critical) \in Seq(Payload)
           /\ Len(Push(raw, critical)) = Len(queue) + 1
<1>1. <<raw>> \in Seq(Payload) /\ Len(<<raw>>) = 1
    OBVIOUS
<1> QED
    BY <1>1, ConcatProperties, AppendProperties DEF Push

-----------------------------------------------------------------------------
(* What the steps do to entries and leases. *)

\* Of the tokens of a lane only finitely many are in use.
LEMMA TokensAreFinite ==
    ASSUME LaneTypeOK
    PROVE  /\ leaseSeq \in Nat
           /\ DOMAIN processing \subseteq 1..leaseSeq /\ IsFiniteSet(DOMAIN processing)
           /\ DOMAIN lease \subseteq 1..leaseSeq /\ IsFiniteSet(DOMAIN lease)
           /\ \A raw : Entries(raw) \subseteq DOMAIN processing /\ IsFiniteSet(Entries(raw))
           /\ \A raw : LeasesOf(raw) \subseteq DOMAIN lease /\ IsFiniteSet(LeasesOf(raw))
<1>1. leaseSeq \in Nat /\ DOMAIN processing \subseteq 1..leaseSeq /\ DOMAIN lease \subseteq 1..leaseSeq
    BY LaneAssumption DEF LaneTypeOK
<1>2. IsFiniteSet(1..leaseSeq)
    BY <1>1, FS_Interval
<1>3. IsFiniteSet(DOMAIN processing) /\ IsFiniteSet(DOMAIN lease)
    BY <1>1, <1>2, FS_Subset
<1>4. \A raw : Entries(raw) \subseteq DOMAIN processing /\ LeasesOf(raw) \subseteq DOMAIN lease
    BY DEF Entries, LeasesOf
<1> QED
    BY <1>1, <1>3, <1>4, FS_Subset

\* LREM 1 takes one entry of the payload, if there is one, and nothing else.
LEMMA LremFirstEntry ==
    ASSUME NEW raw, LaneTypeOK
    PROVE  \E gone :
             /\ gone \subseteq Entries(raw)
             /\ IF Entries(raw) = {} THEN gone = {} ELSE \E t \in Entries(raw) : gone = {t}
             /\ LremFirst(raw) = Without(processing, gone)
<1>1. Entries(raw) \subseteq Nat
    BY TokensAreFinite
<1>2. CASE Entries(raw) = {}
    BY <1>2 DEF LremFirst
<1>3. CASE Entries(raw) # {}
    BY <1>1, <1>3, MinIsElement DEF LremFirst
<1> QED
    BY <1>2, <1>3

\* A release takes the lease, and of its payload's entries one; other payloads'
\* entries stay where they are.
LEMMA ReleaseTakesOne ==
    ASSUME LaneTypeOK, NEW t \in DOMAIN lease, Release(t)
    PROVE  /\ DOMAIN lease' = DOMAIN lease \ {t}
           /\ \A u \in DOMAIN lease' : lease'[u] = lease[u]
           /\ DOMAIN processing' \subseteq DOMAIN processing
           /\ \A u \in DOMAIN processing' : processing'[u] = processing[u]
           /\ \A raw : LeasesOf(raw)' = LeasesOf(raw) \ {t}
           /\ \A raw :
                IF raw = lease[t].raw /\ Entries(raw) # {}
                THEN \E u \in Entries(raw) : Entries(raw)' = Entries(raw) \ {u}
                ELSE Entries(raw)' = Entries(raw)
<1> PICK r : r = lease[t].raw
    OBVIOUS
<1>1. PICK gone :
        /\ gone \subseteq Entries(r)
        /\ IF Entries(r) = {} THEN gone = {} ELSE \E u \in Entries(r) : gone = {u}
        /\ LremFirst(r) = Without(processing, gone)
    BY LremFirstEntry
<1>2. processing' = [u \in DOMAIN processing \ gone |-> processing[u]]
    BY <1>1 DEF Release, Without, Restrict
<1>3. lease' = [u \in DOMAIN lease \ {t} |-> lease[u]]
    BY DEF Release, Without, Restrict
<1>4. \A raw : LeasesOf(raw)' = LeasesOf(raw) \ {t}
    BY <1>3 DEF LeasesOf
<1>5. \A raw : Entries(raw)' = Entries(raw) \ gone
    BY <1>2 DEF Entries
<1>6. \A raw : raw # r => Entries(raw) \cap gone = {}
    BY <1>1 DEF Entries
<1>7. ASSUME NEW raw
      PROVE  IF raw = r /\ Entries(raw) # {}
             THEN \E u \in Entries(raw) : Entries(raw)' = Entries(raw) \ {u}
             ELSE Entries(raw)' = Entries(raw)
  <2>1. CASE raw = r /\ Entries(raw) # {}
    BY <1>1, <1>5, <2>1
  <2>2. CASE raw # r
    BY <1>5, <1>6, <2>2
  <2>3. CASE raw = r /\ Entries(raw) = {}
    BY <1>1, <1>5, <2>3
  <2> QED
    BY <2>1, <2>2, <2>3
<1> QED
    BY <1>2, <1>3, <1>4, <1>7

-----------------------------------------------------------------------------
(* Types.  The two lanes share the type invariant of what they share. *)

LEMMA LaneInitTypes ==
    ASSUME LaneInit
    PROVE  LaneTypeOK
<1>1. queue \in Seq(Payload)
    BY EmptySeq DEF LaneInit
<1>2. DOMAIN << >> = {} /\ << >> \in [{} -> Payload] /\ << >> \in [{} -> LeaseRecord]
    OBVIOUS
<1> QED
    BY <1>1, <1>2, LaneAssumption DEF LaneInit, LaneTypeOK, IsPartial

LEMMA ReleaseTypes ==
    ASSUME LaneTypeOK, NEW t \in DOMAIN lease, Release(t)
    PROVE  /\ IsPartial(processing', 1..MaxLeases, Payload)
           /\ IsPartial(lease', 1..MaxLeases, LeaseRecord)
           /\ DOMAIN processing' \subseteq DOMAIN processing
           /\ DOMAIN lease' \subseteq DOMAIN lease
<1>1. PICK gone : processing' = Without(processing, gone)
    BY LremFirstEntry DEF Release
<1>2. lease' = Without(lease, {t})
    BY DEF Release
<1>3. IsPartial(processing, 1..MaxLeases, Payload) /\ IsPartial(lease, 1..MaxLeases, LeaseRecord)
    BY DEF LaneTypeOK
<1>4. IsPartial(processing', 1..MaxLeases, Payload) /\ IsPartial(lease', 1..MaxLeases, LeaseRecord)
    BY <1>1, <1>2, <1>3, WithoutIsPartial
<1>5. DOMAIN processing' \subseteq DOMAIN processing /\ DOMAIN lease' \subseteq DOMAIN lease
    BY <1>1, <1>2 DEF Without, Restrict
<1> QED
    BY <1>4, <1>5

LEMMA LaneStepTypes ==
    ASSUME LaneTypeOK, LaneStep \/ \E h \in reaping : DropExpired(h)
    PROVE  LaneTypeOK'
<1> USE DEF LaneTypeOK
<1>0. leaseSeq \in Nat /\ now \in Nat /\ MaxLeases \in Nat /\ MaxTime \in Nat
    BY LaneAssumption
<1>1. ASSUME NEW raw \in Payload, Enqueue(raw)
      PROVE  LaneTypeOK'
  <2>1. queue' \in Seq(Payload)
    BY <1>1, PushProperties DEF Enqueue
  <2> QED
    BY <1>1, <2>1 DEF Enqueue, reaperVars, peerVars
<1>2. ASSUME NEW w \in Worker, Dequeue(w)
      PROVE  LaneTypeOK'
  <2>1. Head(queue) \in Payload /\ Tail(queue) \in Seq(Payload)
    BY <1>2, HeadTailProperties DEF Dequeue
  <2>2. NextToken \in 1..MaxLeases /\ leaseSeq' = NextToken /\ leaseSeq' \in 0..MaxLeases
    BY <1>0, <1>2 DEF Dequeue, NextToken
  <2>3. [raw |-> Head(queue), worker |-> w, leasedAt |-> now] \in LeaseRecord
    BY <2>1 DEF LeaseRecord
  <2>4. IsPartial(processing, 1..MaxLeases, Payload) /\ IsPartial(lease, 1..MaxLeases, LeaseRecord)
    OBVIOUS
  <2>5. /\ IsPartial(processing', 1..MaxLeases, Payload)
        /\ IsPartial(lease', 1..MaxLeases, LeaseRecord)
    BY <1>2, <2>1, <2>2, <2>3, <2>4, ExtendIsPartial DEF Dequeue
  <2>6. /\ DOMAIN processing' = DOMAIN processing \cup {NextToken}
        /\ DOMAIN lease' = DOMAIN lease \cup {NextToken}
    BY <1>2 DEF Dequeue, Extend
  <2>7. (DOMAIN processing \cup DOMAIN lease \cup scanned)' \subseteq 1..leaseSeq'
    BY <1>0, <1>2, <2>2, <2>6 DEF Dequeue, NextToken, reaperVars
  <2> QED
    BY <1>2, <2>1, <2>2, <2>5, <2>7 DEF Dequeue, reaperVars, peerVars
<1>3. ASSUME NEW t \in DOMAIN lease, NEW w \in Worker, Ack(t, w)
      PROVE  LaneTypeOK'
    BY <1>3, ReleaseTypes DEF Ack, reaperVars, peerVars
<1>4. ASSUME NEW t \in DOMAIN lease, NEW w \in Worker, Renew(t, w)
      PROVE  LaneTypeOK'
  <2>1. [lease[t] EXCEPT !.leasedAt = now] \in LeaseRecord
    BY DEF IsPartial, LeaseRecord
  <2>2. lease' = [lease EXCEPT ![t] = [lease[t] EXCEPT !.leasedAt = now]]
    BY <1>4 DEF Renew
  <2>3. IsPartial(lease', 1..MaxLeases, LeaseRecord) /\ DOMAIN lease' = DOMAIN lease
    BY <2>1, <2>2 DEF IsPartial
  <2> QED
    BY <1>4, <2>3 DEF Renew, reaperVars, peerVars
<1>5. ASSUME ScanExpired
      PROVE  LaneTypeOK'
    BY <1>5 DEF ScanExpired, peerVars
<1>6. ASSUME NEW t \in scanned, LoadScanned(t)
      PROVE  LaneTypeOK'
  <2>1. ASSUME t \in DOMAIN lease
        PROVE  [token |-> t, raw |-> lease[t].raw, worker |-> lease[t].worker,
                leasedAt |-> lease[t].leasedAt] \in Handle
    BY <2>1 DEF IsPartial, LeaseRecord, Handle
  <2>2. reaping' \subseteq Handle
    BY <1>6, <2>1 DEF LoadScanned
  <2> QED
    BY <1>6, <2>2 DEF LoadScanned, peerVars
<1>7. ASSUME NEW h \in reaping, RequeueExpired(h)
      PROVE  LaneTypeOK'
  <2>1. h.token \in DOMAIN lease /\ lease[h.token].raw \in Payload
    BY <1>7 DEF RequeueExpired, Current, IsPartial, LeaseRecord
  <2>2. queue' \in Seq(Payload)
    BY <1>7, <2>1, PushProperties DEF RequeueExpired
  <2> QED
    BY <1>7, <2>1, <2>2, ReleaseTypes DEF RequeueExpired, peerVars
<1>8. ASSUME NEW h \in reaping, DropExpired(h)
      PROVE  LaneTypeOK'
    BY <1>8, ReleaseTypes DEF DropExpired, Current, peerVars
<1>9. ASSUME NEW h \in reaping, LeaveExpired(h)
      PROVE  LaneTypeOK'
    BY <1>9 DEF LeaveExpired, peerVars
<1>10. ASSUME ReaperDies
       PROVE  LaneTypeOK'
    BY <1>10 DEF ReaperDies, peerVars
<1>11. ASSUME Tick
       PROVE  LaneTypeOK'
    BY <1>0, <1>11 DEF Tick, reaperVars, peerVars
<1>12. ASSUME PeerMoves
       PROVE  LaneTypeOK'
    BY <1>12 DEF PeerMoves, laneVars
<1> QED
    BY <1>1, <1>2, <1>3, <1>4, <1>5, <1>6, <1>7, <1>8, <1>9, <1>10, <1>11, <1>12 DEF LaneStep

-----------------------------------------------------------------------------
(* Entries and leases of a payload are made together and taken together. *)

Untouched(raw) == Entries(raw)' = Entries(raw) /\ LeasesOf(raw)' = LeasesOf(raw)

AddsPair(raw) ==
    /\ NextToken \notin Entries(raw) /\ Entries(raw)' = Entries(raw) \cup {NextToken}
    /\ NextToken \notin LeasesOf(raw) /\ LeasesOf(raw)' = LeasesOf(raw) \cup {NextToken}

TakesPair(raw) ==
    /\ \E t \in LeasesOf(raw) : LeasesOf(raw)' = LeasesOf(raw) \ {t}
    /\ IF Entries(raw) = {} THEN Entries(raw)' = {}
       ELSE \E u \in Entries(raw) : Entries(raw)' = Entries(raw) \ {u}

\* A release takes a pair of the lease's payload, as far as there is one.
LEMMA ReleasePairs ==
    ASSUME LaneTypeOK, NEW t \in DOMAIN lease, Release(t), NEW raw
    PROVE  Untouched(raw) \/ TakesPair(raw)
<1>1. CASE raw = lease[t].raw
  <2>1. t \in LeasesOf(raw)
    BY <1>1 DEF LeasesOf
  <2> QED
    BY <1>1, <2>1, ReleaseTakesOne DEF TakesPair
<1>2. CASE raw # lease[t].raw
  <2>1. t \notin LeasesOf(raw)
    BY <1>2 DEF LeasesOf
  <2>2. LeasesOf(raw)' = LeasesOf(raw) \ {t} /\ Entries(raw)' = Entries(raw)
    BY <1>2, ReleaseTakesOne
  <2> QED
    BY <2>1, <2>2 DEF Untouched
<1> QED
    BY <1>1, <1>2

\* A dequeue gives its payload a pair of its own.
LEMMA DequeuePairs ==
    ASSUME LaneTypeOK, NEW w, Dequeue(w), NEW raw
    PROVE  Untouched(raw) \/ AddsPair(raw)
<1>1. NextToken \notin DOMAIN processing /\ NextToken \notin DOMAIN lease
    BY LaneAssumption DEF LaneTypeOK, NextToken
<1>2. /\ processing' = [t \in DOMAIN processing \cup {NextToken} |->
                          IF t = NextToken THEN Head(queue) ELSE processing[t]]
      /\ lease' = [t \in DOMAIN lease \cup {NextToken} |->
                     IF t = NextToken THEN [raw |-> Head(queue), worker |-> w, leasedAt |-> now]
                     ELSE lease[t]]
    BY DEF Dequeue, Extend
<1>3. CASE raw = Head(queue)
  <2>1. Entries(raw)' = Entries(raw) \cup {NextToken}
    BY <1>1, <1>2, <1>3 DEF Entries
  <2>2. LeasesOf(raw)' = LeasesOf(raw) \cup {NextToken}
    BY <1>1, <1>2, <1>3 DEF LeasesOf
  <2>3. NextToken \notin Entries(raw) /\ NextToken \notin LeasesOf(raw)
    BY <1>1 DEF Entries, LeasesOf
  <2> QED
    BY <2>1, <2>2, <2>3 DEF AddsPair
<1>4. CASE raw # Head(queue)
  <2>1. Entries(raw)' = Entries(raw)
    BY <1>1, <1>2, <1>4 DEF Entries
  <2>2. LeasesOf(raw)' = LeasesOf(raw)
    BY <1>1, <1>2, <1>4 DEF LeasesOf
  <2> QED
    BY <2>1, <2>2 DEF Untouched
<1> QED
    BY <1>3, <1>4

\* No step of a lane does anything else to them.
LEMMA LaneStepPairs ==
    ASSUME LaneTypeOK, LaneStep \/ \E h \in reaping : DropExpired(h), NEW raw
    PROVE  Untouched(raw) \/ AddsPair(raw) \/ TakesPair(raw)
<1>1. ASSUME NEW w \in Worker, Dequeue(w)
      PROVE  Untouched(raw) \/ AddsPair(raw)
    BY <1>1, DequeuePairs
<1>2. ASSUME NEW t \in DOMAIN lease, Release(t)
      PROVE  Untouched(raw) \/ TakesPair(raw)
    BY <1>2, ReleasePairs
<1>3. ASSUME NEW t \in DOMAIN lease, NEW w \in Worker, Ack(t, w)
      PROVE  Untouched(raw) \/ TakesPair(raw)
    BY <1>2, <1>3 DEF Ack
<1>4. ASSUME NEW h \in reaping, RequeueExpired(h) \/ DropExpired(h)
      PROVE  Untouched(raw) \/ TakesPair(raw)
    BY <1>2, <1>4 DEF RequeueExpired, DropExpired, Current
<1>5. ASSUME UNCHANGED <<processing, lease>>
      PROVE  Untouched(raw)
    BY <1>5 DEF Untouched, Entries, LeasesOf
<1>6. ASSUME NEW t \in DOMAIN lease, NEW w \in Worker, Renew(t, w)
      PROVE  Untouched(raw)
  <2>1. DOMAIN lease' = DOMAIN lease /\ \A u \in DOMAIN lease : lease'[u].raw = lease[u].raw
    BY <1>6 DEF Renew, LaneTypeOK, IsPartial, LeaseRecord
  <2> QED
    BY <1>6, <2>1 DEF Renew, Untouched, Entries, LeasesOf
<1>7. ASSUME \/ \E r \in Payload : Enqueue(r)
             \/ ScanExpired
             \/ \E t \in scanned : LoadScanned(t)
             \/ \E h \in reaping : LeaveExpired(h)
             \/ ReaperDies \/ Tick \/ PeerMoves
      PROVE  Untouched(raw)
    BY <1>5, <1>7 DEF Enqueue, ScanExpired, LoadScanned, LeaveExpired, ReaperDies, Tick,
                      PeerMoves, laneVars
<1> QED
    BY <1>1, <1>3, <1>4, <1>6, <1>7 DEF LaneStep

-----------------------------------------------------------------------------
(* The depth of a lane. *)

LEMMA DepthIsNatural ==
    LaneTypeOK => Len(queue) \in Nat /\ Cardinality(DOMAIN processing) \in Nat /\ Depth \in Nat
<1> SUFFICES ASSUME LaneTypeOK
             PROVE  Len(queue) \in Nat /\ Cardinality(DOMAIN processing) \in Nat /\ Depth \in Nat
    OBVIOUS
<1>1. Len(queue) \in Nat
    BY LenProperties DEF LaneTypeOK
<1>2. Cardinality(DOMAIN processing) \in Nat
    BY TokensAreFinite, FS_CardinalityType
<1> QED
    BY <1>1, <1>2 DEF Depth

LEMMA DepthStaysNatural == LaneTypeOK' => (Depth \in Nat)'
<1>1. LaneTypeOK => Depth \in Nat
    BY DepthIsNatural
<1> QED
    BY <1>1, PTL

\* A release shortens the processing list by one if it holds the payload.
LEMMA ReleaseDepth ==
    ASSUME LaneTypeOK, NEW t \in DOMAIN lease, Release(t)
    PROVE  /\ Cardinality(DOMAIN processing') \in Nat
           /\ Cardinality(DOMAIN processing') =< Cardinality(DOMAIN processing)
           /\ Entries(lease[t].raw) # {} =>
                Cardinality(DOMAIN processing') = Cardinality(DOMAIN processing) - 1
<1>1. PICK gone :
        /\ gone \subseteq Entries(lease[t].raw)
        /\ IF Entries(lease[t].raw) = {} THEN gone = {}
           ELSE \E u \in Entries(lease[t].raw) : gone = {u}
        /\ processing' = Without(processing, gone)
    BY LremFirstEntry DEF Release
<1>2. DOMAIN processing' = DOMAIN processing \ gone
    BY <1>1 DEF Without, Restrict
<1>3. IsFiniteSet(DOMAIN processing) /\ Cardinality(DOMAIN processing) \in Nat
    BY TokensAreFinite, FS_CardinalityType
<1>4. CASE Entries(lease[t].raw) = {}
    BY <1>1, <1>2, <1>3, <1>4
<1>5. CASE Entries(lease[t].raw) # {}
  <2>1. PICK u \in Entries(lease[t].raw) : gone = {u}
    BY <1>1, <1>5
  <2>2. u \in DOMAIN processing /\ DOMAIN processing' = DOMAIN processing \ {u}
    BY <1>2, <2>1 DEF Entries
  <2>3. IsFiniteSet(DOMAIN processing') /\
        Cardinality(DOMAIN processing') = Cardinality(DOMAIN processing) - 1
    BY <1>3, <2>2, FS_RemoveElement
  <2>4. Cardinality(DOMAIN processing') \in Nat
    BY <2>3, FS_CardinalityType
  <2> QED
    BY <1>3, <2>3, <2>4
<1> QED
    BY <1>4, <1>5

\* A dequeue moves a payload from the one list to the other.
LEMMA DequeueDepth ==
    ASSUME LaneTypeOK, NEW w, Dequeue(w)
    PROVE  /\ Cardinality(DOMAIN processing') = Cardinality(DOMAIN processing) + 1
           /\ Len(queue') = Len(queue) - 1
<1>1. NextToken \notin DOMAIN processing
    BY LaneAssumption DEF LaneTypeOK, NextToken
<1>2. DOMAIN processing' = DOMAIN processing \cup {NextToken}
    BY DEF Dequeue, Extend
<1>3. Cardinality(DOMAIN processing') = Cardinality(DOMAIN processing) + 1
    BY <1>1, <1>2, TokensAreFinite, FS_AddElement
<1>4. Len(queue') = Len(queue) - 1
    BY HeadTailProperties DEF Dequeue, LaneTypeOK
<1> QED
    BY <1>3, <1>4

\* Only a requeue of a lease that has no entry left adds to a depth that is
\* within the limit without asking for room.
LEMMA LaneStepDepth ==
    ASSUME LaneTypeOK, LaneStep \/ \E h \in reaping : DropExpired(h)
    PROVE  \/ Depth' =< Depth
           \/ Depth' =< MaxDepth
           \/ /\ Depth =< MaxDepth /\ Depth' = Depth + 1
              /\ \E t \in DOMAIN lease : Entries(lease[t].raw) = {}
<1>0. Len(queue) \in Nat /\ Cardinality(DOMAIN processing) \in Nat
    BY DepthIsNatural
<1>1. ASSUME NEW raw \in Payload, Enqueue(raw)
      PROVE  Depth' =< MaxDepth
  <2>1. Len(queue') = Len(queue) + 1
    BY <1>1, PushProperties DEF Enqueue, LaneTypeOK
  <2> QED
    BY <1>0, <1>1, <2>1 DEF Enqueue, HasRoom, Depth
<1>2. ASSUME NEW w \in Worker, Dequeue(w)
      PROVE  Depth' =< Depth
    BY <1>0, <1>2, DequeueDepth DEF Depth
<1>3. ASSUME NEW t \in DOMAIN lease, Release(t), UNCHANGED queue
      PROVE  Depth' =< Depth
    BY <1>0, <1>3, ReleaseDepth DEF Depth
<1>4. ASSUME NEW t \in DOMAIN lease, NEW w \in Worker, Ack(t, w)
      PROVE  Depth' =< Depth
    BY <1>3, <1>4 DEF Ack
<1>5. ASSUME NEW h \in reaping, DropExpired(h)
      PROVE  Depth' =< Depth
    BY <1>3, <1>5 DEF DropExpired, Current
<1>6. ASSUME NEW h \in reaping, RequeueExpired(h)
      PROVE  \/ Depth' =< Depth
             \/ /\ Depth =< MaxDepth /\ Depth' = Depth + 1
                /\ \E t \in DOMAIN lease : Entries(lease[t].raw) = {}
  <2>1. h.token \in DOMAIN lease /\ Depth =< MaxDepth /\ Release(h.token)
    BY <1>6 DEF RequeueExpired, Current, RequeueFits
  <2>2. lease[h.token].raw \in Payload
    BY <2>1 DEF LaneTypeOK, IsPartial, LeaseRecord
  <2>3. Len(queue') = Len(queue) + 1
    BY <1>6, <2>2, PushProperties DEF RequeueExpired, LaneTypeOK
  <2>4. CASE Entries(lease[h.token].raw) = {}
    <3>1. processing' = processing
      BY <2>1, <2>4, LremFirstEntry DEF Release, LremFirst, Without, Restrict, LaneTypeOK, IsPartial
    <3> QED
      BY <1>0, <2>1, <2>3, <2>4, <3>1 DEF Depth
  <2>5. CASE Entries(lease[h.token].raw) # {}
    <3>1. Cardinality(DOMAIN processing') = Cardinality(DOMAIN processing) - 1
      BY <2>1, <2>5, ReleaseDepth
    <3> QED
      BY <1>0, <2>3, <3>1 DEF Depth
  <2> QED
    BY <2>4, <2>5
<1>7. ASSUME UNCHANGED <<queue, processing>>
      PROVE  Depth' =< Depth
    BY <1>0, <1>7 DEF Depth
<1>8. ASSUME \/ \E t \in DOMAIN lease, w \in Worker : Renew(t, w)
             \/ ScanExpired
             \/ \E t \in scanned : LoadScanned(t)
             \/ \E h \in reaping : LeaveExpired(h)
             \/ ReaperDies \/ Tick \/ PeerMoves
      PROVE  Depth' =< Depth
    BY <1>7, <1>8 DEF Renew, ScanExpired, LoadScanned, LeaveExpired, ReaperDies, Tick,
                      PeerMoves, laneVars
<1> QED
    BY <1>1, <1>2, <1>4, <1>5, <1>6, <1>8 DEF LaneStep
=============================================================================
