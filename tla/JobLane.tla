------------------------------ MODULE JobLane ------------------------------
(***************************************************************************)
(* One durable Redis lane: the list of queued payloads, the list of        *)
(* payloads in processing, the lease records with their expiry zset, and   *)
(* the reapers' two-step read of what expired.  worker/queue.py (the       *)
(* analysis lane) and worker/heavy_queue.py (the heavy lane) run the same  *)
(* Lua scripts on keys of their own; each action here is one atomic script *)
(* (or one Redis command), so a lane is what both have in common.          *)
(*                                                                         *)
(* A payload stands for the JSON text the scripts move about and compare   *)
(* by value.  An entry of the processing list is named by the lease token  *)
(* it was pushed under: tokens are handed out by INCR in the script that   *)
(* RPUSHes, so token order is list order and LLEN is the number of tokens. *)
(* Clocks of the hosts are taken as one clock, `now'.                      *)
(***************************************************************************)
EXTENDS Integers, Sequences, FiniteSets, Functions, FiniteSetsExt

CONSTANTS
    Payload,          \* raw payload texts
    Critical,         \* the payloads enqueued with priority "critical"
    Worker,           \* worker instance ids
    MaxDepth,         \* max_depth: queued + processing payloads of the lane
    MaxConcurrent,    \* max_concurrent_jobs: processing payloads of both lanes
    MaxGlobalQueued,  \* max_global_queued: queued payloads of both lanes
    LeaseTimeout,     \* lease_timeout_ms
    MaxTime,          \* bound: the clock stops here
    MaxLeases,        \* bound: leases ever granted
    PeerBound         \* bound: depth the other lane's lists may reach

ASSUME LaneAssumption ==
    /\ Critical \subseteq Payload
    /\ {MaxDepth, MaxConcurrent, MaxGlobalQueued, LeaseTimeout} \subseteq Nat \ {0}
    /\ {MaxTime, MaxLeases, PeerBound} \subseteq Nat

VARIABLES
    queue,            \* the queued list, head first
    processing,       \* token -> payload: the processing list
    lease,            \* token -> lease hash
    leaseSeq,         \* lease_sequence: the last token granted
    now,              \* the clock
    scanned,          \* tokens reapers found expired and have not loaded yet
    reaping,          \* lease records reapers loaded and have not settled yet
    peerQueued,       \* LLEN of the other lane's queued list
    peerProcessing    \* LLEN of the other lane's processing list

laneVars == <<queue, processing, lease, leaseSeq, now, scanned, reaping>>
reaperVars == <<scanned, reaping>>
peerVars == <<peerQueued, peerProcessing>>

LeaseRecord == [raw : Payload, worker : Worker, leasedAt : 0..MaxTime]
Handle == [token : 1..MaxLeases, raw : Payload, worker : Worker, leasedAt : 0..MaxTime]

\* f is a function from some of S into T: a Redis hash or zset, a list of tokens.
IsPartial(f, S, T) ==
    /\ DOMAIN f \subseteq S
    /\ f \in [DOMAIN f -> T]

LaneInit ==
    /\ queue = <<>>
    /\ processing = <<>>
    /\ lease = <<>>
    /\ leaseSeq = 0
    /\ now = 0
    /\ scanned = {}
    /\ reaping = {}
    /\ peerQueued = 0
    /\ peerProcessing = 0

-----------------------------------------------------------------------------
ExpiresAt(t) == lease[t].leasedAt + LeaseTimeout
Expired(t) == ExpiresAt(t) =< now

Depth == Len(queue) + Cardinality(DOMAIN processing)
GlobalQueued == Len(queue) + peerQueued

\* Slips: payloads in processing are not counted; the delta is not.
HasRoomInQueue(n) == Len(queue) + n =< MaxDepth /\ GlobalQueued + n =< MaxGlobalQueued
HasRoomSoFar(n) == Depth =< MaxDepth /\ GlobalQueued =< MaxGlobalQueued

\* check_queue_capacity with delta = n.
HasRoom(n) == Depth + n =< MaxDepth /\ GlobalQueued + n =< MaxGlobalQueued

\* LPUSH for a critical payload, RPUSH for any other.
Push(raw, critical) == IF critical THEN <<raw>> \o queue ELSE Append(queue, raw)

Extend(f, x, v) == [y \in DOMAIN f \cup {x} |-> IF y = x THEN v ELSE f[y]]
Without(f, S) == Restrict(f, DOMAIN f \ S)

\* The entries of the processing list that hold this payload, and LREM 1 of it.
Entries(raw) == {t \in DOMAIN processing : processing[t] = raw}
LremFirst(raw) ==
    Without(processing, IF Entries(raw) = {} THEN {} ELSE {Min(Entries(raw))})

\* Slip: the LREM is left out.
ReleaseLeaseOnly(t) ==
    /\ lease' = Without(lease, {t})
    /\ UNCHANGED processing

\* What every settling script ends with: LREM 1 raw, DEL lease, ZREM expiry.
Release(t) ==
    /\ processing' = LremFirst(lease[t].raw)
    /\ lease' = Without(lease, {t})

-----------------------------------------------------------------------------
Enqueue(raw) ==
    /\ HasRoom(1)
    /\ queue' = Push(raw, raw \in Critical)
    /\ UNCHANGED <<processing, lease, leaseSeq, now, reaperVars, peerVars>>

\* Slip: the peer lane's leases are not counted.
HasOwnSlot == Cardinality(DOMAIN processing) < MaxConcurrent
HasSlot == Cardinality(DOMAIN processing) + peerProcessing < MaxConcurrent

\* Slip: the token counts the entries.
CountedToken == Cardinality(DOMAIN processing) + 1
NextToken == leaseSeq + 1

Dequeue(w) ==
    /\ HasSlot
    /\ queue # <<>>
    /\ leaseSeq < MaxLeases
    /\ leaseSeq' = leaseSeq + 1
    /\ queue' = Tail(queue)
    /\ processing' = Extend(processing, NextToken, Head(queue))
    /\ lease' = Extend(lease, NextToken, [raw |-> Head(queue), worker |-> w, leasedAt |-> now])
    /\ UNCHANGED <<now, reaperVars, peerVars>>

\* Whether worker w's call on token t passes the scripts' first two checks.
Owns(t, w) == t \in DOMAIN lease /\ lease[t].worker = w

\* Slip: the lease record outlives the acknowledgement.
AckKeepsLease(t, w) ==
    /\ Owns(t, w)
    /\ processing' = LremFirst(lease[t].raw)
    /\ UNCHANGED <<queue, lease, leaseSeq, now, reaperVars, peerVars>>

Ack(t, w) ==
    /\ Owns(t, w)
    /\ Release(t)
    /\ UNCHANGED <<queue, leaseSeq, now, reaperVars, peerVars>>

\* Slip: the expiry is stored as the time of the lease.
RenewStoresExpiry(t, w) ==
    /\ Owns(t, w)
    /\ lease' = [lease EXCEPT ![t].leasedAt = now + LeaseTimeout]
    /\ UNCHANGED <<queue, processing, leaseSeq, now, reaperVars, peerVars>>

\* A renewal asks for no expiry check: a late one revives the lease.
Renew(t, w) ==
    /\ Owns(t, w)
    /\ lease' = [lease EXCEPT ![t].leasedAt = now]
    /\ UNCHANGED <<queue, processing, leaseSeq, now, reaperVars, peerVars>>

\* ZRANGEBYSCORE lease_expiry 0 now, by the reaper of any worker process: the
\* two sets hold what all the reapers have in hand.
ScanExpired ==
    /\ scanned' = scanned \cup {t \in DOMAIN lease : Expired(t)}
    /\ UNCHANGED <<queue, processing, lease, leaseSeq, now, reaping, peerVars>>

\* HGETALL of one scanned token: the record as it is by then.
LoadScanned(t) ==
    /\ t \in scanned
    /\ scanned' = scanned \ {t}
    /\ reaping' = IF t \in DOMAIN lease
                  THEN reaping \cup {[token |-> t, raw |-> lease[t].raw,
                                       worker |-> lease[t].worker,
                                       leasedAt |-> lease[t].leasedAt]}
                  ELSE reaping
    /\ UNCHANGED <<queue, processing, lease, leaseSeq, now, peerVars>>

\* The finalize script finds the record the reaper loaded.
Current(h) ==
    /\ h \in reaping
    /\ h.token \in DOMAIN lease
    /\ lease[h.token].leasedAt = h.leasedAt

\* Slip: a requeue has to find room as an enqueue does, though its payload is
\* counted in the depth already.
RequeueFitsAnew == HasRoom(1)

\* The requeue is refused while the lane is over its depth or the lanes
\* together hold as many queued payloads as they may.
RequeueFits == Depth =< MaxDepth /\ GlobalQueued + 1 =< MaxGlobalQueued

\* Slip: the lease is released before the capacity is looked at.
RequeueAfterRelease(h) ==
    /\ Current(h)
    /\ queue' = IF RequeueFits THEN Push(lease[h.token].raw, FALSE) ELSE queue
    /\ Release(h.token)
    /\ reaping' = reaping \ {h}
    /\ UNCHANGED <<leaseSeq, now, scanned, peerVars>>

RequeueExpired(h) ==
    /\ Current(h)
    /\ RequeueFits
    /\ queue' = Push(lease[h.token].raw, lease[h.token].raw \in Critical)
    /\ Release(h.token)
    /\ reaping' = reaping \ {h}
    /\ UNCHANGED <<leaseSeq, now, scanned, peerVars>>

DropExpired(h) ==
    /\ Current(h)
    /\ Release(h.token)
    /\ reaping' = reaping \ {h}
    /\ UNCHANGED <<queue, leaseSeq, now, scanned, peerVars>>

\* The script found another record or none, or refused the requeue: the lease,
\* if there is one, waits for a later pass.
LeaveExpired(h) ==
    /\ h \in reaping
    /\ ~ (Current(h) /\ RequeueFits)
    /\ reaping' = reaping \ {h}
    /\ UNCHANGED <<queue, processing, lease, leaseSeq, now, scanned, peerVars>>

\* A reaper's process dies with what it had scanned or loaded, or a call of its
\* raises: the leases it lets go of are left to a later pass.
ReaperDies ==
    /\ scanned' \in SUBSET scanned
    /\ reaping' \in SUBSET reaping
    /\ reaperVars' # reaperVars
    /\ UNCHANGED <<queue, processing, lease, leaseSeq, now, peerVars>>

Tick ==
    /\ now < MaxTime
    /\ now' = now + 1
    /\ UNCHANGED <<queue, processing, lease, leaseSeq, reaperVars, peerVars>>

\* The other lane's scripts, seen through the lengths of its lists.
PeerMoves ==
    /\ peerQueued' \in 0..PeerBound
    /\ peerProcessing' \in 0..PeerBound
    /\ UNCHANGED laneVars

-----------------------------------------------------------------------------
\* What happens to both lanes alike.
LaneStep ==
    \/ \E raw \in Payload : Enqueue(raw)
    \/ \E w \in Worker : Dequeue(w)
    \/ \E t \in DOMAIN lease, w \in Worker : Ack(t, w) \/ Renew(t, w)
    \/ ScanExpired
    \/ \E t \in scanned : LoadScanned(t)
    \/ \E h \in reaping : RequeueExpired(h) \/ LeaveExpired(h)
    \/ ReaperDies
    \/ Tick
    \/ PeerMoves

LaneTypeOK ==
    /\ queue \in Seq(Payload)
    /\ IsPartial(processing, 1..MaxLeases, Payload)
    /\ IsPartial(lease, 1..MaxLeases, LeaseRecord)
    /\ leaseSeq \in 0..MaxLeases
    /\ DOMAIN processing \cup DOMAIN lease \cup scanned \subseteq 1..leaseSeq
    /\ now \in 0..MaxTime
    /\ reaping \subseteq Handle
    /\ {peerQueued, peerProcessing} \subseteq 0..PeerBound

LeasesOf(raw) == {t \in DOMAIN lease : lease[t].raw = raw}
=============================================================================
