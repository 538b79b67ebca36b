---------------------------- MODULE AnalysisJobs ----------------------------
(***************************************************************************)
(* The life of analysis jobs: the rows of analysis_jobs in PostgreSQL, the *)
(* analysis lane in Redis (module AnalysisQueue) and everybody who moves a *)
(* job between the two, each in the order of its commits and commands:     *)
(*   - API handlers that create, cancel and reprocess a job, or read it    *)
(*     and reconcile what they read (analysis_service.py);                 *)
(*   - worker processes that reconcile at startup, then lease, claim, run, *)
(*     renew, persist and settle a job, and may die (runner.py);           *)
(*   - the lease reapers of those workers (reconcile_expired_lease).       *)
(* The database and Redis are never updated in one step.  A statement of   *)
(* the form UPDATE .. WHERE status/lease = .. is a guard on the row as it  *)
(* is; an ORM flush of a job loaded earlier writes whatever the row became.*)
(***************************************************************************)
EXTENDS Integers, Sequences, FiniteSets, Functions

CONSTANTS
    Job, Worker, Api, NoWorker,
    MaxDepth, MaxConcurrent, MaxGlobalQueued, LeaseTimeout, PromoteLimit,
    MaxAttempts,      \* analysis_job_max_attempts
    RetryDelay,       \* back-off of a scheduled retry
    RenewInterval,    \* the renewal loop's sleep
    Slots,            \* worker_concurrency: tasks a worker process runs at once
    Started,          \* the worker processes that run from the beginning
    MaxTime, MaxLeases,  \* bounds
    MaxReaped,           \* bound: expired leases that reapers have in hand at once
    MaxReads,            \* bound: API reads that reconcile
    MaxDisturbances      \* bound: crashes, faults, cancels, reprocessings

ASSUME JobsAssumption ==
    /\ NoWorker \notin Worker /\ Api \notin Worker
    /\ {MaxDepth, MaxConcurrent, MaxGlobalQueued, LeaseTimeout, PromoteLimit} \subseteq Nat \ {0}
    /\ {MaxAttempts, RetryDelay, RenewInterval, Slots} \subseteq Nat \ {0}
    /\ Started \subseteq Worker
    /\ {MaxTime, MaxLeases, MaxReaped, MaxReads, MaxDisturbances} \subseteq Nat

VARIABLES
    queue, processing, lease, leaseSeq, now, scanned, reaping,
    retry, dlqActive, dlqLast, reviving, purging,
    row,              \* the analysis_jobs rows
    results,          \* analysis_results rows of each job
    up,               \* worker process: "new", "starting", "up" or "dead"
    task,             \* token -> the task a worker process runs on that lease
    verdict,          \* lease handle -> what its reaper found in the database
    recon,            \* <<reconciler, job>> -> what it has seen and has to do
    creating,         \* jobs committed as queued and not enqueued yet
    canceling,        \* cancel requests that have loaded the job
    reprocessing,     \* dead letters set to queued and not revived yet
    reads, spent      \* how many API reads and disturbances have happened

\* A retry is scheduled RetryDelay after the time it is stored at.
DueTime == 0..(MaxTime + RetryDelay)

\* One payload text a job (module AnalysisQueue has several), no heavy lane.
Q == INSTANCE AnalysisQueue
        WITH Payload <- Job, Critical <- {}, JobOf <- [j \in Job |-> j],
             DueTime <- DueTime, PeerBound <- 0, peerQueued <- 0, peerProcessing <- 0

lane == <<queue, processing, lease, leaseSeq, now, scanned, reaping,
          retry, dlqActive, dlqLast, reviving, purging>>
parked == <<retry, dlqActive, dlqLast, reviving, purging>>
db == <<row, results>>
workers == <<up, task>>
callers == <<creating, canceling, reprocessing>>
counters == <<reads, spent>>
vars == <<lane, db, workers, verdict, recon, callers, reads, spent>>

Final == {"completed", "failed", "canceled", "dead_letter"}
Released(r, s) ==
    [r EXCEPT !.status = s, !.token = 0, !.worker = NoWorker, !.leasedAt = 0, !.byClaim = FALSE]

\* _set_job_status and the flush: the UPDATE names the row by its id alone, and
\* of the lease columns writes only those that were set when the job was loaded.
Overwrite(r, loaded, s) ==
    IF loaded = "running" THEN Released(r, s) ELSE [r EXCEPT !.status = s]

StatusIs(j, s) == j \in DOMAIN row /\ row[j].status = s

\* The row is claimed under this token by this worker: the WHERE clause of the
\* heartbeat and the test of assert_job_lease_owned.
OwnedBy(j, t, w) == StatusIs(j, "running") /\ row[j].token = t /\ row[j].worker = w

\* heartbeat_at and leased_at are always written together.  A lease that has
\* lasted exactly its timeout counts as past it: stamps are finer than a tick.
Fresh(r) == r.leasedAt + LeaseTimeout > now

Spend == spent < MaxDisturbances /\ spent' = spent + 1

Init ==
    /\ Q!Init
    /\ row = <<>>
    /\ results = [j \in Job |-> 0]
    /\ up = [w \in Worker |-> IF w \in Started THEN "up" ELSE "new"]
    /\ task = <<>>
    /\ verdict = <<>>
    /\ recon = <<>>
    /\ creating = {}
    /\ canceling = {}
    /\ reprocessing = {}
    /\ reads = 0
    /\ spent = 0

-----------------------------------------------------------------------------
(* API handlers that change a job *)

\* create_job commits the row; the route enqueues it afterwards, and cancels
\* the job when the queue is full.
CreateRow(j) ==
    /\ j \notin DOMAIN row
    /\ row' = Q!Extend(row, j, [status |-> "queued", attempts |-> 0, token |-> 0,
                                worker |-> NoWorker, leasedAt |-> 0, byClaim |-> FALSE])
    /\ creating' = creating \cup {j}
    /\ UNCHANGED <<lane, results, workers, verdict, recon, canceling, reprocessing, counters>>

EnqueueCreated(j) ==
    /\ j \in creating
    /\ creating' = creating \ {j}
    /\ \/ Q!Enqueue(j) /\ UNCHANGED <<parked, canceling>>
       \/ /\ ~Q!HasRoom(1)
          /\ canceling' = canceling \cup {[job |-> j, loaded |-> "queued"]}
          /\ UNCHANGED lane
    /\ UNCHANGED <<db, workers, verdict, recon, reprocessing, counters>>

\* cancel_analysis_job loads the job, then writes it.
BeginCancel(j) ==
    /\ StatusIs(j, "queued") \/ StatusIs(j, "running")
    /\ Spend
    /\ canceling' = canceling \cup {[job |-> j, loaded |-> row[j].status]}
    /\ UNCHANGED <<lane, db, workers, verdict, recon, creating, reprocessing, reads>>

FinishCancel(c) ==
    /\ c \in canceling
    /\ canceling' = canceling \ {c}
    /\ row' = [row EXCEPT ![c.job] = Overwrite(@, c.loaded, "canceled")]
    /\ UNCHANGED <<lane, results, workers, verdict, recon, creating, reprocessing, counters>>

\* reprocess_dead_letter_job: the row first, then the payload out of the DLQ,
\* or a new payload when the DLQ has none; back to dead_letter on a full queue.
Reprocess(j) ==
    /\ StatusIs(j, "dead_letter")
    /\ Spend
    /\ row' = [row EXCEPT ![j] = [Released(@, "queued") EXCEPT !.attempts = 0]]
    /\ reprocessing' = reprocessing \cup {j}
    /\ UNCHANGED <<lane, results, workers, verdict, recon, creating, canceling, reads>>

BackToDeadLetter(j) == row' = [row EXCEPT ![j] = Overwrite(@, "queued", "dead_letter")]

ReviveOrEnqueue(j) ==
    /\ j \in reprocessing
    /\ reprocessing' = reprocessing \ {j}
    /\ \/ Q!ReadDlq(j) /\ UNCHANGED row
       \/ j \notin dlqActive /\ Q!Enqueue(j) /\ UNCHANGED <<parked, row>>
       \/ j \notin dlqActive /\ ~Q!HasRoom(1) /\ BackToDeadLetter(j) /\ UNCHANGED lane
    /\ UNCHANGED <<results, workers, verdict, recon, creating, canceling, counters>>

Revive(r) ==
    /\ \/ (Q!PushDlq(r) \/ Q!RemoveDlq(r)) /\ UNCHANGED row
       \/ ~r.pushed /\ ~Q!HasRoom(1) /\ Q!AbandonDlq(r) /\ BackToDeadLetter(r.job)
    /\ UNCHANGED <<results, workers, verdict, recon, callers, counters>>

\* The API process dies between the commit and the Redis call of a request.
ApiDies ==
    /\ Spend
    /\ \/ \E j \in creating :
            creating' = creating \ {j} /\ UNCHANGED <<lane, reprocessing>>
       \/ \E j \in reprocessing :
            reprocessing' = reprocessing \ {j} /\ UNCHANGED <<lane, creating>>
       \/ \E r \in reviving :
            Q!AbandonDlq(r) /\ UNCHANGED <<creating, reprocessing>>
    /\ UNCHANGED <<db, workers, verdict, recon, canceling, reads>>

-----------------------------------------------------------------------------
(* Worker tasks.  The task of a lease runs through                          *)
(*   leased -> running -> complete | retry | dead -> ack | park | bury,     *)
(* its DB steps and, last, the Redis call that settles the lease.  Beside   *)
(* it the renewal loop renews the lease and then the row's heartbeat.       *)

Goto(t, pc) == task' = [task EXCEPT ![t].pc = pc]

Lease(w) ==
    /\ up[w] = "up"
    /\ Cardinality({t \in DOMAIN task : task[t].worker = w}) < Slots
    /\ Q!Dequeue(w)
    /\ task' = Q!Extend(task, leaseSeq + 1,
                        [worker |-> w, job |-> Head(queue), pc |-> "leased", leasedAt |-> now,
                         due |-> 0, renewals |-> "on", renewedAt |-> now])
    /\ UNCHANGED <<parked, db, up, verdict, recon, callers, counters>>

Claimed(r, t) ==
    [r EXCEPT !.status = "running", !.attempts = r.attempts + 1, !.token = t,
              !.worker = task[t].worker, !.leasedAt = now, !.byClaim = TRUE]

\* Slip: the UPDATE that claims the row asks for no status.
ClaimAnyRow(t) ==
    /\ task[t].pc = "leased"
    /\ row' = [row EXCEPT ![task[t].job] = Claimed(@, t)]
    /\ Goto(t, "running")
    /\ UNCHANGED <<lane, results, up, verdict, recon, callers, counters>>

Claim(t) ==
    /\ task[t].pc = "leased"
    /\ LET j == task[t].job IN
       \/ /\ StatusIs(j, "queued")
          /\ row' = [row EXCEPT ![j] = Claimed(@, t)]
          /\ Goto(t, "running")
       \/ ~StatusIs(j, "queued") /\ Goto(t, "ack") /\ UNCHANGED row
    /\ UNCHANGED <<lane, results, up, verdict, recon, callers, counters>>

\* A job whose project or profile is not what the payload says is failed, by
\* what the task loaded before the claim or after it.
Refuse(t) ==
    /\ Spend
    /\ \/ task[t].pc = "leased" /\ StatusIs(task[t].job, "queued") /\ Goto(t, "failQueued")
       \/ /\ task[t].pc = "running"
          /\ OwnedBy(task[t].job, t, task[t].worker)
          /\ Goto(t, "failRunning")
    /\ UNCHANGED <<lane, db, up, verdict, recon, callers, reads>>

Fail(t) ==
    /\ task[t].pc \in {"failQueued", "failRunning"}
    /\ row' = [row EXCEPT ![task[t].job] =
                 Overwrite(@, IF task[t].pc = "failQueued" THEN "queued" ELSE "running", "failed")]
    /\ Goto(t, "ack")
    /\ UNCHANGED <<lane, results, up, verdict, recon, callers, counters>>

\* Slip: the last attempt that fails is acknowledged like a success.
CheckDropsLastAttempt(t) ==
    /\ task[t].pc = "running"
    /\ LET j == task[t].job
           owned == OwnedBy(j, t, task[t].worker) IN
       \/ owned /\ results[j] = 0 /\ Goto(t, "complete")
       \/ owned /\ row[j].attempts < MaxAttempts /\ Goto(t, "retry")
       \/ ~ (owned /\ row[j].attempts < MaxAttempts) /\ Goto(t, "ack")
    /\ UNCHANGED <<lane, db, up, verdict, recon, callers, counters>>

\* The analysis is over, in whatever way; the task reloads the row and tests
\* that it still owns it.  A result stored before rejects a second one.
Check(t) ==
    /\ task[t].pc = "running"
    /\ LET j == task[t].job
           owned == OwnedBy(j, t, task[t].worker) IN
       \/ owned /\ results[j] = 0 /\ Goto(t, "complete")
       \/ owned /\ row[j].attempts < MaxAttempts /\ Goto(t, "retry")
       \/ owned /\ Goto(t, "dead")
       \/ (~owned \/ results[j] > 0) /\ Goto(t, "ack")
    /\ UNCHANGED <<lane, db, up, verdict, recon, callers, counters>>

\* The outcome is written: a result or a dead letter to the row as it may have
\* become, a retry only to a row that is running, whoever runs it.
StoreResult(t) ==
    /\ task[t].pc = "complete"
    /\ row' = [row EXCEPT ![task[t].job] = Overwrite(@, "running", "completed")]
    /\ results' = [results EXCEPT ![task[t].job] = @ + 1]
    /\ Goto(t, "ack")

StoreDeadLetter(t) ==
    /\ task[t].pc = "dead"
    /\ row' = [row EXCEPT ![task[t].job] = Overwrite(@, "running", "dead_letter")]
    /\ Goto(t, "bury")
    /\ UNCHANGED results

StoreRetry(t) ==
    /\ task[t].pc = "retry" /\ StatusIs(task[t].job, "running")
    /\ row' = [row EXCEPT ![task[t].job] = Released(@, "queued")]
    /\ task' = [task EXCEPT ![t].pc = "park", ![t].due = now + RetryDelay]
    /\ UNCHANGED results

\* Slip: a retry that finds the row no longer running buries the payload.
LoseRetryToDlq(t) ==
    /\ task[t].pc = "retry" /\ ~StatusIs(task[t].job, "running")
    /\ Goto(t, "bury")
    /\ UNCHANGED db

LoseRetry(t) ==
    /\ task[t].pc = "retry" /\ ~StatusIs(task[t].job, "running")
    /\ Goto(t, "ack")
    /\ UNCHANGED db

Persist(t) ==
    /\ StoreResult(t) \/ StoreDeadLetter(t) \/ StoreRetry(t) \/ LoseRetry(t)
    /\ UNCHANGED <<lane, up, verdict, recon, callers, counters>>

\* The renewal loop is cancelled, then the lease is settled with the lease time
\* it was granted with; a script that refuses leaves the lane as it is.
Settle(t) ==
    /\ LET w == task[t].worker
           s == task[t].leasedAt IN
       \/ /\ task[t].pc = "ack"
          /\ (Q!Ack(t, w) /\ UNCHANGED parked) \/ (~Q!Owns(t, w) /\ UNCHANGED lane)
       \/ /\ task[t].pc = "park"
          /\ Q!ScheduleRetry(t, w, s, task[t].due) \/ (~Q!OwnsAsLeased(t, w, s) /\ UNCHANGED lane)
       \/ /\ task[t].pc = "bury"
          /\ Q!MoveToDlq(t, w, s) \/ (~Q!OwnsAsLeased(t, w, s) /\ UNCHANGED lane)
    /\ task' = Q!Without(task, {t})
    /\ UNCHANGED <<db, up, verdict, recon, callers, counters>>

SettleFails(t) ==
    /\ Spend
    /\ task[t].pc \in {"ack", "park", "bury"}
    /\ task' = Q!Without(task, {t})
    /\ UNCHANGED <<lane, db, up, verdict, recon, callers, reads>>

\* The database fails the task.  Recovery then finds a row that was never
\* claimed and lets the lease go, or fails as well and dead-letters the payload.
\* (A failure that recovery can persist is one of the outcomes of Check.)
DatabaseFails(t) ==
    /\ Spend
    /\ \/ task[t].pc = "leased" /\ Goto(t, "ack")
       \/ task[t].pc \in {"leased", "running", "complete", "retry", "dead"} /\ Goto(t, "bury")
    /\ UNCHANGED <<lane, db, up, verdict, recon, callers, reads>>

Renew(t) ==
    /\ task[t].renewals = "on"
    /\ now >= task[t].renewedAt + RenewInterval
    /\ \/ /\ Q!Renew(t, task[t].worker)
          /\ task' = [task EXCEPT ![t].renewals = "beat", ![t].renewedAt = now]
          /\ UNCHANGED parked
       \/ /\ ~Q!Owns(t, task[t].worker)
          /\ task' = [task EXCEPT ![t].renewals = "off"]
          /\ UNCHANGED lane
    /\ UNCHANGED <<db, up, verdict, recon, callers, counters>>

\* Slip: the row is stamped with the lease's expiry.
HeartbeatExpiry(t) ==
    /\ task[t].renewals = "beat"
    /\ OwnedBy(task[t].job, t, task[t].worker)
    /\ row' = [row EXCEPT ![task[t].job].leasedAt = task[t].renewedAt + LeaseTimeout,
                          ![task[t].job].byClaim = FALSE]
    /\ task' = [task EXCEPT ![t].renewals = "on"]
    /\ UNCHANGED <<lane, results, up, verdict, recon, callers, counters>>

\* heartbeat_job_lease; the loop ends when the row is not the task's own.
Heartbeat(t) ==
    /\ task[t].renewals = "beat"
    /\ LET j == task[t].job IN
       \/ /\ OwnedBy(j, t, task[t].worker)
          /\ row' = [row EXCEPT ![j].leasedAt = task[t].renewedAt, ![j].byClaim = FALSE]
          /\ task' = [task EXCEPT ![t].renewals = "on"]
       \/ /\ ~OwnedBy(j, t, task[t].worker)
          /\ task' = [task EXCEPT ![t].renewals = "off"]
          /\ UNCHANGED row
    /\ UNCHANGED <<lane, results, up, verdict, recon, callers, counters>>

HeartbeatFails(t) ==
    /\ Spend
    /\ task[t].renewals = "beat"
    /\ task' = [task EXCEPT ![t].renewals = "on"]
    /\ UNCHANGED <<lane, db, up, verdict, recon, callers, reads>>

\* A worker process dies or is shut down: its tasks are gone, their leases
\* stay, and so goes what its reaper had in hand.
Crash(w) ==
    /\ Spend
    /\ up[w] \in {"starting", "up"}
    /\ up' = [up EXCEPT ![w] = "dead"]
    /\ task' = Q!Without(task, {t \in DOMAIN task : task[t].worker = w})
    /\ recon' = Q!Without(recon, {w} \X Job)
    /\ \/ UNCHANGED <<scanned, reaping, verdict>>
       \/ scanned' = {} /\ reaping' = {} /\ verdict' = <<>>
    /\ UNCHANGED <<queue, processing, lease, leaseSeq, now, parked, db, callers, reads>>

-----------------------------------------------------------------------------
(* The reaper of any running worker: reconcile_expired_lease reads the row,  *)
(* resets it when it is running, then the lease is requeued or dropped.      *)

SomeWorkerUp == \E w \in Worker : up[w] = "up"

Scan ==
    /\ SomeWorkerUp
    /\ Q!ScanExpired
    /\ UNCHANGED <<parked, db, workers, verdict, recon, callers, counters>>

Load(t) ==
    /\ SomeWorkerUp
    /\ Cardinality(reaping) < MaxReaped
    /\ Q!LoadScanned(t)
    /\ UNCHANGED <<parked, db, workers, verdict, recon, callers, counters>>

\* A claim's lease time is taken from the worker's clock after the lease was
\* granted, so it is later even within one tick; a heartbeat's is the lease's.
RenewedSince(r, h) == r.leasedAt > h.leasedAt \/ (r.leasedAt = h.leasedAt /\ r.byClaim)

Verdict(h) ==
    LET r == row[h.raw] IN
    IF \/ r.status \in Final
       \/ <<r.token, r.worker>> # <<h.token, h.worker>>
       \/ RenewedSince(r, h)
       \/ Fresh(r)
    THEN "drop"
    ELSE IF r.status = "running" THEN "reset" ELSE "requeue"

Judge(h) ==
    /\ SomeWorkerUp
    /\ h \notin DOMAIN verdict
    /\ verdict' = Q!Extend(verdict, h, Verdict(h))
    /\ UNCHANGED <<lane, db, workers, recon, callers, counters>>

\* reset_job_to_queued tests that the row is running, not whose it is.
ResetByReaper(h) ==
    /\ SomeWorkerUp
    /\ h \in DOMAIN verdict /\ verdict[h] = "reset"
    /\ \/ /\ StatusIs(h.raw, "running")
          /\ row' = [row EXCEPT ![h.raw] = Released(@, "queued")]
          /\ verdict' = [verdict EXCEPT ![h] = "requeue"]
       \/ /\ ~StatusIs(h.raw, "running")
          /\ verdict' = [verdict EXCEPT ![h] = "drop"]
          /\ UNCHANGED row
    /\ UNCHANGED <<lane, results, workers, recon, callers, counters>>

FinalizeExpired(h) ==
    /\ SomeWorkerUp
    /\ h \in DOMAIN verdict
    /\ \/ verdict[h] = "requeue" /\ (Q!RequeueExpired(h) \/ Q!LeaveExpired(h))
       \/ verdict[h] = "drop" /\ Q!DropExpired(h)
       \/ verdict[h] = "drop" /\ ~Q!Current(h) /\ Q!LeaveExpired(h)
    /\ verdict' = Q!Without(verdict, {h})
    /\ UNCHANGED <<parked, db, workers, recon, callers, counters>>

\* A reaper's call raises: the lease it was about, or the whole pass when it was
\* still loading, is left to a later one.
ReaperFails ==
    /\ Spend
    /\ Q!ReaperDies
    /\ verdict' = Restrict(verdict, DOMAIN verdict \cap reaping')
    /\ UNCHANGED <<parked, db, workers, recon, callers, reads>>

Promote ==
    /\ SomeWorkerUp
    /\ Q!PromoteRetries
    /\ UNCHANGED <<db, workers, verdict, recon, callers, counters>>

Tick ==
    /\ Q!Tick
    /\ UNCHANGED <<parked, db, workers, verdict, recon, callers, counters>>

-----------------------------------------------------------------------------
(* Reconcilers.  A worker that starts reads the transport, then the active   *)
(* rows; an API read the row, then the transport.  Each then decides, and    *)
(* carries out what it decided whatever has happened meanwhile.  The lists   *)
(* of the transport are read one by one; here in two steps, the queue first  *)
(* and the others after it, which is enough for a payload on its way from    *)
(* one to another to be missed or seen twice.  A start reads the transport   *)
(* once for all jobs; here job by job, which only adds interleavings.        *)

NoRow == [status |-> "none"]
Unread == [queued |-> FALSE, held |-> FALSE, parked |-> FALSE, dlq |-> FALSE,
           token |-> 0, worker |-> NoWorker]
\* The lease the snapshot pairs with the job's payload: the first to expire.
FirstLease(j) ==
    CHOOSE t \in Q!LeasesOf(j) : \A u \in Q!LeasesOf(j) :
        \/ lease[t].leasedAt < lease[u].leasedAt
        \/ lease[t].leasedAt = lease[u].leasedAt /\ t =< u

ReadQueue(j, snap) == [snap EXCEPT !.queued = j \in Range(queue)]
ReadRest(j, snap) ==
    LET paired == Q!LeasesOf(j) # {} IN
    [queued |-> snap.queued,
     token |-> IF paired THEN FirstLease(j) ELSE 0,
     worker |-> IF paired THEN lease[FirstLease(j)].worker ELSE NoWorker,
     held |-> Q!Entries(j) # {},
     parked |-> j \in DOMAIN retry,
     dlq |-> j \in dlqActive]

HasAnyEntry(snap) == snap.queued \/ snap.held \/ snap.parked \/ snap.dlq

\* A running row whose lease is not the one in the transport, or that is stale,
\* or whose worker shows no recent heartbeat (dead, or just too busy to beat).
Invalid(r, snap, looksDead) ==
    \/ ~snap.held
    \/ <<snap.token, snap.worker>> # <<r.token, r.worker>>
    \/ ~Fresh(r)
    \/ looksDead

When(cond, steps) == IF cond THEN steps ELSE <<>>
Purge(snap) ==
    When(snap.queued, <<"purge queued">>)
    \o When(snap.held, <<"purge held">> \o When(snap.token # 0, <<"purge lease">>))
    \o When(snap.parked, <<"purge parked">>)
    \o When(snap.dlq, <<"purge dlq">>)

StartupPlan(r, snap, looksDead) ==
    CASE r.status = "running" ->
           When(Invalid(r, snap, looksDead),
                Purge(snap) \o <<"reset">> \o When(snap.dlq, Purge(snap)) \o <<"enqueue">>)
      [] r.status = "queued" ->
           IF snap.dlq THEN Purge(snap) \o <<"enqueue">>
           ELSE When(~HasAnyEntry(snap), <<"enqueue">>)
      [] OTHER ->
           When(snap.queued, Purge(snap)) \o When(snap.held, Purge(snap))
           \o When(snap.parked, Purge(snap)) \o When(snap.dlq, Purge(snap))

ReadPlan(r, snap, looksDead) ==
    When(r.status = "running", When(Invalid(r, snap, looksDead), <<"reset">>))
    \o When(/\ r.status = "running" => Invalid(r, snap, looksDead)
            /\ ~HasAnyEntry(snap), <<"enqueue">>)

StartWorker(w) ==
    /\ up[w] = "new"
    /\ up' = [up EXCEPT ![w] = "starting"]
    /\ recon' = [k \in DOMAIN recon \cup ({w} \X Job) |->
                   IF k \in DOMAIN recon THEN recon[k]
                   ELSE [seen |-> NoRow, snap |-> Unread,
                         todo |-> <<"read queue", "read rest", "read row">>]]
    /\ UNCHANGED <<lane, db, task, verdict, callers, counters>>

ReadJob(j) ==
    /\ reads < MaxReads /\ reads' = reads + 1
    /\ StatusIs(j, "queued") \/ StatusIs(j, "running")
    /\ <<Api, j>> \notin DOMAIN recon
    /\ recon' = Q!Extend(recon, <<Api, j>>,
                   [seen |-> row[j], snap |-> Unread, todo |-> <<"read queue", "read rest">>])
    /\ UNCHANGED <<lane, db, workers, verdict, callers, spent>>

\* The reconciler goes on to r, or is done; a worker that is done with all
\* jobs is up.
Proceed(k, r) ==
    IF r.todo # <<>>
    THEN recon' = [recon EXCEPT ![k] = r] /\ UNCHANGED up
    ELSE /\ recon' = Q!Without(recon, {k})
         /\ up' = IF k[1] = Api \/ \E l \in DOMAIN recon \ {k} : l[1] = k[1]
                  THEN up ELSE [up EXCEPT ![k[1]] = "up"]

\* What the reconciler is to do, given all that it has read.
Decided(k, r, snap) ==
    \E looksDead \in BOOLEAN :
        Proceed(k, [seen |-> NoRow, snap |-> [Unread EXCEPT !.token = snap.token],
                    todo |-> IF k[1] = Api THEN ReadPlan(r, snap, looksDead)
                             ELSE StartupPlan(r, snap, looksDead)])

Observes(k) ==
    LET r == recon[k]
        j == k[2]
        c == Head(r.todo) IN
    /\ \/ /\ c = "read queue"
          /\ Proceed(k, [r EXCEPT !.snap = ReadQueue(j, @), !.todo = Tail(@)])
       \/ /\ c = "read rest" /\ k[1] # Api
          /\ Proceed(k, [r EXCEPT !.snap = ReadRest(j, @), !.todo = Tail(@)])
       \/ /\ c = "read rest" /\ k[1] = Api
          /\ Decided(k, r.seen, ReadRest(j, r.snap))
       \/ /\ c = "read row"
          /\ Decided(k, IF StatusIs(j, "queued") \/ StatusIs(j, "running") THEN row[j] ELSE NoRow,
                     r.snap)
    /\ UNCHANGED <<lane, db, task, verdict, callers, counters>>

\* One Redis command of purge_analysis_job_transport, or the enqueue.
MovesTransport(k) ==
    LET r == recon[k]
        j == k[2]
        c == Head(r.todo) IN
    /\ \/ c = "purge queued" /\ Q!PurgeQueued(j)
       \/ c = "purge held" /\ Q!PurgeProcessing(j, {r.snap.token})
       \/ c = "purge lease" /\ Q!PurgeLease(r.snap.token)
       \/ c = "purge lease" /\ r.snap.token \notin purging /\ UNCHANGED lane
       \/ c = "purge parked" /\ Q!PurgeRetry(j)
       \/ c = "purge dlq" /\ Q!PurgeDlq(j)
       \/ c = "enqueue" /\ Q!Enqueue(j) /\ UNCHANGED parked
       \/ c = "enqueue" /\ ~Q!HasRoom(1) /\ UNCHANGED lane
    /\ Proceed(k, [r EXCEPT !.todo = Tail(@)])
    /\ UNCHANGED <<db, task, verdict, callers, counters>>

\* A reset that comes too late raises: the read ends there; the start is over
\* for every job, and the worker runs on or exits (in a strict environment).
ResetsRow(k) ==
    LET j == k[2] IN
    /\ Head(recon[k].todo) = "reset"
    /\ \/ /\ StatusIs(j, "running")
          /\ row' = [row EXCEPT ![j] = Released(@, "queued")]
          /\ Proceed(k, [recon[k] EXCEPT !.todo = Tail(@)])
       \/ /\ ~StatusIs(j, "running")
          /\ recon' = Q!Without(recon, {l \in DOMAIN recon : l[1] = k[1]})
          /\ \E s \in {"up", "dead"} :
                up' = IF k[1] = Api THEN up ELSE [up EXCEPT ![k[1]] = s]
          /\ UNCHANGED row
    /\ UNCHANGED <<lane, results, task, verdict, callers, counters>>

-----------------------------------------------------------------------------
ApiStep ==
    \/ \E j \in Job : CreateRow(j) \/ EnqueueCreated(j) \/ BeginCancel(j)
    \/ \E c \in canceling : FinishCancel(c)
    \/ \E j \in Job : Reprocess(j) \/ ReviveOrEnqueue(j) \/ ReadJob(j)
    \/ \E r \in reviving : Revive(r)
    \/ ApiDies

TaskStep ==
    \/ \E w \in Worker : Lease(w) \/ Crash(w)
    \/ \E t \in DOMAIN task :
          \/ Claim(t) \/ Refuse(t) \/ Fail(t) \/ Check(t) \/ Persist(t) \/ DatabaseFails(t)
          \/ Settle(t) \/ SettleFails(t)
          \/ Renew(t) \/ Heartbeat(t) \/ HeartbeatFails(t)

ReaperStep ==
    \/ Scan
    \/ \E t \in scanned : Load(t)
    \/ \E h \in reaping : Judge(h) \/ ResetByReaper(h) \/ FinalizeExpired(h)
    \/ ReaperFails
    \/ Promote
    \/ Tick

ReconcilerStep ==
    \/ \E w \in Worker : StartWorker(w)
    \/ \E k \in DOMAIN recon : Observes(k) \/ MovesTransport(k) \/ ResetsRow(k)

Next == ApiStep \/ TaskStep \/ ReaperStep \/ ReconcilerStep

Spec == Init /\ [][Next]_vars

\* The processes take their steps in time; nothing bad need happen, nobody need
\* call the API, and no renewal need come before its lease expires.
Fairness ==
    /\ WF_vars(Tick)
    /\ WF_vars(Scan)
    /\ WF_vars(Promote)
    /\ \A t \in 1..MaxLeases : WF_vars(Load(t))
    /\ WF_vars(\E h \in reaping : Judge(h) \/ ResetByReaper(h) \/ FinalizeExpired(h))
    /\ \A w \in Worker : WF_vars(Lease(w))
    /\ \A t \in 1..MaxLeases :
          WF_vars(t \in DOMAIN task /\ (Claim(t) \/ Fail(t) \/ Check(t) \/ Persist(t) \/ Settle(t)))

FairSpec == Spec /\ Fairness

-----------------------------------------------------------------------------
Row == [status : {"queued", "running"} \cup Final, attempts : Nat, token : 0..MaxLeases,
        worker : Worker \cup {NoWorker}, leasedAt : 0..MaxTime, byClaim : BOOLEAN]
Task == [worker : Worker, job : Job, leasedAt : 0..MaxTime, renewedAt : 0..MaxTime, due : DueTime,
         renewals : {"on", "beat", "off"},
         pc : {"leased", "failQueued", "failRunning", "running", "complete", "retry", "dead",
               "ack", "park", "bury"}]

\* Every variable holds what its table, key or process can hold.
TypeOK ==
    /\ Q!LaneTypeOK
    /\ Q!IsPartial(row, Job, Row)
    /\ results \in [Job -> Nat]
    /\ up \in [Worker -> {"new", "starting", "up", "dead"}]
    /\ Q!IsPartial(task, 1..leaseSeq, Task)
    /\ Q!IsPartial(verdict, reaping, {"reset", "requeue", "drop"})
    /\ DOMAIN recon \subseteq (Worker \cup {Api}) \X Job
    /\ DOMAIN retry \cup creating \cup reprocessing \subseteq Job
    /\ canceling \subseteq [job : DOMAIN row, loaded : {"queued", "running"}]

\* The heartbeat in a row never runs ahead of the lease it mirrors.  The reaper
\* takes a row that is later than its lease for one renewed since, and drops
\* the lease: a heartbeat ahead of a lapsed lease would cost a job its lease.
HeartbeatNeverAhead ==
    \A j \in DOMAIN row :
        (/\ row[j].status = "running" /\ ~row[j].byClaim
         /\ row[j].token \in DOMAIN lease) => row[j].leasedAt =< lease[row[j].token].leasedAt

\* While no process has died and no call has failed, a running row is run by
\* the task that its token names: no task lets go of its lease and leaves its
\* row running, whoever resets, requeues or runs the job again meanwhile.
RunningRowsAreRun ==
    spent = 0 =>
        \A j \in Job : StatusIs(j, "running") =>
            /\ row[j].token \in DOMAIN task
            /\ task[row[j].token].job = j /\ task[row[j].token].worker = row[j].worker
            /\ task[row[j].token].pc \in {"running", "complete", "retry", "dead"}

\* A running row, its task and its lease tell the same.
RunningRowsFollow == HeartbeatNeverAhead /\ RunningRowsAreRun

\* And a payload reaches the DLQ only for a job that has ended for good.
DeadLettersHaveEnded ==
    spent = 0 => \A j \in dlqActive : row[j].status \in Final

\* The row's life is that of module JobLifecycle.
Column(f, default) == [j \in Job |-> IF j \in DOMAIN row THEN row[j][f] ELSE default]
L == INSTANCE JobLifecycle WITH status <- Column("status", "none"), attempts <- Column("attempts", 0)
Lifecycle == L!Spec

\* And its lane, whoever calls on it and whoever dies, is moved only as module
\* AnalysisQueue lets an arbitrary environment move it: what holds of the lane
\* there holds of the lane here.
LaneOnItsOwn == Q!Spec
EachPartSpec == Lifecycle /\ LaneOnItsOwn

-----------------------------------------------------------------------------
(* What the documents say of this code, and it does not keep.               *)

\* docs/recovery_restart_audit_2026-04-05.md:212, "po lease_timeout +
\* reap_interval se job vrati do queued": a job whose worker died while running
\* it is not left running once its heartbeat and its leases have expired.
Orphaned(j) ==
    /\ StatusIs(j, "running") /\ up[row[j].worker] = "dead"
    /\ ~Fresh(row[j])
    /\ \A t \in Q!LeasesOf(j) : Q!Expired(t)
DeadWorkersJobsReturn == \A j \in Job : Orphaned(j) ~> ~Orphaned(j)

\* docs/recovery_restart_audit_2026-04-05.md:218, "max 1 terminal result row na
\* job".
AtMostOneResult == \A j \in Job : results[j] =< 1

\* docs/chaos_failure_audit_2026-04-06.md:149, "job se nema ztratit": a queued
\* job is in some list of the lane, or somebody is about to put it there or to
\* run it.
QueuedJobsHaveTransport ==
    \A j \in Job : StatusIs(j, "queued") =>
        \/ j \in Range(queue) \cup Range(processing) \cup DOMAIN retry \cup dlqActive
        \/ j \in creating \cup reprocessing
        \/ \E r \in reviving : r.job = j
        \/ \E k \in DOMAIN recon : k[2] = j
        \/ \E t \in DOMAIN task : task[t].job = j

\* docs/chaos_failure_audit_2026-04-06.md:152, "stary lease neprebije novy
\* heartbeat/renew": reaping takes no lease that has been renewed in time.
RenewedLeasesAreKept ==
    [][ \A h \in reaping :
          FinalizeExpired(h) /\ h.token \in DOMAIN lease \ DOMAIN lease' =>
              Q!Expired(h.token) ]_vars

=============================================================================
