----------------------------- MODULE OfferJobs -----------------------------
(***************************************************************************)
(* The offer pipeline: offer requests and their jobs in the database, the  *)
(* Redis lane that carries the payloads, the workers of offer_runner.py,   *)
(* the reconciler, and the token budget with its sweeper.                  *)
(*                                                                         *)
(* One action is one database transaction, one Lua script or one Redis     *)
(* command.  A job is <<offer, attempt>>: the first is created with the    *)
(* request, the next ones by more-info.  A worker that dies, or whose      *)
(* transaction fails outside a handler, stops where it is (Abandon): its   *)
(* lease stays in offer:processing, which nothing reaps.  A job's lease    *)
(* may have run out whenever it is running: the clock is left free.        *)
(*                                                                         *)
(* OfferService leaves the commit to its caller and no caller in the       *)
(* repository commits or enqueues the first payload.  The requests below   *)
(* are those of a caller that does; as wired none of their writes lasts,   *)
(* which only takes steps away from this model.                            *)
(***************************************************************************)
EXTENDS Integers, Sequences, FiniteSets, Functions, FiniteSetsExt

CONSTANTS
    Offer,          \* offer request ids
    Worker,         \* offer worker processes
    Asked,          \* the priorities payloads are submitted with
    MaxAttempts,    \* bound: jobs of one request
    MaxRetries,     \* offer_jobs.max_retries
    MaxDepth,       \* max_depth of one priority list
    MaxConcurrent,  \* max_concurrent of the lease script
    Estimate,       \* DEFAULT_TOKEN_ESTIMATE
    Actual,         \* tokens a call may turn out to cost
    Limit           \* daily_token_limit, a hard limit

ASSUME OfferAssumption ==
    /\ IsFiniteSet(Offer) /\ IsFiniteSet(Worker)
    /\ Asked \subseteq {"high", "normal", "low"}
    /\ {MaxAttempts, MaxRetries, MaxDepth, MaxConcurrent, Estimate} \subseteq Nat \ {0}
    /\ Limit \in Nat
    /\ Actual \subseteq Nat

VARIABLES
    offer,          \* offer_requests.status, "none" before there is a row
    request,        \* HTTP requests whose check passed and whose write is to come
    job,            \* offer_jobs.status, "none" before there is a row
    version,        \* offer_jobs.lease_version
    retries,        \* offer_jobs.retry_count
    error,          \* offer_jobs.last_error_code and error_repeat_count
    run,            \* the job's agent run: none, pending, or what it returned
    queue,          \* tier -> the Redis list offer:<tier>
    sending,        \* payloads on their way into a list
    lease,          \* token -> lease hash; its domain is offer:processing
    leaseSeq,       \* offer:lease_sequence
    task,           \* worker -> where OfferJobProcessor.run is
    used,           \* organization_ai_budgets.daily_tokens_used
    reservation,    \* ai_budget_reservations.status of the job
    spent           \* history: tokens recorded as actually consumed

rowVars == <<offer, job, version, retries, error>>
redisVars == <<queue, sending, lease, leaseSeq>>
budgetVars == <<used, reservation, spent>>
vars == <<offer, request, job, version, retries, error, run, queue, sending,
          lease, leaseSeq, task, used, reservation, spent>>

Job == Offer \X (1..MaxAttempts)
Tier == {"high", "normal", "low"}
Terminal == {"completed", "failed", "cancelled"}
Ended == {"completed", "failed"}
Operation == {"cancel", "approve", "more_info"}
NoError == [code |-> "none", repeat |-> 0]
Idle == [at |-> "idle"]

\* POISON_THRESHOLD and RETRYABLE_ERROR_CODES as _fail_job is called with them.
PoisonThreshold == 3
Retryable(code) == code \in {"transport", "inputs"}

Init ==
    /\ offer = [o \in Offer |-> "none"]
    /\ request = [o \in Offer |-> {}]
    /\ job = [j \in Job |-> "none"]
    /\ version = [j \in Job |-> 0]
    /\ retries = [j \in Job |-> 0]
    /\ error = [j \in Job |-> NoError]
    /\ run = [j \in Job |-> "none"]
    /\ queue = [t \in Tier |-> <<>>]
    /\ sending = {}
    /\ lease = <<>>
    /\ leaseSeq = 0
    /\ task = [w \in Worker |-> Idle]
    /\ used = 0
    /\ reservation = [j \in Job |-> "none"]
    /\ spent = 0

-----------------------------------------------------------------------------
\* The requests: OfferService on one database session each.

Jobs(o) == {j \in Job : j[1] = o /\ job[j] # "none"}
LatestJob(o) == CHOOSE j \in Jobs(o) : \A k \in Jobs(o) : k[2] =< j[2]

\* A payload about to be pushed to a list; `measured' once its length was read.
Parcel(j, t) == [job |-> j, tier |-> t, measured |-> FALSE]

\* The UPDATE to "queued" runs before the INSERT is flushed (the session has
\* autoflush off) and matches no row: the request starts as "submitted".
Submit(o, t) ==
    /\ offer[o] = "none"
    /\ offer' = [offer EXCEPT ![o] = "submitted"]
    /\ job' = [job EXCEPT ![<<o, 1>>] = "queued"]
    /\ sending' = sending \cup {Parcel(<<o, 1>>, t)}
    /\ UNCHANGED <<request, version, retries, error, run, queue, lease, leaseSeq, task, budgetVars>>

\* The status from which each operation may start.
Allowed(op) ==
    CASE op = "cancel" -> {"submitted", "queued", "processing", "needs_more_info", "needs_review"}
      [] op = "approve" -> {"needs_review"}
      [] op = "more_info" -> {"needs_more_info"}

\* The handler reads the row and checks it; nothing is locked until it writes.
Check(o, op) ==
    /\ op \notin request[o]
    /\ offer[o] \in Allowed(op)
    /\ op = "more_info" => LatestJob(o)[2] < MaxAttempts
    /\ request' = [request EXCEPT ![o] = @ \cup {op}]
    /\ UNCHANGED <<rowVars, run, redisVars, task, budgetVars>>

Close(o, op) == request' = [request EXCEPT ![o] = @ \ {op}]

Cancel(o) ==
    /\ "cancel" \in request[o]
    /\ Close(o, "cancel")
    /\ offer' = [offer EXCEPT ![o] = "cancelled"]
    /\ UNCHANGED <<job, version, retries, error, run, redisVars, task, budgetVars>>

Approve(o) ==
    /\ "approve" \in request[o]
    /\ Close(o, "approve")
    /\ offer' = [offer EXCEPT ![o] = "completed"]
    /\ UNCHANGED <<job, version, retries, error, run, redisVars, task, budgetVars>>

MoreInfo(o, t) ==
    LET j == <<o, LatestJob(o)[2] + 1>> IN
    /\ "more_info" \in request[o]
    /\ Close(o, "more_info")
    /\ job' = [job EXCEPT ![j] = "queued"]
    /\ offer' = [offer EXCEPT ![o] = "queued"]
    /\ sending' = sending \cup {Parcel(j, t)}
    /\ UNCHANGED <<version, retries, error, run, queue, lease, leaseSeq, task, budgetVars>>

RequestStep ==
    \E o \in Offer :
        \/ \E t \in Asked : Submit(o, t) \/ MoreInfo(o, t)
        \/ \E op \in Operation : Check(o, op)
        \/ Cancel(o)
        \/ Approve(o)

-----------------------------------------------------------------------------
\* The Redis lane.

\* enqueue_offer_job: LLEN, then RPUSH; the payload is lost when the list is
\* full, Redis refuses, or the sender dies.
Measure(p) ==
    /\ ~p.measured
    /\ Len(queue[p.tier]) < MaxDepth
    /\ sending' = (sending \ {p}) \cup {[p EXCEPT !.measured = TRUE]}
    /\ UNCHANGED <<rowVars, request, run, queue, lease, leaseSeq, task, budgetVars>>

Push(p) ==
    /\ p.measured
    /\ queue' = [queue EXCEPT ![p.tier] = Append(@, p.job)]
    /\ sending' = sending \ {p}
    /\ UNCHANGED <<rowVars, request, run, lease, leaseSeq, task, budgetVars>>

LosePayload(p) ==
    /\ sending' = sending \ {p}
    /\ UNCHANGED <<rowVars, request, run, queue, lease, leaseSeq, task, budgetVars>>

\* The lease script serves high before normal before low.
Served(t) ==
    /\ queue[t] # <<>>
    /\ t # "high" => queue["high"] = <<>>
    /\ t = "low" => queue["normal"] = <<>>

\* Slip: the token is the number of entries instead of a sequence number.
DequeueByCount(w, t) ==
    LET k == Cardinality(DOMAIN lease) + 1 IN
    /\ task[w].at = "idle"
    /\ Cardinality(DOMAIN lease) < MaxConcurrent
    /\ Served(t)
    /\ queue' = [queue EXCEPT ![t] = Tail(@)]
    /\ lease' = [i \in DOMAIN lease \cup {k} |->
                    IF i = k THEN [job |-> Head(queue[t]), worker |-> w] ELSE lease[i]]
    /\ task' = [task EXCEPT ![w] = [at |-> "leased", job |-> Head(queue[t]), token |-> k]]
    /\ UNCHANGED <<rowVars, request, run, sending, leaseSeq, budgetVars>>

Dequeue(w, t) ==
    /\ task[w].at = "idle"
    /\ Cardinality(DOMAIN lease) < MaxConcurrent
    /\ Served(t)
    /\ queue' = [queue EXCEPT ![t] = Tail(@)]
    /\ leaseSeq' = leaseSeq + 1
    /\ lease' = [k \in DOMAIN lease \cup {leaseSeq + 1} |->
                    IF k = leaseSeq + 1 THEN [job |-> Head(queue[t]), worker |-> w] ELSE lease[k]]
    /\ task' = [task EXCEPT ![w] = [at |-> "leased", job |-> Head(queue[t]), token |-> leaseSeq + 1]]
    /\ UNCHANGED <<rowVars, request, run, sending, budgetVars>>

Ack(w) ==
    /\ task[w].at = "acking"
    /\ lease' = Restrict(lease, DOMAIN lease \ {task[w].token})
    /\ task' = [task EXCEPT ![w] = Idle]
    /\ UNCHANGED <<rowVars, request, run, queue, sending, leaseSeq, budgetVars>>

LaneStep ==
    \/ \E p \in sending : Measure(p) \/ Push(p) \/ LosePayload(p)
    \/ \E w \in Worker, t \in Tier : Dequeue(w, t)

-----------------------------------------------------------------------------
\* The budget: organization_ai_budgets and ai_budget_reservations.

AtLeastZero(n) == IF n < 0 THEN 0 ELSE n

Fits == used + Estimate =< Limit

\* The counter is raised whether or not the job has a reservation row already.
Hold(j) ==
    /\ used' = used + Estimate
    /\ reservation' = [reservation EXCEPT ![j] = IF @ = "none" THEN "reserved" ELSE @]
    /\ UNCHANGED spent

\* release, and the sweeper's expiry: credit only what is still reserved.
Credit(j, to) ==
    /\ used' = IF reservation[j] = "reserved" THEN AtLeastZero(used - Estimate) ELSE used
    /\ reservation' = [reservation EXCEPT ![j] = IF @ = "reserved" THEN to ELSE @]
    /\ UNCHANGED spent

\* Slip: the reservation row is not marked consumed.
RecordKeepsReservation(j, n) ==
    /\ used' = AtLeastZero(used + n - Estimate)
    /\ spent' = spent + n
    /\ UNCHANGED reservation

RecordActual(j, n) ==
    /\ used' = AtLeastZero(used + n - Estimate)
    /\ reservation' = [reservation EXCEPT ![j] = IF @ = "reserved" THEN "consumed" ELSE @]
    /\ spent' = spent + n

-----------------------------------------------------------------------------
\* One run of OfferJobProcessor.run, transaction by transaction.

On(w, place) == task[w].at = place
Goto(w, place) == task' = [task EXCEPT ![w].at = place]
Owned(w) == version[task[w].job] = task[w].version

\* Phase 1: whatever the rows say, the job runs under a new version and the
\* request is being processed.
Claim(w) ==
    LET j == task[w].job IN
    /\ On(w, "leased")
    /\ job' = [job EXCEPT ![j] = "running"]
    /\ version' = [version EXCEPT ![j] = @ + 1]
    /\ offer' = [offer EXCEPT ![j[1]] = "processing"]
    /\ task' = [task EXCEPT ![w] = [at |-> "claimed", job |-> j, token |-> @.token,
                                    version |-> version[j] + 1, prior |-> error[j]]]
    /\ UNCHANGED <<request, retries, error, run, redisVars, budgetVars>>

Reserve(w) ==
    /\ On(w, "claimed")
    /\ Fits
    /\ Hold(task[w].job)
    /\ Goto(w, "holding")
    /\ UNCHANGED <<rowVars, request, run, redisVars>>

\* Where a failed run goes, with the error code it will report.
FailWith(w, place, code) ==
    task' = [task EXCEPT ![w] = [at |-> place, job |-> @.job, token |-> @.token,
                                 version |-> @.version, prior |-> @.prior, code |-> code]]

BudgetExhausted(w) ==
    /\ On(w, "claimed")
    /\ ~Fits
    /\ FailWith(w, "failing", "budget")
    /\ UNCHANGED <<rowVars, request, run, redisVars, budgetVars>>

InputsUnresolved(w) ==
    /\ On(w, "holding")
    /\ FailWith(w, "releasing", "inputs")
    /\ UNCHANGED <<rowVars, request, run, redisVars, budgetVars>>

\* One agent run for each job: a second INSERT fails, and nothing handles it.
CreateRun(w) ==
    /\ On(w, "holding")
    /\ run[task[w].job] = "none"
    /\ run' = [run EXCEPT ![task[w].job] = "pending"]
    /\ Goto(w, "calling")
    /\ UNCHANGED <<rowVars, request, redisVars, budgetVars>>

CallFails(w, code) ==
    /\ On(w, "calling")
    /\ FailWith(w, "releasing", code)
    /\ UNCHANGED <<rowVars, request, run, redisVars, budgetVars>>

\* A release that fails is logged and the run goes on.
Release(w) ==
    /\ On(w, "releasing")
    /\ Goto(w, "failing")
    /\ Credit(task[w].job, "released") \/ UNCHANGED budgetVars
    /\ UNCHANGED <<rowVars, request, run, redisVars>>

Repeat(w) ==
    LET prior == IF task[w].prior.code = "none" THEN error[task[w].job] ELSE task[w].prior
    IN  IF prior.code = task[w].code THEN prior.repeat + 1 ELSE 1

\* _fail_job: back to "queued", which enqueues nothing, or "failed"; only
\* under the version of the claim.  The lease is not acknowledged.
Fail(w) ==
    LET j == task[w].job
        again == /\ Retryable(task[w].code)
                 /\ Repeat(w) < PoisonThreshold
                 /\ retries[j] + 1 < MaxRetries
        to == IF again THEN "queued" ELSE "failed" IN
    /\ On(w, "failing")
    /\ IF Owned(w)
       THEN /\ job' = [job EXCEPT ![j] = to]
            /\ offer' = [offer EXCEPT ![j[1]] = to]
            /\ retries' = [retries EXCEPT ![j] = @ + 1]
            /\ error' = [error EXCEPT ![j] = [code |-> task[w].code, repeat |-> Repeat(w)]]
            /\ UNCHANGED version
       ELSE UNCHANGED rowVars
    /\ task' = [task EXCEPT ![w] = Idle]
    /\ UNCHANGED <<request, run, redisVars, budgetVars>>

Answer == {"needs_review", "needs_more_info"}

\* Slip: the result is stored without the lease version.
PersistUnfenced(w, answer, n) ==
    LET j == task[w].job IN
    /\ On(w, "calling")
    /\ job' = [job EXCEPT ![j] = "completed"]
    /\ offer' = [offer EXCEPT ![j[1]] = answer]
    /\ run' = [run EXCEPT ![j] = answer]
    /\ RecordActual(j, n)
    /\ Goto(w, "acking")
    /\ UNCHANGED <<request, version, retries, error, redisVars>>

\* Phase 3, still the owner: run, job, request and budget in one transaction.
Persist(w, answer, n) ==
    LET j == task[w].job IN
    /\ On(w, "calling")
    /\ Owned(w)
    /\ job' = [job EXCEPT ![j] = "completed"]
    /\ offer' = [offer EXCEPT ![j[1]] = answer]
    /\ run' = [run EXCEPT ![j] = answer]
    /\ RecordActual(j, n)
    /\ Goto(w, "acking")
    /\ UNCHANGED <<request, version, retries, error, redisVars>>

\* Phase 3, fenced off: nothing is committed but the tokens, best effort.
FencedOff(w, n) ==
    /\ On(w, "calling")
    /\ ~Owned(w)
    /\ task' = [task EXCEPT ![w] = Idle]
    /\ RecordActual(task[w].job, n) \/ UNCHANGED budgetVars
    /\ UNCHANGED <<rowVars, request, run, redisVars>>

\* The process dies, or an exception leaves run(): a database error, the second
\* agent run of a job, an answer that fails validation (its outcome violates
\* ck_agent_runs_outcome).
Abandon(w) ==
    /\ task[w] # Idle
    /\ task' = [task EXCEPT ![w] = Idle]
    /\ UNCHANGED <<rowVars, request, run, redisVars, budgetVars>>

WorkerStep(w) ==
    \/ Claim(w) \/ Reserve(w) \/ BudgetExhausted(w) \/ InputsUnresolved(w) \/ CreateRun(w)
    \/ \E code \in {"transport", "rejected"} : CallFails(w, code)
    \/ Release(w) \/ Fail(w)
    \/ \E answer \in Answer, n \in Actual : Persist(w, answer, n)
    \/ \E n \in Actual : FencedOff(w, n)
    \/ Ack(w)
    \/ Abandon(w)

-----------------------------------------------------------------------------
\* The background loops of every worker process.

\* Slip: the reset leaves the lease version alone.
RequeueOldVersion(j) ==
    /\ job[j] = "running"
    /\ retries[j] < MaxRetries
    /\ job' = [job EXCEPT ![j] = "queued"]
    /\ retries' = [retries EXCEPT ![j] = @ + 1]
    /\ offer' = [offer EXCEPT ![j[1]] = IF @ \in Terminal THEN @ ELSE "queued"]
    /\ sending' = sending \cup {Parcel(j, "normal")}
    /\ UNCHANGED <<request, version, error, run, queue, lease, leaseSeq, task, budgetVars>>

\* _reconcile_expired_leases: the row is reset and committed, the payload is
\* enqueued afterwards, with the default priority.
RequeueExpired(j) ==
    /\ job[j] = "running"
    /\ retries[j] < MaxRetries
    /\ job' = [job EXCEPT ![j] = "queued"]
    /\ version' = [version EXCEPT ![j] = @ + 1]
    /\ retries' = [retries EXCEPT ![j] = @ + 1]
    /\ offer' = [offer EXCEPT ![j[1]] = IF @ \in Terminal THEN @ ELSE "queued"]
    /\ sending' = sending \cup {Parcel(j, "normal")}
    /\ UNCHANGED <<request, error, run, queue, lease, leaseSeq, task, budgetVars>>

\* Slips: a job is given up one retry too late; the request is left to itself.
FailExpiredLater(j) ==
    /\ job[j] = "running"
    /\ retries[j] > MaxRetries
    /\ job' = [job EXCEPT ![j] = "failed"]
    /\ version' = [version EXCEPT ![j] = @ + 1]
    /\ error' = [error EXCEPT ![j].code = "expired"]
    /\ offer' = [offer EXCEPT ![j[1]] = IF @ \in Terminal THEN @ ELSE "failed"]
    /\ UNCHANGED <<request, retries, run, redisVars, task, budgetVars>>
FailExpiredJobOnly(j) ==
    /\ job[j] = "running"
    /\ retries[j] >= MaxRetries
    /\ job' = [job EXCEPT ![j] = "failed"]
    /\ version' = [version EXCEPT ![j] = @ + 1]
    /\ error' = [error EXCEPT ![j].code = "expired"]
    /\ UNCHANGED <<offer, request, retries, run, redisVars, task, budgetVars>>

FailExpired(j) ==
    /\ job[j] = "running"
    /\ retries[j] >= MaxRetries
    /\ job' = [job EXCEPT ![j] = "failed"]
    /\ version' = [version EXCEPT ![j] = @ + 1]
    /\ error' = [error EXCEPT ![j].code = "expired"]
    /\ offer' = [offer EXCEPT ![j[1]] = IF @ \in Terminal THEN @ ELSE "failed"]
    /\ UNCHANGED <<request, retries, run, redisVars, task, budgetVars>>

\* Runs that hold tokens of the budget for this job.
Holding(j) == {w \in Worker : task[w].at \in {"holding", "calling", "releasing"} /\ task[w].job = j}

\* Slip: only the reservations of failed jobs are swept.
SweepFailed(j) ==
    /\ reservation[j] = "reserved"
    /\ job[j] = "failed"
    /\ Holding(j) = {}
    /\ Credit(j, "expired")
    /\ UNCHANGED <<rowVars, request, run, redisVars, task>>

\* sweep_once, fifteen minutes after the reservation: no run lasts that long
\* (each provider call is bounded by _HTTP_TIMEOUT_S).
Sweep(j) ==
    /\ reservation[j] = "reserved"
    /\ Holding(j) = {}
    /\ Credit(j, "expired")
    /\ UNCHANGED <<rowVars, request, run, redisVars, task>>

BackgroundStep == \E j \in Job : RequeueExpired(j) \/ FailExpired(j) \/ Sweep(j)

Next ==
    \/ RequestStep
    \/ LaneStep
    \/ \E w \in Worker : WorkerStep(w)
    \/ BackgroundStep

\* Every process that has a step to take goes on, or dies (Abandon) and leaves
\* the rest to the loops, which run in every worker process.
Fairness ==
    /\ \A w \in Worker : WF_vars(WorkerStep(w))
    /\ \A j \in Job : WF_vars(RequeueExpired(j) \/ FailExpired(j)) /\ WF_vars(Sweep(j))

Spec == Init /\ [][Next]_vars /\ Fairness

-----------------------------------------------------------------------------
\* Properties.

TypeOK ==
    /\ offer \in [Offer -> {"none", "submitted", "queued", "processing"} \cup Answer \cup Terminal]
    /\ request \in [Offer -> SUBSET Operation]
    /\ job \in [Job -> {"none", "queued", "running"} \cup Ended]
    /\ version \in [Job -> Nat]
    /\ retries \in [Job -> Nat]
    /\ DOMAIN error = Job
    /\ run \in [Job -> {"none", "pending"} \cup Answer]
    /\ queue \in [Tier -> Seq(Job)]
    /\ sending \subseteq [job : Job, tier : Tier, measured : BOOLEAN]
    /\ leaseSeq \in Nat
    /\ DOMAIN lease \subseteq 1..leaseSeq
    /\ DOMAIN task = Worker
    /\ used \in Nat
    /\ reservation \in [Job -> {"none", "reserved", "consumed", "released", "expired"}]
    /\ spent \in Nat

\* What can still make a worker claim the job: its payload on the way into a
\* list, in a list, or in the hands of a worker that has not claimed yet.
Tickets(j) ==
    {<<"sending", p.tier, p.measured>> : p \in {q \in sending : q.job = j}}
        \cup (UNION {{<<"queued", t, i>> : i \in {k \in DOMAIN queue[t] : queue[t][k] = j}} : t \in Tier})
        \cup {<<"leased", w>> : w \in {v \in Worker : On(v, "leased") /\ task[v].job = j}}

\* Claiming asks for no status (repository.py:166-188), so what keeps two
\* workers off a job, and every worker off an ended one, is that a payload only
\* exists for a queued job, and only once, whatever the reconciler re-enqueues.
OneTicket == \A j \in Job : /\ Cardinality(Tickets(j)) =< 1
                            /\ Tickets(j) # {} => job[j] = "queued"

\* Completed and failed jobs are final: no stale worker, late payload or
\* reconciler pass brings one back or turns one into the other.
EndedJobsStayEnded == [][\A j \in Job : job[j] \in Ended => job'[j] = job[j]]_vars

\* A job without a result has a request that says so: unless it was cancelled or
\* approved, the request shows the state of its latest job, at every moment and
\* after any takeover.  (Hence _reconcile_stuck_requests finds nothing.)
Shows(o) ==
    CASE job[LatestJob(o)] = "queued" -> {"submitted", "queued"}
      [] job[LatestJob(o)] = "running" -> {"processing"}
      [] job[LatestJob(o)] = "completed" -> Answer
      [] job[LatestJob(o)] = "failed" -> {"failed"}
OfferMatchesJob ==
    \A o \in Offer : Jobs(o) # {} => offer[o] \in Shows(o) \cup {"cancelled", "completed"}

\* What an operator reviews or has approved is a result of the request's latest
\* job, stored with its agent run by the worker that owned the job.
ReviewedHasResult ==
    \A o \in Offer : offer[o] \in {"needs_review", "completed"} =>
        /\ run[LatestJob(o)] = "needs_review"
        /\ job[LatestJob(o)] = "completed"

\* Together: whoever writes it last, a request tells of its latest job, and an
\* answer is only shown with the result it came from.
OfferTellsItsJob == OfferMatchesJob /\ ReviewedHasResult

\* The daily counter never falls below the tokens recorded as consumed, whatever
\* is released, swept, repeated by a retry or reported by a fenced-off worker.
SpendIsCounted == used >= spent

\* A job whose worker died, or lost its database, does not stay running.
RunningEnds == \A j \in Job : job[j] = "running" ~> job[j] # "running"

\* No reservation outlives its run for ever (docs: budget.py:8-12).
ReservationsSettle == \A j \in Job : reservation[j] = "reserved" ~> reservation[j] # "reserved"
=============================================================================
