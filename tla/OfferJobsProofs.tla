---------------------------- MODULE OfferJobsProofs ----------------------------
(***************************************************************************)
(* The offer pipeline, for every number of requests, workers, retries and  *)
(* limits: its types, that a payload exists once and for a queued job      *)
(* only, that ended jobs stay ended, that a request shows its latest job,  *)
(* that a reviewed request has a result, and that the budget counter       *)
(* covers what was spent.                                                  *)
(*                                                                         *)
(* Nothing in the database keeps a second worker off a job, so the         *)
(* argument is about where payloads are (Place), about the lease version   *)
(* (Fence: who holds the current one runs the job, and nobody else holds   *)
(* it), and about the attempts of a request, which are numbered without    *)
(* gaps (Chain), so that more-info always makes a new one. Match says what *)
(* each state of a request tells of its jobs: which is the latest (Top),   *)
(* what the request shows of it (Told), and that the ones before it have   *)
(* ended (Older).                                                          *)
(*                                                                         *)
(* The counter is raised, credited and adjusted by different processes in  *)
(* different transactions. Covered counts the estimates it still owes: one *)
(* for each run that has reserved and not settled, and one for each        *)
(* reservation row whose run is gone and which the sweeper will credit.    *)
(***************************************************************************)
EXTENDS OfferJobs, FiniteSetTheorems, TLAPS

Code == {"none", "budget", "inputs", "transport", "rejected", "expired"}
Err == [code : Code, repeat : Nat]

Task ==
    {Idle}
    \cup [at : {"leased"}, job : Job, token : Nat]
    \cup [at : {"claimed", "holding", "calling", "acking"}, job : Job, token : Nat,
          version : Nat, prior : Err]
    \cup [at : {"releasing", "failing"}, job : Job, token : Nat,
          version : Nat, prior : Err, code : Code]

Types ==
    /\ TypeOK
    /\ error \in [Job -> Err]
    /\ task \in [Worker -> Task]

\* Between the claim and the end of the run.
Claimed(w) == task[w].at \in {"claimed", "holding", "calling", "releasing", "failing"}

\* The attempts of a request are 1..n, and a request that asks for more has one left.
Chain(o) ==
    \E n \in 0..MaxAttempts :
        /\ \A i \in 1..MaxAttempts : job[<<o, i>>] # "none" <=> i =< n
        /\ offer[o] = "none" <=> n = 0
        /\ "more_info" \in request[o] => n \in 1..(MaxAttempts - 1)
        /\ n = 0 => request[o] = {}
Chains == \A o \in Offer : Chain(o)

\* Where the payload of a job is: once, and only while the job is queued.
OneParcel == \A p, q \in sending : p.job = q.job => p = q
OneEntry ==
    \A t, u \in Tier : \A i \in 1..Len(queue[t]), k \in 1..Len(queue[u]) :
        queue[t][i] = queue[u][k] => t = u /\ i = k
OneHand == \A v, w \in Worker : On(v, "leased") /\ On(w, "leased") /\ task[v].job = task[w].job => v = w
Apart ==
    /\ \A p \in sending : \A t \in Tier : \A i \in 1..Len(queue[t]) : p.job # queue[t][i]
    /\ \A p \in sending : \A w \in Worker : On(w, "leased") => p.job # task[w].job
    /\ \A w \in Worker : On(w, "leased") =>
        \A t \in Tier : \A i \in 1..Len(queue[t]) : task[w].job # queue[t][i]
Waiting ==
    /\ \A p \in sending : job[p.job] = "queued"
    /\ \A t \in Tier : \A i \in 1..Len(queue[t]) : job[queue[t][i]] = "queued"
    /\ \A w \in Worker : On(w, "leased") => job[task[w].job] = "queued"
Place == OneParcel /\ OneEntry /\ OneHand /\ Apart /\ Waiting

\* The current lease version has one holder at most, and its job runs.
Fence ==
    /\ \A w \in Worker : Claimed(w) =>
        /\ task[w].version =< version[task[w].job]
        /\ task[w].version = version[task[w].job] => job[task[w].job] = "running"
    /\ \A v, w \in Worker :
        Claimed(v) /\ Claimed(w) /\ task[v].job = task[w].job /\ task[v].version = task[w].version => v = w

IInv == Types /\ Chains /\ Place /\ Fence

-----------------------------------------------------------------------------
(* What steps leave alone. *)

\* Rows are neither added nor removed.
LEMMA ChainsKept ==
  ASSUME Chains,
         \A j \in Job : job'[j] # "none" <=> job[j] # "none",
         \A o \in Offer : offer'[o] = "none" <=> offer[o] = "none",
         \A o \in Offer : request'[o] \subseteq request[o]
  PROVE  Chains'
  <1> SUFFICES ASSUME NEW o \in Offer PROVE Chain(o)'
    BY DEF Chains
  <1>1. PICK n \in 0..MaxAttempts :
            /\ \A i \in 1..MaxAttempts : job[<<o, i>>] # "none" <=> i =< n
            /\ offer[o] = "none" <=> n = 0
            /\ "more_info" \in request[o] => n \in 1..(MaxAttempts - 1)
            /\ n = 0 => request[o] = {}
    BY DEF Chains, Chain
  <1>2. \A i \in 1..MaxAttempts : job'[<<o, i>>] # "none" <=> i =< n
    BY <1>1 DEF Job
  <1> QED
    BY <1>1, <1>2 DEF Chain

\* No payload moves, none is taken, and jobs that wait go on waiting.
LEMMA PlaceKept ==
  ASSUME Types, Place, UNCHANGED <<queue, sending>>,
         \A w \in Worker : task'[w].at = "leased" => task'[w] = task[w],
         \A j \in Job : job[j] = "queued" => job'[j] = "queued"
  PROVE  Place'
  <1>1. OneParcel' /\ OneEntry'
    BY DEF Place, OneParcel, OneEntry
  <1>2. OneHand' /\ Apart'
    BY DEF Place, OneHand, Apart, On
  <1>3. Waiting'
    <2>1. \A p \in sending : p.job \in Job
      BY DEF Types, TypeOK
    <2>2. \A t \in Tier : \A i \in 1..Len(queue[t]) : queue[t][i] \in Job
      BY DEF Types, TypeOK
    <2>3. \A w \in Worker : On(w, "leased") => task[w].job \in Job
      BY DEF Types, Task, Idle, On
    <2> QED
      BY <2>1, <2>2, <2>3 DEF Place, Waiting, On
  <1> QED
    BY <1>1, <1>2, <1>3 DEF Place

\* Nobody claims, versions only grow, and who still holds the current one runs.
LEMMA FenceKept ==
  ASSUME Types, Fence,
         \A w \in Worker : Claimed(w)' =>
            Claimed(w) /\ task'[w].job = task[w].job /\ task'[w].version = task[w].version,
         \A j \in Job : version'[j] \in Nat /\ version'[j] >= version[j],
         \A w \in Worker : Claimed(w)' /\ task[w].version = version'[task[w].job] =>
            job'[task[w].job] = "running"
  PROVE  Fence'
  <1>1. \A w \in Worker : Claimed(w) => task[w].job \in Job /\ task[w].version \in Nat
    BY DEF Types, Task, Idle, Claimed
  <1>2. version \in [Job -> Nat]
    BY DEF Types, TypeOK
  <1>3. ASSUME NEW w \in Worker, Claimed(w)'
        PROVE  /\ task'[w].version =< version'[task'[w].job]
               /\ task'[w].version = version'[task'[w].job] => job'[task'[w].job] = "running"
    <2>1. /\ Claimed(w) /\ task'[w].job = task[w].job /\ task'[w].version = task[w].version
          /\ task[w].job \in Job /\ task[w].version \in Nat
      BY <1>1, <1>3
    <2>2. task[w].version =< version[task[w].job]
      BY <2>1 DEF Fence
    <2> QED
      BY <1>2, <1>3, <2>1, <2>2
  <1>4. \A v, w \in Worker :
          Claimed(v)' /\ Claimed(w)' /\ task'[v].job = task'[w].job /\ task'[v].version = task'[w].version => v = w
    BY DEF Fence
  <1> QED
    BY <1>3, <1>4 DEF Fence, Claimed

-----------------------------------------------------------------------------
(* Payloads. *)

\* A job that starts to wait had no payload: it gets one.
LEMMA NewParcel ==
  ASSUME Types, Place, NEW j \in Job, NEW t, job[j] # "queued", job'[j] = "queued",
         \A k \in Job : job[k] = "queued" => job'[k] = "queued",
         sending' = sending \cup {Parcel(j, t)}, UNCHANGED <<queue, task>>
  PROVE  Place'
  <1>1. Parcel(j, t).job = j
    BY DEF Parcel
  <1>2. \A p \in sending : p.job \in Job /\ p.job # j
    BY DEF Types, TypeOK, Place, Waiting
  <1>3. \A u \in Tier : \A i \in 1..Len(queue[u]) : queue[u][i] \in Job /\ queue[u][i] # j
    BY DEF Types, TypeOK, Place, Waiting
  <1>4. \A w \in Worker : On(w, "leased") => task[w].job \in Job /\ task[w].job # j
    BY DEF Types, Task, Idle, On, Place, Waiting
  <1>5. OneParcel'
    BY <1>1, <1>2 DEF Place, OneParcel
  <1>6. OneEntry' /\ OneHand'
    BY DEF Place, OneEntry, OneHand, On
  <1>7. Apart'
    BY <1>1, <1>3, <1>4 DEF Place, Apart, On
  <1>8. Waiting'
    BY <1>1, <1>2, <1>3, <1>4 DEF Place, Waiting, On
  <1> QED
    BY <1>5, <1>6, <1>7, <1>8 DEF Place

\* enqueue_offer_job has read the length of the list.
LEMMA MeasureStep == ASSUME IInv, NEW p \in sending, Measure(p) PROVE IInv'
  <1> DEFINE q == [p EXCEPT !.measured = TRUE]
  <1>1. p \in [job : Job, tier : Tier, measured : BOOLEAN]
    BY DEF IInv, Types, TypeOK
  <1>2. q \in [job : Job, tier : Tier, measured : BOOLEAN] /\ q.job = p.job
    BY <1>1
  <1>3. sending' = (sending \ {p}) \cup {q} /\ UNCHANGED <<rowVars, request, run, queue, lease, leaseSeq, task, budgetVars>>
    BY DEF Measure
  <1> HIDE DEF q
  <1>4. Types'
    BY <1>2, <1>3 DEF IInv, Types, TypeOK, rowVars, budgetVars
  <1>5. Place'
    BY <1>2, <1>3 DEF IInv, Place, OneParcel, OneEntry, OneHand, Apart, Waiting, On, rowVars
  <1>6. Chains' /\ Fence'
    BY <1>3 DEF IInv, Chains, Chain, Fence, Claimed, rowVars
  <1> QED
    BY <1>4, <1>5, <1>6 DEF IInv

\* RPUSH: the parcel becomes the last entry.
LEMMA PushStep == ASSUME IInv, NEW p \in sending, Push(p) PROVE IInv'
  <1>1. p \in [job : Job, tier : Tier, measured : BOOLEAN]
    BY DEF IInv, Types, TypeOK
  <1>2. /\ queue' = [queue EXCEPT ![p.tier] = Append(@, p.job)]
        /\ sending' = sending \ {p}
        /\ UNCHANGED <<rowVars, request, run, lease, leaseSeq, task, budgetVars>>
    BY DEF Push
  <1>3. queue \in [Tier -> Seq(Job)]
    BY DEF IInv, Types, TypeOK
  <1>4. queue' \in [Tier -> Seq(Job)]
    BY <1>1, <1>2, <1>3
  <1>5. \A t \in Tier : \A i \in 1..Len(queue'[t]) :
          \/ i \in 1..Len(queue[t]) /\ queue'[t][i] = queue[t][i]
          \/ t = p.tier /\ i = Len(queue[t]) + 1 /\ queue'[t][i] = p.job
    BY <1>1, <1>2, <1>3
  <1>6. Types'
    BY <1>2, <1>4 DEF IInv, Types, TypeOK, rowVars, budgetVars
  <1>7. OneParcel' /\ OneHand'
    BY <1>2 DEF IInv, Place, OneParcel, OneHand, On
  <1>8. OneEntry'
    <2> SUFFICES ASSUME NEW t \in Tier, NEW u \in Tier, NEW i \in 1..Len(queue'[t]), NEW k \in 1..Len(queue'[u]),
                        queue'[t][i] = queue'[u][k]
                 PROVE  t = u /\ i = k
      BY DEF OneEntry
    <2>1. \A v \in Tier : \A n \in 1..Len(queue[v]) : p.job # queue[v][n]
      BY DEF IInv, Place, Apart
    <2> QED
      BY <1>5, <2>1 DEF IInv, Place, OneEntry
  <1>9. Apart'
    <2>1. ASSUME NEW q \in sending', NEW t \in Tier, NEW i \in 1..Len(queue'[t]) PROVE q.job # queue'[t][i]
      <3>1. q \in sending /\ q # p
        BY <1>2
      <3>2. q.job # p.job
        BY <3>1 DEF IInv, Place, OneParcel
      <3> QED
        BY <1>5, <3>1, <3>2 DEF IInv, Place, Apart
    <2>2. ASSUME NEW w \in Worker, On(w, "leased")', NEW t \in Tier, NEW i \in 1..Len(queue'[t])
          PROVE  task'[w].job # queue'[t][i]
      <3>1. On(w, "leased") /\ task'[w] = task[w]
        BY <1>2, <2>2 DEF On
      <3> QED
        BY <1>5, <3>1 DEF IInv, Place, Apart
    <2>3. \A q \in sending' : \A w \in Worker : On(w, "leased")' => q.job # task'[w].job
      BY <1>2 DEF IInv, Place, Apart, On
    <2> QED
      BY <2>1, <2>2, <2>3 DEF Apart
  <1>10. Waiting'
    BY <1>2, <1>5 DEF IInv, Place, Waiting, On, rowVars
  <1>11. Chains' /\ Fence'
    BY <1>2 DEF IInv, Chains, Chain, Fence, Claimed, rowVars
  <1> QED
    BY <1>6, <1>7, <1>8, <1>9, <1>10, <1>11 DEF IInv, Place

LEMMA LosePayloadStep == ASSUME IInv, NEW p \in sending, LosePayload(p) PROVE IInv'
  <1>1. sending' = sending \ {p} /\ UNCHANGED <<rowVars, request, run, queue, lease, leaseSeq, task, budgetVars>>
    BY DEF LosePayload
  <1>2. Types'
    BY <1>1 DEF IInv, Types, TypeOK, rowVars, budgetVars
  <1>3. Place'
    BY <1>1 DEF IInv, Place, OneParcel, OneEntry, OneHand, Apart, Waiting, On, rowVars
  <1>4. Chains' /\ Fence'
    BY <1>1 DEF IInv, Chains, Chain, Fence, Claimed, rowVars
  <1> QED
    BY <1>2, <1>3, <1>4 DEF IInv

\* The lease script: the first entry of a list is in a worker's hands.
LEMMA DequeueStep == ASSUME IInv, NEW w \in Worker, NEW t \in Tier, Dequeue(w, t) PROVE IInv'
  <1> DEFINE j == Head(queue[t])
             x == [at |-> "leased", job |-> j, token |-> leaseSeq + 1]
  <1>1. /\ task[w].at = "idle" /\ queue[t] # <<>>
        /\ queue' = [queue EXCEPT ![t] = Tail(@)]
        /\ leaseSeq' = leaseSeq + 1
        /\ DOMAIN lease' = DOMAIN lease \cup {leaseSeq + 1}
        /\ task' = [task EXCEPT ![w] = x]
        /\ UNCHANGED <<rowVars, request, run, sending, budgetVars>>
    BY DEF Dequeue, Served
  <1>2. queue \in [Tier -> Seq(Job)] /\ leaseSeq \in Nat /\ DOMAIN lease \subseteq 1..leaseSeq
    BY DEF IInv, Types, TypeOK
  <1>3. j \in Job /\ 1 \in 1..Len(queue[t]) /\ queue[t][1] = j
    BY <1>1, <1>2
  <1>4. queue' \in [Tier -> Seq(Job)]
    BY <1>1, <1>2
  <1>5. \A u \in Tier : \A i \in 1..Len(queue'[u]) :
          \/ u # t /\ i \in 1..Len(queue[u]) /\ queue'[u][i] = queue[u][i]
          \/ u = t /\ i + 1 \in 2..Len(queue[t]) /\ queue'[u][i] = queue[t][i + 1]
    BY <1>1, <1>2
  <1>6. x \in Task /\ x.job = j /\ x.at = "leased"
    BY <1>2, <1>3 DEF Task
  <1> HIDE DEF j, x
  <1>7. \A v \in Worker : task'[v] = IF v = w THEN x ELSE task[v]
    BY <1>1 DEF IInv, Types
  <1>8. Types'
    <2>1. task' \in [Worker -> Task]
      BY <1>1, <1>6 DEF IInv, Types
    <2>2. DOMAIN lease' \subseteq 1..leaseSeq' /\ leaseSeq' \in Nat
      BY <1>1, <1>2
    <2> QED
      BY <1>1, <1>4, <2>1, <2>2 DEF IInv, Types, TypeOK, rowVars, budgetVars
  <1>9. OneParcel'
    BY <1>1 DEF IInv, Place, OneParcel
  <1>10. OneEntry'
    <2> SUFFICES ASSUME NEW u \in Tier, NEW v \in Tier, NEW i \in 1..Len(queue'[u]), NEW k \in 1..Len(queue'[v]),
                        queue'[u][i] = queue'[v][k]
                 PROVE  u = v /\ i = k
      BY DEF OneEntry
    <2>1. i \in Int /\ k \in Int /\ \A n \in 2..Len(queue[t]) : n \in 1..Len(queue[t])
      BY <1>2
    <2> QED
      BY <1>5, <2>1 DEF IInv, Place, OneEntry
  <1>11. \A v \in Worker : On(v, "leased") => task[v].job # j
    BY <1>3 DEF IInv, Place, Apart
  <1>12. OneHand'
    BY <1>6, <1>7, <1>11 DEF IInv, Place, OneHand, On
  <1>13. Apart'
    <2>1. \A u \in Tier : \A i \in 1..Len(queue'[u]) : \E v \in Tier : \E k \in 1..Len(queue[v]) :
            queue'[u][i] = queue[v][k] /\ ~(v = t /\ k = 1)
      <3> TAKE u \in Tier
      <3> TAKE i \in 1..Len(queue'[u])
      <3>1. CASE u # t /\ i \in 1..Len(queue[u]) /\ queue'[u][i] = queue[u][i]
        BY <3>1
      <3>2. CASE u = t /\ i + 1 \in 2..Len(queue[t]) /\ queue'[u][i] = queue[t][i + 1]
        <4>1. i + 1 \in 1..Len(queue[t]) /\ i + 1 # 1
          BY <1>2, <3>2
        <4> QED
          BY <3>2, <4>1
      <3> QED
        BY <1>5, <3>1, <3>2
    <2>2. \A u \in Tier : \A i \in 1..Len(queue'[u]) : queue'[u][i] # j
      BY <1>3, <2>1 DEF IInv, Place, OneEntry
    <2>3. \A p \in sending : p.job # j
      BY <1>3 DEF IInv, Place, Apart
    <2>4. \A p \in sending : \A u \in Tier : \A i \in 1..Len(queue'[u]) : p.job # queue'[u][i]
      BY <2>1 DEF IInv, Place, Apart
    <2>5. \A p \in sending : \A v \in Worker : On(v, "leased")' => p.job # task'[v].job
      BY <1>6, <1>7, <2>3 DEF IInv, Place, Apart, On
    <2>6. \A v \in Worker : On(v, "leased")' =>
            \A u \in Tier : \A i \in 1..Len(queue'[u]) : task'[v].job # queue'[u][i]
      BY <1>6, <1>7, <2>1, <2>2 DEF IInv, Place, Apart, On
    <2> QED
      BY <1>1, <2>4, <2>5, <2>6 DEF Apart
  <1>14. Waiting'
    <2>1. \A u \in Tier : \A i \in 1..Len(queue'[u]) : job[queue'[u][i]] = "queued"
      <3>1. \A n \in 2..Len(queue[t]) : n \in 1..Len(queue[t])
        BY <1>2
      <3> QED
        BY <1>5, <3>1 DEF IInv, Place, Waiting
    <2>2. \A v \in Worker : On(v, "leased")' => job[task'[v].job] = "queued"
      BY <1>3, <1>6, <1>7 DEF IInv, Place, Waiting, On
    <2>3. \A p \in sending : job[p.job] = "queued"
      BY DEF IInv, Place, Waiting
    <2> QED
      BY <1>1, <2>1, <2>2, <2>3 DEF Waiting, rowVars
  <1>15. Chains'
    BY <1>1 DEF IInv, Chains, Chain, rowVars
  <1>16. Fence'
    BY <1>1, <1>6, <1>7 DEF IInv, Fence, Claimed, rowVars
  <1> QED
    BY <1>8, <1>9, <1>10, <1>12, <1>13, <1>14, <1>15, <1>16 DEF IInv, Place

-----------------------------------------------------------------------------
(* Requests. *)

\* get_latest_offer_job_for_request: the attempts are numbered without gaps.
LEMMA LatestIs ==
  ASSUME NEW o \in Offer, NEW n \in 1..MaxAttempts,
         \A i \in 1..MaxAttempts : job[<<o, i>>] # "none" <=> i =< n
  PROVE  Jobs(o) # {} /\ LatestJob(o) = <<o, n>>
  <1> USE OfferAssumption
  <1>1. n \in Nat /\ MaxAttempts \in Nat
    OBVIOUS
  <1>2. <<o, n>> \in Jobs(o)
    BY <1>1 DEF Jobs, Job
  <1>3. \A j \in Jobs(o) : j = <<o, j[2]>> /\ j[2] \in 1..MaxAttempts /\ j[2] =< n
    BY DEF Jobs, Job
  <1>4. \A k \in Jobs(o) : k[2] =< <<o, n>>[2]
    BY <1>3
  <1>5. \A j \in Jobs(o) : (\A k \in Jobs(o) : k[2] =< j[2]) => j = <<o, n>>
    BY <1>1, <1>2, <1>3
  <1>6. LatestJob(o) \in Jobs(o) /\ \A k \in Jobs(o) : k[2] =< LatestJob(o)[2]
    <2> DEFINE P(j) == \A k \in Jobs(o) : k[2] =< j[2]
    <2>1. \E j \in Jobs(o) : P(j)
      BY <1>2, <1>4
    <2>2. LatestJob(o) = CHOOSE j \in Jobs(o) : P(j)
      BY DEF LatestJob
    <2> HIDE DEF P
    <2>3. LatestJob(o) \in Jobs(o) /\ P(LatestJob(o))
      BY <2>1, <2>2
    <2> QED
      BY <2>3 DEF P
  <1> QED
    BY <1>2, <1>5, <1>6

LEMMA SubmitStep == ASSUME IInv, NEW o \in Offer, NEW t \in Asked, Submit(o, t) PROVE IInv'
  <1> USE OfferAssumption
  <1> DEFINE j == <<o, 1>>
  <1>1. j \in Job /\ 1 \in 1..MaxAttempts
    BY DEF Job
  <1>2. /\ offer[o] = "none"
        /\ offer' = [offer EXCEPT ![o] = "submitted"]
        /\ job' = [job EXCEPT ![j] = "queued"]
        /\ sending' = sending \cup {Parcel(j, t)}
        /\ UNCHANGED <<request, version, retries, error, run, queue, lease, leaseSeq, task, budgetVars>>
    BY DEF Submit
  <1>3. /\ \A i \in 1..MaxAttempts : job[<<o, i>>] = "none"
        /\ request[o] = {}
    <2>1. PICK n \in 0..MaxAttempts :
            /\ \A i \in 1..MaxAttempts : job[<<o, i>>] # "none" <=> i =< n
            /\ offer[o] = "none" <=> n = 0
            /\ "more_info" \in request[o] => n \in 1..(MaxAttempts - 1)
            /\ n = 0 => request[o] = {}
      BY DEF IInv, Chains, Chain
    <2> QED
      BY <1>2, <2>1
  <1>4. job[j] = "none" /\ job \in [Job -> {"none", "queued", "running"} \cup Ended]
    BY <1>1, <1>3 DEF IInv, Types, TypeOK
  <1>5. Types'
    <2>1. Parcel(j, t) \in [job : Job, tier : Tier, measured : BOOLEAN]
      BY <1>1 DEF Parcel, Tier
    <2> QED
      BY <1>1, <1>2, <2>1 DEF IInv, Types, TypeOK, budgetVars
  <1>6. Chains'
    <2>1. ASSUME NEW q \in Offer, q # o PROVE Chain(q)'
      <3>1. Chain(q)
        BY DEF IInv, Chains
      <3>2. \A i \in 1..MaxAttempts : job'[<<q, i>>] = job[<<q, i>>]
        BY <1>2, <1>4, <2>1 DEF Job
      <3>3. offer'[q] = offer[q] /\ request' = request
        BY <1>2, <2>1 DEF IInv, Types, TypeOK
      <3> QED
        BY <3>1, <3>2, <3>3 DEF Chain
    <2>2. Chain(o)'
      <3>1. \A i \in 1..MaxAttempts : job'[<<o, i>>] # "none" <=> i =< 1
        BY <1>1, <1>2, <1>3, <1>4 DEF Job
      <3>2. offer'[o] # "none" /\ "more_info" \notin request'[o]
        BY <1>2, <1>3 DEF IInv, Types, TypeOK
      <3> QED
        BY <3>1, <3>2 DEF Chain
    <2> QED
      BY <2>1, <2>2 DEF Chains
  <1> HIDE DEF j
  <1>7. Place'
    BY <1>1, <1>2, <1>4, NewParcel DEF IInv
  <1>8. Fence'
    <2>1. \A w \in Worker : Claimed(w) => task[w].job \in Job
      BY DEF IInv, Types, Task, Idle, Claimed
    <2>2. version \in [Job -> Nat]
      BY DEF IInv, Types, TypeOK
    <2>3. \A w \in Worker : Claimed(w)' => Claimed(w)
      BY <1>2 DEF Claimed
    <2>4. \A w \in Worker : Claimed(w) /\ task[w].version = version'[task[w].job] => job'[task[w].job] = "running"
      BY <1>2, <1>4, <2>1 DEF IInv, Fence
    <2> QED
      BY <1>2, <2>2, <2>3, <2>4, FenceKept DEF IInv
  <1> QED
    BY <1>5, <1>6, <1>7, <1>8 DEF IInv

\* A check that passed for more-info leaves an attempt to make.
LEMMA CheckStep == ASSUME IInv, NEW o \in Offer, NEW op \in Operation, Check(o, op) PROVE IInv'
  <1> USE OfferAssumption
  <1>1. /\ request' = [request EXCEPT ![o] = @ \cup {op}]
        /\ offer[o] \in Allowed(op)
        /\ op = "more_info" => LatestJob(o)[2] < MaxAttempts
        /\ UNCHANGED <<rowVars, run, redisVars, task, budgetVars>>
    BY DEF Check
  <1>2. Types'
    BY <1>1 DEF IInv, Types, TypeOK, rowVars, redisVars, budgetVars
  <1>3. Place' /\ Fence'
    BY <1>1 DEF IInv, Place, OneParcel, OneEntry, OneHand, Apart, Waiting, Fence, Claimed, On, rowVars, redisVars
  <1>4. Chains'
    <2>1. \A q \in Offer : request'[q] = IF q = o THEN request[o] \cup {op} ELSE request[q]
      BY <1>1 DEF IInv, Types, TypeOK
    <2>2. ASSUME NEW q \in Offer PROVE Chain(q)'
      <3>1. PICK n \in 0..MaxAttempts :
            /\ \A i \in 1..MaxAttempts : job[<<q, i>>] # "none" <=> i =< n
            /\ offer[q] = "none" <=> n = 0
            /\ "more_info" \in request[q] => n \in 1..(MaxAttempts - 1)
            /\ n = 0 => request[q] = {}
        BY DEF IInv, Chains, Chain
      <3>2. CASE q = o /\ op = "more_info"
        <4>1. offer[o] # "none"
          BY <1>1, <3>2 DEF Allowed
        <4>2. n \in 1..MaxAttempts
          BY <3>1, <3>2, <4>1
        <4>3. LatestJob(o) = <<o, n>>
          BY <3>1, <3>2, <4>2, LatestIs
        <4>4. n \in 1..(MaxAttempts - 1)
          BY <1>1, <3>2, <4>2, <4>3
        <4> QED
          BY <1>1, <3>1, <4>4 DEF Chain, rowVars
      <3>3. CASE ~(q = o /\ op = "more_info")
        <4>1. "more_info" \in request'[q] => "more_info" \in request[q]
          BY <2>1, <3>3
        <4>2. n = 0 => request'[q] = {}
          BY <1>1, <2>1, <3>1 DEF Allowed, Operation
        <4> QED
          BY <1>1, <3>1, <4>1, <4>2 DEF Chain, rowVars
      <3> QED
        BY <3>2, <3>3
    <2> QED
      BY <2>2 DEF Chains
  <1> QED
    BY <1>2, <1>3, <1>4 DEF IInv

LEMMA CloseStep == ASSUME IInv, NEW o \in Offer, Cancel(o) \/ Approve(o) PROVE IInv'
  <1>1. PICK op \in {"cancel", "approve"} : request' = [request EXCEPT ![o] = @ \ {op}] /\ op \in request[o]
    BY DEF Cancel, Approve, Close
  <1>2. PICK st \in Terminal : offer' = [offer EXCEPT ![o] = st]
    BY DEF Cancel, Approve, Terminal
  <1>3. UNCHANGED <<job, version, retries, error, run, redisVars, task, budgetVars>>
    BY DEF Cancel, Approve
  <1>4. Types'
    BY <1>1, <1>2, <1>3 DEF IInv, Types, TypeOK, redisVars, budgetVars
  <1>5. Place' /\ Fence'
    BY <1>3 DEF IInv, Place, OneParcel, OneEntry, OneHand, Apart, Waiting, Fence, Claimed, On, redisVars
  <1>6. offer[o] # "none"
    BY <1>1 DEF IInv, Chains, Chain
  <1>7. Chains'
    BY <1>1, <1>2, <1>3, <1>6, ChainsKept DEF IInv, Types, TypeOK, Terminal
  <1> QED
    BY <1>4, <1>5, <1>7 DEF IInv

\* provide_more_info: the attempt after the latest is a new one.
LEMMA MoreInfoStep == ASSUME IInv, NEW o \in Offer, NEW t \in Asked, MoreInfo(o, t) PROVE IInv'
  <1> USE OfferAssumption
  <1>1. PICK n \in 1..(MaxAttempts - 1) : \A i \in 1..MaxAttempts : job[<<o, i>>] # "none" <=> i =< n
    BY DEF IInv, Chains, Chain, MoreInfo
  <1> DEFINE j == <<o, n + 1>>
  <1>2. n \in 1..MaxAttempts /\ n + 1 \in 1..MaxAttempts /\ j \in Job
    BY DEF Job
  <1>3. LatestJob(o) = <<o, n>>
    BY <1>1, <1>2, LatestIs
  <1>4. /\ request' = [request EXCEPT ![o] = @ \ {"more_info"}]
        /\ job' = [job EXCEPT ![j] = "queued"]
        /\ offer' = [offer EXCEPT ![o] = "queued"]
        /\ sending' = sending \cup {Parcel(j, t)}
        /\ UNCHANGED <<version, retries, error, run, queue, lease, leaseSeq, task, budgetVars>>
    BY <1>3 DEF MoreInfo, Close
  <1>5. job[j] = "none" /\ job \in [Job -> {"none", "queued", "running"} \cup Ended]
    BY <1>1, <1>2 DEF IInv, Types, TypeOK
  <1>6. Types'
    <2>1. Parcel(j, t) \in [job : Job, tier : Tier, measured : BOOLEAN]
      BY <1>2 DEF Parcel, Tier
    <2> HIDE DEF j
    <2> QED
      BY <1>2, <1>4, <2>1 DEF IInv, Types, TypeOK, budgetVars
  <1>7. Chains'
    <2>1. ASSUME NEW q \in Offer, q # o PROVE Chain(q)'
      <3>1. Chain(q)
        BY DEF IInv, Chains
      <3>2. \A i \in 1..MaxAttempts : job'[<<q, i>>] = job[<<q, i>>]
        BY <1>4, <1>5, <2>1 DEF Job
      <3>3. offer'[q] = offer[q] /\ request'[q] = request[q]
        BY <1>4, <2>1 DEF IInv, Types, TypeOK
      <3> QED
        BY <3>1, <3>2, <3>3 DEF Chain
    <2>2. Chain(o)'
      <3>1. \A i \in 1..MaxAttempts : job'[<<o, i>>] # "none" <=> i =< n + 1
        <4>1. \A i \in 1..MaxAttempts : job'[<<o, i>>] = IF i = n + 1 THEN "queued" ELSE job[<<o, i>>]
          BY <1>4, <1>5 DEF Job
        <4> QED
          BY <1>1, <4>1
      <3>2. offer'[o] # "none" /\ "more_info" \notin request'[o]
        BY <1>4 DEF IInv, Types, TypeOK
      <3> QED
        BY <1>2, <3>1, <3>2 DEF Chain
    <2> QED
      BY <2>1, <2>2 DEF Chains
  <1> HIDE DEF j
  <1>8. Place'
    BY <1>2, <1>4, <1>5, NewParcel DEF IInv
  <1>9. Fence'
    <2>1. \A w \in Worker : Claimed(w) => task[w].job \in Job
      BY DEF IInv, Types, Task, Idle, Claimed
    <2>2. version \in [Job -> Nat]
      BY DEF IInv, Types, TypeOK
    <2>3. \A w \in Worker : Claimed(w)' => Claimed(w)
      BY <1>4 DEF Claimed
    <2>4. \A w \in Worker : Claimed(w) /\ task[w].version = version'[task[w].job] => job'[task[w].job] = "running"
      BY <1>4, <1>5, <2>1 DEF IInv, Fence
    <2> QED
      BY <1>4, <2>2, <2>3, <2>4, FenceKept DEF IInv
  <1> QED
    BY <1>6, <1>7, <1>8, <1>9 DEF IInv

-----------------------------------------------------------------------------
(* Workers. *)

\* A run goes on or ends, and no row of the pipeline changes.
LEMMA WorkerMoves ==
  ASSUME IInv, NEW w \in Worker, NEW x \in Task,
         task' = [task EXCEPT ![w] = x],
         x.at # "leased",
         x.at \in {"claimed", "holding", "calling", "releasing", "failing"} =>
            Claimed(w) /\ x.job = task[w].job /\ x.version = task[w].version,
         UNCHANGED <<rowVars, request, queue, sending, leaseSeq>>,
         DOMAIN lease' \subseteq DOMAIN lease,
         run' \in [Job -> {"none", "pending"} \cup Answer],
         used' \in Nat, spent' \in Nat,
         reservation' \in [Job -> {"none", "reserved", "consumed", "released", "expired"}]
  PROVE  IInv'
  <1>1. \A v \in Worker : task'[v] = IF v = w THEN x ELSE task[v]
    BY DEF IInv, Types
  <1>2. Types'
    <2>1. task' \in [Worker -> Task]
      BY DEF IInv, Types
    <2> QED
      BY <2>1 DEF IInv, Types, TypeOK, rowVars
  <1>3. Chains'
    BY ChainsKept DEF IInv, rowVars
  <1>4. Place'
    BY <1>1, PlaceKept DEF IInv, rowVars
  <1>5. Fence'
    <2>1. \A v \in Worker : Claimed(v)' =>
            Claimed(v) /\ task'[v].job = task[v].job /\ task'[v].version = task[v].version
      BY <1>1 DEF Claimed
    <2>2. version \in [Job -> Nat]
      BY DEF IInv, Types, TypeOK
    <2>3. \A v \in Worker : Claimed(v)' /\ task[v].version = version'[task[v].job] => job'[task[v].job] = "running"
      BY <2>1 DEF IInv, Fence, rowVars
    <2> QED
      BY <2>1, <2>2, <2>3, FenceKept DEF IInv, rowVars
  <1> QED
    BY <1>2, <1>3, <1>4, <1>5 DEF IInv

LEMMA BudgetTypes ==
  ASSUME IInv, NEW j \in Job,
         \/ Hold(j) \/ UNCHANGED budgetVars
         \/ \E to \in {"released", "expired"} : Credit(j, to)
         \/ \E n \in Actual : RecordActual(j, n)
  PROVE  /\ used' \in Nat /\ spent' \in Nat
         /\ reservation' \in [Job -> {"none", "reserved", "consumed", "released", "expired"}]
  <1>1. /\ used \in Nat /\ spent \in Nat /\ Estimate \in Nat /\ Actual \subseteq Nat
        /\ reservation \in [Job -> {"none", "reserved", "consumed", "released", "expired"}]
    BY OfferAssumption DEF IInv, Types, TypeOK
  <1>2. \A i \in Int : AtLeastZero(i) \in Nat
    BY DEF AtLeastZero
  <1>3. CASE Hold(j)
    BY <1>1, <1>3 DEF Hold
  <1>4. CASE \E to \in {"released", "expired"} : Credit(j, to)
    BY <1>1, <1>2, <1>4 DEF Credit
  <1>5. CASE \E n \in Actual : RecordActual(j, n)
    BY <1>1, <1>2, <1>5 DEF RecordActual
  <1>6. CASE UNCHANGED budgetVars
    BY <1>1, <1>6 DEF budgetVars
  <1> QED
    BY <1>3, <1>4, <1>5, <1>6

\* A place of the same shape.
LEMMA GotoMoves ==
  ASSUME IInv, NEW w \in Worker, NEW from \in {"claimed", "holding"}, On(w, from),
         NEW to \in {"holding", "calling"}, Goto(w, to)
  PROVE  \E x \in Task : /\ task' = [task EXCEPT ![w] = x] /\ x.at = to
                         /\ x.job = task[w].job /\ x.version = task[w].version
  <1> DEFINE x == [task[w] EXCEPT !.at = to]
  <1>1. task[w] \in [at : {"claimed", "holding", "calling", "acking"}, job : Job, token : Nat,
                     version : Nat, prior : Err]
    BY DEF IInv, Types, Task, Idle, On
  <1>2. x \in [at : {"claimed", "holding", "calling", "acking"}, job : Job, token : Nat,
               version : Nat, prior : Err]
        /\ x.at = to /\ x.job = task[w].job /\ x.version = task[w].version
    BY <1>1
  <1>3. task' = [task EXCEPT ![w] = x]
    BY <1>1 DEF Goto
  <1> HIDE DEF x
  <1>4. x \in Task
    BY <1>2 DEF Task
  <1> QED
    BY <1>2, <1>3, <1>4

LEMMA FailMoves ==
  ASSUME IInv, NEW w \in Worker, NEW from \in {"claimed", "holding", "calling"}, On(w, from),
         NEW to \in {"releasing", "failing"}, NEW code \in Code, FailWith(w, to, code)
  PROVE  \E x \in Task : /\ task' = [task EXCEPT ![w] = x] /\ x.at = to
                         /\ x.job = task[w].job /\ x.version = task[w].version
  <1> DEFINE x == [at |-> to, job |-> task[w].job, token |-> task[w].token,
                   version |-> task[w].version, prior |-> task[w].prior, code |-> code]
  <1>1. task[w] \in [at : {"claimed", "holding", "calling", "acking"}, job : Job, token : Nat,
                     version : Nat, prior : Err]
    BY DEF IInv, Types, Task, Idle, On
  <1>2. x \in Task /\ x.at = to /\ x.job = task[w].job /\ x.version = task[w].version
    BY <1>1 DEF Task
  <1>3. task' = [task EXCEPT ![w] = x]
    BY DEF FailWith
  <1> HIDE DEF x
  <1> QED
    BY <1>2, <1>3

\* The job of a worker that is not idle.
LEMMA TaskJob == ASSUME IInv, NEW w \in Worker, task[w].at # "idle" PROVE task[w].job \in Job
  BY DEF IInv, Types, Task, Idle

LEMMA ReserveStep == ASSUME IInv, NEW w \in Worker, Reserve(w) PROVE IInv'
  <1>1. PICK x \in Task : /\ task' = [task EXCEPT ![w] = x] /\ x.at = "holding"
                          /\ x.job = task[w].job /\ x.version = task[w].version
    BY GotoMoves DEF Reserve
  <1>2. On(w, "claimed") /\ Hold(task[w].job) /\ UNCHANGED <<rowVars, request, run, redisVars>>
    BY DEF Reserve
  <1>3. task[w].job \in Job
    BY <1>2, TaskJob DEF On
  <1>4. /\ used' \in Nat /\ spent' \in Nat
        /\ reservation' \in [Job -> {"none", "reserved", "consumed", "released", "expired"}]
    BY <1>2, <1>3, BudgetTypes
  <1>5. run' \in [Job -> {"none", "pending"} \cup Answer]
    BY <1>2 DEF IInv, Types, TypeOK
  <1> QED
    BY <1>1, <1>2, <1>4, <1>5, WorkerMoves DEF Claimed, On, redisVars

LEMMA BudgetExhaustedStep == ASSUME IInv, NEW w \in Worker, BudgetExhausted(w) PROVE IInv'
  <1>1. PICK x \in Task : /\ task' = [task EXCEPT ![w] = x] /\ x.at = "failing"
                          /\ x.job = task[w].job /\ x.version = task[w].version
    BY FailMoves DEF BudgetExhausted, Code
  <1>2. On(w, "claimed") /\ UNCHANGED <<rowVars, request, run, redisVars, budgetVars>>
    BY DEF BudgetExhausted
  <1>3. /\ used' \in Nat /\ spent' \in Nat
        /\ reservation' \in [Job -> {"none", "reserved", "consumed", "released", "expired"}]
        /\ run' \in [Job -> {"none", "pending"} \cup Answer]
    BY <1>2 DEF IInv, Types, TypeOK, budgetVars
  <1> QED
    BY <1>1, <1>2, <1>3, WorkerMoves DEF Claimed, On, redisVars

LEMMA InputsUnresolvedStep == ASSUME IInv, NEW w \in Worker, InputsUnresolved(w) PROVE IInv'
  <1>1. PICK x \in Task : /\ task' = [task EXCEPT ![w] = x] /\ x.at = "releasing"
                          /\ x.job = task[w].job /\ x.version = task[w].version
    BY FailMoves DEF InputsUnresolved, Code
  <1>2. On(w, "holding") /\ UNCHANGED <<rowVars, request, run, redisVars, budgetVars>>
    BY DEF InputsUnresolved
  <1>3. /\ used' \in Nat /\ spent' \in Nat
        /\ reservation' \in [Job -> {"none", "reserved", "consumed", "released", "expired"}]
        /\ run' \in [Job -> {"none", "pending"} \cup Answer]
    BY <1>2 DEF IInv, Types, TypeOK, budgetVars
  <1> QED
    BY <1>1, <1>2, <1>3, WorkerMoves DEF Claimed, On, redisVars

LEMMA CallFailsStep == ASSUME IInv, NEW w \in Worker, NEW code \in {"transport", "rejected"}, CallFails(w, code) PROVE IInv'
  <1>1. PICK x \in Task : /\ task' = [task EXCEPT ![w] = x] /\ x.at = "releasing"
                          /\ x.job = task[w].job /\ x.version = task[w].version
    BY FailMoves DEF CallFails, Code
  <1>2. On(w, "calling") /\ UNCHANGED <<rowVars, request, run, redisVars, budgetVars>>
    BY DEF CallFails
  <1>3. /\ used' \in Nat /\ spent' \in Nat
        /\ reservation' \in [Job -> {"none", "reserved", "consumed", "released", "expired"}]
        /\ run' \in [Job -> {"none", "pending"} \cup Answer]
    BY <1>2 DEF IInv, Types, TypeOK, budgetVars
  <1> QED
    BY <1>1, <1>2, <1>3, WorkerMoves DEF Claimed, On, redisVars

LEMMA CreateRunStep == ASSUME IInv, NEW w \in Worker, CreateRun(w) PROVE IInv'
  <1>1. PICK x \in Task : /\ task' = [task EXCEPT ![w] = x] /\ x.at = "calling"
                          /\ x.job = task[w].job /\ x.version = task[w].version
    BY GotoMoves DEF CreateRun
  <1>2. /\ On(w, "holding") /\ run' = [run EXCEPT ![task[w].job] = "pending"]
        /\ UNCHANGED <<rowVars, request, redisVars, budgetVars>>
    BY DEF CreateRun
  <1>3. /\ used' \in Nat /\ spent' \in Nat
        /\ reservation' \in [Job -> {"none", "reserved", "consumed", "released", "expired"}]
        /\ run' \in [Job -> {"none", "pending"} \cup Answer]
    BY <1>2 DEF IInv, Types, TypeOK, budgetVars
  <1> QED
    BY <1>1, <1>2, <1>3, WorkerMoves DEF Claimed, On, redisVars

\* _release_budget, which may fail.
LEMMA ReleaseStep == ASSUME IInv, NEW w \in Worker, Release(w) PROVE IInv'
  <1> DEFINE x == [task[w] EXCEPT !.at = "failing"]
  <1>1. task[w] \in [at : {"releasing", "failing"}, job : Job, token : Nat,
                     version : Nat, prior : Err, code : Code]
    BY DEF Release, IInv, Types, Task, Idle, On
  <1>2. x \in [at : {"releasing", "failing"}, job : Job, token : Nat,
               version : Nat, prior : Err, code : Code]
        /\ x.at = "failing" /\ x.job = task[w].job /\ x.version = task[w].version
    BY <1>1
  <1>3. task' = [task EXCEPT ![w] = x]
    BY <1>1 DEF Release, Goto
  <1> HIDE DEF x
  <1>4. x \in Task
    BY <1>2 DEF Task
  <1>5. /\ On(w, "releasing") /\ UNCHANGED <<rowVars, request, run, redisVars>>
        /\ Credit(task[w].job, "released") \/ UNCHANGED budgetVars
    BY DEF Release
  <1>6. task[w].job \in Job
    BY <1>1
  <1>7. /\ used' \in Nat /\ spent' \in Nat
        /\ reservation' \in [Job -> {"none", "reserved", "consumed", "released", "expired"}]
    BY <1>5, <1>6, BudgetTypes
  <1>8. run' \in [Job -> {"none", "pending"} \cup Answer]
    BY <1>5 DEF IInv, Types, TypeOK
  <1> QED
    BY <1>2, <1>3, <1>4, <1>5, <1>7, <1>8, WorkerMoves DEF Claimed, On, redisVars

LEMMA IdleTask == Idle \in Task /\ Idle.at = "idle"
  BY DEF Task, Idle

LEMMA FencedOffStep == ASSUME IInv, NEW w \in Worker, NEW n \in Actual, FencedOff(w, n) PROVE IInv'
  <1>1. /\ On(w, "calling") /\ task' = [task EXCEPT ![w] = Idle]
        /\ RecordActual(task[w].job, n) \/ UNCHANGED budgetVars
        /\ UNCHANGED <<rowVars, request, run, redisVars>>
    BY DEF FencedOff
  <1>2. task[w].job \in Job
    BY <1>1, TaskJob DEF On
  <1>3. /\ used' \in Nat /\ spent' \in Nat
        /\ reservation' \in [Job -> {"none", "reserved", "consumed", "released", "expired"}]
    BY <1>1, <1>2, BudgetTypes
  <1>4. run' \in [Job -> {"none", "pending"} \cup Answer]
    BY <1>1 DEF IInv, Types, TypeOK
  <1> QED
    BY <1>1, <1>3, <1>4, IdleTask, WorkerMoves DEF redisVars

LEMMA AbandonStep == ASSUME IInv, NEW w \in Worker, Abandon(w) PROVE IInv'
  <1>1. task' = [task EXCEPT ![w] = Idle] /\ UNCHANGED <<rowVars, request, run, redisVars, budgetVars>>
    BY DEF Abandon
  <1>2. /\ used' \in Nat /\ spent' \in Nat
        /\ reservation' \in [Job -> {"none", "reserved", "consumed", "released", "expired"}]
        /\ run' \in [Job -> {"none", "pending"} \cup Answer]
    BY <1>1 DEF IInv, Types, TypeOK, budgetVars
  <1> QED
    BY <1>1, <1>2, IdleTask, WorkerMoves DEF redisVars

LEMMA AckStep == ASSUME IInv, NEW w \in Worker, Ack(w) PROVE IInv'
  <1>1. /\ task' = [task EXCEPT ![w] = Idle]
        /\ UNCHANGED <<rowVars, request, run, queue, sending, leaseSeq, budgetVars>>
        /\ DOMAIN lease' \subseteq DOMAIN lease
    BY DEF Ack, Restrict
  <1>2. /\ used' \in Nat /\ spent' \in Nat
        /\ reservation' \in [Job -> {"none", "reserved", "consumed", "released", "expired"}]
        /\ run' \in [Job -> {"none", "pending"} \cup Answer]
    BY <1>1 DEF IInv, Types, TypeOK, budgetVars
  <1> QED
    BY <1>1, <1>2, IdleTask, WorkerMoves

\* mark_job_running: the ticket is taken, and the new version is above all others.
LEMMA ClaimStep == ASSUME IInv, NEW w \in Worker, Claim(w) PROVE IInv'
  <1> DEFINE j == task[w].job
             x == [at |-> "claimed", job |-> j, token |-> task[w].token,
                   version |-> version[j] + 1, prior |-> error[j]]
  <1>1. /\ On(w, "leased")
        /\ job' = [job EXCEPT ![j] = "running"]
        /\ version' = [version EXCEPT ![j] = @ + 1]
        /\ offer' = [offer EXCEPT ![j[1]] = "processing"]
        /\ task' = [task EXCEPT ![w] = x]
        /\ UNCHANGED <<request, retries, error, run, redisVars, budgetVars>>
    BY DEF Claim
  <1>2. task[w] \in [at : {"leased"}, job : Job, token : Nat]
    BY <1>1 DEF IInv, Types, Task, Idle, On
  <1>3. j \in Job /\ job[j] = "queued" /\ version[j] \in Nat /\ error[j] \in Err
    BY <1>1, <1>2 DEF IInv, Types, TypeOK, Place, Waiting
  <1>4. x \in Task /\ x.at = "claimed" /\ x.job = j /\ x.version = version[j] + 1
    BY <1>2, <1>3 DEF Task
  <1> HIDE DEF j, x
  <1>5. \A v \in Worker : task'[v] = IF v = w THEN x ELSE task[v]
    BY <1>1 DEF IInv, Types
  <1>6. Types'
    <2>1. task' \in [Worker -> Task]
      BY <1>1, <1>4 DEF IInv, Types
    <2>2. version' \in [Job -> Nat] /\ job' \in [Job -> {"none", "queued", "running"} \cup Ended]
      BY <1>1, <1>3 DEF IInv, Types, TypeOK
    <2>3. offer' \in [Offer -> {"none", "submitted", "queued", "processing"} \cup Answer \cup Terminal]
      BY <1>1 DEF IInv, Types, TypeOK
    <2> QED
      BY <1>1, <2>1, <2>2, <2>3 DEF IInv, Types, TypeOK, redisVars, budgetVars
  <1>7. Chains'
    <2>1. j = <<j[1], j[2]>> /\ j[1] \in Offer /\ j[2] \in 1..MaxAttempts
      BY <1>3 DEF Job
    <2>2. offer[j[1]] # "none"
      BY <1>3, <2>1 DEF IInv, Chains, Chain
    <2> QED
      BY <1>1, <1>3, <2>1, <2>2, ChainsKept DEF IInv, Types, TypeOK
  <1>8. Place'
    <2>1. \A v \in Worker : On(v, "leased")' => v # w /\ On(v, "leased") /\ task'[v] = task[v]
      BY <1>4, <1>5 DEF On
    <2>2. OneParcel' /\ OneEntry' /\ OneHand' /\ Apart'
      BY <1>1, <2>1 DEF IInv, Place, OneParcel, OneEntry, OneHand, Apart, redisVars
    <2>3. \A k \in Job : k # j => job'[k] = job[k]
      BY <1>1 DEF IInv, Types, TypeOK
    <2>4. \A p \in sending : p.job \in Job /\ p.job # j
      BY <1>1 DEF IInv, Types, TypeOK, Place, Apart, j
    <2>5. \A t \in Tier : \A i \in 1..Len(queue[t]) : queue[t][i] \in Job /\ queue[t][i] # j
      BY <1>1 DEF IInv, Types, TypeOK, Place, Apart, j
    <2>6. \A v \in Worker : On(v, "leased") /\ v # w => task[v].job \in Job /\ task[v].job # j
      BY <1>1, TaskJob DEF IInv, Place, OneHand, j, On
    <2>7. Waiting'
      BY <1>1, <2>1, <2>3, <2>4, <2>5, <2>6 DEF IInv, Place, Waiting, redisVars
    <2> QED
      BY <2>2, <2>7 DEF Place
  <1>9. Fence'
    <2>1. \A v \in Worker : Claimed(v) => task[v].job \in Job /\ task[v].version \in Nat
      BY DEF IInv, Types, Task, Idle, Claimed
    <2>2. version \in [Job -> Nat] /\ job \in [Job -> {"none", "queued", "running"} \cup Ended]
      BY DEF IInv, Types, TypeOK
    <2>3. \A v \in Worker : Claimed(v)' /\ v # w => Claimed(v) /\ task'[v] = task[v]
      BY <1>5 DEF Claimed
    <2>4. \A v \in Worker : Claimed(v) /\ task[v].job = j => task[v].version < version[j] + 1
      BY <1>3, <2>1 DEF IInv, Fence
    <2>5. \A v \in Worker : Claimed(v)' =>
            /\ task'[v].version =< version'[task'[v].job]
            /\ task'[v].version = version'[task'[v].job] => job'[task'[v].job] = "running"
      BY <1>1, <1>3, <1>4, <1>5, <2>1, <2>2, <2>3, <2>4 DEF IInv, Fence
    <2>6. \A u, v \in Worker :
            Claimed(u)' /\ Claimed(v)' /\ task'[u].job = task'[v].job /\ task'[u].version = task'[v].version
                => u = v
      BY <1>3, <1>4, <1>5, <2>1, <2>3, <2>4 DEF IInv, Fence
    <2> QED
      BY <2>5, <2>6 DEF Fence
  <1> QED
    BY <1>6, <1>7, <1>8, <1>9 DEF IInv

\* The owner of a job ends its run: nobody else held the current version.
LEMMA OwnerEnds ==
  ASSUME IInv, NEW w \in Worker, Claimed(w), Owned(w), NEW x \in Task,
         task' = [task EXCEPT ![w] = x],
         x.at \notin {"leased", "claimed", "holding", "calling", "releasing", "failing"},
         NEW st \in {"queued", "completed", "failed"}, NEW os \in {"queued", "failed"} \cup Answer,
         job' = [job EXCEPT ![task[w].job] = st],
         offer' = [offer EXCEPT ![task[w].job[1]] = os],
         UNCHANGED <<version, request, redisVars>>,
         retries' \in [Job -> Nat], error' \in [Job -> Err],
         run' \in [Job -> {"none", "pending"} \cup Answer],
         used' \in Nat, spent' \in Nat,
         reservation' \in [Job -> {"none", "reserved", "consumed", "released", "expired"}]
  PROVE  IInv'
  <1> DEFINE j == task[w].job
  <1>1. j \in Job /\ job[j] = "running" /\ task[w].version = version[j]
    BY DEF IInv, Types, Task, Idle, Claimed, Fence, Owned
  <1> HIDE DEF j
  <1>2. \A v \in Worker : task'[v] = IF v = w THEN x ELSE task[v]
    BY DEF IInv, Types
  <1>3. \A k \in Job : job'[k] = IF k = j THEN st ELSE job[k]
    BY DEF IInv, Types, TypeOK, j
  <1>4. Types'
    <2>1. task' \in [Worker -> Task]
      BY DEF IInv, Types
    <2>2. job' \in [Job -> {"none", "queued", "running"} \cup Ended]
      BY DEF IInv, Types, TypeOK, Ended
    <2>3. offer' \in [Offer -> {"none", "submitted", "queued", "processing"} \cup Answer \cup Terminal]
      BY DEF IInv, Types, TypeOK, Terminal
    <2>4. error' \in [Job -> Err] /\ DOMAIN error' = Job
      OBVIOUS
    <2>5. DOMAIN task' = Worker
      BY <2>1
    <2> QED
      BY <2>1, <2>2, <2>3, <2>4, <2>5 DEF IInv, Types, TypeOK, redisVars
  <1>5. Chains'
    <2>1. j = <<j[1], j[2]>> /\ j[1] \in Offer /\ j[2] \in 1..MaxAttempts
      BY <1>1 DEF Job
    <2>2. offer[j[1]] # "none"
      BY <1>1, <2>1 DEF IInv, Chains, Chain
    <2>3. \A o \in Offer : offer'[o] = "none" <=> offer[o] = "none"
      BY <2>1, <2>2 DEF IInv, Types, TypeOK, j, Answer
    <2>4. \A k \in Job : job'[k] # "none" <=> job[k] # "none"
      BY <1>1, <1>3
    <2> QED
      BY <2>3, <2>4, ChainsKept DEF IInv
  <1>6. Place'
    <2>1. \A v \in Worker : task'[v].at = "leased" => task'[v] = task[v]
      BY <1>2
    <2>2. \A k \in Job : job[k] = "queued" => job'[k] = "queued"
      BY <1>1, <1>3
    <2> QED
      BY <2>1, <2>2, PlaceKept DEF IInv, redisVars
  <1>7. Fence'
    <2>1. \A v \in Worker : Claimed(v)' => v # w /\ Claimed(v) /\ task'[v] = task[v]
      BY <1>2 DEF Claimed
    <2>2. version \in [Job -> Nat]
      BY DEF IInv, Types, TypeOK
    <2>3. \A v \in Worker : Claimed(v) => task[v].job \in Job
      BY DEF IInv, Types, Task, Idle, Claimed
    <2>4. \A v \in Worker : Claimed(v)' /\ task[v].version = version'[task[v].job] => job'[task[v].job] = "running"
      BY <1>1, <1>3, <2>1, <2>3 DEF IInv, Fence, j
    <2> QED
      BY <2>1, <2>2, <2>4, FenceKept DEF IInv
  <1> QED
    BY <1>4, <1>5, <1>6, <1>7 DEF IInv

\* _fail_job.
LEMMA FailStep == ASSUME IInv, NEW w \in Worker, Fail(w) PROVE IInv'
  <1>1. task[w] \in [at : {"releasing", "failing"}, job : Job, token : Nat,
                     version : Nat, prior : Err, code : Code]
    BY DEF Fail, IInv, Types, Task, Idle, On
  <1>2. task' = [task EXCEPT ![w] = Idle] /\ UNCHANGED <<request, run, redisVars, budgetVars>>
    BY DEF Fail
  <1>3. /\ used' \in Nat /\ spent' \in Nat
        /\ reservation' \in [Job -> {"none", "reserved", "consumed", "released", "expired"}]
        /\ run' \in [Job -> {"none", "pending"} \cup Answer]
    BY <1>2 DEF IInv, Types, TypeOK, budgetVars
  <1>4. CASE Owned(w)
    <2>1. Repeat(w) \in Nat
      <3>1. error[task[w].job] \in Err /\ task[w].prior \in Err
        BY <1>1 DEF IInv, Types
      <3> QED
        BY <3>1 DEF Repeat, Err
    <2>2. PICK to \in {"queued", "failed"} :
            /\ job' = [job EXCEPT ![task[w].job] = to]
            /\ offer' = [offer EXCEPT ![task[w].job[1]] = to]
      BY <1>4 DEF Fail
    <2>3. /\ retries' = [retries EXCEPT ![task[w].job] = @ + 1]
          /\ error' = [error EXCEPT ![task[w].job] = [code |-> task[w].code, repeat |-> Repeat(w)]]
          /\ UNCHANGED version
      BY <1>4 DEF Fail
    <2>4. retries' \in [Job -> Nat]
      BY <1>1, <2>3 DEF IInv, Types, TypeOK
    <2>5. error' \in [Job -> Err]
      <3>1. [code |-> task[w].code, repeat |-> Repeat(w)] \in Err
        BY <1>1, <2>1 DEF Err
      <3> QED
        BY <2>3, <3>1 DEF IInv, Types
    <2>6. Claimed(w)
      BY <1>1 DEF Claimed
    <2> QED
      BY <1>2, <1>3, <1>4, <2>2, <2>3, <2>4, <2>5, <2>6, IdleTask, OwnerEnds
  <1>5. CASE ~Owned(w)
    <2>1. UNCHANGED rowVars
      BY <1>5 DEF Fail
    <2> QED
      BY <1>2, <1>3, <2>1, IdleTask, WorkerMoves DEF redisVars
  <1> QED
    BY <1>4, <1>5

\* Phase 3 of the run.
LEMMA PersistStep ==
  ASSUME IInv, NEW w \in Worker, NEW answer \in Answer, NEW n \in Actual, Persist(w, answer, n)
  PROVE  IInv'
  <1> DEFINE x == [task[w] EXCEPT !.at = "acking"]
  <1>1. task[w] \in [at : {"claimed", "holding", "calling", "acking"}, job : Job, token : Nat,
                     version : Nat, prior : Err]
    BY DEF Persist, IInv, Types, Task, Idle, On
  <1>2. x \in [at : {"claimed", "holding", "calling", "acking"}, job : Job, token : Nat,
               version : Nat, prior : Err] /\ x.at = "acking"
    BY <1>1
  <1>3. task' = [task EXCEPT ![w] = x]
    BY <1>1 DEF Persist, Goto
  <1> HIDE DEF x
  <1>4. x \in Task
    BY <1>2 DEF Task
  <1>5. /\ On(w, "calling") /\ Owned(w)
        /\ job' = [job EXCEPT ![task[w].job] = "completed"]
        /\ offer' = [offer EXCEPT ![task[w].job[1]] = answer]
        /\ run' = [run EXCEPT ![task[w].job] = answer]
        /\ RecordActual(task[w].job, n)
        /\ UNCHANGED <<request, version, retries, error, redisVars>>
    BY DEF Persist
  <1>6. task[w].job \in Job
    BY <1>1
  <1>7. /\ used' \in Nat /\ spent' \in Nat
        /\ reservation' \in [Job -> {"none", "reserved", "consumed", "released", "expired"}]
    BY <1>5, <1>6, BudgetTypes
  <1>8. run' \in [Job -> {"none", "pending"} \cup Answer]
    BY <1>5 DEF IInv, Types, TypeOK
  <1>9. retries' \in [Job -> Nat] /\ error' \in [Job -> Err]
    BY <1>5 DEF IInv, Types, TypeOK
  <1>10. Claimed(w)
    BY <1>5 DEF On, Claimed
  <1> QED
    BY <1>2, <1>3, <1>4, <1>5, <1>7, <1>8, <1>9, <1>10, OwnerEnds

-----------------------------------------------------------------------------
(* The background loops. *)

\* _reconcile_expired_leases raises the version of a running job.
LEMMA VersionRaised ==
  ASSUME IInv, NEW j \in Job, job[j] = "running", UNCHANGED task,
         version' = [version EXCEPT ![j] = @ + 1],
         \A k \in Job : k # j => job'[k] = job[k]
  PROVE  Fence'
  <1>1. version \in [Job -> Nat]
    BY DEF IInv, Types, TypeOK
  <1>2. \A w \in Worker : Claimed(w) => task[w].job \in Job /\ task[w].version \in Nat
    BY DEF IInv, Types, Task, Idle, Claimed
  <1>3. \A k \in Job : version'[k] \in Nat /\ version'[k] >= version[k]
    BY <1>1
  <1>4. \A w \in Worker : Claimed(w)' => Claimed(w)
    BY DEF Claimed
  <1>5. \A w \in Worker : Claimed(w) /\ task[w].version = version'[task[w].job] => job'[task[w].job] = "running"
    BY <1>1, <1>2 DEF IInv, Fence
  <1> QED
    BY <1>3, <1>4, <1>5, FenceKept DEF IInv

\* The request of a job is not without rows.
LEMMA OfferOfJob ==
  ASSUME IInv, NEW j \in Job, job[j] # "none"
  PROVE  j[1] \in Offer /\ offer[j[1]] # "none"
  <1>1. j = <<j[1], j[2]>> /\ j[1] \in Offer /\ j[2] \in 1..MaxAttempts
    BY DEF Job
  <1> QED
    BY <1>1 DEF IInv, Chains, Chain

LEMMA RequeueExpiredStep == ASSUME IInv, NEW j \in Job, RequeueExpired(j) PROVE IInv'
  <1>1. /\ job[j] = "running"
        /\ job' = [job EXCEPT ![j] = "queued"]
        /\ version' = [version EXCEPT ![j] = @ + 1]
        /\ retries' = [retries EXCEPT ![j] = @ + 1]
        /\ offer' = [offer EXCEPT ![j[1]] = IF @ \in Terminal THEN @ ELSE "queued"]
        /\ sending' = sending \cup {Parcel(j, "normal")}
        /\ UNCHANGED <<request, error, run, queue, lease, leaseSeq, task, budgetVars>>
    BY DEF RequeueExpired
  <1>2. job \in [Job -> {"none", "queued", "running"} \cup Ended]
    BY DEF IInv, Types, TypeOK
  <1>3. Types'
    <2>1. Parcel(j, "normal") \in [job : Job, tier : Tier, measured : BOOLEAN]
      BY DEF Parcel, Tier
    <2>2. offer' \in [Offer -> {"none", "submitted", "queued", "processing"} \cup Answer \cup Terminal]
      BY <1>1 DEF IInv, Types, TypeOK
    <2>3. job' \in [Job -> {"none", "queued", "running"} \cup Ended]
      BY <1>1, <1>2
    <2>4. version' \in [Job -> Nat] /\ retries' \in [Job -> Nat]
      BY <1>1 DEF IInv, Types, TypeOK
    <2>5. sending' \subseteq [job : Job, tier : Tier, measured : BOOLEAN]
      BY <1>1, <2>1 DEF IInv, Types, TypeOK
    <2> QED
      BY <1>1, <2>2, <2>3, <2>4, <2>5 DEF IInv, Types, TypeOK, budgetVars
  <1>4. Chains'
    <2>1. \A o \in Offer : offer'[o] = "none" <=> offer[o] = "none"
      BY <1>1, OfferOfJob DEF IInv, Types, TypeOK
    <2> QED
      BY <1>1, <1>2, <2>1, ChainsKept DEF IInv
  <1>5. Place'
    BY <1>1, <1>2, NewParcel DEF IInv
  <1>6. Fence'
    BY <1>1, <1>2, VersionRaised
  <1> QED
    BY <1>3, <1>4, <1>5, <1>6 DEF IInv

LEMMA FailExpiredStep == ASSUME IInv, NEW j \in Job, FailExpired(j) PROVE IInv'
  <1>1. /\ job[j] = "running"
        /\ job' = [job EXCEPT ![j] = "failed"]
        /\ version' = [version EXCEPT ![j] = @ + 1]
        /\ error' = [error EXCEPT ![j].code = "expired"]
        /\ offer' = [offer EXCEPT ![j[1]] = IF @ \in Terminal THEN @ ELSE "failed"]
        /\ UNCHANGED <<request, retries, run, redisVars, task, budgetVars>>
    BY DEF FailExpired
  <1>2. job \in [Job -> {"none", "queued", "running"} \cup Ended]
    BY DEF IInv, Types, TypeOK
  <1>3. error' \in [Job -> Err]
    BY <1>1 DEF IInv, Types, Err, Code
  <1>4. offer' \in [Offer -> {"none", "submitted", "queued", "processing"} \cup Answer \cup Terminal]
    BY <1>1 DEF IInv, Types, TypeOK, Terminal
  <1>5. job' \in [Job -> {"none", "queued", "running"} \cup Ended] /\ version' \in [Job -> Nat]
    BY <1>1 DEF IInv, Types, TypeOK, Ended
  <1>6. Types'
    BY <1>1, <1>3, <1>4, <1>5 DEF IInv, Types, TypeOK, redisVars, budgetVars
  <1>7. Chains'
    <2>1. \A o \in Offer : offer'[o] = "none" <=> offer[o] = "none"
      BY <1>1, OfferOfJob DEF IInv, Types, TypeOK
    <2> QED
      BY <1>1, <1>2, <2>1, ChainsKept DEF IInv
  <1>8. Place'
    BY <1>1, <1>2, PlaceKept DEF IInv, redisVars
  <1>9. Fence'
    BY <1>1, <1>2, VersionRaised
  <1> QED
    BY <1>6, <1>7, <1>8, <1>9 DEF IInv

LEMMA SweepStep == ASSUME IInv, NEW j \in Job, Sweep(j) PROVE IInv'
  <1>1. Credit(j, "expired") /\ UNCHANGED <<rowVars, request, run, redisVars, task>>
    BY DEF Sweep
  <1>2. /\ used' \in Nat /\ spent' \in Nat
        /\ reservation' \in [Job -> {"none", "reserved", "consumed", "released", "expired"}]
    BY <1>1, BudgetTypes
  <1>3. Types'
    BY <1>1, <1>2 DEF IInv, Types, TypeOK, rowVars, redisVars
  <1>4. Place' /\ Fence' /\ Chains'
    BY <1>1 DEF IInv, Place, OneParcel, OneEntry, OneHand, Apart, Waiting, Fence, Claimed, On,
                Chains, Chain, rowVars, redisVars
  <1> QED
    BY <1>3, <1>4 DEF IInv

-----------------------------------------------------------------------------
(* The theorems. *)

LEMMA InitIInv == Init => IInv
  <1> USE OfferAssumption
  <1> SUFFICES ASSUME Init PROVE IInv
    OBVIOUS
  <1>1. Types
    BY IdleTask DEF Init, Types, TypeOK, Task, Err, Code, NoError, Idle
  <1>2. Chains
    <2>1. \A o \in Offer : \A i \in 1..MaxAttempts : job[<<o, i>>] = "none"
      BY DEF Init, Job
    <2>2. \A o \in Offer : offer[o] = "none" /\ request[o] = {}
      BY DEF Init
    <2> QED
      BY <2>1, <2>2 DEF Chains, Chain
  <1>3. \A w \in Worker : task[w].at = "idle"
    BY DEF Init, Idle
  <1>4. sending = {} /\ \A t \in Tier : Len(queue[t]) = 0
    BY DEF Init
  <1>5. Place
    BY <1>3, <1>4 DEF Place, OneParcel, OneEntry, OneHand, Apart, Waiting, On
  <1>6. Fence
    BY <1>3 DEF Fence, Claimed
  <1> QED
    BY <1>1, <1>2, <1>5, <1>6 DEF IInv

LEMMA NextIInv == IInv /\ [Next]_vars => IInv'
  <1> SUFFICES ASSUME IInv, [Next]_vars PROVE IInv'
    OBVIOUS
  <1>1. CASE UNCHANGED vars
    <2>1. Types'
      BY <1>1 DEF vars, IInv, Types, TypeOK
    <2>2. Chains'
      BY <1>1 DEF vars, IInv, Chains, Chain
    <2>3. OneParcel' /\ OneEntry' /\ OneHand'
      BY <1>1 DEF vars, IInv, Place, OneParcel, OneEntry, OneHand, On
    <2>4. Apart' /\ Waiting'
      BY <1>1 DEF vars, IInv, Place, Apart, Waiting, On
    <2>5. Fence'
      BY <1>1 DEF vars, IInv, Fence, Claimed
    <2> QED
      BY <2>1, <2>2, <2>3, <2>4, <2>5 DEF IInv, Place
  <1>2. CASE RequestStep
    BY <1>2, SubmitStep, MoreInfoStep, CheckStep, CloseStep DEF RequestStep
  <1>3. CASE LaneStep
    BY <1>3, MeasureStep, PushStep, LosePayloadStep, DequeueStep DEF LaneStep
  <1>4. ASSUME NEW w \in Worker, WorkerStep(w) PROVE IInv'
    BY <1>4, ClaimStep, ReserveStep, BudgetExhaustedStep, InputsUnresolvedStep, CreateRunStep, CallFailsStep,
       ReleaseStep, FailStep, PersistStep, FencedOffStep, AckStep, AbandonStep DEF WorkerStep
  <1>5. CASE BackgroundStep
    BY <1>5, RequeueExpiredStep, FailExpiredStep, SweepStep DEF BackgroundStep
  <1> QED
    BY <1>1, <1>2, <1>3, <1>4, <1>5 DEF Next

\* The rows, lists, leases and counters of the pipeline have their types.
THEOREM TypesHold == Spec => []TypeOK
  <1>1. IInv => TypeOK
    BY DEF IInv, Types
  <1> QED
    BY <1>1, InitIInv, NextIInv, PTL DEF Spec

\* Two tickets of a job are the same one.
LEMMA PlaceGivesOneTicket == IInv => OneTicket
  <1> SUFFICES ASSUME IInv, NEW j \in Job
               PROVE  Cardinality(Tickets(j)) =< 1 /\ (Tickets(j) # {} => job[j] = "queued")
    BY DEF OneTicket
  <1> DEFINE S == {<<"sending", p.tier, p.measured>> : p \in {q \in sending : q.job = j}}
             Q == UNION {{<<"queued", t, i>> : i \in {k \in DOMAIN queue[t] : queue[t][k] = j}} : t \in Tier}
             H == {<<"leased", w>> : w \in {v \in Worker : On(v, "leased") /\ task[v].job = j}}
  <1>1. Tickets(j) = S \cup Q \cup H
    BY DEF Tickets
  <1>2. \A a \in S : \E p \in sending : p.job = j /\ a = <<"sending", p.tier, p.measured>>
    OBVIOUS
  <1>3. \A a \in Q : \E t \in Tier : \E i \in 1..Len(queue[t]) : queue[t][i] = j /\ a = <<"queued", t, i>>
    BY DEF IInv, Types, TypeOK
  <1>4. \A a \in H : \E w \in Worker : On(w, "leased") /\ task[w].job = j /\ a = <<"leased", w>>
    OBVIOUS
  <1> HIDE DEF S, Q, H
  <1>5. \A a, b \in S : a = b
    BY <1>2 DEF IInv, Place, OneParcel
  <1>6. \A a, b \in Q : a = b
    BY <1>3 DEF IInv, Place, OneEntry
  <1>7. \A a, b \in H : a = b
    BY <1>4 DEF IInv, Place, OneHand
  <1>8. /\ S # {} => Q = {} /\ H = {}
        /\ Q # {} => H = {}
    BY <1>2, <1>3, <1>4 DEF IInv, Place, Apart
  <1>9. Tickets(j) # {} => job[j] = "queued"
    BY <1>1, <1>2, <1>3, <1>4 DEF IInv, Place, Waiting
  <1>10. \A a, b \in Tickets(j) : a = b
    BY <1>1, <1>5, <1>6, <1>7, <1>8
  <1>11. Cardinality(Tickets(j)) =< 1
    <2>1. CASE Tickets(j) = {}
      BY <2>1, FS_EmptySet
    <2>2. CASE Tickets(j) # {}
      <3>1. PICK a \in Tickets(j) : TRUE
        BY <2>2
      <3>2. Tickets(j) = {a}
        BY <1>10, <3>1
      <3>3. Cardinality({a}) = 1
        BY FS_Singleton
      <3> QED
        BY <3>2, <3>3
    <2> QED
      BY <2>1, <2>2
  <1> QED
    BY <1>9, <1>11

\* A job has one payload at most, and only while it is queued: submit,
\* more-info and the reconciler enqueue, and mark_job_running takes it.
THEOREM OneTicketForAJob == Spec => []OneTicket
  BY PlaceGivesOneTicket, InitIInv, NextIInv, PTL DEF Spec

Stays == \A j \in Job : job[j] \in Ended => job'[j] = job[j]

\* A job that is not ended is the only one a step of a worker writes.
LEMMA NextStays == IInv /\ [Next]_vars => Stays
  <1> SUFFICES ASSUME IInv, [Next]_vars PROVE Stays
    OBVIOUS
  <1>1. job \in [Job -> {"none", "queued", "running"} \cup Ended]
    BY DEF IInv, Types, TypeOK
  <1>2. ASSUME NEW j, NEW st, job' = [job EXCEPT ![j] = st], j \in Job => job[j] \notin Ended
        PROVE  Stays
    BY <1>1, <1>2 DEF Stays
  <1>3. CASE UNCHANGED job
    BY <1>3 DEF Stays
  <1>4. ASSUME NEW o \in Offer, NEW t \in Asked, Submit(o, t) PROVE Stays
    <2>1. <<o, 1>> \in Job => job[<<o, 1>>] = "none"
      BY <1>4 DEF Submit, IInv, Chains, Chain, Job
    <2> QED
      BY <1>2, <1>4, <2>1 DEF Submit, Ended
  <1>5. ASSUME NEW o \in Offer, NEW t \in Asked, MoreInfo(o, t) PROVE Stays
    <2>1. PICK n \in 1..(MaxAttempts - 1) : \A i \in 1..MaxAttempts : job[<<o, i>>] # "none" <=> i =< n
      BY <1>5 DEF IInv, Chains, Chain, MoreInfo
    <2>2. n \in 1..MaxAttempts /\ n + 1 \in 1..MaxAttempts
      BY OfferAssumption
    <2>3. LatestJob(o) = <<o, n>>
      BY <2>1, <2>2, LatestIs
    <2>4. job' = [job EXCEPT ![<<o, n + 1>>] = "queued"]
      BY <1>5, <2>3 DEF MoreInfo
    <2>5. job[<<o, n + 1>>] = "none"
      BY <2>1, <2>2
    <2> QED
      BY <1>2, <2>4, <2>5 DEF Ended
  <1>6. ASSUME NEW w \in Worker, Claim(w) PROVE Stays
    <2>1. job[task[w].job] = "queued"
      BY <1>6 DEF Claim, IInv, Place, Waiting
    <2> QED
      BY <1>2, <1>6, <2>1 DEF Claim, Ended
  <1>7. ASSUME NEW w \in Worker, Fail(w) \/ \E answer \in Answer, n \in Actual : Persist(w, answer, n) PROVE Stays
    <2>1. Claimed(w)
      BY <1>7 DEF Fail, Persist, On, Claimed
    <2>2. Owned(w) => job[task[w].job] = "running"
      BY <2>1 DEF IInv, Fence, Owned
    <2>3. CASE Owned(w)
      <3>1. PICK st : job' = [job EXCEPT ![task[w].job] = st]
        BY <1>7, <2>3 DEF Fail, Persist
      <3> QED
        BY <1>2, <2>2, <2>3, <3>1 DEF Ended
    <2>4. CASE ~Owned(w)
      BY <1>3, <1>7, <2>4 DEF Fail, Persist, rowVars
    <2> QED
      BY <2>3, <2>4
  <1>8. ASSUME NEW j \in Job, RequeueExpired(j) \/ FailExpired(j) PROVE Stays
    BY <1>1, <1>8 DEF RequeueExpired, FailExpired, Stays, Ended
  <1>9. CASE RequestStep
    BY <1>3, <1>4, <1>5, <1>9 DEF RequestStep, Check, Cancel, Approve, rowVars
  <1>10. CASE LaneStep
    BY <1>3, <1>10 DEF LaneStep, Measure, Push, LosePayload, Dequeue, rowVars
  <1>11. ASSUME NEW w \in Worker, WorkerStep(w) PROVE Stays
    BY <1>3, <1>6, <1>7, <1>11 DEF WorkerStep, Reserve, BudgetExhausted, InputsUnresolved, CreateRun, CallFails,
        Release, FencedOff, Ack, Abandon, rowVars
  <1>12. CASE BackgroundStep
    BY <1>3, <1>8, <1>12 DEF BackgroundStep, Sweep, rowVars
  <1>13. CASE UNCHANGED vars
    BY <1>3, <1>13 DEF vars
  <1> QED
    BY <1>9, <1>10, <1>11, <1>12, <1>13 DEF Next

\* Completed and failed jobs are final (update_job_status_fenced and
\* mark_job_running): for any number of workers, payloads and takeovers.
THEOREM JobsStayEnded == Spec => EndedJobsStayEnded
  <1>1. IInv /\ [Next]_vars => [\A j \in Job : job[j] \in Ended => job'[j] = job[j]]_vars
    BY NextStays DEF Stays
  <1> QED
    BY <1>1, InitIInv, NextIInv, PTL DEF Spec, EndedJobsStayEnded

-----------------------------------------------------------------------------
(* Requests and their jobs.                                                *)
(*                                                                         *)
(* Only the latest job of a request is not ended (Match), so whoever       *)
(* writes a request for a job writes it for the latest one.                *)

\* The latest attempt of o is n.
Top(o, n) == \A i \in 1..MaxAttempts : job[<<o, i>>] # "none" <=> i =< n

\* What request o and its latest job j say of each other.
Told(o, j) ==
    /\ job[j] = "queued" => offer[o] \in {"submitted", "queued", "cancelled"}
    /\ job[j] = "running" => offer[o] \in {"processing", "cancelled"}
    /\ job[j] = "failed" => offer[o] \in {"failed", "cancelled"}
    /\ job[j] = "completed" =>
        /\ run[j] \in Answer
        /\ \/ offer[o] \in {run[j], "cancelled"}
           \/ run[j] = "needs_review" /\ offer[o] = "completed"
    /\ "more_info" \in request[o] => job[j] = "completed" /\ run[j] = "needs_more_info"
    /\ "approve" \in request[o] => job[j] = "completed" /\ run[j] = "needs_review"

Older(o, n) == \A i \in 1..MaxAttempts : i < n => job[<<o, i>>] \in Ended

Match == \A o \in Offer : \A n \in 1..MaxAttempts : Top(o, n) => Told(o, <<o, n>>) /\ Older(o, n)

\* A request has one latest attempt.
LEMMA OneTop ==
  ASSUME NEW S, NEW n \in 1..MaxAttempts, NEW m \in 1..MaxAttempts,
         \A i \in 1..MaxAttempts : i \in S <=> i =< n,
         \A i \in 1..MaxAttempts : i \in S <=> i =< m
  PROVE  n = m
  <1>1. n \in Int /\ m \in Int /\ n \in S /\ m \in S
    BY OfferAssumption
  <1>2. n =< m /\ m =< n
    BY <1>1
  <1> QED
    BY <1>1, <1>2

\* A job that waits or runs is the latest of its request.
LEMMA LiveIsLatest ==
  ASSUME IInv, Match, NEW j \in Job, job[j] \in {"queued", "running"}
  PROVE  /\ j[1] \in Offer /\ j[2] \in 1..MaxAttempts /\ j = <<j[1], j[2]>>
         /\ Top(j[1], j[2]) /\ Told(j[1], j)
  <1>1. j[1] \in Offer /\ j[2] \in 1..MaxAttempts /\ j = <<j[1], j[2]>>
    BY DEF Job
  <1>2. PICK n \in 0..MaxAttempts : Top(j[1], n)
    BY <1>1 DEF IInv, Chains, Chain, Top
  <1>3. j[2] =< n /\ n \in 1..MaxAttempts
    BY <1>1, <1>2 DEF Top
  <1>4. Older(j[1], n) /\ Told(j[1], <<j[1], n>>)
    BY <1>1, <1>2, <1>3 DEF Match
  <1>5. j[2] = n
    BY <1>1, <1>3, <1>4 DEF Older, Ended
  <1> QED
    BY <1>1, <1>2, <1>4, <1>5

\* A latest job is written together with its request.
LEMMA LatestWritten ==
  ASSUME IInv, Match, NEW j \in Job, job[j] \in {"queued", "running"},
         NEW st, NEW os, job' = [job EXCEPT ![j] = st], offer' = [offer EXCEPT ![j[1]] = os],
         UNCHANGED request, run' \in [Job -> {"none", "pending"} \cup Answer],
         \A k \in Job : k # j => run'[k] = run[k],
         \/ st = "queued" /\ os \in {"queued", "cancelled"}
         \/ st = "running" /\ os = "processing"
         \/ st = "failed" /\ os \in {"failed", "cancelled"}
         \/ st = "completed" /\ os \in Answer /\ run'[j] = os
  PROVE  Match'
  <1>1. /\ j[1] \in Offer /\ j[2] \in 1..MaxAttempts /\ j = <<j[1], j[2]>>
        /\ Top(j[1], j[2]) /\ Told(j[1], j)
    BY LiveIsLatest
  <1>2. \A k \in Job : job'[k] = IF k = j THEN st ELSE job[k]
    BY DEF IInv, Types, TypeOK
  <1>3. \A o \in Offer : offer'[o] = IF o = j[1] THEN os ELSE offer[o]
    BY <1>1 DEF IInv, Types, TypeOK
  <1>4. st # "none"
    OBVIOUS
  <1>5. SUFFICES ASSUME NEW o \in Offer, NEW n \in 1..MaxAttempts, Top(o, n)'
                 PROVE  Told(o, <<o, n>>)' /\ Older(o, n)'
    BY DEF Match
  <1>6. \A i \in 1..MaxAttempts : <<o, i>> \in Job
    BY DEF Job
  <1>7. Top(o, n)
    BY <1>2, <1>4, <1>5, <1>6 DEF Top
  <1>8. Told(o, <<o, n>>) /\ Older(o, n)
    BY <1>7 DEF Match
  <1>9. CASE o # j[1]
    <2>1. \A i \in 1..MaxAttempts : <<o, i>> # j
      BY <1>1, <1>9
    <2>2. \A i \in 1..MaxAttempts : job'[<<o, i>>] = job[<<o, i>>] /\ run'[<<o, i>>] = run[<<o, i>>]
      BY <1>2, <1>6, <2>1
    <2>3. offer'[o] = offer[o]
      BY <1>3, <1>9
    <2> QED
      BY <1>8, <2>2, <2>3 DEF Told, Older
  <1>10. CASE o = j[1]
    <2>1. n = j[2] /\ <<o, n>> = j
      <3> DEFINE S == {i \in 1..MaxAttempts : job[<<o, i>>] # "none"}
      <3>1. \A i \in 1..MaxAttempts : i \in S <=> i =< n
        BY <1>7 DEF Top
      <3>2. \A i \in 1..MaxAttempts : i \in S <=> i =< j[2]
        BY <1>1, <1>10 DEF Top
      <3> HIDE DEF S
      <3>3. n = j[2]
        BY <1>1, <3>1, <3>2, OneTop
      <3> QED
        BY <1>1, <1>10, <3>3
    <2>2. Older(o, n)'
      <3>1. \A i \in 1..MaxAttempts : i < n => <<o, i>> # j
        BY <2>1
      <3> QED
        BY <1>2, <1>6, <1>8, <3>1 DEF Older
    <2>3. job'[j] = st /\ offer'[o] = os
      BY <1>2, <1>3, <1>10
    <2>4. "more_info" \notin request[o] /\ "approve" \notin request[o]
      BY <1>8, <2>1 DEF Told
    <2>5. Told(o, j)'
      BY <2>3, <2>4 DEF Told, Answer
    <2> QED
      BY <2>1, <2>2, <2>5
  <1> QED
    BY <1>9, <1>10

LEMMA MatchKept == ASSUME Match, UNCHANGED <<offer, request, job, run>> PROVE Match'
  BY DEF Match, Top, Told, Older

LEMMA InitMatch == Init => Match
  <1> SUFFICES ASSUME Init, NEW o \in Offer, NEW n \in 1..MaxAttempts, Top(o, n) PROVE FALSE
    BY DEF Match
  <1>1. job[<<o, n>>] = "none"
    BY DEF Init, Job
  <1> QED
    BY <1>1 DEF Top

\* A new attempt is made for a request whose jobs have all ended.
LEMMA NewAttempt ==
  ASSUME IInv, Match, NEW o \in Offer, NEW m \in 1..MaxAttempts,
         \A i \in 1..MaxAttempts : job[<<o, i>>] # "none" <=> i < m,
         m > 1 => job[<<o, m - 1>>] \in Ended,
         job' = [job EXCEPT ![<<o, m>>] = "queued"],
         NEW os \in {"submitted", "queued"}, offer' = [offer EXCEPT ![o] = os],
         UNCHANGED run, "more_info" \notin request'[o], "approve" \notin request'[o],
         \A q \in Offer : q # o => request'[q] = request[q]
  PROVE  Match'
  <1>1. \A q \in Offer : \A i \in 1..MaxAttempts : <<q, i>> \in Job
    BY DEF Job
  <1>2. \A k \in Job : job'[k] = IF k = <<o, m>> THEN "queued" ELSE job[k]
    BY DEF IInv, Types, TypeOK
  <1>3. \A q \in Offer : offer'[q] = IF q = o THEN os ELSE offer[q]
    BY DEF IInv, Types, TypeOK
  <1>4. SUFFICES ASSUME NEW q \in Offer, NEW n \in 1..MaxAttempts, Top(q, n)'
                 PROVE  Told(q, <<q, n>>)' /\ Older(q, n)'
    BY DEF Match
  <1>5. CASE q # o
    <2>1. \A i \in 1..MaxAttempts : job'[<<q, i>>] = job[<<q, i>>]
      BY <1>1, <1>2, <1>5
    <2>2. Top(q, n)
      BY <1>4, <2>1 DEF Top
    <2>3. Told(q, <<q, n>>) /\ Older(q, n)
      BY <2>2 DEF Match
    <2> QED
      BY <1>3, <1>5, <2>1, <2>3 DEF Told, Older
  <1>6. CASE q = o
    <2>1. \A i \in 1..MaxAttempts : job'[<<o, i>>] = IF i = m THEN "queued" ELSE job[<<o, i>>]
      BY <1>1, <1>2
    <2>2. \A i \in 1..MaxAttempts : job'[<<o, i>>] # "none" <=> i =< m
      BY <2>1
    <2>3. n = m
      <3> DEFINE S == {i \in 1..MaxAttempts : job'[<<o, i>>] # "none"}
      <3>1. \A i \in 1..MaxAttempts : i \in S <=> i =< n
        BY <1>4, <1>6 DEF Top
      <3>2. \A i \in 1..MaxAttempts : i \in S <=> i =< m
        BY <2>2
      <3> HIDE DEF S
      <3> QED
        BY <3>1, <3>2, OneTop
    <2>4. Told(q, <<q, n>>)'
      BY <1>3, <1>6, <2>1, <2>3 DEF Told
    <2>5. \A i \in 1..MaxAttempts : i < m => job[<<o, i>>] \in Ended
      <3> SUFFICES ASSUME NEW i \in 1..MaxAttempts, i < m PROVE job[<<o, i>>] \in Ended
        OBVIOUS
      <3>1. m - 1 \in 1..MaxAttempts /\ m > 1
        BY OfferAssumption
      <3>2. Top(o, m - 1)
        BY <3>1 DEF Top
      <3>3. Older(o, m - 1)
        BY <3>1, <3>2 DEF Match
      <3>4. CASE i = m - 1
        BY <3>1, <3>4
      <3>5. CASE i < m - 1
        BY <3>3, <3>5 DEF Older
      <3> QED
        BY <3>4, <3>5
    <2>6. Older(q, n)'
      BY <1>6, <2>1, <2>3, <2>5 DEF Older
    <2> QED
      BY <2>4, <2>6
  <1> QED
    BY <1>5, <1>6

\* mark_job_running: the request of the latest job is being processed.
LEMMA ClaimMatch == ASSUME IInv, Match, NEW w \in Worker, Claim(w) PROVE Match'
  <1> DEFINE j == task[w].job
  <1>1. j \in Job /\ job[j] = "queued"
    BY DEF Claim, IInv, Types, Task, Idle, On, Place, Waiting
  <1>2. /\ job' = [job EXCEPT ![j] = "running"] /\ offer' = [offer EXCEPT ![j[1]] = "processing"]
        /\ UNCHANGED <<request, run>>
    BY DEF Claim
  <1>3. run \in [Job -> {"none", "pending"} \cup Answer]
    BY DEF IInv, Types, TypeOK
  <1> HIDE DEF j
  <1> QED
    BY <1>1, <1>2, <1>3, LatestWritten

\* The worker that holds the version runs the latest job of its request.
LEMMA OwnerRuns ==
  ASSUME IInv, NEW w \in Worker, Claimed(w), Owned(w)
  PROVE  task[w].job \in Job /\ job[task[w].job] = "running"
  <1>1. task[w].job \in Job
    BY DEF IInv, Types, Task, Idle, Claimed
  <1> QED
    BY <1>1 DEF IInv, Fence, Owned

\* _fail_job.
LEMMA FailMatch == ASSUME IInv, Match, NEW w \in Worker, Fail(w) PROVE Match'
  <1>1. CASE ~Owned(w)
    BY <1>1, MatchKept DEF Fail, rowVars
  <1>2. CASE Owned(w)
    <2> DEFINE j == task[w].job
    <2>1. j \in Job /\ job[j] = "running"
      BY <1>2, OwnerRuns DEF Fail, On, Claimed
    <2>2. PICK st \in {"queued", "failed"} :
            /\ job' = [job EXCEPT ![j] = st] /\ offer' = [offer EXCEPT ![j[1]] = st]
            /\ UNCHANGED <<request, run>>
      BY <1>2 DEF Fail
    <2>3. run \in [Job -> {"none", "pending"} \cup Answer]
      BY DEF IInv, Types, TypeOK
    <2> HIDE DEF j
    <2> QED
      BY <2>1, <2>2, <2>3, LatestWritten
  <1> QED
    BY <1>1, <1>2

\* Phase 3 stores the result with the job and the request.
LEMMA PersistMatch ==
  ASSUME IInv, Match, NEW w \in Worker, NEW answer \in Answer, NEW n \in Actual, Persist(w, answer, n)
  PROVE  Match'
  <1> DEFINE j == task[w].job
  <1>1. j \in Job /\ job[j] = "running"
    BY OwnerRuns DEF Persist, On, Claimed
  <1>2. /\ job' = [job EXCEPT ![j] = "completed"] /\ offer' = [offer EXCEPT ![j[1]] = answer]
        /\ run' = [run EXCEPT ![j] = answer] /\ UNCHANGED request
    BY DEF Persist
  <1>3. run \in [Job -> {"none", "pending"} \cup Answer]
    BY DEF IInv, Types, TypeOK
  <1> HIDE DEF j
  <1>4. run' \in [Job -> {"none", "pending"} \cup Answer] /\ run'[j] = answer /\ \A k \in Job : k # j => run'[k] = run[k]
    BY <1>1, <1>2, <1>3
  <1> QED
    BY <1>1, <1>2, <1>4, LatestWritten

\* The agent run of a job that runs is pending; nothing is told by it.
LEMMA CreateRunMatch == ASSUME IInv, Match, NEW w \in Worker, CreateRun(w) PROVE Match'
  <1> DEFINE j == task[w].job
  <1>1. run[j] = "none" /\ run' = [run EXCEPT ![j] = "pending"] /\ UNCHANGED <<offer, request, job>>
    BY DEF CreateRun, rowVars
  <1>2. run \in [Job -> {"none", "pending"} \cup Answer]
    BY DEF IInv, Types, TypeOK
  <1> HIDE DEF j
  <1>3. \A k \in Job : run'[k] = run[k] \/ run[k] = "none"
    BY <1>1, <1>2
  <1> SUFFICES ASSUME NEW o \in Offer, NEW n \in 1..MaxAttempts, Top(o, n)' PROVE Told(o, <<o, n>>)' /\ Older(o, n)'
    BY DEF Match
  <1>4. Top(o, n) /\ <<o, n>> \in Job
    BY <1>1 DEF Top, Job
  <1>5. Told(o, <<o, n>>) /\ Older(o, n)
    BY <1>4 DEF Match
  <1>6. run[<<o, n>>] # "none" => run'[<<o, n>>] = run[<<o, n>>]
    BY <1>3, <1>4
  <1> QED
    BY <1>1, <1>5, <1>6 DEF Told, Older, Answer

\* The reconciler takes an expired job back, or gives it up.
LEMMA ExpiredMatch == ASSUME IInv, Match, NEW j \in Job, RequeueExpired(j) \/ FailExpired(j) PROVE Match'
  <1>1. PICK st \in {"queued", "failed"} :
            /\ job[j] = "running"
            /\ job' = [job EXCEPT ![j] = st]
            /\ offer' = [offer EXCEPT ![j[1]] = IF @ \in Terminal THEN @ ELSE st]
            /\ UNCHANGED <<request, run>>
    BY DEF RequeueExpired, FailExpired
  <1>2. j[1] \in Offer /\ Told(j[1], j)
    BY <1>1, LiveIsLatest
  <1> DEFINE os == IF offer[j[1]] \in Terminal THEN offer[j[1]] ELSE st
  <1>3. offer' = [offer EXCEPT ![j[1]] = os]
    BY <1>1
  <1>4. os \in {st, "cancelled"}
    BY <1>1, <1>2 DEF Told, Terminal
  <1>5. run \in [Job -> {"none", "pending"} \cup Answer]
    BY DEF IInv, Types, TypeOK
  <1> HIDE DEF os
  <1> QED
    BY <1>1, <1>3, <1>4, <1>5, LatestWritten

\* Cancel and approve write the request whatever it says by then.
LEMMA CloseMatch == ASSUME IInv, Match, NEW o \in Offer, Cancel(o) \/ Approve(o) PROVE Match'
  <1>1. PICK op \in {"cancel", "approve"}, st \in {"cancelled", "completed"} :
            /\ op \in request[o]
            /\ st = "completed" => op = "approve"
            /\ request' = [request EXCEPT ![o] = @ \ {op}]
            /\ offer' = [offer EXCEPT ![o] = st]
            /\ UNCHANGED <<job, run>>
    BY DEF Cancel, Approve, Close
  <1>2. \A q \in Offer : /\ request'[q] = IF q = o THEN request[q] \ {op} ELSE request[q]
                         /\ offer'[q] = IF q = o THEN st ELSE offer[q]
    BY <1>1 DEF IInv, Types, TypeOK
  <1> SUFFICES ASSUME NEW q \in Offer, NEW n \in 1..MaxAttempts, Top(q, n)' PROVE Told(q, <<q, n>>)' /\ Older(q, n)'
    BY DEF Match
  <1>3. Top(q, n) /\ <<q, n>> \in Job
    BY <1>1 DEF Top, Job
  <1>4. Told(q, <<q, n>>) /\ Older(q, n)
    BY <1>3 DEF Match
  <1>5. CASE q # o
    BY <1>1, <1>2, <1>4, <1>5 DEF Told, Older
  <1>6. CASE q = o /\ op = "cancel"
    BY <1>1, <1>2, <1>4, <1>6 DEF Told, Older
  <1>7. CASE q = o /\ op = "approve"
    BY <1>1, <1>2, <1>4, <1>7 DEF Told, Older
  <1> QED
    BY <1>1, <1>5, <1>6, <1>7

\* A check that passes leaves an operation to come: approval and more-info only
\* for a request whose latest job returned the answer that calls for them.
LEMMA CheckMatch == ASSUME IInv, Match, NEW o \in Offer, NEW op \in Operation, Check(o, op) PROVE Match'
  <1>1. /\ offer[o] \in Allowed(op)
        /\ request' = [request EXCEPT ![o] = @ \cup {op}]
        /\ UNCHANGED <<offer, job, run>>
    BY DEF Check, rowVars
  <1>2. \A q \in Offer : request'[q] = IF q = o THEN request[q] \cup {op} ELSE request[q]
    BY <1>1 DEF IInv, Types, TypeOK
  <1> SUFFICES ASSUME NEW q \in Offer, NEW n \in 1..MaxAttempts, Top(q, n)' PROVE Told(q, <<q, n>>)' /\ Older(q, n)'
    BY DEF Match
  <1>3. Top(q, n) /\ <<q, n>> \in Job /\ n \in Int
    BY <1>1, OfferAssumption DEF Top, Job
  <1>4. Told(q, <<q, n>>) /\ Older(q, n)
    BY <1>3 DEF Match
  <1>5. job[<<q, n>>] \in {"queued", "running", "completed", "failed"}
    BY <1>3 DEF Top, IInv, Types, TypeOK, Ended
  <1>6. CASE q # o \/ op = "cancel"
    BY <1>1, <1>2, <1>4, <1>6 DEF Told, Older
  <1>7. CASE q = o /\ op # "cancel"
    <2>1. /\ op = "approve" => offer[q] = "needs_review"
          /\ op = "more_info" => offer[q] = "needs_more_info"
          /\ op \in {"approve", "more_info"}
      BY <1>1, <1>7 DEF Allowed, Operation
    <2>2. /\ job[<<q, n>>] = "completed"
          /\ op = "approve" => run[<<q, n>>] = "needs_review"
          /\ op = "more_info" => run[<<q, n>>] = "needs_more_info"
      BY <1>4, <1>5, <2>1 DEF Told, Answer
    <2> QED
      BY <1>1, <1>2, <1>4, <1>7, <2>2 DEF Told, Older
  <1> QED
    BY <1>6, <1>7

\* The first attempt of a request.
LEMMA SubmitMatch == ASSUME IInv, Match, NEW o \in Offer, NEW t \in Asked, Submit(o, t) PROVE Match'
  <1>1. /\ offer[o] = "none"
        /\ offer' = [offer EXCEPT ![o] = "submitted"]
        /\ job' = [job EXCEPT ![<<o, 1>>] = "queued"]
        /\ UNCHANGED <<request, run>>
    BY DEF Submit
  <1>2. request[o] = {} /\ \A i \in 1..MaxAttempts : job[<<o, i>>] # "none" <=> i < 1
    BY <1>1, OfferAssumption DEF IInv, Chains, Chain
  <1> DEFINE m == 1
             os == "submitted"
  <1>3. /\ m \in 1..MaxAttempts
        /\ \A i \in 1..MaxAttempts : job[<<o, i>>] # "none" <=> i < m
        /\ m > 1 => job[<<o, m - 1>>] \in Ended
        /\ job' = [job EXCEPT ![<<o, m>>] = "queued"]
    BY <1>1, <1>2, OfferAssumption
  <1>4. os \in {"submitted", "queued"} /\ offer' = [offer EXCEPT ![o] = os] /\ UNCHANGED run
    BY <1>1
  <1>5. /\ "more_info" \notin request'[o] /\ "approve" \notin request'[o]
        /\ \A q \in Offer : q # o => request'[q] = request[q]
    BY <1>1, <1>2
  <1> HIDE DEF m, os
  <1> QED
    BY <1>3, <1>4, <1>5, NewAttempt

\* The next attempt, after an answer that asked for more.
LEMMA MoreInfoMatch == ASSUME IInv, Match, NEW o \in Offer, NEW t \in Asked, MoreInfo(o, t) PROVE Match'
  <1> USE OfferAssumption
  <1>1. PICK n \in 1..(MaxAttempts - 1) : \A i \in 1..MaxAttempts : job[<<o, i>>] # "none" <=> i =< n
    BY DEF IInv, Chains, Chain, MoreInfo
  <1>2. n \in 1..MaxAttempts /\ n + 1 \in 1..MaxAttempts /\ (n + 1) - 1 = n
    OBVIOUS
  <1>3. LatestJob(o) = <<o, n>>
    BY <1>1, <1>2, LatestIs
  <1>4. /\ "more_info" \in request[o]
        /\ request' = [request EXCEPT ![o] = @ \ {"more_info"}]
        /\ job' = [job EXCEPT ![<<o, n + 1>>] = "queued"]
        /\ offer' = [offer EXCEPT ![o] = "queued"]
        /\ UNCHANGED run
    BY <1>3 DEF MoreInfo, Close
  <1>5. job[<<o, n>>] = "completed" /\ run[<<o, n>>] = "needs_more_info" /\ "approve" \notin request[o]
    BY <1>1, <1>2, <1>4 DEF Match, Top, Told
  <1>6. \A q \in Offer : request'[q] = IF q = o THEN request[q] \ {"more_info"} ELSE request[q]
    BY <1>4 DEF IInv, Types, TypeOK
  <1>7. \A i \in 1..MaxAttempts : job[<<o, i>>] # "none" <=> i < n + 1
    BY <1>1
  <1> DEFINE m == n + 1
             os == "queued"
  <1>8. /\ m \in 1..MaxAttempts /\ \A i \in 1..MaxAttempts : job[<<o, i>>] # "none" <=> i < m
        /\ m > 1 => job[<<o, m - 1>>] \in Ended
        /\ job' = [job EXCEPT ![<<o, m>>] = "queued"]
    BY <1>2, <1>4, <1>5, <1>7 DEF Ended
  <1>9. os \in {"submitted", "queued"} /\ offer' = [offer EXCEPT ![o] = os] /\ UNCHANGED run
    BY <1>4
  <1>10. /\ "more_info" \notin request'[o] /\ "approve" \notin request'[o]
         /\ \A q \in Offer : q # o => request'[q] = request[q]
    BY <1>5, <1>6
  <1> HIDE DEF m, os
  <1> QED
    BY <1>8, <1>9, <1>10, NewAttempt

LEMMA NextMatch == IInv /\ Match /\ [Next]_vars => Match'
  <1> SUFFICES ASSUME IInv, Match, [Next]_vars PROVE Match'
    OBVIOUS
  <1>1. CASE UNCHANGED <<offer, request, job, run>>
    BY <1>1, MatchKept
  <1>2. CASE RequestStep
    BY <1>2, SubmitMatch, MoreInfoMatch, CheckMatch, CloseMatch DEF RequestStep
  <1>3. CASE LaneStep
    BY <1>1, <1>3 DEF LaneStep, Measure, Push, LosePayload, Dequeue, rowVars
  <1>4. ASSUME NEW w \in Worker, WorkerStep(w) PROVE Match'
    BY <1>1, <1>4, ClaimMatch, FailMatch, PersistMatch, CreateRunMatch DEF WorkerStep, Reserve, BudgetExhausted,
       InputsUnresolved, CallFails, Release, FencedOff, Ack, Abandon, rowVars
  <1>5. CASE BackgroundStep
    BY <1>1, <1>5, ExpiredMatch DEF BackgroundStep, Sweep, rowVars
  <1> QED
    BY <1>1, <1>2, <1>3, <1>4, <1>5 DEF Next, vars

\* What Match says of the latest job of a request that has one.
LEMMA LatestTold ==
  ASSUME IInv, Match, NEW o \in Offer, offer[o] # "none" \/ Jobs(o) # {}
  PROVE  /\ Told(o, LatestJob(o))
         /\ job[LatestJob(o)] \in {"queued", "running", "completed", "failed"}
  <1>1. PICK n \in 0..MaxAttempts :
            /\ \A i \in 1..MaxAttempts : job[<<o, i>>] # "none" <=> i =< n
            /\ offer[o] = "none" <=> n = 0
    BY DEF IInv, Chains, Chain
  <1>2. n \in 1..MaxAttempts
    <2>1. CASE offer[o] # "none"
      BY <1>1, <2>1, OfferAssumption
    <2>2. CASE Jobs(o) # {}
      <3>1. PICK j \in Jobs(o) : TRUE
        BY <2>2
      <3>2. j[2] \in 1..MaxAttempts /\ job[<<o, j[2]>>] # "none"
        BY <3>1 DEF Jobs, Job
      <3> QED
        BY <1>1, <3>2, OfferAssumption
    <2> QED
      BY <2>1, <2>2
  <1>3. LatestJob(o) = <<o, n>>
    BY <1>1, <1>2, LatestIs
  <1>4. Told(o, <<o, n>>)
    BY <1>1, <1>2 DEF Match, Top
  <1>5. <<o, n>> \in Job /\ job[<<o, n>>] # "none"
    BY <1>1, <1>2, OfferAssumption DEF Job
  <1> QED
    BY <1>3, <1>4, <1>5 DEF IInv, Types, TypeOK, Ended

\* A request shows the state of its latest job unless it was cancelled or
\* approved, whoever writes it: handlers, workers or _reconcile_expired_leases.
THEOREM RequestShowsItsJob == Spec => []OfferMatchesJob
  <1>1. IInv /\ Match => OfferMatchesJob
    <2> SUFFICES ASSUME IInv, Match, NEW o \in Offer, Jobs(o) # {}
                 PROVE  offer[o] \in Shows(o) \cup {"cancelled", "completed"}
      BY DEF OfferMatchesJob
    <2>1. Told(o, LatestJob(o)) /\ job[LatestJob(o)] \in {"queued", "running", "completed", "failed"}
      BY LatestTold
    <2> QED
      BY <2>1 DEF Told, Shows, Answer
  <1> QED
    BY <1>1, InitIInv, NextIInv, InitMatch, NextMatch, PTL DEF Spec

\* What is reviewed or approved has the result of its latest job, stored by the
\* phase-3 transaction of a worker that owned the job.
THEOREM ReviewHasAResult == Spec => []ReviewedHasResult
  <1>1. IInv /\ Match => ReviewedHasResult
    <2> SUFFICES ASSUME IInv, Match, NEW o \in Offer, offer[o] \in {"needs_review", "completed"}
                 PROVE  run[LatestJob(o)] = "needs_review" /\ job[LatestJob(o)] = "completed"
      BY DEF ReviewedHasResult
    <2>1. Told(o, LatestJob(o)) /\ job[LatestJob(o)] \in {"queued", "running", "completed", "failed"}
      BY LatestTold
    <2> QED
      BY <2>1 DEF Told, Answer
  <1> QED
    BY <1>1, InitIInv, NextIInv, InitMatch, NextMatch, PTL DEF Spec

\* Handlers, workers and the reconciler write a request in any order, and it
\* tells of its latest job and that job's result all the same.
THEOREM RequestTellsItsJob == Spec => []OfferTellsItsJob
  BY RequestShowsItsJob, ReviewHasAResult, PTL DEF OfferTellsItsJob

-----------------------------------------------------------------------------
(* Spending. *)

\* The estimates the counter still holds: one for each run that has reserved
\* and not settled, and one for a reservation whose runs are gone.
Holds(w) == task[w].at \in {"holding", "calling", "releasing"}
Owed ==
    {<<"run", w>> : w \in {v \in Worker : Holds(v)}}
        \cup {<<"row", j>> : j \in {k \in Job : reservation[k] = "reserved" /\ Holding(k) = {}}}

\* The counter covers what was spent and what is owed.
Covered == used >= spent + Estimate * Cardinality(Owed)

LEMMA OwedFinite == IsFiniteSet(Owed) /\ Cardinality(Owed) \in Nat
  <1> DEFINE Runs == {"run"} \X Worker
             Rows == {"row"} \X Job
  <1>1. IsFiniteSet(Runs)
    BY FS_Product, FS_Singleton, OfferAssumption
  <1>2. IsFiniteSet(Job)
    <2>1. IsFiniteSet(1..MaxAttempts)
      BY FS_Interval, OfferAssumption
    <2> QED
      BY <2>1, FS_Product, OfferAssumption DEF Job
  <1>3. IsFiniteSet(Rows)
    BY <1>2, FS_Product, FS_Singleton
  <1>4. Owed \subseteq Runs \cup Rows
    BY DEF Owed
  <1> HIDE DEF Runs, Rows
  <1>5. IsFiniteSet(Runs \cup Rows)
    BY <1>1, <1>3, FS_Union
  <1> QED
    BY <1>4, <1>5, FS_Subset, FS_CardinalityType

LEMMA OwedFinite2 == IsFiniteSet(Owed') /\ Cardinality(Owed') \in Nat
  <1>1. (IsFiniteSet(Owed) /\ Cardinality(Owed) \in Nat)'
    BY OwedFinite, PTL
  <1> QED
    BY <1>1

\* An estimate for one more.
LEMMA Estimates ==
  ASSUME NEW c \in Nat, NEW d \in Nat
  PROVE  /\ Estimate * c \in Nat /\ Estimate * d \in Nat
         /\ Estimate * (c + 1) = Estimate * c + Estimate
         /\ d =< c => Estimate * d =< Estimate * c
  <1>1. Estimate \in Nat
    BY OfferAssumption
  <1> QED
    BY <1>1, SMT

\* Nothing more is owed.
LEMMA CoveredStays ==
  ASSUME IInv, Covered, UNCHANGED <<used, spent>>,
         \/ Owed' \subseteq Owed
         \/ \E x \in Owed : \E y : Owed' \subseteq (Owed \ {x}) \cup {y}
  PROVE  Covered'
  <1> DEFINE c == Cardinality(Owed)
             d == Cardinality(Owed')
  <1>1. c \in Nat /\ d \in Nat
    BY OwedFinite, OwedFinite2
  <1>2. d =< c
    <2>1. CASE Owed' \subseteq Owed
      BY <2>1, OwedFinite, FS_Subset
    <2>2. ASSUME NEW x \in Owed, NEW y, Owed' \subseteq (Owed \ {x}) \cup {y} PROVE d =< c
      <3> DEFINE R == Owed \ {x}
      <3>1. IsFiniteSet(R) /\ Cardinality(R) = c - 1
        BY OwedFinite, FS_RemoveElement
      <3> HIDE DEF R
      <3>2. IsFiniteSet(R \cup {y}) /\ Cardinality(R \cup {y}) \in {Cardinality(R), Cardinality(R) + 1}
        BY <3>1, FS_AddElement
      <3>3. d =< Cardinality(R \cup {y})
        BY <2>2, <3>2, FS_Subset DEF R
      <3> HIDE DEF c, d
      <3> QED
        BY <1>1, <3>1, <3>2, <3>3
    <2> QED
      BY <2>1, <2>2
  <1> HIDE DEF c, d
  <1>3. Estimate * d =< Estimate * c /\ Estimate * d \in Nat /\ Estimate * c \in Nat
    BY <1>1, <1>2, Estimates
  <1>4. used \in Nat /\ spent \in Nat /\ used >= spent + Estimate * c
    BY DEF IInv, Types, TypeOK, Covered, c
  <1>5. used' >= spent' + Estimate * d
    BY <1>3, <1>4
  <1> QED
    BY <1>5 DEF Covered, d

\* A reservation is owed, and counted.
LEMMA CoveredGrows ==
  ASSUME IInv, Covered, NEW x, Owed' \subseteq Owed \cup {x}, used' = used + Estimate, UNCHANGED spent
  PROVE  Covered'
  <1> DEFINE c == Cardinality(Owed)
             d == Cardinality(Owed')
  <1>1. c \in Nat /\ d \in Nat
    BY OwedFinite, OwedFinite2
  <1>2. d =< c + 1
    <2>1. IsFiniteSet(Owed \cup {x}) /\ Cardinality(Owed \cup {x}) \in {c, c + 1}
      BY OwedFinite, FS_AddElement
    <2>2. d =< Cardinality(Owed \cup {x})
      BY <2>1, FS_Subset
    <2> HIDE DEF c, d
    <2> QED
      BY <1>1, <2>1, <2>2
  <1> HIDE DEF c, d
  <1>3. /\ Estimate * (c + 1) = Estimate * c + Estimate
        /\ Estimate * d \in Nat /\ Estimate * c \in Nat /\ Estimate \in Nat
    BY <1>1, Estimates, OfferAssumption
  <1>6. Estimate * d =< Estimate * (c + 1)
    <2>1. c + 1 \in Nat
      BY <1>1
    <2> QED
      BY <1>1, <1>2, <2>1, Estimates
  <1>4. used \in Nat /\ spent \in Nat /\ used >= spent + Estimate * c
    BY DEF IInv, Types, TypeOK, Covered, c
  <1>5. used' >= spent' + Estimate * d
    BY <1>3, <1>4, <1>6
  <1> QED
    BY <1>5 DEF Covered, d

\* What was owed is settled at n tokens.
LEMMA CoveredSettles ==
  ASSUME IInv, Covered, NEW x \in Owed, Owed' \subseteq Owed \ {x}, NEW n \in Nat,
         used' = AtLeastZero(used + n - Estimate), spent' = spent + n
  PROVE  Covered'
  <1> DEFINE c == Cardinality(Owed)
             d == Cardinality(Owed')
  <1>1. c \in Nat /\ d \in Nat
    BY OwedFinite, OwedFinite2
  <1>2. d + 1 =< c
    <2> DEFINE R == Owed \ {x}
    <2>1. IsFiniteSet(R) /\ Cardinality(R) = c - 1
      BY OwedFinite, FS_RemoveElement
    <2>2. d =< Cardinality(R)
      BY <2>1, FS_Subset
    <2> HIDE DEF c, d
    <2> QED
      BY <1>1, <2>1, <2>2
  <1> HIDE DEF c, d
  <1>3. /\ Estimate * (d + 1) = Estimate * d + Estimate
        /\ Estimate * d \in Nat /\ Estimate * c \in Nat /\ Estimate \in Nat
    BY <1>1, Estimates, OfferAssumption
  <1>6. Estimate * (d + 1) =< Estimate * c
    <2>1. d + 1 \in Nat
      BY <1>1
    <2> QED
      BY <1>1, <1>2, <2>1, Estimates
  <1>4. used \in Nat /\ spent \in Nat /\ used >= spent + Estimate * c
    BY DEF IInv, Types, TypeOK, Covered, c
  <1>5. used' >= spent' + Estimate * d
    BY <1>3, <1>4, <1>6 DEF AtLeastZero
  <1> QED
    BY <1>5 DEF Covered, d

\* What is owed, seen from the runs and the rows.
LEMMA OwedRuns == \A w \in Worker : <<"run", w>> \in Owed <=> Holds(w)
  BY DEF Owed
LEMMA OwedRows == \A j \in Job : <<"row", j>> \in Owed <=> reservation[j] = "reserved" /\ Holding(j) = {}
  BY DEF Owed

\* No run starts or stops holding tokens, and no row is touched.
LEMMA SameHolders ==
  ASSUME IInv, Covered, UNCHANGED budgetVars,
         \A w \in Worker : Holds(w)' <=> Holds(w),
         \A w \in Worker : Holds(w) => task'[w].job = task[w].job
  PROVE  Covered'
  <1>1. \A j : Holding(j)' = Holding(j)
    BY DEF Holding, Holds
  <1>2. Owed' = Owed
    BY <1>1 DEF Owed, budgetVars
  <1> QED
    BY <1>2, CoveredStays DEF budgetVars

\* A run that held tokens stops: it leaves them to the sweeper, gives them
\* back, or records what was consumed.
LEMMA HolderLeaves ==
  ASSUME IInv, Covered, NEW w \in Worker, Holds(w), ~ Holds(w)',
         \A v \in Worker : v # w => task'[v] = task[v],
         \/ UNCHANGED budgetVars
         \/ Credit(task[w].job, "released")
         \/ \E n \in Actual : RecordActual(task[w].job, n)
  PROVE  Covered'
  <1> DEFINE j == task[w].job
             x == <<"run", w>>
             y == <<"row", j>>
  <1>1. j \in Job
    BY TaskJob DEF Holds
  <1>2. x \in Owed
    BY OwedRuns
  <1>3. \A v \in Worker : Holds(v)' => Holds(v) /\ v # w
    BY DEF Holds
  <1>4. \A k \in Job : k # j => Holding(k)' = Holding(k)
    <2> SUFFICES ASSUME NEW k \in Job, k # j PROVE Holding(k)' = Holding(k)
      OBVIOUS
    <2>1. \A v \in Worker : v \in Holding(k)' <=> v \in Holding(k)
      <3> TAKE v \in Worker
      <3>1. CASE v # w
        BY <3>1 DEF Holding
      <3>2. CASE v = w
        BY <2>1, <3>2 DEF Holding, Holds
      <3> QED
        BY <3>1, <3>2
    <2> QED
      BY <2>1 DEF Holding
  <1>5. ASSUME NEW z \in Owed' PROVE \/ z \in Owed \ {x}
                                     \/ z = y /\ reservation'[j] = "reserved"
                                     \/ \E k \in Job : z = <<"row", k>> /\ k # j /\ reservation'[k] # reservation[k]
    <2>1. CASE \E v \in Worker : z = <<"run", v>> /\ Holds(v)'
      BY <1>3, <2>1, OwedRuns
    <2>2. CASE \E k \in Job : z = <<"row", k>> /\ reservation'[k] = "reserved" /\ Holding(k)' = {}
      <3>1. PICK k \in Job : z = <<"row", k>> /\ reservation'[k] = "reserved" /\ Holding(k)' = {}
        BY <2>2
      <3>2. CASE k = j
        BY <3>1, <3>2
      <3>3. CASE k # j /\ reservation'[k] = reservation[k]
        <4>1. z \in Owed
          BY <1>4, <3>1, <3>3, OwedRows
        <4>2. z # x
          BY <3>1
        <4> QED
          BY <4>1, <4>2
      <3> QED
        BY <3>1, <3>2, <3>3
    <2> QED
      BY <2>1, <2>2 DEF Owed
  <1>6. reservation \in [Job -> {"none", "reserved", "consumed", "released", "expired"}]
        /\ used \in Nat /\ Estimate \in Nat /\ Actual \subseteq Nat /\ spent \in Nat
    BY OfferAssumption DEF IInv, Types, TypeOK
  <1> HIDE DEF j, x, y
  <1>7. CASE UNCHANGED budgetVars
    <2>1. Owed' \subseteq (Owed \ {x}) \cup {y}
      BY <1>5, <1>7 DEF budgetVars
    <2> QED
      BY <1>2, <1>7, <2>1, CoveredStays DEF budgetVars
  <1>8. CASE Credit(j, "released")
    <2>1. /\ reservation'[j] # "reserved"
          /\ \A k \in Job : k # j => reservation'[k] = reservation[k]
      BY <1>1, <1>6, <1>8 DEF Credit
    <2>2. Owed' \subseteq Owed \ {x}
      BY <1>5, <2>1
    <2>3. CASE reservation[j] = "reserved"
      <3>1. used' = AtLeastZero(used + 0 - Estimate) /\ spent' = spent + 0
        BY <1>6, <1>8, <2>3 DEF Credit
      <3> QED
        BY <1>2, <2>2, <3>1, CoveredSettles
    <2>4. CASE reservation[j] # "reserved"
      BY <1>8, <2>2, <2>4, CoveredStays DEF Credit
    <2> QED
      BY <2>3, <2>4
  <1>9. ASSUME NEW n \in Actual, RecordActual(j, n) PROVE Covered'
    <2>1. /\ reservation'[j] # "reserved"
          /\ \A k \in Job : k # j => reservation'[k] = reservation[k]
      BY <1>1, <1>6, <1>9 DEF RecordActual
    <2>2. Owed' \subseteq Owed \ {x}
      BY <1>5, <2>1
    <2>3. n \in Nat /\ used' = AtLeastZero(used + n - Estimate) /\ spent' = spent + n
      BY <1>6, <1>9 DEF RecordActual
    <2> QED
      BY <1>2, <2>2, <2>3, CoveredSettles
  <1> QED
    BY <1>7, <1>8, <1>9 DEF j

\* A task changes and the others do not.
LEMMA OtherTasks ==
  ASSUME IInv, NEW w \in Worker, NEW x, task' = [task EXCEPT ![w] = x]
  PROVE  task'[w] = x /\ \A v \in Worker : v # w => task'[v] = task[v]
  BY DEF IInv, Types

LEMMA OtherPlaces ==
  ASSUME IInv, NEW w \in Worker, task[w].at # "idle", NEW place, Goto(w, place)
  PROVE  /\ task'[w].at = place /\ task'[w].job = task[w].job
         /\ \A v \in Worker : v # w => task'[v] = task[v]
  <1>1. task[w] \in Task /\ "at" \in DOMAIN task[w] /\ "job" \in DOMAIN task[w]
    BY DEF IInv, Types, Task, Idle
  <1>2. task' = [task EXCEPT ![w] = [task[w] EXCEPT !.at = place]]
    BY DEF Goto
  <1>3. task'[w] = [task[w] EXCEPT !.at = place]
    BY <1>2, OtherTasks
  <1>4. \A v \in Worker : v # w => task'[v] = task[v]
    BY <1>2 DEF IInv, Types
  <1>5. task'[w].at = place /\ task'[w].job = task[w].job
    BY <1>1, <1>3 DEF Task, Idle
  <1> QED
    BY <1>4, <1>5

\* reserve raises the counter by an estimate.
LEMMA ReserveCovered == ASSUME IInv, Covered, NEW w \in Worker, Reserve(w) PROVE Covered'
  <1> DEFINE j == task[w].job
             x == <<"run", w>>
  <1>1. task[w].at = "claimed" /\ Hold(j) /\ Goto(w, "holding")
    BY DEF Reserve, On
  <1>2. /\ task'[w].at = "holding" /\ task'[w].job = j
        /\ \A v \in Worker : v # w => task'[v] = task[v]
    BY <1>1, OtherPlaces
  <1>3. j \in Job /\ reservation \in [Job -> {"none", "reserved", "consumed", "released", "expired"}]
    BY <1>1, TaskJob DEF IInv, Types, TypeOK
  <1>4. \A k \in Job : k # j => reservation'[k] = reservation[k]
    BY <1>1, <1>3 DEF Hold
  <1>5. ASSUME NEW z \in Owed' PROVE z \in Owed \cup {x}
    <2>1. CASE \E v \in Worker : z = <<"run", v>> /\ Holds(v)'
      BY <1>2, <2>1, OwedRuns DEF Holds
    <2>2. CASE \E k \in Job : z = <<"row", k>> /\ reservation'[k] = "reserved" /\ Holding(k)' = {}
      <3>1. PICK k \in Job : z = <<"row", k>> /\ reservation'[k] = "reserved" /\ Holding(k)' = {}
        BY <2>2
      <3>2. k # j
        BY <1>2, <3>1 DEF Holding
      <3>3. Holding(k) = {}
        <4> SUFFICES ASSUME NEW v \in Holding(k) PROVE FALSE
          OBVIOUS
        <4>1. v # w
          BY <1>1 DEF Holding
        <4>2. v \in Holding(k)'
          BY <1>2, <4>1 DEF Holding
        <4> QED
          BY <3>1, <4>2
      <3> QED
        BY <1>4, <3>1, <3>2, <3>3, OwedRows
    <2> QED
      BY <2>1, <2>2 DEF Owed
  <1>6. used' = used + Estimate /\ UNCHANGED spent
    BY <1>1 DEF Hold
  <1> HIDE DEF x
  <1>7. Owed' \subseteq Owed \cup {x}
    BY <1>5
  <1> QED
    BY <1>6, <1>7, CoveredGrows

\* sweep_once credits a reservation whose runs are gone.
LEMMA SweepCovered == ASSUME IInv, Covered, NEW j \in Job, Sweep(j) PROVE Covered'
  <1> DEFINE x == <<"row", j>>
  <1>1. reservation[j] = "reserved" /\ Holding(j) = {} /\ Credit(j, "expired") /\ UNCHANGED task
    BY DEF Sweep
  <1>2. x \in Owed
    BY <1>1, OwedRows
  <1>3. reservation \in [Job -> {"none", "reserved", "consumed", "released", "expired"}]
        /\ used \in Nat /\ Estimate \in Nat /\ spent \in Nat
    BY OfferAssumption DEF IInv, Types, TypeOK
  <1>4. reservation'[j] # "reserved" /\ \A k \in Job : k # j => reservation'[k] = reservation[k]
    BY <1>1, <1>3 DEF Credit
  <1>5. \A k : Holding(k)' = Holding(k)
    BY <1>1 DEF Holding
  <1>6. \A v \in Worker : Holds(v)' <=> Holds(v)
    BY <1>1 DEF Holds
  <1>7. ASSUME NEW z \in Owed' PROVE z \in Owed \ {x}
    <2>1. CASE \E v \in Worker : z = <<"run", v>> /\ Holds(v)'
      BY <1>6, <2>1, OwedRuns
    <2>2. CASE \E k \in Job : z = <<"row", k>> /\ reservation'[k] = "reserved" /\ Holding(k)' = {}
      BY <1>4, <1>5, <2>2, OwedRows
    <2> QED
      BY <2>1, <2>2 DEF Owed
  <1>8. used' = AtLeastZero(used + 0 - Estimate) /\ spent' = spent + 0
    BY <1>1, <1>3 DEF Credit
  <1> HIDE DEF x
  <1> QED
    BY <1>2, <1>7, <1>8, CoveredSettles

LEMMA WorkerCovered == ASSUME IInv, Covered, NEW w \in Worker, WorkerStep(w) PROVE Covered'
  <1>1. CASE Claim(w)
    <2>1. task[w].at = "leased" /\ UNCHANGED budgetVars
      BY <1>1 DEF Claim, On
    <2>2. PICK x : x.at = "claimed" /\ task' = [task EXCEPT ![w] = x]
      BY <1>1 DEF Claim
    <2>3. task'[w] = x /\ \A v \in Worker : v # w => task'[v] = task[v]
      BY <2>2, OtherTasks
    <2> QED
      BY <2>1, <2>2, <2>3, SameHolders DEF Holds
  <1>2. CASE BudgetExhausted(w)
    <2>1. task[w].at = "claimed" /\ UNCHANGED budgetVars
      BY <1>2 DEF BudgetExhausted, On
    <2>2. PICK x : x.at = "failing" /\ task' = [task EXCEPT ![w] = x]
      BY <1>2, FailMoves DEF BudgetExhausted, Code
    <2>3. task'[w] = x /\ \A v \in Worker : v # w => task'[v] = task[v]
      BY <2>2, OtherTasks
    <2> QED
      BY <2>1, <2>2, <2>3, SameHolders DEF Holds
  <1>3. CASE InputsUnresolved(w) \/ \E code \in {"transport", "rejected"} : CallFails(w, code)
    <2>1. Holds(w) /\ UNCHANGED budgetVars
      BY <1>3 DEF InputsUnresolved, CallFails, On, Holds
    <2>2. PICK x : x.at = "releasing" /\ x.job = task[w].job /\ task' = [task EXCEPT ![w] = x]
      BY <1>3, FailMoves DEF InputsUnresolved, CallFails, Code
    <2>3. task'[w] = x /\ \A v \in Worker : v # w => task'[v] = task[v]
      BY <2>2, OtherTasks
    <2> QED
      BY <2>1, <2>2, <2>3, SameHolders DEF Holds
  <1>4. CASE CreateRun(w)
    <2>1. task[w].at = "holding" /\ UNCHANGED budgetVars /\ Goto(w, "calling")
      BY <1>4 DEF CreateRun, On
    <2>2. /\ task'[w].at = "calling" /\ task'[w].job = task[w].job
          /\ \A v \in Worker : v # w => task'[v] = task[v]
      BY <2>1, OtherPlaces
    <2> QED
      BY <2>1, <2>2, SameHolders DEF Holds
  <1>5. CASE Release(w) \/ \E answer \in Answer, n \in Actual : Persist(w, answer, n)
    <2>1. PICK place \in {"failing", "acking"} : Goto(w, place)
      BY <1>5 DEF Release, Persist
    <2>2. Holds(w) /\ task[w].at # "idle"
      BY <1>5 DEF Release, Persist, On, Holds
    <2>3. task'[w].at = place /\ \A v \in Worker : v # w => task'[v] = task[v]
      BY <2>1, <2>2, OtherPlaces
    <2>4. ~ Holds(w)'
      BY <2>3 DEF Holds
    <2>5. \/ UNCHANGED budgetVars
          \/ Credit(task[w].job, "released")
          \/ \E n \in Actual : RecordActual(task[w].job, n)
      BY <1>5 DEF Release, Persist
    <2> QED
      BY <2>2, <2>3, <2>4, <2>5, HolderLeaves
  <1>6. CASE \E n \in Actual : FencedOff(w, n)
    <2>1. Holds(w) /\ task' = [task EXCEPT ![w] = Idle]
      BY <1>6 DEF FencedOff, On, Holds
    <2>2. task'[w] = Idle /\ \A v \in Worker : v # w => task'[v] = task[v]
      BY <2>1, OtherTasks
    <2>3. ~ Holds(w)'
      BY <2>2 DEF Holds, Idle
    <2>4. UNCHANGED budgetVars \/ \E n \in Actual : RecordActual(task[w].job, n)
      BY <1>6 DEF FencedOff
    <2> QED
      BY <2>1, <2>2, <2>3, <2>4, HolderLeaves
  <1>7. CASE Fail(w) \/ Ack(w) \/ Abandon(w)
    <2>1. task' = [task EXCEPT ![w] = Idle] /\ UNCHANGED budgetVars
      BY <1>7 DEF Fail, Ack, Abandon
    <2>2. task'[w] = Idle /\ \A v \in Worker : v # w => task'[v] = task[v]
      BY <2>1, OtherTasks
    <2>3. ~ Holds(w)'
      BY <2>2 DEF Holds, Idle
    <2>4. CASE Holds(w)
      BY <2>1, <2>2, <2>3, <2>4, HolderLeaves
    <2>5. CASE ~ Holds(w)
      BY <2>1, <2>2, <2>3, <2>5, SameHolders DEF Holds
    <2> QED
      BY <2>4, <2>5
  <1> QED
    BY <1>1, <1>2, <1>3, <1>4, <1>5, <1>6, <1>7, ReserveCovered DEF WorkerStep

LEMMA NextCovered == IInv /\ Covered /\ [Next]_vars => Covered'
  <1> SUFFICES ASSUME IInv, Covered, [Next]_vars PROVE Covered'
    OBVIOUS
  <1>1. CASE UNCHANGED <<task, budgetVars>>
    BY <1>1, SameHolders DEF Holds
  <1>2. CASE RequestStep
    BY <1>1, <1>2 DEF RequestStep, Submit, MoreInfo, Check, Cancel, Approve, redisVars, rowVars
  <1>3. CASE LaneStep
    <2>1. ASSUME NEW w \in Worker, NEW t \in Tier, Dequeue(w, t) PROVE Covered'
      <3>1. task[w].at = "idle" /\ UNCHANGED budgetVars
        BY <2>1 DEF Dequeue
      <3>2. PICK x : x.at = "leased" /\ task' = [task EXCEPT ![w] = x]
        BY <2>1 DEF Dequeue
      <3>3. task'[w] = x /\ \A v \in Worker : v # w => task'[v] = task[v]
        BY <3>2, OtherTasks
      <3> QED
        BY <3>1, <3>2, <3>3, SameHolders DEF Holds
    <2> QED
      BY <1>1, <1>3, <2>1 DEF LaneStep, Measure, Push, LosePayload
  <1>4. ASSUME NEW w \in Worker, WorkerStep(w) PROVE Covered'
    BY <1>4, WorkerCovered
  <1>5. CASE BackgroundStep
    BY <1>1, <1>5, SweepCovered DEF BackgroundStep, RequeueExpired, FailExpired, redisVars
  <1> QED
    BY <1>1, <1>2, <1>3, <1>4, <1>5 DEF Next, vars, budgetVars

LEMMA InitCovered == Init => Covered
  <1> SUFFICES ASSUME Init PROVE Covered
    OBVIOUS
  <1>1. Owed = {}
    BY DEF Init, Owed, Holds, Idle
  <1>2. Cardinality(Owed) = 0
    BY <1>1, FS_EmptySet
  <1>3. Estimate * 0 = 0
    BY OfferAssumption
  <1> QED
    BY <1>2, <1>3 DEF Init, Covered

\* The daily counter never falls below what was consumed (budget.py's reserve,
\* record_actual, release and the sweeper), for any number of requests, workers
\* and attempts: it covers, besides what was spent, one estimate for every run
\* that has not settled and for every reservation whose runs are gone, so
\* whatever a step credits was there to give back.
THEOREM SpendIsCovered == Spec => []SpendIsCounted
  <1>1. IInv /\ Covered => SpendIsCounted
    <2> SUFFICES ASSUME IInv, Covered PROVE used >= spent
      BY DEF SpendIsCounted
    <2>1. Cardinality(Owed) \in Nat
      BY OwedFinite
    <2>2. Estimate * Cardinality(Owed) \in Nat
      BY <2>1, Estimates
    <2> QED
      BY <2>2 DEF Covered, IInv, Types, TypeOK
  <1> QED
    BY <1>1, InitIInv, NextIInv, InitCovered, NextCovered, PTL DEF Spec
=============================================================================
