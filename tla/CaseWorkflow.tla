---------------------------- MODULE CaseWorkflow ----------------------------
(***************************************************************************)
(* One case: its status and history, the rows its transitions create, the  *)
(* analysis and recalculation jobs, and the quote variants.                *)
(*                                                                         *)
(* A transition is two steps, as in the code: a request reads the case and *)
(* checks the move, and later commits it with its before-commit effects.   *)
(* Nothing is locked in between, so two requests may overlap.  A           *)
(* recalculation reads the case once, lists the variants, and replaces     *)
(* them and the status together.                                           *)
(*                                                                         *)
(* Jobs are seen from the case: queued, running, ended, and whether the    *)
(* lane holds a ticket for a queued one.  AnalysisJobs has the rest.       *)
(* Export rows are counted; the heavy lane that renders them is in         *)
(* HeavyQueue.                                                             *)
(***************************************************************************)
EXTENDS Integers, Sequences, FiniteSets

CONSTANTS
    Manager,        \* request handlers
    Worker,         \* analysis workers
    Begun,          \* the cases to start from: [status, analysed]
    MaxMoves,       \* bound: operations the managers start
    MaxFaults       \* bound: crashes, failures and lost leases

VARIABLES
    status,         \* projects.status
    history,        \* project_status_history: [from, to, since]
    finals,         \* statuses of the project_final_proposals rows
    outbox,         \* outbox_events of the case by type: how many
    exports,        \* project_exports of the case by type: how many
    jobs,           \* analysis_jobs of the case, in order of insertion
    variants,       \* the runs whose quote_variants rows exist
    at,             \* process -> where its handler is
    moves,          \* operations started
    faults,         \* faults so far
    raced,          \* history: two recalculations were started side by side
    stale           \* history: an analysis relied on a run that had read the case before it

caseVars == <<status, history, finals, outbox, exports>>
vars == <<caseVars, jobs, variants, at, moves, faults, raced, stale>>

Process == Manager \cup Worker
Idle == [pc |-> "idle"]

\* ALLOWED_TRANSITIONS, and the human actions' targets.
Targets ==
    [draft          |-> {"intake", "cancelled"},
     intake         |-> {"analyzing", "draft", "cancelled"},
     analyzing      |-> {"proposal_ready", "quote_ready", "draft", "cancelled"},
     proposal_ready |-> {"quote_ready", "draft", "cancelled"},
     quote_ready    |-> {"sent", "draft", "cancelled"},
     sent           |-> {"archived", "draft", "cancelled"},
     archived       |-> {},
     cancelled      |-> {}]
Status == DOMAIN Targets
HumanTarget == Status \ {"proposal_ready"}

\* A case begins in a status it can have.
ASSUME BegunAssumption == \A c \in Begun : c.status \in Status /\ c.analysed \in BOOLEAN

EventType == {"analysis.started", "analysis.completed", "proposal.ready"}
ExportType == {"quote-pdf", "case-zip"}

Row(from, to, since) == [from |-> from, to |-> to, since |-> since]

\* The case as it begins: what came before is one row of its history.
Init ==
    /\ \E c \in Begun :
        /\ status = c.status
        /\ history = <<Row("none", c.status, 0)>>
        /\ variants = IF c.analysed THEN {<<0, 0>>} ELSE {}
    /\ finals = {}
    /\ outbox = [e \in EventType |-> 0]
    /\ exports = [e \in ExportType |-> 0]
    /\ jobs = <<>>
    /\ at = [p \in Process |-> Idle]
    /\ moves = 0
    /\ faults = 0
    /\ raced = FALSE
    /\ stale = FALSE

Goto(p, where) == at' = [at EXCEPT ![p] = where]
Begin == moves < MaxMoves /\ moves' = moves + 1
Analysed == variants # {} \/ \E n \in DOMAIN jobs : jobs[n].kind = "manual" /\ jobs[n].st = "completed"

-----------------------------------------------------------------------------
\* The human actions.

\* submit, start_analysis, approve_proposal, send_quote, complete,
\* return_to_draft and cancel: the case is read and the move is checked.
Decide(m, to) ==
    /\ at[m] = Idle
    /\ Begin
    /\ to \in Targets[status]
    /\ to = "sent" => finals # {}
    /\ Goto(m, [pc |-> "decided", from |-> status, to |-> to, since |-> Len(history)])
    /\ UNCHANGED <<caseVars, jobs, variants, faults, raced, stale>>

\* apply_transition: the status and its history row, from the status read.
Move(from, to, since) ==
    /\ status' = to
    /\ history' = Append(history, Row(from, to, since))

NewJob(kind, by) == [kind |-> kind, by |-> by, st |-> "queued", ticket |-> FALSE, runs |-> 0]

\* The effects registered before the commit, by the move they are registered for.
Effects(from, to) ==
    /\ jobs' = IF <<from, to>> = <<"intake", "analyzing">>
               THEN Append(jobs, NewJob("manual", "action")) ELSE jobs
    /\ outbox' = IF <<from, to>> = <<"intake", "analyzing">>
                 THEN [outbox EXCEPT !["analysis.started"] = @ + 1] ELSE outbox
    /\ finals' = IF <<from, to>> = <<"proposal_ready", "quote_ready">> /\ finals # {}
                 THEN {"approved"} ELSE finals
    /\ exports' = CASE <<from, to>> = <<"quote_ready", "sent">> -> [exports EXCEPT !["quote-pdf"] = @ + 1]
                    [] <<from, to>> = <<"sent", "archived">> -> [exports EXCEPT !["case-zip"] = @ + 1]
                    [] OTHER -> exports

NoEffects == UNCHANGED <<jobs, outbox, finals, exports>>

\* Slip: the before-commit effects are not run.
CommitMoveOnly(m) ==
    /\ at[m].pc = "decided"
    /\ Move(at[m].from, at[m].to, at[m].since)
    /\ NoEffects
    /\ Goto(m, Idle)
    /\ UNCHANGED <<variants, moves, faults, raced, stale>>

\* Slip: the history row is written with the check, by another transaction.
CommitOwnStatus(m) ==
    /\ at[m].pc = "decided"
    /\ history' = Append(history, Row(at[m].from, at[m].to, at[m].since))
    /\ status' = IF status = at[m].from THEN at[m].to ELSE status
    /\ Effects(at[m].from, at[m].to)
    /\ Goto(m, IF Len(jobs') > Len(jobs) THEN [pc |-> "pushing", job |-> Len(jobs')] ELSE Idle)
    /\ UNCHANGED <<variants, moves, faults, raced, stale>>

\* Transition, effects and commit; starting an analysis goes on to enqueue it.
Commit(m) ==
    /\ at[m].pc = "decided"
    /\ Move(at[m].from, at[m].to, at[m].since)
    /\ Effects(at[m].from, at[m].to)
    /\ Goto(m, IF Len(jobs') > Len(jobs) THEN [pc |-> "pushing", job |-> Len(jobs')] ELSE Idle)
    /\ UNCHANGED <<variants, moves, faults, raced, stale>>

\* create_final_proposal adds a snapshot whatever the status of the case.
SaveFinal(m) ==
    /\ at[m] = Idle
    /\ finals' = finals \cup {"ready_for_export"}
    /\ UNCHANGED <<status, history, outbox, exports, jobs, variants, at, moves, faults, raced, stale>>

-----------------------------------------------------------------------------
\* Jobs asked for: create_job and enqueue_quote_recalculation_job.

Active(kind) == {n \in DOMAIN jobs : jobs[n].kind = kind /\ jobs[n].st \in {"queued", "running"}}

\* A run of job n that has read the case before it came into analysis.
ReadTooEarly(n) ==
    /\ status = "analyzing"
    /\ \E k \in Worker :
        /\ at[k].pc \in {"read", "listed", "replaced"} /\ at[k].job = n
        /\ at[k].pc = "replaced" \/ at[k].seen # "analyzing"

Missing(p, kind, by) == Goto(p, [pc |-> "adding", kind |-> kind, by |-> by, known |-> Len(jobs)])

\* Slip: only a queued job counts as active.
LookForQueued(p, kind, by) ==
    /\ IF \E n \in Active(kind) : jobs[n].st = "queued" THEN Goto(p, Idle) ELSE Missing(p, kind, by)
    /\ UNCHANGED stale

\* Slip: a job that has ended counts as active.
LookForAny(p, kind, by) ==
    /\ IF \E n \in DOMAIN jobs : jobs[n].kind = kind THEN Goto(p, Idle) ELSE Missing(p, kind, by)
    /\ UNCHANGED stale

\* An active job of the kind is reused; otherwise one is about to be added.
Look(p, kind, by) ==
    /\ IF Active(kind) # {} THEN Goto(p, Idle) ELSE Missing(p, kind, by)
    /\ stale' = (stale \/ (by = "analysis" /\ \E n \in Active(kind) : ReadTooEarly(n)))

\* A manager asks for an analysis, or for a recalculation of an analysed case.
Ask(m, kind) ==
    /\ at[m] = Idle
    /\ Begin
    /\ kind = "quote" => Analysed
    /\ Look(m, kind, "request")
    /\ UNCHANGED <<caseVars, jobs, variants, faults, raced>>

\* create_queued_job: the row is committed before its ticket is pushed.
Add(p) ==
    /\ at[p].pc = "adding"
    /\ jobs' = Append(jobs, NewJob(at[p].kind, at[p].by))
    /\ raced' = (raced \/ (at[p].kind = "quote" /\
                           \E n \in DOMAIN jobs : n > at[p].known /\ jobs[n].kind = "quote"))
    /\ Goto(p, [pc |-> "pushing", job |-> Len(jobs) + 1])
    /\ UNCHANGED <<caseVars, variants, moves, faults, stale>>

Push(p) ==
    /\ at[p].pc = "pushing"
    /\ jobs' = [jobs EXCEPT ![at[p].job].ticket = TRUE]
    /\ Goto(p, Idle)
    /\ UNCHANGED <<caseVars, variants, moves, faults, raced, stale>>

\* The lane has no room.  A job that was asked for ends; the failure of an
\* after-commit effect is logged, and its job stays queued without a ticket.
Refused(p) ==
    /\ at[p].pc = "pushing"
    /\ faults < MaxFaults
    /\ faults' = faults + 1
    /\ jobs' = IF jobs[at[p].job].by = "action" THEN jobs
               ELSE [jobs EXCEPT ![at[p].job].st =
                        IF jobs[at[p].job].kind = "manual" THEN "canceled" ELSE "failed"]
    /\ Goto(p, Idle)
    /\ UNCHANGED <<caseVars, variants, moves, raced, stale>>

ManagerStep(m) ==
    \/ \E to \in HumanTarget : Decide(m, to)
    \/ \E kind \in {"manual", "quote"} : Ask(m, kind)
    \/ Commit(m)
    \/ SaveFinal(m)

-----------------------------------------------------------------------------
\* The workers.

Owns(k) == jobs[at[k].job].st = "running" /\ jobs[at[k].job].runs = at[k].run
End(n, st) == jobs' = [jobs EXCEPT ![n].st = st]

\* Slip: the ticket is left in the lane.
ClaimKeepsTicket(k) ==
    /\ at[k] = Idle
    /\ \E n \in DOMAIN jobs :
        /\ jobs[n].ticket
        /\ jobs' = [jobs EXCEPT ![n].st = "running", ![n].runs = @ + 1]
        /\ Goto(k, [pc |-> IF jobs[n].kind = "manual" THEN "analysing" ELSE "reading",
                    job |-> n, run |-> jobs[n].runs + 1])
    /\ UNCHANGED <<caseVars, variants, moves, faults, raced, stale>>

Claim(k) ==
    /\ at[k] = Idle
    /\ \E n \in DOMAIN jobs :
        /\ jobs[n].ticket
        /\ jobs' = [jobs EXCEPT ![n].st = "running", ![n].ticket = FALSE, ![n].runs = @ + 1]
        /\ Goto(k, [pc |-> IF jobs[n].kind = "manual" THEN "analysing" ELSE "reading",
                    job |-> n, run |-> jobs[n].runs + 1])
    /\ UNCHANGED <<caseVars, variants, moves, faults, raced, stale>>

\* complete_job_with_result, refused when the lease was lost meanwhile.
Analyse(k) ==
    /\ at[k].pc = "analysing"
    /\ IF Owns(k)
       THEN End(at[k].job, "completed") /\ Goto(k, [pc |-> "announcing", job |-> at[k].job])
       ELSE UNCHANGED jobs /\ Goto(k, Idle)
    /\ UNCHANGED <<caseVars, variants, moves, faults, raced, stale>>

\* analysis.completed has a transaction of its own.
Announce(k) ==
    /\ at[k].pc = "announcing"
    /\ outbox' = [outbox EXCEPT !["analysis.completed"] = @ + 1]
    /\ Goto(k, [pc |-> "asking", job |-> at[k].job])
    /\ UNCHANGED <<status, history, finals, exports, jobs, variants, moves, faults, raced, stale>>

AskForQuote(k) ==
    /\ at[k].pc = "asking"
    /\ Look(k, "quote", "analysis")
    /\ UNCHANGED <<caseVars, jobs, variants, moves, faults, raced>>

ReadCase(k) ==
    /\ at[k].pc = "reading"
    /\ Goto(k, [pc |-> "read", job |-> at[k].job, run |-> at[k].run,
                seen |-> status, since |-> Len(history)])
    /\ UNCHANGED <<caseVars, jobs, variants, moves, faults, raced, stale>>

ListVariants(k) ==
    /\ at[k].pc = "read"
    /\ Goto(k, [pc |-> "listed", job |-> at[k].job, run |-> at[k].run,
                seen |-> at[k].seen, since |-> at[k].since, old |-> variants])
    /\ UNCHANGED <<caseVars, jobs, variants, moves, faults, raced, stale>>

\* The variants listed are deleted, the new ones inserted, and the case moves
\* on with its event, in one transaction; a refused transition is only logged.
Replace(k) ==
    /\ at[k].pc = "listed"
    /\ variants' = (variants \ at[k].old) \cup {<<at[k].job, at[k].run>>}
    /\ IF "proposal_ready" \in Targets[at[k].seen]
       THEN /\ Move(at[k].seen, "proposal_ready", at[k].since)
            /\ outbox' = [outbox EXCEPT !["proposal.ready"] = @ + 1]
       ELSE UNCHANGED <<status, history, outbox>>
    /\ Goto(k, [pc |-> "replaced", job |-> at[k].job, run |-> at[k].run, seen |-> at[k].seen])
    /\ UNCHANGED <<finals, exports, jobs, moves, faults, raced, stale>>

FinishQuote(k) ==
    /\ at[k].pc = "replaced"
    /\ IF Owns(k) THEN End(at[k].job, "completed") ELSE UNCHANGED jobs
    /\ Goto(k, Idle)
    /\ UNCHANGED <<caseVars, variants, moves, faults, raced, stale>>

\* The analysis or the recalculation raises: another attempt, or the end.
Fail(k) ==
    /\ at[k].pc \in {"analysing", "reading", "read", "listed"}
    /\ faults < MaxFaults
    /\ faults' = faults + 1
    /\ IF Owns(k)
       THEN \/ End(at[k].job, "failed")
            \/ jobs' = [jobs EXCEPT ![at[k].job].st = "queued", ![at[k].job].ticket = TRUE]
       ELSE UNCHANGED jobs
    /\ Goto(k, Idle)
    /\ UNCHANGED <<caseVars, variants, moves, raced, stale>>

WorkerStep(k) ==
    Claim(k) \/ Analyse(k) \/ Announce(k) \/ AskForQuote(k)
        \/ ReadCase(k) \/ ListVariants(k) \/ Replace(k) \/ FinishQuote(k)

-----------------------------------------------------------------------------
\* Deaths and recovery.

Crash(p) ==
    /\ at[p] # Idle
    /\ faults < MaxFaults
    /\ faults' = faults + 1
    /\ Goto(p, Idle)
    /\ UNCHANGED <<caseVars, jobs, variants, moves, raced, stale>>

Runners(n) == {k \in Worker : at[k] # Idle /\ "run" \in DOMAIN at[k] /\ at[k].job = n}

\* Recovery queues a running job again.  Its worker may still be alive: a
\* lease that ran out is a fault too.
Recover(n) ==
    /\ jobs[n].st = "running"
    /\ Runners(n) # {} => faults < MaxFaults
    /\ faults' = IF Runners(n) # {} THEN faults + 1 ELSE faults
    /\ raced' = (raced \/ (Runners(n) # {} /\ jobs[n].kind = "quote"))
    /\ jobs' = [jobs EXCEPT ![n].st = "queued", ![n].ticket = TRUE]
    /\ UNCHANGED <<caseVars, variants, at, moves, stale>>

Next ==
    \/ \E m \in Manager : ManagerStep(m)
    \/ \E k \in Worker : WorkerStep(k) \/ Fail(k)
    \/ \E p \in Process : Add(p) \/ Push(p) \/ Refused(p) \/ Crash(p)
    \/ \E n \in DOMAIN jobs : Recover(n)

\* A handler that is running goes on, and idle workers take tickets.
Fairness ==
    /\ \A m \in Manager : WF_vars(Commit(m) \/ Add(m) \/ Push(m))
    /\ \A k \in Worker : WF_vars(WorkerStep(k) \/ Add(k) \/ Push(k))

Spec == Init /\ [][Next]_vars /\ Fairness

-----------------------------------------------------------------------------
(* Properties. *)

Where ==
    {Idle}
    \cup [pc : {"decided"}, from : Status, to : Status, since : Nat]
    \cup [pc : {"adding"}, kind : {"manual", "quote"}, by : {"request", "analysis"}, known : Nat]
    \cup [pc : {"pushing", "announcing", "asking"}, job : Nat]
    \cup [pc : {"analysing", "reading"}, job : Nat, run : Nat]
    \cup [pc : {"read"}, job : Nat, run : Nat, seen : Status, since : Nat]
    \cup [pc : {"listed"}, job : Nat, run : Nat, seen : Status, since : Nat, old : SUBSET (Nat \X Nat)]
    \cup [pc : {"replaced"}, job : Nat, run : Nat, seen : Status]

\* Types, and what the parts refer to exists: a row was decided on an earlier
\* row, a handler works on a row of analysis_jobs, only a queued job has a ticket.
TypeOK ==
    /\ status \in Status
    /\ \A i \in DOMAIN history : history[i].to \in Status /\ history[i].since < i
    /\ finals \subseteq {"ready_for_export", "approved"}
    /\ \A e \in EventType : outbox[e] \in Nat
    /\ \A e \in ExportType : exports[e] \in Nat
    /\ \A n \in DOMAIN jobs : jobs[n].ticket => jobs[n].st = "queued"
    /\ \A p \in Process : at[p] \in Where
    /\ \A p \in Process : "job" \in DOMAIN at[p] => at[p].job \in DOMAIN jobs
    /\ \A p \in Process : "since" \in DOMAIN at[p] => at[p].since \in DOMAIN history

\* The history tells the story (apply_transition writes the status and its
\* row together, and the check is made on the status it moves from): the last
\* row holds the current status, and every row starts from the status the case
\* had when its move was decided and makes a move ALLOWED_TRANSITIONS has.
HistoryTellsStatus ==
    /\ history # <<>>
    /\ status = history[Len(history)].to
    /\ \A i \in 2..Len(history) :
        /\ history[i].from = history[history[i].since].to
        /\ history[i].to \in Targets[history[i].from]

Moves(from, to) == Cardinality({i \in DOMAIN history : history[i].from = from /\ history[i].to = to})

\* What a transition entails exists exactly as often as the transition
\* (action_effects.py's before-commit effects, and "no window where variants
\* are visible but status hasn't advanced and no window where status advanced
\* but the SSE replay row is missing"): an analysis job and its event per
\* start, an event per proposal and variants to show, an export per quote sent
\* and per case completed.
EffectsCommitTogether ==
    /\ Moves("intake", "analyzing") = outbox["analysis.started"]
    /\ Moves("intake", "analyzing") = Cardinality({n \in DOMAIN jobs : jobs[n].by = "action"})
    /\ Moves("analyzing", "proposal_ready") = outbox["proposal.ready"]
    /\ outbox["proposal.ready"] > 0 => variants # {}
    /\ Moves("quote_ready", "sent") = exports["quote-pdf"]
    /\ Moves("sent", "archived") = exports["case-zip"]

\* One set of quote variants (replace_project_variants deletes those it
\* listed): without two recalculations started side by side, by requests that
\* both found no active job or by a lease that ran out, the case never shows
\* the variants of two runs.
OneSetOfVariants == raced \/ Cardinality(variants) =< 1

\* A case does not stay in analysis: the analysis, the recalculation it asks
\* for and the move to proposal_ready follow, unless something failed, or the
\* recalculation it reused had read the case before the analysis began.
CaseMovesOn == status = "analyzing" ~> (status # "analyzing" \/ faults > 0 \/ stale)
=============================================================================
