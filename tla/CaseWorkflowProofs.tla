-------------------------- MODULE CaseWorkflowProofs --------------------------
(***************************************************************************)
(* The case workflow, for every number of managers, workers, moves and     *)
(* faults: the history tells the status, what a transition entails exists  *)
(* as often as the transition, and a case shows one set of variants.       *)
(*                                                                         *)
(* A handler decides on a status it has read before and commits later, so  *)
(* neither of the first two is inductive alone. What carries them is that  *)
(* a handler's move is allowed from the history row it has read            *)
(* (HandlerOK), and that rows of the history and owners of jobs do not     *)
(* change.                                                                 *)
(*                                                                         *)
(* The variants of a case are replaced by a run that has listed the old    *)
(* ones before, so that there is one set needs more (VInv): until two      *)
(* recalculations were seen side by side, at most one is alive, one        *)
(* handler runs it, and what it has listed is all there is (SidesApart). A *)
(* job stays alone because who adds one has found all others ended         *)
(* (AddersLooked), and a payload is not taken twice (TicketsWait).         *)
(***************************************************************************)
EXTENDS CaseWorkflow, FiniteSetTheorems, TLAPS

HistoryRow == [from : Status \cup {"none"}, to : Status, since : Nat]
Job == [kind : {"manual", "quote"}, by : {"action", "request", "analysis"},
        st : {"queued", "running", "completed", "failed", "canceled"}, ticket : BOOLEAN, runs : Nat]

Working == {"pushing", "announcing", "asking", "analysing", "reading", "read", "listed", "replaced"}

\* What a handler at w knows, of history h and n jobs.
HandlerOK(w, h, n) ==
    /\ w.pc = "decided" =>
        /\ w.since \in 1..Len(h)
        /\ w.from = h[w.since].to
        /\ w.to \in HumanTarget /\ w.to \in Targets[w.from]
    /\ w.pc \in {"read", "listed"} =>
        /\ w.since \in 1..Len(h)
        /\ w.seen = h[w.since].to
    /\ w.pc = "adding" => w.kind \in {"manual", "quote"} /\ w.by \in {"request", "analysis"}
    /\ w.pc \in Working => w.job \in 1..n
    /\ w.pc \in {"analysing", "reading", "read", "listed", "replaced"} => w.run \in Nat

Types ==
    /\ status \in Status
    /\ history \in Seq(HistoryRow)
    /\ jobs \in Seq(Job)
    /\ outbox \in [EventType -> Nat]
    /\ exports \in [ExportType -> Nat]
    /\ at = [p \in Process |-> at[p]]

Handlers == \A p \in Process : HandlerOK(at[p], history, Len(jobs))

\* Rows rest on earlier rows.
Order == \A i \in 2..Len(history) : history[i].since \in 1..(i - 1)

IInv == Types /\ Handlers /\ Order /\ HistoryTellsStatus /\ EffectsCommitTogether

-----------------------------------------------------------------------------
(* Counting. *)

Rows(s, from, to) == {i \in DOMAIN s : s[i].from = from /\ s[i].to = to}
Count(s, from, to) == Cardinality(Rows(s, from, to))

\* A row appended counts for its own move only.
LEMMA CountRows ==
  ASSUME NEW s \in Seq(HistoryRow), NEW x \in HistoryRow, NEW from, NEW to
  PROVE  /\ Cardinality(Rows(s, from, to)) \in Nat
         /\ Cardinality(Rows(Append(s, x), from, to)) =
              Cardinality(Rows(s, from, to)) + (IF x.from = from /\ x.to = to THEN 1 ELSE 0)
  <1>1. DOMAIN s = 1..Len(s) /\ Len(s) \in Nat
    OBVIOUS
  <1>2. IsFiniteSet(Rows(s, from, to))
    <2>1. IsFiniteSet(1..Len(s))
      BY <1>1, FS_Interval
    <2>2. Rows(s, from, to) \subseteq 1..Len(s)
      BY <1>1 DEF Rows
    <2> QED
      BY <2>1, <2>2, FS_Subset
  <1>3. Cardinality(Rows(s, from, to)) \in Nat
    BY <1>2, FS_CardinalityType
  <1>4. Len(s) + 1 \notin Rows(s, from, to)
    BY <1>1 DEF Rows
  <1>5. CASE x.from = from /\ x.to = to
    <2>1. Rows(Append(s, x), from, to) = Rows(s, from, to) \cup {Len(s) + 1}
      BY <1>1, <1>5 DEF Rows
    <2>2. Cardinality(Rows(Append(s, x), from, to)) = Cardinality(Rows(s, from, to)) + 1
      BY <1>2, <1>4, <2>1, FS_AddElement
    <2> QED
      BY <1>3, <1>5, <2>2
  <1>6. CASE ~(x.from = from /\ x.to = to)
    <2>1. Rows(Append(s, x), from, to) = Rows(s, from, to)
      BY <1>1, <1>6 DEF Rows
    <2> QED
      BY <1>3, <1>6, <2>1
  <1> QED
    BY <1>3, <1>5, <1>6

Owned(s) == {n \in DOMAIN s : s[n].by = "action"}

\* A job appended counts if it is the action's.
LEMMA CountJobs ==
  ASSUME NEW s \in Seq(Job), NEW x \in Job
  PROVE  /\ Cardinality(Owned(s)) \in Nat
         /\ Cardinality(Owned(Append(s, x))) = Cardinality(Owned(s)) + (IF x.by = "action" THEN 1 ELSE 0)
  <1>1. DOMAIN s = 1..Len(s) /\ Len(s) \in Nat
    OBVIOUS
  <1>2. IsFiniteSet(Owned(s))
    <2>1. IsFiniteSet(1..Len(s))
      BY <1>1, FS_Interval
    <2>2. Owned(s) \subseteq 1..Len(s)
      BY <1>1 DEF Owned
    <2> QED
      BY <2>1, <2>2, FS_Subset
  <1>3. Cardinality(Owned(s)) \in Nat
    BY <1>2, FS_CardinalityType
  <1>4. Len(s) + 1 \notin Owned(s)
    BY <1>1 DEF Owned
  <1>5. CASE x.by = "action"
    <2>1. Owned(Append(s, x)) = Owned(s) \cup {Len(s) + 1}
      BY <1>1, <1>5 DEF Owned
    <2>2. Cardinality(Owned(Append(s, x))) = Cardinality(Owned(s)) + 1
      BY <1>2, <1>4, <2>1, FS_AddElement
    <2> QED
      BY <1>3, <1>5, <2>2
  <1>6. CASE x.by # "action"
    <2>1. Owned(Append(s, x)) = Owned(s)
      BY <1>1, <1>6 DEF Owned
    <2> QED
      BY <1>3, <1>6, <2>1
  <1> QED
    BY <1>3, <1>5, <1>6

-----------------------------------------------------------------------------
(* Steps that leave the history alone. *)

\* Jobs are changed or added, none of them an action's.
JobsKept ==
    /\ jobs' \in Seq(Job)
    /\ Len(jobs') >= Len(jobs)
    /\ Owned(jobs') = Owned(jobs)

LEMMA QuietStep ==
  ASSUME IInv, NEW p \in Process, NEW w,
         UNCHANGED <<status, history, exports, variants>>,
         outbox' \in [EventType -> Nat],
         \A e \in EventType : e # "analysis.completed" => outbox'[e] = outbox[e],
         JobsKept,
         at' = [at EXCEPT ![p] = w],
         HandlerOK(w, history, Len(jobs'))
  PROVE  IInv'
  <1>1. Len(jobs) \in Nat /\ Len(jobs') \in Nat
    BY DEF IInv, Types, JobsKept
  <1>2. Types'
    <2>1. at' = [q \in Process |-> at'[q]]
      BY Zenon DEF IInv, Types
    <2> QED
      BY <2>1 DEF IInv, Types, JobsKept
  <1>3. \A q \in Process : at'[q] = IF q = p THEN w ELSE at[q]
    BY Zenon DEF IInv, Types
  <1>4. \A q \in Process : HandlerOK(at[q], history, Len(jobs'))
    BY <1>1 DEF IInv, Handlers, HandlerOK, JobsKept
  <1>5. Handlers'
    BY <1>3, <1>4 DEF Handlers
  <1>6. Order' /\ HistoryTellsStatus'
    BY DEF IInv, Order, HistoryTellsStatus
  <1>7. EffectsCommitTogether'
    BY DEF IInv, EffectsCommitTogether, Moves, EventType, JobsKept, Owned
  <1> QED
    BY <1>2, <1>5, <1>6, <1>7 DEF IInv

LEMMA KeptJobs == IInv /\ UNCHANGED jobs => JobsKept
  BY DEF IInv, Types, JobsKept

\* A job is queued, run or ended: it keeps its owner.
LEMMA ChangedJob ==
  ASSUME IInv, NEW n \in 1..Len(jobs), NEW x \in Job, x.by = jobs[n].by,
         jobs' = [jobs EXCEPT ![n] = x]
  PROVE  JobsKept
  <1>1. jobs \in Seq(Job) /\ Len(jobs) \in Nat
    BY DEF IInv, Types
  <1> QED
    BY <1>1 DEF JobsKept, Owned

\* Only an action's job is an action's.
LEMMA AddedJob ==
  ASSUME IInv, NEW x \in Job, x.by # "action", jobs' = Append(jobs, x)
  PROVE  JobsKept
  <1>1. jobs \in Seq(Job) /\ Len(jobs) \in Nat
    BY DEF IInv, Types
  <1> QED
    BY <1>1 DEF JobsKept, Owned

LEMMA IdleOK == \A h, n : HandlerOK(Idle, h, n)
  BY DEF HandlerOK, Idle, Working

LEMMA DecideStep ==
  ASSUME IInv, NEW m \in Manager, NEW to \in HumanTarget, Decide(m, to)
  PROVE  IInv'
  <1> DEFINE w == [pc |-> "decided", from |-> status, to |-> to, since |-> Len(history)]
  <1>1. HandlerOK(w, history, Len(jobs'))
    BY DEF IInv, Types, HistoryTellsStatus, HandlerOK, Decide, Working
  <1>2. at' = [at EXCEPT ![m] = w] /\ UNCHANGED <<caseVars, jobs, variants>>
    BY DEF Decide, Goto
  <1>3. m \in Process
    BY DEF Process
  <1> HIDE DEF w
  <1> QED
    BY <1>1, <1>2, <1>3, KeptJobs, QuietStep DEF IInv, Types, caseVars

\* create_final_proposal.
LEMMA SaveFinalStep == ASSUME IInv, NEW m \in Manager, SaveFinal(m) PROVE IInv'
  <1>1. UNCHANGED <<status, history, outbox, exports, jobs, variants, at>>
    BY DEF SaveFinal
  <1> QED
    BY <1>1 DEF IInv, Types, Handlers, Order, HistoryTellsStatus, EffectsCommitTogether, Moves

\* An active job is reused, or one will be added.
LEMMA LookStep ==
  ASSUME IInv, NEW p \in Process, NEW kind \in {"manual", "quote"}, NEW by \in {"request", "analysis"},
         Look(p, kind, by), UNCHANGED <<caseVars, jobs, variants>>
  PROVE  IInv'
  <1>1. PICK w : at' = [at EXCEPT ![p] = w] /\ HandlerOK(w, history, Len(jobs'))
    <2> DEFINE v == [pc |-> "adding", kind |-> kind, by |-> by, known |-> Len(jobs)]
    <2>1. HandlerOK(v, history, Len(jobs'))
      BY DEF HandlerOK, Working
    <2>2. CASE Goto(p, Idle)
      BY <2>2, IdleOK, Zenon DEF Goto
    <2>3. CASE Goto(p, v)
      BY <2>3, <2>1, Zenon DEF Goto
    <2> QED
      BY <2>2, <2>3 DEF Look, Missing
  <1> QED
    BY <1>1, KeptJobs, QuietStep DEF IInv, Types, caseVars

LEMMA AskStep ==
  ASSUME IInv, NEW m \in Manager, NEW kind \in {"manual", "quote"}, Ask(m, kind)
  PROVE  IInv'
  BY LookStep DEF Ask, Process

LEMMA AskForQuoteStep == ASSUME IInv, NEW k \in Worker, AskForQuote(k) PROVE IInv'
  BY LookStep DEF AskForQuote, Process

LEMMA AddStep == ASSUME IInv, NEW p \in Process, Add(p) PROVE IInv'
  <1> DEFINE x == NewJob(at[p].kind, at[p].by)
             w == [pc |-> "pushing", job |-> Len(jobs) + 1]
  <1>1. at[p].kind \in {"manual", "quote"} /\ at[p].by \in {"request", "analysis"}
    BY DEF Add, IInv, Handlers, HandlerOK
  <1>2. x \in Job /\ x.by # "action"
    BY <1>1 DEF NewJob, Job
  <1>3. jobs' = Append(jobs, x) /\ at' = [at EXCEPT ![p] = w] /\ UNCHANGED <<caseVars, variants>>
    BY DEF Add, Goto
  <1>4. HandlerOK(w, history, Len(jobs'))
    <2>1. Len(jobs) \in Nat /\ Len(jobs') = Len(jobs) + 1
      BY <1>2, <1>3 DEF IInv, Types
    <2> QED
      BY <2>1 DEF HandlerOK, Working
  <1> HIDE DEF x, w
  <1>5. JobsKept
    BY <1>2, <1>3, AddedJob
  <1> QED
    BY <1>3, <1>4, <1>5, QuietStep DEF IInv, Types, caseVars

\* The job a handler works on is a row of the table.
LEMMA JobOfHandler ==
  ASSUME IInv, NEW p \in Process, at[p].pc \in Working
  PROVE  at[p].job \in 1..Len(jobs) /\ jobs[at[p].job] \in Job
  <1>1. at[p].job \in 1..Len(jobs)
    BY DEF IInv, Handlers, HandlerOK
  <1> QED
    BY <1>1 DEF IInv, Types

LEMMA PushStep == ASSUME IInv, NEW p \in Process, Push(p) PROVE IInv'
  <1> DEFINE n == at[p].job
             x == [jobs[n] EXCEPT !.ticket = TRUE]
  <1>1. n \in 1..Len(jobs) /\ jobs[n] \in Job
    BY JobOfHandler DEF Push, Working
  <1>2. x \in Job /\ x.by = jobs[n].by
    BY <1>1 DEF Job
  <1>3. jobs' = [jobs EXCEPT ![n] = x] /\ at' = [at EXCEPT ![p] = Idle] /\ UNCHANGED <<caseVars, variants>>
    BY DEF Push, Goto
  <1> HIDE DEF n, x
  <1>4. JobsKept
    BY <1>1, <1>2, <1>3, ChangedJob
  <1> QED
    BY <1>3, <1>4, IdleOK, QuietStep DEF IInv, Types, caseVars

\* A job of the table gets another status: queued again, ended, or run.
LEMMA EndedJob ==
  ASSUME IInv, NEW n \in 1..Len(jobs), NEW st \in {"queued", "running", "completed", "failed", "canceled"},
         jobs' = [jobs EXCEPT ![n].st = st]
  PROVE  JobsKept
  <1> DEFINE x == [jobs[n] EXCEPT !.st = st]
  <1>1. jobs[n] \in Job
    BY DEF IInv, Types
  <1>2. x \in Job /\ x.by = jobs[n].by
    BY <1>1 DEF Job
  <1>3. jobs' = [jobs EXCEPT ![n] = x]
    OBVIOUS
  <1> HIDE DEF x
  <1> QED
    BY <1>2, <1>3, ChangedJob

LEMMA RequeuedJob ==
  ASSUME IInv, NEW n \in 1..Len(jobs), jobs' = [jobs EXCEPT ![n].st = "queued", ![n].ticket = TRUE]
  PROVE  JobsKept
  <1> DEFINE x == [jobs[n] EXCEPT !.st = "queued", !.ticket = TRUE]
  <1>1. jobs[n] \in Job
    BY DEF IInv, Types
  <1>2. x \in Job /\ x.by = jobs[n].by
    BY <1>1 DEF Job
  <1>3. jobs' = [jobs EXCEPT ![n] = x]
    BY <1>1 DEF Job, IInv, Types
  <1> HIDE DEF x
  <1> QED
    BY <1>2, <1>3, ChangedJob

LEMMA RefusedStep == ASSUME IInv, NEW p \in Process, Refused(p) PROVE IInv'
  <1>1. at[p].job \in 1..Len(jobs)
    BY JobOfHandler DEF Refused, Working
  <1>2. JobsKept
    <2>1. CASE UNCHANGED jobs
      BY <2>1, KeptJobs
    <2>2. ASSUME NEW st \in {"canceled", "failed"}, jobs' = [jobs EXCEPT ![at[p].job].st = st]
          PROVE  JobsKept
      BY <1>1, <2>2, EndedJob
    <2> QED
      BY <2>1, <2>2 DEF Refused
  <1>3. at' = [at EXCEPT ![p] = Idle] /\ UNCHANGED <<caseVars, variants>>
    BY DEF Refused, Goto
  <1> QED
    BY <1>2, <1>3, IdleOK, QuietStep DEF IInv, Types, caseVars

LEMMA ClaimStep == ASSUME IInv, NEW k \in Worker, Claim(k) PROVE IInv'
  <1>1. PICK n \in DOMAIN jobs :
            /\ jobs' = [jobs EXCEPT ![n].st = "running", ![n].ticket = FALSE, ![n].runs = @ + 1]
            /\ Goto(k, [pc |-> IF jobs[n].kind = "manual" THEN "analysing" ELSE "reading",
                        job |-> n, run |-> jobs[n].runs + 1])
    BY DEF Claim
  <1> DEFINE x == [jobs[n] EXCEPT !.st = "running", !.ticket = FALSE, !.runs = @ + 1]
             w == [pc |-> IF jobs[n].kind = "manual" THEN "analysing" ELSE "reading",
                   job |-> n, run |-> jobs[n].runs + 1]
  <1>2. n \in 1..Len(jobs) /\ jobs[n] \in Job
    BY DEF IInv, Types
  <1>3. x \in Job /\ x.by = jobs[n].by
    <2>1. jobs[n].runs + 1 \in Nat
      BY <1>2 DEF Job
    <2> HIDE DEF w
    <2> QED
      BY <1>2, <2>1 DEF Job
  <1>4. jobs' = [jobs EXCEPT ![n] = x]
    BY <1>1, <1>2 DEF Job, IInv, Types
  <1>5. at' = [at EXCEPT ![k] = w] /\ UNCHANGED <<caseVars, variants>>
    BY <1>1 DEF Claim, Goto
  <1> HIDE DEF x
  <1>6. JobsKept
    BY <1>2, <1>3, <1>4, ChangedJob
  <1>7. HandlerOK(w, history, Len(jobs'))
    <2>1. n \in 1..Len(jobs')
      BY <1>2, <1>6 DEF JobsKept, IInv, Types
    <2>2. jobs[n].runs + 1 \in Nat
      BY <1>2 DEF Job
    <2> QED
      BY <2>1, <2>2 DEF HandlerOK, Working
  <1>8. k \in Process
    BY DEF Process
  <1> HIDE DEF w
  <1> QED
    BY <1>5, <1>6, <1>7, <1>8, QuietStep DEF IInv, Types, caseVars

\* complete_job_with_result.
LEMMA AnalyseStep == ASSUME IInv, NEW k \in Worker, Analyse(k) PROVE IInv'
  <1>0. k \in Process
    BY DEF Process
  <1>1. at[k].job \in 1..Len(jobs)
    BY <1>0, JobOfHandler DEF Analyse, Working
  <1>2. JobsKept
    BY <1>1, KeptJobs, EndedJob DEF Analyse, End
  <1>3. UNCHANGED <<caseVars, variants>>
    BY DEF Analyse
  <1>4. PICK w : at' = [at EXCEPT ![k] = w] /\ HandlerOK(w, history, Len(jobs'))
    <2> DEFINE v == [pc |-> "announcing", job |-> at[k].job]
    <2>1. HandlerOK(v, history, Len(jobs'))
      BY <1>1, <1>2 DEF HandlerOK, Working, JobsKept, IInv, Types
    <2>2. CASE Goto(k, v)
      BY <2>1, <2>2, Zenon DEF Goto
    <2>3. CASE Goto(k, Idle)
      BY <2>3, IdleOK, Zenon DEF Goto
    <2> QED
      BY <2>2, <2>3 DEF Analyse
  <1> QED
    BY <1>0, <1>2, <1>3, <1>4, QuietStep DEF IInv, Types, caseVars

LEMMA AnnounceStep == ASSUME IInv, NEW k \in Worker, Announce(k) PROVE IInv'
  <1> DEFINE w == [pc |-> "asking", job |-> at[k].job]
  <1>0. k \in Process
    BY DEF Process
  <1>1. at[k].job \in 1..Len(jobs)
    BY <1>0, JobOfHandler DEF Announce, Working
  <1>2. UNCHANGED <<status, history, exports, jobs, variants>> /\ at' = [at EXCEPT ![k] = w]
    BY DEF Announce, Goto
  <1>3. HandlerOK(w, history, Len(jobs'))
    BY <1>1, <1>2 DEF HandlerOK, Working
  <1>4. /\ outbox' \in [EventType -> Nat]
        /\ \A e \in EventType : e # "analysis.completed" => outbox'[e] = outbox[e]
    BY DEF Announce, IInv, Types, EventType
  <1> HIDE DEF w
  <1> QED
    BY <1>0, <1>2, <1>3, <1>4, KeptJobs, QuietStep

\* _execute_quote_recalculation_job reads the case, and then its variants.
LEMMA ReadStep ==
  ASSUME IInv, NEW k \in Worker, ReadCase(k) \/ ListVariants(k)
  PROVE  IInv'
  <1>0. k \in Process
    BY DEF Process
  <1>1. at[k].job \in 1..Len(jobs) /\ at[k].run \in Nat
    BY <1>0, JobOfHandler DEF ReadCase, ListVariants, Working, IInv, Handlers, HandlerOK
  <1>2. UNCHANGED <<caseVars, jobs, variants>>
    BY DEF ReadCase, ListVariants
  <1>3. PICK w : at' = [at EXCEPT ![k] = w] /\ HandlerOK(w, history, Len(jobs'))
    <2>1. CASE ReadCase(k)
      <3> DEFINE v == [pc |-> "read", job |-> at[k].job, run |-> at[k].run,
                       seen |-> status, since |-> Len(history)]
      <3>1. HandlerOK(v, history, Len(jobs'))
        BY <1>1, <1>2 DEF HandlerOK, Working, IInv, Types, HistoryTellsStatus
      <3> QED
        BY <2>1, <3>1, Zenon DEF ReadCase, Goto
    <2>2. CASE ListVariants(k)
      <3> DEFINE v == [pc |-> "listed", job |-> at[k].job, run |-> at[k].run,
                       seen |-> at[k].seen, since |-> at[k].since, old |-> variants]
      <3>1. HandlerOK(at[k], history, Len(jobs)) /\ at[k].pc = "read"
        BY <1>0, <2>2 DEF IInv, Handlers, ListVariants
      <3>2. HandlerOK(v, history, Len(jobs'))
        BY <1>1, <1>2, <3>1 DEF HandlerOK, Working
      <3> QED
        BY <2>2, <3>2, Zenon DEF ListVariants, Goto
    <2> QED
      BY <2>1, <2>2
  <1> QED
    BY <1>0, <1>2, <1>3, KeptJobs, QuietStep DEF IInv, Types, caseVars

LEMMA FinishQuoteStep == ASSUME IInv, NEW k \in Worker, FinishQuote(k) PROVE IInv'
  <1>0. k \in Process
    BY DEF Process
  <1>1. at[k].job \in 1..Len(jobs)
    BY <1>0, JobOfHandler DEF FinishQuote, Working
  <1>2. JobsKept
    BY <1>1, KeptJobs, EndedJob DEF FinishQuote, End
  <1>3. UNCHANGED <<caseVars, variants>> /\ at' = [at EXCEPT ![k] = Idle]
    BY DEF FinishQuote, Goto
  <1> QED
    BY <1>0, <1>2, <1>3, IdleOK, QuietStep DEF IInv, Types, caseVars

LEMMA FailStep == ASSUME IInv, NEW k \in Worker, Fail(k) PROVE IInv'
  <1>0. k \in Process
    BY DEF Process
  <1>1. at[k].job \in 1..Len(jobs)
    BY <1>0, JobOfHandler DEF Fail, Working
  <1>2. JobsKept
    BY <1>1, KeptJobs, EndedJob, RequeuedJob DEF Fail, End
  <1>3. UNCHANGED <<caseVars, variants>> /\ at' = [at EXCEPT ![k] = Idle]
    BY DEF Fail, Goto
  <1> QED
    BY <1>0, <1>2, <1>3, IdleOK, QuietStep DEF IInv, Types, caseVars

LEMMA CrashStep == ASSUME IInv, NEW p \in Process, Crash(p) PROVE IInv'
  <1>1. UNCHANGED <<caseVars, jobs, variants>> /\ at' = [at EXCEPT ![p] = Idle]
    BY DEF Crash, Goto
  <1> QED
    BY <1>1, KeptJobs, IdleOK, QuietStep DEF IInv, Types, caseVars

LEMMA RecoverStep == ASSUME IInv, NEW n \in DOMAIN jobs, Recover(n) PROVE IInv'
  <1>1. n \in 1..Len(jobs)
    BY DEF IInv, Types
  <1>2. JobsKept
    BY <1>1, RequeuedJob DEF Recover
  <1>3. UNCHANGED <<caseVars, variants, at>>
    BY DEF Recover
  <1>4. Len(jobs) \in Nat /\ Len(jobs') \in Nat
    BY <1>2 DEF IInv, Types, JobsKept
  <1>5. Handlers'
    BY <1>2, <1>3, <1>4 DEF IInv, Handlers, HandlerOK, JobsKept, caseVars
  <1>6. Types' /\ Order' /\ HistoryTellsStatus'
    BY <1>2, <1>3 DEF IInv, Types, Order, HistoryTellsStatus, JobsKept, caseVars
  <1>7. EffectsCommitTogether'
    BY <1>2, <1>3 DEF IInv, EffectsCommitTogether, Moves, JobsKept, Owned, caseVars
  <1> QED
    BY <1>5, <1>6, <1>7 DEF IInv

-----------------------------------------------------------------------------
(* Moves. *)

\* apply_transition: the row goes on from one it has read, and the rest stays.
LEMMA MoveHistory ==
  ASSUME IInv, NEW from, NEW to, NEW since \in 1..Len(history),
         from = history[since].to, to \in Targets[from],
         status' = to, history' = Append(history, Row(from, to, since))
  PROVE  /\ status' \in Status
         /\ history' \in Seq(HistoryRow) /\ Len(history') = Len(history) + 1
         /\ \A i \in 1..Len(history) : history'[i] = history[i]
         /\ Order' /\ HistoryTellsStatus'
         /\ \A f, t : Count(history', f, t) = Count(history, f, t) + (IF f = from /\ t = to THEN 1 ELSE 0)
  <1> DEFINE x == Row(from, to, since)
  <1>1. history \in Seq(HistoryRow) /\ Len(history) \in Nat
    BY DEF IInv, Types
  <1>2. from \in Status /\ to \in Status
    <2>1. from \in Status
      <3>1. history[since] \in HistoryRow
        BY <1>1
      <3> QED
        BY <3>1 DEF HistoryRow
    <2> QED
      BY <2>1 DEF Status, Targets
  <1>3. x \in HistoryRow /\ x.from = from /\ x.to = to /\ x.since = since
    BY <1>1, <1>2 DEF Row, HistoryRow
  <1>4. history' = Append(history, x) /\ status' = to
    OBVIOUS
  <1> HIDE DEF x
  <1>5. history' \in Seq(HistoryRow) /\ Len(history') = Len(history) + 1
    BY <1>1, <1>3, <1>4
  <1>6. \A i \in 1..Len(history) : history'[i] = history[i]
    BY <1>1, <1>3, <1>4
  <1>7. history'[Len(history')] = x
    BY <1>1, <1>3, <1>4
  <1>8. \A i \in 2..Len(history') :
          \/ i \in 2..Len(history) /\ history'[i] = history[i]
          \/ i = Len(history) + 1 /\ history'[i] = x
    BY <1>1, <1>5, <1>6, <1>7
  <1>9. Order'
    BY <1>1, <1>3, <1>8 DEF IInv, Order
  <1>10. HistoryTellsStatus'
    <2>1. history' # <<>> /\ status' = history'[Len(history')].to
      BY <1>1, <1>3, <1>4, <1>5, <1>7
    <2>2. ASSUME NEW i \in 2..Len(history')
          PROVE  /\ history'[i].from = history'[history'[i].since].to
                 /\ history'[i].to \in Targets[history'[i].from]
      <3>1. CASE i \in 2..Len(history) /\ history'[i] = history[i]
        <4>1. history[i].since \in 1..Len(history)
          BY <1>1, <3>1 DEF IInv, Order
        <4> QED
          BY <3>1, <4>1, <1>6 DEF IInv, HistoryTellsStatus
      <3>2. CASE history'[i] = x
        BY <3>2, <1>3, <1>6
      <3> QED
        BY <1>8, <3>1, <3>2
    <2> QED
      BY <2>1, <2>2 DEF HistoryTellsStatus
  <1>11. ASSUME NEW f, NEW t
         PROVE  Count(history', f, t) = Count(history, f, t) + (IF f = from /\ t = to THEN 1 ELSE 0)
    <2>1. Cardinality(Rows(Append(history, x), f, t)) =
            Cardinality(Rows(history, f, t)) + (IF x.from = f /\ x.to = t THEN 1 ELSE 0)
      BY <1>1, <1>3, CountRows
    <2> QED
      BY <2>1, <1>3, <1>4 DEF Count
  <1> QED
    BY <1>2, <1>4, <1>5, <1>6, <1>9, <1>10, <1>11

\* What handlers know stays true when rows and jobs are only added.
LEMMA HandlersKept ==
  ASSUME IInv, NEW p \in Process, NEW w, at' = [at EXCEPT ![p] = w],
         Len(history') \in Nat, Len(history') >= Len(history),
         \A i \in 1..Len(history) : history'[i] = history[i],
         Len(jobs') \in Nat, Len(jobs') >= Len(jobs),
         HandlerOK(w, history', Len(jobs'))
  PROVE  Handlers' /\ at' = [q \in Process |-> at'[q]]
  <1>1. Len(history) \in Nat /\ Len(jobs) \in Nat
    BY DEF IInv, Types
  <1>2. \A q \in Process : at'[q] = IF q = p THEN w ELSE at[q]
    BY Zenon DEF IInv, Types
  <1>3. \A q \in Process : HandlerOK(at[q], history', Len(jobs'))
    BY <1>1 DEF IInv, Handlers, HandlerOK
  <1>4. at' = [q \in Process |-> at'[q]]
    BY Zenon DEF IInv, Types
  <1> QED
    BY <1>2, <1>3, <1>4 DEF Handlers

LEMMA CountNat == ASSUME IInv, NEW f, NEW t PROVE Count(history, f, t) \in Nat
  <1>1. history \in Seq(HistoryRow)
    BY DEF IInv, Types
  <1>2. \E x : x \in HistoryRow
    <2>1. Row("none", "draft", 0) \in HistoryRow
      BY DEF Row, HistoryRow, Status, Targets
    <2> QED
      BY <2>1
  <1>3. Cardinality(Rows(history, f, t)) \in Nat
    BY <1>1, <1>2, CountRows
  <1> QED
    BY <1>3 DEF Count

\* EffectsCommitTogether, of a history, jobs, events, exports and variants.
Together(h, j, o, x, v) ==
    /\ Count(h, "intake", "analyzing") = o["analysis.started"]
    /\ Count(h, "intake", "analyzing") = Cardinality(Owned(j))
    /\ Count(h, "analyzing", "proposal_ready") = o["proposal.ready"]
    /\ o["proposal.ready"] > 0 => v # {}
    /\ Count(h, "quote_ready", "sent") = x["quote-pdf"]
    /\ Count(h, "sent", "archived") = x["case-zip"]

LEMMA TogetherNow ==
    /\ EffectsCommitTogether = Together(history, jobs, outbox, exports, variants)
    /\ EffectsCommitTogether' = Together(history', jobs', outbox', exports', variants')
  BY Zenon DEF EffectsCommitTogether, Together, Moves, Count, Rows, Owned

\* run_before_commit: one of each effect, with its transition.
LEMMA EffectsOfMove ==
  ASSUME IInv, NEW from, NEW to, Effects(from, to)
  PROVE  /\ jobs' \in Seq(Job) /\ Len(jobs') \in Nat /\ Len(jobs') >= Len(jobs)
         /\ Cardinality(Owned(jobs')) =
              Cardinality(Owned(jobs)) + (IF from = "intake" /\ to = "analyzing" THEN 1 ELSE 0)
         /\ outbox' \in [EventType -> Nat] /\ exports' \in [ExportType -> Nat]
         /\ outbox'["analysis.started"] =
              outbox["analysis.started"] + (IF from = "intake" /\ to = "analyzing" THEN 1 ELSE 0)
         /\ outbox'["proposal.ready"] = outbox["proposal.ready"]
         /\ exports'["quote-pdf"] =
              exports["quote-pdf"] + (IF from = "quote_ready" /\ to = "sent" THEN 1 ELSE 0)
         /\ exports'["case-zip"] =
              exports["case-zip"] + (IF from = "sent" /\ to = "archived" THEN 1 ELSE 0)
  <1> DEFINE x == NewJob("manual", "action")
  <1>1. x \in Job /\ x.by = "action"
    BY DEF NewJob, Job
  <1>2. jobs \in Seq(Job) /\ Len(jobs) \in Nat
    BY DEF IInv, Types
  <1> HIDE DEF x
  <1>3. Cardinality(Owned(jobs)) \in Nat
    BY <1>1, <1>2, CountJobs
  <1>4. jobs' = IF from = "intake" /\ to = "analyzing" THEN Append(jobs, x) ELSE jobs
    BY DEF Effects, x
  <1>5. /\ jobs' \in Seq(Job) /\ Len(jobs') \in Nat /\ Len(jobs') >= Len(jobs)
        /\ Cardinality(Owned(jobs')) =
             Cardinality(Owned(jobs)) + (IF from = "intake" /\ to = "analyzing" THEN 1 ELSE 0)
    <2>1. CASE from = "intake" /\ to = "analyzing"
      BY <1>1, <1>2, <1>4, <2>1, CountJobs
    <2>2. CASE ~(from = "intake" /\ to = "analyzing")
      BY <1>2, <1>3, <1>4, <2>2
    <2> QED
      BY <2>1, <2>2
  <1>6. outbox \in [EventType -> Nat] /\ exports \in [ExportType -> Nat]
    BY DEF IInv, Types
  <1>7. outbox' = IF from = "intake" /\ to = "analyzing"
                  THEN [outbox EXCEPT !["analysis.started"] = @ + 1] ELSE outbox
    BY DEF Effects
  <1>8. /\ from = "quote_ready" /\ to = "sent" => exports' = [exports EXCEPT !["quote-pdf"] = @ + 1]
        /\ from = "sent" /\ to = "archived" => exports' = [exports EXCEPT !["case-zip"] = @ + 1]
        /\ ~(from = "quote_ready" /\ to = "sent") /\ ~(from = "sent" /\ to = "archived")
              => exports' = exports
    BY DEF Effects
  <1>9. /\ outbox' \in [EventType -> Nat]
        /\ outbox'["analysis.started"] =
             outbox["analysis.started"] + (IF from = "intake" /\ to = "analyzing" THEN 1 ELSE 0)
        /\ outbox'["proposal.ready"] = outbox["proposal.ready"]
    BY <1>6, <1>7 DEF EventType
  <1>10. /\ exports' \in [ExportType -> Nat]
         /\ exports'["quote-pdf"] =
              exports["quote-pdf"] + (IF from = "quote_ready" /\ to = "sent" THEN 1 ELSE 0)
         /\ exports'["case-zip"] =
              exports["case-zip"] + (IF from = "sent" /\ to = "archived" THEN 1 ELSE 0)
    BY <1>6, <1>8 DEF ExportType
  <1> QED
    BY <1>5, <1>9, <1>10

LEMMA CommitStep == ASSUME IInv, NEW m \in Manager, Commit(m) PROVE IInv'
  <1> DEFINE from == at[m].from
             to == at[m].to
             since == at[m].since
  <1>0. m \in Process
    BY DEF Process
  <1>1. /\ since \in 1..Len(history) /\ from = history[since].to
        /\ to \in Targets[from] /\ to # "proposal_ready"
    BY <1>0 DEF Commit, IInv, Handlers, HandlerOK, HumanTarget
  <1>2. /\ status' = to /\ history' = Append(history, Row(from, to, since))
        /\ Effects(from, to) /\ variants' = variants
    BY DEF Commit, Move
  <1>3. PICK w : /\ at' = [at EXCEPT ![m] = w]
                 /\ \/ w = Idle
                    \/ w = [pc |-> "pushing", job |-> Len(jobs')] /\ Len(jobs') > Len(jobs)
    <2>1. Goto(m, IF Len(jobs') > Len(jobs) THEN [pc |-> "pushing", job |-> Len(jobs')] ELSE Idle)
      BY DEF Commit
    <2>2. CASE Len(jobs') > Len(jobs)
      BY <2>1, <2>2, Zenon DEF Goto
    <2>3. CASE ~(Len(jobs') > Len(jobs))
      BY <2>1, <2>3, Zenon DEF Goto
    <2> QED
      BY <2>2, <2>3
  <1> HIDE DEF from, to, since
  <1>4. /\ status' \in Status
        /\ history' \in Seq(HistoryRow) /\ Len(history') = Len(history) + 1
        /\ \A i \in 1..Len(history) : history'[i] = history[i]
        /\ Order' /\ HistoryTellsStatus'
        /\ \A f, t : Count(history', f, t) = Count(history, f, t) + (IF f = from /\ t = to THEN 1 ELSE 0)
    BY <1>1, <1>2, MoveHistory
  <1>5. /\ jobs' \in Seq(Job) /\ Len(jobs') \in Nat /\ Len(jobs') >= Len(jobs)
        /\ Cardinality(Owned(jobs')) =
             Cardinality(Owned(jobs)) + (IF from = "intake" /\ to = "analyzing" THEN 1 ELSE 0)
        /\ outbox' \in [EventType -> Nat] /\ exports' \in [ExportType -> Nat]
        /\ outbox'["analysis.started"] =
             outbox["analysis.started"] + (IF from = "intake" /\ to = "analyzing" THEN 1 ELSE 0)
        /\ outbox'["proposal.ready"] = outbox["proposal.ready"]
        /\ exports'["quote-pdf"] =
             exports["quote-pdf"] + (IF from = "quote_ready" /\ to = "sent" THEN 1 ELSE 0)
        /\ exports'["case-zip"] =
             exports["case-zip"] + (IF from = "sent" /\ to = "archived" THEN 1 ELSE 0)
    BY <1>2, EffectsOfMove
  <1>6. Len(history) \in Nat /\ Len(jobs) \in Nat
    BY DEF IInv, Types
  <1>7. HandlerOK(w, history', Len(jobs'))
    <2>1. CASE w = Idle
      BY <2>1, IdleOK
    <2>2. CASE w = [pc |-> "pushing", job |-> Len(jobs')] /\ Len(jobs') > Len(jobs)
      BY <2>2, <1>5, <1>6 DEF HandlerOK, Working
    <2> QED
      BY <1>3, <2>1, <2>2
  <1>8. Handlers' /\ at' = [q \in Process |-> at'[q]]
    <2>1. Len(history') \in Nat /\ Len(history') >= Len(history)
      BY <1>4, <1>6
    <2> QED
      BY <1>0, <1>3, <1>4, <1>5, <1>7, <2>1, HandlersKept
  <1>9. EffectsCommitTogether'
    <2>1. /\ Count(history', "intake", "analyzing") = Count(history, "intake", "analyzing")
                 + (IF from = "intake" /\ to = "analyzing" THEN 1 ELSE 0)
          /\ Count(history', "analyzing", "proposal_ready") = Count(history, "analyzing", "proposal_ready") + 0
          /\ Count(history', "quote_ready", "sent") = Count(history, "quote_ready", "sent")
                 + (IF from = "quote_ready" /\ to = "sent" THEN 1 ELSE 0)
          /\ Count(history', "sent", "archived") = Count(history, "sent", "archived")
                 + (IF from = "sent" /\ to = "archived" THEN 1 ELSE 0)
      BY <1>1, <1>4
    <2>2. Count(history, "analyzing", "proposal_ready") \in Nat
      BY CountNat
    <2> QED
      <3>1. Together(history, jobs, outbox, exports, variants)
        BY TogetherNow DEF IInv
      <3>2. Together(history', jobs', outbox', exports', variants')
        BY <1>2, <1>5, <2>1, <2>2, <3>1 DEF Together
      <3> QED
        BY <3>2, TogetherNow
  <1> QED
    BY <1>4, <1>5, <1>8, <1>9 DEF IInv, Types

\* replace_project_variants and the transition, in one transaction.
LEMMA ReplaceStep == ASSUME IInv, NEW k \in Worker, Replace(k) PROVE IInv'
  <1> DEFINE seen == at[k].seen
             since == at[k].since
             w == [pc |-> "replaced", job |-> at[k].job, run |-> at[k].run, seen |-> at[k].seen]
  <1>0. k \in Process
    BY DEF Process
  <1>1. /\ since \in 1..Len(history) /\ seen = history[since].to
        /\ at[k].job \in 1..Len(jobs) /\ at[k].run \in Nat
    BY <1>0 DEF Replace, IInv, Handlers, HandlerOK, Working
  <1>2. at' = [at EXCEPT ![k] = w] /\ UNCHANGED <<exports, jobs>> /\ variants' # {}
    BY DEF Replace, Goto
  <1>3. Len(history) \in Nat /\ Len(jobs) \in Nat
    BY DEF IInv, Types
  <1>4. HandlerOK(w, history', Len(jobs'))
    BY <1>1, <1>2, <1>3 DEF HandlerOK, Working
  <1>5. Len(jobs') \in Nat /\ Len(jobs') >= Len(jobs)
    BY <1>2, <1>3
  <1>6. Together(history, jobs, outbox, exports, variants)
    BY TogetherNow DEF IInv
  <1>7. outbox \in [EventType -> Nat]
    BY DEF IInv, Types
  <1>8. CASE "proposal_ready" \in Targets[seen]
    <2>1. /\ status' = "proposal_ready" /\ history' = Append(history, Row(seen, "proposal_ready", since))
          /\ outbox' = [outbox EXCEPT !["proposal.ready"] = @ + 1]
      BY <1>8 DEF Replace, Move
    <2>2. seen = "analyzing"
      <3>1. history[since] \in HistoryRow
        BY <1>1 DEF IInv, Types
      <3>2. seen \in Status
        BY <1>1, <3>1 DEF HistoryRow
      <3> QED
        BY <1>8, <3>2 DEF Status, Targets
    <2> HIDE DEF seen, since, w
    <2>3. /\ status' \in Status
          /\ history' \in Seq(HistoryRow) /\ Len(history') = Len(history) + 1
          /\ \A i \in 1..Len(history) : history'[i] = history[i]
          /\ Order' /\ HistoryTellsStatus'
          /\ \A f, t : Count(history', f, t) = Count(history, f, t)
                            + (IF f = seen /\ t = "proposal_ready" THEN 1 ELSE 0)
      BY <1>1, <1>8, <2>1, MoveHistory
    <2>4. Len(history') \in Nat /\ Len(history') >= Len(history)
      BY <1>3, <2>3
    <2>5. Handlers' /\ at' = [q \in Process |-> at'[q]]
      BY <1>0, <1>2, <1>4, <1>5, <2>3, <2>4, HandlersKept
    <2>6. /\ outbox' \in [EventType -> Nat]
          /\ outbox'["proposal.ready"] = outbox["proposal.ready"] + 1
          /\ outbox'["analysis.started"] = outbox["analysis.started"]
      BY <1>7, <2>1 DEF EventType
    <2>7. /\ Count(history', "intake", "analyzing") = Count(history, "intake", "analyzing") + 0
          /\ Count(history', "analyzing", "proposal_ready") = Count(history, "analyzing", "proposal_ready") + 1
          /\ Count(history', "quote_ready", "sent") = Count(history, "quote_ready", "sent") + 0
          /\ Count(history', "sent", "archived") = Count(history, "sent", "archived") + 0
      BY <2>2, <2>3
    <2>8. Together(history', jobs', outbox', exports', variants')
      <3>1. /\ Count(history, "intake", "analyzing") \in Nat
            /\ Count(history, "quote_ready", "sent") \in Nat
            /\ Count(history, "sent", "archived") \in Nat
        BY CountNat
      <3> QED
        BY <1>2, <1>6, <2>6, <2>7, <3>1 DEF Together
    <2>9. EffectsCommitTogether'
      BY <2>8, TogetherNow
    <2> QED
      BY <1>2, <2>3, <2>5, <2>6, <2>9 DEF IInv, Types
  <1>9. CASE "proposal_ready" \notin Targets[seen]
    <2>1. UNCHANGED <<status, history, outbox>>
      BY <1>9 DEF Replace
    <2> HIDE DEF seen, since, w
    <2>2. Handlers' /\ at' = [q \in Process |-> at'[q]]
      <3>1. /\ Len(history') \in Nat /\ Len(history') >= Len(history)
            /\ \A i \in 1..Len(history) : history'[i] = history[i]
        BY <1>3, <2>1
      <3> QED
        BY <1>0, <1>2, <1>4, <1>5, <3>1, HandlersKept
    <2>3. Order' /\ HistoryTellsStatus'
      BY <2>1 DEF IInv, Order, HistoryTellsStatus
    <2>4. Together(history', jobs', outbox', exports', variants')
      BY <1>2, <1>6, <2>1 DEF Together
    <2>5. EffectsCommitTogether'
      BY <2>4, TogetherNow
    <2> QED
      BY <1>2, <2>1, <2>2, <2>3, <2>5 DEF IInv, Types
  <1> QED
    BY <1>8, <1>9

-----------------------------------------------------------------------------
(* The theorems. *)

\* A case begins with one row of history and no job.
LEMMA InitIInv == Init => IInv
  <1> SUFFICES ASSUME Init PROVE IInv
    OBVIOUS
  <1>1. PICK c \in Begun : status = c.status /\ history = <<Row("none", c.status, 0)>>
    BY DEF Init
  <1> DEFINE x == Row("none", c.status, 0)
  <1>2. x \in HistoryRow /\ x.from = "none" /\ x.to = c.status
    BY BegunAssumption DEF Row, HistoryRow
  <1>3. history = <<x>> /\ jobs = <<>> /\ \A p \in Process : at[p] = Idle
    BY <1>1 DEF Init
  <1>4. Types
    <2>1. at = [p \in Process |-> at[p]]
      BY Zenon DEF Init
    <2>2. history \in Seq(HistoryRow)
      BY <1>2, <1>3
    <2>3. jobs \in Seq(Job)
      BY <1>3
    <2> QED
      BY <1>1, <2>1, <2>2, <2>3, BegunAssumption DEF Init, Types, EventType, ExportType
  <1>5. Handlers
    BY <1>3, IdleOK DEF Handlers
  <1> HIDE DEF x
  <1>6. Order /\ HistoryTellsStatus
    BY <1>1, <1>2, <1>3 DEF Order, HistoryTellsStatus, x
  <1>7. EffectsCommitTogether
    <2>1. \A f, t : f # "none" => Rows(history, f, t) = {}
      BY <1>2, <1>3 DEF Rows
    <2>2. Owned(jobs) = {}
      BY <1>3 DEF Owned
    <2>3. \A f, t : f # "none" => Count(history, f, t) = 0
      BY <2>1, FS_EmptySet DEF Count
    <2>4. Cardinality(Owned(jobs)) = 0
      BY <2>2, FS_EmptySet
    <2>5. outbox = [e \in EventType |-> 0] /\ exports = [e \in ExportType |-> 0]
      BY DEF Init
    <2>6. Together(history, jobs, outbox, exports, variants)
      BY <2>3, <2>4, <2>5 DEF Together, EventType, ExportType
    <2> QED
      BY <2>6, TogetherNow
  <1> QED
    BY <1>4, <1>5, <1>6, <1>7 DEF IInv

LEMMA NextIInv == IInv /\ [Next]_vars => IInv'
  <1> SUFFICES ASSUME IInv, [Next]_vars PROVE IInv'
    OBVIOUS
  <1>1. CASE UNCHANGED vars
    BY <1>1 DEF vars, caseVars, IInv, Types, Handlers, Order, HistoryTellsStatus, EffectsCommitTogether, Moves
  <1>2. ASSUME NEW m \in Manager, ManagerStep(m) PROVE IInv'
    BY <1>2, DecideStep, AskStep, CommitStep, SaveFinalStep DEF ManagerStep
  <1>3. ASSUME NEW k \in Worker, WorkerStep(k) \/ Fail(k) PROVE IInv'
    BY <1>3, ClaimStep, AnalyseStep, AnnounceStep, AskForQuoteStep, ReadStep, ReplaceStep,
       FinishQuoteStep, FailStep DEF WorkerStep
  <1>4. ASSUME NEW p \in Process, Add(p) \/ Push(p) \/ Refused(p) \/ Crash(p) PROVE IInv'
    BY <1>4, AddStep, PushStep, RefusedStep, CrashStep
  <1>5. ASSUME NEW n \in DOMAIN jobs, Recover(n) PROVE IInv'
    BY <1>5, RecoverStep
  <1> QED
    BY <1>1, <1>2, <1>3, <1>4, <1>5 DEF Next

\* The history tells the status of the case (apply_transition), whatever
\* managers and workers decide side by side and whatever fails.
THEOREM HistoryIsTold == Spec => []HistoryTellsStatus
  <1>1. IInv => HistoryTellsStatus
    BY DEF IInv
  <1> QED
    BY <1>1, InitIInv, NextIInv, PTL DEF Spec

\* A transition and its before-commit effects come in equal numbers
\* (run_before_commit and the recalculation's own commit), for any number of
\* transitions, overlapping requests and crashes.
THEOREM EffectsComeTogether == Spec => []EffectsCommitTogether
  <1>1. IInv => EffectsCommitTogether
    BY DEF IInv
  <1> QED
    BY <1>1, InitIInv, NextIInv, PTL DEF Spec

-----------------------------------------------------------------------------
(* One set of variants. *)

\* The states of a recalculation's run.
Quoting == {"reading", "read", "listed", "replaced"}
Alive(n) == jobs[n].st \in {"queued", "running"}

\* A ticket is for a queued job; a job whose ticket is about to be pushed is
\* queued, and one handler pushes it.
TicketsWait ==
    /\ \A n \in 1..Len(jobs) : jobs[n].ticket => jobs[n].st = "queued"
    /\ \A p \in Process : at[p].pc = "pushing" => jobs[at[p].job].st = "queued" /\ ~ jobs[at[p].job].ticket
    /\ \A p, q \in Process :
          at[p].pc = "pushing" /\ at[q].pc = "pushing" /\ at[p].job = at[q].job => p = q

\* Who adds a recalculation has found all those of its look ended, and they stay so.
AddersLooked ==
    \A p \in Process : at[p].pc = "adding" /\ at[p].kind = "quote" =>
        /\ at[p].known \in Nat /\ at[p].known =< Len(jobs)
        /\ \A n \in 1..at[p].known : jobs[n].kind = "quote" => ~ Alive(n)

RunKinds ==
    \A p \in Process :
        /\ at[p].pc = "analysing" => jobs[at[p].job].kind = "manual"
        /\ at[p].pc \in Quoting => jobs[at[p].job].kind = "quote" /\ p \in Worker /\ "run" \in DOMAIN at[p]

\* One recalculation is alive, one handler runs it and owns it, and the
\* variants it has listed are the only ones.
OneAlive ==
    \A m, n \in 1..Len(jobs) :
        jobs[m].kind = "quote" /\ jobs[n].kind = "quote" /\ Alive(m) /\ Alive(n) => m = n
RunsOwn ==
    /\ \A p \in Process : at[p].pc \in Quoting => jobs[at[p].job].st = "running"
    /\ \A p, q \in Process : at[p].pc \in Quoting /\ at[q].pc \in Quoting => p = q
ListedAll ==
    /\ \A p \in Process : at[p].pc = "listed" => at[p].old = variants
    /\ \A x, y \in variants : x = y

SidesApart == ~ raced => OneAlive /\ RunsOwn /\ ListedAll

VInv == IInv /\ TicketsWait /\ AddersLooked /\ RunKinds /\ SidesApart

\* A step of a handler that changes no job.
LEMMA HandlerMoves ==
  ASSUME VInv, NEW p \in Process, NEW w, at' = [at EXCEPT ![p] = w],
         UNCHANGED <<jobs, variants>>, raced => raced',
         w.pc \notin {"pushing", "analysing"},
         w.pc = "adding" /\ w.kind = "quote" =>
            w.known = Len(jobs) /\ \A n \in 1..Len(jobs) : jobs[n].kind = "quote" => ~ Alive(n),
         w.pc \in Quoting => at[p].pc \in Quoting /\ w.job = at[p].job /\ "run" \in DOMAIN w,
         w.pc = "listed" => w.old = variants
  PROVE  TicketsWait' /\ AddersLooked' /\ RunKinds' /\ SidesApart'
  <1>1. \A q \in Process : at'[q] = IF q = p THEN w ELSE at[q]
    BY Zenon DEF VInv, IInv, Types
  <1>2. Len(jobs) \in Nat
    BY DEF VInv, IInv, Types
  <1>3. TicketsWait'
    BY <1>1 DEF VInv, TicketsWait
  <1>4. AddersLooked'
    BY <1>1, <1>2 DEF VInv, AddersLooked, Alive
  <1>5. RunKinds'
    BY <1>1 DEF VInv, RunKinds
  <1>6. ASSUME ~ raced PROVE OneAlive' /\ RunsOwn' /\ ListedAll'
    <2>1. OneAlive /\ RunsOwn /\ ListedAll
      BY <1>6 DEF VInv, SidesApart
    <2>2. OneAlive'
      BY <2>1 DEF OneAlive, Alive
    <2>3. RunsOwn'
      BY <1>1, <2>1 DEF RunsOwn
    <2>4. ListedAll'
      BY <1>1, <2>1 DEF ListedAll
    <2> QED BY <2>2, <2>3, <2>4
  <1>7. SidesApart'
    BY <1>6, Zenon DEF SidesApart
  <1> QED BY <1>3, <1>4, <1>5, <1>7

\* A job changes and no handler runs or pushes it afterwards.  It does not come
\* back to life.
LEMMA JobChanges ==
  ASSUME VInv, NEW n \in 1..Len(jobs), NEW x, x.kind = jobs[n].kind, x.ticket => x.st = "queued",
         x.st \in {"queued", "running"} => Alive(n),
         jobs' = [jobs EXCEPT ![n] = x],
         UNCHANGED variants, raced => raced',
         \A q \in Process : \/ at'[q] = at[q]
                            \/ at'[q].pc \notin {"pushing", "adding", "analysing", "listed"} \cup Quoting,
         \A q \in Process : at'[q].pc = "pushing" => at[q].job # n,
         ~ raced' => \A q \in Process : at'[q].pc \in Quoting => at[q].job # n
  PROVE  TicketsWait' /\ AddersLooked' /\ RunKinds' /\ SidesApart'
  <1>1. /\ Len(jobs) \in Nat /\ Len(jobs') = Len(jobs)
        /\ \A m \in 1..Len(jobs) : jobs'[m] = IF m = n THEN x ELSE jobs[m]
    BY DEF VInv, IInv, Types
  <1>2. \A q \in Process : at[q].pc \in Working => at[q].job \in 1..Len(jobs)
    BY DEF VInv, IInv, Handlers, HandlerOK
  <1>3. \A m \in 1..Len(jobs) : jobs'[m].kind = jobs[m].kind /\ (Alive(m)' => Alive(m))
    BY <1>1 DEF Alive
  <1>4. \A q \in Process :
           at'[q].pc \in {"pushing", "adding", "analysing", "listed"} \cup Quoting => at'[q] = at[q]
    OBVIOUS
  <1>5. TicketsWait'
    BY <1>1, <1>2, <1>4 DEF VInv, TicketsWait, Working
  <1>6. AddersLooked'
    BY <1>1, <1>3, <1>4 DEF VInv, AddersLooked
  <1>7. RunKinds'
    BY <1>2, <1>3, <1>4 DEF VInv, RunKinds, Working, Quoting
  <1>8. ASSUME ~ raced, ~ raced' PROVE OneAlive' /\ RunsOwn' /\ ListedAll'
    <2>1. OneAlive /\ RunsOwn /\ ListedAll
      BY <1>8 DEF VInv, SidesApart
    <2>2. OneAlive'
      BY <1>1, <1>3, <2>1 DEF OneAlive
    <2>3. RunsOwn'
      BY <1>1, <1>2, <1>4, <1>8, <2>1 DEF RunsOwn, Quoting, Working
    <2>4. ListedAll'
      BY <1>4, <2>1 DEF ListedAll
    <2> QED BY <2>2, <2>3, <2>4
  <1>9. SidesApart'
    BY <1>8, Zenon DEF SidesApart
  <1> QED BY <1>5, <1>6, <1>7, <1>9

\* A job is added.  A recalculation that is added beside another is remembered.
LEMMA JobAdded ==
  ASSUME VInv, NEW p \in Process, NEW x, x.st = "queued", ~ x.ticket,
         jobs' = Append(jobs, x), NEW w, at' = [at EXCEPT ![p] = w],
         w.pc = "pushing", w.job = Len(jobs) + 1,
         UNCHANGED variants, raced => raced',
         ~ raced' /\ x.kind = "quote" => \A n \in 1..Len(jobs) : jobs[n].kind = "quote" => ~ Alive(n)
  PROVE  TicketsWait' /\ AddersLooked' /\ RunKinds' /\ SidesApart'
  <1>1. /\ Len(jobs) \in Nat /\ Len(jobs') = Len(jobs) + 1 /\ jobs'[Len(jobs) + 1] = x
        /\ \A m \in 1..Len(jobs) : jobs'[m] = jobs[m]
    BY DEF VInv, IInv, Types
  <1>2. \A q \in Process : at[q].pc \in Working => at[q].job \in 1..Len(jobs)
    BY DEF VInv, IInv, Handlers, HandlerOK
  <1>3. \A q \in Process : at'[q] = IF q = p THEN w ELSE at[q]
    BY Zenon DEF VInv, IInv, Types
  <1>4. \A m \in 1..Len(jobs') : m \in 1..Len(jobs) \/ m = Len(jobs) + 1
    BY <1>1
  <1>5. TicketsWait'
    <2>1. \A n \in 1..Len(jobs') : jobs'[n].ticket => jobs'[n].st = "queued"
      BY <1>1, <1>4 DEF VInv, TicketsWait
    <2>2. \A q \in Process : at[q].pc = "pushing" => at[q].job \in 1..Len(jobs) /\ at[q].job # Len(jobs) + 1
      BY <1>1, <1>2 DEF Working
    <2>3. \A q \in Process : at'[q].pc = "pushing" => jobs'[at'[q].job].st = "queued" /\ ~ jobs'[at'[q].job].ticket
      BY <1>1, <1>3, <2>2 DEF VInv, TicketsWait
    <2>4. \A q, r \in Process :
             at'[q].pc = "pushing" /\ at'[r].pc = "pushing" /\ at'[q].job = at'[r].job => q = r
      BY <1>3, <2>2 DEF VInv, TicketsWait
    <2> QED BY <2>1, <2>3, <2>4 DEF TicketsWait
  <1>6. AddersLooked'
    BY <1>1, <1>3 DEF VInv, AddersLooked, Alive
  <1>7. RunKinds'
    BY <1>1, <1>2, <1>3 DEF VInv, RunKinds, Working, Quoting
  <1>8. ASSUME ~ raced, ~ raced' PROVE OneAlive' /\ RunsOwn' /\ ListedAll'
    <2>1. OneAlive /\ RunsOwn /\ ListedAll
      BY <1>8 DEF VInv, SidesApart
    <2>2. OneAlive'
      BY <1>1, <1>4, <1>8, <2>1 DEF OneAlive, Alive
    <2>3. RunsOwn'
      BY <1>1, <1>2, <1>3, <2>1 DEF RunsOwn, Quoting, Working
    <2>4. ListedAll'
      BY <1>3, <2>1 DEF ListedAll
    <2> QED BY <2>2, <2>3, <2>4
  <1>9. SidesApart'
    BY <1>8, Zenon DEF SidesApart
  <1> QED BY <1>5, <1>6, <1>7, <1>9

Sides == TicketsWait /\ AddersLooked /\ RunKinds /\ SidesApart

\* Steps that change neither jobs nor variants.
LEMMA IdleMoves ==
  ASSUME VInv, NEW p \in Process, at' = [at EXCEPT ![p] = Idle], UNCHANGED <<jobs, variants, raced>>
  PROVE  Sides'
  <1>1. Idle.pc = "idle"
    BY DEF Idle
  <1> QED
    BY <1>1, HandlerMoves DEF Sides, Quoting

LEMMA LookSides ==
  ASSUME VInv, NEW p \in Process, NEW kind, NEW by, Look(p, kind, by), UNCHANGED <<jobs, variants, raced>>
  PROVE  Sides'
  <1> DEFINE w == [pc |-> "adding", kind |-> kind, by |-> by, known |-> Len(jobs)]
  <1>1. CASE Goto(p, Idle)
    BY <1>1, IdleMoves DEF Goto
  <1>2. CASE Goto(p, w) /\ Active(kind) = {}
    <2>1. at' = [at EXCEPT ![p] = w]
      BY <1>2 DEF Goto
    <2>2. kind = "quote" => \A n \in 1..Len(jobs) : jobs[n].kind = "quote" => ~ Alive(n)
      <3>1. DOMAIN jobs = 1..Len(jobs)
        BY DEF VInv, IInv, Types
      <3> QED
        BY <1>2, <3>1 DEF Active, Alive
    <2>3. w.pc = "adding" /\ w.kind = kind /\ w.known = Len(jobs)
      OBVIOUS
    <2> HIDE DEF w
    <2> QED
      BY <2>1, <2>2, <2>3, HandlerMoves DEF Sides, Quoting
  <1> QED
    BY <1>1, <1>2 DEF Look, Missing

LEMMA QuietSides ==
  ASSUME VInv, NEW p \in Process,
         \/ \E to \in HumanTarget : Decide(p, to)
         \/ \E kind \in {"manual", "quote"} : Ask(p, kind)
         \/ SaveFinal(p)
         \/ p \in Worker /\ (Announce(p) \/ AskForQuote(p) \/ ReadCase(p) \/ ListVariants(p))
         \/ Crash(p)
  PROVE  Sides'
  <1>1. ASSUME NEW to \in HumanTarget, Decide(p, to) PROVE Sides'
    <2> DEFINE w == [pc |-> "decided", from |-> status, to |-> to, since |-> Len(history)]
    <2>1. at' = [at EXCEPT ![p] = w] /\ UNCHANGED <<jobs, variants, raced>> /\ w.pc = "decided"
      BY <1>1 DEF Decide, Goto
    <2> HIDE DEF w
    <2> QED
      BY <2>1, HandlerMoves DEF Sides, Quoting
  <1>2. ASSUME NEW kind \in {"manual", "quote"}, Ask(p, kind) PROVE Sides'
    BY <1>2, LookSides DEF Ask
  <1>3. CASE SaveFinal(p)
    <2>1. UNCHANGED <<jobs, variants, at, raced>>
      BY <1>3 DEF SaveFinal
    <2> QED
      BY <2>1 DEF VInv, Sides, TicketsWait, AddersLooked, RunKinds, SidesApart, OneAlive, RunsOwn,
                  ListedAll, Alive
  <1>4. CASE Announce(p)
    <2> DEFINE w == [pc |-> "asking", job |-> at[p].job]
    <2>1. at' = [at EXCEPT ![p] = w] /\ UNCHANGED <<jobs, variants, raced>> /\ w.pc = "asking"
      BY <1>4 DEF Announce, Goto
    <2> HIDE DEF w
    <2> QED
      BY <2>1, HandlerMoves DEF Sides, Quoting
  <1>5. CASE AskForQuote(p)
    BY <1>5, LookSides DEF AskForQuote
  <1>6. CASE ReadCase(p)
    <2> DEFINE w == [pc |-> "read", job |-> at[p].job, run |-> at[p].run,
                     seen |-> status, since |-> Len(history)]
    <2>1. /\ at' = [at EXCEPT ![p] = w] /\ UNCHANGED <<jobs, variants, raced>>
          /\ w.pc = "read" /\ w.job = at[p].job /\ "run" \in DOMAIN w /\ at[p].pc = "reading"
      BY <1>6 DEF ReadCase, Goto
    <2> HIDE DEF w
    <2> QED
      BY <2>1, HandlerMoves DEF Sides, Quoting
  <1>7. CASE ListVariants(p)
    <2> DEFINE w == [pc |-> "listed", job |-> at[p].job, run |-> at[p].run,
                     seen |-> at[p].seen, since |-> at[p].since, old |-> variants]
    <2>1. /\ at' = [at EXCEPT ![p] = w] /\ UNCHANGED <<jobs, variants, raced>>
          /\ w.pc = "listed" /\ w.job = at[p].job /\ "run" \in DOMAIN w /\ at[p].pc = "read"
          /\ w.old = variants
      BY <1>7 DEF ListVariants, Goto
    <2> HIDE DEF w
    <2> QED
      BY <2>1, HandlerMoves DEF Sides, Quoting
  <1>8. CASE Crash(p)
    BY <1>8, IdleMoves DEF Crash, Goto
  <1> QED
    BY <1>1, <1>2, <1>3, <1>4, <1>5, <1>6, <1>7, <1>8

\* What a handler runs or pushes is a row, and it is the only one to push it.
LEMMA RowOf ==
  ASSUME VInv, NEW p \in Process, at[p].pc \in Working
  PROVE  at[p].job \in 1..Len(jobs) /\ jobs[at[p].job] \in Job
  BY JobOfHandler DEF VInv

\* The ticket is pushed, or the lane refuses it.
LEMMA PushSides == ASSUME VInv, NEW p \in Process, Push(p) PROVE Sides'
  <1> DEFINE n == at[p].job
             x == [jobs[n] EXCEPT !.ticket = TRUE]
  <1>1. n \in 1..Len(jobs) /\ jobs[n] \in Job
    BY RowOf DEF Push, Working
  <1>2. at[p].pc = "pushing" /\ jobs[n].st = "queued"
    BY DEF Push, VInv, TicketsWait
  <1>3. x.kind = jobs[n].kind /\ x.st = "queued"
    BY <1>1, <1>2 DEF Job
  <1>4. jobs' = [jobs EXCEPT ![n] = x] /\ at' = [at EXCEPT ![p] = Idle] /\ UNCHANGED <<variants, raced>>
    BY DEF Push, Goto
  <1>5. \A q \in Process : at'[q] = IF q = p THEN Idle ELSE at[q]
    BY <1>4, Zenon DEF VInv, IInv, Types
  <1>6. \A q \in Process : at'[q].pc = "pushing" => at[q].job # n
    BY <1>2, <1>5 DEF VInv, TicketsWait, Idle
  <1>7. ~ raced => \A q \in Process : at'[q].pc \in Quoting => at[q].job # n
    <2>1. ~ raced => \A q \in Process : at[q].pc \in Quoting => jobs[at[q].job].st = "running"
      BY DEF VInv, SidesApart, RunsOwn
    <2> QED
      BY <1>2, <1>5, <2>1 DEF Quoting, Idle
  <1>8. Alive(n)
    BY <1>2 DEF Alive
  <1>9. \A q \in Process : \/ at'[q] = at[q]
                           \/ at'[q].pc \notin {"pushing", "adding", "analysing", "listed"} \cup Quoting
    BY <1>5 DEF Idle, Quoting
  <1> HIDE DEF n, x
  <1> QED
    BY <1>1, <1>3, <1>4, <1>6, <1>7, <1>8, <1>9, JobChanges DEF Sides

LEMMA RefusedSides == ASSUME VInv, NEW p \in Process, Refused(p) PROVE Sides'
  <1> DEFINE n == at[p].job
  <1>1. n \in 1..Len(jobs) /\ jobs[n] \in Job
    BY RowOf DEF Refused, Working
  <1>2. at[p].pc = "pushing" /\ jobs[n].st = "queued" /\ ~ jobs[n].ticket
    BY DEF Refused, VInv, TicketsWait
  <1>3. at' = [at EXCEPT ![p] = Idle] /\ UNCHANGED <<variants, raced>>
    BY DEF Refused, Goto
  <1>4. CASE UNCHANGED jobs
    BY <1>3, <1>4, IdleMoves
  <1>5. ASSUME NEW st \in {"canceled", "failed"}, jobs' = [jobs EXCEPT ![n].st = st] PROVE Sides'
    <2> DEFINE x == [jobs[n] EXCEPT !.st = st]
    <2>1. x.kind = jobs[n].kind /\ x.st \notin {"queued", "running"} /\ ~ x.ticket
      BY <1>1, <1>2 DEF Job
    <2>2. jobs' = [jobs EXCEPT ![n] = x]
      BY <1>5
    <2>5. \A q \in Process : at'[q] = IF q = p THEN Idle ELSE at[q]
      BY <1>3, Zenon DEF VInv, IInv, Types
    <2>6. \A q \in Process : at'[q].pc = "pushing" => at[q].job # n
      BY <1>2, <2>5 DEF VInv, TicketsWait, Idle
    <2>7. ~ raced => \A q \in Process : at'[q].pc \in Quoting => at[q].job # n
      <3>1. ~ raced => \A q \in Process : at[q].pc \in Quoting => jobs[at[q].job].st = "running"
        BY DEF VInv, SidesApart, RunsOwn
      <3> QED
        BY <1>2, <2>5, <3>1 DEF Quoting, Idle
    <2>9. \A q \in Process : \/ at'[q] = at[q]
                             \/ at'[q].pc \notin {"pushing", "adding", "analysing", "listed"} \cup Quoting
      BY <2>5 DEF Idle, Quoting
    <2> HIDE DEF n, x
    <2> QED
      BY <1>1, <1>3, <2>1, <2>2, <2>6, <2>7, <2>9, JobChanges DEF Sides
  <1> QED
    BY <1>4, <1>5 DEF Refused

\* A job becomes x, the same kind of job; only a queued one has a ticket.
Becomes(n, x) ==
    /\ jobs' = [jobs EXCEPT ![n] = x]
    /\ x.kind = jobs[n].kind
    /\ x.ticket => x.st = "queued"

\* A run that owns its job leaves it: nobody else pushes it, and without two
\* recalculations side by side nobody else runs it.
LEMMA RunLeaves ==
  ASSUME VInv, NEW k \in Worker, at[k].pc \in {"analysing"} \cup Quoting, Owns(k),
         NEW x, Becomes(at[k].job, x),
         NEW w, w.pc \in {"idle", "announcing"}, Goto(k, w), UNCHANGED <<variants, raced>>
  PROVE  Sides'
  <1> DEFINE n == at[k].job
  <1>0. k \in Process
    BY DEF Process
  <1>1. n \in 1..Len(jobs)
    BY <1>0, RowOf DEF Working, Quoting
  <1>2. jobs[n].st = "running"
    BY DEF Owns
  <1>3. \A q \in Process : at'[q] = IF q = k THEN w ELSE at[q]
    BY Zenon DEF VInv, IInv, Types, Goto
  <1>4. \A q \in Process : at'[q].pc = "pushing" => at[q].job # n
    BY <1>2, <1>3 DEF VInv, TicketsWait
  <1>5. ~ raced => \A q \in Process : at'[q].pc \in Quoting => at[q].job # n
    <2> SUFFICES ASSUME ~ raced, NEW q \in Process, at'[q].pc \in Quoting, at[q].job = n
                 PROVE  FALSE
      BY Zenon
    <2>1. q # k /\ at[q].pc \in Quoting
      BY <1>3 DEF Quoting
    <2>2. jobs[n].kind = "quote"
      BY <2>1 DEF VInv, RunKinds
    <2>3. at[k].pc \in Quoting
      BY <1>0, <2>2 DEF VInv, RunKinds
    <2> QED
      BY <1>0, <2>1, <2>3 DEF VInv, SidesApart, RunsOwn
  <1>6. \A q \in Process : \/ at'[q] = at[q]
                           \/ at'[q].pc \notin {"pushing", "adding", "analysing", "listed"} \cup Quoting
    BY <1>3 DEF Quoting
  <1>7. Alive(n)
    BY <1>2 DEF Alive
  <1>8. Becomes(n, x)
    OBVIOUS
  <1> HIDE DEF n
  <1> QED
    BY <1>1, <1>4, <1>5, <1>6, <1>7, <1>8, JobChanges DEF Sides, Becomes

\* A run that lost its job leaves it alone.
LEMMA RunGone ==
  ASSUME VInv, NEW k \in Worker, UNCHANGED <<jobs, variants, raced>>, Goto(k, Idle)
  PROVE  Sides'
  BY IdleMoves DEF Goto, Process

LEMMA EndSides ==
  ASSUME VInv, NEW k \in Worker, at[k].pc \in {"analysing"} \cup Quoting, Owns(k),
         NEW st \in {"completed", "failed"}, End(at[k].job, st),
         NEW w, w.pc \in {"idle", "announcing"}, Goto(k, w), UNCHANGED <<variants, raced>>
  PROVE  Sides'
  <1> DEFINE n == at[k].job
             x == [jobs[n] EXCEPT !.st = st]
  <1>1. n \in 1..Len(jobs) /\ jobs[n] \in Job
    BY RowOf DEF Working, Quoting, Process
  <1>2. jobs[n].st = "running" /\ ~ jobs[n].ticket
    BY <1>1 DEF Owns, VInv, TicketsWait
  <1>3. x.kind = jobs[n].kind /\ (x.ticket => x.st = "queued")
    BY <1>1, <1>2 DEF Job
  <1>4. jobs' = [jobs EXCEPT ![n] = x] /\ at' = [at EXCEPT ![k] = w]
    BY DEF End, Goto
  <1>5. Becomes(at[k].job, x)
    BY <1>3, <1>4 DEF Becomes
  <1> HIDE DEF x
  <1> QED
    BY <1>5, RunLeaves

LEMMA AnalyseSides == ASSUME VInv, NEW k \in Worker, Analyse(k) PROVE Sides'
  <1>1. at[k].pc \in {"analysing"} \cup Quoting /\ UNCHANGED <<variants, raced>>
    BY DEF Analyse
  <1>2. CASE Owns(k)
    <2> DEFINE w == [pc |-> "announcing", job |-> at[k].job]
    <2>1. w.pc = "announcing" /\ End(at[k].job, "completed") /\ Goto(k, w)
      BY <1>2 DEF Analyse
    <2> HIDE DEF w
    <2> QED
      BY <1>1, <1>2, <2>1, EndSides
  <1>3. CASE ~ Owns(k)
    BY <1>1, <1>3, RunGone DEF Analyse
  <1> QED
    BY <1>2, <1>3

LEMMA FinishQuoteSides == ASSUME VInv, NEW k \in Worker, FinishQuote(k) PROVE Sides'
  <1>1. at[k].pc \in {"analysing"} \cup Quoting /\ UNCHANGED <<variants, raced>> /\ Goto(k, Idle)
    BY DEF FinishQuote, Quoting
  <1>2. Idle.pc = "idle"
    BY DEF Idle
  <1>3. CASE Owns(k)
    <2>1. End(at[k].job, "completed")
      BY <1>3 DEF FinishQuote
    <2> QED
      BY <1>1, <1>2, <1>3, <2>1, EndSides
  <1>4. CASE ~ Owns(k)
    BY <1>1, <1>4, RunGone DEF FinishQuote
  <1> QED
    BY <1>3, <1>4

LEMMA FailSides == ASSUME VInv, NEW k \in Worker, Fail(k) PROVE Sides'
  <1>1. at[k].pc \in {"analysing"} \cup Quoting /\ UNCHANGED <<variants, raced>> /\ Goto(k, Idle)
    BY DEF Fail, Quoting
  <1>2. Idle.pc = "idle"
    BY DEF Idle
  <1>3. CASE Owns(k) /\ End(at[k].job, "failed")
    BY <1>1, <1>2, <1>3, EndSides
  <1>4. CASE Owns(k) /\ jobs' = [jobs EXCEPT ![at[k].job].st = "queued", ![at[k].job].ticket = TRUE]
    <2> DEFINE n == at[k].job
               x == [jobs[n] EXCEPT !.st = "queued", !.ticket = TRUE]
    <2>1. n \in 1..Len(jobs) /\ jobs[n] \in Job
      BY <1>1, RowOf DEF Working, Quoting, Process
    <2>2. x.kind = jobs[n].kind /\ (x.ticket => x.st = "queued")
      BY <2>1 DEF Job
    <2>3. jobs' = [jobs EXCEPT ![n] = x]
      BY <1>4, <2>1 DEF Job, VInv, IInv, Types
    <2>4. Becomes(at[k].job, x)
      BY <2>2, <2>3 DEF Becomes
    <2> HIDE DEF x
    <2> QED
      BY <1>1, <1>2, <1>4, <2>4, RunLeaves
  <1>5. CASE ~ Owns(k) /\ UNCHANGED jobs
    BY <1>1, <1>5, RunGone
  <1> QED
    BY <1>3, <1>4, <1>5 DEF Fail

\* Recovery: a recalculation whose worker is alive is remembered as raced.
LEMMA RecoverSides == ASSUME VInv, NEW n \in DOMAIN jobs, Recover(n) PROVE Sides'
  <1> DEFINE x == [jobs[n] EXCEPT !.st = "queued", !.ticket = TRUE]
  <1>1. n \in 1..Len(jobs) /\ jobs[n] \in Job
    BY DEF VInv, IInv, Types
  <1>2. jobs[n].st = "running" /\ UNCHANGED <<variants, at>>
    BY DEF Recover
  <1>3. x.kind = jobs[n].kind /\ x.st = "queued"
    BY <1>1 DEF Job
  <1>4. jobs' = [jobs EXCEPT ![n] = x]
    BY <1>1 DEF Recover, Job, VInv, IInv, Types
  <1>5. \A q \in Process : at'[q].pc = "pushing" => at[q].job # n
    BY <1>2 DEF VInv, TicketsWait
  <1>6. (raced => raced') /\ (Runners(n) # {} /\ jobs[n].kind = "quote" => raced')
    BY Zenon DEF Recover
  <1>7. ~ raced' => \A q \in Process : at'[q].pc \in Quoting => at[q].job # n
    <2> SUFFICES ASSUME ~ raced', NEW q \in Process, at'[q].pc \in Quoting, at[q].job = n
                 PROVE  FALSE
      BY Zenon
    <2>1. at[q].pc \in Quoting
      BY <1>2
    <2>2. jobs[n].kind = "quote" /\ q \in Worker /\ "run" \in DOMAIN at[q]
      BY <2>1 DEF VInv, RunKinds
    <2>3. at[q] # Idle
      BY <2>1 DEF Idle, Quoting
    <2>4. Runners(n) # {}
      BY <2>2, <2>3 DEF Runners
    <2> QED
      BY <1>6, <2>2, <2>4
  <1>8. Alive(n) /\ \A q \in Process : at'[q] = at[q]
    BY <1>2 DEF Alive
  <1> HIDE DEF x
  <1> QED
    BY <1>1, <1>2, <1>3, <1>4, <1>5, <1>6, <1>7, <1>8, JobChanges DEF Sides

\* A recalculation that is added without being remembered as raced is the only
\* one alive: those it knew have ended, and none was added since.
LEMMA AddSides == ASSUME VInv, NEW p \in Process, Add(p) PROVE Sides'
  <1> DEFINE x == NewJob(at[p].kind, at[p].by)
             w == [pc |-> "pushing", job |-> Len(jobs) + 1]
  <1>1. jobs' = Append(jobs, x) /\ at' = [at EXCEPT ![p] = w] /\ UNCHANGED variants
    BY DEF Add, Goto
  <1>2. x.kind = at[p].kind /\ x.st = "queued" /\ ~ x.ticket /\ w.pc = "pushing" /\ w.job = Len(jobs) + 1
    BY DEF NewJob
  <1>3. DOMAIN jobs = 1..Len(jobs) /\ Len(jobs) \in Nat
    BY DEF VInv, IInv, Types
  <1>4. /\ raced => raced'
        /\ at[p].kind = "quote" /\ (\E n \in DOMAIN jobs : n > at[p].known /\ jobs[n].kind = "quote") => raced'
    BY Zenon DEF Add
  <1>5. ~ raced' /\ x.kind = "quote" => \A n \in 1..Len(jobs) : jobs[n].kind = "quote" => ~ Alive(n)
    <2> SUFFICES ASSUME ~ raced', at[p].kind = "quote", NEW n \in 1..Len(jobs), jobs[n].kind = "quote"
                 PROVE  ~ Alive(n)
      BY <1>2, Zenon
    <2>1. at[p].known \in Nat /\ \A i \in 1..at[p].known : jobs[i].kind = "quote" => ~ Alive(i)
      BY DEF Add, VInv, AddersLooked
    <2>2. ~ (n > at[p].known)
      BY <1>3, <1>4
    <2> QED
      BY <1>3, <2>1, <2>2
  <1> HIDE DEF x, w
  <1> QED
    BY <1>1, <1>2, <1>4, <1>5, JobAdded DEF Sides

\* Starting an analysis adds an analysis, not a recalculation.
LEMMA CommitSides == ASSUME VInv, NEW m \in Manager, Commit(m) PROVE Sides'
  <1>0. m \in Process /\ Len(jobs) \in Nat /\ UNCHANGED <<variants, raced>>
    BY DEF Process, VInv, IInv, Types, Commit
  <1>1. CASE jobs' = jobs
    <2> DEFINE v == [pc |-> "pushing", job |-> Len(jobs')]
    <2>1. Goto(m, IF Len(jobs') > Len(jobs) THEN v ELSE Idle) /\ ~ (Len(jobs') > Len(jobs))
      BY <1>0, <1>1 DEF Commit
    <2> HIDE DEF v
    <2>2. at' = [at EXCEPT ![m] = Idle]
      BY <2>1, Zenon DEF Goto
    <2> QED
      BY <1>0, <1>1, <2>2, IdleMoves
  <1>2. CASE jobs' = Append(jobs, NewJob("manual", "action"))
    <2> DEFINE x == NewJob("manual", "action")
               w == [pc |-> "pushing", job |-> Len(jobs) + 1]
    <2>1. x.kind = "manual" /\ x.st = "queued" /\ ~ x.ticket /\ w.pc = "pushing" /\ w.job = Len(jobs) + 1
      BY DEF NewJob
    <2> HIDE DEF x
    <2>2. jobs' = Append(jobs, x) /\ Len(jobs') = Len(jobs) + 1
      BY <1>2 DEF x, VInv, IInv, Types
    <2>3. Goto(m, IF Len(jobs') > Len(jobs) THEN [pc |-> "pushing", job |-> Len(jobs')] ELSE Idle)
      BY DEF Commit
    <2>4. Len(jobs') > Len(jobs) /\ w = [pc |-> "pushing", job |-> Len(jobs')]
      BY <1>0, <2>2
    <2> HIDE DEF w
    <2>5. at' = [at EXCEPT ![m] = w]
      BY <2>3, <2>4, Zenon DEF Goto
    <2> QED
      BY <1>0, <2>1, <2>2, <2>5, JobAdded DEF Sides
  <1> QED
    BY <1>1, <1>2 DEF Commit, Effects

\* A ticket is for a queued job, which nobody runs.
LEMMA ClaimSides == ASSUME VInv, NEW k \in Worker, Claim(k) PROVE Sides'
  <1>0. k \in Process /\ at[k] = Idle /\ UNCHANGED <<variants, raced>>
    BY DEF Process, Claim
  <1>1. PICK n \in DOMAIN jobs :
            /\ jobs[n].ticket
            /\ jobs' = [jobs EXCEPT ![n].st = "running", ![n].ticket = FALSE, ![n].runs = @ + 1]
            /\ Goto(k, [pc |-> IF jobs[n].kind = "manual" THEN "analysing" ELSE "reading",
                        job |-> n, run |-> jobs[n].runs + 1])
    BY DEF Claim
  <1> DEFINE x == [jobs[n] EXCEPT !.st = "running", !.ticket = FALSE, !.runs = @ + 1]
             w == [pc |-> IF jobs[n].kind = "manual" THEN "analysing" ELSE "reading",
                   job |-> n, run |-> jobs[n].runs + 1]
  <1>2. n \in 1..Len(jobs) /\ jobs[n] \in Job /\ Len(jobs) \in Nat
    BY DEF VInv, IInv, Types
  <1>3. jobs[n].st = "queued" /\ jobs[n].kind \in {"manual", "quote"}
    BY <1>1, <1>2 DEF VInv, TicketsWait, Job
  <1>4. x.kind = jobs[n].kind /\ x.st = "running" /\ ~ x.ticket
    BY <1>2 DEF Job
  <1>5. /\ (w.pc = "analysing" /\ jobs[n].kind = "manual") \/ (w.pc = "reading" /\ jobs[n].kind = "quote")
        /\ w.job = n /\ "run" \in DOMAIN w
    <2> HIDE DEF x
    <2> DEFINE r == jobs[n].runs + 1
    <2> HIDE DEF r
    <2>1. w = [pc |-> IF jobs[n].kind = "manual" THEN "analysing" ELSE "reading", job |-> n, run |-> r]
      BY DEF r
    <2> HIDE DEF w
    <2> QED
      BY <1>3, <2>1
  <1>6. jobs' = [jobs EXCEPT ![n] = x]
    BY <1>1, <1>2 DEF Job, VInv, IInv, Types
  <1>7. at' = [at EXCEPT ![k] = w]
    BY <1>1 DEF Goto
  <1> HIDE DEF x, w
  <1>8. \A q \in Process : at'[q] = IF q = k THEN w ELSE at[q]
    BY <1>7, Zenon DEF VInv, IInv, Types
  <1>9. Len(jobs') = Len(jobs) /\ \A i \in 1..Len(jobs) : jobs'[i] = IF i = n THEN x ELSE jobs[i]
    BY <1>2, <1>6 DEF VInv, IInv, Types
  <1>10. \A q \in Process : at[q].pc \in Working => at[q].job \in 1..Len(jobs)
    BY DEF VInv, IInv, Handlers, HandlerOK
  <1>11. /\ \A i \in 1..Len(jobs) : jobs'[i].kind = jobs[i].kind
         /\ \A i \in 1..Len(jobs) : Alive(i)' <=> Alive(i)
    BY <1>3, <1>4, <1>9 DEF Alive
  <1>12. TicketsWait'
    <2>1. \A i \in 1..Len(jobs') : jobs'[i].ticket => jobs'[i].st = "queued"
      BY <1>4, <1>9 DEF VInv, TicketsWait
    <2>2. \A q \in Process : at'[q].pc = "pushing" => at'[q] = at[q] /\ at[q].job # n
      BY <1>1, <1>5, <1>8 DEF VInv, TicketsWait
    <2>3. \A q \in Process : at'[q].pc = "pushing" => jobs'[at'[q].job] = jobs[at[q].job]
      BY <1>9, <1>10, <2>2 DEF Working
    <2> QED
      BY <2>1, <2>2, <2>3 DEF VInv, TicketsWait
  <1>13. AddersLooked'
    BY <1>5, <1>8, <1>9, <1>11, <1>2 DEF VInv, AddersLooked
  <1>14. RunKinds'
    BY <1>2, <1>5, <1>8, <1>10, <1>11 DEF VInv, RunKinds, Working, Quoting
  <1>15. ASSUME ~ raced PROVE OneAlive' /\ RunsOwn' /\ ListedAll'
    <2>1. OneAlive /\ RunsOwn /\ ListedAll
      BY <1>15 DEF VInv, SidesApart
    <2>2. OneAlive'
      BY <1>9, <1>11, <2>1 DEF OneAlive
    <2>3. \A q \in Process : at'[q].pc \in Quoting /\ q # k =>
             at'[q] = at[q] /\ at[q].job # n /\ jobs[at[q].job].st = "running" /\ jobs[at[q].job].kind = "quote"
      BY <1>3, <1>8, <2>1 DEF RunsOwn, VInv, RunKinds
    <2>4. \A q \in Process : at'[q].pc \in Quoting => jobs'[at'[q].job].st = "running"
      BY <1>2, <1>4, <1>5, <1>8, <1>9, <1>10, <2>3 DEF Working, Quoting
    <2>5. \A q \in Process : at'[q].pc \in Quoting /\ at'[k].pc \in Quoting => q = k
      <3> SUFFICES ASSUME NEW q \in Process, at'[q].pc \in Quoting, at'[k].pc \in Quoting, q # k
                   PROVE  FALSE
        OBVIOUS
      <3>1. jobs[n].kind = "quote" /\ Alive(n)
        BY <1>0, <1>3, <1>5, <1>8 DEF Quoting, Alive
      <3>2. Alive(at[q].job) /\ jobs[at[q].job].kind = "quote" /\ at[q].job # n /\ at[q].job \in 1..Len(jobs)
        BY <1>10, <2>3 DEF Alive, Working, Quoting
      <3> QED
        BY <1>2, <2>1, <3>1, <3>2 DEF OneAlive
    <2>6. RunsOwn'
      BY <1>8, <2>1, <2>4, <2>5 DEF RunsOwn
    <2>7. ListedAll'
      BY <1>0, <1>5, <1>8, <2>1 DEF ListedAll
    <2> QED BY <2>2, <2>6, <2>7
  <1>16. SidesApart'
    BY <1>0, <1>15, Zenon DEF SidesApart
  <1> QED
    BY <1>12, <1>13, <1>14, <1>16 DEF Sides

\* Without two recalculations side by side the variants deleted are all there
\* are, and the new set stands alone.
LEMMA ReplaceSides == ASSUME VInv, NEW k \in Worker, Replace(k) PROVE Sides'
  <1> DEFINE w == [pc |-> "replaced", job |-> at[k].job, run |-> at[k].run, seen |-> at[k].seen]
  <1>0. k \in Process /\ at[k].pc = "listed" /\ UNCHANGED <<jobs, raced>>
    BY DEF Process, Replace
  <1>1. at' = [at EXCEPT ![k] = w]
    BY DEF Replace, Goto
  <1>2. w.pc = "replaced" /\ w.job = at[k].job /\ "run" \in DOMAIN w
    OBVIOUS
  <1> HIDE DEF w
  <1>3. \A q \in Process : at'[q] = IF q = k THEN w ELSE at[q]
    BY <1>1, Zenon DEF VInv, IInv, Types
  <1>4. TicketsWait' /\ AddersLooked'
    BY <1>0, <1>2, <1>3 DEF VInv, TicketsWait, AddersLooked, Alive
  <1>5. RunKinds'
    BY <1>0, <1>2, <1>3 DEF VInv, RunKinds, Quoting
  <1>6. ASSUME ~ raced PROVE OneAlive' /\ RunsOwn' /\ ListedAll'
    <2>1. OneAlive /\ RunsOwn /\ ListedAll
      BY <1>6 DEF VInv, SidesApart
    <2>2. OneAlive' /\ RunsOwn'
      BY <1>0, <1>2, <1>3, <2>1 DEF OneAlive, RunsOwn, Alive, Quoting
    <2>3. variants' = {<<at[k].job, at[k].run>>}
      BY <1>0, <2>1 DEF Replace, ListedAll
    <2>4. \A q \in Process : at'[q].pc # "listed"
      BY <1>0, <1>2, <1>3, <2>1 DEF RunsOwn, Quoting
    <2> QED BY <2>2, <2>3, <2>4 DEF ListedAll
  <1>7. SidesApart'
    BY <1>0, <1>6, Zenon DEF SidesApart
  <1> QED
    BY <1>4, <1>5, <1>7 DEF Sides

LEMMA InitVInv == Init => VInv
  <1> SUFFICES ASSUME Init PROVE VInv
    OBVIOUS
  <1>1. Len(jobs) = 0 /\ \A p \in Process : at[p].pc = "idle"
    BY DEF Init, Idle
  <1>2. TicketsWait /\ AddersLooked /\ RunKinds /\ OneAlive /\ RunsOwn
    BY <1>1 DEF TicketsWait, AddersLooked, RunKinds, OneAlive, RunsOwn, Quoting
  <1>3. variants = {} \/ variants = {<<0, 0>>}
    BY DEF Init
  <1>4. ListedAll
    BY <1>1, <1>3 DEF ListedAll
  <1> QED
    BY <1>2, <1>4, InitIInv DEF VInv, SidesApart

LEMMA NextVInv == VInv /\ [Next]_vars => VInv'
  <1> SUFFICES ASSUME VInv, [Next]_vars PROVE VInv'
    OBVIOUS
  <1>1. CASE UNCHANGED vars
    <2>1. UNCHANGED <<jobs, variants, at, raced>>
      BY <1>1 DEF vars
    <2>2. TicketsWait' /\ AddersLooked' /\ RunKinds'
      BY <2>1 DEF VInv, TicketsWait, AddersLooked, RunKinds, Alive
    <2>3. (OneAlive <=> OneAlive') /\ (RunsOwn <=> RunsOwn') /\ (ListedAll <=> ListedAll')
      BY <2>1 DEF OneAlive, RunsOwn, ListedAll, Alive
    <2>4. SidesApart'
      BY <2>1, <2>3, Zenon DEF VInv, SidesApart
    <2>5. Sides'
      BY <2>2, <2>4 DEF Sides
    <2>6. IInv'
      BY NextIInv DEF VInv
    <2> QED
      BY <2>5, <2>6 DEF VInv, Sides
  <1>2. ASSUME NEW m \in Manager, ManagerStep(m) PROVE Sides'
    BY <1>2, QuietSides, CommitSides DEF ManagerStep, Process
  <1>3. ASSUME NEW k \in Worker, WorkerStep(k) \/ Fail(k) PROVE Sides'
    <2>1. k \in Process
      BY DEF Process
    <2>2. CASE Announce(k) \/ AskForQuote(k) \/ ReadCase(k) \/ ListVariants(k)
      BY <2>1, <2>2, QuietSides
    <2> QED
      BY <1>3, <2>2, ClaimSides, AnalyseSides, ReplaceSides, FinishQuoteSides, FailSides DEF WorkerStep
  <1>4. ASSUME NEW p \in Process, Add(p) \/ Push(p) \/ Refused(p) \/ Crash(p) PROVE Sides'
    BY <1>4, AddSides, PushSides, RefusedSides, QuietSides
  <1>5. ASSUME NEW n \in DOMAIN jobs, Recover(n) PROVE Sides'
    BY <1>5, RecoverSides
  <1>6. CASE Next
    <2>1. Sides'
      BY <1>2, <1>3, <1>4, <1>5, <1>6 DEF Next
    <2>2. IInv'
      BY NextIInv DEF VInv
    <2> QED
      BY <2>1, <2>2 DEF VInv, Sides
  <1> QED
    BY <1>1, <1>6

\* Without two recalculations side by side the case shows one set of variants
\* (replace_project_variants), for any number of requests, workers and faults:
\* whoever adds a recalculation has found every other one ended, so one run at
\* a time lists the variants, and what it deletes is all there is.
THEOREM OneSetShown == Spec => []OneSetOfVariants
  <1>1. VInv => OneSetOfVariants
    <2> SUFFICES ASSUME VInv, ~ raced PROVE Cardinality(variants) =< 1
      BY Zenon DEF OneSetOfVariants
    <2>1. \A x, y \in variants : x = y
      BY DEF VInv, SidesApart, ListedAll
    <2>2. CASE variants = {}
      BY <2>2, FS_EmptySet
    <2>3. ASSUME NEW x \in variants PROVE Cardinality(variants) =< 1
      <3>1. variants = {x}
        BY <2>1
      <3>2. Cardinality({x}) = 1
        BY FS_Singleton, Zenon
      <3> QED
        BY <3>1, <3>2
    <2> QED
      BY <2>2, <2>3
  <1> QED
    BY <1>1, InitVInv, NextVInv, PTL DEF Spec
-----------------------------------------------------------------------------
(* Types. *)

\* What the types say beyond the invariants above.
Shape ==
    /\ finals \subseteq {"ready_for_export", "approved"}
    /\ variants \subseteq Nat \X Nat
    /\ history[1].since = 0
    /\ \A p \in Process : at[p] \in Where

TInv == VInv /\ Shape

LEMMA InitTInv == Init => TInv
  <1> SUFFICES ASSUME Init PROVE TInv
    OBVIOUS
  <1>1. PICK c \in Begun : history = <<Row("none", c.status, 0)>>
    BY DEF Init
  <1>2. history[1].since = 0
    BY <1>1 DEF Row
  <1>3. \A p \in Process : at[p] \in Where
    BY DEF Init, Where
  <1>4. variants \subseteq Nat \X Nat
    BY DEF Init
  <1> QED
    BY <1>2, <1>3, <1>4, InitVInv DEF Init, TInv, Shape

\* A handler goes to a place of its own.
LEMMA GoesTo ==
  ASSUME TInv, NEW p \in Process, NEW w \in Where, Goto(p, w)
  PROVE  \A q \in Process : at'[q] \in Where
  <1>1. at = [q \in Process |-> at[q]]
    BY DEF TInv, VInv, IInv, Types
  <1>2. \A q \in Process : at'[q] = IF q = p THEN w ELSE at[q]
    BY <1>1, Zenon DEF Goto
  <1> QED
    BY <1>2 DEF TInv, Shape

LEMMA IdleIsAPlace == Idle \in Where
  BY DEF Where

\* The first row of the history stays.
LEMMA FirstRowKept ==
  ASSUME TInv, \/ UNCHANGED history
               \/ \E from, to, since : history' = Append(history, Row(from, to, since))
  PROVE  history'[1].since = 0
  <1>1. history \in Seq(HistoryRow) /\ Len(history) >= 1
    BY DEF TInv, VInv, IInv, Types, HistoryTellsStatus
  <1> QED
    BY <1>1 DEF TInv, Shape

LEMMA LookShape ==
  ASSUME TInv, NEW p \in Process, NEW kind \in {"manual", "quote"}, NEW by \in {"request", "analysis"},
         Look(p, kind, by)
  PROVE  \A q \in Process : at'[q] \in Where
  <1>1. Len(jobs) \in Nat
    BY DEF TInv, VInv, IInv, Types
  <1> DEFINE v == [pc |-> "adding", kind |-> kind, by |-> by, known |-> Len(jobs)]
  <1>2. v \in Where
    BY <1>1 DEF Where
  <1>3. Goto(p, Idle) \/ Goto(p, v)
    BY DEF Look, Missing
  <1> HIDE DEF v
  <1> QED
    BY <1>2, <1>3, GoesTo, IdleIsAPlace

LEMMA ManagerShape == ASSUME TInv, NEW m \in Manager, ManagerStep(m) PROVE Shape'
  <1>0. m \in Process
    BY DEF Process
  <1>1. Len(history) \in Nat /\ status \in Status
    BY DEF TInv, VInv, IInv, Types
  <1>2. ASSUME NEW to \in HumanTarget, Decide(m, to) PROVE Shape'
    <2> DEFINE w == [pc |-> "decided", from |-> status, to |-> to, since |-> Len(history)]
    <2>1. w \in Where
      BY <1>1 DEF Where, HumanTarget
    <2>2. Goto(m, w) /\ UNCHANGED <<history, finals, variants>>
      BY <1>2 DEF Decide, caseVars
    <2> HIDE DEF w
    <2> QED
      BY <1>0, <2>1, <2>2, GoesTo DEF TInv, Shape
  <1>3. ASSUME NEW kind \in {"manual", "quote"}, Ask(m, kind) PROVE Shape'
    BY <1>0, <1>3, LookShape DEF Ask, caseVars, TInv, Shape
  <1>4. CASE Commit(m)
    <2>1. Len(jobs') \in Nat
      <3>1. jobs' \in Seq(Job)
        BY <1>4, CommitStep DEF IInv, Types, TInv, VInv
      <3> QED
        BY <3>1
    <2> DEFINE w == [pc |-> "pushing", job |-> Len(jobs')]
    <2>2. w \in Where
      BY <2>1 DEF Where
    <2>3. Goto(m, Idle) \/ Goto(m, w)
      BY <1>4 DEF Commit
    <2> HIDE DEF w
    <2>4. \A q \in Process : at'[q] \in Where
      BY <1>0, <2>2, <2>3, GoesTo, IdleIsAPlace
    <2>5. history'[1].since = 0
      BY <1>4, FirstRowKept DEF Commit, Move
    <2>6. finals' \subseteq {"ready_for_export", "approved"} /\ UNCHANGED variants
      BY <1>4 DEF Commit, Effects, TInv, Shape
    <2> QED
      BY <2>4, <2>5, <2>6 DEF TInv, Shape
  <1>5. CASE SaveFinal(m)
    BY <1>5 DEF SaveFinal, TInv, Shape
  <1> QED
    BY <1>2, <1>3, <1>4, <1>5 DEF ManagerStep

\* What a run holds: its job and its number.
LEMMA RunIsNumbered ==
  ASSUME TInv, NEW k \in Worker, at[k].pc \in Working
  PROVE  /\ k \in Process /\ at[k] \in Where /\ at[k].job \in Nat
         /\ at[k].pc \in {"analysing", "reading", "read", "listed", "replaced"} => at[k].run \in Nat
  <1>1. k \in Process
    BY DEF Process
  <1>2. at[k].job \in 1..Len(jobs)
    BY <1>1, JobOfHandler DEF TInv, VInv
  <1>3. HandlerOK(at[k], history, Len(jobs))
    BY <1>1 DEF TInv, VInv, IInv, Handlers
  <1> QED
    BY <1>1, <1>2, <1>3 DEF TInv, Shape, HandlerOK, VInv, IInv, Types

LEMMA WorkerShape == ASSUME TInv, NEW k \in Worker, WorkerStep(k) \/ Fail(k) PROVE Shape'
  <1>0. k \in Process
    BY DEF Process
  <1>1. status \in Status /\ Len(history) \in Nat
    BY DEF TInv, VInv, IInv, Types
  <1>2. CASE Claim(k)
    <2>1. PICK n \in DOMAIN jobs :
            Goto(k, [pc |-> IF jobs[n].kind = "manual" THEN "analysing" ELSE "reading",
                     job |-> n, run |-> jobs[n].runs + 1])
      BY <1>2 DEF Claim
    <2> DEFINE w == [pc |-> IF jobs[n].kind = "manual" THEN "analysing" ELSE "reading",
                     job |-> n, run |-> jobs[n].runs + 1]
    <2>0. jobs[n] \in Job /\ n \in Nat
      BY DEF TInv, VInv, IInv, Types
    <2>2. n \in Nat /\ jobs[n].runs + 1 \in Nat
      BY <2>0 DEF Job
    <2>3. w \in Where
      BY <2>2 DEF Where
    <2>4. Goto(k, w)
      BY <2>1
    <2> HIDE DEF w
    <2> QED
      BY <1>0, <1>2, <2>3, <2>4, GoesTo DEF Claim, caseVars, TInv, Shape
  <1>3. CASE Analyse(k)
    <2> DEFINE w == [pc |-> "announcing", job |-> at[k].job]
    <2>1. w \in Where
      BY <1>3, RunIsNumbered DEF Analyse, Working, Where
    <2>2. (Goto(k, w) \/ Goto(k, Idle)) /\ UNCHANGED <<caseVars, variants>>
      BY <1>3 DEF Analyse
    <2> HIDE DEF w
    <2> QED
      BY <1>0, <2>1, <2>2, GoesTo, IdleIsAPlace DEF caseVars, TInv, Shape
  <1>4. CASE Announce(k)
    <2> DEFINE w == [pc |-> "asking", job |-> at[k].job]
    <2>1. w \in Where
      BY <1>4, RunIsNumbered DEF Announce, Working, Where
    <2>2. Goto(k, w) /\ UNCHANGED <<history, finals, variants>>
      BY <1>4 DEF Announce
    <2> HIDE DEF w
    <2> QED
      BY <1>0, <2>1, <2>2, GoesTo DEF TInv, Shape
  <1>5. CASE AskForQuote(k)
    BY <1>0, <1>5, LookShape DEF AskForQuote, caseVars, TInv, Shape
  <1>6. CASE ReadCase(k)
    <2> DEFINE w == [pc |-> "read", job |-> at[k].job, run |-> at[k].run,
                     seen |-> status, since |-> Len(history)]
    <2>1. w \in Where
      BY <1>1, <1>6, RunIsNumbered DEF ReadCase, Working, Where
    <2>2. Goto(k, w) /\ UNCHANGED <<caseVars, variants>>
      BY <1>6 DEF ReadCase
    <2> HIDE DEF w
    <2> QED
      BY <1>0, <2>1, <2>2, GoesTo DEF caseVars, TInv, Shape
  <1>7. CASE ListVariants(k)
    <2> DEFINE w == [pc |-> "listed", job |-> at[k].job, run |-> at[k].run,
                     seen |-> at[k].seen, since |-> at[k].since, old |-> variants]
    <2>1. at[k].seen \in Status /\ at[k].since \in Nat /\ at[k].job \in Nat /\ at[k].run \in Nat
      <3>1. at[k] \in Where /\ at[k].pc = "read"
        BY <1>7, RunIsNumbered DEF ListVariants, Working
      <3> QED
        BY <3>1 DEF Where, Idle
    <2>2. w \in Where
      BY <2>1 DEF Where, TInv, Shape
    <2>3. Goto(k, w) /\ UNCHANGED <<caseVars, variants>>
      BY <1>7 DEF ListVariants
    <2> HIDE DEF w
    <2> QED
      BY <1>0, <2>2, <2>3, GoesTo DEF caseVars, TInv, Shape
  <1>8. CASE Replace(k)
    <2> DEFINE w == [pc |-> "replaced", job |-> at[k].job, run |-> at[k].run, seen |-> at[k].seen]
    <2>1. at[k].seen \in Status /\ at[k].job \in Nat /\ at[k].run \in Nat
      <3>1. at[k] \in Where /\ at[k].pc = "listed"
        BY <1>8, RunIsNumbered DEF Replace, Working
      <3> QED
        BY <3>1 DEF Where, Idle
    <2>2. w \in Where
      BY <2>1 DEF Where
    <2>3. Goto(k, w) /\ UNCHANGED finals
      BY <1>8 DEF Replace
    <2>4. variants' \subseteq Nat \X Nat
      BY <1>8, <2>1 DEF Replace, TInv, Shape
    <2>5. history'[1].since = 0
      BY <1>8, FirstRowKept DEF Replace, Move
    <2> HIDE DEF w
    <2> QED
      BY <1>0, <2>2, <2>3, <2>4, <2>5, GoesTo DEF TInv, Shape
  <1>9. CASE FinishQuote(k) \/ Fail(k)
    <2>1. Goto(k, Idle) /\ UNCHANGED <<caseVars, variants>>
      BY <1>9 DEF FinishQuote, Fail
    <2> QED
      BY <1>0, <2>1, GoesTo, IdleIsAPlace DEF caseVars, TInv, Shape
  <1> QED
    BY <1>2, <1>3, <1>4, <1>5, <1>6, <1>7, <1>8, <1>9 DEF WorkerStep

LEMMA HandlerShape ==
  ASSUME TInv, NEW p \in Process, Add(p) \/ Push(p) \/ Refused(p) \/ Crash(p)
  PROVE  Shape'
  <1>1. CASE Add(p)
    <2> DEFINE w == [pc |-> "pushing", job |-> Len(jobs) + 1]
    <2>1. w \in Where
      <3>1. Len(jobs) \in Nat
        BY DEF TInv, VInv, IInv, Types
      <3> QED
        BY <3>1 DEF Where
    <2>2. Goto(p, w) /\ UNCHANGED <<caseVars, variants>>
      BY <1>1 DEF Add
    <2> HIDE DEF w
    <2> QED
      BY <2>1, <2>2, GoesTo DEF caseVars, TInv, Shape
  <1>2. CASE Push(p) \/ Refused(p) \/ Crash(p)
    <2>1. Goto(p, Idle) /\ UNCHANGED <<caseVars, variants>>
      BY <1>2 DEF Push, Refused, Crash
    <2> QED
      BY <2>1, GoesTo, IdleIsAPlace DEF caseVars, TInv, Shape
  <1> QED
    BY <1>1, <1>2

LEMMA NextTInv == TInv /\ [Next]_vars => TInv'
  <1> SUFFICES ASSUME TInv, [Next]_vars PROVE TInv'
    OBVIOUS
  <1>1. VInv'
    BY NextVInv DEF TInv
  <1>2. Shape'
    <2>1. CASE UNCHANGED vars
      BY <2>1 DEF vars, caseVars, TInv, Shape
    <2>2. ASSUME NEW n \in DOMAIN jobs, Recover(n) PROVE Shape'
      BY <2>2 DEF Recover, caseVars, TInv, Shape
    <2> QED
      BY <2>1, <2>2, ManagerShape, WorkerShape, HandlerShape DEF Next
  <1> QED
    BY <1>1, <1>2 DEF TInv

\* What the parts of a case refer to exists: rows of the history rest on earlier
\* ones, handlers work on rows of analysis_jobs, and only a queued job has a
\* payload in the lane (Claim takes it, apart from the recovery's requeue).
THEOREM CaseTypes == Spec => []TypeOK
  <1>1. TInv => TypeOK
    <2> SUFFICES ASSUME TInv PROVE TypeOK
      OBVIOUS
    <2>1. IInv /\ Types
      BY DEF TInv, VInv, IInv
    <2>2. \A i \in DOMAIN history : history[i].to \in Status /\ history[i].since < i
      <3> SUFFICES ASSUME NEW i \in DOMAIN history
                   PROVE  history[i].to \in Status /\ history[i].since < i
        OBVIOUS
      <3>1. i \in 1..Len(history) /\ Len(history) \in Nat
        BY <2>1 DEF Types
      <3>2. history[i] \in HistoryRow
        BY <2>1 DEF Types
      <3>3. history[i].to \in Status
        BY <3>2 DEF HistoryRow
      <3>4. CASE i = 1
        BY <3>3, <3>4 DEF TInv, Shape
      <3>5. CASE i # 1
        <4>1. history[i].since \in 1..(i - 1)
          BY <2>1, <3>1, <3>5 DEF IInv, Order
        <4> QED
          BY <3>1, <3>3, <4>1
      <3> QED
        BY <3>4, <3>5
    <2>3. \A n \in DOMAIN jobs : jobs[n].ticket => jobs[n].st = "queued"
      <3>1. DOMAIN jobs = 1..Len(jobs)
        BY <2>1 DEF Types
      <3> QED
        BY <3>1 DEF TInv, VInv, TicketsWait
    <2>4. ASSUME NEW p \in Process, "job" \in DOMAIN at[p] PROVE at[p].job \in DOMAIN jobs
      <3>1. at[p].pc \in Working
        BY <2>4 DEF TInv, Shape, Where, Idle, Working
      <3> QED
        BY <2>1, <3>1, JobOfHandler DEF Types
    <2>5. ASSUME NEW p \in Process, "since" \in DOMAIN at[p] PROVE at[p].since \in DOMAIN history
      <3>1. at[p].pc \in {"decided", "read", "listed"}
        BY <2>5 DEF TInv, Shape, Where, Idle
      <3>2. HandlerOK(at[p], history, Len(jobs))
        BY <2>1 DEF IInv, Handlers
      <3> QED
        BY <2>1, <3>1, <3>2 DEF HandlerOK, Types
    <2> QED
      BY <2>1, <2>2, <2>3, <2>4, <2>5 DEF TypeOK, Types, TInv, Shape
  <1> QED
    BY <1>1, InitTInv, NextTInv, PTL DEF Spec
=============================================================================
