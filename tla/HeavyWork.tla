----------------------------- MODULE HeavyWork -----------------------------
(***************************************************************************)
(* What the heavy lane works for: exports to render and photos to resize.  *)
(* Their rows, their files in storage, the requests that create them, the  *)
(* workers that run their payloads, the reconciliation of a starting       *)
(* worker, and the removal of deleted photos and expired exports.          *)
(*                                                                         *)
(* Both kinds of row go waiting (pending, uploaded), working (generating,  *)
(* processing), done (completed, ready) or failed; "removed" is a deleted  *)
(* photo or an export without a row.  A payload is a ticket here; the lane *)
(* itself, which returns the ticket of a dead worker, is in HeavyQueue.    *)
(***************************************************************************)
EXTENDS Integers, FiniteSets

CONSTANTS
    Export,         \* project_exports
    Photo,          \* project_photos
    Worker,         \* heavy task slots
    MaxItems,       \* bound: items created
    MaxStarts,      \* bound: starts of workers
    MaxFaults       \* bound: failures, deaths, lost leases and lost Redis data

VARIABLES
    row,            \* item -> status of its row
    leaving,        \* items pending deletion, or expired
    files,          \* storage objects: <<item, "original" or "result">>
    request,        \* item -> where the request that creates it is
    tickets,        \* item -> payloads in the lane
    at,             \* worker -> its run
    missing,        \* items a starting worker found no payload of
    cleaned,        \* items whose files the removal has deleted
    starts, faults, \* starts and faults so far
    lost,           \* history: items whose payload was lost and not looked for since
    mixed           \* history: items that were run by two workers at once

vars == <<row, leaving, files, request, tickets, at, missing, cleaned, starts, faults, lost, mixed>>

Item == Export \cup Photo
Idle == [pc |-> "idle"]
Unfinished == {"waiting", "working"}
Original(i) == <<i, "original">>
Result(i) == <<i, "result">>

Init ==
    /\ row = [i \in Item |-> "none"]
    /\ leaving = {}
    /\ files = {}
    /\ request = [i \in Item |-> "none"]
    /\ tickets = [i \in Item |-> 0]
    /\ at = [w \in Worker |-> Idle]
    /\ missing = {}
    /\ cleaned = {}
    /\ starts = 0 /\ faults = 0
    /\ lost = {}
    /\ mixed = {}

Fault == faults < MaxFaults /\ faults' = faults + 1
Asks(i, pc) == request' = [request EXCEPT ![i] = pc]
Goto(w, pc) == at' = [at EXCEPT ![w].pc = pc]
Stop(w) == at' = [at EXCEPT ![w] = Idle]
SetRow(i, st) == row' = [row EXCEPT ![i] = st]
Ticket(i) == tickets' = [tickets EXCEPT ![i] = @ + 1]

-----------------------------------------------------------------------------
\* The requests.

Room == Cardinality({i \in Item : request[i] # "none"}) < MaxItems

\* create_multipart_photo stores the original before there is a row.
SaveOriginal(p) ==
    /\ request[p] = "none"
    /\ Room
    /\ files' = files \cup {Original(p)}
    /\ Asks(p, "saved")
    /\ UNCHANGED <<row, leaving, tickets, at, missing, cleaned, starts, faults, lost, mixed>>

Insert(i) ==
    /\ request[i] = IF i \in Photo THEN "saved" ELSE "none"
    /\ i \in Export => Room
    /\ SetRow(i, "waiting")
    /\ Asks(i, "pushing")
    /\ UNCHANGED <<leaving, files, tickets, at, missing, cleaned, starts, faults, lost, mixed>>

\* The row of a photo cannot be written: its original is removed again.
InsertFails(p) ==
    /\ request[p] = "saved"
    /\ Fault
    /\ files' = files \ {Original(p)}
    /\ Asks(p, "none")
    /\ UNCHANGED <<row, leaving, tickets, at, missing, cleaned, starts, lost, mixed>>

Push(i) ==
    /\ request[i] = "pushing"
    /\ Ticket(i)
    /\ Asks(i, "over")
    /\ UNCHANGED <<row, leaving, files, at, missing, cleaned, starts, faults, lost, mixed>>

\* The lane refuses: the row fails.  The failure of a transition's effect is
\* only logged, and its export waits.
PushFails(i) ==
    /\ request[i] = "pushing"
    /\ Fault
    /\ Asks(i, "over")
    /\ \/ SetRow(i, "failed") /\ UNCHANGED lost
       \/ i \in Export /\ lost' = lost \cup {i} /\ UNCHANGED row
    /\ UNCHANGED <<leaving, files, tickets, at, missing, cleaned, starts, mixed>>

\* The process of the request dies.
RequestDies(i) ==
    /\ request[i] \in {"saved", "pushing"}
    /\ Fault
    /\ Asks(i, "over")
    /\ lost' = lost \cup {i}
    /\ UNCHANGED <<row, leaving, files, tickets, at, missing, cleaned, starts, mixed>>

-----------------------------------------------------------------------------
\* A run of a payload: process_export_by_id and process_photo_variants_by_id.

Take(w) ==
    /\ at[w] = Idle
    /\ \E i \in Item :
        /\ tickets[i] > 0
        /\ tickets' = [tickets EXCEPT ![i] = @ - 1]
        /\ at' = [at EXCEPT ![w] = [pc |-> "taken", item |-> i]]
        /\ mixed' = IF \E v \in Worker : at[v] # Idle /\ at[v].item = i THEN mixed \cup {i} ELSE mixed
    /\ UNCHANGED <<row, leaving, files, request, missing, cleaned, starts, faults, lost>>

\* What there is to run: the row is unfinished, and a photo has its source.
\* A photo that is leaving is not found, nor is a row that is gone.
Found(i) == row[i] # "removed" /\ ~(i \in Photo /\ i \in leaving)

Load(w) ==
    LET i == at[w].item IN
    /\ at[w].pc = "taken"
    /\ CASE Found(i) /\ row[i] \in Unfinished /\ (i \in Photo => Original(i) \in files) ->
                Goto(w, "loaded") /\ UNCHANGED row
         [] Found(i) /\ row[i] \in Unfinished /\ ~(i \in Photo => Original(i) \in files) ->
                Stop(w) /\ SetRow(i, "failed")
         [] Found(i) /\ row[i] = "done" /\ i \in Export /\ Result(i) \notin files ->
                Stop(w) /\ SetRow(i, "failed")
         [] OTHER -> Stop(w) /\ UNCHANGED row
    /\ UNCHANGED <<leaving, files, request, tickets, missing, cleaned, starts, faults, lost, mixed>>

\* A write of the run: an export without a row raises, and the run ends.
Writes(w, st, pc) ==
    LET i == at[w].item IN
    IF i \in Export /\ row[i] = "removed"
    THEN Stop(w) /\ UNCHANGED row
    ELSE /\ row' = IF row[i] = "removed" THEN row ELSE [row EXCEPT ![i] = st]
         /\ IF pc = "idle" THEN Stop(w) ELSE Goto(w, pc)

Start(w) ==
    /\ at[w].pc = "loaded"
    /\ Writes(w, "working", "working")
    /\ UNCHANGED <<leaving, files, request, tickets, missing, cleaned, starts, faults, lost, mixed>>

WriteResult(w) ==
    /\ at[w].pc = "working"
    /\ files' = files \cup {Result(at[w].item)}
    /\ Goto(w, "written")
    /\ UNCHANGED <<row, leaving, request, tickets, missing, cleaned, starts, faults, lost, mixed>>

\* Rendering or resizing fails, before anything is written.
BuildFails(w) ==
    /\ at[w].pc = "working"
    /\ Fault
    /\ Goto(w, "failing")
    /\ UNCHANGED <<row, leaving, files, request, tickets, missing, cleaned, starts, lost, mixed>>

\* Slip: a write is not verified.
WriteUnverified(w) ==
    /\ at[w].pc = "working"
    /\ Fault
    /\ Goto(w, "written")
    /\ UNCHANGED <<row, leaving, files, request, tickets, missing, cleaned, starts, lost, mixed>>

\* The write fails, or its result is not there: what was written is deleted.
WriteFails(w) ==
    /\ at[w].pc = "working"
    /\ Fault
    /\ Goto(w, "spoiled")
    /\ UNCHANGED <<row, leaving, files, request, tickets, missing, cleaned, starts, lost, mixed>>

DeleteSpoiled(w) ==
    /\ at[w].pc = "spoiled"
    /\ files' = files \ {Result(at[w].item)}
    /\ Goto(w, "failing")
    /\ UNCHANGED <<row, leaving, request, tickets, missing, cleaned, starts, faults, lost, mixed>>

Complete(w) ==
    /\ at[w].pc = "written"
    /\ Writes(w, "done", "idle")
    /\ UNCHANGED <<leaving, files, request, tickets, missing, cleaned, starts, faults, lost, mixed>>

MarkFailed(w) ==
    /\ at[w].pc = "failing"
    /\ Writes(w, "failed", "idle")
    /\ UNCHANGED <<leaving, files, request, tickets, missing, cleaned, starts, faults, lost, mixed>>

WorkerStep(w) ==
    Take(w) \/ Load(w) \/ Start(w) \/ WriteResult(w) \/ DeleteSpoiled(w) \/ Complete(w) \/ MarkFailed(w)

\* The database fails under the run.  The lease is acknowledged like any
\* other, so the payload is gone and the row stays as it is.
RunFails(w) ==
    /\ at[w] # Idle
    /\ Fault
    /\ Stop(w)
    /\ lost' = lost \cup {at[w].item}
    /\ UNCHANGED <<row, leaving, files, request, tickets, missing, cleaned, starts, mixed>>

\* The worker dies, or shuts down: its lease expires and the lane returns the ticket.
WorkerDies(w) ==
    /\ at[w] # Idle
    /\ Fault
    /\ Ticket(at[w].item)
    /\ Stop(w)
    /\ UNCHANGED <<row, leaving, files, request, missing, cleaned, starts, lost, mixed>>

\* The lease runs out under a run that goes on.
LeaseRunsOut(w) ==
    /\ at[w] # Idle
    /\ Fault
    /\ Ticket(at[w].item)
    /\ UNCHANGED <<row, leaving, files, request, at, missing, cleaned, starts, lost, mixed>>

\* Redis loses its data: the lane is empty, the runs go on.
LoseRedis ==
    /\ Fault
    /\ tickets' = [i \in Item |-> 0]
    /\ lost' = lost \cup {i \in Item : tickets[i] > 0}
    /\ UNCHANGED <<row, leaving, files, request, at, missing, cleaned, starts, mixed>>

-----------------------------------------------------------------------------
\* A starting worker: _reconcile_startup_exports and _reconcile_startup_photos.

Carried(i) == tickets[i] > 0 \/ \E w \in Worker : at[w] # Idle /\ at[w].item = i

Inspect ==
    /\ starts < MaxStarts
    /\ starts' = starts + 1
    /\ missing' = {i \in Item : ~Carried(i)}
    /\ UNCHANGED <<row, leaving, files, request, tickets, at, cleaned, faults, lost, mixed>>

\* Slip: only rows nobody has begun are listed.
ListsWaiting(i) == row[i] = "waiting" /\ ~(i \in Photo /\ i \in leaving)

\* list_incomplete and list_incomplete_photos.
Lists(i) == row[i] \in Unfinished /\ ~(i \in Photo /\ i \in leaving)

\* The incomplete rows without a payload in the snapshot get one.
Reenqueue ==
    /\ missing # {}
    /\ tickets' = [i \in Item |-> IF i \in missing /\ Lists(i) THEN tickets[i] + 1 ELSE tickets[i]]
    /\ lost' = lost \ missing
    /\ missing' = {}
    /\ UNCHANGED <<row, leaving, files, request, at, cleaned, starts, faults, mixed>>

-----------------------------------------------------------------------------
\* Removal: cleanup_pending_deletes and delete_expired_exports.

\* A user deletes the photo, or the time of the export is over.
Leave(i) ==
    /\ row[i] \notin {"none", "removed"}
    /\ i \notin leaving
    /\ leaving' = leaving \cup {i}
    /\ UNCHANGED <<row, files, request, tickets, at, missing, cleaned, starts, faults, lost, mixed>>

\* A failed row has no key of a result any more.
RemoveFiles(i) ==
    /\ i \in leaving \ cleaned
    /\ i \in Export => row[i] \in {"done", "failed"}
    /\ files' = files \ ({Original(i)} \cup IF row[i] = "failed" THEN {} ELSE {Result(i)})
    /\ cleaned' = cleaned \cup {i}
    /\ UNCHANGED <<row, leaving, request, tickets, at, missing, starts, faults, lost, mixed>>

RemoveRow(i) ==
    /\ i \in cleaned
    /\ row[i] # "removed"
    /\ SetRow(i, "removed")
    /\ UNCHANGED <<leaving, files, request, tickets, at, missing, cleaned, starts, faults, lost, mixed>>

Next ==
    \/ \E p \in Photo : SaveOriginal(p) \/ InsertFails(p)
    \/ \E i \in Item : Insert(i) \/ Push(i) \/ PushFails(i) \/ RequestDies(i)
                        \/ Leave(i) \/ RemoveFiles(i) \/ RemoveRow(i)
    \/ \E w \in Worker : WorkerStep(w) \/ BuildFails(w) \/ WriteFails(w)
                          \/ RunFails(w) \/ WorkerDies(w) \/ LeaseRunsOut(w)
    \/ LoseRedis
    \/ Inspect
    \/ Reenqueue

\* Requests and runs that have begun go on, free workers take payloads, and a
\* starting worker finishes its reconciliation.
Fairness ==
    /\ WF_vars(\E i \in Item : Push(i))
    /\ \A w \in Worker : WF_vars(WorkerStep(w))
    /\ WF_vars(Reenqueue)

Spec == Init /\ [][Next]_vars /\ Fairness

-----------------------------------------------------------------------------
(* Properties. *)

\* Types, and a photo that is not leaving has its original.
TypeOK ==
    /\ \A i \in Item : row[i] \in {"none", "waiting", "working", "done", "failed", "removed"}
    /\ \A i \in Item : tickets[i] \in Nat
    /\ \A w \in Worker : at[w] # Idle => row[at[w].item] # "none"
    /\ \A p \in Photo \ leaving : row[p] # "none" => Original(p) \in files

\* A completed export and a ready photo have their file (_write_generated_export
\* verifies what it wrote, the variants are written before "ready"), until they
\* are removed.  Only a second run beside the first, which a lost lease or a
\* reconciliation that races an enqueue can start, may delete it again.
DoneHasResult ==
    \A i \in Item \ (leaving \cup mixed) : row[i] = "done" => Result(i) \in files

\* In progress, with nothing excusing it: its payload is not lost, and it is
\* not a photo that is being deleted.
Unsettled(i) == row[i] \in Unfinished /\ i \notin lost /\ i \notin Photo \cap leaving

\* No export or photo stays in progress for ever: it ends, or a photo is
\* deleted.  Its payload may be lost (the database failed and the lease was
\* acknowledged all the same, Redis lost its data, the request died), and then
\* the next worker that starts makes up for it.
UnfinishedSettles == (\E i \in Item : Unsettled(i)) ~> (\A i \in Item : ~Unsettled(i))
=============================================================================
