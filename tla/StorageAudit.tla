---------------------------- MODULE StorageAudit ----------------------------
(***************************************************************************)
(* The consistency audit of the storage, beside the writers whose objects  *)
(* it must spare: scan_db_vs_s3, the report, and cleanup_orphans.          *)
(*                                                                         *)
(* A writer stores an object and commits the row that refers to it later,  *)
(* at most MaxGap after; the key of a job's payload or of an export may be *)
(* written again.  The audit reads the rows, lists the objects within      *)
(* MaxScan, and deletes, one by one and without looking again, those that  *)
(* no row referred to and whose last modification is MinAge ago.           *)
(***************************************************************************)
EXTENDS Integers

CONSTANTS
    Key,            \* storage keys
    MinAge,         \* --min-orphan-age-hours
    MaxGap,         \* longest time from a write to the commit of its row
    MaxScan,        \* longest time from reading the rows to the listing
    MaxClock        \* bound: time

\* What the minimum age is for; the default is 24 hours.
ASSUME AuditAssumption ==
    /\ MinAge \in Nat /\ MaxGap \in Nat /\ MaxScan \in Nat /\ MaxClock \in Nat
    /\ MaxGap + MaxScan < MinAge

VARIABLES
    clock,          \* time
    stored,         \* keys with an object
    mtime,          \* key -> last modification of its object
    refers,         \* keys an active row refers to
    writing,        \* keys whose writer has yet to commit its row
    since,          \* key -> when its writer wrote
    audit,          \* where the audit is, with the rows and orphans it has read
    approved,       \* the orphans of the report whose token the operator holds
    sound,          \* the last report found every object
    late,           \* history: keys written since the listing
    aged,           \* history: keys whose object was older than its writing
    spoiled         \* history: such keys, deleted by the audit

storeVars == <<stored, mtime, refers, writing, since, aged>>
auditVars == <<clock, storeVars, audit, approved, sound, late, spoiled>>

NoAudit == [pc |-> "idle"]

AuditInit ==
    /\ clock = 0
    /\ stored = {}
    /\ mtime = [k \in Key |-> 0]
    /\ refers = {}
    /\ writing = {}
    /\ since = [k \in Key |-> 0]
    /\ audit = NoAudit
    /\ approved = {}
    /\ sound = FALSE
    /\ late = {}
    /\ aged = {}
    /\ spoiled = {}

-----------------------------------------------------------------------------
\* The writers.

Put(k, t) ==
    /\ k \notin writing
    /\ stored' = stored \cup {k}
    /\ mtime' = [mtime EXCEPT ![k] = t]
    /\ writing' = writing \cup {k}
    /\ since' = [since EXCEPT ![k] = clock]
    /\ late' = late \cup {k}
    /\ spoiled' = spoiled \ {k}
    /\ UNCHANGED <<clock, refers, audit, approved, sound>>

PutObject(k) == Put(k, clock) /\ aged' = aged \ {k}

\* The duplicate of a photo in the local storage: copy2 keeps the time of the
\* source.
CopyObject(k, t) == t =< clock /\ Put(k, t) /\ aged' = aged \cup {k}

ReferTo(k) ==
    /\ k \in writing
    /\ refers' = refers \cup {k}
    /\ writing' = writing \ {k}
    /\ UNCHANGED <<clock, stored, mtime, since, audit, approved, sound, late, aged, spoiled>>

\* The row is not committed; the object is removed again or not.
DropWrite(k) ==
    /\ k \in writing
    /\ writing' = writing \ {k}
    /\ \/ UNCHANGED stored
       \/ k \notin refers /\ stored' = stored \ {k}
    /\ UNCHANGED <<clock, mtime, refers, since, audit, approved, sound, late, aged, spoiled>>

\* A photo is deleted, an export fails or is gone, a payload goes back into its
\* row: the object goes as well, or is left behind.
Retire(k) ==
    /\ k \in refers \ writing
    /\ refers' = refers \ {k}
    /\ \/ UNCHANGED stored
       \/ stored' = stored \ {k}
    /\ UNCHANGED <<clock, mtime, writing, since, audit, approved, sound, late, aged, spoiled>>

-----------------------------------------------------------------------------
\* The audit.

\* A scan begins with the rows.  A cleanup follows a report that found every object.
ReadRefs(mode) ==
    /\ audit = NoAudit
    /\ mode = "cleanup" => sound
    /\ audit' = [pc |-> "read", mode |-> mode, refs |-> refers, began |-> clock]
    /\ sound' = FALSE
    /\ UNCHANGED <<clock, storeVars, approved, late, spoiled>>

Orphans == stored \ audit.refs

\* Slip: no age is asked for.
EligibleAtAnyAge(k) == TRUE

Eligible(k) == MinAge = 0 \/ clock - mtime[k] >= MinAge

\* The report; the operator may take its token.
ListForReport ==
    /\ audit.pc = "read" /\ audit.mode = "report"
    /\ sound' = (audit.refs \subseteq stored)
    /\ approved' \in {approved, Orphans}
    /\ audit' = NoAudit
    /\ UNCHANGED <<clock, storeVars, late, spoiled>>

\* The token must fit the orphans of this scan.  What is to be deleted is known now.
ListForCleanup ==
    /\ audit.pc = "read" /\ audit.mode = "cleanup"
    /\ Orphans # {} /\ approved = Orphans
    /\ audit' = [pc |-> "deleting", todo |-> {k \in Orphans : Eligible(k)}]
    /\ late' = {}
    /\ UNCHANGED <<clock, storeVars, approved, sound, spoiled>>

\* An object is deleted, or its deletion fails and is logged.
DeleteOrphan(k) ==
    /\ audit.pc = "deleting"
    /\ k \in audit.todo
    /\ audit' = [audit EXCEPT !.todo = @ \ {k}]
    /\ \/ stored' = stored \ {k} /\ spoiled' = spoiled \cup ({k} \cap (late \cup aged))
       \/ UNCHANGED <<stored, spoiled>>
    /\ UNCHANGED <<clock, mtime, refers, writing, since, aged, approved, sound, late>>

\* All is done, the token does not fit, the scan fails, or the process dies.
AuditEnds ==
    /\ audit # NoAudit
    /\ audit' = NoAudit
    /\ UNCHANGED <<clock, storeVars, approved, sound, late, spoiled>>

\* Writers and scans keep to their times.
Pass ==
    /\ clock < MaxClock
    /\ \A k \in writing : clock < since[k] + MaxGap
    /\ audit.pc = "read" => clock < audit.began + MaxScan
    /\ clock' = clock + 1
    /\ UNCHANGED <<storeVars, audit, approved, sound, late, spoiled>>

AuditNext ==
    \/ \E k \in Key :
        \/ PutObject(k) \/ \E t \in 0..MaxClock : CopyObject(k, t)
        \/ ReferTo(k) \/ DropWrite(k) \/ Retire(k)
        \/ DeleteOrphan(k)
    \/ \E mode \in {"report", "cleanup"} : ReadRefs(mode)
    \/ ListForReport \/ ListForCleanup \/ AuditEnds
    \/ Pass

AuditSpec == AuditInit /\ [][AuditNext]_auditVars

-----------------------------------------------------------------------------
(* Properties. *)

\* Types: times are not ahead of the clock.
AuditTypeOK ==
    /\ clock \in 0..MaxClock
    /\ stored \subseteq Key /\ refers \subseteq Key /\ writing \subseteq Key
    /\ mtime \in [Key -> Int] /\ since \in [Key -> Int]
    /\ \A k \in Key : mtime[k] =< clock /\ since[k] =< clock
    /\ audit.pc \in {"idle", "read", "deleting"}
    /\ audit.pc = "read" => audit.began \in 0..clock /\ audit.refs \subseteq Key
    /\ approved \subseteq Key /\ sound \in BOOLEAN
    /\ late \subseteq Key /\ aged \subseteq Key /\ spoiled \subseteq Key

\* No object that a row refers to falls to the cleanup, although the rows are
\* read before the objects are listed and nothing is looked at again before it
\* is deleted: while writers and scans keep to their times the minimum age makes
\* up for both.  It does not for an object written since the listing under a
\* key that was an orphan, nor for a copy that carries the time of its source.
ReferredIsKept == refers \subseteq stored \cup spoiled
=============================================================================
