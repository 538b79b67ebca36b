------------------------------ MODULE Services ------------------------------
(***************************************************************************)
(* The services that work beside the two job lanes, side by side: the case *)
(* workflow, the event stream, the settings cache, the sessions of a user, *)
(* a work item, the audit of the object storage, the exports and photos,   *)
(* the quote of a case, and the settings of a work type. They share no     *)
(* state with each other.                                                  *)
(***************************************************************************)
EXTENDS CaseWorkflow, CaseEvents, ConfigCache, UserSessions, WorkItems, StorageAudit, QuotePricing,
    TenantSettings

CONSTANTS Export, Photo, MaxItems, MaxStarts, MaxHeavyFaults

VARIABLES
    itemRow, leaving, files, request, tickets, heavyAt, missing, cleaned,
    starts, heavyFaults, lost, mixed

Files == INSTANCE HeavyWork WITH
    row <- itemRow, at <- heavyAt, faults <- heavyFaults, MaxFaults <- MaxHeavyFaults

fileVars == <<itemRow, leaving, files, request, tickets, heavyAt, missing, cleaned,
              starts, heavyFaults, lost, mixed>>

\* The type invariants of the parts.
ServicesTypeOK ==
    /\ TypeOK /\ EventsTypeOK /\ CacheTypeOK /\ SessionsTypeOK
    /\ WorkItemTypeOK /\ AuditTypeOK /\ Files!TypeOK /\ QuotesTypeOK /\ TenantTypeOK

\* A completed export and a ready photo have their result in the storage, unless
\* the photo is being deleted or a second run beside the first took it away.
DoneHasResult == Files!DoneHasResult

\* No export or photo stays in progress for ever; one whose payload was lost
\* waits for the next worker that starts.
UnfinishedSettles == Files!UnfinishedSettles
=============================================================================
