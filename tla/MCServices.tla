----------------------------- MODULE MCServices -----------------------------
(***************************************************************************)
(* One instance of each service that works beside the two job lanes. As    *)
(* they share no state, a behaviour is about one of them, chosen in the    *)
(* initial state; the others rest.                                         *)
(***************************************************************************)
EXTENDS Services, WorkTypeCatalog

CONSTANTS m1, m2, k1, k2    \* managers and workers of the cases

VARIABLE part

MCManager == {m1, m2}
MCWorker == {k1, k2}
\* Two lists that create_pricebook makes beside the first, all with its margins.
MCBook(hourly, hours, vat) ==
    [hourly |-> hourly, hours |-> hours, margins |-> <<12, 18, 28>>, vat |-> vat]
MCBooks == [b1 |-> MCBook(520, 300, 21), b2 |-> MCBook(615, 300, 12), b3 |-> MCBook(480, 250, 21)]
MCMaterials == <<[norm |-> 13, price |-> 777], [norm |-> 5, price |-> 1291]>>
MCAnalyses == {[area |-> 0, materials |-> <<>>], [area |-> 12, materials |-> MCMaterials]}
MCMixedTypes == {"electrical-installation", "window-installation"}
MCGlobal == [area |-> TRUE, access |-> FALSE]
MCNote(shown) ==
    [code |-> "note", prefixed |-> TRUE, vision |-> shown, status |-> "active", required |-> TRUE, options |-> {"o1"}]
\* The last one is refused after its setting and its override are committed.
MCSave == [
    pinned |-> [status |-> "enabled", list |-> "own",
                overrides |-> <<[code |-> "access", status |-> "required"]>>, extras |-> <<>>],
    extended |-> [status |-> "disabled", list |-> "none", overrides |-> <<>>, extras |-> <<MCNote(FALSE)>>],
    refused |-> [status |-> "inherited", list |-> "none",
                 overrides |-> <<[code |-> "area", status |-> "hidden"]>>, extras |-> <<MCNote(TRUE)>>]]
MCBegun == {[status |-> s, analysed |-> TRUE] : s \in {"intake", "proposal_ready", "sent"}}

ServicesInit ==
    /\ part \in {"cases", "events", "settings", "sessions", "items", "audit", "files", "quotes", "tenants"}
    /\ Init /\ EventsInit /\ CacheInit /\ SessionsInit /\ WorkItemInit /\ AuditInit /\ Files!Init /\ QuotesInit
    /\ TenantInit
    /\ part # "cases" => status = "intake"
    /\ part # "quotes" => books = {} /\ mixing
    /\ part # "tenants" => setting = NoSetting

ServicesNext ==
    /\ UNCHANGED part
    /\ \/ part = "cases" /\ Next
            /\ UNCHANGED <<eventVars, cacheVars, sessionVars, itemVars, auditVars, fileVars, quoteVars, tenantVars>>
       \/ part = "events" /\ EventsNext
            /\ UNCHANGED <<vars, cacheVars, sessionVars, itemVars, auditVars, fileVars, quoteVars, tenantVars>>
       \/ part = "settings" /\ CacheNext
            /\ UNCHANGED <<vars, eventVars, sessionVars, itemVars, auditVars, fileVars, quoteVars, tenantVars>>
       \/ part = "sessions" /\ SessionsNext
            /\ UNCHANGED <<vars, eventVars, cacheVars, itemVars, auditVars, fileVars, quoteVars, tenantVars>>
       \/ part = "items" /\ WorkItemNext
            /\ UNCHANGED <<vars, eventVars, cacheVars, sessionVars, auditVars, fileVars, quoteVars, tenantVars>>
       \/ part = "audit" /\ AuditNext
            /\ UNCHANGED <<vars, eventVars, cacheVars, sessionVars, itemVars, fileVars, quoteVars, tenantVars>>
       \/ part = "files" /\ Files!Next
            /\ UNCHANGED <<vars, eventVars, cacheVars, sessionVars, itemVars, auditVars, quoteVars, tenantVars>>
       \/ part = "quotes" /\ QuotesNext
            /\ UNCHANGED <<vars, eventVars, cacheVars, sessionVars, itemVars, auditVars, fileVars, tenantVars>>
       \/ part = "tenants" /\ TenantNext
            /\ UNCHANGED <<vars, eventVars, cacheVars, sessionVars, itemVars, auditVars, fileVars, quoteVars>>

ServicesSpec ==
    /\ ServicesInit
    /\ [][ServicesNext]_<<part, vars, eventVars, cacheVars, sessionVars, itemVars, auditVars,
                      fileVars, quoteVars, tenantVars>>
    /\ Fairness /\ EventsFairness /\ Files!Fairness
=============================================================================
