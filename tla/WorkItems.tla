----------------------------- MODULE WorkItems -----------------------------
(***************************************************************************)
(* One work item of a case: its typed values, where each came from, and    *)
(* what the operator has confirmed.                                        *)
(*                                                                         *)
(* A request loads the item with its values, works on that copy and saves. *)
(* Nothing is locked: an UPDATE finds its row by id and writes the columns *)
(* that changed since the load, a DELETE of a row that is gone does        *)
(* nothing, and an INSERT meets the constraint on (item, parameter).       *)
(*                                                                         *)
(* Of a value only its origin is kept: `word` numbers the save in which a  *)
(* person entered it, 0 for what no person did.  The columns that say who  *)
(* confirmed and when are left out, as are the types of the values; the    *)
(* tenant's settings are those of the moment of the save.                  *)
(***************************************************************************)
EXTENDS Integers

CONSTANTS
    Parameter,      \* parameters of the work type
    Clerk,          \* requests in progress
    Required,       \* parameters that must have a value
    HasDefault,     \* parameters with a default
    Extractable,    \* vision_extractable
    Overridable,    \* manual_override_allowed
    MaxSaves        \* bound: committed saves

VARIABLES
    valueRow,       \* parameter -> its row in project_work_item_values
    itemStatus,     \* project_work_items.confirmation_status, or "none"
    enabled,        \* parameters the tenant has not disabled
    caseActive,     \* the case is in a status that allows work items
    desk,           \* clerk -> what its request has loaded
    entered,        \* history: parameter -> the save a person last entered it in, or 0
    overlaid,       \* history: the last save came over rows it had not loaded
    losses,         \* history: parameters a save like that has touched
    saves           \* committed saves

itemVars == <<valueRow, itemStatus, enabled, caseActive, desk, entered, overlaid, losses, saves>>

Source == {"manual", "vision", "imported", "default"}
NoRow == [id |-> 0, src |-> "none", st |-> "none", conf |-> 0, word |-> 0]
Present(rows) == {p \in Parameter : rows[p] # NoRow}
NotLoaded == [pc |-> "free"]

\* What a request may say of a parameter.
ValueInput == [src : {"manual", "imported", "default"}, conf : {0}] \cup [src : {"vision"}, conf : {0, 1}]
Inputs == UNION {[S -> ValueInput] : S \in SUBSET Parameter}

WorkItemInit ==
    /\ valueRow = [p \in Parameter |-> NoRow]
    /\ itemStatus = "none"
    /\ enabled = Parameter
    /\ caseActive = TRUE
    /\ desk = [c \in Clerk |-> NotLoaded]
    /\ entered = [p \in Parameter |-> 0]
    /\ overlaid = FALSE
    /\ losses = {}
    /\ saves = 0

-----------------------------------------------------------------------------
\* The pure part of the service.

InitialStatus(src) ==
    CASE src = "manual" -> "confirmed"
      [] src = "default" -> "defaulted"
      [] OTHER -> "pending"

\* _derive_work_item_confirmation_status
DeriveStatus(rows) ==
    LET sts == {rows[p].st : p \in Present(rows)} IN
    IF sts = {} THEN "pending"
    ELSE IF "pending" \notin sts THEN "confirmed"
    ELSE IF sts \subseteq {"pending", "defaulted"} THEN "pending"
    ELSE "mixed"

\* _value_input_from_existing_row: the confirmation is not carried over.
AsInput(row) == [src |-> row.src, conf |-> row.conf, word |-> row.word]

\* Slip: an imported value goes over anything that is not corrected.
WinsOverManual(in, row) ==
    \/ in.src = "manual"
    \/ in.src = "imported" /\ row.st # "corrected"
    \/ in.src = "vision" /\ row.src # "manual" /\ row.st \notin {"confirmed", "corrected"}
       /\ (row.src = "default" \/ in.conf >= row.conf)

\* Does the incoming value take the place of the row?  A default never does.
Wins(in, row) ==
    \/ in.src = "manual"
    \/ in.src = "imported" /\ row.src # "manual" /\ row.st # "corrected"
    \/ in.src = "vision" /\ row.src # "manual" /\ row.st \notin {"confirmed", "corrected"}
       /\ (row.src = "default" \/ in.conf >= row.conf)

\* n is the number of the save under way.
Worded(in, n) == [src |-> in.src, conf |-> in.conf, word |-> IF in.src = "manual" THEN n ELSE 0]

\* _merge_value_inputs
MergeValues(rows, in, n) ==
    [p \in Present(rows) \cup DOMAIN in |->
        IF p \in DOMAIN in /\ (rows[p] = NoRow \/ Wins(in[p], rows[p]))
        THEN Worded(in[p], n) ELSE AsInput(rows[p])]

\* _build_value_rows: what it refuses,
Buildable(vals) ==
    /\ DOMAIN vals \subseteq enabled
    /\ \A p \in DOMAIN vals : vals[p].src = "manual" => p \in Overridable
    /\ \A p \in DOMAIN vals : vals[p].src = "vision" => p \in Extractable
    /\ Required \cap enabled \subseteq DOMAIN vals \cup HasDefault

\* and the rows it makes, defaults included.
BuildRows(vals, n) ==
    [p \in Parameter |->
        IF p \in DOMAIN vals
        THEN [id |-> n, src |-> vals[p].src, st |-> InitialStatus(vals[p].src),
              conf |-> vals[p].conf, word |-> vals[p].word]
        ELSE IF p \in HasDefault \cap enabled
        THEN [id |-> n, src |-> "default", st |-> "defaulted", conf |-> 0, word |-> 0]
        ELSE NoRow]

-----------------------------------------------------------------------------
\* The requests.

CreateItem(in) ==
    LET n == saves + 1
        vals == [p \in DOMAIN in |-> Worded(in[p], n)] IN
    /\ itemStatus = "none"
    /\ caseActive
    /\ saves < MaxSaves
    /\ Buildable(vals)
    /\ valueRow' = BuildRows(vals, n)
    /\ itemStatus' = DeriveStatus(valueRow')
    /\ entered' = [p \in Parameter |-> valueRow'[p].word]
    /\ saves' = n
    /\ UNCHANGED <<enabled, caseActive, desk, overlaid, losses>>

LoadItem(c) ==
    /\ desk[c].pc = "free"
    /\ itemStatus # "none"
    /\ caseActive
    /\ desk' = [desk EXCEPT ![c] = [pc |-> "loaded", rows |-> valueRow, st |-> itemStatus]]
    /\ UNCHANGED <<valueRow, itemStatus, enabled, caseActive, entered, overlaid, losses, saves>>

\* A save is refused, or the process dies: nothing is committed.
GiveUp(c) ==
    /\ desk[c].pc = "loaded"
    /\ desk' = [desk EXCEPT ![c] = NotLoaded]
    /\ UNCHANGED <<valueRow, itemStatus, enabled, caseActive, entered, overlaid, losses, saves>>

Saving(c) == desk[c].pc = "loaded" /\ saves < MaxSaves

Foreign(c) == {p \in Parameter : valueRow[p] # desk[c].rows[p]}

\* The rest of a save whose rows derive to st.  The UPDATE of the item writes
\* the status only if it differs from the one that was loaded.
SaveStatus(c, st) ==
    /\ itemStatus' = IF st = desk[c].st THEN itemStatus ELSE st
    /\ overlaid' = (Foreign(c) # {} \/ itemStatus # desk[c].st)
    /\ desk' = [desk EXCEPT ![c] = NotLoaded]
    /\ saves' = saves + 1
    /\ UNCHANGED <<enabled, caseActive>>

\* The parameters in said are entered by a person; those that others have
\* changed since the load are covered by older rows.
Enter(said, lost) ==
    /\ entered' = [p \in Parameter |-> IF p \in said THEN saves + 1 ELSE entered[p]]
    /\ losses' = (losses \cup lost) \ said

ByPerson(in) == {p \in DOMAIN in : in[p].src = "manual"}

\* replace_project_work_item_values of the repository: the rows that were loaded
\* are deleted and the new ones inserted.  A row someone else has inserted
\* since stays; one for the same parameter makes the INSERT fail.
SwapRows(c, rows) ==
    LET stay == {p \in Present(valueRow) : valueRow[p].id # desk[c].rows[p].id} IN
    /\ stay \cap Present(rows) = {}
    /\ valueRow' = [p \in Parameter |-> IF p \in stay THEN valueRow[p] ELSE rows[p]]

\* Slip: the status follows the values of the request, not all there are.
UpdateValuesOwnStatus(c, in) ==
    LET vals == MergeValues(desk[c].rows, in, saves + 1)
        rows == BuildRows(vals, saves + 1) IN
    /\ Saving(c)
    /\ Buildable(vals)
    /\ SwapRows(c, rows)
    /\ SaveStatus(c, DeriveStatus([p \in Parameter |-> IF p \in DOMAIN in THEN rows[p] ELSE NoRow]))
    /\ Enter(ByPerson(in), Foreign(c))

UpdateValues(c, in) ==
    LET vals == MergeValues(desk[c].rows, in, saves + 1)
        rows == BuildRows(vals, saves + 1) IN
    /\ Saving(c)
    /\ Buildable(vals)
    /\ SwapRows(c, rows)
    /\ SaveStatus(c, DeriveStatus(rows))
    /\ Enter(ByPerson(in), Foreign(c))

\* A full replacement: what a person entered before is given up.
ReplaceValues(c, in) ==
    LET rows == BuildRows([p \in DOMAIN in |-> Worded(in[p], saves + 1)], saves + 1) IN
    /\ Saving(c)
    /\ Buildable(in)
    /\ SwapRows(c, rows)
    /\ SaveStatus(c, DeriveStatus(rows))
    /\ entered' = [p \in Parameter |-> rows[p].word]
    /\ losses' = {}

\* One value is confirmed, or corrected into a manual one.  The UPDATE must find
\* the row that was loaded and writes the columns this changes; that manual
\* values are not allowed or the parameter is disabled is no obstacle.
ConfirmValue(c, p, correct) ==
    LET mine == desk[c].rows
        want == IF correct THEN "corrected" ELSE "confirmed"
        st == IF mine[p].st = want THEN valueRow[p].st ELSE want IN
    /\ Saving(c)
    /\ p \in Present(mine)
    /\ valueRow[p].id = mine[p].id
    /\ valueRow' = [valueRow EXCEPT ![p] =
          IF correct THEN [id |-> @.id, src |-> "manual", st |-> st, conf |-> 0, word |-> saves + 1]
          ELSE [@ EXCEPT !.st = st]]
    /\ SaveStatus(c, DeriveStatus([mine EXCEPT ![p].st = want]))
    /\ Enter(IF correct THEN {p} ELSE {}, {})

\* The tenant disables a parameter; the case goes on to a status without edits.
DisableParameter(p) ==
    /\ itemStatus # "none"
    /\ enabled' = enabled \ {p}
    /\ UNCHANGED <<valueRow, itemStatus, caseActive, desk, entered, overlaid, losses, saves>>

CloseCase ==
    /\ caseActive' = FALSE
    /\ UNCHANGED <<valueRow, itemStatus, enabled, desk, entered, overlaid, losses, saves>>

WorkItemNext ==
    \/ \E in \in Inputs : CreateItem(in)
    \/ \E c \in Clerk :
        \/ LoadItem(c) \/ GiveUp(c)
        \/ \E in \in Inputs : UpdateValues(c, in) \/ ReplaceValues(c, in)
        \/ \E p \in Parameter, correct \in BOOLEAN : ConfirmValue(c, p, correct)
    \/ \E p \in Parameter : DisableParameter(p)
    \/ CloseCase

WorkItemSpec == WorkItemInit /\ [][WorkItemNext]_itemVars

-----------------------------------------------------------------------------
(* Properties. *)

\* Types, and what a row may be: a corrected value is manual, a default was not confirmed unseen.
WorkItemTypeOK ==
    /\ itemStatus \in {"none", "pending", "mixed", "confirmed"}
    /\ \A p \in Present(valueRow) :
        LET r == valueRow[p] IN
        /\ r.id \in 1..saves /\ r.src \in Source /\ r.conf \in {0, 1} /\ r.word \in 0..saves
        /\ r.st \in {"pending", "confirmed", "corrected", "defaulted"}
        /\ r.st = "corrected" => r.src = "manual"
        /\ r.word # 0 <=> r.src = "manual"

\* The status that the review queue and the pricing read is the one the values
\* have, after every save that came over nothing but what it had loaded; also
\* when an earlier save had left a wrong one.
StatusFollowsValues ==
    itemStatus # "none" /\ ~overlaid => itemStatus = DeriveStatus(valueRow)

\* What a person entered stands until a person enters something else or the
\* values are replaced, however often they are merged with what vision, imports
\* and defaults bring; unless a save came over rows it had not loaded.
OperatorsWordStands ==
    \A p \in Parameter : entered[p] # 0 /\ p \notin losses => valueRow[p].word = entered[p]
=============================================================================
