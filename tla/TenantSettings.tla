--------------------------- MODULE TenantSettings ---------------------------
(***************************************************************************)
(* The settings a company makes for one work type: a status and a price    *)
(* list, overrides of the catalogue's parameters, and parameters of its    *)
(* own.  A save writes them in three transactions, and checks the second   *)
(* and the third part only after the first is committed; the cache of the  *)
(* company is invalidated at the end of a save that gets so far.  A reader *)
(* takes the cache's tag, reads the three parts in three statements, and   *)
(* caches what they compose to.                                            *)
(*                                                                         *)
(* A session writes only the columns it changed: a column whose new value  *)
(* is the one it had loaded keeps whatever is stored.  Labels, bounds and  *)
(* defaults are left out, a parameter's code stands for its slug too, and  *)
(* Redis errors and expiry are in ConfigCache.                             *)
(***************************************************************************)
EXTENDS Integers, Sequences, FiniteSets, Functions

CONSTANTS
    Admin, Viewer,      \* requests that save the settings, and that read them
    Global,             \* the catalogue's parameters -> whether they are required
    DefaultList,        \* the work type's own price list
    Save,               \* the saves, by name, and their bodies
    MaxPuts             \* bound: saves

VARIABLES
    setting,        \* the stored setting, or NoSetting
    overrides,      \* parameter -> its stored override
    extras,         \* code -> the stored parameter of the company
    scope,          \* the tag of the company's cached configurations
    served,         \* the cached configuration of the work type, with its tag
    saving,         \* where each save is, with its body and what it loaded
    viewing,        \* where each read is, with its tag and what it read
    torn,           \* history: a save ended after a commit and before it invalidated
    puts            \* saves so far

tenantVars == <<setting, overrides, extras, scope, served, saving, viewing, torn, puts>>

NoSetting == [version |-> 0]
Away == [pc |-> "away"]
Uncached == [tag |-> -1]

\* Every body names a usable price list, or none: others are refused before
\* anything is written.
ASSUME TenantSettingsConstants ==
    /\ MaxPuts \in Nat
    /\ \A name \in DOMAIN Save :
        /\ DOMAIN Save[name] = {"status", "list", "overrides", "extras"}
        /\ Save[name].status \in {"inherited", "enabled", "disabled"}

SaveAt(a, where) == saving' = [saving EXCEPT ![a] = where]
Reach(a, pc) == SaveAt(a, [saving[a] EXCEPT !.pc = pc, !.loaded = NoSetting])
BodyOf(a) == Save[saving[a].body]
Codes(list) == {list[n].code : n \in DOMAIN list}
Distinct(list) == Cardinality(Codes(list)) = Len(list)
RowFor(list, code) == list[CHOOSE n \in DOMAIN list : list[n].code = code]

OverridesFit(body) == Distinct(body.overrides) /\ Codes(body.overrides) \subseteq DOMAIN Global

\* validate_tenant_extra_parameter_definition: the prefix of a company's own
\* codes, and nothing the analysis would have to find on photos.
ValidExtra(extra) == extra.prefixed /\ ~ extra.vision

ExtrasFit(body) ==
    /\ Distinct(body.extras)
    /\ Codes(body.extras) \cap DOMAIN Global = {}
    /\ \A n \in DOMAIN body.extras : ValidExtra(body.extras[n])

\* The rows a first save inserts.
NewSetting(body) == [version |-> 1, status |-> body.status, list |-> body.list]
NewOverride(payload) == [version |-> 1, status |-> payload.status]
\* An option's row is known by the save that inserted it.
OptionRows(payload, number) == {[code |-> o, save |-> number] : o \in payload.options}
NewExtra(payload, number) ==
    [version |-> 1, status |-> payload.status, required |-> payload.required,
     options |-> OptionRows(payload, number)]

\* The company has no setting yet, or the one that a first save left.
TenantInit ==
    /\ \/ setting = NoSetting /\ overrides = <<>> /\ extras = <<>>
       \/ \E name \in DOMAIN Save :
            LET body == Save[name]
            IN  /\ OverridesFit(body) /\ ExtrasFit(body)
                /\ setting = NewSetting(body)
                /\ overrides = [c \in Codes(body.overrides) |-> NewOverride(RowFor(body.overrides, c))]
                /\ extras = [c \in Codes(body.extras) |-> NewExtra(RowFor(body.extras, c), 0)]
    /\ scope = 0
    /\ served = Uncached
    /\ saving = [a \in Admin |-> Away]
    /\ viewing = [v \in Viewer |-> Away]
    /\ torn = FALSE
    /\ puts = 0

\* A column is written when its new value differs from the loaded one.
Written(column, new, loaded, stored) ==
    IF new[column] = loaded[column] THEN stored[column] ELSE new[column]

-----------------------------------------------------------------------------
(* upsert_tenant_setting. *)

BeginPut(a, name) ==
    /\ saving[a] = Away
    /\ puts < MaxPuts
    /\ SaveAt(a, [pc |-> "checked", number |-> puts + 1, body |-> name, loaded |-> setting])
    /\ puts' = puts + 1
    /\ UNCHANGED <<setting, overrides, extras, scope, served, viewing, torn>>

\* The setting and its commit.  Of two that found none, the second breaks the
\* constraint of one setting for each company and work type.
PutSetting(a) ==
    LET body == BodyOf(a)
        loaded == saving[a].loaded
        first == loaded = NoSetting
    IN  /\ saving[a].pc = "checked"
        /\ IF first /\ setting # NoSetting
           THEN SaveAt(a, Away) /\ UNCHANGED setting
           ELSE /\ setting' = IF first THEN NewSetting(body) ELSE
                        [version |-> loaded.version + 1,
                         status |-> Written("status", body, loaded, setting),
                         list |-> Written("list", body, loaded, setting)]
                /\ Reach(a, "setting")
        /\ UNCHANGED <<overrides, extras, scope, served, viewing, torn, puts>>

\* A save is refused, or dies, with a part of it committed.
Abandon(a) == SaveAt(a, Away) /\ torn' = TRUE

\* The overrides are checked, then the stored ones loaded.
CheckOverrides(a) ==
    LET body == BodyOf(a)
    IN  /\ saving[a].pc = "setting"
        /\ IF ~ OverridesFit(body)
           THEN Abandon(a)
           ELSE /\ IF body.overrides = <<>>
                   THEN Reach(a, "overridden")
                   ELSE SaveAt(a, [saving[a] EXCEPT !.pc = "overrides", !.loaded = overrides])
                /\ UNCHANGED torn
        /\ UNCHANGED <<setting, overrides, extras, scope, served, viewing, puts>>

\* An override another save inserted since breaks the constraint.
Collides(body, loaded, stored) == \E code \in Codes(body) : code \notin DOMAIN loaded /\ code \in DOMAIN stored

OverrideRow(a, code) ==
    LET loaded == saving[a].loaded
        payload == RowFor(BodyOf(a).overrides, code)
    IN  IF code \notin DOMAIN loaded
        THEN NewOverride(payload)
        ELSE [version |-> loaded[code].version + 1,
              status |-> Written("status", payload, loaded[code], overrides[code])]

\* Parameters the body does not name keep their override.
PutOverrides(a) ==
    LET body == BodyOf(a)
    IN  /\ saving[a].pc = "overrides"
        /\ IF Collides(body.overrides, saving[a].loaded, overrides)
           THEN Abandon(a) /\ UNCHANGED overrides
           ELSE /\ overrides' = [code \in DOMAIN overrides \cup Codes(body.overrides) |->
                        IF code \in Codes(body.overrides) THEN OverrideRow(a, code) ELSE overrides[code]]
                /\ Reach(a, "overridden")
                /\ UNCHANGED torn
        /\ UNCHANGED <<setting, extras, scope, served, viewing, puts>>

CheckExtras(a) ==
    LET body == BodyOf(a)
    IN  /\ saving[a].pc = "overridden"
        /\ IF ~ ExtrasFit(body)
           THEN Abandon(a)
           ELSE /\ IF body.extras = <<>>
                   THEN Reach(a, "stored")
                   ELSE SaveAt(a, [saving[a] EXCEPT !.pc = "extras", !.loaded = extras])
                /\ UNCHANGED torn
        /\ UNCHANGED <<setting, overrides, extras, scope, served, viewing, puts>>

\* The options it had loaded are deleted, the body's are inserted.
ExtraRow(a, code) ==
    LET loaded == saving[a].loaded
        payload == RowFor(BodyOf(a).extras, code)
    IN  IF code \notin DOMAIN loaded
        THEN NewExtra(payload, saving[a].number)
        ELSE [version |-> loaded[code].version + 1,
              status |-> Written("status", payload, loaded[code], extras[code]),
              required |-> Written("required", payload, loaded[code], extras[code]),
              options |-> (extras[code].options \ loaded[code].options)
                            \cup OptionRows(payload, saving[a].number)]

\* An option another save inserted since breaks the constraint of one row for a code.
OptionsCollide(a, code) ==
    /\ code \in DOMAIN saving[a].loaded
    /\ \E row \in extras[code].options \ saving[a].loaded[code].options :
        row.code \in RowFor(BodyOf(a).extras, code).options

PutExtras(a) ==
    LET body == BodyOf(a)
    IN  /\ saving[a].pc = "extras"
        /\ IF Collides(body.extras, saving[a].loaded, extras)
              \/ \E code \in Codes(body.extras) : OptionsCollide(a, code)
           THEN Abandon(a) /\ UNCHANGED extras
           ELSE /\ extras' = [code \in DOMAIN extras \cup Codes(body.extras) |->
                        IF code \in Codes(body.extras) THEN ExtraRow(a, code) ELSE extras[code]]
                /\ Reach(a, "stored")
                /\ UNCHANGED torn
        /\ UNCHANGED <<setting, overrides, scope, served, viewing, puts>>

\* Slip: the entry is deleted and the tag stays.
InvalidateEntryOnly(a) ==
    /\ saving[a].pc = "stored"
    /\ served' = Uncached
    /\ torn' = FALSE
    /\ SaveAt(a, Away)
    /\ UNCHANGED <<setting, overrides, extras, scope, viewing, puts>>

\* invalidate_tenant_effective_cache, after which every stored row is read anew.
Invalidate(a) ==
    /\ saving[a].pc = "stored"
    /\ scope' = scope + 1
    /\ served' = Uncached
    /\ torn' = FALSE
    /\ SaveAt(a, Away)
    /\ UNCHANGED <<setting, overrides, extras, viewing, puts>>

\* The process of a save dies.
Dies(a) ==
    /\ saving[a].pc \in {"setting", "overrides", "overridden", "extras", "stored"}
    /\ Abandon(a)
    /\ UNCHANGED <<setting, overrides, extras, scope, served, viewing, puts>>

-----------------------------------------------------------------------------
(* What the three parts compose to (_compose_effective_configuration). *)

\* A setting that disables the work type, or a price list of the company's own.
EnabledState(s) == s = NoSetting \/ s.status # "disabled"
ListOf(s) == IF s = NoSetting \/ s.list = "none" THEN DefaultList ELSE s.list

GlobalParameter(code, os) ==
    LET status == IF code \in DOMAIN os THEN os[code].status ELSE "none"
    IN  [code |-> code, enabled |-> status # "hidden",
         required |-> status = "required" \/ (Global[code] /\ status # "optional")]

ExtraParameter(code, es) ==
    [code |-> code, enabled |-> es[code].status = "active", required |-> es[code].required,
     options |-> {row.code : row \in es[code].options}]

\* Overrides and parameters without a setting are refused.
Attached(s, os, es) == s # NoSetting \/ DOMAIN os \cup DOMAIN es = {}

Compose(s, os, es) ==
    [enabled |-> EnabledState(s), list |-> ListOf(s),
     parameters |-> {GlobalParameter(code, os) : code \in DOMAIN Global}
                        \cup {ExtraParameter(code, es) : code \in DOMAIN es}]

-----------------------------------------------------------------------------
(* get_effective_work_type. *)

View(v, where) == viewing' = [viewing EXCEPT ![v] = where]

\* A hit is answered; a miss keeps the tag.
TakeScope(v) ==
    /\ viewing[v] = Away
    /\ served.tag # scope
    /\ View(v, [pc |-> "tag", tag |-> scope])
    /\ UNCHANGED <<setting, overrides, extras, scope, served, saving, torn, puts>>

ReadSetting(v) ==
    /\ viewing[v].pc = "tag"
    /\ View(v, [pc |-> "setting", tag |-> viewing[v].tag, setting |-> setting])
    /\ UNCHANGED <<setting, overrides, extras, scope, served, saving, torn, puts>>

ReadOverrides(v) ==
    /\ viewing[v].pc = "setting"
    /\ View(v, [pc |-> "overrides", tag |-> viewing[v].tag, setting |-> viewing[v].setting,
                overrides |-> overrides])
    /\ UNCHANGED <<setting, overrides, extras, scope, served, saving, torn, puts>>

\* The last statement; what does not fit together is an error and is not cached.
ReadExtras(v) ==
    /\ viewing[v].pc = "overrides"
    /\ View(v, IF Attached(viewing[v].setting, viewing[v].overrides, extras)
               THEN [pc |-> "composed", tag |-> viewing[v].tag,
                     value |-> Compose(viewing[v].setting, viewing[v].overrides, extras)]
               ELSE Away)
    /\ UNCHANGED <<setting, overrides, extras, scope, served, saving, torn, puts>>

\* set_cached, under the tag taken first.
Serve(v) ==
    /\ viewing[v].pc = "composed"
    /\ served' = [tag |-> viewing[v].tag, value |-> viewing[v].value]
    /\ View(v, Away)
    /\ UNCHANGED <<setting, overrides, extras, scope, saving, torn, puts>>

TenantNext ==
    \/ \E a \in Admin :
        \/ \E name \in DOMAIN Save : BeginPut(a, name)
        \/ PutSetting(a) \/ CheckOverrides(a) \/ PutOverrides(a) \/ CheckExtras(a)
        \/ PutExtras(a) \/ Invalidate(a) \/ Dies(a)
    \/ \E v \in Viewer :
        TakeScope(v) \/ ReadSetting(v) \/ ReadOverrides(v) \/ ReadExtras(v) \/ Serve(v)

TenantSpec == TenantInit /\ [][TenantNext]_tenantVars

-----------------------------------------------------------------------------
(* Properties. *)

TenantTypeOK ==
    /\ DOMAIN overrides \subseteq DOMAIN Global
    /\ DOMAIN extras \cap DOMAIN Global = {}
    /\ served.tag =< scope
    /\ \A v \in Viewer : viewing[v] # Away => viewing[v].tag =< scope

\* Some save has committed a part and not yet invalidated.
Unfinished == \E a \in Admin : saving[a].pc \in {"setting", "overrides", "overridden", "extras", "stored"}

\* The configuration served from the cache is the one the stored rows compose
\* to, though a reader takes three statements, a save three transactions, and
\* two saves may interleave ("tenant-effective keys are tenant-scoped and
\* invalidated on settings writes").  It holds while no save is between its
\* first commit and its invalidation, and none was refused or died there
\* (upsert_tenant_setting checks overrides and extras after that commit).
ServedIsStored ==
    (served.tag = scope /\ ~ Unfinished /\ ~ torn) => served.value = Compose(setting, overrides, extras)
=============================================================================
