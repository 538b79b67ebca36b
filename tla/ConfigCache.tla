----------------------------- MODULE ConfigCache -----------------------------
(***************************************************************************)
(* One key of the tagged Redis cache before the tenant's catalogue          *)
(* settings: readers take the scope's tag, then the entry, then the        *)
(* database, and store what they read under the tag they had taken; a      *)
(* change of settings commits, raises the tag and deletes the entry.       *)
(* Redis errors are swallowed everywhere: a tag that cannot be read is     *)
(* "0", an invalidation that fails leaves the tag as it is.                *)
(***************************************************************************)
EXTENDS Integers

CONSTANTS
    Reader,         \* requests that read the settings
    Editor,         \* requests that change them
    MaxVersion,     \* bound: changes
    MaxErrors       \* bound: Redis errors

ASSUME ConfigCacheConstants == MaxVersion \in Nat \ {0} /\ MaxErrors \in Nat

VARIABLES
    db,             \* the version of the settings in the database
    tag,            \* the scope's tag, a counter; 0 while it does not exist
    entry,          \* the cached envelope [tag, value], or Nothing
    reader,         \* reader -> where its request is
    editor,         \* editor -> "idle", "committed" or "bumped"
    errors,         \* Redis errors so far
    covered         \* history: the newest version an invalidation has covered

cacheVars == <<db, tag, entry, reader, editor, errors, covered>>

Nothing == [tag |-> 0, value |-> 0]
Start == [pc |-> "idle"]

CacheInit ==
    /\ db = 1
    /\ tag = 0
    /\ entry = Nothing
    /\ reader = [r \in Reader |-> Start]
    /\ editor = [e \in Editor |-> "idle"]
    /\ errors = 0
    /\ covered = 1

ReaderAt(r, where) == reader' = [reader EXCEPT ![r] = where]
Error == errors < MaxErrors /\ errors' = errors + 1

-----------------------------------------------------------------------------
\* get_cache_tag.
TakeTag(r) ==
    /\ reader[r].pc = "idle"
    /\ \/ /\ ReaderAt(r, [pc |-> "tagged", tag |-> tag, sure |-> TRUE, due |-> covered])
          /\ UNCHANGED errors
       \/ /\ ReaderAt(r, [pc |-> "tagged", tag |-> 0, sure |-> FALSE, due |-> covered])
          /\ Error
    /\ UNCHANGED <<db, tag, entry, editor, covered>>

\* get_cached: only an entry of the same tag is a hit, another is deleted.
LookUp(r) ==
    /\ reader[r].pc = "tagged"
    /\ IF entry # Nothing /\ entry.tag = reader[r].tag
       THEN /\ ReaderAt(r, [pc |-> "served", value |-> entry.value, sure |-> reader[r].sure, due |-> reader[r].due])
            /\ UNCHANGED <<entry, errors>>
       ELSE /\ ReaderAt(r, [reader[r] EXCEPT !.pc = "missed"])
            /\ \/ entry' = Nothing /\ UNCHANGED errors
               \/ UNCHANGED entry /\ Error
    /\ UNCHANGED <<db, tag, editor, covered>>

Load(r) ==
    /\ reader[r].pc = "missed"
    /\ ReaderAt(r, [pc |-> "loaded", tag |-> reader[r].tag, value |-> db, sure |-> reader[r].sure, due |-> reader[r].due])
    /\ UNCHANGED <<db, tag, entry, editor, errors, covered>>

\* Slip: the entry is stored under the tag of the moment.
StoreUnderNewTag(r) ==
    /\ reader[r].pc = "loaded"
    /\ entry' = [tag |-> tag, value |-> reader[r].value]
    /\ ReaderAt(r, [pc |-> "served", value |-> reader[r].value, sure |-> reader[r].sure, due |-> reader[r].due])
    /\ UNCHANGED <<db, tag, editor, errors, covered>>

\* set_cached, under the tag taken before the database was read.
Store(r) ==
    /\ reader[r].pc = "loaded"
    /\ \/ entry' = [tag |-> reader[r].tag, value |-> reader[r].value] /\ UNCHANGED errors
       \/ UNCHANGED entry /\ Error
    /\ ReaderAt(r, [pc |-> "served", value |-> reader[r].value, sure |-> reader[r].sure, due |-> reader[r].due])
    /\ UNCHANGED <<db, tag, editor, covered>>

Done(r) ==
    /\ reader[r].pc = "served"
    /\ ReaderAt(r, Start)
    /\ UNCHANGED <<db, tag, entry, editor, errors, covered>>

\* The entry's time to live ends.
Expire ==
    /\ entry # Nothing
    /\ entry' = Nothing
    /\ UNCHANGED <<db, tag, reader, editor, errors, covered>>

-----------------------------------------------------------------------------
\* A change of the settings, and invalidate_tenant_effective_cache after it.

Change(e) ==
    /\ editor[e] = "idle"
    /\ db < MaxVersion
    /\ db' = db + 1
    /\ editor' = [editor EXCEPT ![e] = "committed"]
    /\ UNCHANGED <<tag, entry, reader, errors, covered>>

\* invalidate_cache_tag: INCR, or an error that is only logged.
RaiseTag(e) ==
    /\ editor[e] = "committed"
    /\ \/ tag' = tag + 1 /\ covered' = db /\ UNCHANGED errors
       \/ UNCHANGED <<tag, covered>> /\ Error
    /\ editor' = [editor EXCEPT ![e] = "bumped"]
    /\ UNCHANGED <<db, entry, reader>>

DeleteEntry(e) ==
    /\ editor[e] = "bumped"
    /\ \/ entry' = Nothing /\ UNCHANGED errors
       \/ UNCHANGED entry /\ Error
    /\ editor' = [editor EXCEPT ![e] = "idle"]
    /\ UNCHANGED <<db, tag, reader, covered>>

CacheNext ==
    \/ \E r \in Reader : TakeTag(r) \/ LookUp(r) \/ Load(r) \/ Store(r) \/ Done(r)
    \/ Expire
    \/ \E e \in Editor : Change(e) \/ RaiseTag(e) \/ DeleteEntry(e)

CacheSpec == CacheInit /\ [][CacheNext]_cacheVars

-----------------------------------------------------------------------------
(* Properties. *)

CacheTypeOK ==
    /\ db \in 1..MaxVersion /\ covered \in 1..db
    /\ entry = Nothing \/ entry.value \in 1..db
    /\ entry.tag =< tag
    /\ \A r \in Reader : "value" \in DOMAIN reader[r] => reader[r].value \in 1..db
    /\ \A r \in Reader : "tag" \in DOMAIN reader[r] => reader[r].tag =< tag

\* A read that begins after a change was invalidated sees that change, however
\* slow readers of older data interleave with it and whatever deletions fail
\* ("Stale, malformed, or untagged cache entries are treated as misses and
\* never served as truth").  It needs the reader to get the tag: one whose
\* tag could not be read takes "0" for it, and may serve an entry another such
\* reader left under "0".
InvalidatedIsNotServed ==
    \A r \in Reader :
        reader[r].pc = "served" /\ reader[r].sure => reader[r].value >= reader[r].due
=============================================================================
