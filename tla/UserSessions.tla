---------------------------- MODULE UserSessions ----------------------------
(***************************************************************************)
(* The sessions of one user: logins, refreshes, revocations, logouts and   *)
(* changes of the password, each a request that reads and later writes.    *)
(*                                                                         *)
(* A login or refresh issues a pair of tokens, access and refresh, under   *)
(* one number; the row of the session names the newest pair.  A request    *)
(* keeps the rows it has loaded (the ORM's identity map), and an UPDATE    *)
(* writes the columns it changed, whatever the row has become.  Times of   *)
(* expiry are left out: no token here is old.  The Redis copy of           *)
(* revoked_tokens is written after the commit and only ever says           *)
(* "revoked", so it adds nothing to the table.                             *)
(***************************************************************************)
EXTENDS Integers, FiniteSets

CONSTANTS
    Session,        \* user_sessions.id
    Handler,        \* requests in progress
    MaxCalls        \* bound: requests

ASSUME SessionsAssumption == MaxCalls \in Nat

VARIABLES
    session,        \* session -> its row: st, and pair, the number of its newest pair
    revoked,        \* revoked_tokens.jti: <<"access" or "refresh", pair>>
    version,        \* users.token_version
    password,       \* which password is current: how many were set before
    issued,         \* history: the pairs handed out
    ended,          \* history: sessions whose revocation was committed
    lapped,         \* history: a change was committed over another change
    place,          \* handler -> where its request is
    calls           \* requests so far

rowVars == <<session, revoked, version, password>>
sessionVars == <<rowVars, issued, ended, lapped, place, calls>>

Free == [pc |-> "free"]
Both(n) == {<<"access", n>>, <<"refresh", n>>}
Pair(n) == CHOOSE t \in issued : t.pair = n
Fresh == Cardinality(issued) + 1

SessionsInit ==
    /\ session = [s \in Session |-> [st |-> "none", pair |-> 0]]
    /\ revoked = {}
    /\ version = 0
    /\ password = 0
    /\ issued = {}
    /\ ended = {}
    /\ lapped = FALSE
    /\ place = [h \in Handler |-> Free]
    /\ calls = 0

Turn(h, where) == place' = [place EXCEPT ![h] = where]
Call(h) == place[h] = Free /\ calls < MaxCalls /\ calls' = calls + 1
Leave(h) == Turn(h, Free) /\ UNCHANGED <<rowVars, issued, ended, lapped, calls>>

\* A pair for session s, and the claims it carries; pw is the password that
\* the login of its session was made with.
Issue(s, ver, pw) == issued' = issued \cup {[pair |-> Fresh, sid |-> s, ver |-> ver, pw |-> pw]}

-----------------------------------------------------------------------------
\* login, also the first half of change_password.

CheckPassword(h, purpose) ==
    /\ Call(h)
    /\ Turn(h, [pc |-> "checked", purpose |-> purpose, ver |-> version, pw |-> password])
    /\ UNCHANGED <<rowVars, issued, ended, lapped>>

CreateSession(h, s) ==
    /\ place[h].pc = "checked"
    /\ session[s].st = "none"
    /\ session' = [session EXCEPT ![s] = [st |-> "active", pair |-> Fresh]]
    /\ Issue(s, place[h].ver, place[h].pw)
    /\ Turn(h, IF place[h].purpose = "login" THEN Free ELSE [pc |-> "selecting", ver |-> place[h].ver])
    /\ UNCHANGED <<revoked, version, password, ended, lapped, calls>>

-----------------------------------------------------------------------------
\* refresh_with_status.

CheckToken(h, t) ==
    /\ Call(h)
    /\ <<"refresh", t.pair>> \notin revoked
    /\ Turn(h, [pc |-> "known", pair |-> t.pair])
    /\ UNCHANGED <<rowVars, issued, ended, lapped>>

CheckSession(h) ==
    LET t == Pair(place[h].pair) IN
    /\ place[h].pc = "known"
    /\ session[t.sid] = [st |-> "active", pair |-> t.pair]
    /\ Turn(h, [pc |-> "found", pair |-> t.pair])
    /\ UNCHANGED <<rowVars, issued, ended, lapped, calls>>

\* Slip: the version is taken from the user and not compared with the token's.
TakeVersion(h) ==
    /\ place[h].pc = "found"
    /\ Turn(h, [pc |-> "rotating", pair |-> place[h].pair, ver |-> version])
    /\ UNCHANGED <<rowVars, issued, ended, lapped, calls>>

CheckVersion(h) ==
    /\ place[h].pc = "found"
    /\ Pair(place[h].pair).ver = version
    /\ Turn(h, [pc |-> "rotating", pair |-> place[h].pair, ver |-> version])
    /\ UNCHANGED <<rowVars, issued, ended, lapped, calls>>

\* The old refresh token is spent and the row names the new pair.  revoked_at was
\* loaded as NULL and is set to None again, so the UPDATE does not write it.  A
\* token that was spent since the check is found and passed over; one that is
\* spent between that look and the INSERT makes the request fail (RequestFails).
Rotate(h) ==
    LET t == Pair(place[h].pair) IN
    /\ place[h].pc = "rotating"
    /\ revoked' = revoked \cup {<<"refresh", t.pair>>}
    /\ session' = [session EXCEPT ![t.sid].pair = Fresh]
    /\ Issue(t.sid, place[h].ver, t.pw)
    /\ Turn(h, Free)
    /\ UNCHANGED <<version, password, ended, lapped, calls>>

-----------------------------------------------------------------------------
\* revoke_session and logout, which revokes the tokens it was given as well.

\* t is the pair a logout was called with; its number is 0 for a revocation.
BeginRevoke(h, s, n) ==
    /\ Call(h)
    /\ session[s].st = "active"
    /\ Turn(h, [pc |-> "revoking", sid |-> s, pair |-> session[s].pair, own |-> n])
    /\ UNCHANGED <<rowVars, issued, ended, lapped>>

EndOfRevoke(h) == Turn(h, IF place[h].own = 0 THEN Free ELSE [pc |-> "closing", own |-> place[h].own])

\* The tokens the row named when it was loaded, and the row.
RevokeSession(h) ==
    /\ place[h].pc = "revoking"
    /\ revoked' = revoked \cup Both(place[h].pair)
    /\ session' = [session EXCEPT ![place[h].sid].st = "revoked"]
    /\ ended' = ended \cup {place[h].sid}
    /\ EndOfRevoke(h)
    /\ UNCHANGED <<version, password, issued, lapped, calls>>

\* Slip: the tokens are revoked whether or not the session is.
LogoutTokensOnly(h, t) ==
    /\ Call(h)
    /\ Turn(h, [pc |-> "closing", own |-> t.pair])
    /\ UNCHANGED <<rowVars, issued, ended, lapped>>

\* A logout whose session is over already goes on to its tokens.
BeginLogoutOnly(h, t) ==
    /\ Call(h)
    /\ session[t.sid].st = "revoked"
    /\ Turn(h, [pc |-> "closing", own |-> t.pair])
    /\ UNCHANGED <<rowVars, issued, ended, lapped>>

\* Two commits in the code, refresh and then access; the session is over by
\* then, and with it both are refused anyway.
RevokeToken(h) ==
    /\ place[h].pc = "closing"
    /\ revoked' = revoked \cup Both(place[h].own)
    /\ Turn(h, Free)
    /\ UNCHANGED <<session, version, password, issued, ended, lapped, calls>>

-----------------------------------------------------------------------------
\* change_password, after its login; and the reset by an administrator.

BeginReset(h) ==
    /\ Call(h)
    /\ Turn(h, [pc |-> "selecting", ver |-> version])
    /\ UNCHANGED <<rowVars, issued, ended, lapped>>

\* revoke_all_user_sessions: the active sessions, and those of their tokens
\* that are not in revoked_tokens.
SelectSessions(h) ==
    LET open == {s \in Session : session[s].st = "active"} IN
    /\ place[h].pc = "selecting"
    /\ Turn(h, [pc |-> "changing", ver |-> place[h].ver, sids |-> open,
                jtis |-> UNION {Both(session[s].pair) : s \in open} \ revoked])
    /\ UNCHANGED <<rowVars, issued, ended, lapped, calls>>

\* One commit: password, version as loaded plus one, sessions, tokens.  An
\* INSERT of a token that was revoked since makes it fail (RequestFails).
ChangePassword(h) ==
    /\ place[h].pc = "changing"
    /\ place[h].jtis \cap revoked = {}
    /\ password' = password + 1
    /\ version' = place[h].ver + 1
    /\ lapped' = (lapped \/ version # place[h].ver)
    /\ revoked' = revoked \cup place[h].jtis
    /\ session' = [s \in Session |-> IF s \in place[h].sids THEN [session[s] EXCEPT !.st = "revoked"] ELSE session[s]]
    /\ ended' = ended \cup place[h].sids
    /\ Turn(h, Free)
    /\ UNCHANGED <<issued, calls>>

\* A check fails, an INSERT meets its key, the audit row cannot be written, or
\* the process dies: the transaction is rolled back.
RequestFails(h) == place[h] # Free /\ Leave(h)

SessionsNext ==
    \/ \E h \in Handler :
        \/ CheckPassword(h, "login") \/ CheckPassword(h, "change")
        \/ \E s \in Session : CreateSession(h, s)
        \/ \E t \in issued : CheckToken(h, t)
        \/ CheckSession(h) \/ CheckVersion(h) \/ Rotate(h)
        \/ \E s \in Session : BeginRevoke(h, s, 0)
        \/ \E t \in issued : BeginRevoke(h, t.sid, t.pair) \/ BeginLogoutOnly(h, t)
        \/ RevokeSession(h) \/ RevokeToken(h)
        \/ BeginReset(h) \/ SelectSessions(h) \/ ChangePassword(h)
        \/ RequestFails(h)

SessionsSpec == SessionsInit /\ [][SessionsNext]_sessionVars

-----------------------------------------------------------------------------
(* Properties. *)

\* Types: numbers of pairs were issued, and a session that is in the table has one.
SessionsTypeOK ==
    /\ \A s \in Session : session[s].st \in {"none", "active", "revoked"}
    /\ \A s \in Session : session[s].st # "none" => \E t \in issued : t.sid = s /\ t.pair = session[s].pair
    /\ revoked \subseteq {"access", "refresh"} \X (1..Cardinality(issued))
    /\ version \in Nat /\ version =< password

\* get_user_by_token, and the checks of refresh_with_status.
AccessAccepted(t) ==
    <<"access", t.pair>> \notin revoked /\ session[t.sid].st = "active" /\ t.ver = version
RefreshAccepted(t) ==
    <<"refresh", t.pair>> \notin revoked /\ session[t.sid] = [st |-> "active", pair |-> t.pair] /\ t.ver = version

\* Over is over: once the revocation of a session is committed none of its
\* tokens is accepted, and once a password is changed only sessions that were
\* opened with it are, whichever refresh, login or revocation was under way.  Two
\* changes made side by side may end up with one version number (lapped).
EndedSessionsAreOver ==
    \A t \in issued : AccessAccepted(t) \/ RefreshAccepted(t) =>
        t.sid \notin ended /\ (t.pw = password \/ lapped)

\* Nobody is locked out of a session that goes on: the pair its row names can
\* be refreshed, whatever refreshes with older pairs came in between.
OpenSessionCanRefresh ==
    \A s \in Session : session[s].st = "active" /\ Pair(session[s].pair).ver = version =>
        RefreshAccepted(Pair(session[s].pair))
=============================================================================
