---------------------------- MODULE OpsSessions ----------------------------
(***************************************************************************)
(* The operations console, app/api/ops.py: one table, system_config, holds *)
(* the password hash and the sessions, and requests read and write it over *)
(* connections of their own.  A SELECT is one step, a write transaction is *)
(* one step (nobody sees it before it commits), and between two steps of a *)
(* request any other request, the clock or a failure comes in.             *)
(*                                                                         *)
(* A session token is named after the request that issued it: the model    *)
(* has the request as the key of the row and as the cookie.                *)
(***************************************************************************)
EXTENDS Naturals

CONSTANTS
    Requests,  \* requests, each made once
    Passwords,
    Bootstrap, \* settings.ops_password and settings.admin_token, when set
    None,      \* no row, no cookie, no header
    TTL,       \* SESSION_TTL_SECONDS
    MaxTime    \* bound on the clock

ASSUME BootstrapAssumption == Bootstrap \subseteq Passwords
ASSUME NoneAssumption == None \notin Requests \cup Passwords
ASSUME TimeAssumption == TTL \in Nat \ {0} /\ MaxTime \in Nat

\* A row of the legacy format is the only one a login rewrites.
Hashes == [password : Passwords, legacy : BOOLEAN]
Times == 0 .. (MaxTime + TTL)

\* key: the header X-Synapse-Admin-Key or Authorization; typed: the password of
\* the login form, or the current one of the form that sets a new one.
Forms ==
    [kind : {"login"}, cookie : {None}, key : {None}, typed : Passwords, new : {None}]
    \cup
    [kind : {"view"}, cookie : Requests \cup {None}, key : Passwords \cup {None},
     typed : {None}, new : {None}]
    \cup
    [kind : {"change"}, cookie : Requests \cup {None}, key : Passwords \cup {None},
     typed : Passwords, new : Passwords]
    \cup
    [kind : {"logout"}, cookie : Requests, key : {None}, typed : {None}, new : {None}]

VARIABLES
    hash,      \* the row ops_password_hash
    sessions,  \* the expiry in each session row
    now,       \* the clock
    pc, form,  \* each request: its next step and what it brings
    dead,      \* the expired rows a request selected for deletion
    witnessed, \* history: the parts of a form that were good at some moment of
               \* the request
    revoked,   \* history: the tokens that a password change took back
    barred     \* history: requests begun with a cookie that was revoked by then

tableVars == <<hash, sessions, now>>
vars == <<tableVars, pc, form, dead, witnessed, revoked, barred>>

Steps == {"new", "verify", "pinned", "pin", "auth", "header", "current", "rotate",
          "purge", "issue", "logout", "granted", "refused", "out"}
Ended == {"granted", "refused", "out"}

TypeOK ==
    /\ hash \in Hashes \cup {None}
    /\ sessions \in [Requests -> Times \cup {None}]
    /\ now \in 0 .. MaxTime
    /\ pc \in [Requests -> Steps]
    /\ form \in [Requests -> Forms \cup {None}]
    /\ dead \in [Requests -> SUBSET Requests]
    /\ witnessed \in [Requests -> SUBSET {"cookie", "key", "typed"}]
    /\ revoked \subseteq Requests
    /\ barred \subseteq Requests

\* No row yet, or one of a release before: the startup writes none.
Init ==
    /\ hash \in Hashes \cup {None}
    /\ sessions = [r \in Requests |-> None]
    /\ now = 0
    /\ pc = [r \in Requests |-> "new"]
    /\ form = [r \in Requests |-> None]
    /\ dead = [r \in Requests |-> {}]
    /\ witnessed = [r \in Requests |-> {}]
    /\ revoked = {} /\ barred = {}

-----------------------------------------------------------------------------
(***************************************************************************)
(* Reading the table.                                                      *)
(***************************************************************************)

\* verify_ops_password: a stored hash is authoritative, the environment counts
\* only while there is none.
Authoritative(p) ==
    IF hash # None THEN hash.password = p ELSE p \in Bootstrap

Rows == {t \in Requests : sessions[t] # None}

\* Mutation: the row is found, its expiry is not looked at.
LiveWhenFound(t) == t \in Rows

\* session_token_valid.
Live(t) == t \in Rows /\ sessions[t] > now

-----------------------------------------------------------------------------
(***************************************************************************)
(* The steps of a request.                                                 *)
(***************************************************************************)

Goto(r, step) == pc' = [pc EXCEPT ![r] = step]

\* The cookie a client sends is one it was handed.
Begin(r) ==
    /\ pc[r] = "new"
    /\ \E f \in Forms :
          /\ f.cookie # None => pc[f.cookie] = "granted" /\ form[f.cookie].kind # "view"
          /\ form' = [form EXCEPT ![r] = f]
          /\ Goto(r, CASE f.kind = "login" -> "verify"
                       [] f.kind \in {"view", "change"} -> "auth"
                       [] f.kind = "logout" -> "logout")
          /\ barred' = IF f.cookie \in revoked THEN barred \cup {r} ELSE barred
    /\ UNCHANGED <<tableVars, dead, revoked>>

\* ops_login, its first read.
VerifyLogin(r) ==
    /\ pc[r] = "verify"
    /\ Goto(r, IF Authoritative(form[r].typed) THEN "pinned" ELSE "refused")
    /\ UNCHANGED <<tableVars, form, dead, revoked, barred>>

\* _persist_or_upgrade_password_hash reads the row a second time.
ReadPinned(r) ==
    /\ pc[r] = "pinned"
    /\ Goto(r, IF hash # None /\ ~hash.legacy THEN "purge" ELSE "pin")
    /\ UNCHANGED <<tableVars, form, dead, revoked, barred>>

\* ... and writes it in a transaction of its own, over whatever is there by then.
Pin(r) ==
    /\ pc[r] = "pin"
    /\ hash' = [password |-> form[r].typed, legacy |-> FALSE]
    /\ Goto(r, "purge")
    /\ UNCHANGED <<sessions, now, form, dead, revoked, barred>>

Authenticated(r) == IF form[r].kind = "view" THEN "granted" ELSE "current"

\* is_authenticated asks for the session first; an expired row that is met goes.
AuthCookie(r) ==
    /\ pc[r] = "auth"
    /\ LET t == form[r].cookie
       IN  IF t # None /\ Live(t)
           THEN Goto(r, Authenticated(r)) /\ UNCHANGED sessions
           ELSE /\ Goto(r, "header")
                /\ sessions' = [u \in Requests |-> IF u = t THEN None ELSE sessions[u]]
    /\ UNCHANGED <<hash, now, form, dead, revoked, barred>>

\* ... and for the header after it.
AuthHeader(r) ==
    /\ pc[r] = "header"
    /\ Goto(r, IF form[r].key # None /\ Authoritative(form[r].key)
               THEN Authenticated(r) ELSE "refused")
    /\ UNCHANGED <<tableVars, form, dead, revoked, barred>>

\* ops_change_password: the current password.
CheckCurrent(r) ==
    /\ pc[r] = "current"
    /\ Goto(r, IF Authoritative(form[r].typed) THEN "rotate" ELSE "refused")
    /\ UNCHANGED <<tableVars, form, dead, revoked, barred>>

\* The two entries of the new password differ, or it is too short.
RefuseNew(r) ==
    /\ pc[r] = "rotate"
    /\ Goto(r, "refused")
    /\ UNCHANGED <<tableVars, form, dead, revoked, barred>>

\* Mutation: only the caller's own session is revoked.
RotateOwn(r) ==
    /\ pc[r] = "rotate"
    /\ hash' = [password |-> form[r].new, legacy |-> FALSE]
    /\ sessions' = [t \in Requests |-> IF t = form[r].cookie THEN None ELSE sessions[t]]
    /\ revoked' = revoked \cup Rows
    /\ Goto(r, "purge")
    /\ UNCHANGED <<now, form, dead, barred>>

\* One transaction stores the new hash and deletes every session.
Rotate(r) ==
    /\ pc[r] = "rotate"
    /\ hash' = [password |-> form[r].new, legacy |-> FALSE]
    /\ sessions' = [t \in Requests |-> None]
    /\ revoked' = revoked \cup Rows
    /\ Goto(r, "purge")
    /\ UNCHANGED <<now, form, dead, barred>>

\* create_ops_session: _delete_expired_sessions selects what it will delete.
SelectExpired(r) ==
    /\ pc[r] = "purge"
    /\ dead' = [dead EXCEPT ![r] = {t \in Rows : ~Live(t)}]
    /\ Goto(r, "issue")
    /\ UNCHANGED <<tableVars, form, revoked, barred>>

\* Mutation: when something has expired, the deletion takes every session.
IssueClearing(r) ==
    /\ pc[r] = "issue"
    /\ sessions' = [t \in Requests |->
                       IF t = r THEN now + TTL
                       ELSE IF dead[r] # {} THEN None ELSE sessions[t]]
    /\ dead' = [dead EXCEPT ![r] = {}]
    /\ Goto(r, "granted")
    /\ UNCHANGED <<hash, now, form, revoked, barred>>

\* One transaction deletes those rows and inserts the new session.
Issue(r) ==
    /\ pc[r] = "issue"
    /\ sessions' = [t \in Requests |->
                       IF t = r THEN now + TTL
                       ELSE IF t \in dead[r] THEN None ELSE sessions[t]]
    /\ dead' = [dead EXCEPT ![r] = {}]
    /\ Goto(r, "granted")
    /\ UNCHANGED <<hash, now, form, revoked, barred>>

\* ops_logout asks for no proof but the token itself.
Logout(r) ==
    /\ pc[r] = "logout"
    /\ sessions' = [sessions EXCEPT ![form[r].cookie] = None]
    /\ Goto(r, "out")
    /\ UNCHANGED <<hash, now, form, dead, revoked, barred>>

\* The database stays locked past busy_timeout, the client's request is cancelled
\* or the process dies: a transaction that has not committed leaves nothing.
Fail(r) ==
    /\ pc[r] \notin Ended \cup {"new"}
    /\ Goto(r, "refused")
    /\ form' = [form EXCEPT ![r] = None]
    /\ dead' = [dead EXCEPT ![r] = {}]
    /\ UNCHANGED <<tableVars, revoked, barred>>

Tick ==
    /\ now < MaxTime
    /\ now' = now + 1
    /\ UNCHANGED <<hash, sessions, pc, form, dead, revoked, barred>>

\* What of r's form is good in this state.
Good(r) ==
    {part \in {"cookie", "key", "typed"} :
        /\ pc[r] \notin Ended \cup {"new"}
        /\ form[r][part] # None
        /\ IF part = "cookie" THEN sessions[form[r].cookie] # None
                                   /\ sessions[form[r].cookie] > now
           ELSE IF hash # None THEN hash.password = form[r][part]
           ELSE form[r][part] \in Bootstrap}

Step ==
    \/ \E r \in Requests :
          \/ Begin(r) \/ VerifyLogin(r) \/ ReadPinned(r) \/ Pin(r)
          \/ AuthCookie(r) \/ AuthHeader(r) \/ CheckCurrent(r) \/ RefuseNew(r)
          \/ Rotate(r) \/ SelectExpired(r) \/ Issue(r) \/ Logout(r) \/ Fail(r)
    \/ Tick

Next ==
    /\ Step
    /\ witnessed' = [r \in Requests |->
                        IF pc'[r] = "refused" THEN {} ELSE witnessed[r] \cup Good(r)']

Spec == Init /\ [][Next]_vars

-----------------------------------------------------------------------------
(***************************************************************************)
(* Access is due: what a request was granted rests on a session, or on a   *)
(* password, that was good at some moment between its start and its        *)
(* answer, although it reads the table two to four times while other       *)
(* requests rotate, log out and expire under it.  A change rests on the    *)
(* current password as well.                                               *)
(***************************************************************************)
AccessWasDue ==
    \A r \in Requests :
        pc[r] = "granted" =>
            /\ form[r].kind \in {"login", "change"} => "typed" \in witnessed[r]
            /\ form[r].kind \in {"view", "change"} => witnessed[r] \cap {"cookie", "key"} # {}

(***************************************************************************)
(* "Store the new hash and revoke every pre-rotation session"              *)
(* (ops_change_password): a request that comes with a session revoked      *)
(* before it began gets nothing for it, whatever sessions other requests   *)
(* purge and insert around the change.                                     *)
(***************************************************************************)
RevokedStaysOut ==
    \A r \in barred : pc[r] = "granted" => "key" \in witnessed[r]

(***************************************************************************)
(* A session that has not expired ends by its own logout or by a password  *)
(* change and never otherwise: the deletion of expired rows works from a   *)
(* list selected in an earlier step and takes no live session along.       *)
(***************************************************************************)
LiveSessionsStay ==
    [][\A t \in Requests :
          Live(t) /\ sessions'[t] = None =>
              \E r \in Requests :
                  \/ pc[r] = "rotate" /\ pc'[r] = "purge"
                  \/ pc[r] = "logout" /\ pc'[r] = "out" /\ form[r].cookie = t]_vars

(***************************************************************************)
(* "A persisted hash is authoritative.  Never fall back to an environment  *)
(* credential after password rotation" (verify_ops_password): a password   *)
(* that was set stays until the next one is set.  It does not: a login     *)
(* that found no hash, or one of the legacy format, when it looked writes  *)
(* its own password over the new one.                                      *)
(***************************************************************************)
RotationLasts ==
    [][\A r \in Requests :
          /\ pc[r] \in {"purge", "issue", "granted"} /\ form[r].kind = "change"
          /\ hash' # hash
          => \E s \in Requests : pc[s] = "rotate" /\ pc'[s] = "purge"]_vars
=============================================================================
