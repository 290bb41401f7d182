-------------------------------- MODULE Auth --------------------------------
(***************************************************************************)
(* Who may use the server: password login through LoginGuard, sessions in  *)
(* the database with sliding expiry, and logout (api/auth.go, auth.Store,  *)
(* store/sessions.go).                                                     *)
(*                                                                         *)
(* The request handlers interleave: a login sleeps between being allowed   *)
(* and having its password checked, and a request with a cookie reads its  *)
(* session in one statement and extends it in another.                     *)
(*                                                                         *)
(* Left out: ADMIN_TOKEN and INGEST_TOKEN, which have no state, the cookie *)
(* header itself, and the in-memory sessions of a store without database.  *)
(***************************************************************************)
EXTENDS LoginGuard

CONSTANTS
  Handlers,    \* request slots: the handlers that may run at the same time
  Ids,         \* random session ids
  TTL,         \* session lifetime
  Horizon,     \* the last tick modelled
  NoSession    \* sessions[i] when there is no row

VARIABLES
  sessions,   \* sessions[i]: expires_at
  issued,     \* ids Create has drawn so far
  pc,         \* pc[h]: the next step of handler h
  job,        \* job[h]: the login or session handler h works on
  admitted    \* history: when handler h was allowed to try a password

sessionVars == <<sessions, issued>>
localVars   == <<pc, job, admitted>>
vars == <<now, guardVars, sessionVars, localVars>>

Steps == {"idle", "checking", "creating", "slide", "purge"}

Jobs == [ip : IPs, right : BOOLEAN] \cup [id : Ids] \cup [none : {TRUE}]

Idle == [none |-> TRUE]

Goto(h, from, to) == pc[h] = from /\ pc' = [pc EXCEPT ![h] = to]

Finish(h, from) ==
  /\ Goto(h, from, "idle")
  /\ job' = [job EXCEPT ![h] = Idle]
  /\ admitted' = [admitted EXCEPT ![h] = 0]

Alive(i) == sessions[i] # NoSession /\ now <= sessions[i]

----------------------------------------------------------------------------

Init ==
  /\ now = 0
  /\ GuardInit
  /\ sessions = [i \in Ids |-> NoSession]
  /\ issued = {}
  /\ pc = [h \in Handlers |-> "idle"]
  /\ job = [h \in Handlers |-> Idle]
  /\ admitted = [h \in Handlers |-> 0]

Tick ==
  /\ now < Horizon
  /\ now' = now + 1
  /\ UNCHANGED <<guardVars, sessionVars, localVars>>

(* Login: allowed or answered 429 at once; then, after a sleep, the        *)
(* password is checked.                                                    *)
Login(h, ip, right) ==
  /\ Allow(ip)
  /\ Goto(h, "idle", "checking")
  /\ job' = [job EXCEPT ![h] = [ip |-> ip, right |-> right]]
  /\ admitted' = [admitted EXCEPT ![h] = now]
  /\ UNCHANGED <<now, sessionVars>>

LoginDenied(ip) == Deny(ip) /\ UNCHANGED <<now, sessionVars, localVars>>

(* Allowed, but the body is not JSON: answered 400 with nothing counted.   *)
LoginMalformed(ip) == Allow(ip) /\ UNCHANGED <<now, sessionVars, localVars>>

WrongPassword(h) ==
  /\ Finish(h, "checking")
  /\ ~ job[h].right
  /\ Fail(job[h].ip)
  /\ UNCHANGED <<now, sessionVars>>

RightPassword(h) ==
  /\ Goto(h, "checking", "creating")
  /\ job[h].right
  /\ Success(job[h].ip)
  /\ job' = [job EXCEPT ![h] = Idle]
  /\ admitted' = [admitted EXCEPT ![h] = 0]
  /\ UNCHANGED <<now, sessionVars>>

(* Create: a fresh random id, saved with its expiry, or an error.          *)
CreateSession(h) ==
  /\ Finish(h, "creating")
  /\ \E i \in Ids \ issued :
       /\ issued' = issued \cup {i}
       /\ sessions' = [sessions EXCEPT ![i] = now + TTL]
  /\ UNCHANGED <<now, guardVars>>

CreateFails(h) ==
  /\ Finish(h, "creating")
  /\ UNCHANGED <<now, guardVars, sessionVars>>

(* Valid: GetSessionExpiry reads the row of the cookie's id; a live one is *)
(* extended by SaveSession, an expired one deleted.  An id without a row   *)
(* is refused and nothing happens.  Errors of the second statement are     *)
(* ignored.                                                                *)
SlideAnyway(h, i) ==
  /\ Goto(h, "idle", "slide")
  /\ job' = [job EXCEPT ![h] = [id |-> i]]
  /\ UNCHANGED <<now, guardVars, sessionVars, admitted>>

ReadLive(h, i) ==
  /\ Goto(h, "idle", "slide")
  /\ Alive(i)
  /\ job' = [job EXCEPT ![h] = [id |-> i]]
  /\ UNCHANGED <<now, guardVars, sessionVars, admitted>>

ReadExpired(h, i) ==
  /\ Goto(h, "idle", "purge")
  /\ sessions[i] # NoSession /\ now > sessions[i]
  /\ job' = [job EXCEPT ![h] = [id |-> i]]
  /\ UNCHANGED <<now, guardVars, sessionVars, admitted>>

Slide(h) ==
  /\ Finish(h, "slide")
  /\ \/ sessions' = [sessions EXCEPT ![job[h].id] = now + TTL]
     \/ UNCHANGED sessions
  /\ UNCHANGED <<now, guardVars, issued>>

Purge(h) ==
  /\ Finish(h, "purge")
  /\ \/ sessions' = [sessions EXCEPT ![job[h].id] = NoSession]
     \/ UNCHANGED sessions
  /\ UNCHANGED <<now, guardVars, issued>>

(* Logout deletes the session of the cookie; the handler does nothing else *)
(* to the database.                                                        *)
Logout(i) ==
  /\ sessions' = [sessions EXCEPT ![i] = NoSession]
  /\ UNCHANGED <<now, guardVars, issued, localVars>>

(* The server starts again: the guard forgets, the sessions are kept.      *)
Restart ==
  /\ globalFails' = 0 /\ lockUntil' = 0 /\ ForgetAll
  /\ pc' = [h \in Handlers |-> "idle"]
  /\ job' = [h \in Handlers |-> Idle]
  /\ admitted' = [h \in Handlers |-> 0]
  /\ UNCHANGED <<now, sessionVars>>

HandlerStep(h) ==
  \/ \E ip \in IPs, right \in BOOLEAN : Login(h, ip, right)
  \/ WrongPassword(h)
  \/ RightPassword(h)
  \/ CreateSession(h)
  \/ CreateFails(h)
  \/ \E i \in Ids : ReadLive(h, i)
  \/ \E i \in Ids : ReadExpired(h, i)
  \/ Slide(h)
  \/ Purge(h)

Next ==
  \/ Tick
  \/ \E ip \in IPs : LoginDenied(ip) \/ LoginMalformed(ip)
  \/ \E h \in Handlers : HandlerStep(h)
  \/ \E i \in Ids : Logout(i)
  \/ Restart

Spec == Init /\ [][Next]_vars

----------------------------------------------------------------------------
(* Assumptions and properties *)

ASSUME AuthAssumption ==
  TTL \in Nat /\ Horizon \in Nat /\ NoSession \notin Nat

TypeOK ==
  /\ GuardTypeOK
  /\ sessions \in [Ids -> Nat \cup {NoSession}]
  /\ issued \subseteq Ids
  /\ pc \in [Handlers -> Steps]
  /\ job \in [Handlers -> Jobs]
  /\ admitted \in [Handlers -> Nat]

(* SaveSession is an upsert that also runs for cookies nobody was given:   *)
(* still, only ids that a successful login drew ever have a session.       *)
OnlyIssued == \A i \in Ids : sessions[i] # NoSession => i \in issued

Sliding(i) == \E h \in Handlers : pc[h] = "slide" /\ job[h].id = i

Dead(i) == i \in issued /\ ~ Alive(i) /\ ~ Sliding(i)

(* A session that has expired or was deleted, with no request of it still  *)
(* between reading and extending, can never be used again.                 *)
DeadStaysDead == [][\A i \in Ids : Dead(i) => Dead(i)']_vars

(* A password is never tried by a request that arrived under the lock,     *)
(* although the lock may be set while other requests are asleep: whoever   *)
(* is checking came before the failure that set it.                        *)
LockedOut ==
  \A h \in Handlers :
    pc[h] = "checking" /\ Locked => admitted[h] <= lockUntil - LockFor

(* A lock or a blocked address stays so until its time is over, somebody   *)
(* logs in, or the server restarts; late failures of others do not lift it.*)
LocksHold ==
  [][/\ Locked => \/ Locked'
                  \/ now' >= lockUntil
                  \/ \E h \in Handlers : RightPassword(h)
                  \/ Restart
     /\ \A ip \in IPs : Blocked(ip) =>
          \/ Blocked(ip)'
          \/ now' - bucket[ip].since >= Window
          \/ \E h \in Handlers : RightPassword(h) /\ job[h].ip = ip
          \/ Restart]_vars

=============================================================================
