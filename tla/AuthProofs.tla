------------------------------ MODULE AuthProofs ------------------------------
(***************************************************************************)
(* Proofs about Auth, for any number of handlers, addresses and sessions.  *)
(***************************************************************************)
EXTENDS Auth, TLAPS

(* A lock ends at most LockFor from now, and nobody checks a password who  *)
(* was not there before the lock was set.                                  *)
AdmittedInv ==
  /\ lockUntil <= now + LockFor
  /\ \A h \in Handlers : pc[h] = "checking" =>
       /\ admitted[h] <= now
       /\ Locked => admitted[h] <= lockUntil - LockFor

(* A handler between the two statements of Valid has a session id, and a   *)
(* handler that is checking a password has a login.                        *)
HandlerInv ==
  \A h \in Handlers :
    /\ pc[h] = "checking" => job[h] \in [ip : IPs, right : BOOLEAN]
    /\ pc[h] \in {"slide", "purge"} => job[h] \in [id : Ids]
    /\ pc[h] = "slide" => job[h].id \in issued

AuthInv == TypeOK /\ OnlyIssued /\ HandlerInv /\ AdmittedInv

(* Init: no handlers, no sessions, no failures. *)
LEMMA InitAuth == Init => AuthInv
  BY AuthAssumption, GuardAssumption
  DEF Init, AuthInv, TypeOK, GuardInit, GuardTypeOK, OnlyIssued, HandlerInv, AdmittedInv,
      Idle, Jobs, Steps

(* The methods of LoginGuard keep its counters in range, and only Fail     *)
(* sets a lock: it lasts LockFor from the moment of the failure.           *)
LEMMA FailTypes ==
  ASSUME TypeOK, NEW ip \in IPs, Fail(ip), now' = now
  PROVE  /\ GuardTypeOK'
         /\ lockUntil' \in {lockUntil, now + LockFor}
<1>1. Failed(ip) \in Bucket
  BY GuardAssumption DEF TypeOK, GuardTypeOK, Failed, Bucket, Age
<1>2. bucket' \in [IPs -> Bucket \cup {NoBucket}]
  BY <1>1 DEF TypeOK, GuardTypeOK, Fail
<1>3. globalFails' \in 0 .. MaxGlobalFails - 1 /\ lockUntil' \in Nat
  BY GuardAssumption DEF TypeOK, GuardTypeOK, Fail
<1>4. lockUntil' \in {lockUntil, now + LockFor}
  BY DEF Fail
<1> QED
  BY <1>2, <1>3, <1>4 DEF TypeOK, GuardTypeOK

LEMMA SuccessTypes ==
  ASSUME TypeOK, NEW ip, Success(ip), now' = now
  PROVE  GuardTypeOK'
<1>1. bucket' \in [IPs -> Bucket \cup {NoBucket}]
  BY DEF TypeOK, GuardTypeOK, Success
<1>2. globalFails' \in 0 .. MaxGlobalFails - 1 /\ lockUntil' \in Nat /\ now' \in Nat
  BY GuardAssumption DEF TypeOK, GuardTypeOK, Success
<1> QED
  BY <1>1, <1>2 DEF GuardTypeOK

LEMMA CleanupTypes ==
  ASSUME TypeOK, Cleanup, now' = now, UNCHANGED <<globalFails, lockUntil>>
  PROVE  GuardTypeOK'
  BY DEF TypeOK, GuardTypeOK, Cleanup

(* What a handler works on, and where it is, keep their types.             *)
LocalTypeOK ==
  pc \in [Handlers -> Steps] /\ job \in [Handlers -> Jobs] /\ admitted \in [Handlers -> Nat]

LEMMA JobsOf ==
  /\ Idle \in Jobs
  /\ \A ip \in IPs, right \in BOOLEAN : [ip |-> ip, right |-> right] \in Jobs
  /\ \A i \in Ids : [id |-> i] \in Jobs
  BY DEF Jobs, Idle

LEMMA FinishTypes ==
  ASSUME TypeOK, NEW h \in Handlers, NEW from, Finish(h, from)
  PROVE  LocalTypeOK'
<1>1. "idle" \in Steps
  BY DEF Steps
<1> QED
  BY <1>1, JobsOf DEF TypeOK, LocalTypeOK, Finish, Goto

----------------------------------------------------------------------------

(* Every step keeps the types. *)
LEMMA StepTypes ==
  ASSUME AuthInv, [Next]_vars
  PROVE  TypeOK'
<1> USE AuthAssumption, GuardAssumption DEF AuthInv, TypeOK
<1> SUFFICES ASSUME Next PROVE TypeOK'
  BY DEF GuardTypeOK, vars, guardVars, sessionVars, localVars
<1>1. CASE Tick
  BY <1>1 DEF Tick, GuardTypeOK, guardVars, sessionVars, localVars
<1>2. ASSUME NEW ip \in IPs, LoginDenied(ip) \/ LoginMalformed(ip) PROVE TypeOK'
  <2>1. GuardTypeOK'
    BY <1>2, CleanupTypes DEF LoginDenied, LoginMalformed, Deny, Allow
  <2> QED
    BY <1>2, <2>1 DEF LoginDenied, LoginMalformed, sessionVars, localVars
<1>3. ASSUME NEW h \in Handlers, NEW ip \in IPs, NEW right \in BOOLEAN, Login(h, ip, right)
      PROVE  TypeOK'
  <2>1. GuardTypeOK'
    BY <1>3, CleanupTypes DEF Login, Allow
  <2>2. "checking" \in Steps /\ now \in Nat
    BY DEF Steps, GuardTypeOK
  <2>3. [ip |-> ip, right |-> right] \in Jobs
    BY JobsOf
  <2>4. LocalTypeOK'
    BY <1>3, <2>2, <2>3 DEF Login, Goto, LocalTypeOK
  <2>5. UNCHANGED sessionVars
    BY <1>3 DEF Login
  <2> QED
    BY <2>1, <2>4, <2>5 DEF LocalTypeOK, sessionVars
<1>4. ASSUME NEW h \in Handlers, WrongPassword(h) PROVE TypeOK'
  <2>1. job[h].ip \in IPs
    BY <1>4 DEF WrongPassword, Finish, Goto, HandlerInv
  <2>2. GuardTypeOK'
    BY <1>4, <2>1, FailTypes DEF WrongPassword
  <2>3. LocalTypeOK'
    BY <1>4, FinishTypes DEF WrongPassword
  <2> QED
    BY <1>4, <2>2, <2>3 DEF WrongPassword, LocalTypeOK, sessionVars
<1>5. ASSUME NEW h \in Handlers, RightPassword(h) PROVE TypeOK'
  <2>1. GuardTypeOK'
    BY <1>5, SuccessTypes DEF RightPassword
  <2>2. "creating" \in Steps
    BY DEF Steps
  <2> QED
    BY <1>5, <2>1, <2>2, JobsOf DEF RightPassword, Goto, sessionVars
<1>6. ASSUME NEW h \in Handlers, CreateSession(h) \/ CreateFails(h) PROVE TypeOK'
  <2>1. LocalTypeOK'
    BY <1>6, FinishTypes DEF CreateSession, CreateFails
  <2>2. GuardTypeOK' /\ now \in Nat
    BY <1>6 DEF CreateSession, CreateFails, GuardTypeOK, guardVars
  <2>3. /\ sessions' \in [Ids -> Nat \cup {NoSession}]
        /\ issued' \subseteq Ids
    BY <1>6, <2>2 DEF CreateSession, CreateFails, sessionVars
  <2> QED
    BY <2>1, <2>2, <2>3 DEF LocalTypeOK
<1>7. ASSUME NEW h \in Handlers, NEW i \in Ids, ReadLive(h, i) \/ ReadExpired(h, i)
      PROVE  TypeOK'
  <2>1. GuardTypeOK'
    BY <1>7 DEF ReadLive, ReadExpired, GuardTypeOK, guardVars
  <2>2. {"slide", "purge"} \subseteq Steps
    BY DEF Steps
  <2> QED
    BY <1>7, <2>1, <2>2, JobsOf DEF ReadLive, ReadExpired, Goto, sessionVars
<1>8. ASSUME NEW h \in Handlers, Slide(h) \/ Purge(h) PROVE TypeOK'
  <2>1. job[h].id \in Ids
    BY <1>8 DEF Slide, Purge, Finish, Goto, HandlerInv
  <2>2. LocalTypeOK'
    BY <1>8, FinishTypes DEF Slide, Purge
  <2>3. GuardTypeOK' /\ now \in Nat
    BY <1>8 DEF Slide, Purge, GuardTypeOK, guardVars
  <2>4. sessions' \in [Ids -> Nat \cup {NoSession}]
    BY <1>8, <2>1, <2>3 DEF Slide, Purge
  <2> QED
    BY <1>8, <2>2, <2>3, <2>4 DEF Slide, Purge, LocalTypeOK
<1>9. ASSUME NEW i \in Ids, Logout(i) PROVE TypeOK'
  BY <1>9 DEF Logout, GuardTypeOK, guardVars, localVars
<1>10. CASE Restart
  BY <1>10 DEF Restart, ForgetAll, GuardTypeOK, Jobs, Steps, Idle, sessionVars
<1> QED
  BY <1>1, <1>2, <1>3, <1>4, <1>5, <1>6, <1>7, <1>8, <1>9, <1>10 DEF Next, HandlerStep

(* Every step keeps what the handlers know of sessions, and sessions of    *)
(* ids that were drawn.                                                    *)
LEMMA StepSessions ==
  ASSUME AuthInv, [Next]_vars
  PROVE  OnlyIssued' /\ HandlerInv'
<1> USE AuthAssumption DEF AuthInv, TypeOK, OnlyIssued, HandlerInv
<1> SUFFICES ASSUME Next PROVE OnlyIssued' /\ HandlerInv'
  BY DEF vars, sessionVars, localVars
<1>1. CASE Tick
  BY <1>1 DEF Tick, sessionVars, localVars
<1>2. ASSUME NEW ip \in IPs, LoginDenied(ip) \/ LoginMalformed(ip)
      PROVE  OnlyIssued' /\ HandlerInv'
  BY <1>2 DEF LoginDenied, LoginMalformed, sessionVars, localVars
<1>3. ASSUME NEW h \in Handlers, NEW ip \in IPs, NEW right \in BOOLEAN, Login(h, ip, right)
      PROVE  OnlyIssued' /\ HandlerInv'
  BY <1>3 DEF Login, Goto, sessionVars
<1>4. ASSUME NEW h \in Handlers, WrongPassword(h) \/ RightPassword(h)
      PROVE  OnlyIssued' /\ HandlerInv'
  BY <1>4 DEF WrongPassword, RightPassword, Finish, Goto, sessionVars
<1>5. ASSUME NEW h \in Handlers, CreateSession(h) \/ CreateFails(h)
      PROVE  OnlyIssued' /\ HandlerInv'
  BY <1>5 DEF CreateSession, CreateFails, Finish, Goto, sessionVars
<1>6. ASSUME NEW h \in Handlers, NEW i \in Ids, ReadLive(h, i) \/ ReadExpired(h, i)
      PROVE  OnlyIssued' /\ HandlerInv'
  BY <1>6 DEF ReadLive, ReadExpired, Alive, Goto, sessionVars
<1>7. ASSUME NEW h \in Handlers, Slide(h) \/ Purge(h) PROVE OnlyIssued' /\ HandlerInv'
  BY <1>7 DEF Slide, Purge, Finish, Goto
<1>8. ASSUME NEW i \in Ids, Logout(i) PROVE OnlyIssued' /\ HandlerInv'
  BY <1>8 DEF Logout, localVars
<1>9. CASE Restart
  BY <1>9 DEF Restart, sessionVars
<1> QED
  BY <1>1, <1>2, <1>3, <1>4, <1>5, <1>6, <1>7, <1>8, <1>9 DEF Next, HandlerStep

(* Every step keeps the order of admissions and locks. *)
LEMMA StepAdmitted ==
  ASSUME AuthInv, [Next]_vars
  PROVE  AdmittedInv'
<1> USE AuthAssumption, GuardAssumption DEF AuthInv, TypeOK, GuardTypeOK, AdmittedInv, Locked
<1> SUFFICES ASSUME Next PROVE AdmittedInv'
  BY DEF vars, guardVars, localVars
<1>1. CASE Tick
  BY <1>1 DEF Tick, guardVars, localVars
<1>2. ASSUME NEW ip \in IPs, LoginDenied(ip) \/ LoginMalformed(ip) PROVE AdmittedInv'
  BY <1>2 DEF LoginDenied, LoginMalformed, Deny, Allow, localVars
<1>3. ASSUME NEW h \in Handlers, NEW ip \in IPs, NEW right \in BOOLEAN, Login(h, ip, right)
      PROVE  AdmittedInv'
  BY <1>3 DEF Login, Allow, Allowed, Goto
<1>4. ASSUME NEW h \in Handlers, WrongPassword(h) PROVE AdmittedInv'
  <2>1. job[h].ip \in IPs
    BY <1>4 DEF WrongPassword, Finish, Goto, HandlerInv
  <2>2. lockUntil' \in {lockUntil, now + LockFor}
    BY <1>4, <2>1, FailTypes DEF WrongPassword
  <2>3. now' = now /\ \A g \in Handlers : pc'[g] = "checking" =>
                        pc[g] = "checking" /\ admitted'[g] = admitted[g]
    BY <1>4 DEF WrongPassword, Finish, Goto
  <2> QED
    BY <2>2, <2>3
<1>5. ASSUME NEW h \in Handlers, RightPassword(h) PROVE AdmittedInv'
  BY <1>5 DEF RightPassword, Success, Goto
<1>6. ASSUME NEW h \in Handlers, CreateSession(h) \/ CreateFails(h) \/ Slide(h) \/ Purge(h)
      PROVE  AdmittedInv'
  BY <1>6 DEF CreateSession, CreateFails, Slide, Purge, Finish, Goto, guardVars
<1>7. ASSUME NEW h \in Handlers, NEW i \in Ids, ReadLive(h, i) \/ ReadExpired(h, i)
      PROVE  AdmittedInv'
  BY <1>7 DEF ReadLive, ReadExpired, Goto, guardVars
<1>8. ASSUME NEW i \in Ids, Logout(i) PROVE AdmittedInv'
  BY <1>8 DEF Logout, guardVars, localVars
<1>9. CASE Restart
  BY <1>9 DEF Restart
<1> QED
  BY <1>1, <1>2, <1>3, <1>4, <1>5, <1>6, <1>7, <1>8, <1>9 DEF Next, HandlerStep

(* The invariant is inductive. *)
THEOREM AuthInductive == Spec => []AuthInv
<1>1. AuthInv /\ [Next]_vars => AuthInv'
  BY StepTypes, StepSessions, StepAdmitted DEF AuthInv
<1> QED
  BY InitAuth, <1>1, PTL DEF Spec

(* Counters, sessions and handlers always have the values the code gives   *)
(* them: globalFails stays below its limit.                                *)
THEOREM AuthTypeCorrect == Spec => []TypeOK
<1>1. AuthInv => TypeOK
  BY DEF AuthInv
<1> QED
  BY AuthInductive, <1>1, PTL

(* Only ids drawn by a successful login have a session row. *)
THEOREM SessionsWereIssued == Spec => []OnlyIssued
<1>1. AuthInv => OnlyIssued
  BY DEF AuthInv
<1> QED
  BY AuthInductive, <1>1, PTL

(* No password is checked for a request that arrived under the lock. *)
THEOREM LockedRequestsWait == Spec => []LockedOut
<1>1. AuthInv => LockedOut
  BY DEF AuthInv, AdmittedInv, LockedOut
<1> QED
  BY AuthInductive, <1>1, PTL

(* An expired or deleted session without a request in the middle of        *)
(* extending it stays dead for good.                                       *)
THEOREM DeadSessionsStayDead == Spec => DeadStaysDead
<1>1. ASSUME AuthInv, Next, NEW i \in Ids, Dead(i) PROVE Dead(i)'
  <2> USE AuthAssumption DEF AuthInv, TypeOK, GuardTypeOK, HandlerInv, Dead, Alive, Sliding
  <2>1. CASE Tick
    BY <1>1, <2>1 DEF Tick, sessionVars, localVars
  <2>2. ASSUME NEW ip \in IPs, LoginDenied(ip) \/ LoginMalformed(ip) PROVE Dead(i)'
    BY <1>1, <2>2 DEF LoginDenied, LoginMalformed, sessionVars, localVars
  <2>3. ASSUME NEW h \in Handlers, NEW ip \in IPs, NEW right \in BOOLEAN, Login(h, ip, right)
        PROVE  Dead(i)'
    BY <1>1, <2>3 DEF Login, Goto, sessionVars
  <2>4. ASSUME NEW h \in Handlers, WrongPassword(h) \/ RightPassword(h) PROVE Dead(i)'
    BY <1>1, <2>4 DEF WrongPassword, RightPassword, Finish, Goto, sessionVars
  <2>5. ASSUME NEW h \in Handlers, CreateSession(h) \/ CreateFails(h) PROVE Dead(i)'
    BY <1>1, <2>5 DEF CreateSession, CreateFails, Finish, Goto, sessionVars
  <2>6. ASSUME NEW h \in Handlers, NEW k \in Ids, ReadLive(h, k) \/ ReadExpired(h, k)
        PROVE  Dead(i)'
    BY <1>1, <2>6 DEF ReadLive, ReadExpired, Goto, sessionVars
  <2>7. ASSUME NEW h \in Handlers, Slide(h) PROVE Dead(i)'
    <3>1. job[h].id # i
      BY <1>1, <2>7 DEF Slide, Finish, Goto
    <3> QED
      BY <1>1, <2>7, <3>1 DEF Slide, Finish, Goto
  <2>8. ASSUME NEW h \in Handlers, Purge(h) PROVE Dead(i)'
    BY <1>1, <2>8 DEF Purge, Finish, Goto
  <2>9. ASSUME NEW k \in Ids, Logout(k) PROVE Dead(i)'
    BY <1>1, <2>9 DEF Logout, localVars
  <2>10. CASE Restart
    BY <1>1, <2>10 DEF Restart, sessionVars
  <2> QED
    BY <1>1, <2>1, <2>2, <2>3, <2>4, <2>5, <2>6, <2>7, <2>8, <2>9, <2>10
    DEF Next, HandlerStep
<1>2. AuthInv /\ [Next]_vars => [\A i \in Ids : Dead(i) => Dead(i)']_vars
  BY <1>1
<1> QED
  BY AuthInductive, <1>2, PTL DEF Spec, DeadStaysDead

(* A step other than the exceptions keeps locks and blocked addresses.     *)
StillHeld ==
  /\ Locked => Locked' \/ now' >= lockUntil
  /\ \A ip \in IPs : Blocked(ip) => Blocked(ip)' \/ now' - bucket[ip].since >= Window

LEMMA CleanupHolds ==
  ASSUME TypeOK, Cleanup, now' = now, UNCHANGED <<globalFails, lockUntil>>
  PROVE  StillHeld
  BY GuardAssumption
  DEF TypeOK, GuardTypeOK, Cleanup, StillHeld, Blocked, Locked, Age, Bucket

LEMMA FailHolds ==
  ASSUME TypeOK, AdmittedInv, NEW ip \in IPs, Fail(ip), now' = now
  PROVE  StillHeld
<1> USE GuardAssumption DEF TypeOK, GuardTypeOK
<1>1. Locked => Locked'
  BY FailTypes DEF AdmittedInv, Locked
<1>2. ASSUME NEW q \in IPs, Blocked(q) PROVE Blocked(q)'
  <2>1. CASE q # ip
    BY <1>2, <2>1 DEF Fail, Blocked, Age
  <2>2. CASE q = ip
    <3>1. bucket[q] \in Bucket /\ Age(q) < Window /\ bucket[q].fails >= MaxIPFails
      BY <1>2 DEF Blocked
    <3>2. bucket'[q] = [bucket[q] EXCEPT !.fails = @ + 1]
      BY <1>2, <2>2, <3>1 DEF Fail, Failed, Blocked, Age, Bucket
    <3>3. /\ bucket'[q] \in Bucket
          /\ bucket'[q].since = bucket[q].since
          /\ bucket'[q].fails >= MaxIPFails
      BY <3>1, <3>2 DEF Bucket
    <3> QED
      BY <3>1, <3>3 DEF Blocked, Age
  <2> QED
    BY <2>1, <2>2
<1> QED
  BY <1>1, <1>2 DEF StillHeld

LEMMA SameHolds ==
  ASSUME TypeOK, UNCHANGED guardVars, now' \in {now, now + 1}
  PROVE  StillHeld
<1>1. Locked => Locked' \/ now' >= lockUntil
  BY DEF TypeOK, GuardTypeOK, guardVars, Locked
<1>2. ASSUME NEW ip \in IPs, Blocked(ip)
      PROVE  Blocked(ip)' \/ now' - bucket[ip].since >= Window
  <2>1. bucket' = bucket /\ bucket[ip] # NoBucket /\ bucket[ip] \in Bucket
    BY <1>2 DEF TypeOK, GuardTypeOK, guardVars, Blocked
  <2>2. bucket[ip].since \in Nat /\ bucket[ip].fails >= MaxIPFails /\ now' \in Nat
    BY <1>2, <2>1 DEF TypeOK, GuardTypeOK, Bucket, Blocked
  <2> QED
    BY GuardAssumption, <2>1, <2>2 DEF Blocked, Age
<1> QED
  BY <1>1, <1>2 DEF StillHeld

(* A lock or a blocked address stays until its time is over, a login       *)
(* succeeds or the server restarts.                                        *)
THEOREM LocksAreHeld == Spec => LocksHold
<1> DEFINE Held ==
  /\ Locked => \/ Locked'
               \/ now' >= lockUntil
               \/ \E h \in Handlers : RightPassword(h)
               \/ Restart
  /\ \A ip \in IPs : Blocked(ip) =>
       \/ Blocked(ip)'
       \/ now' - bucket[ip].since >= Window
       \/ \E h \in Handlers : RightPassword(h) /\ job[h].ip = ip
       \/ Restart
<1>1. ASSUME AuthInv, Next PROVE Held
  <2> USE DEF AuthInv
  <2>1. CASE Tick
    BY <1>1, <2>1, SameHolds DEF Tick, StillHeld
  <2>2. ASSUME NEW ip \in IPs, LoginDenied(ip) \/ LoginMalformed(ip) PROVE Held
    BY <1>1, <2>2, CleanupHolds DEF LoginDenied, LoginMalformed, Deny, Allow, StillHeld
  <2>3. ASSUME NEW h \in Handlers, NEW ip \in IPs, NEW right \in BOOLEAN, Login(h, ip, right)
        PROVE  Held
    BY <1>1, <2>3, CleanupHolds DEF Login, Allow, StillHeld
  <2>4. ASSUME NEW h \in Handlers, WrongPassword(h) PROVE Held
    <3>1. job[h].ip \in IPs
      BY <1>1, <2>4 DEF WrongPassword, Finish, Goto, HandlerInv
    <3> QED
      BY <1>1, <2>4, <3>1, FailHolds DEF WrongPassword, StillHeld
  <2>5. ASSUME NEW h \in Handlers, RightPassword(h) PROVE Held
    BY <1>1, <2>5 DEF RightPassword, Success, Blocked, Age, TypeOK, GuardTypeOK
  <2>6. ASSUME NEW h \in Handlers, CreateSession(h) \/ CreateFails(h) \/ Slide(h) \/ Purge(h)
        PROVE  Held
    BY <1>1, <2>6, SameHolds DEF CreateSession, CreateFails, Slide, Purge, StillHeld
  <2>7. ASSUME NEW h \in Handlers, NEW i \in Ids, ReadLive(h, i) \/ ReadExpired(h, i)
        PROVE  Held
    BY <1>1, <2>7, SameHolds DEF ReadLive, ReadExpired, StillHeld
  <2>8. ASSUME NEW i \in Ids, Logout(i) PROVE Held
    BY <1>1, <2>8, SameHolds DEF Logout, StillHeld
  <2>9. CASE Restart
    BY <1>1, <2>9 DEF Restart, Locked, TypeOK, GuardTypeOK
  <2> QED
    BY <1>1, <2>1, <2>2, <2>3, <2>4, <2>5, <2>6, <2>7, <2>8, <2>9 DEF Next, HandlerStep
<1>2. AuthInv /\ [Next]_vars => [Held]_vars
  BY <1>1
<1> QED
  BY AuthInductive, <1>2, PTL DEF Spec, LocksHold

=============================================================================
