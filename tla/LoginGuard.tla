----------------------------- MODULE LoginGuard -----------------------------
(***************************************************************************)
(* auth.LoginGuard: the global lock and the failure count per address that *)
(* slow down password guessing.  Each method runs under one mutex and is   *)
(* one step.  Time is counted in ticks.                                    *)
(***************************************************************************)
EXTENDS Integers

CONSTANTS
  IPs,             \* client addresses, normalised
  MaxGlobalFails,  \* failures that set the global lock
  LockFor,         \* how long it lasts
  MaxIPFails,      \* failures that block an address
  Window,          \* how long an address's failures count
  NoBucket         \* bucket[ip] of an address without failures

VARIABLES
  now,          \* time.Now()
  globalFails,  \* failures since the last lock or success
  lockUntil,    \* globalLockUntil
  bucket        \* ipFails: [fails, since] of each address

guardVars == <<globalFails, lockUntil, bucket>>

Bucket == [fails : Nat \ {0}, since : Nat]

Age(ip) == now - bucket[ip].since

Locked == now < lockUntil

Blocked(ip) ==
  bucket[ip] # NoBucket /\ Age(ip) < Window /\ bucket[ip].fails >= MaxIPFails

GuardInit ==
  /\ globalFails = 0
  /\ lockUntil = 0
  /\ bucket = [ip \in IPs |-> NoBucket]

ForgetAll == bucket' = [ip \in IPs |-> NoBucket]

(* cleanupLocked: forget addresses whose failures are long over.           *)
Cleanup ==
  bucket' = [ip \in IPs |->
               IF bucket[ip] # NoBucket /\ Age(ip) > 2 * Window THEN NoBucket ELSE bucket[ip]]

LockIgnored(ip) == ~ Blocked(ip)
Allowed(ip) == ~ Locked /\ ~ Blocked(ip)

(* Allow never looks at buckets that cleanupLocked is about to drop.       *)
Allow(ip) == Allowed(ip) /\ Cleanup /\ UNCHANGED <<globalFails, lockUntil>>

Deny(ip) == ~ Allowed(ip) /\ Cleanup /\ UNCHANGED <<globalFails, lockUntil>>

Failed(ip) ==
  IF bucket[ip] = NoBucket \/ Age(ip) >= Window
    THEN [fails |-> 1, since |-> now]
    ELSE [bucket[ip] EXCEPT !.fails = @ + 1]

FailRestarts(ip) ==
  /\ bucket' = [bucket EXCEPT ![ip] = Failed(ip)]
  /\ globalFails' = (globalFails + 1) % MaxGlobalFails
  /\ lockUntil' = IF globalFails + 1 >= MaxGlobalFails THEN now + LockFor ELSE 0

FailKeepsCount(ip) ==
  /\ bucket' = [bucket EXCEPT ![ip] = Failed(ip)]
  /\ globalFails' = globalFails + 1
  /\ lockUntil' = IF globalFails + 1 >= MaxGlobalFails THEN now + LockFor ELSE lockUntil

Fail(ip) ==
  /\ bucket' = [bucket EXCEPT ![ip] = Failed(ip)]
  /\ IF globalFails + 1 >= MaxGlobalFails
       THEN globalFails' = 0 /\ lockUntil' = now + LockFor
       ELSE globalFails' = globalFails + 1 /\ UNCHANGED lockUntil

Success(ip) ==
  /\ bucket' = [bucket EXCEPT ![ip] = NoBucket]
  /\ globalFails' = 0
  /\ lockUntil' = 0

----------------------------------------------------------------------------

ASSUME GuardAssumption ==
  /\ MaxGlobalFails \in Nat \ {0} /\ MaxIPFails \in Nat \ {0}
  /\ LockFor \in Nat /\ Window \in Nat
  /\ NoBucket \notin Bucket

GuardTypeOK ==
  /\ now \in Nat
  /\ globalFails \in 0 .. MaxGlobalFails - 1
  /\ lockUntil \in Nat
  /\ bucket \in [IPs -> Bucket \cup {NoBucket}]

=============================================================================
