------------------------------- MODULE Ledger -------------------------------
(***************************************************************************)
(* What ingestion promises, with no requests in flight, no transactions    *)
(* and no connection: each SMS body gets one outcome, is booked at most    *)
(* once, only while somebody is asking for it, and nobody is told "ok"     *)
(* about a body that is not booked.  Module Ingest is shown to implement   *)
(* this specification.                                                     *)
(***************************************************************************)
EXTENDS Naturals

CONSTANTS Requests,   \* the clients that may be waiting for an answer
          Bodies,     \* normalised SMS bodies
          Nobody      \* asked[r] when r is not waiting

VARIABLES outcome,    \* outcome[b]: the recorded parse status, or "none"
          entries,    \* entries[b]: transactions booked for b
          asked,      \* asked[r]: the body r asks about
          answer      \* answer[r]: what r was told, or "none"

ledgerVars == <<outcome, entries, asked, answer>>

Outcomes == {"none", "pending", "ok", "ignored", "failed"}
Answers  == {"none", "pending", "ok", "ignored", "failed", "error"}

(* "pending" survives only from databases written before the atomic path. *)
LedgerInit ==
  /\ outcome \in [Bodies -> Outcomes]
  /\ entries \in [Bodies -> {0, 1}]
  /\ \A b \in Bodies : /\ outcome[b] = "ok" => entries[b] = 1
                       /\ outcome[b] \in {"none", "ignored", "failed"} => entries[b] = 0
  /\ asked = [r \in Requests |-> Nobody]
  /\ answer = [r \in Requests |-> "none"]

Waiting(b) == \E r \in Requests : asked[r] = b /\ answer[r] = "none"

Ask(r, b) ==
  /\ asked[r] = Nobody
  /\ asked' = [asked EXCEPT ![r] = b]
  /\ UNCHANGED <<outcome, entries, answer>>

(* A fresh body gets its final outcome and its entry in one step. *)
Record(b, o) ==
  /\ Waiting(b)
  /\ outcome[b] = "none"
  /\ outcome' = [outcome EXCEPT ![b] = o]
  /\ entries' = [entries EXCEPT ![b] = IF o = "ok" THEN 1 ELSE 0]
  /\ UNCHANGED <<asked, answer>>

(* A legacy pending body is booked, and afterwards its outcome is settled. *)
Book(b) ==
  /\ Waiting(b)
  /\ outcome[b] = "pending" /\ entries[b] = 0
  /\ entries' = [entries EXCEPT ![b] = 1]
  /\ UNCHANGED <<outcome, asked, answer>>

Settle(b) ==
  /\ Waiting(b)
  /\ outcome[b] = "pending" /\ entries[b] = 1
  /\ outcome' = [outcome EXCEPT ![b] = "ok"]
  /\ UNCHANGED <<entries, asked, answer>>

(* "failed" may also be said of a booked body whose transaction could not  *)
(* be read back; "ok" may not be said of a body that is not booked.        *)
Truthful(b, a) ==
  \/ a = "error"
  \/ a = "ok"      /\ entries[b] = 1
  \/ a = "pending" /\ outcome[b] \in {"pending", "ok"}
  \/ a = "ignored" /\ outcome[b] = "ignored"
  \/ a = "failed"  /\ outcome[b] \in {"failed", "ok"}

Tell(r, a) ==
  /\ asked[r] # Nobody /\ answer[r] = "none"
  /\ Truthful(asked[r], a)
  /\ answer' = [answer EXCEPT ![r] = a]
  /\ UNCHANGED <<outcome, entries, asked>>

(* The client takes its answer and leaves, or is cut off by a restart. *)
Leave(S) ==
  /\ asked' = [r \in Requests |-> IF r \in S THEN Nobody ELSE asked[r]]
  /\ answer' = [r \in Requests |-> IF r \in S THEN "none" ELSE answer[r]]
  /\ UNCHANGED <<outcome, entries>>

LedgerNext ==
  \/ \E r \in Requests, b \in Bodies : Ask(r, b)
  \/ \E b \in Bodies, o \in {"ok", "ignored", "failed"} : Record(b, o)
  \/ \E b \in Bodies : Book(b)
  \/ \E b \in Bodies : Settle(b)
  \/ \E r \in Requests, a \in Answers \ {"none"} : Tell(r, a)
  \/ \E S \in SUBSET Requests : Leave(S)

LedgerSpec == LedgerInit /\ [][LedgerNext]_ledgerVars

=============================================================================
