------------------------------ MODULE MCIngest ------------------------------
(***************************************************************************)
(* Ingest on small instances: two concurrent handlers, one body that       *)
(* parses, one that does not, a body left pending by the earlier version,  *)
(* and two ways to write a body that parses.                               *)
(***************************************************************************)
EXTENDS Ingest, TLC

CONSTANTS pay, otp, old, lf, crlf

(* Only what is booked needs a second way of writing it. *)
MCFormsOf == [b \in Bodies |-> IF b = otp THEN {lf} ELSE {lf, crlf}]

MCVerdict == [t \in Texts |-> IF t[1] = otp THEN "ignored"
                              ELSE IF t = <<old, crlf>> THEN "failed"
                              ELSE "ok"]

(* A pending row of the two-phase version. *)
PendingRow == [text |-> <<old, lf>>, print |-> old, status |-> "pending"]

MCPendingRaw == <<PendingRow>>

MCNone == <<>>

=============================================================================
