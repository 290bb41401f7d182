------------------------------ MODULE MCClient ------------------------------
(***************************************************************************)
(* Client on a small instance: two months, two to three transactions,      *)
(* pages of one transaction and one search term.                           *)
(***************************************************************************)
EXTENDS Client, TLC

CONSTANTS everything, term

MCHits == everything :> {1, 2, 3} @@ term :> {1, 3}

(* A session of old, or none and a token that is no longer right.          *)
MCFirstLogins ==
  {[cookie |-> 0, token |-> "none"], [cookie |-> NoSession, token |-> "bad"]}

=============================================================================
