------------------------------- MODULE MCAuth -------------------------------
(***************************************************************************)
(* Auth on small instances: two handlers, two addresses, one session id,   *)
(* and a lock after two failures that lasts as long as an address's window.*)
(***************************************************************************)
EXTENDS Auth, TLC

MCSymmetry == Permutations(Handlers) \cup Permutations(IPs) \cup Permutations(Ids)

=============================================================================
