------------------------------ MODULE MCBudgets ------------------------------
(***************************************************************************)
(* Budgets on a small instance: two requests that overlap, one person and  *)
(* the household, two amounts, up to three rows, with deletions of budgets *)
(* and of the person between their statements.                             *)
(***************************************************************************)
EXTENDS Budgets, TLC

(* Requests and periods are interchangeable. *)
MCSymmetry == Permutations(Handlers) \cup Permutations(Periods)

=============================================================================
