------------------------------ MODULE MCScratch ------------------------------
(***************************************************************************)
(* Scratch with an outer delay of five ticks and an inner one of two.      *)
(***************************************************************************)
EXTENDS Scratch

=============================================================================
