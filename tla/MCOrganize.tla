----------------------------- MODULE MCOrganize -----------------------------
(***************************************************************************)
(* Organize with two cards, one of today and one of the day before, one    *)
(* person and two tags: three taps, one fault, up to three at a time.      *)
(***************************************************************************)
EXTENDS Organize, TLC

CONSTANTS c1, c2, today, week

MCWithin == [w \in Windows |-> IF w = today THEN {c1} ELSE {c1, c2}]

(* Nothing labelled yet.                                                   *)
MCFirstRows == {[c \in Cards |-> [person |-> Nobody, tags |-> {}]]}

=============================================================================
