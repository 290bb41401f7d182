------------------------------ MODULE MCLabels ------------------------------
(***************************************************************************)
(* Labels on small instances: two concurrent handlers and two places for   *)
(* rules, the first of which matches every transaction.                    *)
(***************************************************************************)
EXTENDS Labels, TLC

CONSTANTS p1, p2, t1, t2

MCMatches == [k \in Rules |-> Txns]

MCRuleBodies == {[person |-> p1, tag |-> t1], [person |-> p2, tag |-> None]}

MCBulk(p, t, only) == [person |-> p, tag |-> t, sel |-> Txns, only |-> only]

MCBulkRequests == {MCBulk(p2, t1, TRUE), MCBulk(p1, None, FALSE),
                   MCBulk(Keep, t2, FALSE), MCBulk(None, t1, FALSE)}

MCSymmetry == Permutations(Handlers)

=============================================================================
