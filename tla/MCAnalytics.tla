---------------------------- MODULE MCAnalytics ----------------------------
(* A small instance of Analytics for TLC: one day of one month and two of *)
(* the next, a purchase and a refund of different channels.                *)
EXTENDS Analytics

MCMonthOf == [d \in Days |-> IF d = 0 THEN 1 ELSE 2]

MCClasses == {[direction |-> "out", kind |-> "consume", channel |-> "shop"],
              [direction |-> "in", kind |-> "refund", channel |-> "bank"]}

=============================================================================
