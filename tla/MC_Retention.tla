---------------------------- MODULE MC_Retention ----------------------------
(* Model-checking instance of Retention.  Times are hours 1..4 of a        *)
(* calendar where day and week boundaries fall between different ticks,   *)
(* and a week straddles the month boundary, as ISO weeks do.               *)
EXTENDS Retention, TLC

MCTimes == 1..4
MCDayOf(t) == t
MCWeekOf(t) == (t + 1) \div 2
MCMonthOf(t) == t \div 4

P(l, d, w, m) == [keepLast |-> l, keepDaily |-> d, keepWeekly |-> w, keepMonthly |-> m]

(* The prune defaults (7/30/12/24 scaled to the model), the all-zero       *)
(* policy, and single-dimension policies at the boundary 1.                *)
MCPolicies ==
    {P(0, 0, 0, 0), P(1, 0, 0, 0), P(2, 0, 0, 0), P(0, 1, 0, 0), P(0, 2, 0, 0),
     P(0, 0, 1, 0), P(0, 0, 0, 1), P(1, 1, 1, 1)}

MCSymmetry == Permutations(Snap) \cup Permutations(Jobs)
=============================================================================
