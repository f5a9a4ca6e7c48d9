----------------------------- MODULE MCServices -----------------------------
(***************************************************************************)
(* Services on two requests (q) about two things (x).                      *)
(*                                                                         *)
(* The loans lie around the thresholds of the risk assessment: below and   *)
(* above the default threshold, bridged, above the maximum, repaid.        *)
(***************************************************************************)
EXTENDS Services, TLC

CONSTANTS q1, q2, x1, x2, y1, y2

Loan(borrowed, ltv, maxLtv, threshold, bridge) ==
  [borrowed |-> borrowed, ltv |-> ltv, maxLtv |-> maxLtv, threshold |-> threshold,
   volatility |-> 5, bridge |-> bridge]

Loans == {Loan(1, 50, 90, 0, FALSE), Loan(1, 81, 85, 0, TRUE), Loan(1, 90, 80, 95, FALSE),
          Loan(0, 81, 85, 0, FALSE)}

StressScenarios ==
  [priceChange: {-100, -31, 0, 50}, shutdown: BOOLEAN]

Symmetric == Permutations({q1, q2}) \cup Permutations({x1, x2})
=============================================================================
