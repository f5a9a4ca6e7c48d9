---------------------------- MODULE PositionRisk ----------------------------
(***************************************************************************)
(* RiskAssessmentService over the positions of PositionTracking, and the   *)
(* alerts that DeFiController makes of it.                                 *)
(*                                                                         *)
(* A monitoring lists the positions of the user, assesses all of them at   *)
(* once, each from its own reading, and reports when the last is stored.   *)
(* The assessment of one position is a monitoring that lists it alone.     *)
(*                                                                         *)
(* Ratios are kept exact: a score is a numerator over a denominator until  *)
(* Math.round.  The protocol is Aave, the one adapter in the repository.   *)
(***************************************************************************)
EXTENDS PositionTracking, FiniteSetsExt

CONSTANT
  Scenarios  \* the scenarios a stress test may be given

ASSUME ScenarioTypes == Scenarios \subseteq [priceChange: -100..100, shutdown: BOOLEAN]

VARIABLES
  assessing,   \* the progress of the monitoring on each position: the row it has
               \* read, and the assessment it has stored
  monitoring,  \* it was asked for all positions, so it will report
  report       \* its answer, until the next is asked for

riskVars == <<assessing, monitoring, report>>

NotAssessed == [score |-> 0, level |-> "NONE", liquidation |-> FALSE, hours |-> 0]
NotListed == [pc |-> "out", row |-> NoRow, result |-> NotAssessed]

Levels == {"VERY_LOW", "LOW", "MEDIUM", "HIGH", "VERY_HIGH", "CRITICAL"}

----------------------------------------------------------------------------
(***************************************************************************)
(* The assessment of one row                                               *)
(***************************************************************************)

\* Math.round of a fraction that is not negative.
RoundHalfUp(n, d) == (2 * n + d) \div (2 * d)

\* AaveAdapter.getRiskMetrics, as far as the assessment takes from it.
AaveMetrics == [smartContract |-> 15, counterparty |-> 20, priceVolatility |-> 30,
                composability |-> 25]

GovernanceRisk == 20

\* calculateLiquidationRisk, as a numerator over a denominator.
LiquidationRisk(loan) ==
  IF loan.borrowed = 0 \/ loan.ltv = 0 \/ loan.maxLtv = 0 THEN [n |-> 0, d |-> 1]
  ELSE IF loan.ltv >= loan.maxLtv THEN [n |-> 100, d |-> 1]
  ELSE [n |-> 100 * loan.ltv, d |-> loan.maxLtv]

\* Faulty variant: the weight of liquidation is twice what is left by the others.
RiskScore_Heavy(loan) ==
  LET m == AaveMetrics
      l == LiquidationRisk(loan)
      bridge == IF loan.bridge THEN 20 ELSE 0
      rest == 25 * m.smartContract + 20 * m.priceVolatility + 15 * m.counterparty
                + 5 * GovernanceRisk + 3 * bridge + 2 * m.composability
  IN  RoundHalfUp(60 * l.n + l.d * rest, 100 * l.d)

\* calculateOverallRiskScore: the weights are percentages.
RiskScore(loan) ==
  LET m == AaveMetrics
      l == LiquidationRisk(loan)
      bridge == IF loan.bridge THEN 20 ELSE 0
      rest == 25 * m.smartContract + 20 * m.priceVolatility + 15 * m.counterparty
                + 5 * GovernanceRisk + 3 * bridge + 2 * m.composability
  IN  RoundHalfUp(30 * l.n + l.d * rest, 100 * l.d)

RiskLevel(score) ==
  IF score >= 80 THEN "CRITICAL" ELSE IF score >= 60 THEN "VERY_HIGH"
  ELSE IF score >= 40 THEN "HIGH" ELSE IF score >= 20 THEN "MEDIUM"
  ELSE IF score >= 10 THEN "LOW" ELSE "VERY_LOW"

Threshold(loan) == IF loan.threshold = 0 THEN 80 ELSE loan.threshold

\* estimateHoursToLiquidation, the larger of 0 and the rounded estimate; 0 also
\* stands for no estimate.
HoursToLiquidation(loan) ==
  IF loan.ltv = 0 \/ loan.maxLtv <= loan.ltv \/ loan.volatility = 0 THEN 0
  ELSE RoundHalfUp((loan.maxLtv - loan.ltv) * 2400, loan.ltv * loan.volatility)

LiquidationDetected(loan) ==
  loan.borrowed # 0 /\ loan.ltv # 0 /\ loan.ltv > Threshold(loan)

Assessed(loan) ==
  LET score == RiskScore(loan)
  IN  [score |-> score, level |-> RiskLevel(score),
       liquidation |-> LiquidationDetected(loan),
       hours |-> IF LiquidationDetected(loan) THEN HoursToLiquidation(loan) ELSE 0]

\* generateWarnings and generateRecommendations; the rest of either needs
\* figures that Aave does not have, or says the same of every position.
Warnings(loan) ==
  LET l == LiquidationRisk(loan)
  IN  (IF l.n > 50 * l.d THEN {"liquidation"} ELSE {})
        \cup (IF loan.bridge THEN {"bridge"} ELSE {})

Recommendations(loan) ==
  LET l == LiquidationRisk(loan)
  IN  IF l.n > 60 * l.d THEN {"reduce borrowing", "add collateral"} ELSE {}

----------------------------------------------------------------------------
(***************************************************************************)
(* Stress tests                                                            *)
(***************************************************************************)

\* calculateStressedRiskScore, doubled.
StressedScore(scenario) ==
  LET fall == IF scenario.priceChange < 0 THEN - scenario.priceChange ELSE 0
      doubled == 100 + fall + (IF scenario.shutdown THEN 100 ELSE 0)
  IN  IF doubled > 200 THEN 200 ELSE doubled

\* The price changes the value of the collateral and nothing the risk of
\* liquidation is computed from.
StressTest(loan, scenario) ==
  [score |-> StressedScore(scenario),
   liquidation |-> loan.ltv # 0 /\ loan.ltv > Threshold(loan),
   vulnerable |-> scenario.priceChange < -30]

----------------------------------------------------------------------------
(***************************************************************************)
(* Monitoring                                                              *)
(***************************************************************************)

RiskTypeOK ==
  /\ \A p \in Positions :
       /\ assessing[p].pc \in {"out", "read", "save", "stored", "failed"}
       /\ assessing[p].result.level \in IF assessing[p].pc = "stored" THEN Levels ELSE {"NONE"}
  /\ monitoring \in BOOLEAN
  /\ \/ report = NoRow
     \/ report.critical \in 0..Cardinality(Positions) /\ report.listed \subseteq Positions

RiskInit ==
  /\ assessing = [p \in Positions |-> NotListed]
  /\ monitoring = FALSE /\ report = NoRow

Listed == {p \in Positions : assessing[p].pc # "out"}

\* GET portfolio/risk-monitoring, health/check or alerts, and GET
\* risk/position/:id.
StartMonitoring(S, all) ==
  /\ Listed = {} /\ S # {}
  /\ S = Rows \/ (~all /\ Cardinality(S) = 1 /\ S \subseteq Rows)
  /\ assessing' = [p \in Positions |->
                     IF p \in S THEN [NotListed EXCEPT !.pc = "read"] ELSE NotListed]
  /\ monitoring' = all /\ report' = NoRow
  /\ UNCHANGED defiVars

AssessRead(p) ==
  /\ assessing[p].pc = "read"
  /\ assessing' = [assessing EXCEPT ![p].pc = "save", ![p].row = position[p]]
  /\ UNCHANGED <<monitoring, report, defiVars>>

\* The adapter throws, or the assessment is stored.
AssessSave(p) ==
  /\ assessing[p].pc = "save"
  /\ \/ assessing' = [assessing EXCEPT ![p] = [NotListed EXCEPT !.pc = "failed"]]
     \/ assessing' = [assessing EXCEPT ![p] =
          [NotListed EXCEPT !.pc = "stored", !.result = Assessed(assessing[p].row.loan)]]
  /\ UNCHANGED <<monitoring, report, defiVars>>

CountOf(S, level) == Cardinality({p \in S : assessing[p].result.level = level})

\* calculatePortfolioHealthRating of the sum of the scores of n positions.
HealthRating(sum, n) ==
  IF sum >= 60 * n THEN "CRITICAL" ELSE IF sum >= 45 * n THEN "POOR"
  ELSE IF sum >= 30 * n THEN "FAIR" ELSE IF sum >= 15 * n THEN "GOOD" ELSE "EXCELLENT"

Report(S) ==
  LET liquidations == Cardinality({p \in S : assessing[p].result.liquidation})
  IN  [listed |-> S, critical |-> CountOf(S, "CRITICAL"), high |-> CountOf(S, "HIGH"),
       liquidations |-> liquidations,
       action |-> CountOf(S, "CRITICAL") > 0 \/ liquidations > 0,
       health |-> HealthRating(MapThenSumSet(LAMBDA p : assessing[p].result.score, S),
                               Cardinality(S))]

\* The severities of the alerts made of a report.
Alerts(r) == (IF r.critical > 0 \/ r.liquidations > 0 THEN {"CRITICAL"} ELSE {})
               \cup (IF r.high > 0 THEN {"HIGH"} ELSE {})

\* One failure fails the whole answer.
EndMonitoring ==
  /\ Listed # {}
  /\ \A p \in Listed : assessing[p].pc \in {"stored", "failed"}
  /\ report' = IF monitoring /\ \A p \in Listed : assessing[p].pc = "stored"
                 THEN Report(Listed) ELSE NoRow
  /\ assessing' = [p \in Positions |-> NotListed]
  /\ monitoring' = FALSE
  /\ UNCHANGED defiVars

RiskNext ==
  \/ DefiNext /\ UNCHANGED riskVars
  \/ \E S \in SUBSET Positions, all \in BOOLEAN : StartMonitoring(S, all)
  \/ \E p \in Positions : AssessRead(p) \/ AssessSave(p)
  \/ EndMonitoring

RiskSpec == DefiInit /\ RiskInit /\ [][RiskNext]_<<defiVars, riskVars>>

----------------------------------------------------------------------------
(***************************************************************************)
(* Properties                                                              *)
(***************************************************************************)

\* stressTestPosition beside assessPositionRisk: whatever the scenario, a stress
\* test speaks of a liquidation exactly where the assessment of the position as
\* it is detects one, but for a repaid loan that kept a loan to value above the
\* threshold: only the assessment asks whether anything is borrowed.  It is the
\* score that tells scenarios apart, and a lower price or a shutdown never lowers
\* it.
StressOnlyInScore ==
  \A loan \in Borrowings \cup {NoBorrowing}, s, t \in Scenarios :
    LET repaid == loan.borrowed = 0 /\ loan.ltv > Threshold(loan)
    IN  /\ StressTest(loan, s).liquidation <=> LiquidationDetected(loan) \/ repaid
        /\ s.priceChange <= t.priceChange /\ (t.shutdown => s.shutdown) =>
             StressTest(loan, s).score >= StressTest(loan, t).score

\* assessPositionRisk: with the figures of Aave no position is assessed
\* above HIGH, however much it has borrowed, and HIGH is given only with the
\* warning of liquidation and the advice against it.  So an alert of CRITICAL
\* severity, shown exactly when immediate action is asked for, always stands
\* for a liquidation.  And a position that getPositionsAtRisk calls CRITICAL,
\* by a scale of its own, is assessed HIGH as it stands, unless its loan is
\* repaid, which that scale does not ask.
AaveNeverCritical ==
  /\ \A p \in Positions :
       assessing[p].result.level \in {"NONE", "LOW", "MEDIUM", "HIGH"}
  /\ \A p \in Rows :
       LET loan == position[p].loan
           high == RiskLevel(RiskScore(loan)) = "HIGH"
       IN  /\ high => "liquidation" \in Warnings(loan) /\ Recommendations(loan) # {}
           /\ p \in DOMAIN PositionsAtRisk /\ PositionsAtRisk[p] = "CRITICAL" =>
                high \/ loan.borrowed = 0
  /\ report # NoRow =>
       /\ "CRITICAL" \in Alerts(report) => report.liquidations > 0
       /\ report.action <=> "CRITICAL" \in Alerts(report)
  /\ StressOnlyInScore
=============================================================================
