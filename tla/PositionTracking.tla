-------------------------- MODULE PositionTracking --------------------------
(***************************************************************************)
(* DeFi positions of one user, in PositionTrackingService.                 *)
(*                                                                         *)
(* A request loads the position as an entity, may ask the chain, and saves *)
(* the whole entity: columns written by another request since it was       *)
(* loaded are overwritten.  The entities, the protocol registry and the    *)
(* services that borrow are not in the repository; a position's borrowing  *)
(* columns are set by them.  Amounts are whole tokens, and 0 stands for a  *)
(* column that is null or 0.                                               *)
(***************************************************************************)
EXTENDS Integers, FiniteSets

CONSTANTS
  DefiCalls,               \* slots for requests in flight
  Positions, Transactions, \* ids
  Balances, Prices,        \* what the chain may answer
  Borrowings,              \* what the borrowing columns may hold
  NoRow,                   \* "no row"
  MaxDefiCalls             \* bounds the requests of a behaviour

ASSUME DefiBounds == MaxDefiCalls \in Nat
ASSUME DefiAmounts == Balances \subseteq Nat /\ Prices \subseteq Nat
ASSUME DefiFinite == IsFiniteSet(Positions)
\* Any column may be set whatever the others are: a loan that was repaid can keep
\* the loan to value it had.
ASSUME BorrowingTypes ==
  Borrowings \subseteq [borrowed: Nat, ltv: Nat, maxLtv: Nat, threshold: Nat,
                        volatility: Nat, bridge: BOOLEAN]

VARIABLES
  position,     \* the defi_position table
  transaction,  \* the status of each row of the defi_transaction table
  defiCall,     \* each slot: the call it awaits, and the entity it holds
  closed,       \* history: positions a close has answered for
  reopened,     \* history: positions saved from an entity loaded before that
  defiCalls     \* what has been used of the bound

defiVars == <<position, transaction, defiCall, closed, reopened, defiCalls>>

\* The columns that some code reads.
NoBorrowing == [borrowed |-> 0, ltv |-> 0, maxLtv |-> 0, threshold |-> 0,
                volatility |-> 0, bridge |-> FALSE]

\* What a row holds.
Row == [status: {"active", "closed", "liquidation_risk"}, amount: Balances, yield: Int,
        loan: Borrowings \cup {NoBorrowing}]

ASSUME NoRowOutside == NoRow \notin Row

IdleDefi == [pc |-> "idle", op |-> "none", id |-> NoRow, entity |-> NoRow, final |-> NoRow,
             late |-> FALSE]

Rows == {p \in Positions : position[p] # NoRow}

DefiTypeOK ==
  /\ position \in [Positions -> {NoRow} \cup Row]
  /\ transaction \in [Transactions -> {"none", "simulated", "submitted"}]
  /\ \A q \in DefiCalls :
       /\ defiCall[q].pc \in {"idle", "read", "chain", "save"}
       /\ defiCall[q].op \in {"none", "sync", "claim", "close"}
  /\ closed \in SUBSET Rows /\ reopened \in SUBSET Rows
  /\ defiCalls \in 0..MaxDefiCalls

DefiInit ==
  /\ position = [p \in Positions |-> NoRow]
  /\ transaction = [t \in Transactions |-> "none"]
  /\ defiCall = [q \in DefiCalls |-> IdleDefi]
  /\ closed = {} /\ reopened = {} /\ defiCalls = 0

----------------------------------------------------------------------------
(***************************************************************************)
(* Requests                                                                *)
(***************************************************************************)

DefiAt(q, name) == defiCall[q].pc = name
DefiEnds(q) == defiCall' = [defiCall EXCEPT ![q] = IdleDefi]

\* POST positions: one insertion.
TrackPosition(p, amount) ==
  /\ position[p] = NoRow /\ defiCalls < MaxDefiCalls
  /\ position' = [position EXCEPT ![p] =
       [status |-> "active", amount |-> amount, yield |-> 0, loan |-> NoBorrowing]]
  /\ defiCalls' = defiCalls + 1
  /\ UNCHANGED <<transaction, defiCall, closed, reopened>>

\* POST positions/:id/sync, DELETE positions/:id/close and POST rewards/claim.
StartDefi(q, op, p, final) ==
  /\ DefiAt(q, "idle") /\ defiCalls < MaxDefiCalls
  /\ op # "close" => final = NoRow
  /\ defiCall' = [defiCall EXCEPT ![q] =
       [IdleDefi EXCEPT !.pc = "read", !.op = op, !.id = p, !.final = final]]
  /\ defiCalls' = defiCalls + 1
  /\ UNCHANGED <<position, transaction, closed, reopened>>

\* Faulty variant: a close with a final amount leaves the status.
Closed_AmountOnly(entity, final) ==
  IF final = NoRow THEN [entity EXCEPT !.status = "closed"]
  ELSE [entity EXCEPT !.amount = final]

\* closePosition, with a final amount or without.
Closed(entity, final) ==
  [entity EXCEPT !.status = "closed", !.amount = IF final = NoRow THEN @ ELSE final]

\* A claim finds no records, because its route passes none, and adds nothing.
Claimed(entity) == entity

LoadPosition(q) ==
  /\ DefiAt(q, "read")
  /\ LET c == defiCall[q]
         row == position[c.id]
     IN  IF row = NoRow THEN DefiEnds(q)
         ELSE defiCall' = [defiCall EXCEPT ![q] =
                [c EXCEPT !.pc = IF c.op = "sync" THEN "chain" ELSE "save",
                          !.entity = CASE c.op = "close" -> Closed(row, c.final)
                                       [] c.op = "claim" -> Claimed(row)
                                       [] c.op = "sync" -> row]]
  /\ UNCHANGED <<position, transaction, closed, reopened, defiCalls>>

\* Faulty variant: the amount is the value in dollars.
Synced_Value(entity, balance, price) ==
  [entity EXCEPT !.amount = balance * price, !.yield = @ + (balance * price - balance)]

\* The new balance is in place when the yield is computed from it, so a sync
\* adds what the price makes of the balance, whatever it held before.
Synced(entity, balance, price) ==
  [entity EXCEPT !.amount = balance, !.yield = @ + (balance * price - balance)]

\* AaveAdapter answers, with no price for a token it does not know, or throws.
SyncPosition(q) ==
  /\ DefiAt(q, "chain")
  /\ \/ \E balance \in Balances, price \in Prices \cup {0} :
          defiCall' = [defiCall EXCEPT ![q].pc = "save",
                                       ![q].entity = Synced(@, balance, price)]
     \/ DefiEnds(q)
  /\ UNCHANGED <<position, transaction, closed, reopened, defiCalls>>

\* Saves that come after a close with an entity from before it.
SavePosition(q) ==
  /\ DefiAt(q, "save")
  /\ LET c == defiCall[q]
         closes == c.op = "close"
     IN  /\ position' = [position EXCEPT ![c.id] = c.entity]
         /\ closed' = IF closes THEN closed \cup {c.id} ELSE closed
         /\ reopened' = IF closes THEN reopened \ {c.id}
                        ELSE IF c.late THEN reopened \cup {c.id} ELSE reopened
         /\ defiCall' = [r \in DefiCalls |->
              IF r = q THEN IdleDefi
              ELSE [defiCall[r] EXCEPT !.late =
                      @ \/ (closes /\ defiCall[r].id = c.id
                              /\ defiCall[r].pc \in {"chain", "save"})]]
  /\ UNCHANGED <<transaction, defiCalls>>

\* POST transactions: recorded for a position that exists.
RecordTransaction(t, p) ==
  /\ transaction[t] = "none" /\ position[p] # NoRow /\ defiCalls < MaxDefiCalls
  /\ transaction' = [transaction EXCEPT ![t] = "simulated"]
  /\ defiCalls' = defiCalls + 1
  /\ UNCHANGED <<position, defiCall, closed, reopened>>

\* POST transactions/:id/execute, with no regard to the status.
ExecuteTransaction(t) ==
  /\ transaction[t] # "none" /\ defiCalls < MaxDefiCalls
  /\ transaction' = [transaction EXCEPT ![t] = "submitted"]
  /\ defiCalls' = defiCalls + 1
  /\ UNCHANGED <<position, defiCall, closed, reopened>>

\* A service outside the repository stores what a position borrows, or that it
\* was repaid.
Borrows(p, loan, status) ==
  /\ position[p] # NoRow /\ position[p].status # "closed" /\ defiCalls < MaxDefiCalls
  /\ position' = [position EXCEPT ![p].loan = loan, ![p].status = status]
  /\ defiCalls' = defiCalls + 1
  /\ UNCHANGED <<transaction, defiCall, closed, reopened>>

DefiNext ==
  \/ \E p \in Positions, b \in Balances \ {0} : TrackPosition(p, b)
  \/ \E q \in DefiCalls :
       \/ \E op \in {"sync", "claim", "close"}, p \in Positions, final \in {NoRow} \cup Balances :
            StartDefi(q, op, p, final)
       \/ LoadPosition(q) \/ SyncPosition(q) \/ SavePosition(q)
  \/ \E t \in Transactions : ExecuteTransaction(t)
                             \/ \E p \in Positions : RecordTransaction(t, p)
  \/ \E p \in Positions, loan \in Borrowings, s \in {"active", "liquidation_risk"} :
       Borrows(p, loan, s)

DefiSpec == DefiInit /\ [][DefiNext]_defiVars

----------------------------------------------------------------------------
(***************************************************************************)
(* Queries                                                                 *)
(***************************************************************************)

\* getPositionsAtRisk: the level of a loan to value against its maximum.
PositionRiskLevel(loan) ==
  IF loan.ltv = 0 \/ loan.maxLtv = 0 THEN "LOW"
  ELSE IF loan.ltv * 10 > 9 * loan.maxLtv THEN "CRITICAL"
  ELSE IF loan.ltv * 10 > 8 * loan.maxLtv THEN "HIGH"
  ELSE IF loan.ltv * 10 > 6 * loan.maxLtv THEN "MEDIUM" ELSE "LOW"

PositionsAtRisk ==
  [p \in {r \in Rows : position[r].status = "liquidation_risk"} |->
     PositionRiskLevel(position[p].loan)]

----------------------------------------------------------------------------
\* closePosition: a position whose close was answered is closed, unless a
\* sync or a claim that had loaded it before has saved it since.
ReopenedOnlyByStaleSave ==
  \A p \in closed \ reopened : position[p].status = "closed"
=============================================================================
