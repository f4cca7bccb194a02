---------------------------- MODULE PaperAccount ----------------------------
(***************************************************************************)
(* paper/runtime.py, PaperTradingRuntime: positions with an average price, *)
(* realized profit and the journal of simulated fills.                     *)
(*                                                                         *)
(* Money is an integer.  A position keeps its signed quantity and the cost *)
(* average_price * quantity instead of the average price; prices are taken *)
(* divisible enough for the cost of a part of a position to be exact.      *)
(***************************************************************************)
EXTENDS Integers, FiniteSetsExt

CONSTANTS Symbols, Prices,
          FeePct,      \* config.fee_bps, as a percentage, rounded down
          SlipPct,     \* config.slippage_bps, as a percentage, rounded down
          MaxOrders    \* bound: orders in the journal

ASSUME AccountAssumption ==
  /\ IsFiniteSet(Symbols)
  /\ Prices \subseteq Nat \ {0}
  /\ {FeePct, SlipPct} \subseteq 0..99
  /\ MaxOrders \in Nat

VARIABLES
  qty, cost, pnl,   \* _positions: signed quantity, |quantity| * average, realized
  realized,         \* _realized_pnl
  journal,          \* filled and rejected orders in the journal
  cash,             \* money the fills and their fees moved (initially nothing)
  moved,            \* per symbol, that money since its position was opened
  bought            \* signed quantity filled

books == <<qty, cost, pnl, realized>>
fillVars == <<cash, moved, bought>>   \* kept for the properties
accountVars == <<books, journal, fillVars>>

AccountTypeOK ==
  /\ {qty, bought, pnl, moved} \subseteq [Symbols -> Int]
  /\ cost \in [Symbols -> Nat]
  /\ {realized, cash} \subseteq Int
  /\ journal \in 0..MaxOrders

AccountInit ==
  /\ qty = [s \in Symbols |-> 0] /\ cost = qty /\ pnl = qty /\ moved = qty /\ bought = qty
  /\ realized = 0 /\ cash = 0 /\ journal = 0

Magnitude(x) == IF x < 0 THEN -x ELSE x
Sgn(x) == IF x < 0 THEN -1 ELSE 1

Fill(price, side) == price + side * ((price * SlipPct) \div 100)
Fee(notional) == (notional * FeePct) \div 100

(* What an order of n at fill price f on one side makes of a position with *)
(* signed quantity q and cost c: quantity, cost and profit realized.       *)
FilledKeepsCost(q, c, side, n, f) ==   \* mutant: a partial close keeps the whole cost
  IF q * side >= 0
  THEN [qty |-> q + side * n, cost |-> c + n * f, gain |-> 0]
  ELSE LET closed == IF n < Magnitude(q) THEN n ELSE Magnitude(q)
           part   == (c * closed) \div Magnitude(q)
       IN  [qty  |-> q + side * n,
            cost |-> IF n > closed THEN (n - closed) * f ELSE IF n < Magnitude(q) THEN c ELSE 0,
            gain |-> Sgn(q) * (closed * f - part)]
Filled(q, c, side, n, f) ==
  IF q * side >= 0
  THEN [qty |-> q + side * n, cost |-> c + n * f, gain |-> 0]
  ELSE LET closed == IF n < Magnitude(q) THEN n ELSE Magnitude(q)
           part   == (c * closed) \div Magnitude(q)
       IN  [qty  |-> q + side * n,
            cost |-> IF n > closed THEN (n - closed) * f ELSE c - part,
            gain |-> Sgn(q) * (closed * f - part)]

(* An order on a flat symbol opens a new position: what was earned with    *)
(* the one before is no longer told of the symbol, only of the account.  A *)
(* reversal goes on with the profit of the position it closes.             *)
Earlier(figure, s) == IF qty[s] = 0 THEN 0 ELSE figure[s]

(* What a fill at f, and its fee, do.                                      *)
Moved(s, side, n, f, fee) ==
  /\ cash' = cash - side * n * f - fee
  /\ moved' = [moved EXCEPT ![s] = Earlier(moved, s) - side * n * f - fee]
  /\ bought' = [bought EXCEPT ![s] = @ + side * n]

SubmitFeeTwice(s, side, n, price) ==   \* mutant: a reversal charges the fee on both legs
  LET f   == Fill(price, side)
      fee == Fee(n * f)
      new == Filled(qty[s], cost[s], side, n, f)
  IN  /\ journal < MaxOrders
      /\ journal' = journal + 1
      /\ qty' = [qty EXCEPT ![s] = new.qty] /\ cost' = [cost EXCEPT ![s] = new.cost]
      /\ pnl' = [pnl EXCEPT ![s] = Earlier(pnl, s) + new.gain
                                    - (IF qty[s] * side < 0 THEN 2 * fee ELSE fee)]
      /\ realized' = realized - fee + new.gain
      /\ Moved(s, side, n, f, fee)
SubmitKeepsProfit(s, side, n, price) ==   \* mutant: a position opened anew keeps the profit before
  LET f   == Fill(price, side)
      fee == Fee(n * f)
      new == Filled(qty[s], cost[s], side, n, f)
  IN  /\ journal < MaxOrders
      /\ journal' = journal + 1
      /\ qty' = [qty EXCEPT ![s] = new.qty] /\ cost' = [cost EXCEPT ![s] = new.cost]
      /\ pnl' = [pnl EXCEPT ![s] = @ + new.gain - fee]
      /\ realized' = realized - fee + new.gain
      /\ Moved(s, side, n, f, fee)
(* An authorized order: the fee is charged once for the whole order.       *)
Submit(s, side, n, price) ==
  LET f   == Fill(price, side)
      fee == Fee(n * f)
      new == Filled(qty[s], cost[s], side, n, f)
  IN  /\ journal < MaxOrders
      /\ journal' = journal + 1
      /\ qty' = [qty EXCEPT ![s] = new.qty] /\ cost' = [cost EXCEPT ![s] = new.cost]
      /\ pnl' = [pnl EXCEPT ![s] = Earlier(pnl, s) + new.gain - fee]
      /\ realized' = realized - fee + new.gain
      /\ Moved(s, side, n, f, fee)

(* An order that is not authorized is journalled and touches no book.      *)
SubmitBlocked ==
  /\ journal < MaxOrders
  /\ journal' = journal + 1
  /\ UNCHANGED <<books, fillVars>>

(* account_snapshot at the prices m: unrealized profit and gross exposure. *)
Unrealized(m) == SumFunction([s \in Symbols |-> qty[s] * m[s] - Sgn(qty[s]) * cost[s]])
Exposure(m)   == SumFunction([s \in Symbols |-> Magnitude(qty[s]) * m[s]])
HeldSymbols   == {s \in Symbols : qty[s] # 0}

-----------------------------------------------------------------------------
(* Properties                                                              *)

(* account_snapshot: initial equity + realized + unrealized is what the    *)
(* fills really left: the cash they moved plus the positions at market, at *)
(* whatever price (both sides grow by qty * price), through additions,     *)
(* partial closes and reversals.                                           *)
BooksBalance ==
  realized - SumFunction([s \in Symbols |-> Sgn(qty[s]) * cost[s]]) = cash

(* mark_to_market, "unrealized + realized PnL for the current paper        *)
(* position", is what the fills of that position really left, at whatever  *)
(* price: the money they moved since the symbol was last flat plus the     *)
(* position at market.  A reversal, which never leaves the symbol flat,    *)
(* continues it.  The position itself is what the journal filled.          *)
PositionsBalance ==
  /\ \A s \in Symbols : pnl[s] - Sgn(qty[s]) * cost[s] = moved[s]
  /\ qty = bought
(* The account and each position tell the story of the fills: of all of    *)
(* them, and of those since the position was opened (submit,               *)
(* account_snapshot, mark_to_market).                                      *)
AccountAddsUp == BooksBalance /\ PositionsBalance
=============================================================================
