------------------------------ MODULE RiskGate ------------------------------
(***************************************************************************)
(* trading/risk/engine.py, RiskEngine.evaluate: what the gate answers to   *)
(* one candidate.  Prices, quantities and money are integers, fractions of *)
(* RiskConfig are percentages and quantity_step is 1.  The reason codes of *)
(* rejections are left out: a candidate is approved or it is not.          *)
(***************************************************************************)
EXTENDS Integers

CONSTANTS RiskPct,       \* risk_per_trade
          DailyLossPct,  \* max_daily_loss
          GrossPct,      \* max_gross_exposure
          MaxTrades,     \* max_trades_per_day
          MaxOpen,       \* max_open_positions
          AllowResize    \* allow_resize

ASSUME RiskAssumption ==
  /\ {RiskPct, DailyLossPct, GrossPct} \subseteq 1..100
  /\ {MaxTrades, MaxOpen} \subseteq Nat \ {0}
  /\ AllowResize \in BOOLEAN

Abs(x) == IF x < 0 THEN -x ELSE x
Least(x, y) == IF x < y THEN x ELSE y

(* RiskPositionContext: the geometry its validation accepts for a signed   *)
(* position that goes from e to p determines the transition.               *)
Transition(e, p) ==
  CASE e = 0            -> "OPEN"
    [] e # 0 /\ p = 0   -> "FLATTEN"
    [] e * p < 0        -> "REVERSE"
    [] e * p > 0 /\ Abs(p) > Abs(e)  -> "INCREASE"
    [] e * p > 0 /\ Abs(p) <= Abs(e) -> "REDUCE"

(* RiskTransitionSizing.from_context                                       *)
ClosingNet(e, p) ==              \* mutant: a reversal closes nothing first
  IF e * p < 0 THEN 0 ELSE IF Abs(e) > Abs(p) THEN Abs(e) - Abs(p) ELSE 0
Closing(e, p) ==
  CASE e = 0 -> 0
    [] e * p > 0 -> IF Abs(e) > Abs(p) THEN Abs(e) - Abs(p) ELSE 0
    [] OTHER -> Abs(e)
OpeningWhole(e, p) ==            \* mutant: an increase opens the whole projection
  IF e * p > 0 /\ Abs(p) < Abs(e) THEN 0 ELSE Abs(p)
Opening(e, p) ==
  CASE e * p > 0 -> IF Abs(p) > Abs(e) THEN Abs(p) - Abs(e) ELSE 0
    [] OTHER -> Abs(p)

SizedUp(equity, stop) ==         \* mutant: rounded up to the next step
  (equity * RiskPct) \div (100 * stop) + 1
PositionSize(equity, stop) == (equity * RiskPct) \div (100 * stop)

DailyLossReached(pnl, dayStart) == 100 * pnl <= -(dayStart * DailyLossPct)

OverExposed(gross, equity) == 100 * gross > equity * GrossPct

Rejected == [approved |-> FALSE, quantity |-> 0, projected |-> 0, gross |-> 0]

NoSlotLimit(a, entry, slot) ==     \* mutant: open positions are not counted
  /\ a.healthy
  /\ ~DailyLossReached(a.pnl, a.dayStart)
  /\ entry => a.trades < MaxTrades
(* The account gates of section 2, for a candidate that takes an entry of  *)
(* the day (entry) and one that opens another symbol (slot).               *)
WithinAccountLimits(a, entry, slot) ==
  /\ a.healthy
  /\ ~DailyLossReached(a.pnl, a.dayStart)
  /\ entry => a.trades < MaxTrades
  /\ slot => a.open < MaxOpen

NoRoomLeft(a, long, price, stop, vol) ==  \* mutant: the exposure of the order alone
  LET sized == PositionSize(a.equity, stop)
      qty   == (Least(sized, a.cash \div price) * vol) \div 100
  IN  IF /\ WithinAccountLimits(a, TRUE, ~a.held) /\ ~a.held /\ qty > 0
         /\ ~OverExposed(price * qty, a.equity)
      THEN [approved |-> TRUE, quantity |-> qty, gross |-> a.gross + price * qty,
            projected |-> IF long THEN qty ELSE -qty]
      ELSE Rejected
(* Sections 3 to 8 for a candidate without a position context: the symbol  *)
(* is flat, the quantity is what the risk budget, the cash, the volatility *)
(* factor and, when resizing, the exposure leave.                          *)
DecideFlat(a, long, price, stop, vol) ==
  LET sized   == PositionSize(a.equity, stop)
      cashQty == a.cash \div price
      wanted  == Least(sized, cashQty)
      qty     == (wanted * vol) \div 100
      over    == OverExposed(a.gross + price * qty, a.equity)
      room    == (a.equity * GrossPct - 100 * a.gross) \div (100 * price)
      final   == IF over THEN Least(qty, room) ELSE qty
  IN  IF /\ WithinAccountLimits(a, TRUE, ~a.held) /\ ~a.held
         /\ wanted > 0 /\ qty > 0 /\ final > 0
         /\ (cashQty < sized \/ qty < wanted \/ over) => AllowResize
      THEN [approved |-> TRUE, quantity |-> final, gross |-> a.gross + price * final,
            projected |-> IF long THEN final ELSE -final]
      ELSE Rejected

(* projected_gross_exposure and gross_exposure_after: a release or reversal *)
(* replaces the contribution of the symbol, an order that opens adds to it. *)
GrossAddsOpening(kind, gross, e, p, opening, price) ==  \* mutant: the old leg is taken off twice
  CASE kind = "REVERSE" -> gross + price * (opening - 2 * Abs(e))
    [] kind \in {"REDUCE", "FLATTEN"} -> gross + price * (Abs(p) - Abs(e))
    [] OTHER -> gross + price * opening
GrossAfter(kind, gross, e, p, opening, price) ==
  CASE kind = "REVERSE" -> gross + price * (opening - Abs(e))
    [] kind \in {"REDUCE", "FLATTEN"} -> gross + price * (Abs(p) - Abs(e))
    [] OTHER -> gross + price * opening

(* The same with a position context.  Releases take the whole order of the *)
(* transition; the others open what was asked for or what the risk budget  *)
(* allows, whatever cash and volatility factor have left of it, and resize *)
(* the order, not its projection, to the exposure limit.                   *)
DecideTransition(a, e, p, price, stop, vol) ==
  LET kind    == Transition(e, p)
      release == kind \in {"REDUCE", "FLATTEN"}
      reverse == kind = "REVERSE"
      sized   == PositionSize(a.equity, stop)
      asked   == Opening(e, p)
      opening == Least(sized, asked)
      cashQty == a.cash \div price
      short   == ~release /\ cashQty < opening
      wanted  == IF release THEN Abs(p - e) ELSE IF short THEN cashQty ELSE opening
      order   == CASE release -> Abs(p - e)
                   [] reverse -> Closing(e, p) + opening
                   [] OTHER   -> opening
      over    == OverExposed(GrossAfter(kind, a.gross, e, p, opening, price), a.equity)
      room    == (a.equity * GrossPct - 100 * a.gross) \div (100 * price)
      opened  == IF over /\ reverse THEN Least(opening, room) ELSE opening
      final   == CASE ~over           -> order
                   [] over /\ reverse -> Closing(e, p) + opened
                   [] OTHER           -> Least(order, room)
  IN  IF /\ WithinAccountLimits(a, ~release, kind = "OPEN")
         /\ wanted > 0 /\ (release \/ vol > 0) /\ order > 0
         /\ (short \/ (~release /\ opening < asked)) => AllowResize
         /\ over => AllowResize /\ room > 0
      THEN [approved |-> TRUE, quantity |-> final,
            gross |-> IF over /\ ~reverse THEN a.gross + price * final
                      ELSE GrossAfter(kind, a.gross, e, p, opened, price),
            projected |-> CASE release -> p
                            [] reverse -> IF e > 0 THEN -opened ELSE opened
                            [] OTHER   -> e + (IF p > 0 THEN opening ELSE -opening)]
      ELSE Rejected
=============================================================================
