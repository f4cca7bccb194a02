------------------------- MODULE PaperDecisionLoop -------------------------
(***************************************************************************)
(* trading/paper/decision_loop.py, PaperDecisionLoop.run: strategy, risk,  *)
(* authorization and paper fill for every row, in timestamp order, on the  *)
(* account of PaperAccount and behind the gate of RiskGate.  The strategy  *)
(* is a direction chosen at each row; no row of this loop closes a         *)
(* position.                                                               *)
(***************************************************************************)
EXTENDS PaperAccount, RiskGate

CONSTANTS StartEquity,   \* initial_equity
          StopDistances,   \* stop distances of the candidates
          MaxDays          \* bound: days with rows

ASSUME LoopAssumption ==
  /\ {StartEquity, MaxDays} \subseteq Nat \ {0}
  /\ StopDistances \subseteq Nat \ {0}

VARIABLES
  marks,                  \* last_prices; 0 where no row was seen
  day,                    \* number of session dates so far
  dayEquity, dayRealized, tradesToday

dayVars == <<marks, day, dayEquity, dayRealized, tradesToday>>
loopVars == <<accountVars, dayVars>>

LoopTypeOK ==
  /\ AccountTypeOK
  /\ marks \in [Symbols -> Prices \cup {0}]
  /\ day \in 0..MaxDays /\ tradesToday \in 0..MaxTrades
  /\ {dayEquity, dayRealized} \subseteq Int

LoopInit ==
  /\ AccountInit
  /\ marks = [s \in Symbols |-> 0]
  /\ day = 0 /\ dayEquity = StartEquity /\ dayRealized = 0 /\ tradesToday = 0

EquityAt(m) == StartEquity + realized + Unrealized(m)

(* The account as the loop describes it to the gate: the day's realized    *)
(* profit and all of the unrealized one, no cash limit.                    *)
AccountAtRow(s, m, start, realizedAtStart, done) ==
  [healthy |-> TRUE, pnl |-> realized - realizedAtStart + Unrealized(m),
   dayStart |-> start, trades |-> done,
   open |-> Cardinality(HeldSymbols), held |-> qty[s] # 0,
   equity |-> EquityAt(m), cash |-> EquityAt(m) * m[s], gross |-> Exposure(m)]

(* The decision on a row and what it does to the account.                  *)
DecideDropsHeld(s, side, stop, a) ==       \* mutant: the open symbol is not passed on
  LET d == DecideFlat([a EXCEPT !.held = FALSE], side = 1, marks'[s], stop, 100)
  IN  /\ tradesToday' = a.trades + (IF d.approved THEN 1 ELSE 0)
      /\ IF d.approved THEN Submit(s, side, d.quantity, marks'[s])
                       ELSE UNCHANGED accountVars
DecideRow(s, side, stop, a) ==
  LET d == DecideFlat(a, side = 1, marks'[s], stop, 100)
  IN  /\ tradesToday' = a.trades + (IF d.approved THEN 1 ELSE 0)
      /\ IF d.approved THEN Submit(s, side, d.quantity, marks'[s])
                       ELSE UNCHANGED accountVars

(* A row of symbol s: the price is known before anything else, a new date  *)
(* starts the day at the equity of this row, a row without a direction     *)
(* (side 0) does not enter the gate.  A row on an account without equity   *)
(* ends the run with an exception.                                         *)
Row(s, price, side, stop, fresh) ==
  LET m     == [marks EXCEPT ![s] = price]
      start == IF fresh THEN EquityAt(m) ELSE dayEquity
      base  == IF fresh THEN realized ELSE dayRealized
      a     == AccountAtRow(s, m, start, base, IF fresh THEN 0 ELSE tradesToday)
  IN  /\ fresh \/ day > 0
      /\ EquityAt(m) > 0
      /\ day' = IF fresh THEN day + 1 ELSE day
      /\ marks' = m /\ dayEquity' = start /\ dayRealized' = base
      /\ IF side = 0 THEN tradesToday' = a.trades /\ UNCHANGED accountVars
                     ELSE DecideRow(s, side, stop, a)

LoopNext ==
  \E s \in Symbols, price \in Prices, side \in {-1, 0, 1}, stop \in StopDistances,
     fresh \in BOOLEAN :
    /\ fresh => day < MaxDays
    /\ Row(s, price, side, stop, fresh)

LoopSpec == LoopInit /\ [][LoopNext]_loopVars

-----------------------------------------------------------------------------
(* Properties                                                              *)

(* Whatever the rows, never more positions than max_open_positions nor     *)
(* more entries over the days than max_trades_per_day allows each.         *)
WithinLimits ==
  /\ Cardinality(HeldSymbols) <= MaxOpen
  /\ Cardinality(HeldSymbols) <= MaxTrades * day

(* The limits hold over the rows of all days; a symbol is entered once in  *)
(* a run and keeps the position of that entry, the journal being the list  *)
(* of them; and right after an entry the whole book, at the latest prices, *)
(* is within the gross exposure limit of the equity it was decided on (its *)
(* own fees and slippage aside).                                           *)
EntriesSound ==
  /\ []WithinLimits
  /\ [](journal = Cardinality(HeldSymbols))
  /\ [][\A s \in HeldSymbols : qty'[s] = qty[s] /\ cost'[s] = cost[s]]_loopVars
  /\ [][qty' # qty => 100 * Exposure(marks)' <= GrossPct * EquityAt(marks')]_loopVars
=============================================================================
