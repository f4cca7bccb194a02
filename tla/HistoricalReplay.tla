-------------------------- MODULE HistoricalReplay --------------------------
(***************************************************************************)
(* backtesting/engine.py, HistoricalBacktestEngine: historical rows are    *)
(* replayed through the strategy, the risk gate and a simulated broker, in *)
(* the order of their timestamps and, at one timestamp, of their symbols.  *)
(*                                                                         *)
(* Money is an integer, prices are taken divisible enough for a fill, a    *)
(* target and a share of an entry's costs to be exact.  The strategy's     *)
(* answer and the rows are inputs, met row by row.                         *)
(* A row knows whether it is the last one of its symbol and day, as the    *)
(* set _session_end_rows computed; the rows at the final timestamp are     *)
(* last rows too, which leaves the guard "timestamp < final_timestamp" and *)
(* the clean-up _close_remaining_trades nothing of their own to do.        *)
(***************************************************************************)
EXTENDS RiskGate, Sequences, FiniteSets, Functions

CONSTANTS SymbolOrder,   \* the symbols, in alphabetical order
          Candles,       \* rows: low, close, high and the distances of the stops
                         \* of a LONG and a SHORT candidate, 0 where none can be built
          FeePct, SlipPct,
          TargetPct,     \* target_reward_risk, in percent
          PartialPct,    \* partial_exit_fraction, in percent
          MaxHolding,    \* max_holding_minutes
          Starting,      \* starting_equity
          MaxRows, MaxReplayTime   \* bounds: rows replayed, time of the last

Tickers == {SymbolOrder[i] : i \in DOMAIN SymbolOrder}

ASSUME ReplayAssumption ==
  /\ SymbolOrder \in Seq(Tickers)
  /\ {TargetPct, MaxHolding, Starting} \subseteq Nat \ {0}
  /\ PartialPct \in 1..100 /\ {FeePct, SlipPct} \subseteq 0..99

ASSUME RowsAssumption ==
  \A b \in Candles :
    /\ {b.low, b.close, b.high, b.close - b.long} \subseteq Nat \ {0}
    /\ b.low <= b.close /\ b.close <= b.high
    /\ {b.long, b.short} \subseteq Nat
    /\ \A stop \in {b.long, b.short} \ {0} : stop * TargetPct >= 100

VARIABLES
  minute, place,     \* timestamp of the rows being replayed, symbols done at it
  seen, ended,       \* symbols with a row today, with their last row of the day
  trades, marks,     \* lifecycle._open with _trade_levels; _last_marks
  net, gross,        \* over all outcomes: net_pnl, gross_pnl
  netToday, entries, \* over today's: net_pnl, orders filled
  dayStart,          \* _day_start_equity
  money, rows        \* what the fills and fees moved; rows replayed

replayVars == <<minute, place, seen, ended, trades, marks, net, gross, netToday,
                entries, dayStart, money, rows>>

NoTrade == [side |-> 0]

ReplayInit ==
  /\ minute = 0 /\ place = 0 /\ seen = {} /\ ended = {}
  /\ trades = [s \in Tickers |-> NoTrade] /\ marks = [s \in Tickers |-> 0]
  /\ net = 0 /\ gross = 0 /\ netToday = 0 /\ entries = 0 /\ dayStart = Starting
  /\ money = 0 /\ rows = 0

-----------------------------------------------------------------------------
(* Trades                                                                  *)

Slip(price) == (price * SlipPct) \div 100
FillPrice(price, side) == price + side * Slip(price)
FeeOf(notional) == (notional * FeePct) \div 100

(* A filled entry with its levels.                                         *)
Entered(side, price, stop, n) ==
  [side |-> side, entry |-> price, fill |-> FillPrice(price, side), qty |-> n,
   fees |-> FeeOf(n * FillPrice(price, side)), slip |-> n * Slip(price),
   stop |-> price - side * stop, target |-> price + side * ((stop * TargetPct) \div 100),
   runner |-> FALSE, at |-> minute]

(* _close_trade and _close_partial_trade, with the lifecycle's close: n of *)
(* the trade of r leave at a price, with their share of the entry's costs. *)
SoldWholeFee(r, price, n) ==   \* mutant: a part leaves with all of the entry's fee
  LET t == r.trade
      share(c) == (c * n) \div t.qty
      fill == FillPrice(price, -t.side)
      fee  == FeeOf(n * fill)
      won  == t.side * (price - t.entry) * n
  IN  [trade |-> IF n = t.qty THEN NoTrade
                 ELSE [t EXCEPT !.qty = @ - n, !.slip = @ - share(@)],
       net   |-> r.net + won - t.fees - fee - share(t.slip) - n * Slip(price),
       gross |-> r.gross + won,
       money |-> r.money + t.side * n * fill - fee]
Sold(r, price, n) ==
  LET t == r.trade
      share(c) == (c * n) \div t.qty
      fill == FillPrice(price, -t.side)
      fee  == FeeOf(n * fill)
      won  == t.side * (price - t.entry) * n
  IN  [trade |-> IF n = t.qty THEN NoTrade
                 ELSE [t EXCEPT !.qty = @ - n, !.fees = @ - share(@), !.slip = @ - share(@)],
       net   |-> r.net + won - share(t.fees) - fee - share(t.slip) - n * Slip(price),
       gross |-> r.gross + won,
       money |-> r.money + t.side * n * fill - fee]

StopHit(t, b)   == IF t.side = 1 THEN b.low <= t.stop ELSE b.high >= t.stop
TargetHit(t, b) == ~t.runner /\ IF t.side = 1 THEN b.high >= t.target ELSE b.low <= t.target

(* _manage_open_trade: the stop before the target; at the target a part is *)
(* taken off and the rest runs with its stop at the price of the entry.    *)
Managed(t, b) ==
  LET r == [trade |-> t, net |-> 0, gross |-> 0, money |-> 0]
      part == (t.qty * PartialPct) \div 100
      rest == Sold(r, t.target, part)
  IN  CASE StopHit(t, b) -> Sold(r, t.stop, t.qty)
        [] ~StopHit(t, b) /\ TargetHit(t, b) /\ part \notin 1..(t.qty - 1) ->
             Sold(r, t.target, t.qty)
        [] ~StopHit(t, b) /\ TargetHit(t, b) /\ part \in 1..(t.qty - 1) ->
             [rest EXCEPT !.trade.stop = t.fill, !.trade.runner = TRUE]
        [] OTHER -> r

(* What a row makes of the trade open in its symbol: managed, then closed  *)
(* when its time is over or its day is.                                    *)
AfterRowLate(t, b, now, last) ==   \* mutant: closed at the row's price before its stop is looked at
  LET r == [trade |-> t, net |-> 0, gross |-> 0, money |-> 0]
  IN  IF now - t.at >= MaxHolding \/ last THEN Sold(r, b.close, t.qty) ELSE Managed(t, b)
AfterRow(t, b, now, last) ==
  LET m == Managed(t, b)
  IN  IF m.trade # NoTrade /\ (now - m.trade.at >= MaxHolding \/ last)
      THEN Sold(m, b.close, m.trade.qty)
      ELSE m

-----------------------------------------------------------------------------
(* The portfolio and one row                                               *)

Worth(t, mark)      == IF t = NoTrade THEN 0 ELSE t.side * (mark - t.fill) * t.qty - t.fees
Notional(t, mark)   == IF t = NoTrade THEN 0 ELSE t.qty * mark
UnrealizedIn(ts, m) == SumFunction([s \in Tickers |-> Worth(ts[s], m[s])])
GrossIn(ts, m)      == SumFunction([s \in Tickers |-> Notional(ts[s], m[s])])

(* What _current_equity and _portfolio_state make of a sum that is not     *)
(* positive: 1e-9, nothing in whole money.                                 *)
Equity(sum) == IF sum > 0 THEN sum ELSE 0

(* mutant: the outcomes of the row itself are not counted *)
PortfolioBefore(ts, m, won, wonToday, start, s) ==
  LET equity == Equity(Starting + won + UnrealizedIn(ts, m))
  IN  [equity |-> equity, dayStart |-> start, pnl |-> netToday + UnrealizedIn(ts, m),
       trades |-> entries, open |-> Cardinality({x \in Tickers : ts[x] # NoTrade}),
       gross |-> GrossIn(ts, m), held |-> ts[s] # NoTrade, healthy |-> TRUE,
       cash |-> equity * m[s]]
(* _portfolio_state after the row's exits: open trades ts at the marks m,  *)
(* the outcomes' results won in all and wonToday today.  No cash limits    *)
(* the replay: the risk budget never asks for more units than the equity.  *)
Portfolio(ts, m, won, wonToday, start, s) ==
  LET equity == Equity(Starting + won + UnrealizedIn(ts, m))
  IN  [equity |-> equity, dayStart |-> start, pnl |-> wonToday + UnrealizedIn(ts, m),
       trades |-> entries, open |-> Cardinality({x \in Tickers : ts[x] # NoTrade}),
       gross |-> GrossIn(ts, m), held |-> ts[s] # NoTrade, healthy |-> TRUE,
       cash |-> equity * m[s]]

OpensAlways(d, last) == d.approved   \* mutant: the last row of a day may open a trade
Opens(d, last) == d.approved /\ ~last

(* run: one row.  A symbol that still holds a trade is refused by the gate *)
(* (RiskGate!DecideFlat), which leaves the reversal of                     *)
(* _handle_authorized_decision out of reach; trades_today counts the       *)
(* broker's journal, where exits never appear.                             *)
Row(i, b, last, side) ==
  LET s  == SymbolOrder[i]
      stop == IF side = 1 THEN b.long ELSE b.short
      r  == IF trades[s] = NoTrade
            THEN [trade |-> NoTrade, net |-> 0, gross |-> 0, money |-> 0]
            ELSE AfterRow(trades[s], b, minute, last)
      ts == [trades EXCEPT ![s] = r.trade]
      start == IF seen = {} THEN Equity(Starting + net + r.net) ELSE dayStart
      d  == IF side = 0 \/ stop = 0 THEN Rejected
            ELSE DecideFlat(Portfolio(ts, [marks EXCEPT ![s] = b.close], net + r.net,
                                      netToday + r.net, start, s), side = 1, b.close, stop, 100)
      t  == Entered(side, b.close, stop, d.quantity)
      opens == Opens(d, last)
  IN  /\ i > place /\ s \notin ended /\ rows < MaxRows
      /\ place' = i /\ rows' = rows + 1
      /\ seen' = seen \cup {s} /\ ended' = IF last THEN ended \cup {s} ELSE ended
      /\ marks' = [marks EXCEPT ![s] = b.close]
      /\ trades' = IF opens THEN [ts EXCEPT ![s] = t] ELSE ts
      /\ net' = net + r.net /\ netToday' = netToday + r.net /\ gross' = gross + r.gross
      /\ entries' = IF opens THEN entries + 1 ELSE entries
      /\ dayStart' = start
      /\ money' = money + r.money - IF opens THEN side * t.qty * t.fill + t.fees ELSE 0
      /\ UNCHANGED minute

(* The rows of a timestamp are over; the symbols with none at it have none. *)
NextMinute ==
  /\ minute < MaxReplayTime
  /\ minute' = minute + 1 /\ place' = 0
  /\ UNCHANGED <<seen, ended, trades, marks, net, gross, netToday, entries, dayStart, money, rows>>

(* The rows of a day are over when every symbol that had one had its last. *)
NextDay ==
  /\ seen # {} /\ seen = ended /\ minute < MaxReplayTime
  /\ minute' = minute + 1 /\ place' = 0 /\ seen' = {} /\ ended' = {}
  /\ netToday' = 0 /\ entries' = 0
  /\ UNCHANGED <<trades, marks, net, gross, dayStart, money, rows>>

AllRead == seen # {} /\ seen = ended

ReplayNext ==
  \/ \E i \in DOMAIN SymbolOrder, b \in Candles, last \in BOOLEAN, side \in {-1, 0, 1} :
        Row(i, b, last, side)
  \/ NextMinute
  \/ NextDay

-----------------------------------------------------------------------------
(* Properties                                                              *)

(* Nothing is held from one day to the next: after the last row of its day *)
(* a symbol has no trade, so a stop never sees the next day's gap.         *)
FlatOvernight == \A s \in ended : trades[s] = NoTrade

(* Equity of _portfolio_state is the starting equity plus what the fills   *)
(* and fees really left, whatever the marks (quantities on both sides):    *)
(* gross results on the requested prices, with slippage and fees charged   *)
(* apart and the entry's shared over partial exits, count nothing twice.   *)
Spent(t) == IF t = NoTrade THEN 0 ELSE t.side * t.fill * t.qty + t.fees
EquityAccounted == net - SumFunction([s \in Tickers |-> Spent(trades[s])]) = money

ReplayAccounted == FlatOvernight /\ EquityAccounted

(* What a trade that leaves earns on a row, before costs, is never worse   *)
(* than leaving all of it at the stop it carried into the row.  (Rows that *)
(* open beyond the stop are filled at the stop: the replay does not charge *)
(* the gap.)                                                               *)
StopsHold ==
  [][\A s \in Tickers : trades[s] # NoTrade /\ trades'[s] # trades[s] =>
       gross' - gross >= trades[s].side * (trades[s].stop - trades[s].entry) * trades[s].qty
     ]_replayVars

(* A row opens a trade only while the equity, after the row's own exits    *)
(* and at its marks, stands above the daily limit of the day's start.  The *)
(* trade it opens, of the symbol whose row it is, is not counted.          *)
DayLossBlocks ==
  [][entries' > entries =>
       LET held == [trades' EXCEPT ![SymbolOrder[place']] = NoTrade]
           now  == Starting + net' + UnrealizedIn(held, marks')
       IN  100 * (now - dayStart') > -(dayStart' * DailyLossPct)]_replayVars

(* The two limits on loss hold at once on every row of the replay: that of *)
(* the trade, which the exits keep, and that of the day, which the gate    *)
(* keeps.                                                                  *)
LossLimitsHold == StopsHold /\ DayLossBlocks
=============================================================================
