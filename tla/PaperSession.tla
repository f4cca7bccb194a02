---------------------------- MODULE PaperSession ----------------------------
(***************************************************************************)
(* trading/paper/live_loop.py (LivePaperEngine), exit_engine.py            *)
(* (PaperExitEngine) and the account ledger of paper/virtual_session.py:   *)
(* what one completed candle does to the open position, the outcomes and   *)
(* the ledger.  Entries fill in the account of PaperAccount.               *)
(*                                                                         *)
(* stopOnTarget distinguishes the two drivers: the engine's own on_candle, *)
(* which stops at target_trades, and the virtual session, which runs the   *)
(* whole day, takes its entries from the orchestrator's handler and writes *)
(* the ledger.                                                             *)
(***************************************************************************)
EXTENDS PaperAccount, Sequences, SequencesExt

CONSTANTS Symbol,
          Quantity,              \* quantity of every entry (10 in the code)
          StopPct, TakePct,      \* stop_loss_pct, take_profit_pct
          Cutoff,                \* first candle start at session_cutoff_time
          MaxHoldingBars,
          TargetTrades,
          InitialEquity

ASSUME SessionAssumption ==
  /\ Symbol \in Symbols
  /\ {Quantity, Cutoff, MaxHoldingBars, TargetTrades, InitialEquity} \subseteq Nat \ {0}
  /\ {StopPct, TakePct} \subseteq 1..99   \* PaperPosition refuses a stop or target <= 0

VARIABLES
  stopOnTarget,      \* stop_on_target_trades
  position,          \* the exit engine's open position, or NoPosition
  outcomes,          \* completed_outcomes
  submitted,         \* number of filled entries
  done,              \* session_completed
  bar,               \* the last candle of the history, or NoBar
  ledger,            \* the last account snapshot
  phase,             \* "running", "finalized", "raised"
  money              \* what entries and exits really paid or received

sessionVars == <<stopOnTarget, position, outcomes, submitted, done, bar, ledger, phase, money>>

NoPosition == [side |-> 0]
NoBar      == [start |-> -1]
Reasons    == {"STOP_LOSS", "TARGET", "SESSION_CLOSE", "MAX_HOLDING_TIME"}

SessionTypeOK ==
  /\ {stopOnTarget, done} \subseteq BOOLEAN
  /\ position.side \in {-1, 0, 1}
  /\ position.side # 0 => position.bars \in 0..(MaxHoldingBars - 1)
  /\ \A i \in DOMAIN outcomes : outcomes[i].reason \in Reasons
  /\ submitted \in 0..MaxOrders
  /\ phase \in {"running", "finalized", "raised"}

SessionInit ==
  /\ AccountInit
  /\ stopOnTarget \in BOOLEAN
  /\ position = NoPosition /\ outcomes = <<>> /\ submitted = 0 /\ done = FALSE
  /\ bar = NoBar /\ phase = "running" /\ money = 0
  /\ ledger = [equity |-> InitialEquity, realized |-> 0, unrealized |-> 0, open |-> 0]

Held(p) == p.side # 0

-----------------------------------------------------------------------------
(* PaperExitEngine                                                         *)

(* Why candle c closes position p, or "NONE": the stop before the target,  *)
(* both before the clock, the clock before the age.                        *)
Worst(p, c) == IF p.side = 1 THEN c.low ELSE c.high
Best(p, c)  == IF p.side = 1 THEN c.high ELSE c.low
StopHit(p, c)   == p.side * Worst(p, c) <= p.side * p.stop
TargetHit(p, c) == p.side * Best(p, c) >= p.side * p.target
Unless(hit, reason, otherwise) == IF hit THEN reason ELSE otherwise
Clock(late, old) == Unless(late, "SESSION_CLOSE", Unless(old, "MAX_HOLDING_TIME", "NONE"))

ExitReasonTargetFirst(p, c) ==         \* mutant: the optimistic order
  Unless(TargetHit(p, c), "TARGET", Unless(StopHit(p, c), "STOP_LOSS",
         Clock(c.start >= Cutoff, p.bars + 1 >= MaxHoldingBars)))
ExitReasonNoCutoff(p, c) ==            \* mutant: the cutoff is strict
  Unless(StopHit(p, c), "STOP_LOSS", Unless(TargetHit(p, c), "TARGET",
         Clock(c.start > Cutoff, p.bars + 1 >= MaxHoldingBars)))
ExitReasonOlder(p, c) ==               \* mutant: one bar more
  Unless(StopHit(p, c), "STOP_LOSS", Unless(TargetHit(p, c), "TARGET",
         Clock(c.start >= Cutoff, p.bars >= MaxHoldingBars)))
ExitReason(p, c) ==
  Unless(StopHit(p, c), "STOP_LOSS", Unless(TargetHit(p, c), "TARGET",
         Clock(c.start >= Cutoff, p.bars + 1 >= MaxHoldingBars)))

ExitPrice(p, c, reason) ==
  CASE reason = "STOP_LOSS" -> p.stop
    [] reason = "TARGET"    -> p.target
    [] OTHER                -> c.close

(* _close_position: profit on the prices that were asked for, less the     *)
(* fees and the slippage of both fills.                                    *)
Outcome(p, c, price, reason) ==
  LET actual == Fill(price, -p.side)
      gross  == p.side * (price - p.asked) * Quantity
      slip   == Magnitude(price - actual) * Quantity
  IN  [entry |-> p.entry, exit |-> c.start, side |-> p.side, gross |-> gross, reason |-> reason,
       stop |-> p.stop, asked |-> p.asked, actual |-> actual,
       net |-> gross - p.fee - Fee(actual * Quantity) - p.slip - slip]

(* Money an exit brings in: the position sold at the actual price.         *)
Proceeds(o) == o.side * o.actual * Quantity - Fee(o.actual * Quantity)

-----------------------------------------------------------------------------
(* VirtualIntradaySession._account_mark of outcomes os and position p.     *)
Snapshot(os, p, price) ==
  LET closed == SumFunction([i \in DOMAIN os |-> os[i].net])
      real   == closed - (IF Held(p) THEN p.fee ELSE 0)
      unreal == IF Held(p) THEN p.side * (price - p.fill) * Quantity ELSE 0
  IN  [equity |-> InitialEquity + real + unreal, realized |-> real,
       unrealized |-> unreal, open |-> IF Held(p) THEN 1 ELSE 0]

-----------------------------------------------------------------------------
(* LivePaperEngine                                                         *)

(* _evaluate_entry at the close of candle c, and the handler's entry.      *)
EntryAt(c, side) ==
  [side |-> side, entry |-> c.start, asked |-> c.close, fill |-> Fill(c.close, side),
   stop |-> c.close - side * ((c.close * StopPct) \div 100),
   target |-> c.close + side * ((c.close * TakePct) \div 100),
   fee |-> Fee(Fill(c.close, side) * Quantity),
   slip |-> Magnitude(Fill(c.close, side) - c.close) * Quantity, bars |-> 0]

(* The exits of candle c: outcomes, position and money after it.           *)
AfterExits(c) ==
  LET why == ExitReason(position, c)
      o   == Outcome(position, c, ExitPrice(position, c, why), why)
  IN  IF ~Held(position)
      THEN [outs |-> outcomes, pos |-> position, paid |-> 0]
      ELSE IF why = "NONE"
      THEN [outs |-> outcomes, pos |-> [position EXCEPT !.bars = @ + 1], paid |-> 0]
      ELSE [outs |-> Append(outcomes, o), pos |-> NoPosition, paid |-> Proceeds(o)]

Enter(c, side) ==
  IF side = 0 THEN UNCHANGED <<accountVars, submitted>>
  ELSE Submit(Symbol, side, Quantity, c.close) /\ submitted' = submitted + 1

(* The candle once its exits are known; it may enter if `free`.            *)
Handle(c, side, a, met, free) ==
  LET new == IF side = 0 THEN a.pos ELSE EntryAt(c, side)
  IN  /\ phase = "running" /\ ~done
      /\ side # 0 => free
      /\ Enter(c, side)
      /\ position' = new /\ outcomes' = a.outs
      /\ money' = money + a.paid - (IF side = 0 THEN 0 ELSE side * new.fill * Quantity + new.fee)
      /\ done' = met /\ bar' = c
      /\ ledger' = Snapshot(a.outs, new, c.close)
      /\ UNCHANGED <<stopOnTarget, phase>>

(* on_candle: the exits, then, unless the target is met, an entry if flat. *)
TargetMet(outs) == stopOnTarget /\ Len(outs) >= TargetTrades
OnCandleEntersAfterTarget(c, side) ==  \* mutant: the target does not end the handling
  LET a == AfterExits(c) IN Handle(c, side, a, TargetMet(a.outs), ~Held(a.pos))
OnCandle(c, side) ==
  LET a == AfterExits(c)
  IN  Handle(c, side, a, TargetMet(a.outs), ~Held(a.pos) /\ ~TargetMet(a.outs))

(* In the virtual session the candle is observed (exits) and then the      *)
(* prediction path raises: no mark, no entry, and nothing is finalized.    *)
CandleRaises(c) ==
  LET a == AfterExits(c)
  IN  /\ phase = "running" /\ ~stopOnTarget
      /\ position' = a.pos /\ outcomes' = a.outs /\ money' = money + a.paid
      /\ bar' = c /\ phase' = "raised"
      /\ UNCHANGED <<accountVars, stopOnTarget, submitted, done, ledger>>

(* finalize_session and VirtualIntradaySession.finalize: what is open is   *)
(* closed at the last close and the last mark is replaced.                 *)
FinalizeKeepsMark ==             \* mutant: the last mark is not replaced
  LET o    == Outcome(position, bar, bar.close, "SESSION_CLOSE")
      outs == IF Held(position) THEN Append(outcomes, o) ELSE outcomes
  IN  /\ phase = "running"
      /\ phase' = "finalized"
      /\ outcomes' = outs /\ position' = NoPosition
      /\ money' = money + (IF Held(position) THEN Proceeds(o) ELSE 0)
      /\ UNCHANGED <<accountVars, stopOnTarget, submitted, done, bar, ledger>>
Finalize ==
  LET o    == Outcome(position, bar, bar.close, "SESSION_CLOSE")
      outs == IF Held(position) THEN Append(outcomes, o) ELSE outcomes
  IN  /\ phase = "running"
      /\ phase' = "finalized"
      /\ outcomes' = outs /\ position' = NoPosition
      /\ money' = money + (IF Held(position) THEN Proceeds(o) ELSE 0)
      /\ ledger' = IF bar = NoBar THEN ledger ELSE Snapshot(outs, NoPosition, bar.close)
      /\ UNCHANGED <<accountVars, stopOnTarget, submitted, done, bar>>

(* The pipeline raised: run ends without finalize.                         *)
SessionRaises ==
  /\ phase = "running"
  /\ phase' = "raised"
  /\ UNCHANGED <<accountVars, stopOnTarget, position, outcomes, submitted, done, bar, ledger, money>>
=============================================================================
