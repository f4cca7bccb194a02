---------------------------- MODULE LiveSession ----------------------------
(***************************************************************************)
(* A paper session on live data: every candle CandlePipeline yields is     *)
(* processed by PaperSession in the pipeline's own loop, before the next   *)
(* trade is read (VirtualIntradaySession.run, LivePaperEngine.run_candles). *)
(* When the session met its target or an exception left the loop, no       *)
(* further trade is read.                                                  *)
(***************************************************************************)
EXTENDS CandlePipeline, PaperSession

vars == <<pipelineVars, accountVars, sessionVars>>
session == <<accountVars, sessionVars>>

TypeOK == PipelineTypeOK /\ AccountTypeOK /\ SessionTypeOK

Init == PipelineInit /\ SessionInit

(* The loop reads the next trade.                                          *)
Reading == phase = "running" /\ ~done

Trade(e) ==
  /\ Reading
  /\ \/ (OutsideSession(e) \/ FirstTrade(e) \/ SameCandle(e)) /\ UNCHANGED session
     \/ OutOfOrder(e) /\ SessionRaises

(* A trade that completes a candle: the strategy or handler picks a side.  *)
Decide(e, side) == Reading /\ NextCandle(e) /\ OnCandle(Candle(forming), side)
Fail(e) == Reading /\ NextCandle(e) /\ CandleRaises(Candle(forming))

Next ==
  \/ \E e \in Arriving : Trade(e) \/ Fail(e)
  \/ \E e \in Arriving, side \in {-1, 0, 1} : Decide(e, side)
  \/ Reading /\ Tick /\ UNCHANGED session
  \/ FeedEnds /\ Finalize

Spec == Init /\ [][Next]_vars

-----------------------------------------------------------------------------
(* Properties                                                              *)

(* Every candle is the open, high, low, close and volume of exactly the    *)
(* accepted trades of its bucket: none is counted twice, dropped or moved  *)
(* to a neighbour, and the candles come in the order of the session.       *)
CandlesExact ==
  LET all    == IF trades = <<>> THEN candles ELSE Append(candles, Candle(forming))
      starts == [i \in DOMAIN all |-> all[i].start]
  IN  /\ \A i \in DOMAIN all : all[i] = CandleOf(starts[i])
      /\ Range(starts) = Buckets
      /\ \A i, j \in DOMAIN all : i < j => starts[i] < starts[j]

(* A trade closed at its target never met its stop: no accepted trade      *)
(* after the entry bar, up to the end of the exit bar, was at the stop.    *)
NoLuckyTarget ==
  \A i \in DOMAIN outcomes : outcomes[i].reason = "TARGET" =>
    \A j \in DOMAIN trades :
      LET b == BucketStart(trades[j].time)
          o == outcomes[i]
      IN  o.entry < b /\ b <= o.exit => o.side * trades[j].price > o.side * o.stop

(* The ledger's equity, put together from outcomes, entry fees and marks,  *)
(* is the money the fills moved plus the open position at the last close;  *)
(* after the final close it is that money, and it shows nothing open.      *)
LedgerReconciles ==
  phase # "raised" /\ bar # NoBar =>
    /\ ledger.equity = InitialEquity + money
                       + (IF Held(position) THEN position.side * Quantity * bar.close ELSE 0)
    /\ phase = "finalized" => ledger.open = 0 /\ submitted = Len(outcomes)

(* Every entry is open or has one outcome, and a session that stops at its *)
(* target takes no entry beyond it.                                        *)
SessionCounts ==
  /\ submitted = Len(outcomes) + (IF Held(position) THEN 1 ELSE 0)
  /\ stopOnTarget => submitted <= TargetTrades

(* A position entered on an earlier candle does not survive a candle at or *)
(* after the cutoff.                                                       *)
ClosedAtCutoff ==
  Held(position) /\ position.entry < bar.start => bar.start < Cutoff

(* The session's ledger and counters agree with the money and the outcomes *)
(* (VirtualIntradaySession._account_mark, finalize; LivePaperEngine).      *)
AccountSound == LedgerReconciles /\ SessionCounts

(* Exits come in time: with a well-typed session, whose open position is   *)
(* younger than max_holding_bars, nothing carried outlives the cutoff.     *)
ClosedInTime == TypeOK /\ ClosedAtCutoff
=============================================================================
