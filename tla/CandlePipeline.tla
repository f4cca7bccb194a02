--------------------------- MODULE CandlePipeline ---------------------------
(***************************************************************************)
(* market/data/realtime_pipeline.py, RealtimeMarketDataPipeline.run, with  *)
(* the MarketEventValidator and the CandleAggregator it calls, for one     *)
(* symbol: trades of the feed are validated against the clock and become   *)
(* candles of the session.                                                 *)
(*                                                                         *)
(* Time is counted in ticks of the clock.  A trade the validator refuses   *)
(* (too far in the future, stale, seen before) changes nothing and is no   *)
(* action; the counters of DataQualityMetrics are left out.                *)
(***************************************************************************)
EXTENDS Integers, FiniteSets, Sequences, SequencesExt

CONSTANTS Timeframe,              \* ticks of a candle
          SessionStart, SessionEnd,
          MaxAge, MaxSkew,        \* max_event_age_seconds, max_future_skew_seconds
          TradePrices, Volumes,
          MaxEvents               \* bound: trades accepted; the clock stops with the last

ASSUME PipelineAssumption ==
  /\ {Timeframe, SessionStart} \subseteq Nat \ {0}
  /\ SessionEnd \in Nat /\ SessionEnd > SessionStart /\ (SessionEnd - SessionStart) % Timeframe = 0
  /\ {MaxAge, MaxSkew, MaxEvents} \subseteq Nat
  /\ TradePrices \subseteq Nat \ {0} /\ Volumes \subseteq Nat

VARIABLES
  now,       \* the clock the validator reads
  seen,      \* _seen_event_ids
  forming,   \* _states of the symbol, or NoCandle
  candles,   \* candles the pipeline has yielded
  trades,    \* the accepted trades of the session, in order of arrival
  feed       \* "open", "ended" (stopped or exhausted), "raised"

pipelineVars == <<now, seen, forming, candles, trades, feed>>

NoCandle == [start |-> -1]
Times    == 0..(SessionEnd + MaxSkew)
Trades   == [time : Times, price : TradePrices, volume : Volumes]

PipelineTypeOK ==
  /\ now \in 0..SessionEnd
  /\ seen \subseteq Times \X Volumes
  /\ feed \in {"open", "ended", "raised"}
  /\ \A i \in DOMAIN trades : trades[i] \in Trades

PipelineInit ==
  /\ now = 0 /\ seen = {} /\ forming = NoCandle
  /\ candles = <<>> /\ trades = <<>> /\ feed = "open"

(* The feed names a trade by instrument, millisecond and quantity.         *)
EventId(e) == <<e.time, e.volume>>

(* MarketEventValidator.validate; the trade was received at the clock.     *)
Valid(e) ==
  /\ e.time <= now + MaxSkew
  /\ now - e.time <= MaxAge
  /\ EventId(e) \notin seen

InSession(t) == SessionStart <= t /\ t < SessionEnd
BucketStart(t) == SessionStart + ((t - SessionStart) \div Timeframe) * Timeframe

(* The trades a validator at this clock does not refuse for their age.     *)
Arriving == [time : Times \cap ((now - MaxAge)..(now + MaxSkew)),
             price : TradePrices, volume : Volumes]

Larger(x, y)  == IF x > y THEN x ELSE y
Smaller(x, y) == IF x < y THEN x ELSE y

NewCandle(e) == [start |-> BucketStart(e.time), open |-> e.price, high |-> e.price,
                 low |-> e.price, close |-> e.price, volume |-> e.volume, last |-> e.time]
WithTrade(c, e) ==
  [c EXCEPT !.high = Larger(@, e.price), !.low = Smaller(@, e.price),
            !.close = e.price, !.volume = @ + e.volume, !.last = e.time]
Candle(c) == [start |-> c.start, open |-> c.open, high |-> c.high, low |-> c.low,
              close |-> c.close, volume |-> c.volume]

(* What every accepted trade does before it reaches the aggregator.        *)
Accept(e) ==
  /\ feed = "open" /\ Valid(e) /\ Cardinality(seen) < MaxEvents
  /\ seen' = seen \cup {EventId(e)}
  /\ UNCHANGED now

(* CandleAggregator.update, one action per outcome.                        *)
OutsideSession(e) ==
  /\ Accept(e) /\ ~InSession(e.time)
  /\ UNCHANGED <<forming, candles, trades, feed>>

FirstTrade(e) ==
  /\ Accept(e) /\ InSession(e.time) /\ forming = NoCandle
  /\ forming' = NewCandle(e)
  /\ trades' = Append(trades, e)
  /\ UNCHANGED <<candles, feed>>

SameCandle(e) ==
  /\ Accept(e) /\ InSession(e.time) /\ forming # NoCandle
  /\ e.time >= forming.last /\ BucketStart(e.time) = forming.start
  /\ forming' = WithTrade(forming, e)
  /\ trades' = Append(trades, e)
  /\ UNCHANGED <<candles, feed>>

(* The trade of a later candle completes this one: the pipeline yields it. *)
NextCandleDropsTrade(e) ==             \* mutant: the completing trade is not counted
  /\ Accept(e) /\ InSession(e.time) /\ forming # NoCandle
  /\ BucketStart(e.time) > forming.start
  /\ candles' = Append(candles, Candle(forming))
  /\ forming' = [NewCandle(e) EXCEPT !.volume = 0]
  /\ trades' = Append(trades, e)
  /\ UNCHANGED feed
NextCandle(e) ==
  /\ Accept(e) /\ InSession(e.time) /\ forming # NoCandle
  /\ BucketStart(e.time) > forming.start
  /\ candles' = Append(candles, Candle(forming))
  /\ forming' = NewCandle(e)
  /\ trades' = Append(trades, e)
  /\ UNCHANGED feed

(* A trade older than the last one: ValueError ends the run.               *)
OutOfOrder(e) ==
  /\ Accept(e) /\ InSession(e.time) /\ forming # NoCandle
  /\ e.time < forming.last
  /\ feed' = "raised"
  /\ UNCHANGED <<forming, candles, trades>>

Tick ==
  /\ feed = "open" /\ now < SessionEnd /\ Cardinality(seen) < MaxEvents
  /\ now' = now + 1
  /\ UNCHANGED <<seen, forming, candles, trades, feed>>

(* The watchdog stops the feed, or it is exhausted: run returns, and       *)
(* nobody calls flush.                                                     *)
FeedEnds ==
  /\ feed = "open"
  /\ feed' = "ended"
  /\ UNCHANGED <<now, seen, forming, candles, trades>>

-----------------------------------------------------------------------------
(* The candle of the trades of one bucket, from their definition.          *)
TradesOf(b) == {j \in DOMAIN trades : BucketStart(trades[j].time) = b}
CandleOf(b) ==
  LET ps == {trades[j].price : j \in TradesOf(b)}
  IN  [start |-> b, open |-> trades[Min(TradesOf(b))].price,
       high |-> Max(ps), low |-> Min(ps), close |-> trades[Max(TradesOf(b))].price,
       volume |-> SumFunction([j \in TradesOf(b) |-> trades[j].volume])]
Buckets == {BucketStart(trades[i].time) : i \in DOMAIN trades}
=============================================================================
