----------------------- MODULE MCValidationExperiment -----------------------
(***************************************************************************)
(* Model-checking instance.  Splits depend on the decision times only and  *)
(* the replay on the history not at all: the histories explored are short  *)
(* ones of any bars, and long ones of equal bars with a few gaps in        *)
(* trading; the replay runs over one of them.                              *)
(***************************************************************************)
EXTENDS ValidationExperiment

CONSTANTS ShortHistory, MaxGaps   \* bounds: bars of a short history, gaps of a long one

MCSymbols == <<"A", "B">>

Candle(low, close, high, long, short) ==
  [low |-> low, close |-> close, high |-> high, long |-> long, short |-> short]
Quiet == Candle(1000, 1000, 1000, 200, 200)
MCCandles ==
  {Quiet, Candle(1000, 1000, 1000, 200, 400), Candle(1000, 1000, 1000, 400, 200),
   Candle(600, 600, 1000, 200, 200), Candle(1000, 1200, 1200, 0, 200),
   Candle(800, 1000, 1200, 0, 0)}

QuietBars ==
  /\ \A i \in DOMAIN bars : [bars[i] EXCEPT !.time = 0] = Quiet @@ [time |-> 0]
  /\ Cardinality({i \in 2..Len(bars) : bars[i].time - bars[i - 1].time > 1}) <= MaxGaps
FirstOnly == Len(bars) = Horizon + 1 /\ Until(1) = 1 + Horizon

Focus ==
  /\ \/ Len(bars) <= ShortHistory
     \/ QuietBars /\ (dataset = {} \/ Cardinality(dataset) = Len(bars) - Horizon)
  /\ phase # "history" => QuietBars /\ Cardinality(dataset) = Len(bars) - Horizon
  /\ rows > 0 \/ phase = "backtest" => FirstOnly
=============================================================================
