---------------------------- MODULE OutcomeLabels ----------------------------
(***************************************************************************)
(* ml/datasets/pipeline.py, build_phase9_dataset, with ml/labeling and     *)
(* trading/signals: the supervised dataset built from the bars known so    *)
(* far, from rows as the replay's.  One symbol; of the features the price  *)
(* structure is said (MarketStructure), and the label of a row with the    *)
(* bars it rests on is what the splits and the backtest are compared with. *)
(***************************************************************************)
EXTENDS HistoricalReplay, MarketStructure

CONSTANTS Horizon,   \* LabelingConfig.horizon_bars
          Steps,     \* minutes from one bar to the next: 1, or more over a gap in trading
          MaxBars    \* bound: bars in the history

ASSUME LabelsAssumption ==
  /\ Horizon \in Nat \ {0} /\ MaxBars \in Nat
  /\ 1 \in Steps /\ Steps \subseteq Nat \ {0}

VARIABLES bars,      \* the canonical candles of the symbol, oldest first
          dataset    \* TrainingDataset: records at, time, label

labelVars == <<bars, dataset>>

LabelsInit == bars = <<>> /\ dataset = {}

Time(at)  == bars[at].time
Until(at) == Time(at + Horizon)     \* the last bar a label may rest on

Hit(bar, side, level) == IF side = 1 THEN bar.high >= level ELSE bar.low <= level

(* label_candidate: how many bars after row `at` its candidate succeeds,   *)
(* as a set: empty when the stop, both levels in one bar or the horizon    *)
(* come first.                                                             *)
SuccessAnyOrder(at, side, stop) ==   \* mutant: a bar with both levels counts as a success
  LET entry  == bars[at].close
      target == entry + side * ((stop * TargetPct) \div 100)
      Stopped(k)  == Hit(bars[at + k], -side, entry - side * stop)
      Reached(k)  == Hit(bars[at + k], side, target)
  IN  {k \in 1..Horizon : /\ at + k <= Len(bars) /\ Reached(k)
                          /\ \A j \in 1..(k - 1) : ~Stopped(j) /\ ~Reached(j)}
Success(at, side, stop) ==
  LET entry  == bars[at].close
      target == entry + side * ((stop * TargetPct) \div 100)
      Stopped(k)  == Hit(bars[at + k], -side, entry - side * stop)
      Reached(k)  == Hit(bars[at + k], side, target)
  IN  {k \in 1..Horizon : /\ at + k <= Len(bars) /\ Reached(k) /\ ~Stopped(k)
                          /\ \A j \in 1..(k - 1) : ~Stopped(j) /\ ~Reached(j)}

(* label_decision: the earlier of the two directions that succeed.         *)
Label(at) ==
  LET long  == Success(at, 1, bars[at].long)
      short == Success(at, -1, bars[at].short)
      First(one, other) == one # {} /\ \A k \in one, j \in other : k < j
  IN  CASE First(long, short) -> "LONG_SUCCESS"
        [] First(short, long) -> "SHORT_SUCCESS"
        [] OTHER -> "NO_EDGE"

(* _build_labels: rows with both candidates and the whole horizon ahead.   *)
(* mutant: one bar ahead is enough *)
EligibleEarly(at) == bars[at].long # 0 /\ bars[at].short # 0 /\ at < Len(bars)
Eligible(at) == bars[at].long # 0 /\ bars[at].short # 0 /\ at + Horizon <= Len(bars)

Labelled == {[at |-> i, time |-> Time(i), label |-> Label(i)] :
               i \in {j \in DOMAIN bars : Eligible(j)}}

(* Market data: the next bar.                                              *)
NextBar(step, b) ==
  /\ Len(bars) < MaxBars
  /\ bars' = Append(bars, [time |-> (IF bars = <<>> THEN 0 ELSE bars[Len(bars)].time) + step,
                           low |-> b.low, close |-> b.close, high |-> b.high,
                           long |-> b.long, short |-> b.short])
  /\ UNCHANGED dataset

(* build_phase9_dataset: raises, with no dataset, when no row is eligible.  *)
Build == (\E i \in DOMAIN bars : Eligible(i)) /\ dataset' = Labelled /\ UNCHANGED bars

-----------------------------------------------------------------------------
(* Properties                                                              *)

(* A label once in the dataset never changes and never goes as the history *)
(* grows: no row was labelled from bars that were still to come.           *)
LabelsFinal == [][dataset \subseteq dataset']_labelVars

AsLive(i) == Structure(bars, i) = Structure(SubSeq(bars, 1, i), i)

Breaks(i) == {j \in 1..(i - 1) : BrokeUp(bars, j) \/ BrokeDown(bars, j)}
RetestsTheLastBreak(i) ==
  \A r \in Retest(bars, i) :
    /\ r.up <=> \E b \in Breaks(i) :
                  /\ b = Max(Breaks(i)) /\ BrokeUp(bars, b)
                  /\ \E x \in Resistance(bars, b) : bars[i].low <= x /\ x < bars[i].close
    /\ r.down <=> \E b \in Breaks(i) :
                    /\ b = Max(Breaks(i)) /\ BrokeDown(bars, b)
                    /\ \E x \in Support(bars, b) : bars[i].high >= x /\ x > bars[i].close

(* "The calculations in this module are causal": when a dataset is built,  *)
(* what every row is told of the price structure is what a history ending  *)
(* with it shows, whatever sessions and pivots were completed after it;    *)
(* and a retest is a return to the level of the last break before the row, *)
(* on the side it broke to.                                                *)
SeenAsLive ==
  [][dataset' # dataset =>
       \A i \in DOMAIN bars : AsLive(i) /\ RetestsTheLastBreak(i)]_labelVars

(* Gaps in trading among the bars a label rests on.                        *)
GapsIn(at) == Cardinality({k \in 1..Horizon : Time(at + k) - Time(at + k - 1) > 1})

(* How the backtest would fare with one share of the candidate of row `at`: *)
(* the bars after which it stands at its target.                           *)
Replayed(at, side, stop) ==
  LET entered == [Entered(side, bars[at].close, stop, 1) EXCEPT !.at = Time(at)]
      after[k \in 0..Horizon] ==
        IF k = 0 THEN entered
        ELSE IF after[k - 1] = NoTrade THEN NoTrade
        ELSE AfterRow(after[k - 1], bars[at + k], Time(at + k), FALSE).trade
  IN  {k \in 1..Horizon :
         /\ after[k - 1] # NoTrade
         /\ AfterRow(after[k - 1], bars[at + k], Time(at + k), FALSE).gross
              = side * (entered.target - entered.entry)}

(* Labelling and backtest are two programs for the same trade: where no    *)
(* gap in trading is crossed, a row is labelled with a direction exactly   *)
(* when the replay takes that direction's target within its holding time   *)
(* and has not taken the other's by then.                                  *)
LabelsAgreeWithReplay ==
  \A d \in dataset : GapsIn(d.at) = 0 =>
    LET long  == Replayed(d.at, 1, bars[d.at].long)
        short == Replayed(d.at, -1, bars[d.at].short)
    IN  /\ d.label = "LONG_SUCCESS"  <=> \E k \in long  : \A j \in short : k < j
        /\ d.label = "SHORT_SUCCESS" <=> \E k \in short : \A j \in long  : k < j
=============================================================================
