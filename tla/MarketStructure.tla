--------------------------- MODULE MarketStructure ---------------------------
(***************************************************************************)
(* market/indicators/structure.py: what a row of a table of candles is     *)
(* told about the price structure before it.  A history h is the sequence  *)
(* of candles of one symbol, oldest first; a level is the set of its       *)
(* value, empty where the code has NaN or <NA>.  Percentage distances and  *)
(* the VWAP are left out.                                                  *)
(***************************************************************************)
EXTENDS Integers, Sequences, FiniteSets, FiniteSetsExt

CONSTANTS StructurePeriod,       \* period of support and resistance
          LeftBars, RightBars,   \* candles beside a pivot
          OpeningMinutes,        \* length of the opening range
          Night                  \* least time between candles of two sessions

ASSUME StructureAssumption ==
  {StructurePeriod, LeftBars, RightBars, OpeningMinutes, Night} \subseteq Nat \ {0}

Highest(h, rows) == IF rows = {} THEN {} ELSE {Max({h[j].high : j \in rows})}
Lowest(h, rows)  == IF rows = {} THEN {} ELSE {Min({h[j].low : j \in rows})}

(* support_resistance: of the whole period before the row, the row itself  *)
(* excluded.                                                               *)
Preceding(i) == IF i > StructurePeriod THEN (i - StructurePeriod)..(i - 1) ELSE {}
Support(h, i)    == Lowest(h, Preceding(i))
Resistance(h, i) == Highest(h, Preceding(i))

(* structure_flags: the row beside the one before it.                      *)
Flags(h, i) ==
  IF i = 1 THEN {}
  ELSE {[higherHigh |-> h[i].high > h[i - 1].high, lowerLow |-> h[i].low < h[i - 1].low,
         higherLow |-> h[i].low > h[i - 1].low, lowerHigh |-> h[i].high < h[i - 1].high]}

(* swing_levels: a pivot stands out from its neighbours on both sides, and *)
(* is shown from the row that completes its right side on, until the next. *)
Pivots(rows, level) ==
  {p \in rows : \A j \in (p - LeftBars)..(p + RightBars) : j # p => level[p] > level[j]}
ConfirmedAtOnce(h, i) == (LeftBars + 1)..Min({i, Len(h) - RightBars})   \* mutant: shown at its own row
Confirmed(h, i) == (LeftBars + 1)..(i - RightBars)
SwingHigh(h, i) ==
  LET pivots == Pivots(Confirmed(h, i), [j \in DOMAIN h |-> h[j].high])
  IN IF pivots = {} THEN {} ELSE {h[Max(pivots)].high}
SwingLow(h, i) ==
  LET pivots == Pivots(Confirmed(h, i), [j \in DOMAIN h |-> -h[j].low])
  IN IF pivots = {} THEN {} ELSE {h[Max(pivots)].low}

(* The rows of one session date: from a candle after a night to the next.  *)
(* Every session has its first candle.                                     *)
Openings(h) == {1} \cup {j \in 2..Len(h) : h[j].time - h[j - 1].time >= Night}
FirstOf(h, i) == Max({j \in Openings(h) : j <= i})
Session(h, first) == first..Min({Len(h)} \cup {j - 1 : j \in {k \in Openings(h) : k > first}})

(* previous_day_levels: of the session before the row's, which is over.    *)
SameDay(h, i) == Session(h, FirstOf(h, i))   \* mutant: the levels are not shifted by a day
PreviousDay(h, i) ==
  IF FirstOf(h, i) = 1 THEN {} ELSE Session(h, FirstOf(h, FirstOf(h, i) - 1))

(* opening_range: of the candles that begin within the opening minutes,    *)
(* shown once these are over.                                              *)
OpeningRows(h, i) ==
  LET first == FirstOf(h, i)
      end   == h[first].time + OpeningMinutes
  IN {j \in Session(h, first) : h[i].time >= end /\ h[j].time < end}

(* breakouts: the close beyond the period before it, strictly.             *)
BrokeUp(h, i)   == \E r \in Resistance(h, i) : h[i].close > r
BrokeDown(h, i) == \E s \in Support(h, i) : h[i].close < s

(* retests: the level broken last, after row n ...                         *)
NoLevel == [side |-> 0]
Broken(h, n) ==
  LET after[i \in 0..n] ==
        CASE i = 0 -> NoLevel
          [] i > 0 /\ BrokeUp(h, i)   -> [side |-> 1, level |-> Max(Resistance(h, i))]
          [] i > 0 /\ BrokeDown(h, i) -> [side |-> -1, level |-> Max(Support(h, i))]
          [] OTHER -> after[i - 1]
  IN after[n]

(* ... and a row that touches the level active before it and closes back   *)
(* beyond it: a breakout cannot be its own retest.                         *)
RetestOfItself(h, i) ==   \* mutant: the row's own breakout counts
  LET active == Broken(h, i)
      up   == active.side = 1  /\ h[i].low <= active.level /\ h[i].close > active.level
      down == active.side = -1 /\ h[i].high >= active.level /\ h[i].close < active.level
  IN IF Preceding(i) = {} THEN {}
     ELSE {[up |-> up, down |-> down, level |-> IF up \/ down THEN {active.level} ELSE {}]}
Retest(h, i) ==
  LET active == Broken(h, i - 1)
      up   == active.side = 1  /\ h[i].low <= active.level /\ h[i].close > active.level
      down == active.side = -1 /\ h[i].high >= active.level /\ h[i].close < active.level
  IN IF Preceding(i) = {} THEN {}
     ELSE {[up |-> up, down |-> down, level |-> IF up \/ down THEN {active.level} ELSE {}]}

(* add_structure_indicators for row i.                                     *)
Structure(h, i) ==
  [support |-> Support(h, i), resistance |-> Resistance(h, i), flags |-> Flags(h, i),
   swingHigh |-> SwingHigh(h, i), swingLow |-> SwingLow(h, i),
   retest |-> Retest(h, i),
   previousDay |-> <<Highest(h, PreviousDay(h, i)), Lowest(h, PreviousDay(h, i))>>,
   opening |-> <<Highest(h, OpeningRows(h, i)), Lowest(h, OpeningRows(h, i))>>]
=============================================================================
