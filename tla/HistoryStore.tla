---------------------------- MODULE HistoryStore ----------------------------
(***************************************************************************)
(* market/data/historical: validation of downloaded candles and the file   *)
(* that keeps a validated dataset (validation.py, models.py, pipeline.py,  *)
(* storage.py, instrument_status.py).  A candle is its start <<day, slot>>;*)
(* a session has the slots 1..SlotsPerDay and closes after the last.  The  *)
(* provider's candles come sorted; one repeated makes them a bag.          *)
(***************************************************************************)
EXTENDS Integers, FiniteSets, Bags

CONSTANTS TradingDays, SlotsPerDay,
          NoFile

VARIABLES file,       \* the dataset file of one symbol, or NoFile
          temporary   \* the temporary file beside it, or NoFile

storeVars == <<file, temporary>>

Slots == 1..SlotsPerDay
NotAfter(t, u) == t[1] < u[1] \/ (t[1] = u[1] /\ t[2] <= u[2])

(* expected_timestamps *)
Expected(day) == IF day \in TradingDays THEN {day} \X Slots ELSE {}

IsOpenToday(day, asOf) == \E t \in asOf : t[1] = day   \* mutant: still open after its close
(* A session open at asOf may be partial: from the opening slot on, the    *)
(* close excluded.  Slot 0 is before the opening, SlotsPerDay + 1 after    *)
(* the close; asOf = {} is none.                                           *)
IsOpen(day, asOf) == \E t \in asOf : t[1] = day /\ t[2] \in Slots

Complete(day, starts, asOf, suspended) ==
  day \in suspended \/ IsOpen(day, asOf) \/ Expected(day) \subseteq starts

(* HistoricalDatasetValidator.validate with complete sessions required:    *)
(* something there, nothing after asOf, nothing twice, every candle inside *)
(* a session, and every session that is represented complete unless the    *)
(* instrument was suspended or the session is open.                        *)
Valid(bars, asOf, suspended) ==
  LET starts == BagToSet(bars)
  IN /\ starts # {}
     /\ \A t \in asOf, s \in starts : NotAfter(s, t)
     /\ \A s \in starts : bars[s] = 1
     /\ \A s \in starts : s \in Expected(s[1])
     /\ \A d \in {s[1] : s \in starts} : Complete(d, starts, asOf, suspended)

Dataset(bars, asOf, suspended) ==
  [bars |-> BagToSet(bars), asOf |-> asOf, suspended |-> suspended]

StoreInit == file = NoFile /\ temporary = NoFile

WriteInPlace(dataset) ==   \* mutant: the file itself is written, one candle reaching it first
  /\ \E s \in dataset.bars : file' = [dataset EXCEPT !.bars = {s}]
  /\ temporary' = dataset
(* save: the whole content goes to a temporary file beside the file,       *)
(* which is then replaced at once.                                         *)
WriteTemporary(dataset) ==
  /\ temporary' = dataset
  /\ UNCHANGED file

Replace ==
  /\ temporary # NoFile
  /\ file' = temporary /\ temporary' = NoFile

(* The temporary file a dead process leaves behind is no process's any     *)
(* more: nothing reads or removes it, the next save takes another name.    *)
Abandon ==
  /\ temporary' = NoFile
  /\ UNCHANGED file
=============================================================================
