--------------------------- MODULE TemporalSplits ---------------------------
(***************************************************************************)
(* ml/datasets/splitting.py, temporal_split, and                           *)
(* backtesting/walk_forward.py, generate_windows: how the decision times   *)
(* of a dataset are cut into what is learnt from and what is tested on.    *)
(* Ratios are percentages; timestamps and the purge interval are minutes.  *)
(***************************************************************************)
EXTENDS Integers, Sequences, FiniteSets

CONSTANTS TrainPct, ValidationPct,   \* TemporalSplitConfig
          FirstPct,                  \* train_ratio of the walk-forward windows
          Folds, Purge               \* folds, purge_minutes of both

ASSUME SplitsAssumption ==
  /\ {TrainPct, ValidationPct, FirstPct} \subseteq 1..99
  /\ TrainPct + ValidationPct < 100
  /\ Folds \in Nat \ {0} /\ Purge \in Nat

(* The i-th of the times, from the oldest.                                 *)
Nth(times, i) == CHOOSE t \in times : Cardinality({u \in times : u <= t}) = i
Larger(x, y) == IF x > y THEN x ELSE y

SplitOneSided(times) ==   \* mutant: only what precedes a boundary is purged
  LET n  == Cardinality(times)
      i  == Larger(1, (n * TrainPct) \div 100)
      j  == Larger(i + 1, (n * (TrainPct + ValidationPct)) \div 100)
      b1 == Nth(times, i)
      b2 == Nth(times, IF j >= n THEN n - 1 ELSE j)
  IN  [train      |-> {t \in times : t <= b1 - Purge},
       validation |-> {t \in times : b1 < t /\ t <= b2 - Purge},
       test       |-> {t \in times : b2 < t}]
(* temporal_split: both sides of either boundary are purged.               *)
Split(times) ==
  LET n  == Cardinality(times)
      i  == Larger(1, (n * TrainPct) \div 100)
      j  == Larger(i + 1, (n * (TrainPct + ValidationPct)) \div 100)
      b1 == Nth(times, i)
      b2 == Nth(times, IF j >= n THEN n - 1 ELSE j)
  IN  [train      |-> {t \in times : t <= b1 - Purge},
       validation |-> {t \in times : b1 + Purge < t /\ t <= b2 - Purge},
       test       |-> {t \in times : b2 + Purge < t}]

(* ... and it raises rather than return an empty partition.                *)
Splittable(times) ==
  Cardinality(times) >= 3 /\ \A part \in {"train", "validation", "test"} : Split(times)[part] # {}

(* generate_windows: expanding training, then blocks of (almost) one size; *)
(* the purge interval is taken off the beginning of the block.             *)
First(n) == Larger(1, (n * FirstPct) \div 100)
EndOfBlock(n, k) ==
  LET rest == n - First(n)
  IN  First(n) + k * (rest \div Folds) + (IF k < rest % Folds THEN k ELSE rest % Folds)

WindowUnpurged(times, k) ==   \* mutant: a block is tested from its first row
  LET n  == Cardinality(times)
  IN  [train |-> {t \in times : t <= Nth(times, EndOfBlock(n, k - 1))},
       test  |-> {t \in times : /\ Nth(times, EndOfBlock(n, k - 1) + 1) <= t
                                /\ t <= Nth(times, EndOfBlock(n, k))}]
Window(times, k) ==
  LET n  == Cardinality(times)
  IN  [train |-> {t \in times : t <= Nth(times, EndOfBlock(n, k - 1))},
       test  |-> {t \in times : /\ Nth(times, EndOfBlock(n, k - 1) + 1) + Purge < t
                                /\ t <= Nth(times, EndOfBlock(n, k))}]

Windowable(times) ==
  /\ Cardinality(times) >= Folds * 3
  /\ Cardinality(times) - First(Cardinality(times)) >= Folds
  /\ \A k \in 1..Folds : Window(times, k).train # {} /\ Window(times, k).test # {}
=============================================================================
