------------------------ MODULE ValidationExperiment ------------------------
(***************************************************************************)
(* experiments/executor.py, execute_validation_experiment_with_lineage:    *)
(* an optional backtest, the out-of-sample evaluation of a predictor, its  *)
(* walk-forward evaluation and the record of all three, on a dataset whose *)
(* history grew before.  Predictor and evaluator are callables of the      *)
(* caller: they answer, or answer wrongly and end the experiment.          *)
(***************************************************************************)
EXTENDS OutcomeLabels, TemporalSplits, SequencesExt

VARIABLES phase,        \* of the experiment
          outOfSample,  \* train, validation and test of the OOS report
          folds,        \* train and test of the folds evaluated
          observations  \* of the ExperimentRecord

reportVars == <<phase, outOfSample, folds, observations>>
experimentVars == <<replayVars, labelVars, reportVars>>

(* The frozen specification: 12 bars of 5 minutes are the holding time, and *)
(* the purge interval is no shorter than the horizon.                      *)
ASSUME ExperimentAssumption == MaxHolding = Horizon /\ Purge >= Horizon

NoReport == [train |-> {}, validation |-> {}, test |-> {}]
Times    == {d.time : d \in dataset}

ExperimentInit ==
  /\ ReplayInit /\ LabelsInit
  /\ phase = "history" /\ outOfSample = NoReport /\ folds = <<>> /\ observations = 0

(* Before the experiment: market data, and datasets built from them.       *)
Grow ==
  /\ phase = "history"
  /\ \/ \E step \in Steps, b \in Candles : NextBar(step, b)
     \/ Build
  /\ UNCHANGED <<replayVars, reportVars>>

(* backtest_rows may be left out.                                          *)
Execute ==
  /\ phase = "history" /\ dataset # {}
  /\ phase' \in {"backtest", "oos"}
  /\ UNCHANGED <<replayVars, labelVars, outOfSample, folds, observations>>

Backtest ==
  /\ phase = "backtest"
  /\ \/ ReplayNext /\ UNCHANGED phase
     \/ (rows = 0 \/ AllRead) /\ phase' = "oos" /\ UNCHANGED replayVars
  /\ UNCHANGED <<labelVars, outOfSample, folds, observations>>

(* evaluate_oos: the predictor sees training and validation rows and is    *)
(* asked for the test rows.                                                *)
EvaluateOOS(answers) ==
  /\ phase = "oos"
  /\ IF Splittable(Times) /\ answers
     THEN outOfSample' = Split(Times) /\ phase' = "walk_forward"
     ELSE phase' = "failed" /\ UNCHANGED outOfSample
  /\ UNCHANGED <<replayVars, labelVars, folds, observations>>

(* evaluate_walk_forward: all windows are generated before the first fold  *)
(* is evaluated.                                                           *)
EvaluateFold(answers) ==
  /\ phase = "walk_forward" /\ Len(folds) < Folds
  /\ IF Windowable(Times) /\ answers
     THEN folds' = Append(folds, Window(Times, Len(folds) + 1)) /\ UNCHANGED phase
     ELSE phase' = "failed" /\ UNCHANGED folds
  /\ UNCHANGED <<replayVars, labelVars, outOfSample, observations>>

Record ==
  /\ phase = "walk_forward" /\ Len(folds) = Folds
  /\ phase' = "recorded"
  /\ observations' = Cardinality(outOfSample.test)
                     + SumFunction([k \in DOMAIN folds |-> Cardinality(folds[k].test)])
  /\ UNCHANGED <<replayVars, labelVars, outOfSample, folds>>

ExperimentNext ==
  \/ Grow
  \/ Execute
  \/ Backtest
  \/ \E answers \in BOOLEAN : EvaluateOOS(answers) \/ EvaluateFold(answers)
  \/ Record

ExperimentSpec == ExperimentInit /\ [][ExperimentNext]_experimentVars

-----------------------------------------------------------------------------
(* Properties                                                              *)

RowAt(t) == CHOOSE d \in dataset : d.time = t

(* The rows learnt from precede the rows tested, and so do the bars their  *)
(* labels rest on, unless a label crosses more gaps in trading than given. *)
Settled(learnt, tested, gaps) ==
  \A t1 \in learnt, t2 \in tested :
    t1 < t2 /\ (GapsIn(RowAt(t1).at) <= gaps => Until(RowAt(t1).at) < t2)

(* No row is tested on what was learnt from it: with a purge as long as    *)
(* the horizon, no label of a training or validation row rests on a tested *)
(* bar, overnight gaps included, in the out-of-sample split (both sides of *)
(* its boundaries are purged); in a walk-forward fold none does that       *)
(* crosses no gap (only the block's beginning is purged).  No row is       *)
(* tested in two folds, and the record counts every tested row once.       *)
NothingTestedWasSeen ==
  /\ Settled(outOfSample.train \cup outOfSample.validation, outOfSample.test, 1)
  /\ Settled(outOfSample.train, outOfSample.validation, 1)
  /\ \A k \in DOMAIN folds : Settled(folds[k].train, folds[k].test, 0)
  /\ \A j, k \in DOMAIN folds : j < k => folds[j].test \cap folds[k].test = {}
  /\ phase = "recorded" =>
       observations = Cardinality(outOfSample.test)
                      + Cardinality(UNION {folds[k].test : k \in DOMAIN folds})
=============================================================================
