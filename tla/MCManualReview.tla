--------------------------- MODULE MCManualReview ---------------------------
(***************************************************************************)
(* Model-checking instance: the account and the dashboard share nothing    *)
(* but the clock, so the behaviours explored are those in which the        *)
(* account moves and sessions follow one another, and those in which the   *)
(* dashboard has requests beside one session, not both.                    *)
(***************************************************************************)
EXTENDS ManualReview

HandlersSymmetry == Permutations(Handlers)

AccountStill   == moves = 0 /\ sessions <= 1
DashboardStill == crashes = 0 /\ journal = <<>> /\ \A h \in Handlers : step[h] = "idle"
Focus == AccountStill \/ (DashboardStill /\ screen = NoSignal)
=============================================================================
