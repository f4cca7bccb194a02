--------------------------- MODULE MCControlPlane ---------------------------
(***************************************************************************)
(* Model-checking instance.  The automation and the registry share nothing *)
(* with the rest, and two candidates do not meet in the ledger: the        *)
(* behaviours explored are those of the automation alone, of the registry  *)
(* alone, of one candidate with every detour, and of two candidates on the *)
(* straight way to the champion store.                                     *)
(***************************************************************************)
EXTENDS ControlPlane

ModelsSymmetry == Permutations(Candidates) \cup Permutations(Callers)

MCOrder == <<"DATA", "SAFETY", "EXECUTION", "MONITORING">>

NoRegistry   == \A v \in Versions : registry[v] = <<>>
NoCandidate  == ledger = <<>>
NoAutomation == records = <<>>
Alone        == \A m1, m2 \in held : m1.candidate = m2.candidate
Straight     ==
  /\ failures = 0
  /\ \A m \in Range(ledger) : m.state \notin {"REJECTED", "RETIRED"}
  /\ \A run \in runs : run.valid
  /\ \A d \in decisions : d.state # "BLOCKED"

Focus ==
  /\ (NoRegistry /\ NoCandidate) \/ NoAutomation
  /\ NoRegistry \/ NoCandidate
  /\ Straight \/ (Alone /\ Len(history) <= 1)
=============================================================================
