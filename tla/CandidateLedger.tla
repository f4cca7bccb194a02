--------------------------- MODULE CandidateLedger ---------------------------
(***************************************************************************)
(* self_learning: the life of a candidate model, from a verified           *)
(* retraining to its promotion: CandidateLifecycleController,              *)
(* ValidationOrchestrator, PromotionController and the append-only         *)
(* LearningStore behind them.                                              *)
(*                                                                         *)
(* A ModelCandidate is immutable and its lifecycle is a field: a           *)
(* transition returns a new object and writes it to the ledger, and        *)
(* whoever holds the older object may use it again.  A record's            *)
(* fingerprint covers the lifecycle and not the time or the reason, so a   *)
(* candidate and a state are the whole of it.  Metrics and artifacts are   *)
(* left out: the gate's verdict on the evidence supplied is a choice.      *)
(***************************************************************************)
EXTENDS Naturals, Sequences, SequencesExt

CONSTANTS Candidates,   \* challenger versions that are trained
          MaxFailures   \* bound: writes of the ledger that fail

VARIABLES
  ledger,     \* the candidate records of the store, in order
  held,       \* the ModelCandidate objects that callers hold
  runs,       \* the ValidationRuns collected: [of, valid]
  decisions,  \* the PromotionDecisions made: [of, state]
  failures    \* writes that failed so far

ledgerVars == <<ledger, held, runs, decisions, failures>>

States == {"CANDIDATE", "VALIDATING", "PAPER", "PROMOTION_REVIEW",
           "PROMOTED", "REJECTED", "RETIRED"}
Allowed ==
  [s \in States |-> CASE s = "CANDIDATE" -> {"VALIDATING", "REJECTED"}
                      [] s = "VALIDATING" -> {"PAPER", "REJECTED"}
                      [] s = "PAPER" -> {"PROMOTION_REVIEW", "REJECTED"}
                      [] s = "PROMOTION_REVIEW" -> {"REJECTED"}
                      [] s = "PROMOTED" -> {"RETIRED"}
                      [] OTHER -> {}]

LedgerInit ==
  ledger = <<>> /\ held = {} /\ runs = {} /\ decisions = {} /\ failures = 0

In(c, s) == [candidate |-> c, state |-> s]

(* LearningStore._append: a record that is there raises                    *)
(* DuplicateArtifactError, out of the operation that asked for it.         *)
PersistAgain(m) ==                     \* mutant: duplicates are not looked for
  ledger' = Append(ledger, m)
Persist(m) ==
  /\ m \notin Range(ledger)
  /\ ledger' = Append(ledger, m)

Create(c) ==
  LET m == In(c, "CANDIDATE") IN
  /\ Persist(m) /\ held' = held \cup {m}
  /\ UNCHANGED <<runs, decisions, failures>>

(* transition, and start, which is the transition to VALIDATING.           *)
Transition(m, target) ==
  LET n == In(m.candidate, target) IN
  /\ m \in held /\ target \in Allowed[m.state]
  /\ Persist(n) /\ held' = held \cup {n}
  /\ UNCHANGED <<runs, decisions, failures>>

(* validate_candidate: the stages supplied are the caller's.               *)
Verdicts == BOOLEAN

(* collect binds the evidence to the object, and so to its lifecycle.      *)
Collect(m, valid) ==
  /\ m \in held /\ m.state = "VALIDATING"
  /\ runs' = runs \cup {[of |-> m, valid |-> valid]}
  /\ UNCHANGED <<ledger, held, decisions, failures>>

(* complete makes two transitions and returns the object of the second.    *)
Complete(run) ==
  LET paper  == In(run.of.candidate, "PAPER")
      review == In(run.of.candidate, "PROMOTION_REVIEW")
  IN  /\ run \in runs /\ run.valid
      /\ {paper, review} \cap Range(ledger) = {}
      /\ ledger' = ledger \o <<paper, review>>
      /\ held' = held \cup {review}
      /\ UNCHANGED <<runs, decisions, failures>>

(* The second write fails: PAPER is on file and nobody holds its object.   *)
CompleteFails(run) ==
  /\ run \in runs /\ run.valid
  /\ failures < MaxFailures /\ failures' = failures + 1
  /\ Persist(In(run.of.candidate, "PAPER"))
  /\ UNCHANGED <<held, runs, decisions>>

(* review: the evidence is supplied again, and is not that of the run.     *)
Decided(m, s) == decisions' = decisions \cup {[of |-> m, state |-> s]}
Review(m, valid) ==
  /\ m \in held /\ m.state = "PROMOTION_REVIEW"
  /\ Decided(m, IF valid THEN "ELIGIBLE" ELSE "BLOCKED")
  /\ UNCHANGED <<ledger, held, runs, failures>>

ApproveBlocked(d) ==                   \* mutant: a blocked review is approved as well
  /\ d \in decisions /\ d.state \in {"ELIGIBLE", "BLOCKED"}
  /\ Decided(d.of, "PROMOTED")
  /\ UNCHANGED <<ledger, held, runs, failures>>
Approve(d) ==
  /\ d \in decisions /\ d.state = "ELIGIBLE"
  /\ Decided(d.of, "PROMOTED")
  /\ UNCHANGED <<ledger, held, runs, failures>>

ApplyPromotion(m, d) ==
  /\ m \in held /\ m.state = "PROMOTION_REVIEW"
  /\ d \in decisions /\ d.state = "PROMOTED" /\ d.of = m
  /\ Persist(In(m.candidate, "PROMOTED"))
  /\ held' = held \cup {In(m.candidate, "PROMOTED")}
  /\ UNCHANGED <<runs, decisions, failures>>

LedgerNext ==
  \/ \E c \in Candidates : Create(c)
  \/ \E m \in held : \/ \E s \in Allowed[m.state] : Transition(m, s)
                      \/ \E valid \in Verdicts : Collect(m, valid) \/ Review(m, valid)
                      \/ \E d \in decisions : ApplyPromotion(m, d)
  \/ \E run \in runs : Complete(run) \/ CompleteFails(run)
  \/ \E d \in decisions : Approve(d)
=============================================================================
