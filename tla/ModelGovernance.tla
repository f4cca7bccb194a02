-------------------------- MODULE ModelGovernance --------------------------
(***************************************************************************)
(* The governance of models: the candidates' ledger and promotion, the     *)
(* model registry (ml/model_registry.py) and the champion store, as one    *)
(* process uses them.  They share versions and promotion decisions and     *)
(* hold no reference to one another.                                       *)
(***************************************************************************)
EXTENDS CandidateLedger, ChampionStore

CONSTANT MaxRecords   \* bound: records of a version

VARIABLE registry     \* per version: the statuses of its records, in order

governanceVars == <<ledgerVars, championVars, registry>>

GovernanceInit == LedgerInit /\ ChampionInit /\ registry = [v \in Versions |-> <<>>]

Status(v) == IF registry[v] = <<>> THEN "NONE" ELSE Last(registry[v])
Recorded(v, s) ==
  /\ Len(registry[v]) < MaxRecords
  /\ registry' = [registry EXCEPT ![v] = Append(@, s)]
  /\ UNCHANGED <<ledgerVars, championVars>>

(* register: a version is registered once, under any status but APPROVED;  *)
(* the same record again is no change.                                     *)
Register(v, s) == Status(v) = "NONE" /\ Recorded(v, s)

(* approve: on evidence made for the record as it is registered now.       *)
ApproveModel(v) == Status(v) = "CANDIDATE" /\ Recorded(v, "APPROVED")

(* retire: any registered version, as often as one asks.                   *)
Retire(v) == Status(v) # "NONE" /\ Recorded(v, "RETIRED")

RegistryNext ==
  \E v \in Versions : \/ \E s \in {"RESEARCH_ONLY", "CANDIDATE", "RETIRED"} : Register(v, s)
                      \/ ApproveModel(v) \/ Retire(v)

ChampionNext ==
  \/ \E d \in decisions, p \in Versions \cup {Base, NoVersion} :
       d.state = "PROMOTED" /\ p # d.of.candidate /\ Activate(d.of.candidate, p)
  \/ WritePointer \/ Dies

GovernanceNext ==
  \/ LedgerNext /\ UNCHANGED <<championVars, registry>>
  \/ ChampionNext /\ UNCHANGED <<ledgerVars, registry>>
  \/ RegistryNext

-----------------------------------------------------------------------------
(* Properties                                                              *)

Filed(c, s) == In(c, s) \in Range(ledger)
Before(c, s, t) ==
  \A j \in DOMAIN ledger : ledger[j] = In(c, t) =>
    \E i \in 1..(j - 1) : ledger[i] = In(c, s)

(* The ledger tells each candidate's life once and in order, whatever      *)
(* older objects are used again and whichever write fails; the registry    *)
(* approves a version once, on evidence of its candidate record, and a     *)
(* retired version stays retired.                                          *)
ToldInOrder ==
  /\ \A i, j \in DOMAIN ledger : ledger[i] = ledger[j] => i = j
  /\ \A c \in Candidates :
       /\ Before(c, "CANDIDATE", "VALIDATING") /\ Before(c, "VALIDATING", "PAPER")
       /\ Before(c, "PAPER", "PROMOTION_REVIEW")
       /\ Before(c, "PROMOTION_REVIEW", "PROMOTED") /\ Before(c, "PROMOTED", "RETIRED")
  /\ \A v \in Versions : \A i \in DOMAIN registry[v] :
       /\ registry[v][i] = "APPROVED" => i > 1 /\ registry[v][i - 1] = "CANDIDATE"
       /\ registry[v][i] = "RETIRED" => Status(v) = "RETIRED"

(* Whatever became a champion or was promoted had an eligible review of    *)
(* its own, made while it was under PROMOTION_REVIEW.                      *)
ReviewedFirst ==
  \A c \in Candidates :
    (\/ Filed(c, "PROMOTED") \/ \E i \in DOMAIN history : history[i].version = c) =>
      /\ [of |-> In(c, "PROMOTION_REVIEW"), state |-> "ELIGIBLE"] \in decisions
      /\ Filed(c, "PROMOTION_REVIEW")

(* No candidate reaches the champion's place by another road than the one  *)
(* the ledger tells: its stages in order, and an eligible review before it.*)
LivesInOrder == ToldInOrder /\ ReviewedFirst

(* The champion is lost, so that no version can be read or activated any   *)
(* more, only by a death between the writes of activate or by a first      *)
(* record that names a parent; and then it is lost for good.               *)
ChampionKnown ==
  ~pointing /\ ~Readable => deaths > 0 \/ history[1].parent # NoVersion

(* docs/SELF_LEARNING_ENGINE.md: "Rejection is terminal."  It does not     *)
(* hold: an object from before the rejection can still be advanced.  No    *)
(* run checks it.                                                          *)
RejectionIsTerminal ==
  \A i, j \in DOMAIN ledger :
    i < j /\ ledger[i].state = "REJECTED" => ledger[j].candidate # ledger[i].candidate
=============================================================================
