-------------------------- MODULE SecurityLineage --------------------------
(***************************************************************************)
(* market/data/historical: which listed instrument a dated record of the   *)
(* NSE Security Master is today.  A record observed on a day has a symbol, *)
(* an instrument id and an ISIN, and may be marked deleted; a transition   *)
(* is an announced change of symbol.  Nothing is inferred from an equal    *)
(* ISIN or id: a renamed symbol resolves through corroborated transitions  *)
(* only.  All records are of one series and one exchange (EQ, NSE), from   *)
(* one observation history.                                                *)
(***************************************************************************)
EXTENDS Integers, FiniteSets, FiniteSetsExt

CONSTANT None   \* no end day, no symbol

ASSUME LineageAssumption == None \notin Int

Identity(r) == [id |-> r.id, symbol |-> r.symbol, isin |-> r.isin]

(* A retained old-symbol record is no evidence against the transition when *)
(* it is marked deleted.                                                   *)
EvidenceFor(transition, evidence) ==
  {e \in evidence : ~ /\ e.symbol = transition.old
                      /\ e.day >= transition.day
                      /\ e.deleted}

Under(symbol, evidence) == {e \in evidence : e.symbol = symbol}
Before(transition, evidence) == {e \in evidence : e.day < transition.day}
Since(transition, evidence)  == {e \in evidence : e.day >= transition.day}

LatestOf(evidence)   == {e \in evidence : \A x \in evidence : x.day <= e.day}
EarliestOf(evidence) == {e \in evidence : \A x \in evidence : x.day >= e.day}

(* The old symbol was seen before the transition and never since, the new  *)
(* one since and never before, by one record each at the closest day.      *)
Corroborated(transition, evidence) ==
  LET old == Under(transition.old, EvidenceFor(transition, evidence))
      new == Under(transition.new, EvidenceFor(transition, evidence))
  IN /\ Since(transition, old) = {} /\ Before(transition, new) = {}
     /\ Cardinality(LatestOf(Before(transition, old))) = 1
     /\ Cardinality(EarliestOf(Since(transition, new))) = 1

Resolution(transition, evidence) ==
  LET old == Under(transition.old, EvidenceFor(transition, evidence))
      new == Under(transition.new, EvidenceFor(transition, evidence))
  IN [before |-> CHOOSE e \in LatestOf(Before(transition, old)) : TRUE,
      after  |-> CHOOSE e \in EarliestOf(Since(transition, new)) : TRUE,
      day    |-> transition.day]

Interval(identity, from, to) == [identity |-> identity, from |-> from, to |-> to]
Intervals(resolution) ==
  {Interval(Identity(resolution.before), resolution.before.day, resolution.day - 1),
   Interval(Identity(resolution.after), resolution.day, None)}

(* SecurityLineage: only the last interval is open, and none overlap.      *)
Chronological(intervals) ==
  \A i, j \in intervals :
    i # j => /\ i.from # j.from
             /\ i.from < j.from => i.to # None /\ i.to < j.from

(* get_security_lineage for an identity observed on a day: the intervals,  *)
(* or none when the evidence does not carry it.  Every transition that     *)
(* names the symbol must be corroborated, those of other instruments too.  *)
Lineage(identity, asOf, transitions, evidence) ==
  LET matching == {t \in transitions : identity.symbol \in {t.old, t.new}}
      relevant == {r \in {Resolution(t, evidence) : t \in matching} :
                     identity \in {Identity(r.before), Identity(r.after)}}
      joined   == UNION {Intervals(r) : r \in relevant}
  IN CASE matching = {} -> {Interval(identity, asOf, None)}
       [] OTHER -> IF /\ \A t \in matching : Corroborated(t, evidence)
                      /\ Chronological(joined)
                   THEN joined ELSE {}

(* observation_on: the identities in force on a day, at most one.          *)
InForce(intervals, day) ==
  {i.identity : i \in {j \in intervals : j.from <= day /\ (j.to = None \/ day <= j.to)}}

(* mutant: a symbol the provider lists is the security *)
ResolveBySymbol(pit, asOf, mapper, transitions, evidence) ==
  IF pit.symbol \in DOMAIN mapper THEN pit.symbol ELSE None
(* PointInTimeInstrumentResolver.resolve: the provider's symbol for a      *)
(* record of the universe as of a day, or None.  A symbol the provider     *)
(* maps is taken when its ISIN is the record's; any other needs a lineage  *)
(* whose identity on that very day the provider maps, ISIN included.       *)
Resolve(pit, asOf, mapper, transitions, evidence) ==
  LET current == InForce(Lineage(pit, asOf, transitions, evidence), asOf)
      mapped  == {i \in current : /\ i.symbol \in DOMAIN mapper
                                  /\ mapper[i.symbol] = i.isin}
  IN IF pit.symbol \in DOMAIN mapper
     THEN IF mapper[pit.symbol] = pit.isin THEN pit.symbol ELSE None
     ELSE IF evidence = {} \/ mapped = {} THEN None ELSE (CHOOSE i \in mapped : TRUE).symbol
=============================================================================
