-------------------------- MODULE MCMarketHistory --------------------------
(***************************************************************************)
(* Model-checking instance.  The histories explored are those in which     *)
(* symbols change hands, those with a crash, and those with a backfill,    *)
(* not all at once.                                                        *)
(***************************************************************************)
EXTENDS MarketHistory, TLC

CONSTANT MaxEvents   \* bound: renamings, and listings after the first day

MCSecurities == {"s", "t"}
MCSessions   == {1, 2, 4, 5, 6}
MCTurnover   == [s |-> [d \in Days |-> 4], t |-> [d \in Days |-> IF d < 4 THEN 1 ELSE 4]]
MCArchives   == {{}, Days, {2, 5}}
SymbolSymmetry == Permutations(Symbols)

Late == {s \in Securities : listing[s] # None /\ \A r \in master[1] : r.id[1] # s}
Focus ==
  /\ Cardinality(changes) + Cardinality(Late) <= MaxEvents
  /\ \A s \in Securities : listing[s] = None => s = "t"
  /\ job.pc # "idle" => today = LastDay
  /\ changes # {} /\ job.pc = "idle" => \A d \in Days : cache[d] = "absent"
  /\ job.pc # "writing" /\ (\E d \in Days : cache[d] \in {"empty", "torn"}) => changes = {}
  /\ file # NoFile \/ job.pc = "saving" =>
       changes = {} /\ today = LastDay /\ \A d \in Days : cache[d] = "absent"
=============================================================================
