--------------------------- MODULE Concentration ---------------------------
(***************************************************************************)
(* The opt-in limits on what a book may concentrate on: PortfolioManager   *)
(* (portfolio/manager.py), which judges a proposal before Risk sees it,    *)
(* and the drawdown, symbol, sector and correlation limits of RiskEngine   *)
(* (trading/risk/concentration.py, correlation.py).  The two project the   *)
(* book after the trade each in its own way.  A book is the signed         *)
(* quantity of each symbol, judged at one price each; limits are           *)
(* percentages of the equity, Off one that is not configured.              *)
(***************************************************************************)
EXTENDS PaperAccount, RiskGate

CONSTANTS SectorOf,             \* sector of each symbol
          Correlated,           \* pairs of symbols at or above minimum_abs_correlation
          MaxPositions,         \* PortfolioLimits.max_positions
          PortfolioGrossPct, PortfolioSymbolPct, PortfolioSectorPct,
          DrawdownPct, SymbolPct, SectorPct, CorrelatedPct   \* RiskConfig

Off == 0   \* None, which no configured limit is

ASSUME ConcentrationAssumption ==
  /\ DOMAIN SectorOf = Symbols
  /\ \A pair \in Correlated : pair \subseteq Symbols /\ Cardinality(pair) = 2
  /\ MaxPositions \in Nat
  /\ \A pct \in {PortfolioGrossPct, PortfolioSymbolPct, PortfolioSectorPct,
                 DrawdownPct, SymbolPct, SectorPct, CorrelatedPct} :
       pct \in {Off} \cup 1..100

Within(value, equity, pct) == pct = Off \/ 100 * value <= equity * pct

(* Exposure of the symbols ss of a book, whatever the direction.           *)
ValueOf(book, price, ss) == SumFunctionOnSet([s \in Symbols |-> Abs(book[s]) * price[s]], ss)

SectorPeers(s) == {x \in Symbols : SectorOf[x] = SectorOf[s]}
Companions(s)  == {x \in Symbols : {s, x} \in Correlated}

ProjectedUnsigned(book, s, target) ==   \* mutant: the side of the intent is ignored
  [book EXCEPT ![s] = @ + Abs(target - @)]
(* projected_snapshot and the checks of PortfolioManager.evaluate.         *)
Projected(book, s, target) == [book EXCEPT ![s] = target]

PortfolioApproves(book, price, equity, s, target) ==
  LET after == Projected(book, s, target)
  IN  /\ MaxPositions = Off \/ Cardinality({x \in Symbols : after[x] # 0}) <= MaxPositions
      /\ Within(ValueOf(after, price, Symbols), equity, PortfolioGrossPct)
      /\ Within(ValueOf(after, price, {s}), equity, PortfolioSymbolPct)
      /\ Within(ValueOf(after, price, SectorPeers(s)), equity, PortfolioSectorPct)

(* The drawdown gate of section 2 of RiskEngine.evaluate.                  *)
InDrawdown(equity, peak) ==
  DrawdownPct # Off /\ 100 * equity <= peak * (100 - DrawdownPct)

SpreadSectorForgotten(book, price, equity, s, decision) ==  \* mutant: the sector is dropped with the old leg
  LET kind     == Transition(book[s], decision.projected)
      replaces == kind \in {"REDUCE", "FLATTEN", "REVERSE"}
      proposed == price[s] * (IF replaces THEN Abs(decision.projected) ELSE decision.quantity)
      sector   == IF replaces THEN 0 ELSE ValueOf(book, price, SectorPeers(s))
      own      == IF replaces THEN 0 ELSE ValueOf(book, price, {s})
  IN  /\ Within(own + proposed, equity, SymbolPct)
      /\ Within(sector + proposed, equity, SectorPct)
      /\ Within(ValueOf(book, price, Companions(s)) + proposed, equity, CorrelatedPct)
(* Section 8, for a decision that has passed the other gates: a release or *)
(* reversal replaces what the book has in the symbol, also in its sector,  *)
(* an order that opens adds to it.  Correlated positions are those of the  *)
(* other symbols: of its own symbol an increase counts the addition only.  *)
Spread(book, price, equity, s, decision) ==
  LET kind     == Transition(book[s], decision.projected)
      replaces == kind \in {"REDUCE", "FLATTEN", "REVERSE"}
      proposed == price[s] * (IF replaces THEN Abs(decision.projected) ELSE decision.quantity)
      replaced == IF replaces THEN {s} ELSE {}
  IN  /\ Within(ValueOf(book, price, {s} \ replaced) + proposed, equity, SymbolPct)
      /\ Within(ValueOf(book, price, SectorPeers(s) \ replaced) + proposed, equity, SectorPct)
      /\ Within(ValueOf(book, price, Companions(s)) + proposed, equity, CorrelatedPct)
=============================================================================
