----------------------------- MODULE PaperBook -----------------------------
(***************************************************************************)
(* Signed transitions of a paper book within one date: a proposal that a   *)
(* position go from what it is to another quantity passes the portfolio's  *)
(* limits, RiskGate and its concentration limits decide on the account as  *)
(* PaperAccount reports it, and the authorized order is submitted to that  *)
(* account.  Prices move between decisions.  The direction of a candidate  *)
(* is the one its transition requires (RiskEngine refuses any other).      *)
(***************************************************************************)
EXTENDS Concentration

CONSTANTS Initial,       \* initial_equity, the day's starting equity
          Stops,         \* stop distances
          Available,     \* available_cash the candidate comes with
          Volatility,    \* volatility factors, in percent
          Peaks,         \* peak_equity before the current equity
          Largest        \* bound: the largest quantity proposed

ASSUME BookAssumption ==
  /\ Stops \subseteq Nat \ {0} /\ Available \subseteq Nat
  /\ Volatility \subseteq 0..100 /\ Peaks \subseteq Nat \ {0}
  /\ {Initial, Largest} \subseteq Nat \ {0}

VARIABLES
  price,    \* the current mark of each symbol
  entries,  \* trades of the day
  last      \* the last assessment, with what it was asked

bookVars == <<accountVars, price, entries, last>>

Quantities == -Largest..Largest
NoAssessment == [approved |-> FALSE]

BookTypeOK ==
  /\ AccountTypeOK
  /\ qty \in [Symbols -> Quantities]
  /\ price \in [Symbols -> Prices]
  /\ entries \in 0..MaxTrades

BookInit ==
  /\ AccountInit
  /\ price \in [Symbols -> Prices]
  /\ entries = 0
  /\ last = NoAssessment

Equity == Initial + realized + Unrealized(price)

AccountSlotsByOrder(available) ==      \* mutant: one slot however many symbols
  [healthy |-> TRUE, pnl |-> realized + Unrealized(price), dayStart |-> Initial,
   trades |-> entries, open |-> IF qty = bought THEN 0 ELSE 1, held |-> FALSE,
   equity |-> Equity, cash |-> available, gross |-> Exposure(price)]
Account(available) ==
  [healthy |-> TRUE, pnl |-> realized + Unrealized(price), dayStart |-> Initial,
   trades |-> entries, open |-> Cardinality(HeldSymbols), held |-> FALSE,
   equity |-> Equity, cash |-> available, gross |-> Exposure(price)]

(* What RiskEngine answers to a proposal; peak_equity is never below the   *)
(* current equity.                                                         *)
Decision(s, target, stop, vol, available, peak) ==
  LET d == DecideTransition(Account(available), qty[s], target, price[s], stop, vol)
  IN  IF /\ d.approved
         /\ ~InDrawdown(Equity, IF peak > Equity THEN peak ELSE Equity)
         /\ Spread(qty, price, Equity, s, d)
      THEN d ELSE Rejected

(* A proposal for symbol s is approved and filled.                         *)
Evaluate(s, target, d) ==
  /\ d.approved
  /\ Submit(s, Sgn(target - qty[s]), d.quantity, price[s])
  /\ entries' = entries + (IF Opening(qty[s], target) > 0 THEN 1 ELSE 0)
  /\ UNCHANGED price

(* A proposal that is refused is submitted without authorization.          *)
Refuse(d) ==
  /\ ~d.approved
  /\ SubmitBlocked
  /\ UNCHANGED <<price, entries>>

(* A proposal the portfolio rejects goes no further.                       *)
Propose(s, target, stop, vol, available, peak) ==
  /\ Equity > 0 /\ target # qty[s]
  /\ PortfolioApproves(qty, price, Equity, s, target)
  /\ \E d \in {Decision(s, target, stop, vol, available, peak)} :
      /\ Evaluate(s, target, d) \/ Refuse(d)
      /\ last' = IF d.approved
                 THEN [approved |-> TRUE, symbol |-> s, from |-> qty[s], target |-> target,
                       projected |-> d.projected, gross |-> d.gross, stop |-> stop,
                       equity |-> Equity, before |-> Exposure(price),
                       foreseen |-> ValueOf(Projected(qty, s, target), price, Symbols)]
                 ELSE NoAssessment

(* The market moves and the account is read again.                         *)
Mark(s, p) ==
  /\ price[s] # p
  /\ price' = [price EXCEPT ![s] = p]
  /\ last' = NoAssessment
  /\ UNCHANGED <<accountVars, entries>>

BookNext ==
  \/ \E s \in Symbols, target \in Quantities, stop \in Stops, vol \in Volatility,
        available \in Available, peak \in Peaks :
       Propose(s, target, stop, vol, available, peak)
  \/ \E s \in Symbols, p \in Prices : Mark(s, p)

BookSpec == BookInit /\ [][BookNext]_bookVars

-----------------------------------------------------------------------------
(* Properties                                                              *)

Approved == last.approved
Release  == Transition(last.from, last.target) \in {"REDUCE", "FLATTEN"}
Opened   == Opening(last.from, qty[last.symbol])

(* Portfolio and Risk project the book each by its own arithmetic, signed  *)
(* positions here and legs of the transition there: after an approved      *)
(* order, position and gross exposure are what both said.                  *)
ProjectionMet ==
  Approved => /\ qty[last.symbol] = last.projected
              /\ Exposure(price) = last.gross
              /\ AllowResize \/ Exposure(price) = last.foreseen

(* An approved order leaves the position between what it was and what the  *)
(* portfolio asked for: risk never enlarges and never overshoots.          *)
NeverMoreThanAsked ==
  Approved => LET now == qty[last.symbol]
              IN  \/ last.from <= now /\ now <= last.target
                  \/ last.target <= now /\ now <= last.from

(* After an approved opening, increase or reversal the book at decision    *)
(* price is within the gross limit, and an approved release leaves a       *)
(* smaller book than before.                                               *)
ExposureHeld ==
  Approved => IF Release THEN Exposure(price) < last.before
              ELSE ~OverExposed(Exposure(price), last.equity)

(* What an approved order opens, stopped out, loses no more than the risk  *)
(* budget of one trade; a reversal's closing leg takes none of it.         *)
RiskBudgetHeld ==
  Approved => 100 * Opened * last.stop <= last.equity * RiskPct

(* Transitions of held symbols need no slot and openings never exceed      *)
(* max_open_positions.                                                     *)
SlotsHeld == Cardinality(HeldSymbols) <= MaxOpen

(* Nor does the book concentrate more than the portfolio and risk allow,   *)
(* on a symbol, a sector or correlated symbols (an increase of a held one  *)
(* apart, for which Risk does not count the position it adds to).          *)
Concentrated(ss, pct) == ~Within(ValueOf(qty, price, ss), last.equity, pct)
SpreadHeld ==
  Approved =>
    LET s == last.symbol
    IN  /\ \A pct \in {SymbolPct, PortfolioSymbolPct} : ~Concentrated({s}, pct)
        /\ \A pct \in {SectorPct, PortfolioSectorPct} : ~Concentrated(SectorPeers(s), pct)
        /\ Transition(last.from, qty[s]) # "INCREASE" =>
             ~Concentrated({s} \cup Companions(s), CorrelatedPct)

(* What evaluate approved keeps every limit it was judged by once it is    *)
(* filled: direction, gross exposure, risk of the trade, slots, and        *)
(* concentration.                                                          *)
LimitsHeld == NeverMoreThanAsked /\ ExposureHeld /\ RiskBudgetHeld /\ SlotsHeld /\ SpreadHeld
=============================================================================
