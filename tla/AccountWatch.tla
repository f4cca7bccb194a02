---------------------------- MODULE AccountWatch ----------------------------
(***************************************************************************)
(* trading/live/upstox_risk_context.py: the account observation of a       *)
(* manual-review session, UpstoxManualRiskContextProvider.__call__, and    *)
(* the day-risk file it keeps (LiveDayRiskStateStore).                     *)
(*                                                                         *)
(* One call reads the clock, then the funds, then (positions and holdings  *)
(* between) the trades of the day, each by a request of its own, while the *)
(* operator trades and the market moves the account.  Of the account only  *)
(* the equity and whether the day has a trade are kept; any request may    *)
(* fail, and so may the write of the file.                                 *)
(***************************************************************************)
EXTENDS Integers

CONSTANTS Equities,     \* values of available_to_trade.total
          DayTicks,     \* ticks of a day
          MaxTime,      \* bound: clock
          MaxMoves      \* bound: changes of the equity

ASSUME AccountAssumption ==
  /\ Equities \subseteq Nat \ {0} /\ Equities # {}
  /\ {DayTicks, MaxTime, MaxMoves} \subseteq Nat /\ DayTicks > 0

VARIABLES
  now,        \* the clock
  equity,     \* the account's equity at the broker
  traded,     \* the account has a trade today
  moves,      \* changes of the equity so far
  untraded,   \* the equities the account had today before the first trade
  dayFile,    \* the day-risk file, or NoDay
  at,         \* where the session's thread is
  asOf,       \* observed_at of the call under way
  funds,      \* [equity, time] the call read, or NoFunds
  context     \* the LiveManualRiskContext it returned, or NoContext

accountVars == <<equity, traded, moves, untraded>>
callVars    == <<asOf, funds, context>>
watchVars   == <<now, accountVars, dayFile, at, callVars>>

NoDay     == [date |-> -1]
NoFunds   == [equity |-> -1]
NoContext == [asOf |-> -1]
Date(t)   == t \div DayTicks

WatchInit ==
  /\ now = 0 /\ equity \in Equities /\ traded = FALSE /\ moves = 0
  /\ untraded = {equity}
  /\ dayFile = NoDay
  /\ at = "down" /\ asOf = -1 /\ funds = NoFunds /\ context = NoContext

Observing == at \in {"funds", "trades"}

-----------------------------------------------------------------------------
(* The account and the clock                                               *)

Trade ==
  /\ traded' = TRUE /\ moves < MaxMoves /\ moves' = moves + 1
  /\ equity' \in Equities
  /\ UNCHANGED <<now, untraded, dayFile, at, callVars>>

Move ==
  /\ moves < MaxMoves /\ moves' = moves + 1
  /\ equity' \in Equities \ {equity}
  /\ untraded' = IF traded THEN untraded ELSE untraded \cup {equity'}
  /\ UNCHANGED <<now, traded, dayFile, at, callVars>>

(* The exchange is closed around midnight: no call spans it.               *)
Tick ==
  /\ now < MaxTime /\ now' = now + 1
  /\ IF Date(now') = Date(now)
       THEN UNCHANGED <<traded, untraded>>
       ELSE /\ ~Observing
            /\ traded' = FALSE /\ untraded' = {equity}
  /\ UNCHANGED <<equity, moves, dayFile, at, callVars>>

-----------------------------------------------------------------------------
(* The call                                                                *)

ReadClock == asOf' = now

ReadFunds ==
  /\ at = "funds"
  /\ funds' = [equity |-> equity, time |-> now]
  /\ at' = "trades"
  /\ UNCHANGED <<now, accountVars, dayFile, asOf, context>>

Larger(x, y) == IF x > y THEN x ELSE y

(* The day's state as the file has it, or a new one.                       *)
DayStateNewPeak ==                     \* mutant: the peak is the equity just read
  [date  |-> Date(asOf), peak |-> funds.equity,
   start |-> IF dayFile.date = Date(asOf) THEN dayFile.start ELSE funds.equity]
DayState ==
  LET today == Date(asOf)
      known == IF dayFile.date = today THEN dayFile
               ELSE [date |-> today, start |-> funds.equity, peak |-> funds.equity]
  IN  [known EXCEPT !.peak = Larger(@, funds.equity)]

(* Without a state of today, a day that has traded is refused.             *)
Refused == dayFile.date # Date(asOf) /\ traded

ReadTradesUnrefused ==                 \* mutant: the day start is made up
  /\ at = "trades"
  /\ dayFile' = DayState
  /\ context' = [asOf |-> asOf, fundsAt |-> funds.time, equity |-> funds.equity,
                 start |-> DayState.start, peak |-> DayState.peak]
  /\ at' = "decide"
  /\ UNCHANGED <<now, accountVars, asOf, funds>>
ReadTradesDatesLate ==                 \* mutant: the clock is read after the requests
  /\ at = "trades" /\ ~Refused
  /\ dayFile' = DayState
  /\ context' = [asOf |-> now, fundsAt |-> funds.time, equity |-> funds.equity,
                 start |-> DayState.start, peak |-> DayState.peak]
  /\ at' = "decide"
  /\ UNCHANGED <<now, accountVars, asOf, funds>>
(* The trades are read and the state is saved, by an atomic replacement:   *)
(* the call returns.  A request that fails, a refused day or a file that   *)
(* cannot be written raises LiveRiskContextUnavailable, and the exception  *)
(* ends the session (SessionEnds of LiveReview).                           *)
ReadTrades ==
  /\ at = "trades" /\ ~Refused
  /\ dayFile' = DayState
  /\ context' = [asOf |-> asOf, fundsAt |-> funds.time, equity |-> funds.equity,
                 start |-> DayState.start, peak |-> DayState.peak]
  /\ at' = "decide"
  /\ UNCHANGED <<now, accountVars, asOf, funds>>
=============================================================================
