------------------------- MODULE PointInTimeUniverse -------------------------
(***************************************************************************)
(* market/data/historical: the instruments eligible on a day, from the     *)
(* Security Master of that day and the traded values of the exchange       *)
(* sessions before it (liquidity.py, universe.py,                          *)
(* point_in_time_universe.py).  A row of a daily Bhavcopy has a day, an    *)
(* instrument id and a traded value.                                       *)
(***************************************************************************)
EXTENDS Integers, FiniteSets, FiniteSetsExt

CONSTANTS Sessions,       \* trading days of the exchange calendar
          Lookback,       \* sessions a liquidity measurement looks back
          MinCompleted,   \* of which an instrument must have traded in
          MinAverage      \* least average traded value

(* The policy of the dataset scripts, 15 of 20 sessions: two records of    *)
(* which one replaced the other are never both liquid.                     *)
ASSUME LiquidityAssumption ==
  /\ Lookback \in Nat \ {0} /\ MinCompleted \in 1..Lookback
  /\ 2 * MinCompleted > Lookback
  /\ Sessions \subseteq Nat \ {0} /\ MinAverage \in Nat

SessionsUpTo(asOf) ==   \* mutant: the day's own session counts as completed
  LET earlier == {d \in Sessions : d <= asOf}
  IN {d \in earlier : Cardinality({x \in earlier : x > d}) < Lookback}
(* _completed_session_dates_before: the latest sessions strictly before a  *)
(* day; too few of them fail the build.                                    *)
SessionsBefore(asOf) ==
  LET earlier == {d \in Sessions : d < asOf}
  IN {d \in earlier : Cardinality({x \in earlier : x > d}) < Lookback}
EnoughSessions(asOf) == Cardinality(SessionsBefore(asOf)) = Lookback

(* rolling_liquidity: of an instrument's rows before the day, the latest.  *)
Measurement(id, asOf, rows) ==
  LET eligible == {r \in rows : r.id = id /\ r.day < asOf}
  IN {r \in eligible : Cardinality({x \in eligible : x.day > r.day}) < Lookback}

IsLiquid(measurement) ==
  /\ Cardinality(measurement) >= MinCompleted
  /\ MapThenSumSet(LAMBDA r : r.value, measurement)
       >= MinAverage * Cardinality(measurement)

(* build_universe_snapshot.  Whether a record is marked deleted is not     *)
(* looked at: the plain snapshot does not carry it.                        *)
Selected(records, asOf, rows) ==
  {r \in records : IsLiquid(Measurement(r.id, asOf, rows))}

(* Selected instruments without an ISIN the provider lists today cannot be *)
(* downloaded: they are excluded, with the reason, and stay in the         *)
(* snapshot.                                                               *)
Bridged(selected, listed)  == {r \in selected : r.isin \in listed}
Excluded(selected, listed) == {r.symbol : r \in selected \ Bridged(selected, listed)}
=============================================================================
