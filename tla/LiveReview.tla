----------------------------- MODULE LiveReview -----------------------------
(***************************************************************************)
(* A manual-review session: CanonicalLivePaperOrchestrator.run_manual_review *)
(* with process_candle and its causal history, build_live_money_decision   *)
(* (trading/live/manual_decision.py), the signal of v1_signal/contracts.py *)
(* and the OperatorSnapshotWriter that publishes it.                       *)
(*                                                                         *)
(* A candle carries the start of its bucket and is complete when a trade   *)
(* of a later bucket arrives, whose exchange time may be MaxSkew ahead of  *)
(* the clock.  Analysis, prediction, strategy and the risk engine are a    *)
(* choice of their outcome: a trade, whatever its direction and its risk   *)
(* status, or not.  Every exception of a candle leaves the loop and ends   *)
(* the session; its last snapshot stays on disk.                           *)
(***************************************************************************)
EXTENDS AccountWatch

CONSTANTS CandleTicks,   \* ticks of a candle (5 minutes)
          Validity,      \* ticks a signal is valid, from its candle's timestamp (5 minutes)
          MaxAge,        \* STOCK_BOT_RISK_CONTEXT_MAX_AGE_SECONDS
          MaxSkew,       \* max_future_skew_seconds
          MaxSessions    \* bound: sessions started

ASSUME ReviewAssumption ==
  /\ {CandleTicks, Validity, MaxAge, MaxSkew, MaxSessions} \subseteq Nat
  /\ CandleTicks > 0

VARIABLES
  last,       \* the session's next candle is later than this
  sessions,   \* sessions started
  snapshot    \* the candle of the operator snapshot's v1_signal, or NoSignal

reviewVars == <<last, sessions, snapshot>>

NoSignal == -1
ValidUntil(s) == s + Validity
Expired(s) == now > ValidUntil(s)

ReviewInit == last = 0 /\ sessions = 0 /\ snapshot = NoSignal

(* build_live_manual_review_runtime writes a waiting snapshot.  The first  *)
(* candle is made of trades of this session.                               *)
StartSession ==
  /\ at = "down" /\ sessions < MaxSessions
  /\ at' = "waiting" /\ last' = now - CandleTicks /\ sessions' = sessions + 1
  /\ snapshot' = NoSignal
  /\ UNCHANGED <<now, accountVars, dayFile, callVars>>

(* The next completed candle of the stream: the history takes it, and the  *)
(* benchmark's history must end with it.                                   *)
Candles == {b \in 0..now : b % CandleTicks = 0 /\ b + CandleTicks <= now + MaxSkew}
CandleArrives(b) ==
  /\ at = "waiting" /\ b > last
  /\ last' = b /\ at' = "analyse"
  /\ UNCHANGED <<now, accountVars, dayFile, callVars, sessions, snapshot>>

(* Research, analysis and prediction are done; the account is next.        *)
Analysed ==
  /\ at = "analyse"
  /\ ReadClock /\ at' = "funds"
  /\ UNCHANGED <<now, accountVars, dayFile, funds, context, reviewVars>>

(* build_live_money_decision: no trade is decided before the context is    *)
(* looked at; a context that has grown old since its clock was read is     *)
(* none; the risk engine decides on the context that is left.              *)
Fresh == now - context.asOf <= MaxAge
Decisions ==
  {"NO_TRADE"} \cup (IF Fresh THEN {"UNAVAILABLE", "CANDIDATE_REJECTED", "REJECTED", "APPROVED"}
                              ELSE {"UNAVAILABLE"})
WithContext(decision) == decision \in {"CANDIDATE_REJECTED", "REJECTED", "APPROVED"}

Forget == asOf' = -1 /\ funds' = NoFunds /\ context' = NoContext

(* OperatorSnapshotWriter.observe: a decision with its context is          *)
(* published, approved or not; one without raises.                         *)
Publish ==
  /\ at = "decide" /\ \E d \in Decisions : WithContext(d)
  /\ snapshot' = last
  /\ at' = "waiting" /\ Forget
  /\ UNCHANGED <<now, accountVars, dayFile, last, sessions>>

WriterRefuses ==
  /\ at = "decide" /\ \E d \in Decisions : ~WithContext(d)
  /\ at' = "down" /\ Forget
  /\ UNCHANGED <<now, accountVars, dayFile, reviewVars>>

(* An exception leaves process_candle (a history that does not fit, a      *)
(* benchmark without the candle's bar, an account that cannot be           *)
(* observed), the feed ends, max_candles is reached, or the process dies.  *)
SessionEnds ==
  /\ at # "down"
  /\ at' = "down" /\ Forget
  /\ UNCHANGED <<now, accountVars, dayFile, reviewVars>>

SessionNext ==
  \/ StartSession
  \/ \E b \in Candles : CandleArrives(b)
  \/ Analysed
  \/ ReadFunds /\ UNCHANGED reviewVars
  \/ ReadTrades /\ UNCHANGED reviewVars
  \/ Publish \/ WriterRefuses
  \/ SessionEnds

AccountNext == (Trade \/ Move \/ Tick) /\ UNCHANGED reviewVars
=============================================================================
