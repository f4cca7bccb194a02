---------------------------- MODULE ManualReview ----------------------------
(***************************************************************************)
(* The manual review of real-market signals: a session (LiveReview, one    *)
(* process) publishes its last signal in the snapshot file, the dashboard  *)
(* (ReviewJournal, another process) shows it and records what the operator *)
(* makes of it.  The two share the snapshot file and the clock only.       *)
(***************************************************************************)
EXTENDS LiveReview, ReviewJournal

VARIABLE screen     \* the signal the page shows (it polls the snapshot), or NoSignal

vars == <<watchVars, reviewVars, journalVars, screen>>

Init == WatchInit /\ ReviewInit /\ JournalInit /\ screen = NoSignal

(* dashboard/index.html asks for /api/snapshot every two seconds.          *)
Poll ==
  /\ screen # snapshot /\ screen' = snapshot
  /\ UNCHANGED <<watchVars, reviewVars, journalVars>>

Requests ==
  \E h \in Handlers :
    \/ \E a \in {"ACCEPT", "REJECT"} : screen # NoSignal /\ PostReview(h, a, now, screen)
    \/ ReadSnapshot(h, snapshot, snapshot # NoSignal, Expired(snapshot))
    \/ \E r \in Reviews : PostOutcome(h, r)
    \/ Lock(h) \/ Write(h) \/ End(h)

Next ==
  \/ (SessionNext \/ AccountNext) /\ UNCHANGED <<journalVars, screen>>
  \/ Poll
  \/ (Requests \/ Crash) /\ UNCHANGED <<watchVars, reviewVars, screen>>

Spec == Init /\ [][Next]_vars

-----------------------------------------------------------------------------
(* Properties                                                              *)

(* The state of a day starts from an equity the account had before the     *)
(* first trade of that day, and covers the context a decision is about to  *)
(* use, whatever was traded and whichever session died in between.         *)
DayStateCovers ==
  /\ dayFile.date = Date(now) => dayFile.start \in untraded
  /\ context # NoContext =>
       context.start = dayFile.start /\ dayFile.peak >= context.equity

(* Within a day the start never changes and the peak never falls.          *)
DayStateKept ==
  [][dayFile' # dayFile /\ dayFile # NoDay =>
       \/ dayFile'.date > dayFile.date
       \/ dayFile'.date = dayFile.date /\ dayFile'.start = dayFile.start
          /\ dayFile'.peak > dayFile.peak]_vars

(* The loss and drawdown limits of a day are measured from its true start  *)
(* and from a peak that is never lowered, through restarts.                *)
DayStateSound == []DayStateCovers /\ DayStateKept

(* A published signal rests on an account of which no figure is older than *)
(* the maximum age at the decision.                                        *)
PublishedFresh ==
  [][snapshot' \notin {snapshot, NoSignal} => now - context.fundsAt <= MaxAge]_vars

(* Journal: no two records with one identity, at most one outcome to a     *)
(* review and none before its review, for any interleaving of requests;    *)
(* and the file is ruined only by a server that died between the two       *)
(* writes of a line.                                                       *)
JournalSound ==
  /\ \A i, j \in DOMAIN journal : i < j /\ journal[i].kind = journal[j].kind =>
       IF journal[i].kind = "review" THEN Id(journal[i]) # Id(journal[j])
                                     ELSE journal[i].review # journal[j].review
  /\ \A j \in DOMAIN journal : journal[j].kind = "outcome" =>
       \E i \in 1..(j - 1) : journal[i] = journal[j].review
  /\ tail = "ruined" => crashes > 0
  /\ tail = "partial" => Locked

(* An accepted signal had not expired when the operator clicked, though    *)
(* the snapshot outlives the session and the page outlives the snapshot.   *)
AcceptedInTime ==
  \A r \in Reviews : r.action = "ACCEPT" => r.time <= ValidUntil(r.signal)

(* docs/V1_MANUAL_REVIEW_JOURNAL.md: each review captures the "signal      *)
(* fingerprint as observed by the reviewer".  It does not hold: the record *)
(* is of the snapshot read when the request arrives.  No run checks it.    *)
ReviewedAsShown == \A r \in Reviews : r.asShown
=============================================================================
