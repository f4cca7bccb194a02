------------------------- MODULE ManualReviewProofs -------------------------
(***************************************************************************)
(* Theorems about ManualReview for any number of server threads, signals,  *)
(* records and restarts, and for every account and every clock.            *)
(***************************************************************************)
EXTENDS ManualReview, CollectionLemmas

-----------------------------------------------------------------------------
(* The journal's file: one writer at a time, that looked before it wrote   *)

Kinds == {"review", "outcome"}

(* A sequence of what it holds: no set of all records is needed.           *)
Listed == journal \in Seq(Range(journal)) /\ \A r \in Range(journal) : r.kind \in Kinds

(* A thread that passed `received' has a record to write, and an outcome's *)
(* review is in the file.                                                  *)
Requested ==
  /\ DOMAIN step = Handlers /\ DOMAIN request = Handlers
  /\ \A h \in Handlers :
       /\ step[h] \in {"idle", "received", "append", "write", "end"}
       /\ step[h] = "received" => request[h].kind = "review"
       /\ step[h] \in {"append", "write"} =>
            /\ request[h].kind \in Kinds
            /\ request[h].kind = "outcome" => request[h].review \in Reviews

(* The store's lock, and what its holder found before it writes.           *)
OneWriter ==
  /\ \A g, h \in Handlers : step[g] \in {"write", "end"} /\ step[h] \in {"write", "end"} => g = h
  /\ \A h \in Handlers : step[h] = "write" => ~Duplicate(request[h]) /\ Readable

(* A file without a clean end has a writer, or lost one in a crash.        *)
Ends ==
  /\ crashes \in Nat
  /\ tail \in {"clean", "unended", "partial", "ruined"}
  /\ tail = "unended" => crashes > 0 \/ \E h \in Handlers : step[h] = "end"
  /\ tail = "partial" => \E h \in Handlers : step[h] = "end"
  /\ tail = "ruined" => crashes > 0

JournalInv == Listed /\ Requested /\ OneWriter /\ Ends /\ JournalSound

(* Steps that leave the file alone keep what is said of its records.       *)
LEMMA RecordsKept ==
  ASSUME UNCHANGED journal
  PROVE  Reviews' = Reviews /\ Outcomes' = Outcomes
         /\ (Listed => Listed') /\ \A r : Duplicate(r)' = Duplicate(r)
BY DEF Reviews, Outcomes, Records, Listed, Duplicate

(* A request on its way to the lock: the file and its writer are the same. *)
LEMMA RequestStep ==
  ASSUME JournalInv, NEW h \in Handlers,
         step[h] \in {"idle", "received", "append"}, UNCHANGED <<journal, tail, crashes>>,
         NEW r, NEW s \in {"idle", "received", "append"}, Takes(h, r, s),
         s = "received" => r.kind = "review",
         s = "append" => r.kind \in Kinds /\ (r.kind = "outcome" => r.review \in Reviews)
  PROVE  JournalInv'
<1> USE DEF JournalInv, Takes
<1>1. /\ DOMAIN step' = Handlers /\ DOMAIN request' = Handlers
      /\ step'[h] = s /\ request'[h] = r
      /\ \A g \in Handlers \ {h} : step'[g] = step[g] /\ request'[g] = request[g]
  BY DEF Requested
<1>2. Listed' /\ Reviews' = Reviews /\ Readable' = Readable /\ \A q : Duplicate(q)' = Duplicate(q)
  BY RecordsKept DEF Readable
<1>3. Requested'
  BY <1>1, <1>2 DEF Requested
<1>4. OneWriter'
  BY <1>1, <1>2 DEF OneWriter
<1>5. Ends'
  BY <1>1 DEF Ends
<1>6. JournalSound'
  BY <1>1 DEF JournalSound, Locked
<1> QED
  BY <1>2, <1>3, <1>4, <1>5, <1>6

LEMMA LockStep == ASSUME JournalInv, NEW h \in Handlers, Lock(h) PROVE JournalInv'
<1> USE DEF JournalInv
<1>1. CASE ~Readable \/ Duplicate(request[h])
  BY <1>1, RequestStep DEF Lock, Idle
<1>2. CASE Readable /\ ~Duplicate(request[h])
  <2>1. /\ DOMAIN step' = Handlers /\ UNCHANGED <<journal, tail, crashes>>
        /\ step'[h] = "write" /\ step[h] = "append" /\ DOMAIN request' = Handlers
        /\ \A g \in Handlers : request'[g] = request[g]
        /\ \A g \in Handlers \ {h} : step'[g] = step[g] /\ step[g] \notin {"write", "end"}
    BY <1>2 DEF Lock, Takes, Requested, Locked
  <2>2. Listed' /\ Reviews' = Reviews /\ Readable' = Readable /\ \A q : Duplicate(q)' = Duplicate(q)
    BY <2>1, RecordsKept DEF Readable
  <2>3. Requested'
    BY <2>1, <2>2 DEF Requested
  <2>4. OneWriter'
    BY <1>2, <2>1, <2>2 DEF OneWriter, Duplicate, Readable
  <2>5. Ends' /\ JournalSound'
    BY <1>2, <2>1 DEF Ends, JournalSound, Locked, Readable
  <2> QED
    BY <2>2, <2>3, <2>4, <2>5
<1> QED
  BY <1>1, <1>2

(* The record appended is none of those its writer compared it with.       *)
LEMMA WriteStep == ASSUME JournalInv, NEW h \in Handlers, Write(h) PROVE JournalInv'
<1> USE DEF JournalInv
<1> DEFINE r == request[h]
           n == Len(journal)
<1>1. /\ n \in Nat /\ DOMAIN journal = 1..n /\ DOMAIN journal' = 1..(n + 1)
      /\ journal'[n + 1] = r /\ \A i \in 1..n : journal'[i] = journal[i]
      /\ Range(journal') = Range(journal) \cup {r} /\ journal' \in Seq(Range(journal'))
  BY Appended DEF Write, Listed
<1>2. r.kind \in Kinds /\ (r.kind = "outcome" => r.review \in Reviews) /\ ~Duplicate(r) /\ Readable
  BY DEF Write, Requested, OneWriter
<1>3. /\ DOMAIN step' = Handlers /\ step'[h] = "end" /\ request' = request /\ crashes' = crashes
      /\ \A g \in Handlers \ {h} : step'[g] = step[g] /\ step[g] \notin {"write", "end"}
  BY DEF Write, Requested, OneWriter
<1>4. Listed'
  BY <1>1, <1>2 DEF Listed
<1>5. Requested'
  BY <1>1, <1>3 DEF Requested, Reviews, Records
<1>6. OneWriter'
  BY <1>3 DEF OneWriter
<1>7. Ends'
  BY <1>2, <1>3 DEF Write, Ends, Readable
<1>8. JournalSound'
  <2>1. ASSUME NEW i \in DOMAIN journal', NEW j \in DOMAIN journal', i < j,
               journal'[i].kind = journal'[j].kind
        PROVE  IF journal'[i].kind = "review" THEN Id(journal'[i]) # Id(journal'[j])
                                              ELSE journal'[i].review # journal'[j].review
    <3>1. i \in 1..n /\ journal'[i] = journal[i] /\ journal[i] \in Range(journal)
      BY <1>1, <2>1 DEF Range
    <3>2. CASE j \in 1..n
      BY <1>1, <2>1, <3>1, <3>2 DEF JournalSound
    <3>3. CASE j = n + 1 /\ r.kind = "review"
      BY <1>1, <1>2, <2>1, <3>1, <3>3 DEF Duplicate, Reviews, Records
    <3>4. CASE j = n + 1 /\ r.kind = "outcome"
      BY <1>1, <1>2, <2>1, <3>1, <3>4 DEF Duplicate, Outcomes, Records
    <3> QED
      BY <1>1, <1>2, <3>2, <3>3, <3>4 DEF Kinds
  <2>2. ASSUME NEW j \in DOMAIN journal', journal'[j].kind = "outcome"
        PROVE  \E i \in 1..(j - 1) : journal'[i] = journal'[j].review
    <3>1. CASE j \in 1..n
      BY <1>1, <2>2, <3>1 DEF JournalSound
    <3>2. CASE j = n + 1
      <4>1. r.review \in Range(journal)
        BY <1>1, <1>2, <2>2, <3>2 DEF Reviews, Records
      <4>2. PICK i \in 1..n : journal[i] = r.review
        BY <1>1, <4>1 DEF Range
      <4> QED
        BY <1>1, <3>2, <4>2
    <3> QED
      BY <1>1, <3>1, <3>2
  <2>3. (tail' = "ruined" => crashes' > 0) /\ (tail' = "partial" => Locked')
    BY <1>3, <1>7 DEF Ends, Locked
  <2> QED
    BY <2>1, <2>2, <2>3 DEF JournalSound, Id
<1> QED
  BY <1>4, <1>5, <1>6, <1>7, <1>8

LEMMA EndStep == ASSUME JournalInv, NEW h \in Handlers, End(h) PROVE JournalInv'
<1> USE DEF JournalInv
<1>1. /\ DOMAIN step' = Handlers /\ DOMAIN request' = Handlers /\ UNCHANGED <<journal, crashes>>
      /\ step'[h] = "idle"
      /\ \A g \in Handlers \ {h} :
           step'[g] = step[g] /\ request'[g] = request[g] /\ step[g] \notin {"write", "end"}
  BY DEF End, Idle, Takes, Requested, OneWriter
<1>2. Listed' /\ Reviews' = Reviews
  BY <1>1, RecordsKept
<1>3. Requested'
  BY <1>1, <1>2 DEF Requested
<1>4. OneWriter'
  BY <1>1 DEF OneWriter
<1>5. Ends' /\ JournalSound'
  BY <1>1 DEF End, Ends, JournalSound
<1> QED
  BY <1>2, <1>3, <1>4, <1>5

LEMMA CrashStep == ASSUME JournalInv, Crash PROVE JournalInv'
<1> USE DEF JournalInv
<1>1. /\ crashes' = crashes + 1 /\ UNCHANGED journal
      /\ DOMAIN step' = Handlers /\ DOMAIN request' = Handlers
      /\ \A h \in Handlers : step'[h] = "idle"
      /\ tail' = IF tail = "partial" THEN "ruined" ELSE tail
  BY DEF Crash
<1>2. Listed'
  BY <1>1, RecordsKept
<1>3. Requested' /\ OneWriter'
  BY <1>1 DEF Requested, OneWriter
<1>4. Ends'
  BY <1>1 DEF Ends
<1>5. JournalSound'
  BY <1>1 DEF Ends, JournalSound
<1> QED
  BY <1>2, <1>3, <1>4, <1>5

LEMMA JournalInvInit == ASSUME Init PROVE JournalInv
<1>1. journal = <<>> /\ tail = "clean" /\ crashes = 0 /\ DOMAIN step = Handlers
      /\ DOMAIN request = Handlers /\ \A h \in Handlers : step[h] = "idle"
  BY DEF Init, JournalInit
<1>2. Listed
  BY <1>1 DEF Listed, Range
<1> QED
  BY <1>1, <1>2 DEF JournalInv, Requested, OneWriter, Ends, JournalSound

LEMMA JournalInvStep == ASSUME JournalInv, [Next]_vars PROVE JournalInv'
<1>1. ASSUME UNCHANGED journalVars PROVE JournalInv'
  <2>1. Listed' /\ Reviews' = Reviews /\ \A q : Duplicate(q)' = Duplicate(q)
    BY <1>1, RecordsKept DEF JournalInv, journalVars
  <2> QED
    BY <1>1, <2>1 DEF JournalInv, journalVars, Requested, OneWriter, Ends, JournalSound, Readable, Locked
<1>2. ASSUME NEW h \in Handlers, NEW a \in {"ACCEPT", "REJECT"}, PostReview(h, a, now, screen)
      PROVE  JournalInv'
  BY <1>2, RequestStep DEF PostReview
<1>3. ASSUME NEW h \in Handlers, ReadSnapshot(h, snapshot, snapshot # NoSignal, Expired(snapshot))
      PROVE  JournalInv'
  <2>1. Captured(request[h], snapshot, Expired(snapshot)).kind = "review"
    BY DEF Captured
  <2> QED
    BY <1>3, <2>1, RequestStep DEF ReadSnapshot, Idle, Kinds
<1>4. ASSUME NEW h \in Handlers, NEW r \in Reviews, PostOutcome(h, r) PROVE JournalInv'
  BY <1>4, RequestStep DEF PostOutcome, Kinds
<1> QED
  BY <1>1, <1>2, <1>3, <1>4, LockStep, WriteStep, EndStep, CrashStep
  DEF Next, Requests, Poll, vars

(* Whatever requests, threads and deaths of the server: no identity is     *)
(* recorded twice, no review has two outcomes, none comes before its       *)
(* review, and only a death inside a line ruins the file.                  *)
THEOREM JournalAlwaysSound == Spec => []JournalSound
<1>1. JournalInv => JournalSound
  BY DEF JournalInv
<1> QED
  BY <1>1, JournalInvInit, JournalInvStep, PTL DEF Spec

-----------------------------------------------------------------------------
(* The account: how old its figures are, and what the day is measured from *)

LEMMA DateGrows ==
  ASSUME NEW t \in Nat PROVE Date(t) \in Nat /\ Date(t) <= Date(t + 1)
BY AccountAssumption DEF Date
DayFiles == [date : Nat, start : Equities, peak : Equities]

(* A call is within one day, reads its clock before the funds, and until   *)
(* the day's first trade the funds it read are a start of the day.         *)
WatchInv ==
  /\ now \in Nat /\ equity \in Equities /\ untraded \subseteq Equities
  /\ ~traded => equity \in untraded
  /\ dayFile = NoDay \/ (dayFile \in DayFiles /\ dayFile.date <= Date(now))
  /\ dayFile.date = Date(now) => dayFile.start \in untraded
  /\ Observing => asOf \in 0..now /\ Date(asOf) = Date(now)
  /\ at = "trades" =>
       /\ funds.equity \in Equities /\ funds.time \in asOf..now
       /\ ~traded => funds.equity \in untraded
  /\ at = "decide" => context.asOf \in 0..now /\ context.fundsAt \in context.asOf..now
  /\ context # NoContext =>
       context.start = dayFile.start /\ dayFile.peak >= context.equity

LEMMA WatchInvInit == ASSUME Init PROVE WatchInv
BY AccountAssumption DEF Init, WatchInit, WatchInv, Date, NoDay, Observing

LEMMA SavedState ==
  ASSUME WatchInv, ReadTrades
  PROVE  /\ dayFile' \in DayFiles /\ dayFile'.date = Date(now)
         /\ dayFile'.start \in untraded /\ dayFile'.peak >= funds.equity
         /\ dayFile.date = Date(now) =>
              /\ dayFile'.start = dayFile.start
              /\ dayFile'.peak > dayFile.peak \/ dayFile' = dayFile
<1> USE AccountAssumption, DateGrows DEF WatchInv, ReadTrades, Observing, DayState, Larger
<1>1. Date(now) \in Nat /\ Date(asOf) = Date(now) /\ funds.equity \in Equities
  OBVIOUS
<1>2. CASE dayFile.date = Date(now)
  <2>1. dayFile \in DayFiles
    BY <1>1, <1>2 DEF NoDay
  <2>2. dayFile' = [dayFile EXCEPT !.peak = Larger(dayFile.peak, funds.equity)]
    BY <1>1, <1>2
  <2> QED
    BY <1>1, <1>2, <2>1, <2>2 DEF DayFiles
<1>3. CASE dayFile.date # Date(now)
  <2>1. funds.equity \in untraded
    BY <1>1, <1>3 DEF Refused
  <2>2. dayFile' = [date |-> Date(now), start |-> funds.equity, peak |-> funds.equity]
    BY <1>1, <1>3
  <2> QED
    BY <1>1, <1>3, <2>1, <2>2 DEF DayFiles
<1> QED
  BY <1>2, <1>3

LEMMA WatchInvStep == ASSUME WatchInv, [Next]_vars PROVE WatchInv'
<1> USE AccountAssumption DEF accountVars, callVars, reviewVars
<1>1. ASSUME UNCHANGED watchVars PROVE WatchInv'
  BY <1>1 DEF WatchInv, watchVars, Observing
<1>2. ASSUME Trade PROVE WatchInv'
  BY <1>2 DEF WatchInv, Trade, Observing
<1>3. ASSUME Move PROVE WatchInv'
  BY <1>3 DEF WatchInv, Move, Observing
<1>4. ASSUME Tick PROVE WatchInv'
  <2>1. now' = now + 1 /\ now' \in Nat /\ Date(now) \in Nat /\ Date(now') \in Nat /\ Date(now) <= Date(now')
    BY <1>4, DateGrows DEF WatchInv, Tick
  <2>2. dayFile = NoDay \/ (dayFile \in DayFiles /\ dayFile.date <= Date(now'))
    BY <2>1 DEF WatchInv, DayFiles
  <2>3. CASE Date(now') = Date(now)
    <3>1. /\ UNCHANGED <<equity, traded, untraded, dayFile, at, asOf, funds, context>>
          /\ Date(asOf') = Date(asOf)
      BY <1>4, <2>3 DEF Tick
    <3>2. Observing' => asOf' \in 0..now' /\ Date(asOf') = Date(now')
      BY <2>1, <2>3, <3>1 DEF WatchInv, Observing
    <3>3. at' = "trades" => /\ funds'.equity \in Equities /\ funds'.time \in asOf'..now'
                            /\ ~traded' => funds'.equity \in untraded'
      BY <2>1, <3>1 DEF WatchInv, Observing
    <3>4. at' = "decide" =>
            context'.asOf \in 0..now' /\ context'.fundsAt \in context'.asOf..now'
      BY <2>1, <3>1 DEF WatchInv
    <3> QED
      BY <2>1, <2>2, <2>3, <3>1, <3>2, <3>3, <3>4 DEF WatchInv
  <2>4. CASE Date(now') # Date(now)
    <3>1. dayFile.date # Date(now')
      BY <2>1, <2>4 DEF WatchInv, DayFiles, NoDay
    <3> QED
      BY <1>4, <2>1, <2>2, <2>4, <3>1 DEF WatchInv, Tick, Observing
  <2> QED
    BY <2>3, <2>4
<1>5. ASSUME at' \in {"down", "waiting", "analyse"}, context' \in {context, NoContext},
             UNCHANGED <<now, accountVars, dayFile>>
      PROVE  WatchInv'
  BY <1>5 DEF WatchInv, Observing
<1>6. ASSUME NEW b \in Candles, CandleArrives(b) PROVE WatchInv'
  BY <1>5, <1>6 DEF CandleArrives
<1>7. ASSUME Analysed PROVE WatchInv'
  BY <1>7 DEF Analysed, ReadClock, WatchInv, Observing
<1>8. ASSUME ReadFunds PROVE WatchInv'
  BY <1>8 DEF ReadFunds, WatchInv, Observing
<1>9. ASSUME ReadTrades PROVE WatchInv'
  <2>1. /\ context' = [asOf |-> asOf, fundsAt |-> funds.time, equity |-> funds.equity,
                       start |-> dayFile'.start, peak |-> dayFile'.peak]
        /\ at = "trades" /\ at' = "decide" /\ UNCHANGED <<now, equity, traded, untraded>>
    BY <1>9 DEF ReadTrades
  <2>2. context'.asOf \in 0..now /\ context'.fundsAt \in context'.asOf..now
    BY <2>1 DEF WatchInv, Observing
  <2>3. context'.start = dayFile'.start /\ dayFile'.peak >= context'.equity
    BY <1>9, <2>1, SavedState
  <2>4. /\ dayFile' \in DayFiles /\ dayFile'.date <= Date(now) /\ dayFile'.start \in untraded
    BY <1>9, SavedState, DateGrows DEF WatchInv
  <2> QED
    BY <2>1, <2>2, <2>3, <2>4 DEF WatchInv, Observing
<1>10. ASSUME StartSession \/ Publish \/ WriterRefuses \/ SessionEnds PROVE WatchInv'
  BY <1>5, <1>10 DEF StartSession, Publish, WriterRefuses, SessionEnds, Forget
<1> QED
  BY <1>1, <1>2, <1>3, <1>4, <1>6, <1>7, <1>8, <1>9, <1>10
  DEF Next, SessionNext, AccountNext, Requests, Poll, vars, watchVars

LEMMA WatchInvariant == Spec => []WatchInv
BY WatchInvInit, WatchInvStep, PTL DEF Spec

(* Whatever the operator trades and whichever session dies, also between   *)
(* two requests of one call: a context is covered by the day's file, whose *)
(* start was the equity before the first trade and whose peak only grows.  *)
THEOREM DayStateAlwaysSound == Spec => DayStateSound
<1>1. WatchInv => DayStateCovers
  BY DEF WatchInv, DayStateCovers
<1>2. ASSUME WatchInv, [Next]_vars
      PROVE  [dayFile' # dayFile /\ dayFile # NoDay =>
                \/ dayFile'.date > dayFile.date
                \/ dayFile'.date = dayFile.date /\ dayFile'.start = dayFile.start
                   /\ dayFile'.peak > dayFile.peak]_vars
  <2>1. ASSUME ReadTrades, dayFile' # dayFile, dayFile # NoDay
        PROVE  \/ dayFile'.date > dayFile.date
               \/ dayFile'.date = dayFile.date /\ dayFile'.start = dayFile.start
                  /\ dayFile'.peak > dayFile.peak
    <3>1. dayFile.date \in Nat /\ dayFile.date <= Date(now) /\ Date(now) \in Nat
      BY <1>2, <2>1, DateGrows DEF WatchInv, DayFiles
    <3> QED
      BY <1>2, <2>1, <3>1, SavedState
  <2>2. dayFile' = dayFile \/ ReadTrades
    BY <1>2 DEF Next, SessionNext, AccountNext, Requests, Poll, vars, watchVars, StartSession,
       CandleArrives, Analysed, ReadFunds, Publish, WriterRefuses, SessionEnds, Trade, Move, Tick
  <2> QED
    BY <2>1, <2>2
<1> QED
  BY <1>1, <1>2, WatchInvariant, PTL DEF Spec, DayStateSound, DayStateKept

(* The age that is checked is the clock's, read before the funds; so the   *)
(* funds of a published signal are no older than the maximum age.          *)
THEOREM AlwaysPublishedFresh == Spec => PublishedFresh
<1>1. ASSUME WatchInv, [Next]_vars
      PROVE  [snapshot' \notin {snapshot, NoSignal} => now - context.fundsAt <= MaxAge]_vars
  <2>1. ASSUME Publish PROVE now - context.fundsAt <= MaxAge
    <3>1. now - context.asOf <= MaxAge
      BY <2>1 DEF Publish, Decisions, WithContext, Fresh
    <3> QED
      BY <1>1, <2>1, <3>1, ReviewAssumption DEF WatchInv, Publish
  <2>2. snapshot' \in {snapshot, NoSignal} \/ Publish
    BY <1>1 DEF Next, SessionNext, AccountNext, Requests, Poll, vars, reviewVars, StartSession,
       CandleArrives, Analysed, ReadFunds, WriterRefuses, SessionEnds
  <2> QED
    BY <2>1, <2>2
<1> QED
  BY <1>1, WatchInvariant, PTL DEF Spec, PublishedFresh
-----------------------------------------------------------------------------
(* Acceptance: the click comes before the snapshot is read                 *)

InTime(r) == r.kind = "review" /\ r.action = "ACCEPT" => r.time <= ValidUntil(r.signal)

(* What the operator clicked lies in the past of the clock that decides    *)
(* whether the signal read later has expired.                              *)
AcceptInv ==
  /\ last \in Int /\ snapshot \in Int
  /\ \A h \in Handlers :
       /\ step[h] = "received" => request[h].time \in 0..now
       /\ step[h] \in {"append", "write"} => InTime(request[h])
  /\ \A r \in Reviews : InTime(r)

LEMMA AcceptRequests ==
  ASSUME JournalInv, WatchInv, AcceptInv, Requests, UNCHANGED <<now, reviewVars>>
  PROVE  AcceptInv'
<1> USE DEF JournalInv, Requested, AcceptInv, Takes, Idle, reviewVars
<1> DEFINE Moved(h, r, s) ==
             /\ DOMAIN step' = Handlers /\ step'[h] = s /\ request'[h] = r
             /\ \A g \in Handlers \ {h} : step'[g] = step[g] /\ request'[g] = request[g]
<1>1. ASSUME NEW h \in Handlers, NEW r, NEW s \in {"idle", "received", "append", "write"},
             Moved(h, r, s), UNCHANGED journal,
             s = "received" => r.time \in 0..now, s \in {"append", "write"} => InTime(r)
      PROVE  AcceptInv'
  BY <1>1, RecordsKept DEF InTime, ValidUntil
<1>2. ASSUME NEW h \in Handlers, NEW a \in {"ACCEPT", "REJECT"}, PostReview(h, a, now, screen)
      PROVE  AcceptInv'
  <2>1. now \in 0..now
    BY DEF WatchInv
  <2> QED
    BY <1>1, <1>2, <2>1 DEF PostReview
<1>3. ASSUME NEW h \in Handlers, ReadSnapshot(h, snapshot, snapshot # NoSignal, Expired(snapshot))
      PROVE  AcceptInv'
  <2> DEFINE r == Captured(request[h], snapshot, Expired(snapshot))
  <2>1. CASE step'[h] = "append"
    <3>1. r.action = "ACCEPT" => ~Expired(snapshot)
      BY <1>3, <2>1 DEF ReadSnapshot, Captured
    <3>2. r.time \in 0..now /\ r.signal = snapshot
      BY <1>3 DEF ReadSnapshot, Captured
    <3>3. InTime(r)
      BY <3>1, <3>2, ReviewAssumption DEF InTime, Expired, ValidUntil, WatchInv
    <3>4. Moved(h, r, "append") /\ UNCHANGED journal
      BY <1>3, <2>1 DEF ReadSnapshot
    <3> QED
      BY <1>1, <3>3, <3>4
  <2>2. CASE step'[h] # "append"
    <3>1. Moved(h, NoRequest, "idle") /\ UNCHANGED journal
      BY <1>3, <2>2 DEF ReadSnapshot
    <3> QED
      BY <1>1, <3>1
  <2> QED
    BY <2>1, <2>2
<1>4. ASSUME NEW h \in Handlers, NEW o \in Reviews, PostOutcome(h, o) PROVE AcceptInv'
  BY <1>1, <1>4 DEF PostOutcome, InTime
<1>5. ASSUME NEW h \in Handlers, Lock(h) PROVE AcceptInv'
  <2>1. \E s \in {"idle", "write"} : \E r : Moved(h, r, s) /\ (s = "write" => r = request[h])
    BY <1>5 DEF Lock
  <2> QED
    BY <1>1, <1>5, <2>1 DEF Lock
<1>6. ASSUME NEW h \in Handlers, Write(h) PROVE AcceptInv'
  <2>1. Range(journal') = Range(journal) \cup {request[h]}
    BY <1>6, Appended DEF Write, Listed
  <2>2. \A r \in Reviews' : r \in Reviews \/ r = request[h]
    BY <2>1 DEF Reviews, Records
  <2>3. \A r \in Reviews' : InTime(r)
    BY <1>6, <2>2 DEF Write
  <2> QED
    BY <1>6, <2>3 DEF Write, InTime, ValidUntil
<1>7. ASSUME NEW h \in Handlers, End(h) PROVE AcceptInv'
  BY <1>1, <1>7 DEF End
<1> QED
  BY <1>2, <1>3, <1>4, <1>5, <1>6, <1>7 DEF Requests

LEMMA AcceptInvStep ==
  ASSUME JournalInv, WatchInv, WatchInv', AcceptInv, [Next]_vars PROVE AcceptInv'
<1> USE DEF AcceptInv, InTime, ValidUntil
<1>1. ASSUME UNCHANGED journalVars, now' \in {now, now + 1}, last' \in Int, snapshot' \in Int
      PROVE  AcceptInv'
  <2>1. Reviews' = Reviews
    BY <1>1, RecordsKept DEF journalVars
  <2> QED
    BY <1>1, <2>1 DEF journalVars, WatchInv
<1>2. ASSUME SessionNext, UNCHANGED journalVars PROVE AcceptInv'
  <2>1. now' = now /\ last' \in Int /\ snapshot' \in Int
    BY <1>2, ReviewAssumption DEF SessionNext, StartSession, CandleArrives, Candles, Analysed,
       ReadFunds, ReadTrades, Publish, WriterRefuses, SessionEnds, NoSignal, reviewVars, WatchInv
  <2> QED
    BY <1>1, <1>2, <2>1
<1>3. ASSUME AccountNext, UNCHANGED journalVars PROVE AcceptInv'
  BY <1>1, <1>3 DEF AccountNext, Trade, Move, Tick, reviewVars
<1>4. ASSUME Poll \/ UNCHANGED vars PROVE AcceptInv'
  BY <1>1, <1>4 DEF Poll, vars, watchVars, reviewVars
<1>5. ASSUME Crash, UNCHANGED <<watchVars, reviewVars>> PROVE AcceptInv'
  BY <1>5, RecordsKept DEF Crash, watchVars, reviewVars, Requested
<1> QED
  BY <1>2, <1>3, <1>4, <1>5, AcceptRequests DEF Next, watchVars

(* A signal that is accepted was valid when the operator clicked, whatever *)
(* the page showed then and whatever was published in between: a click on  *)
(* an expired signal stays refused because expiry is judged later still.   *)
THEOREM AlwaysAcceptedInTime == Spec => []AcceptedInTime
<1>1. Init => AcceptInv
  BY DEF Init, JournalInit, ReviewInit, NoSignal, AcceptInv, Reviews, Records, Range
<1>2. Spec => []JournalInv
  BY JournalInvInit, JournalInvStep, PTL DEF Spec
<1>3. AcceptInv => AcceptedInTime
  BY ReviewAssumption DEF AcceptInv, InTime, AcceptedInTime, Reviews
<1> QED
  BY <1>1, <1>2, <1>3, WatchInvariant, AcceptInvStep, PTL DEF Spec
=============================================================================
