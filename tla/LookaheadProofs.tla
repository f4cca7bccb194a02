--------------------------- MODULE LookaheadProofs ---------------------------
(***************************************************************************)
(* Theorems about the two places where knowledge has a time: the cache of  *)
(* LiveResearch, which hands a decision only what was captured before it,  *)
(* and ValidationExperiment, whose replay, labels, splits, record and      *)
(* price structure must not profit from what comes later.  Any number of   *)
(* documents, threads, bars, tickers and folds; any window, clock, price,  *)
(* rate and period.                                                        *)
(***************************************************************************)
EXTENDS LiveResearch, ValidationExperiment, CollectionLemmas

-----------------------------------------------------------------------------
(* The research cache                                                      *)

(* A refresh has read its clock a fetch time ago at most, and holds what   *)
(* was published in the window before.                                     *)
Timely ==
  \A t \in Threads :
    /\ Refreshing(t) => took[t] \in 0..now /\ now <= took[t] + MaxFetch
    /\ at[t] = "insert" => \A d \in Fetched(t) :
         published[d] # Never /\ published[d] \in (took[t] - Lookback)..took[t]

(* A document is captured after its publication and not in the future.     *)
Captured ==
  \A d \in Documents :
    /\ published[d] <= now
    /\ first[d] \in {Never} \cup 0..now
    /\ first[d] # Never => published[d] # Never /\ published[d] <= first[d]
    /\ d \in Cached => cache[d].avail # Never

Entry == [version : {Never} \cup 0..MaxEdits, avail : {Never} \cup 0..MaxTime]

CacheInv == TypeOK /\ Timely /\ Captured /\ CapturedOnce /\ EvidenceKept

(* A document that is fetched and not in the cache was never captured: a   *)
(* captured one of this window is still within the retention.              *)
LEMMA FreshIsNew ==
  ASSUME CacheInv, NEW t \in Threads, at[t] = "insert", NEW d \in Fresh(t)
  PROVE  first[d] = Never
<1>1. /\ took[t] \in Int /\ now \in Int /\ now <= took[t] + MaxFetch
      /\ published[d] \in Int /\ published[d] >= took[t] - Lookback
  BY DEF CacheInv, Timely, TypeOK, Refreshing, Fresh, Fetched, Never
<1>2. first[d] # Never => first[d] \in Int /\ first[d] >= published[d] /\ d \notin Cached
  BY DEF CacheInv, Captured, Fresh, Fetched
<1>3. first[d] # Never => first[d] >= now - Retention
  BY <1>1, <1>2, ResearchAssumption
<1> QED
  BY <1>2, <1>3 DEF CacheInv, EvidenceKept, Fresh, Fetched

(* Entering documents with the clock of their refresh, or not entering     *)
(* some of them, keeps what is said of the cache; so does the pruning.     *)
LEMMA InsertKeeps ==
  ASSUME CacheInv, NEW t \in Threads, at[t] = "insert",
         NEW ds \in SUBSET Fresh(t), Captures(ds, t), UNCHANGED <<now, source>>,
         cache' = With(t, ds) \/ cache' = Pruned(With(t, ds))
  PROVE  /\ Captured' /\ CapturedOnce' /\ EvidenceKept'
         /\ cache' \in [Documents -> Entry]
<1> USE DEF CacheInv
<1>1. /\ took[t] \in 0..now /\ now \in 0..MaxTime /\ Never \notin 0..now /\ now' = now
      /\ published' = published
  BY DEF Timely, TypeOK, Refreshing, Never, source
<1>2. ASSUME NEW d \in ds
      PROVE  /\ first[d] = Never /\ d \notin Cached /\ d \in Documents
             /\ items[t][d] \in 0..MaxEdits
             /\ published[d] # Never /\ published[d] <= took[t] /\ published[d] \in Int
  BY FreshIsNew DEF Fresh, Fetched, Timely, TypeOK, Never
<1>3. ASSUME NEW d \in Documents
      PROVE  /\ d \in ds => /\ first'[d] = took[t]
                            /\ With(t, ds)[d] = [version |-> items[t][d], avail |-> took[t]]
             /\ d \notin ds => first'[d] = first[d] /\ With(t, ds)[d] = cache[d]
  BY <1>2 DEF Captures, With
<1>4. ASSUME NEW d \in Documents
      PROVE  \/ cache'[d] = With(t, ds)[d]
             \/ cache'[d] = Absent /\ With(t, ds)[d].avail < now - Retention
  BY DEF Pruned, With
<1>5. ASSUME NEW d \in Documents
      PROVE  /\ With(t, ds)[d] \in Entry
             /\ d \in ds => With(t, ds)[d].avail = took[t]
  <2>1. CASE d \in ds
    <3>1. /\ items[t][d] \in {Never} \cup 0..MaxEdits /\ took[t] \in {Never} \cup 0..MaxTime
          /\ With(t, ds)[d] = [version |-> items[t][d], avail |-> took[t]]
      BY <1>2, <1>3, <2>1 DEF TypeOK
    <3>2. [version |-> items[t][d], avail |-> took[t]] \in Entry
      BY <3>1 DEF Entry
    <3>3. [version |-> items[t][d], avail |-> took[t]].avail = took[t]
      OBVIOUS
    <3> QED
      BY <3>1, <3>2, <3>3, Zenon
  <2>2. CASE d \notin ds
    <3>1. cache[d] \in Entry
      BY DEF TypeOK, Entry
    <3> QED
      BY <1>3, <2>2, <3>1
  <2> QED
    BY <2>1, <2>2
<1>6. DOMAIN cache' = Documents /\ cache' = [d \in Documents |-> cache'[d]]
  BY DEF With, Pruned
<1>7. cache' \in [Documents -> Entry]
  <2>1. Absent \in Entry
    BY DEF Absent, Entry
  <2>2. ASSUME NEW d \in Documents PROVE cache'[d] \in Entry
    BY <1>4, <1>5, <2>1, Zenon
  <2> QED
    BY <1>6, <2>2, Zenon
<1>8. ASSUME NEW d \in Documents
      PROVE  /\ published'[d] <= now' /\ first'[d] \in {Never} \cup 0..now'
             /\ first'[d] # Never => published'[d] # Never /\ published'[d] <= first'[d]
  BY <1>1, <1>2, <1>3 DEF Captured
<1>9. ASSUME NEW d \in Documents, cache'[d] # Absent
      PROVE  cache'[d].avail # Never /\ cache'[d].avail = first'[d]
  <2> HIDE DEF CacheInv
  <2>1. cache'[d] = With(t, ds)[d]
    BY <1>4, <1>9
  <2>2. CASE d \in ds
    <3>1. cache'[d].avail = took[t] /\ first'[d] = took[t]
      BY <1>3, <1>5, <2>1, <2>2, Zenon
    <3> QED
      BY <1>1, <3>1
  <2>3. CASE d \notin ds
    <3>1. cache'[d] = cache[d] /\ first'[d] = first[d]
      BY <1>3, <2>1, <2>3
    <3>2. d \in Cached
      BY <1>9, <3>1 DEF Cached
    <3>3. cache[d].avail = first[d] /\ first[d] # Never
      BY <3>2 DEF CacheInv, Captured, CapturedOnce
    <3> QED
      BY <3>1, <3>3
  <2> QED
    BY <2>2, <2>3
<1>10. ASSUME NEW d \in Documents, first'[d] # Never, first'[d] >= now' - Retention
       PROVE  cache'[d] # Absent
  <2>1. CASE d \in ds
    <3>1. first'[d] = took[t] /\ With(t, ds)[d].avail = took[t]
      BY <1>3, <1>5, <2>1, Zenon
    <3>2. cache'[d] = With(t, ds)[d]
      BY <1>1, <1>4, <1>10, <3>1, ResearchAssumption
    <3>3. Absent.avail = Never
      BY DEF Absent
    <3> QED
      BY <1>1, <3>1, <3>2, <3>3
  <2>2. CASE d \notin ds
    <3>1. d \in Cached /\ first'[d] = first[d] /\ With(t, ds)[d] = cache[d]
      BY <1>1, <1>3, <1>10, <2>2 DEF EvidenceKept
    <3>2. cache[d].avail = first[d] /\ first[d] \in Int
      BY <1>1, <3>1 DEF CapturedOnce, Captured, Never
    <3>3. cache'[d] = cache[d]
      BY <1>1, <1>4, <1>10, <3>1, <3>2, ResearchAssumption
    <3> QED
      BY <3>1, <3>3 DEF Cached
  <2> QED
    BY <2>1, <2>2
<1> QED
  BY <1>7, <1>8, <1>9, <1>10 DEF Captured, CapturedOnce, EvidenceKept, Cached

(* A refresh that ends leaves the other threads as they are.               *)
LEMMA RefreshOver ==
  ASSUME CacheInv, NEW t \in Threads, Refreshing(t), Refreshed(t),
         UNCHANGED <<now, source, stop>>, cache' \in [Documents -> Entry]
  PROVE  TypeOK' /\ Timely'
<1> USE DEF CacheInv, TypeOK
<1>1. Nothing \in [Documents -> {Never} \cup 0..MaxEdits]
  BY DEF Nothing
<1>2. /\ took' \in [Threads -> {Never} \cup 0..MaxTime]
      /\ items' \in [Threads -> [Documents -> {Never} \cup 0..MaxEdits]]
      /\ \A u \in Threads \ {t} : took'[u] = took[u] /\ items'[u] = items[u]
  BY <1>1 DEF Refreshed
<1>3. /\ at' \in [Threads -> {"out", "fetch", "insert", "wait", "running", "join", "over"}]
      /\ thread' \in Pollers \cup {None}
      /\ thread' # None <=> at'[Main] \in {"running", "join"}
      /\ at'[t] \in {"running", "wait"}
      /\ \A u \in Threads \ {t} : at'[u] = at[u] \/ at'[u] = "wait"
  <2>1. at \in [Threads -> {"out", "fetch", "insert", "wait", "running", "join", "over"}]
        /\ thread \in Pollers \cup {None} /\ (thread # None <=> at[Main] \in {"running", "join"})
        /\ at[t] \in {"fetch", "insert"} /\ Main \notin Pollers /\ None \notin Pollers
        /\ Main \in Threads /\ Pollers \subseteq Threads
    BY ResearchAssumption DEF Refreshing, Threads
  <2> HIDE DEF CacheInv, TypeOK
  <2>2. CASE t = Main
    <3>1. PICK p \in Pollers : at' = [at EXCEPT ![Main] = "running", ![p] = "wait"] /\ thread' = p
      BY <2>2 DEF Refreshed
    <3>2. at' \in [Threads -> {"out", "fetch", "insert", "wait", "running", "join", "over"}]
      BY <2>1, <3>1
    <3>3. at'[Main] = "running" /\ \A u \in Threads \ {Main} : at'[u] = at[u] \/ at'[u] = "wait"
      BY <2>1, <3>1
    <3> QED
      BY <2>1, <2>2, <3>1, <3>2, <3>3
  <2>3. CASE t # Main
    <3>1. at' = [at EXCEPT ![t] = "wait"] /\ thread' = thread
      BY <2>3 DEF Refreshed
    <3>2. /\ at' \in [Threads -> {"out", "fetch", "insert", "wait", "running", "join", "over"}]
          /\ at'[t] = "wait" /\ at'[Main] = at[Main]
          /\ \A u \in Threads \ {t} : at'[u] = at[u]
      BY <2>1, <2>3, <3>1
    <3> QED
      BY <2>1, <3>1, <3>2
  <2> QED
    BY <2>2, <2>3
<1>4. TypeOK'
  BY <1>2, <1>3 DEF source, Entry
<1>5. ASSUME NEW u \in Threads, Refreshing(u)'
      PROVE  u # t /\ at'[u] = at[u] /\ took'[u] = took[u] /\ items'[u] = items[u] /\ Refreshing(u)
  BY <1>2, <1>3, <1>5 DEF Refreshing
<1> QED
  BY <1>4, <1>5 DEF Timely, Refreshing, Fetched, source

(* A step that captures nothing and publishes nothing.                     *)
LEMMA CacheKept ==
  ASSUME CacheInv, UNCHANGED <<now, published, cache, first>>
  PROVE  Captured' /\ CapturedOnce' /\ EvidenceKept'
BY DEF CacheInv, Captured, CapturedOnce, EvidenceKept, Cached

(* A refresh begins in the caller of start or in a poller.                 *)
LEMMA Beginning ==
  ASSUME CacheInv, NEW t \in Threads, Begins(t), ~Refreshing(t), t = Main => thread = None,
         stop' \in BOOLEAN, UNCHANGED <<now, source, cache, items, thread, first>>
  PROVE  CacheInv'
<1> USE DEF CacheInv
<1>1. /\ at' \in [Threads -> {"out", "fetch", "insert", "wait", "running", "join", "over"}]
      /\ took' \in [Threads -> {Never} \cup 0..MaxTime]
      /\ at'[t] = "fetch" /\ took'[t] = now
      /\ \A u \in Threads \ {t} : at'[u] = at[u] /\ took'[u] = took[u]
  BY DEF TypeOK, Begins
<1>2. thread' # None <=> at'[Main] \in {"running", "join"}
  BY <1>1 DEF TypeOK, Threads
<1>3. TypeOK'
  BY <1>1, <1>2 DEF TypeOK, source
<1>4. Timely'
  BY <1>1, ResearchAssumption DEF TypeOK, Timely, Refreshing, Fetched, source
<1> QED
  BY <1>3, <1>4, CacheKept DEF source

(* The inductive invariant of the cache: at the start, on every step,      *)
(* always.                                                                 *)
LEMMA CacheStart == ASSUME Init PROVE CacheInv
<1>1. TypeOK
  <2>1. Absent \in Entry
    BY DEF Absent, Entry
  <2>2. cache \in [Documents -> Entry]
    BY <2>1 DEF Init
  <2>3. Nothing \in [Documents -> {Never} \cup 0..MaxTime]
        /\ Nothing \in [Documents -> {Never} \cup 0..MaxEdits]
    BY DEF Nothing
  <2>4. /\ now \in 0..MaxTime /\ published \in [Documents -> {Never} \cup 0..MaxTime]
        /\ content \in [Documents -> 0..MaxEdits]
    BY <2>3, ResearchAssumption DEF Init
  <2>5. /\ at \in [Threads -> {"out", "fetch", "insert", "wait", "running", "join", "over"}]
        /\ took \in [Threads -> {Never} \cup 0..MaxTime]
        /\ items \in [Threads -> [Documents -> {Never} \cup 0..MaxEdits]]
        /\ thread \in Pollers \cup {None} /\ stop \in BOOLEAN
        /\ thread # None <=> at[Main] \in {"running", "join"}
    BY <2>3 DEF Init, Threads
  <2> QED
    BY <2>2, <2>4, <2>5 DEF TypeOK, Entry
<1>2. Timely
  BY DEF Init, Timely, Refreshing
<1>3. Cached = {} /\ \A d \in Documents : first[d] = Never /\ published[d] = Never
  BY DEF Init, Cached, Nothing
<1>4. Captured /\ CapturedOnce /\ EvidenceKept
  BY <1>3 DEF Init, Captured, CapturedOnce, EvidenceKept, Never
<1> QED
  BY <1>1, <1>2, <1>4 DEF CacheInv

LEMMA CacheStep == ASSUME CacheInv, [Next]_vars PROVE CacheInv'
<1> USE DEF CacheInv
<1>1. CASE Start
  <2>1. Main \in Threads /\ ~Refreshing(Main) /\ thread = None /\ stop' \in BOOLEAN
    BY <1>1 DEF Start, Threads, Refreshing, TypeOK
  <2> QED
    BY <1>1, <2>1, Beginning DEF Start
<1>2. CASE \E p \in Pollers : Polls(p)
  <2>1. PICK p \in Pollers : Polls(p)
    BY <1>2
  <2>2. p \in Threads /\ ~Refreshing(p) /\ p # Main /\ stop' \in BOOLEAN
    BY <2>1, ResearchAssumption DEF Polls, Threads, Refreshing, TypeOK
  <2> QED
    BY <2>1, <2>2, Beginning DEF Polls
<1>3. CASE Stop \/ Joined \/ \E p \in Pollers : Leaves(p)
  <2>1. /\ UNCHANGED <<now, source, cache, took, items, first>>
        /\ at' \in [Threads -> {"out", "fetch", "insert", "wait", "running", "join", "over"}]
        /\ \A u \in Threads : at'[u] = at[u] \/ at'[u] \in {"join", "out", "over"}
    BY <1>3 DEF Stop, Joined, Leaves, TypeOK
  <2>2. /\ thread' \in Pollers \cup {None} /\ stop' \in BOOLEAN
        /\ thread' # None <=> at'[Main] \in {"running", "join"}
    BY <1>3, ResearchAssumption DEF Stop, Joined, Leaves, TypeOK, Threads
  <2>3. TypeOK'
    BY <2>1, <2>2 DEF TypeOK, source
  <2>4. Timely'
    BY <2>1 DEF Timely, Refreshing, Fetched, source
  <2> QED
    BY <2>1, <2>3, <2>4, CacheKept DEF source
<1>4. CASE Tick
  <2>1. /\ now' = now + 1 /\ now' \in 0..MaxTime /\ now \in 0..MaxTime
        /\ UNCHANGED <<source, cache, at, took, items, stop, thread, first>>
    BY <1>4, ResearchAssumption DEF Tick, TypeOK
  <2>2. TypeOK'
    BY <2>1 DEF TypeOK, source
  <2>3. \A t \in Threads : Refreshing(t) => took[t] \in 0..now' /\ now' <= took[t] + MaxFetch
    BY <1>4, <2>1, ResearchAssumption DEF Tick, Timely
  <2>4. Timely'
    BY <2>1, <2>3 DEF Timely, Refreshing, Fetched, source
  <2>5. Captured' /\ CapturedOnce'
    BY <2>1 DEF TypeOK, Captured, CapturedOnce, Cached, source, Never
  <2>6. ASSUME NEW d \in Documents, first[d] # Never, first[d] >= now' - Retention
        PROVE  first[d] >= now - Retention
    BY <2>1, <2>6, ResearchAssumption DEF Captured
  <2>7. EvidenceKept'
    BY <2>1, <2>6 DEF EvidenceKept, Cached
  <2> QED
    BY <2>2, <2>4, <2>5, <2>7
<1>5. CASE \E t \in Threads : FetchReturns(t)
  <2>1. PICK t \in Threads : FetchReturns(t)
    BY <1>5
  <2> DEFINE answer == [d \in Documents |->
       IF published[d] # Never /\ published[d] \in (took[t] - Lookback)..took[t]
       THEN content[d] ELSE Never]
  <2>2. /\ answer \in [Documents -> {Never} \cup 0..MaxEdits]
        /\ items' = [items EXCEPT ![t] = answer] /\ at' = [at EXCEPT ![t] = "insert"]
        /\ UNCHANGED <<now, source, cache, took, stop, thread, first>>
    BY <2>1 DEF FetchReturns, TypeOK
  <2>3. \A d \in Documents : answer[d] # Never =>
          published[d] # Never /\ published[d] \in (took[t] - Lookback)..took[t]
    OBVIOUS
  <2> HIDE DEF answer
  <2>4. at[t] = "fetch"
    BY <2>1 DEF FetchReturns
  <2>5. TypeOK'
    BY <2>2, <2>4 DEF TypeOK, source
  <2>6. /\ items'[t] = answer /\ at'[t] = "insert"
        /\ \A u \in Threads \ {t} : items'[u] = items[u] /\ at'[u] = at[u]
    BY <2>2 DEF TypeOK
  <2>7. Timely'
    BY <2>2, <2>3, <2>4, <2>6 DEF Timely, Refreshing, Fetched, source
  <2> QED
    BY <2>2, <2>5, <2>7, CacheKept DEF source
<1>6. CASE \E t \in Threads : FetchFails(t)
  <2>1. PICK t \in Threads : FetchFails(t)
    BY <1>6
  <2>2. Refreshing(t) /\ cache' \in [Documents -> Entry]
    BY <2>1 DEF FetchFails, Refreshing, TypeOK, Entry
  <2>3. TypeOK' /\ Timely'
    BY <2>1, <2>2, RefreshOver DEF FetchFails
  <2> QED
    BY <2>1, <2>3, CacheKept DEF FetchFails, source
<1>7. CASE \E t \in Threads : Insert(t) \/ InsertConflicts(t)
  <2>1. PICK t \in Threads : Insert(t) \/ InsertConflicts(t)
    BY <1>7
  <2>2. /\ at[t] = "insert" /\ Refreshing(t) /\ Refreshed(t) /\ UNCHANGED <<now, source, stop>>
    BY <2>1 DEF Insert, InsertConflicts, Refreshing
  <2>3. PICK ds \in SUBSET Fresh(t) :
          Captures(ds, t) /\ (cache' = With(t, ds) \/ cache' = Pruned(With(t, ds)))
    BY <2>1 DEF Insert, InsertConflicts
  <2>4. /\ Captured' /\ CapturedOnce' /\ EvidenceKept'
        /\ cache' \in [Documents -> Entry]
    BY <2>2, <2>3, InsertKeeps
  <2>5. TypeOK' /\ Timely'
    BY <2>2, <2>4, RefreshOver
  <2> QED
    BY <2>4, <2>5
<1>8. CASE \E d \in Documents : Publish(d)
  <2>1. PICK d \in Documents : Publish(d)
    BY <1>8
  <2>2. /\ published' = [published EXCEPT ![d] = now] /\ published[d] = Never
        /\ UNCHANGED <<now, content, cache, at, took, items, stop, thread, first>>
    BY <2>1 DEF Publish
  <2>3. TypeOK'
    BY <2>2 DEF TypeOK
  <2>4. \A c \in Documents : published[c] # Never => published'[c] = published[c]
    BY <2>2 DEF TypeOK
  <2>5. Timely'
    BY <2>2, <2>4 DEF Timely, Refreshing, Fetched
  <2>6. Captured'
    BY <2>2, <2>4 DEF TypeOK, Captured, Cached
  <2>7. CapturedOnce' /\ EvidenceKept'
    BY <2>2 DEF CapturedOnce, EvidenceKept, Cached
  <2> QED
    BY <2>3, <2>5, <2>6, <2>7
<1>9. CASE \E d \in Documents : Edit(d)
  <2>1. PICK d \in Documents : Edit(d)
    BY <1>9
  <2>2. /\ content' = [content EXCEPT ![d] = @ + 1] /\ content[d] < MaxEdits
        /\ UNCHANGED <<now, published, cache, at, took, items, stop, thread, first>>
    BY <2>1 DEF Edit
  <2>3. TypeOK'
    BY <2>2, ResearchAssumption DEF TypeOK
  <2>4. Timely'
    BY <2>2 DEF Timely, Refreshing, Fetched
  <2> QED
    BY <2>2, <2>3, <2>4, CacheKept
<1>10. CASE UNCHANGED vars
  <2>1. UNCHANGED <<now, published, content, cache, at, took, items, stop, thread, first>>
    BY <1>10 DEF vars
  <2>2. TypeOK' /\ Timely'
    BY <2>1 DEF TypeOK, Timely, Refreshing, Fetched
  <2> QED
    BY <2>1, <2>2, CacheKept
<1> QED
  BY <1>1, <1>2, <1>3, <1>4, <1>5, <1>6, <1>7, <1>8, <1>9, <1>10 DEF Next

LEMMA CacheSound == Spec => []CacheInv
<1>1. CacheInv /\ [Next]_vars => CacheInv'
  BY CacheStep
<1>2. Init => CacheInv
  BY CacheStart
<1> QED
  BY <1>1, <1>2, PTL DEF Spec

(* A document keeps the availability of its first capture and nothing      *)
(* captured within the retention is missing, whatever threads overlap and  *)
(* whatever raises.                                                        *)
THEOREM CapturesAlwaysSound == Spec => []CapturesSound
<1>1. CacheInv => CapturesSound
  BY DEF CacheInv, CapturesSound
<1> QED
  BY <1>1, CacheSound, PTL

(* No snapshot of a decision time shows what was published after it.       *)
THEOREM NeverLooksAhead == Spec => []NoLookahead
<1>1. CacheInv => NoLookahead
  <2> SUFFICES ASSUME CacheInv, NEW asOf \in 0..now, NEW d \in Snapshot(asOf)
               PROVE  published[d] <= asOf
    BY DEF NoLookahead
  <2>2. d \in Cached /\ cache[d].avail <= asOf /\ d \in Documents
    BY DEF Snapshot, Cached
  <2>3. cache[d].avail = first[d] /\ first[d] # Never
    BY <2>2 DEF CacheInv, Captured, CapturedOnce
  <2>4. published[d] <= first[d] /\ published[d] \in Int /\ first[d] \in Int
    BY <2>2, <2>3 DEF CacheInv, Captured, TypeOK, Never
  <2> QED
    BY <2>2, <2>3, <2>4
<1> QED
  BY <1>1, CacheSound, PTL

-----------------------------------------------------------------------------
(* The replay: shares                                                      *)

(* A share of a multiple is exact, and a share of anything an integer.     *)
LEMMA ExactShare ==
  ASSUME NEW q \in Nat \ {0}, NEW x \in Int, NEW n \in Int
  PROVE  ((q * x) * n) \div q = n * x
<1>1. PICK m \in Int : m = n * x
  OBVIOUS
<1>2. (q * x) * n = m * q
  BY <1>1
<1>3. (m * q) \div q = m
  OBVIOUS
<1> QED
  BY <1>1, <1>2, <1>3

(* A share is whole money.                                                 *)
LEMMA WholeShare ==
  ASSUME NEW c \in Int, NEW d \in Nat \ {0}
  PROVE  c \div d \in Int
  OBVIOUS

-----------------------------------------------------------------------------
(* The trades of the replay                                                *)

TradeFields ==
  {"side", "entry", "fill", "qty", "fees", "slip", "stop", "target", "runner", "at"}

(* An open trade: filled at its entry, its slippage not yet shared out is  *)
(* that of what is left, and its levels lie on their sides until the rest  *)
(* runs with its stop at the fill.                                         *)
Trading(t) ==
  /\ DOMAIN t = TradeFields
  /\ t.side \in {-1, 1} /\ t.entry \in Nat \ {0} /\ t.fill = FillPrice(t.entry, t.side)
  /\ t.qty \in Nat \ {0} /\ t.fees \in Int /\ t.slip = t.qty * Slip(t.entry)
  /\ {t.stop, t.target, t.at} \subseteq Int /\ t.runner \in BOOLEAN
  /\ IF t.runner THEN t.stop = t.fill
     ELSE t.side * (t.stop - t.entry) <= 0 /\ t.side * (t.target - t.entry) >= 0

(* What is sold of a trade, in whole money.                                *)
Reckoned(r) ==
  /\ r.net \in Int /\ r.gross \in Int /\ r.money \in Int
  /\ r.trade = NoTrade \/ Trading(r.trade)

(* The rates of fees and slippage are no less than nothing.                *)
LEMMA Rates ==
  FeePct \in Nat /\ SlipPct \in Nat
<1>1. {FeePct, SlipPct} \subseteq 0..99
  BY ReplayAssumption
<1> QED
  BY <1>1

(* What slips is whole money, and so is the price a fill gets.             *)
LEMMA SlipTyped ==
  ASSUME NEW x \in Int
  PROVE  /\ Slip(x) \in Int
         /\ \A side \in {-1, 1} : FillPrice(x, side) \in Int /\ FillPrice(x, side) = x + side * Slip(x)
<1>1. x * SlipPct \in Int
  BY Rates
<1>2. Slip(x) \in Int
  BY <1>1, WholeShare DEF Slip
<1> QED
  BY <1>2 DEF FillPrice

(* A fee is whole money.                                                   *)
LEMMA FeeTyped ==
  ASSUME NEW x \in Int
  PROVE  FeeOf(x) \in Int
<1>1. x * FeePct \in Int
  <2>1. FeePct \in Int
    BY Rates
  <2> QED
    BY <2>1
<1> QED
  BY <1>1, WholeShare DEF FeeOf

(* What an open trade was bought for is whole money.                       *)
LEMMA TradingTyped ==
  ASSUME NEW t, Trading(t)
  PROVE  /\ t # NoTrade /\ t.fill \in Int /\ Slip(t.entry) \in Int /\ t.slip \in Int
         /\ t.side * t.fill * t.qty \in Int /\ Spent(t) \in Int
         /\ Spent(t) = t.side * t.fill * t.qty + t.fees
<1>1. t.side \in {-1, 1} /\ t.entry \in Nat /\ t.qty \in Nat /\ t.fees \in Int
  BY DEF Trading
<1>2. t # NoTrade
  BY <1>1 DEF NoTrade
<1>3. t.fill \in Int /\ Slip(t.entry) \in Int
  BY <1>1, SlipTyped DEF Trading
<1>4. t.slip \in Int /\ t.side * t.fill * t.qty \in Int
  BY <1>1, <1>3 DEF Trading
<1> QED
  BY <1>1, <1>2, <1>3, <1>4 DEF Spent

(* The arithmetic of a sale: what it takes from the results and from what  *)
(* is open is what it brings in money.                                     *)
LEMMA Settlement ==
  ASSUME NEW g \in Int, NEW won \in Int, NEW share \in Int, NEW fee \in Int, NEW a \in Int,
         NEW c \in Int, NEW s0 \in Int, NEW s1 \in Int, NEW c0 \in Int, NEW m \in Int, NEW k \in Int,
         won - a - c = m - k, s0 - s1 = k + share
  PROVE  g + won - share - fee - a - c - s1 - (c0 + m - fee) = g - s0 - c0
OBVIOUS

(* A sale takes from the trade what it brings in money and in results,     *)
(* whichever share of the entry's fee goes with it.                        *)
LEMMA SoldBalances ==
  ASSUME NEW r, Reckoned(r), Trading(r.trade), NEW price \in Int, NEW n \in 1..r.trade.qty,
         NEW o, o = Sold(r, price, n)
  PROVE  /\ Reckoned(o)
         /\ o.trade = NoTrade <=> n = r.trade.qty
         /\ n # r.trade.qty => /\ o.trade.qty = r.trade.qty - n
                               /\ \A f \in TradeFields \ {"qty", "fees", "slip"} : o.trade[f] = r.trade[f]
         /\ o.net - Spent(o.trade) - o.money = r.net - Spent(r.trade) - r.money
         /\ o.gross = r.gross + r.trade.side * (price - r.trade.entry) * n
<1>1. PICK t : t = r.trade
  OBVIOUS
<1>2. Trading(t) /\ t.side \in {-1, 1} /\ t.entry \in Nat \ {0} /\ t.qty \in Nat \ {0} /\ n \in 1..t.qty
      /\ t.fees \in Int /\ t.slip = t.qty * Slip(t.entry) /\ DOMAIN t = TradeFields
  BY <1>1 DEF Trading
<1>3. /\ t # NoTrade /\ t.fill \in Int /\ Slip(t.entry) \in Int /\ t.slip \in Int
      /\ Spent(t) = t.side * t.fill * t.qty + t.fees
  BY <1>2, TradingTyped
<1> DEFINE feeShare == (t.fees * n) \div t.qty
           slipShare == (t.slip * n) \div t.qty
           fill == FillPrice(price, -t.side)
           fee == FeeOf(n * fill)
           won == t.side * (price - t.entry) * n
<1>4. n \in Int /\ feeShare \in Int
  <2>1. n \in Int /\ t.fees * n \in Int
    BY <1>2
  <2> QED
    BY <1>2, <2>1, WholeShare
<1>5. slipShare = n * Slip(t.entry)
  BY <1>2, <1>3, ExactShare
<1>6. fill \in Int /\ Slip(price) \in Int /\ fill = price - t.side * Slip(price)
  <2>1. -t.side \in {-1, 1}
    BY <1>2
  <2>2. /\ Slip(price) \in Int
        /\ FillPrice(price, -t.side) \in Int /\ FillPrice(price, -t.side) = price + (-t.side) * Slip(price)
    BY <2>1, SlipTyped
  <2> QED
    BY <1>2, <2>2
<1>7. fee \in Int
  <2> HIDE DEF fill
  <2>1. n * fill \in Int
    BY <1>4, <1>6
  <2> QED
    BY <2>1, FeeTyped
<1>8. won \in Int
  BY <1>2, <1>4
<1> DEFINE left == [t EXCEPT !.qty = @ - n, !.fees = @ - feeShare, !.slip = @ - slipShare]
<1>9. /\ o.trade = (IF n = t.qty THEN NoTrade ELSE left)
      /\ o.net = r.net + won - feeShare - fee - slipShare - n * Slip(price)
      /\ o.gross = r.gross + won /\ o.money = r.money + t.side * n * fill - fee
  BY <1>1 DEF Sold
<1> HIDE DEF feeShare, slipShare, fill, fee, won
<1>10. ASSUME n # t.qty
       PROVE  /\ Trading(left) /\ left.qty = t.qty - n /\ left.fees = t.fees - feeShare
              /\ \A f \in TradeFields \ {"qty", "fees", "slip"} : left[f] = t[f]
  <2>1. /\ DOMAIN left = TradeFields /\ left.qty = t.qty - n /\ left.fees = t.fees - feeShare
        /\ left.slip = t.slip - slipShare
        /\ \A f \in TradeFields \ {"qty", "fees", "slip"} : left[f] = t[f]
    BY <1>2 DEF TradeFields
  <2> HIDE DEF left
  <2>2. /\ left.side = t.side /\ left.entry = t.entry /\ left.fill = t.fill /\ left.stop = t.stop
        /\ left.target = t.target /\ left.runner = t.runner /\ left.at = t.at
    BY <2>1 DEF TradeFields
  <2>3. left.qty \in Nat \ {0} /\ left.fees \in Int
    BY <1>2, <1>4, <1>10, <2>1
  <2>4. left.slip = left.qty * Slip(t.entry)
    BY <1>2, <1>3, <1>4, <1>5, <2>1
  <2> QED
    BY <1>2, <2>1, <2>2, <2>3, <2>4 DEF Trading
<1>11. n * Slip(t.entry) \in Int /\ n * Slip(price) \in Int /\ t.side * n * fill \in Int
  BY <1>2, <1>3, <1>4, <1>6
<1>12. Reckoned(o)
  <2>1. o.trade = NoTrade \/ Trading(o.trade)
    BY <1>9, <1>10
  <2> HIDE DEF left
  <2>2. r.net \in Int /\ r.gross \in Int /\ r.money \in Int
    BY DEF Reckoned
  <2> QED
    BY <1>4, <1>5, <1>7, <1>8, <1>9, <1>11, <2>1, <2>2 DEF Reckoned
(* What the money gets is what the result says less the entry's cost.      *)
<1>13. won - n * Slip(t.entry) - n * Slip(price) = t.side * n * fill - t.side * t.fill * n
  <2>1. t.fill = t.entry + t.side * Slip(t.entry)
    BY <1>2, SlipTyped DEF Trading
  <2>2. PICK a \in Int, c \in Int : a = Slip(t.entry) /\ c = Slip(price)
    BY <1>3, <1>6
  <2>3. PICK e \in Int : e = t.entry
    BY <1>2
  <2>4. CASE t.side = 1
    <3>1. won = (price - e) * n
      BY <1>2, <2>3, <2>4 DEF won
    <3>2. t.side * n * fill = n * (price - c) /\ t.side * t.fill * n = (e + a) * n
      BY <1>4, <1>6, <2>1, <2>2, <2>3, <2>4
    <3> QED
      BY <1>4, <2>2, <2>3, <3>1, <3>2
  <2>5. CASE t.side = -1
    <3>1. won = (e - price) * n
      BY <1>4, <2>3, <2>5 DEF won
    <3>2. fill = price + c /\ t.fill = e - a
      BY <1>6, <2>1, <2>2, <2>3, <2>5
    <3>3. t.side * n * fill = -(n * (price + c)) /\ t.side * t.fill * n = -((e - a) * n)
      BY <1>4, <2>2, <2>3, <2>5, <3>2
    <3> QED
      BY <1>4, <2>2, <2>3, <3>1, <3>3
  <2> QED
    BY <1>2, <2>4, <2>5
<1>14. Spent(t) - Spent(o.trade) = t.side * t.fill * n + feeShare
  <2>1. PICK u \in Int : u = t.side * t.fill
    BY <1>2, <1>3
  <2>2. CASE n = t.qty
    <3>1. feeShare = t.fees
      <4>1. feeShare = (t.fees * t.qty) \div t.qty
        BY <2>2 DEF feeShare
      <4>2. (t.fees * t.qty) \div t.qty = t.fees
        BY <1>2
      <4> QED
        BY <4>1, <4>2
    <3>2. Spent(o.trade) = 0
      BY <1>9, <2>2 DEF Spent
    <3> QED
      BY <1>2, <1>3, <1>4, <2>1, <2>2, <3>1, <3>2
  <2>3. CASE n # t.qty
    <3>1. Spent(left) = left.side * left.fill * left.qty + left.fees
      BY <1>10, <2>3, TradingTyped
    <3>2. left.side = t.side /\ left.fill = t.fill /\ left.qty = t.qty - n /\ left.fees = t.fees - feeShare
      BY <1>10, <2>3 DEF TradeFields
    <3> HIDE DEF left
    <3>3. o.trade = left
      BY <1>9, <2>3
    <3>4. u * (t.qty - n) = u * t.qty - u * n
      BY <1>2, <1>4, <2>1
    <3>5. PICK v \in Int, w \in Int : v = u * t.qty /\ w = u * n
      BY <1>2, <1>4, <2>1
    <3> QED
      BY <1>2, <1>3, <1>4, <2>1, <3>1, <3>2, <3>3, <3>4, <3>5
  <2> QED
    BY <2>2, <2>3
<1>15. o.net - Spent(o.trade) - o.money = r.net - Spent(t) - r.money
  <2>1. PICK a \in Int, c \in Int : a = n * Slip(t.entry) /\ c = n * Slip(price)
    BY <1>11
  <2>2. PICK m \in Int, k \in Int : m = t.side * n * fill /\ k = t.side * t.fill * n
    BY <1>2, <1>3, <1>4, <1>11
  <2>3. Spent(t) \in Int /\ Spent(o.trade) \in Int
    BY <1>12, <1>2, TradingTyped DEF Reckoned, Spent
  <2>4. r.net \in Int /\ r.money \in Int
    BY DEF Reckoned
  <2>5. /\ o.net = r.net + won - feeShare - fee - a - c
        /\ o.money = r.money + m - fee
    BY <1>5, <1>9, <2>1, <2>2
  <2>6. won - a - c = m - k
    BY <1>13, <2>1, <2>2
  <2>7. Spent(t) - Spent(o.trade) = k + feeShare
    BY <1>14, <2>2
  <2>8. PICK s0 \in Int, s1 \in Int : s0 = Spent(t) /\ s1 = Spent(o.trade)
    BY <2>3
  <2>9. PICK g \in Int, c0 \in Int : g = r.net /\ c0 = r.money
    BY <2>4
  <2> HIDE DEF left
  <2>10. s0 - s1 = k + feeShare /\ o.net = g + won - feeShare - fee - a - c /\ o.money = c0 + m - fee
    BY <2>5, <2>7, <2>8, <2>9
  <2>11. g + won - feeShare - fee - a - c - s1 - (c0 + m - fee) = g - s0 - c0
    <3>1. a \in Int /\ c \in Int /\ m \in Int /\ k \in Int
      OBVIOUS
    <3> QED
      BY <1>4, <1>7, <1>8, <2>6, <2>10, <3>1, Settlement
  <2>12. o.net - s1 - o.money = g - s0 - c0
    <3>1. PICK x \in Int : x = g + won - feeShare - fee - a - c
      BY <1>4, <1>7, <1>8
    <3>2. PICK y \in Int : y = c0 + m - fee
      BY <1>7
    <3>3. x - s1 - y = g - s0 - c0
      BY <1>4, <1>7, <1>8, <2>11, <3>1, <3>2
    <3>4. o.net = x /\ o.money = y
      BY <2>10, <3>1, <3>2
    <3> QED
      BY <3>3, <3>4
  <2> QED
    BY <2>8, <2>9, <2>12
<1>16. /\ o.trade = NoTrade <=> n = t.qty
       /\ n # t.qty => /\ o.trade.qty = t.qty - n
                       /\ \A f \in TradeFields \ {"qty", "fees", "slip"} : o.trade[f] = t[f]
  BY <1>9, <1>10, TradingTyped
<1> QED
  BY <1>1, <1>9, <1>12, <1>15, <1>16 DEF won

-----------------------------------------------------------------------------
(* A row and the trade it meets                                            *)

Bar(b) ==
  /\ b.low \in Nat \ {0} /\ b.close \in Nat \ {0} /\ b.high \in Nat \ {0}
  /\ b.low <= b.close /\ b.close <= b.high

(* What a trade earns before costs on a unit that leaves at a price.       *)
Gain(t, price) == t.side * (price - t.entry)

(* At a close short of the stop a unit earns no less than at the stop.     *)
LEMMA CloseBeatsStop ==
  ASSUME NEW t, Trading(t), NEW b, Bar(b), ~StopHit(t, b)
  PROVE  Gain(t, t.stop) <= Gain(t, b.close)
<1>1. t.side \in {-1, 1} /\ t.stop \in Int /\ t.entry \in Int
  BY DEF Trading
<1>2. b.low \in Int /\ b.close \in Int /\ b.high \in Int /\ b.low <= b.close /\ b.close <= b.high
  BY DEF Bar
<1>3. CASE t.side = 1
  BY <1>1, <1>2, <1>3 DEF StopHit, Gain
<1>4. CASE t.side = -1
  BY <1>1, <1>2, <1>4 DEF StopHit, Gain
<1> QED
  BY <1>1, <1>3, <1>4

(* What a unit earns is whole money.                                       *)
LEMMA GainTyped ==
  ASSUME NEW t, Trading(t), NEW price \in Int
  PROVE  Gain(t, price) \in Int
BY DEF Trading, Gain

(* What the stop and the target make of a trade.                           *)
LEMMA ManagedSound ==
  ASSUME NEW t, Trading(t), NEW b, NEW m, m = Managed(t, b)
  PROVE  /\ Reckoned(m)
         /\ m.net - Spent(m.trade) - m.money = -Spent(t)
         /\ m.trade = NoTrade => m.gross >= Gain(t, t.stop) * t.qty
         /\ m.trade # NoTrade =>
              /\ ~StopHit(t, b) /\ m.trade.side = t.side /\ m.trade.entry = t.entry
              /\ m.trade.at = t.at /\ m.trade.qty \in 1..t.qty
              /\ m.trade = t => m.gross = 0
              /\ m.trade # t => /\ m.gross >= 0
                                /\ Gain(t, t.stop) <= 0
<1> DEFINE r == [trade |-> t, net |-> 0, gross |-> 0, money |-> 0]
           part == (t.qty * PartialPct) \div 100
           rest == Sold(r, t.target, part)
<1>1. /\ t.side \in {-1, 1} /\ t.qty \in Nat \ {0} /\ t.stop \in Int /\ t.target \in Int /\ t # NoTrade
      /\ t.entry \in Int /\ Spent(t) \in Int /\ t.at \in Int
      /\ ~t.runner => Gain(t, t.stop) <= 0 /\ Gain(t, t.target) >= 0
  BY TradingTyped DEF Trading, Gain
<1>2. Reckoned(r) /\ r.trade = t /\ r.net = 0 /\ r.gross = 0 /\ r.money = 0
  BY DEF Reckoned
<1> HIDE DEF r
<1>3. /\ Reckoned(r) /\ Trading(r.trade) /\ t.qty \in 1..r.trade.qty
  BY <1>1, <1>2
<1>4. CASE StopHit(t, b)
  <2>1. m = Sold(r, t.stop, t.qty)
    BY <1>4 DEF Managed, r
  <2>2. /\ Reckoned(m) /\ m.trade = NoTrade
        /\ m.net - Spent(m.trade) - m.money = r.net - Spent(t) - r.money
        /\ m.gross = r.gross + t.side * (t.stop - t.entry) * t.qty
    BY <1>1, <1>2, <1>3, <2>1, SoldBalances
  <2>3. m.gross = Gain(t, t.stop) * t.qty
    BY <1>1, <1>2, <2>2, GainTyped DEF Gain
  <2>4. Gain(t, t.stop) * t.qty \in Int
    BY <1>1, GainTyped
  <2> QED
    BY <1>1, <1>2, <2>2, <2>3, <2>4
<1>5. CASE ~StopHit(t, b) /\ TargetHit(t, b) /\ part \notin 1..(t.qty - 1)
  <2>1. m = Sold(r, t.target, t.qty)
    BY <1>5 DEF Managed, r
  <2>2. /\ Reckoned(m) /\ m.trade = NoTrade
        /\ m.net - Spent(m.trade) - m.money = r.net - Spent(t) - r.money
        /\ m.gross = r.gross + t.side * (t.target - t.entry) * t.qty
    BY <1>1, <1>2, <1>3, <2>1, SoldBalances
  <2>3. ~t.runner
    BY <1>5 DEF TargetHit
  <2>4. m.gross = Gain(t, t.target) * t.qty
    BY <1>1, <1>2, <2>2, GainTyped DEF Gain
  <2>5. m.gross >= Gain(t, t.stop) * t.qty
    <3>1. PICK x \in Int, y \in Int : x = Gain(t, t.stop) /\ y = Gain(t, t.target)
      BY <1>1, GainTyped
    <3>2. x <= 0 /\ y >= 0
      BY <1>1, <2>3, <3>1
    <3>3. x * t.qty <= 0 /\ y * t.qty >= 0 /\ x * t.qty \in Int /\ y * t.qty \in Int
      BY <1>1, <3>2
    <3> QED
      BY <2>4, <3>1, <3>3
  <2> QED
    BY <1>1, <1>2, <2>2, <2>5
<1>6. CASE ~StopHit(t, b) /\ TargetHit(t, b) /\ part \in 1..(t.qty - 1)
  <2>1. m = [rest EXCEPT !.trade.stop = t.fill, !.trade.runner = TRUE]
    BY <1>6 DEF Managed, r
  <2>2. part \in 1..t.qty /\ part # t.qty /\ part \in Int
    BY <1>1, <1>6
  <2>3. ~t.runner
    BY <1>6 DEF TargetHit
  <2> HIDE DEF part
  <2>4. /\ Reckoned(rest) /\ rest.trade # NoTrade
        /\ rest.trade.qty = t.qty - part
        /\ \A f \in TradeFields \ {"qty", "fees", "slip"} : rest.trade[f] = t[f]
        /\ rest.net - Spent(rest.trade) - rest.money = r.net - Spent(t) - r.money
        /\ rest.gross = r.gross + t.side * (t.target - t.entry) * part
    BY <1>1, <1>2, <1>3, <2>2, SoldBalances
  <2>5. DOMAIN rest = {"trade", "net", "gross", "money"}
    BY DEF Sold
  <2> HIDE DEF rest
  <2>6. /\ m.net = rest.net /\ m.gross = rest.gross /\ m.money = rest.money
        /\ m.trade = [rest.trade EXCEPT !.stop = t.fill, !.runner = TRUE]
    BY <2>1, <2>5
  <2>7. Trading(rest.trade) /\ DOMAIN rest.trade = TradeFields
    BY <2>4 DEF Reckoned, Trading
  <2>8. PICK u : u = m.trade
    OBVIOUS
  <2>9. /\ DOMAIN u = TradeFields /\ u.stop = t.fill /\ u.runner = TRUE
        /\ \A f \in TradeFields \ {"stop", "runner"} : u[f] = rest.trade[f]
    BY <2>6, <2>7, <2>8 DEF TradeFields
  <2>10. /\ u.side = t.side /\ u.entry = t.entry /\ u.at = t.at /\ u.fill = t.fill
         /\ u.target = t.target
    BY <2>4, <2>9 DEF TradeFields
  <2>11. u.qty = rest.trade.qty /\ u.fees = rest.trade.fees /\ u.slip = rest.trade.slip
         /\ rest.trade.entry = t.entry /\ rest.trade.side = t.side /\ rest.trade.fill = t.fill
    BY <2>4, <2>9 DEF TradeFields
  <2>12. t.fill \in Int /\ t.fill = FillPrice(t.entry, t.side)
    BY TradingTyped DEF Trading
  <2>13. Trading(u)
    <3>1. /\ rest.trade.qty \in Nat \ {0} /\ rest.trade.fees \in Int
          /\ rest.trade.slip = rest.trade.qty * Slip(t.entry)
      BY <2>7, <2>11 DEF Trading
    <3>2. /\ t.side \in {-1, 1} /\ t.entry \in Nat \ {0} /\ {t.target, t.at} \subseteq Int
      BY DEF Trading
    <3>3. /\ u.qty \in Nat \ {0} /\ u.fees \in Int /\ u.slip = u.qty * Slip(u.entry)
          /\ u.side \in {-1, 1} /\ u.entry \in Nat \ {0} /\ u.fill = FillPrice(u.entry, u.side)
      BY <2>10, <2>11, <2>12, <3>1, <3>2
    <3>4. {u.stop, u.target, u.at} \subseteq Int /\ u.runner \in BOOLEAN /\ u.runner /\ u.stop = u.fill
      BY <2>9, <2>10, <2>12, <3>2
    <3> QED
      BY <2>9, <3>3, <3>4 DEF Trading
  <2>14. Spent(u) = Spent(rest.trade)
    <3>1. u # NoTrade /\ rest.trade # NoTrade
      BY <2>7, <2>13, TradingTyped
    <3> QED
      BY <2>10, <2>11, <3>1 DEF Spent
  <2>15. m.gross >= 0 /\ m.gross \in Int
    <3>1. PICK y \in Int : y = Gain(t, t.target)
      BY <1>1, GainTyped
    <3>2. y >= 0
      BY <1>1, <2>3, <3>1
    <3>3. y * part >= 0 /\ y * part \in Int
      BY <2>2, <3>2
    <3>4. m.gross = y * part
      BY <1>2, <2>4, <2>6, <3>1, <3>3 DEF Gain
    <3> QED
      BY <3>3, <3>4
  <2>16. Reckoned(m)
    BY <2>4, <2>6, <2>8, <2>13, <2>15 DEF Reckoned
  <2>17. m.trade # NoTrade /\ m.trade.qty \in 1..t.qty
    <3>1. m.trade # NoTrade
      BY <2>8, <2>13, TradingTyped
    <3>2. m.trade.qty = t.qty - part
      BY <2>4, <2>8, <2>11
    <3> QED
      BY <1>1, <2>2, <3>1, <3>2
  <2>18. m.net - Spent(m.trade) - m.money = -Spent(t)
    BY <1>1, <1>2, <2>4, <2>6, <2>8, <2>14
  <2>19. m.trade # t
    BY <2>3, <2>8, <2>9
  <2> QED
    BY <1>1, <1>6, <2>3, <2>8, <2>10, <2>15, <2>16, <2>17, <2>18, <2>19
<1>7. CASE ~StopHit(t, b) /\ ~TargetHit(t, b)
  <2>1. m = r
    BY <1>7 DEF Managed, r
  <2> QED
    BY <1>1, <1>2, <1>7, <2>1
<1> QED
  BY <1>4, <1>5, <1>6, <1>7

(* A row: what leaves is accounted for, never at less than the stop, and   *)
(* nothing stays beyond the last row of a day.                             *)
LEMMA RowSound ==
  ASSUME NEW t, Trading(t), NEW b, Bar(b), NEW clock, NEW last \in BOOLEAN,
         NEW o, o = AfterRow(t, b, clock, last)
  PROVE  /\ Reckoned(o)
         /\ o.net - Spent(o.trade) - o.money = -Spent(t)
         /\ last => o.trade = NoTrade
         /\ o.trade # t => o.gross >= Gain(t, t.stop) * t.qty
<1>1. PICK m : m = Managed(t, b)
  OBVIOUS
<1>2. /\ Reckoned(m)
      /\ m.net - Spent(m.trade) - m.money = -Spent(t)
      /\ m.trade = NoTrade => m.gross >= Gain(t, t.stop) * t.qty
      /\ m.trade # NoTrade =>
           /\ ~StopHit(t, b) /\ m.trade.side = t.side /\ m.trade.entry = t.entry
           /\ m.trade.at = t.at /\ m.trade.qty \in 1..t.qty
           /\ m.trade = t => m.gross = 0
           /\ m.trade # t => m.gross >= 0 /\ Gain(t, t.stop) <= 0
  BY <1>1, ManagedSound
<1>3. PICK k \in Int : k = Gain(t, t.stop)
  <2>1. t.stop \in Int
    BY DEF Trading
  <2> QED
    BY <2>1, GainTyped
<1>4. t.qty \in Nat \ {0} /\ Spent(t) \in Int /\ t # NoTrade
  BY TradingTyped DEF Trading
<1>5. CASE m.trade = NoTrade
  <2>1. o = m
    BY <1>1, <1>5 DEF AfterRow
  <2> QED
    BY <1>2, <1>5, <2>1
<1>6. CASE m.trade # NoTrade /\ ~(clock - m.trade.at >= MaxHolding \/ last)
  <2>1. o = m
    BY <1>1, <1>6 DEF AfterRow
  <2>2. ASSUME m.trade # t PROVE m.gross >= k * t.qty
    <3>1. k <= 0 /\ m.gross >= 0 /\ m.gross \in Int
      BY <1>2, <1>3, <1>6, <2>2 DEF Reckoned
    <3>2. k * t.qty <= 0 /\ k * t.qty \in Int
      BY <1>4, <3>1
    <3> QED
      BY <3>1, <3>2
  <2> QED
    BY <1>2, <1>3, <1>6, <2>1, <2>2
<1>7. CASE m.trade # NoTrade /\ (clock - m.trade.at >= MaxHolding \/ last)
  <2>1. o = Sold(m, b.close, m.trade.qty)
    BY <1>1, <1>7 DEF AfterRow
  <2>2. PICK q \in 1..t.qty : q = m.trade.qty
    BY <1>2, <1>7
  <2>3. Trading(m.trade) /\ b.close \in Int
    BY <1>2, <1>7 DEF Reckoned, Bar
  <2>4. q \in 1..m.trade.qty
    BY <1>4, <2>2
  <2>5. /\ Reckoned(o) /\ o.trade = NoTrade
        /\ o.net - Spent(o.trade) - o.money = m.net - Spent(m.trade) - m.money
        /\ o.gross = m.gross + m.trade.side * (b.close - m.trade.entry) * q
    BY <1>2, <2>1, <2>2, <2>3, <2>4, SoldBalances
  <2>6. PICK c \in Int : c = Gain(t, b.close)
    BY <2>3, GainTyped
  <2>7. o.gross = m.gross + c * q
    BY <1>2, <1>7, <2>5, <2>6 DEF Gain
  <2>8. k <= c
    BY <1>2, <1>3, <1>7, <2>6, CloseBeatsStop
  <2>9. m.gross \in Int /\ q \in Int /\ q >= 0 /\ t.qty - q \in Int /\ t.qty - q >= 0
    BY <1>2, <1>4 DEF Reckoned
  <2>10. m.gross >= k * (t.qty - q)
    <3>1. CASE m.trade = t
      <4>1. t.qty - q = 0 /\ m.gross = 0
        BY <1>2, <1>4, <1>7, <2>2, <3>1
      <4> QED
        BY <4>1
    <3>2. CASE m.trade # t
      <4>1. k <= 0 /\ m.gross >= 0
        BY <1>2, <1>3, <1>7, <3>2
      <4>2. k * (t.qty - q) <= 0 /\ k * (t.qty - q) \in Int
        BY <2>9, <4>1
      <4> QED
        BY <2>9, <4>1, <4>2
    <3> QED
      BY <3>1, <3>2
  <2>11. m.gross + c * q >= k * t.qty
    <3>1. k * q <= c * q /\ k * q \in Int /\ c * q \in Int
      BY <2>8, <2>9
    <3>2. k * (t.qty - q) + k * q = k * t.qty /\ k * (t.qty - q) \in Int
      BY <1>4, <2>9
    <3>3. PICK x \in Int, y \in Int, z \in Int : x = k * (t.qty - q) /\ y = k * q /\ z = c * q
      BY <3>1, <3>2
    <3>4. k * t.qty = x + y /\ y <= z /\ m.gross >= x
      BY <2>10, <3>1, <3>2, <3>3
    <3>5. m.gross + z >= x + y
      BY <2>9, <3>3, <3>4
    <3> QED
      BY <3>3, <3>4, <3>5
  <2> QED
    BY <1>2, <1>3, <2>5, <2>7, <2>11
<1> QED
  BY <1>5, <1>6, <1>7

-----------------------------------------------------------------------------
(* The state of the replay                                                 *)

(* The figures are whole, a trade belongs to a symbol that had a row and   *)
(* not yet its last, the day's results begin with it, and it started at    *)
(* the equity of the results before it.                                    *)
ReplayTyped ==
  /\ minute \in Nat /\ entries \in Nat /\ {net, gross, netToday, dayStart, money} \subseteq Int
  /\ seen \subseteq Tickers /\ ended \subseteq seen
  /\ marks \in [Tickers -> Nat]
  /\ DOMAIN trades = Tickers /\ \A s \in Tickers : trades[s] = NoTrade \/ Trading(trades[s])
DayKept ==
  /\ \A s \in Tickers : trades[s] # NoTrade => s \in seen \ ended
  /\ seen = {} => netToday = 0
  /\ seen # {} => dayStart = Equity(Starting + net - netToday)
ReplayInv == ReplayTyped /\ DayKept /\ EquityAccounted

(* The books are added up over finitely many tickers.                      *)
LEMMA TickersFinite == IsFiniteSet(Tickers)
<1>1. PICK n \in Nat : DOMAIN SymbolOrder = 1..n
  BY ReplayAssumption
<1>2. IsFiniteSet(1..n)
  BY <1>1, FS_Interval
<1> DEFINE f == [i \in 1..n |-> SymbolOrder[i]]
<1>3. Tickers = {f[i] : i \in 1..n}
  BY <1>1 DEF Tickers
<1>4. f \in Surjection(1..n, Tickers)
  BY <1>3 DEF Surjection
<1> QED
  BY <1>2, <1>4, FS_Surjection

(* A candle of the replay or of the history is a bar with whole prices;    *)
(* its long distance leaves a stop above zero.                             *)
LEMMA RowsAreBars ==
  ASSUME NEW b \in Candles
  PROVE  Bar(b) /\ b.close - b.long \in Nat \ {0} /\ b.long \in Nat /\ b.short \in Nat
<1>1. /\ {b.low, b.close, b.high, b.close - b.long} \subseteq Nat \ {0}
      /\ b.low <= b.close /\ b.close <= b.high /\ {b.long, b.short} \subseteq Nat
  BY RowsAssumption
<1> QED
  BY <1>1 DEF Bar

(* Equity as the gate sees it is never below zero.                         *)
LEMMA EquityTyped ==
  ASSUME NEW x \in Int
  PROVE  Equity(x) \in Nat /\ (x > 0 => Equity(x) = x) /\ (Equity(x) > 0 => x > 0)
BY DEF Equity

(* What is open is worth whole money.                                      *)
LEMMA UnrealizedTyped ==
  ASSUME NEW ts, \A s \in Tickers : ts[s] = NoTrade \/ Trading(ts[s]),
         NEW m \in [Tickers -> Nat]
  PROVE  UnrealizedIn(ts, m) \in Int /\ GrossIn(ts, m) \in Int
<1> DEFINE f == [s \in Tickers |-> Worth(ts[s], m[s])]
           g == [s \in Tickers |-> Notional(ts[s], m[s])]
<1>1. ASSUME NEW s \in Tickers PROVE Worth(ts[s], m[s]) \in Int /\ Notional(ts[s], m[s]) \in Int
  <2>1. CASE ts[s] = NoTrade
    BY <2>1 DEF Worth, Notional
  <2>2. CASE Trading(ts[s])
    <3>1. PICK t : t = ts[s]
      OBVIOUS
    <3>2. PICK x \in Nat : x = m[s]
      OBVIOUS
    <3>3. t.side \in {-1, 1} /\ t.fill \in Int /\ t.qty \in Nat /\ t.fees \in Int
      BY <2>2, <3>1, TradingTyped DEF Trading
    <3>4. t.side * (x - t.fill) * t.qty \in Int /\ t.qty * x \in Int
      BY <3>2, <3>3
    <3> QED
      BY <3>1, <3>2, <3>3, <3>4 DEF Worth, Notional
  <2> QED
    BY <2>1, <2>2
<1>2. f \in [Tickers -> Int] /\ g \in [Tickers -> Int] /\ DOMAIN f = Tickers /\ DOMAIN g = Tickers
  BY <1>1
<1>3. UnrealizedIn(ts, m) = SumFunctionOnSet(f, Tickers) /\ GrossIn(ts, m) = SumFunctionOnSet(g, Tickers)
  BY DEF UnrealizedIn, GrossIn, SumFunction
<1> HIDE DEF f, g
<1>4. SumFunctionOnSet(f, Tickers) \in Int
  BY <1>2, TickersFinite, SumTaken
<1>5. SumFunctionOnSet(g, Tickers) \in Int
  BY <1>2, TickersFinite, SumTaken
<1> QED
  BY <1>3, <1>4, <1>5

(* The gate lets a candidate through for a number of units, on an account  *)
(* with equity, above the limit of the day.                                *)
LEMMA GateOpens ==
  ASSUME NEW a, a.equity \in Nat, a.gross \in Int, a.cash \in Int,
         NEW price \in Nat \ {0}, NEW distance \in Nat \ {0}, NEW long,
         NEW d, d = DecideFlat(a, long, price, distance, 100), d.approved
  PROVE  /\ d.quantity \in Nat \ {0} /\ ~a.held /\ a.equity > 0
         /\ ~DailyLossReached(a.pnl, a.dayStart)
<1> DEFINE sized   == PositionSize(a.equity, distance)
           cashQty == a.cash \div price
           wanted  == Least(sized, cashQty)
           qty     == (wanted * 100) \div 100
           over    == OverExposed(a.gross + price * qty, a.equity)
           room    == (a.equity * GrossPct - 100 * a.gross) \div (100 * price)
           final   == IF over THEN Least(qty, room) ELSE qty
<1>1. /\ WithinAccountLimits(a, TRUE, ~a.held) /\ ~a.held /\ wanted > 0 /\ final > 0
      /\ d.quantity = final
  <2>1. Rejected.approved = FALSE
    BY DEF Rejected
  <2> QED
    BY <2>1 DEF DecideFlat
<1>2. RiskPct \in Nat /\ GrossPct \in Nat
  BY RiskAssumption
<1>3. sized \in Int /\ (a.equity = 0 => sized = 0)
  <2>1. a.equity * RiskPct \in Int /\ 100 * distance \in Nat \ {0} /\ (a.equity = 0 => a.equity * RiskPct = 0)
    BY <1>2
  <2>2. 0 \div (100 * distance) = 0
    BY <2>1
  <2> QED
    BY <2>1, <2>2, WholeShare DEF PositionSize
<1>4. cashQty \in Int
  BY WholeShare
<1>5. wanted \in Int /\ wanted <= sized
  <2> HIDE DEF sized, cashQty
  <2> QED
    BY <1>3, <1>4 DEF Least
<1>6. qty \in Int
  <2> HIDE DEF wanted
  <2> QED
    BY <1>5
<1>7. room \in Int
  <2>1. a.equity * GrossPct - 100 * a.gross \in Int /\ 100 * price \in Nat \ {0}
    BY <1>2
  <2> QED
    BY <2>1, WholeShare
<1>8. final \in Int
  <2> HIDE DEF over, qty, room
  <2> QED
    BY <1>6, <1>7 DEF Least
<1> HIDE DEF sized, wanted, final
<1> QED
  BY <1>1, <1>3, <1>5, <1>8 DEF WithinAccountLimits

(* A trade that is entered has its stop below it and its target above, on  *)
(* its side.                                                               *)
LEMMA EnteredTrading ==
  ASSUME minute \in Nat, NEW side \in {-1, 1}, NEW price \in Nat \ {0}, NEW distance \in Nat \ {0},
         NEW n \in Nat \ {0}, NEW t, t = Entered(side, price, distance, n)
  PROVE  Trading(t)
<1> DEFINE reward == (distance * TargetPct) \div 100
<1>1. reward \in Int /\ reward >= 0
  <2>1. TargetPct \in Nat
    <3>1. {TargetPct, MaxHolding, Starting} \subseteq Nat \ {0}
      BY ReplayAssumption
    <3> QED
      BY <3>1
  <2>2. distance * TargetPct \in Nat
    BY <2>1
  <2> QED
    BY <2>2
<1>2. FillPrice(price, side) \in Int /\ Slip(price) \in Int
  BY SlipTyped
<1>3. FeeOf(n * FillPrice(price, side)) \in Int
  <2>1. n * FillPrice(price, side) \in Int
    BY <1>2
  <2> QED
    BY <2>1, FeeTyped
<1>4. /\ DOMAIN t = TradeFields /\ t.side = side /\ t.entry = price /\ t.fill = FillPrice(price, side)
      /\ t.qty = n /\ t.fees = FeeOf(n * FillPrice(price, side)) /\ t.slip = n * Slip(price)
      /\ t.stop = price - side * distance /\ t.target = price + side * reward
      /\ t.runner = FALSE /\ t.at = minute
  BY DEF Entered, TradeFields
<1> HIDE DEF reward
<1>5. t.stop \in Int /\ t.target \in Int /\ t.at \in Int
  BY <1>1, <1>4
<1>6. t.side * (t.stop - t.entry) <= 0 /\ t.side * (t.target - t.entry) >= 0
  <2>1. CASE side = 1
    BY <1>1, <1>4, <2>1
  <2>2. CASE side = -1
    BY <1>1, <1>4, <2>2
  <2> QED
    BY <2>1, <2>2
<1>7. {t.stop, t.target, t.at} \subseteq Int /\ t.fees \in Int /\ ~t.runner /\ t.runner \in BOOLEAN
  BY <1>3, <1>4, <1>5
<1> QED
  BY <1>4, <1>6, <1>7 DEF Trading

(* What a row does: the trade of its symbol leaves, or what is left of it  *)
(* stays; after that the gate may let a new one of the symbol in.          *)
Left(s, r) ==
  /\ trades' = [trades EXCEPT ![s] = r.trade] /\ entries' = entries
  /\ money' = money + r.money
Opened(s, r, t) ==
  /\ Trading(t) /\ r.trade = NoTrade /\ s \notin ended'
  /\ trades' = [trades EXCEPT ![s] = t] /\ entries' = entries + 1
  /\ money' = money + r.money - Spent(t)
  /\ LET open == UnrealizedIn([trades EXCEPT ![s] = NoTrade], marks')
     IN  Starting + net' + open > 0 /\ ~DailyLossReached(netToday' + open, dayStart')

RowDoes(s, r) ==
  /\ s \notin ended /\ Reckoned(r)
  /\ r.net - Spent(r.trade) - r.money = -Spent(trades[s])
  /\ trades[s] = NoTrade => r.trade = NoTrade /\ r.net = 0
  /\ r.trade # trades[s] => r.gross >= Gain(trades[s], trades[s].stop) * trades[s].qty
  /\ r.trade # NoTrade => s \notin ended'
  /\ seen' = seen \cup {s} /\ (ended' = ended \/ ended' = ended \cup {s})
  /\ marks' \in [Tickers -> Nat] /\ minute' = minute
  /\ net' = net + r.net /\ netToday' = netToday + r.net /\ gross' = gross + r.gross
  /\ dayStart' = IF seen = {} THEN Equity(Starting + net + r.net) ELSE dayStart
  /\ Left(s, r) \/ \E t : Opened(s, r, t)

(* A row acts on the ticker at its place, and nothing else is done.        *)
LEMMA RowEffect ==
  ASSUME ReplayInv, NEW i \in DOMAIN SymbolOrder, NEW b \in Candles, NEW last \in BOOLEAN,
         NEW side \in {-1, 0, 1}, Row(i, b, last, side)
  PROVE  SymbolOrder[i] \in Tickers /\ place' = i /\ \E r : RowDoes(SymbolOrder[i], r)
<1> DEFINE s  == SymbolOrder[i]
           distance == IF side = 1 THEN b.long ELSE b.short
           r  == IF trades[s] = NoTrade
                 THEN [trade |-> NoTrade, net |-> 0, gross |-> 0, money |-> 0]
                 ELSE AfterRow(trades[s], b, minute, last)
           ts == [trades EXCEPT ![s] = r.trade]
           start == IF seen = {} THEN Equity(Starting + net + r.net) ELSE dayStart
           ms == [marks EXCEPT ![s] = b.close]
           a  == Portfolio(ts, ms, net + r.net, netToday + r.net, start, s)
           d  == IF side = 0 \/ distance = 0 THEN Rejected
                 ELSE DecideFlat(a, side = 1, b.close, distance, 100)
           t  == Entered(side, b.close, distance, d.quantity)
           opens == Opens(d, last)
<1>1. /\ s \notin ended /\ place' = i
      /\ seen' = seen \cup {s} /\ ended' = (IF last THEN ended \cup {s} ELSE ended)
      /\ marks' = ms /\ trades' = (IF opens THEN [ts EXCEPT ![s] = t] ELSE ts)
      /\ net' = net + r.net /\ netToday' = netToday + r.net /\ gross' = gross + r.gross
      /\ entries' = (IF opens THEN entries + 1 ELSE entries)
      /\ dayStart' = start /\ minute' = minute
      /\ money' = money + r.money - (IF opens THEN side * t.qty * t.fill + t.fees ELSE 0)
  BY DEF Row
<1>2. s \in Tickers
  BY DEF Tickers
<1>3. Bar(b) /\ b.close \in Nat \ {0} /\ b.long \in Nat /\ b.short \in Nat
  BY RowsAreBars DEF Bar
<1>4. /\ minute \in Nat /\ entries \in Nat /\ net \in Int /\ gross \in Int /\ netToday \in Int
      /\ dayStart \in Int /\ money \in Int /\ marks \in [Tickers -> Nat] /\ DOMAIN trades = Tickers
      /\ \A x \in Tickers : trades[x] = NoTrade \/ Trading(trades[x])
  BY DEF ReplayInv, ReplayTyped
<1>5. /\ Reckoned(r) /\ r.net - Spent(r.trade) - r.money = -Spent(trades[s])
      /\ trades[s] = NoTrade => r.trade = NoTrade /\ r.net = 0
      /\ r.trade # trades[s] => r.gross >= Gain(trades[s], trades[s].stop) * trades[s].qty
      /\ last => r.trade = NoTrade
  <2>1. CASE trades[s] = NoTrade
    <3>1. r.trade = NoTrade /\ r.net = 0 /\ r.gross = 0 /\ r.money = 0
      BY <2>1
    <3>2. Spent(NoTrade) = 0
      BY DEF Spent
    <3> HIDE DEF r
    <3>3. Reckoned(r)
      BY <3>1 DEF Reckoned
    <3>4. Spent(r.trade) = 0 /\ Spent(trades[s]) = 0
      BY <2>1, <3>1, <3>2
    <3>7. r.net - Spent(r.trade) - r.money = -Spent(trades[s])
      <4>1. PICK x \in Int : x = Spent(trades[s])
        BY <3>4
      <4>2. Spent(r.trade) = x
        BY <2>1, <3>1, <4>1
      <4>3. 0 - x - 0 = -x
        BY <4>1
      <4> QED
        BY <3>1, <4>1, <4>2, <4>3
    <3> QED
      BY <2>1, <3>1, <3>3, <3>7
  <2>2. CASE trades[s] # NoTrade
    <3>1. Trading(trades[s]) /\ r = AfterRow(trades[s], b, minute, last)
      BY <1>2, <1>4, <2>2
    <3> HIDE DEF r
    <3> QED
      BY <1>3, <2>2, <3>1, RowSound
  <2> QED
    BY <2>1, <2>2
<1> HIDE DEF r, s
<1>6. ms \in [Tickers -> Nat] /\ ms[s] = b.close
  BY <1>2, <1>3, <1>4
<1>7. start \in Int
  <2>1. Starting \in Int
    <3>1. {TargetPct, MaxHolding, Starting} \subseteq Nat \ {0}
      BY ReplayAssumption
    <3> QED
      BY <3>1
  <2>2. r.net \in Int
    BY <1>5 DEF Reckoned
  <2>3. Starting + net + r.net \in Int
    BY <1>4, <2>1, <2>2
  <2> QED
    BY <1>4, <2>3, EquityTyped
<1>8. DOMAIN ts = Tickers /\ ts[s] = r.trade /\ \A x \in Tickers : ts[x] = NoTrade \/ Trading(ts[x])
  <2>1. r.trade = NoTrade \/ Trading(r.trade)
    BY <1>5 DEF Reckoned
  <2> QED
    BY <1>2, <1>4, <2>1
<1>9. ASSUME ~opens PROVE RowDoes(s, r)
  <2>1. trades' = ts /\ entries' = entries /\ money' = money + r.money - 0
    BY <1>1, <1>9
  <2>2. money' = money + r.money
    BY <1>4, <1>5, <2>1 DEF Reckoned
  <2>3. Left(s, r)
    BY <2>1, <2>2 DEF Left
  <2>4. r.trade # NoTrade => s \notin ended'
    BY <1>1, <1>5
  <2> HIDE DEF ts, start, ms, opens
  <2>5. /\ ended' = ended \/ ended' = ended \cup {s}
        /\ marks' \in [Tickers -> Nat]
    BY <1>1, <1>6
  <2>6. dayStart' = IF seen = {} THEN Equity(Starting + net + r.net) ELSE dayStart
    BY <1>1 DEF start
  <2> QED
    BY <1>1, <1>5, <2>3, <2>4, <2>5, <2>6 DEF RowDoes
<1>10. ASSUME opens PROVE RowDoes(s, r)
  <2>1. d.approved /\ ~last /\ side # 0 /\ distance # 0
    <3>1. d.approved /\ ~last
      BY <1>10 DEF Opens
    <3>2. ~Rejected.approved
      BY DEF Rejected
    <3> QED
      BY <3>1, <3>2
  <2>2. d = DecideFlat(a, side = 1, b.close, distance, 100)
    BY <2>1
  <2>3. side \in {-1, 1} /\ distance \in Nat \ {0}
    BY <1>3, <2>1
  <2> DEFINE open == UnrealizedIn(ts, ms)
             sum == Starting + (net + r.net) + open
  <2>4. open \in Int /\ GrossIn(ts, ms) \in Int
    BY <1>6, <1>8, UnrealizedTyped
  <2>5. sum \in Int
    <3>1. Starting \in Int
      <4>1. {TargetPct, MaxHolding, Starting} \subseteq Nat \ {0}
        BY ReplayAssumption
      <4> QED
        BY <4>1
    <3>2. r.net \in Int
      BY <1>5 DEF Reckoned
    <3> HIDE DEF open
    <3> QED
      BY <1>4, <2>4, <3>1, <3>2
  <2>6. /\ a.equity = Equity(sum) /\ a.gross = GrossIn(ts, ms) /\ a.cash = Equity(sum) * ms[s]
        /\ a.held = (ts[s] # NoTrade) /\ a.pnl = netToday + r.net + open /\ a.dayStart = start
    BY DEF Portfolio
  <2> HIDE DEF a, sum, open
  <2>7. a.equity \in Nat /\ a.gross \in Int /\ a.cash \in Int /\ (a.equity > 0 => sum > 0)
    <3>1. Equity(sum) \in Nat /\ (Equity(sum) > 0 => sum > 0)
      BY <2>5, EquityTyped
    <3>2. Equity(sum) * ms[s] \in Int
      BY <1>3, <1>6, <3>1
    <3> QED
      BY <2>4, <2>6, <3>1, <3>2
  <2> HIDE DEF distance, ms, d
  <2>8. /\ d.quantity \in Nat \ {0} /\ ~a.held /\ a.equity > 0
        /\ ~DailyLossReached(a.pnl, a.dayStart)
    BY <1>3, <2>1, <2>2, <2>3, <2>7, GateOpens
  <2>9. ts[s] = NoTrade /\ r.trade = NoTrade
    BY <1>8, <2>6, <2>8
  <2>10. Trading(t)
    BY <1>3, <1>4, <2>3, <2>8, EnteredTrading
  <2> HIDE DEF t
  <2>11. trades' = [trades EXCEPT ![s] = t] /\ entries' = entries + 1
    <3>1. trades' = [ts EXCEPT ![s] = t] /\ entries' = entries + 1
      BY <1>1, <1>10
    <3>2. [ts EXCEPT ![s] = t] = [trades EXCEPT ![s] = t]
      BY <1>2, <1>4
    <3> QED
      BY <3>1, <3>2
  <2>12. money' = money + r.money - Spent(t)
    <3>1. Spent(t) = t.side * t.fill * t.qty + t.fees /\ t.fill \in Int
      BY <2>10, TradingTyped
    <3>2. t.side = side /\ t.qty \in Int
      BY <2>10 DEF Trading, Entered, t
    <3>3. side * t.qty * t.fill = t.side * t.fill * t.qty
      BY <2>3, <3>1, <3>2
    <3>4. money' = money + r.money - (side * t.qty * t.fill + t.fees)
      BY <1>1, <1>10
    <3> QED
      BY <3>1, <3>3, <3>4
  <2>13. ts = [trades EXCEPT ![s] = NoTrade]
    BY <2>9
  <2>14. /\ open = UnrealizedIn([trades EXCEPT ![s] = NoTrade], marks')
         /\ Starting + net' + open > 0 /\ ~DailyLossReached(netToday' + open, dayStart')
    <3>1. open = UnrealizedIn([trades EXCEPT ![s] = NoTrade], marks')
      BY <1>1, <2>13 DEF open
    <3>2. Starting + net' + open > 0
      BY <1>1, <2>7, <2>8 DEF sum
    <3>3. ~DailyLossReached(netToday' + open, dayStart')
      BY <1>1, <2>6, <2>8
    <3> QED
      BY <3>1, <3>2, <3>3
  <2>15. s \notin ended' /\ ended' = ended
    BY <1>1, <2>1
  <2>16. Opened(s, r, t)
    BY <2>9, <2>10, <2>11, <2>12, <2>14, <2>15 DEF Opened
  <2>17. marks' \in [Tickers -> Nat]
    BY <1>1, <1>6
  <2>18. dayStart' = IF seen = {} THEN Equity(Starting + net + r.net) ELSE dayStart
    BY <1>1 DEF start
  <2> HIDE DEF ts, start, opens
  <2>19. s \notin ended /\ seen' = seen \cup {s} /\ minute' = minute
         /\ net' = net + r.net /\ netToday' = netToday + r.net /\ gross' = gross + r.gross
    BY <1>1
  <2> QED
    BY <1>5, <2>15, <2>16, <2>17, <2>18, <2>19 DEF RowDoes
<1> QED
  BY <1>1, <1>2, <1>9, <1>10 DEF s

(* What is spent on the open trades, added up.                             *)
SpentOn(ts) == SumFunctionOnSet([x \in Tickers |-> Spent(ts[x])], Tickers)

(* What is spent on a ticker is whole money.                               *)
LEMMA SpentTyped ==
  ASSUME NEW t, t = NoTrade \/ Trading(t)
  PROVE  Spent(t) \in Int
BY TradingTyped DEF Spent

(* A sum of which one term changes.                                        *)
LEMMA TermChanged ==
  ASSUME NEW S, IsFiniteSet(S), NEW f \in [S -> Int], NEW h \in [S -> Int],
         NEW x \in S, \A y \in S \ {x} : h[y] = f[y]
  PROVE  SumFunctionOnSet(h, S) = SumFunctionOnSet(f, S) - f[x] + h[x]
<1>1. S \in SUBSET S
  OBVIOUS
<1>2. ASSUME NEW T \in SUBSET S, x \in T, \A y \in T \ {x} : h[y] = f[y]
      PROVE  SumFunctionOnSet(h, T) = SumFunctionOnSet(f, T) - f[x] + h[x]
  BY <1>2, SumChanged
<1> QED
  BY <1>1, <1>2

(* What is spent on all tickers changes with the trade of one.             *)
LEMMA SpentMoves ==
  ASSUME \A x \in Tickers : trades[x] = NoTrade \/ Trading(trades[x]), DOMAIN trades = Tickers,
         NEW s \in Tickers, NEW t, t = NoTrade \/ Trading(t), trades' = [trades EXCEPT ![s] = t]
  PROVE  /\ SpentOn(trades) \in Int
         /\ SpentOn(trades') = SpentOn(trades) - Spent(trades[s]) + Spent(t)
<1>1. \A x \in Tickers : Spent(trades[x]) \in Int
  BY SpentTyped
<1>2. /\ trades'[s] = t /\ \A x \in Tickers \ {s} : trades'[x] = trades[x]
  OBVIOUS
<1>3. \A x \in Tickers : Spent(trades'[x]) \in Int
  <2>1. Spent(t) \in Int
    BY SpentTyped
  <2> QED
    BY <1>1, <1>2, <2>1
<1>4. PICK f \in [Tickers -> Int] : f = [x \in Tickers |-> Spent(trades[x])]
  BY <1>1
<1>5. PICK g \in [Tickers -> Int] : g = [x \in Tickers |-> Spent(trades'[x])]
  BY <1>3
<1>6. f[s] = Spent(trades[s]) /\ g[s] = Spent(t) /\ \A y \in Tickers \ {s} : g[y] = f[y]
  BY <1>2, <1>4, <1>5
<1>7. SpentOn(trades) = SumFunctionOnSet(f, Tickers)
  BY <1>4 DEF SpentOn
<1>8. SpentOn(trades') = SumFunctionOnSet(g, Tickers)
  BY <1>5 DEF SpentOn
<1>9. SumFunctionOnSet(g, Tickers) = SumFunctionOnSet(f, Tickers) - f[s] + g[s]
  BY <1>4, <1>5, <1>6, TickersFinite, TermChanged
<1>10. SumFunctionOnSet(f, Tickers) \in Int
  <2>1. Tickers \in SUBSET Tickers
    OBVIOUS
  <2> QED
    BY <1>4, <2>1, TickersFinite, SumTaken
<1> QED
  BY <1>6, <1>7, <1>8, <1>9, <1>10

(* EquityAccounted in terms of SpentOn, before a step and after it.        *)
LEMMA Accounts ==
  /\ EquityAccounted <=> net - SpentOn(trades) = money
  /\ EquityAccounted' <=> net' - SpentOn(trades') = money'
BY DEF EquityAccounted, SpentOn, SumFunction

(* The books stay in order over a row.                                     *)
LEMMA RowKeepsTypes ==
  ASSUME ReplayInv, NEW s \in Tickers, NEW r, RowDoes(s, r)
  PROVE  ReplayTyped' /\ DayKept'
<1>1. /\ minute \in Nat /\ entries \in Nat /\ net \in Int /\ gross \in Int /\ netToday \in Int
      /\ dayStart \in Int /\ money \in Int /\ DOMAIN trades = Tickers
      /\ seen \subseteq Tickers /\ ended \subseteq seen
      /\ \A x \in Tickers : trades[x] = NoTrade \/ Trading(trades[x])
  BY DEF ReplayInv, ReplayTyped
<1>2. /\ r.net \in Int /\ r.gross \in Int /\ r.money \in Int /\ (r.trade = NoTrade \/ Trading(r.trade))
  BY DEF RowDoes, Reckoned
<1>3. /\ seen' = seen \cup {s} /\ (ended' = ended \/ ended' = ended \cup {s})
      /\ marks' \in [Tickers -> Nat] /\ minute' = minute
      /\ net' = net + r.net /\ netToday' = netToday + r.net /\ gross' = gross + r.gross
      /\ dayStart' = (IF seen = {} THEN Equity(Starting + net + r.net) ELSE dayStart)
      /\ trades[s] = NoTrade => r.net = 0
      /\ s \notin ended /\ (r.trade # NoTrade => s \notin ended')
  BY DEF RowDoes
<1>4. Starting \in Int
  <2>1. {TargetPct, MaxHolding, Starting} \subseteq Nat \ {0}
    BY ReplayAssumption
  <2> QED
    BY <2>1
<1>5. PICK t : /\ t = NoTrade \/ Trading(t)
               /\ (t # NoTrade => s \notin ended')
               /\ trades' = [trades EXCEPT ![s] = t]
               /\ entries' \in Nat /\ money' \in Int
  <2>1. CASE Left(s, r)
    <3>1. trades' = [trades EXCEPT ![s] = r.trade] /\ entries' = entries /\ money' = money + r.money
      BY <2>1 DEF Left
    <3>2. entries' \in Nat /\ money' \in Int
      BY <1>1, <1>2, <3>1
    <3>3. (r.trade = NoTrade \/ Trading(r.trade)) /\ (r.trade # NoTrade => s \notin ended')
      BY <1>2, <1>3
    <3> QED
      BY <3>1, <3>2, <3>3
  <2>2. ASSUME NEW t, Opened(s, r, t) PROVE entries' \in Nat /\ money' \in Int
    <3>1. Spent(t) \in Int
      BY <2>2, SpentTyped DEF Opened
    <3> QED
      BY <1>1, <1>2, <2>2, <3>1 DEF Opened
  <2>3. ASSUME NEW t, Opened(s, r, t) PROVE Trading(t) /\ s \notin ended' /\ trades' = [trades EXCEPT ![s] = t]
    BY <2>3 DEF Opened
  <2>4. Left(s, r) \/ \E t : Opened(s, r, t)
    BY DEF RowDoes
  <2> QED
    BY <2>1, <2>2, <2>3, <2>4
<1>6. DOMAIN trades' = Tickers /\ \A x \in Tickers : trades'[x] = NoTrade \/ Trading(trades'[x])
  BY <1>1, <1>5
<1>7. dayStart' \in Int /\ net' \in Int /\ gross' \in Int /\ netToday' \in Int
  <2>1. Starting + net + r.net \in Int
    BY <1>1, <1>2, <1>4
  <2>2. Equity(Starting + net + r.net) \in Int
    BY <2>1, EquityTyped
  <2> QED
    BY <1>1, <1>2, <1>3, <2>2
<1>8. ReplayTyped'
  <2>1. seen' \subseteq Tickers /\ ended' \subseteq seen'
    BY <1>1, <1>3
  <2>2. {net, gross, netToday, dayStart, money}' \subseteq Int
    BY <1>5, <1>7
  <2> QED
    BY <1>1, <1>3, <1>5, <1>6, <2>1, <2>2 DEF ReplayTyped
<1>9. \A x \in Tickers : trades[x] # NoTrade => x \in seen \ ended
  BY DEF ReplayInv, DayKept
<1>10. \A x \in Tickers : trades'[x] # NoTrade => x \in seen' \ ended'
  <2> SUFFICES ASSUME NEW x \in Tickers, trades'[x] # NoTrade PROVE x \in seen' \ ended'
    OBVIOUS
  <2>1. CASE x = s
    BY <1>1, <1>3, <1>5, <2>1
  <2>2. CASE x # s
    BY <1>1, <1>3, <1>5, <1>9, <2>2
  <2> QED
    BY <2>1, <2>2
<1>11. seen' # {} /\ dayStart' = Equity(Starting + net' - netToday')
  <2>1. CASE seen = {}
    <3>1. trades[s] = NoTrade /\ netToday = 0
      BY <1>9, <2>1 DEF ReplayInv, DayKept
    <3>2. r.net = 0
      BY <1>3, <3>1
    <3>3. Starting + net + r.net = Starting + net' - netToday'
      BY <1>1, <1>3, <1>4, <3>1, <3>2
    <3> QED
      BY <1>3, <2>1, <3>3
  <2>2. CASE seen # {}
    <3>1. dayStart = Equity(Starting + net - netToday)
      BY <2>2 DEF ReplayInv, DayKept
    <3>2. Starting + net - netToday = Starting + net' - netToday'
      BY <1>1, <1>2, <1>3, <1>4
    <3> QED
      BY <1>3, <2>2, <3>1, <3>2
  <2> QED
    BY <1>3, <2>1, <2>2
<1>12. DayKept'
  BY <1>10, <1>11 DEF DayKept
<1> QED
  BY <1>8, <1>12

(* A row takes from the books what it brings in money, and so keeps the    *)
(* account.                                                                *)
LEMMA RowKeepsEquity ==
  ASSUME ReplayInv, NEW s \in Tickers, NEW r, RowDoes(s, r)
  PROVE  EquityAccounted'
<1>1. /\ net \in Int /\ money \in Int /\ DOMAIN trades = Tickers
      /\ \A x \in Tickers : trades[x] = NoTrade \/ Trading(trades[x])
  BY DEF ReplayInv, ReplayTyped
<1>2. /\ r.net \in Int /\ r.money \in Int /\ (r.trade = NoTrade \/ Trading(r.trade))
      /\ net' = net + r.net
      /\ r.net - Spent(r.trade) - r.money = -Spent(trades[s])
  BY DEF RowDoes, Reckoned
<1>3. net - SpentOn(trades) = money
  BY Accounts DEF ReplayInv
<1>4. Spent(trades[s]) \in Int /\ Spent(r.trade) \in Int
  BY <1>1, <1>2, SpentTyped
<1>5. ASSUME NEW t, t = NoTrade \/ Trading(t), trades' = [trades EXCEPT ![s] = t],
             money' = money + r.money + Spent(r.trade) - Spent(t)
      PROVE  net' - SpentOn(trades') = money'
  <2>1. SpentOn(trades) \in Int /\ SpentOn(trades') = SpentOn(trades) - Spent(trades[s]) + Spent(t)
    BY <1>1, <1>5, SpentMoves
  <2>2. Spent(t) \in Int
    BY <1>5, SpentTyped
  <2> QED
    BY <1>1, <1>2, <1>3, <1>4, <1>5, <2>1, <2>2
<1>6. CASE Left(s, r)
  <2>1. trades' = [trades EXCEPT ![s] = r.trade] /\ money' = money + r.money
    BY <1>6 DEF Left
  <2>2. money' = money + r.money + Spent(r.trade) - Spent(r.trade)
    BY <1>1, <1>2, <1>4, <2>1
  <2> QED
    BY <1>2, <1>5, <2>1, <2>2, Accounts
<1>7. ASSUME NEW t, Opened(s, r, t) PROVE EquityAccounted'
  <2>1. /\ Trading(t) /\ r.trade = NoTrade /\ trades' = [trades EXCEPT ![s] = t]
        /\ money' = money + r.money - Spent(t)
    BY <1>7 DEF Opened
  <2>2. Spent(r.trade) = 0 /\ Spent(t) \in Int
    BY <2>1, SpentTyped DEF Spent
  <2>3. money' = money + r.money + Spent(r.trade) - Spent(t)
    BY <1>1, <1>2, <2>1, <2>2
  <2> QED
    BY <1>5, <2>1, <2>3, Accounts
<1> QED
  BY <1>6, <1>7 DEF RowDoes

(* A row keeps the inductive invariant of the replay.                      *)
LEMMA RowKeeps ==
  ASSUME ReplayInv, NEW i \in DOMAIN SymbolOrder, NEW b \in Candles, NEW last \in BOOLEAN,
         NEW side \in {-1, 0, 1}, Row(i, b, last, side)
  PROVE  ReplayInv'
<1>1. PICK s \in Tickers : \E r : RowDoes(s, r)
  BY RowEffect
<1>2. PICK r : RowDoes(s, r)
  BY <1>1
<1>3. ReplayTyped' /\ DayKept'
  BY <1>2, RowKeepsTypes
<1>4. EquityAccounted'
  BY <1>2, RowKeepsEquity
<1> QED
  BY <1>3, <1>4 DEF ReplayInv

(* Between the rows of two timestamps, and of two days, nothing is traded; *)
(* at the end of a day nothing is open.                                    *)
LEMMA ClockKeeps ==
  ASSUME ReplayInv, NextMinute \/ NextDay
  PROVE  ReplayInv'
<1>1. /\ trades' = trades /\ marks' = marks /\ net' = net /\ gross' = gross
      /\ dayStart' = dayStart /\ money' = money /\ minute' = minute + 1
  BY DEF NextMinute, NextDay
<1>2. EquityAccounted'
  BY <1>1, Accounts DEF ReplayInv
<1>3. CASE NextMinute
  <2>1. seen' = seen /\ ended' = ended /\ netToday' = netToday /\ entries' = entries
    BY <1>3 DEF NextMinute
  <2>2. ReplayTyped'
    BY <1>1, <2>1 DEF ReplayInv, ReplayTyped
  <2>3. DayKept'
    BY <1>1, <2>1 DEF ReplayInv, DayKept
  <2> QED
    BY <1>2, <2>2, <2>3 DEF ReplayInv
<1>4. CASE NextDay
  <2>1. seen = ended /\ seen' = {} /\ ended' = {} /\ netToday' = 0 /\ entries' = 0
    BY <1>4 DEF NextDay
  <2>2. ReplayTyped'
    BY <1>1, <2>1 DEF ReplayInv, ReplayTyped
  <2>3. \A s \in Tickers : trades[s] = NoTrade
    BY <2>1 DEF ReplayInv, DayKept
  <2>4. DayKept'
    BY <1>1, <2>1, <2>3 DEF DayKept
  <2> QED
    BY <1>2, <2>2, <2>4 DEF ReplayInv
<1> QED
  BY <1>3, <1>4

(* The inductive invariant holds before the first row.                     *)
LEMMA ReplayStarts ==
  ASSUME ReplayInit
  PROVE  ReplayInv
<1>1. /\ minute = 0 /\ seen = {} /\ ended = {} /\ net = 0 /\ gross = 0 /\ netToday = 0
      /\ entries = 0 /\ dayStart = Starting /\ money = 0
      /\ trades = [s \in Tickers |-> NoTrade] /\ marks = [s \in Tickers |-> 0]
  BY DEF ReplayInit
<1>2. Starting \in Int
  <2>1. {TargetPct, MaxHolding, Starting} \subseteq Nat \ {0}
    BY ReplayAssumption
  <2> QED
    BY <2>1
<1>3. ReplayTyped
  <2>1. {net, gross, netToday, dayStart, money} \subseteq Int
    BY <1>1, <1>2
  <2> QED
    BY <1>1, <2>1 DEF ReplayTyped
<1>4. DayKept
  BY <1>1 DEF DayKept
<1>5. SpentOn(trades) = 0
  <2>1. Spent(NoTrade) = 0
    BY DEF Spent
  <2>2. PICK f \in [Tickers -> Int] : f = [x \in Tickers |-> Spent(trades[x])] /\ \A x \in Tickers : f[x] = 0
    BY <1>1, <2>1
  <2>3. SumFunctionOnSet(f, Tickers) = 0
    BY <2>2, TickersFinite, SumOfZeros
  <2> QED
    BY <2>2, <2>3 DEF SpentOn
<1>6. EquityAccounted
  <2>1. net - SpentOn(trades) = money
    BY <1>1, <1>5
  <2> QED
    BY <2>1, Accounts
<1> QED
  BY <1>3, <1>4, <1>6 DEF ReplayInv

(* The experiment moves the replay only by the replay's own steps.         *)
LEMMA ReplayMoves ==
  ASSUME [ExperimentNext]_experimentVars
  PROVE  [ReplayNext]_replayVars
<1>1. CASE UNCHANGED experimentVars
  BY <1>1 DEF experimentVars
<1>2. CASE Grow
  BY <1>2 DEF Grow
<1>3. CASE Execute
  BY <1>3 DEF Execute
<1>4. CASE Backtest
  BY <1>4 DEF Backtest
<1>5. ASSUME NEW answers \in BOOLEAN, EvaluateOOS(answers) \/ EvaluateFold(answers)
      PROVE  UNCHANGED replayVars
  BY <1>5 DEF EvaluateOOS, EvaluateFold
<1>6. CASE Record
  BY <1>6 DEF Record
<1> QED
  BY <1>1, <1>2, <1>3, <1>4, <1>5, <1>6 DEF ExperimentNext

(* Every step of the replay keeps the inductive invariant.                 *)
LEMMA ReplayStep ==
  ASSUME ReplayInv, [ReplayNext]_replayVars
  PROVE  ReplayInv'
<1>1. CASE UNCHANGED replayVars
  <2>1. ReplayTyped' /\ DayKept'
    BY <1>1 DEF ReplayInv, ReplayTyped, DayKept, replayVars
  <2>2. net' = net /\ trades' = trades /\ money' = money
    BY <1>1 DEF replayVars
  <2>3. EquityAccounted'
    BY <2>2, Accounts DEF ReplayInv
  <2> QED
    BY <2>1, <2>3 DEF ReplayInv
<1>2. CASE NextMinute \/ NextDay
  BY <1>2, ClockKeeps
<1>3. ASSUME NEW i \in DOMAIN SymbolOrder, NEW b \in Candles, NEW last \in BOOLEAN,
             NEW side \in {-1, 0, 1}, Row(i, b, last, side)
      PROVE  ReplayInv'
  BY <1>3, RowKeeps
<1> QED
  BY <1>1, <1>2, <1>3 DEF ReplayNext

(* Whatever the rows, the sides chosen, the rates and the number of        *)
(* tickers: nothing is open over night, and equity is the starting equity  *)
(* plus what the fills and fees really left (replay.py: _execute, _close,  *)
(* _portfolio_state).                                                      *)
THEOREM ReplayAlwaysAccounted == ExperimentSpec => []ReplayAccounted
<1>1. ExperimentInit => ReplayInv
  BY ReplayStarts DEF ExperimentInit
<1>2. ReplayInv /\ [ExperimentNext]_experimentVars => ReplayInv'
  BY ReplayMoves, ReplayStep
<1>3. ReplayInv => ReplayAccounted
  <2>1. ASSUME ReplayInv PROVE FlatOvernight
    BY <2>1 DEF ReplayInv, ReplayTyped, DayKept, FlatOvernight
  <2> QED
    BY <2>1 DEF ReplayInv, ReplayAccounted
<1> QED
  BY <1>1, <1>2, <1>3, PTL DEF ExperimentSpec

-----------------------------------------------------------------------------
(* The limits on loss                                                      *)

LossLimited ==
  /\ \A s \in Tickers : trades[s] # NoTrade /\ trades'[s] # trades[s] =>
       gross' - gross >= trades[s].side * (trades[s].stop - trades[s].entry) * trades[s].qty
  /\ entries' > entries =>
       LET held == [trades' EXCEPT ![SymbolOrder[place']] = NoTrade]
           worth == Starting + net' + UnrealizedIn(held, marks')
       IN  100 * (worth - dayStart') > -(dayStart' * DailyLossPct)

(* What a row takes out of its trade is not less than its stop.            *)
LEMMA RowStops ==
  ASSUME ReplayInv, NEW s \in Tickers, NEW r, RowDoes(s, r), NEW x \in Tickers,
         trades[x] # NoTrade, trades'[x] # trades[x]
  PROVE  gross' - gross >= trades[x].side * (trades[x].stop - trades[x].entry) * trades[x].qty
<1>1. DOMAIN trades = Tickers /\ gross \in Int /\ Trading(trades[x])
  BY DEF ReplayInv, ReplayTyped
<1>2. x = s
  BY <1>1 DEF RowDoes, Left, Opened
<1>3. r.trade # trades[s]
  BY <1>1, <1>2 DEF RowDoes, Left, Opened
<1>4. r.gross >= Gain(trades[s], trades[s].stop) * trades[s].qty /\ gross' = gross + r.gross /\ r.gross \in Int
  BY <1>3 DEF RowDoes, Reckoned
<1>5. gross' - gross = r.gross
  BY <1>1, <1>4
<1> QED
  BY <1>2, <1>4, <1>5 DEF Gain

(* A row that opens a trade does so above the limit of the day.            *)
LEMMA AboveTheLimit ==
  ASSUME NEW base \in Int, NEW today \in Int, NEW open \in Int, NEW start \in Int,
         start = Equity(base - today), base + open > 0, ~DailyLossReached(today + open, start)
  PROVE  100 * (base + open - start) > -(start * DailyLossPct)
<1>1. DailyLossPct \in Nat
  <2>1. {RiskPct, DailyLossPct, GrossPct} \subseteq 1..100
    BY RiskAssumption
  <2> QED
    BY <2>1
<1>2. PICK limit \in Int : limit = start * DailyLossPct
  BY <1>1
<1>3. 100 * (today + open) > -limit
  BY <1>2 DEF DailyLossReached
<1>4. CASE base - today > 0
  <2>1. start = base - today
    BY <1>4 DEF Equity
  <2>2. base + open - start = today + open
    BY <2>1
  <2> QED
    BY <1>2, <1>3, <2>2
<1>5. CASE ~(base - today > 0)
  <2>1. start = 0
    BY <1>5 DEF Equity
  <2>2. limit = 0 /\ base + open - start > 0
    BY <1>1, <1>2, <2>1
  <2>3. 100 * (base + open - start) > -limit
    BY <2>2
  <2> QED
    BY <1>2, <2>3
<1> QED
  BY <1>4, <1>5

Above(worth, start) == 100 * (worth - start) > -(start * DailyLossPct)

(* A row that opens a trade was let through by the gate: the equity it was *)
(* shown, without the trade, stands above the daily limit.                 *)
LEMMA RowOpens ==
  ASSUME ReplayInv, NEW i \in DOMAIN SymbolOrder, place' = i, NEW r, RowDoes(SymbolOrder[i], r),
         SymbolOrder[i] \in Tickers, entries' > entries
  PROVE  LET held == [trades' EXCEPT ![SymbolOrder[place']] = NoTrade]
             worth == Starting + net' + UnrealizedIn(held, marks')
         IN  Above(worth, dayStart')
<1> DEFINE s == SymbolOrder[i]
<1>1. DOMAIN trades = Tickers /\ entries \in Nat
      /\ \A x \in Tickers : trades[x] = NoTrade \/ Trading(trades[x])
  BY DEF ReplayInv, ReplayTyped
<1>2. ReplayTyped' /\ DayKept'
  BY RowKeepsTypes
<1>3. PICK t : Opened(s, r, t)
  BY <1>1 DEF RowDoes, Left
<1>4. trades' = [trades EXCEPT ![s] = t]
      /\ LET open == UnrealizedIn([trades EXCEPT ![s] = NoTrade], marks')
         IN  Starting + net' + open > 0 /\ ~DailyLossReached(netToday' + open, dayStart')
  BY <1>3 DEF Opened
<1>5. PICK none : none = [trades EXCEPT ![s] = NoTrade]
  OBVIOUS
<1>6. [trades' EXCEPT ![SymbolOrder[place']] = NoTrade] = none
  BY <1>1, <1>4, <1>5
<1>7. UnrealizedIn(none, marks') \in Int
  <2>1. \A x \in Tickers : none[x] = NoTrade \/ Trading(none[x])
    BY <1>1, <1>5
  <2>2. PICK m \in [Tickers -> Nat] : m = marks'
    BY <1>2 DEF ReplayTyped
  <2> QED
    BY <2>1, <2>2, UnrealizedTyped
<1>8. Starting \in Int /\ net' \in Int /\ netToday' \in Int /\ dayStart' \in Int
  <2>1. {TargetPct, MaxHolding, Starting} \subseteq Nat \ {0}
    BY ReplayAssumption
  <2>2. {net, gross, netToday, dayStart, money}' \subseteq Int
    BY <1>2 DEF ReplayTyped
  <2> QED
    BY <2>1, <2>2
<1>9. dayStart' = Equity(Starting + net' - netToday')
  <2>1. seen' # {}
    BY DEF RowDoes
  <2> QED
    BY <1>2, <2>1 DEF DayKept
<1>10. PICK open \in Int : open = UnrealizedIn(none, marks')
  BY <1>7
<1>11. Starting + net' \in Int
  BY <1>8
<1>12. PICK base \in Int : base = Starting + net'
  BY <1>11
<1>13. PICK today \in Int : today = netToday'
  BY <1>8
<1>14. PICK start \in Int : start = dayStart'
  BY <1>8
<1>15. start = Equity(base - today)
  <2>1. base - today = Starting + net' - netToday'
    BY <1>8, <1>12, <1>13
  <2> QED
    BY <1>9, <1>14, <2>1
<1>16. base + open > 0 /\ ~DailyLossReached(today + open, start)
  <2>1. Starting + net' + UnrealizedIn(none, marks') > 0
        /\ ~DailyLossReached(netToday' + UnrealizedIn(none, marks'), dayStart')
    BY <1>4, <1>5
  <2> QED
    BY <1>10, <1>12, <1>13, <1>14, <2>1
<1>17. 100 * (base + open - start) > -(start * DailyLossPct)
  BY <1>10, <1>12, <1>13, <1>14, <1>15, <1>16, AboveTheLimit
<1>18. Starting + net' + UnrealizedIn(none, marks') = base + open
  BY <1>8, <1>10, <1>12
<1>19. Above(base + open, start)
  BY <1>17 DEF Above
<1>20. Above(Starting + net' + UnrealizedIn(none, marks'), dayStart')
  BY <1>14, <1>18, <1>19
<1> QED
  BY <1>6, <1>20

(* Every step of the replay is within both limits on loss.                 *)
LEMMA StepLimited ==
  ASSUME ReplayInv, [ReplayNext]_replayVars
  PROVE  [LossLimited]_replayVars
<1>1. CASE UNCHANGED replayVars
  BY <1>1
<1>2. CASE NextMinute \/ NextDay
  <2>1. trades' = trades
    BY <1>2 DEF NextMinute, NextDay
  <2>2. ~(entries' > entries)
    BY <1>2 DEF NextMinute, NextDay, ReplayInv, ReplayTyped
  <2> QED
    BY <2>1, <2>2 DEF LossLimited
<1>3. ASSUME NEW i \in DOMAIN SymbolOrder, NEW b \in Candles, NEW last \in BOOLEAN,
             NEW side \in {-1, 0, 1}, Row(i, b, last, side)
      PROVE  LossLimited
  <2>1. SymbolOrder[i] \in Tickers /\ place' = i
    BY <1>3, RowEffect
  <2>2. PICK r : RowDoes(SymbolOrder[i], r)
    BY <1>3, RowEffect
  <2>3. \A x \in Tickers : trades[x] # NoTrade /\ trades'[x] # trades[x] =>
          gross' - gross >= trades[x].side * (trades[x].stop - trades[x].entry) * trades[x].qty
    BY <2>1, <2>2, RowStops
  <2>4. ASSUME entries' > entries
        PROVE  LET held == [trades' EXCEPT ![SymbolOrder[place']] = NoTrade]
                   worth == Starting + net' + UnrealizedIn(held, marks')
               IN  Above(worth, dayStart')
    BY <2>1, <2>2, <2>4, RowOpens
  <2> QED
    BY <2>3, <2>4 DEF LossLimited, Above
<1> QED
  BY <1>1, <1>2, <1>3 DEF ReplayNext

(* Whatever the rows and the rates: a trade that leaves never earns less   *)
(* than at the stop it carried into the row, and no trade is opened below  *)
(* the day's loss limit.                                                   *)
THEOREM LossLimitsAlwaysHold == ExperimentSpec => LossLimitsHold
<1>1. ExperimentInit => ReplayInv
  BY ReplayStarts DEF ExperimentInit
<1>2. ReplayInv /\ [ExperimentNext]_experimentVars => ReplayInv'
  BY ReplayMoves, ReplayStep
<1>3. ReplayInv /\ [ExperimentNext]_experimentVars => [LossLimited]_replayVars
  BY ReplayMoves, StepLimited
<1>4. ExperimentSpec => [][LossLimited]_replayVars
  BY <1>1, <1>2, <1>3, PTL DEF ExperimentSpec
<1>5. [LossLimited]_replayVars =>
        [\A s \in Tickers : trades[s] # NoTrade /\ trades'[s] # trades[s] =>
           gross' - gross >= trades[s].side * (trades[s].stop - trades[s].entry) * trades[s].qty
          ]_replayVars
  BY DEF LossLimited
<1>6. [LossLimited]_replayVars =>
        [entries' > entries =>
           LET held == [trades' EXCEPT ![SymbolOrder[place']] = NoTrade]
               worth == Starting + net' + UnrealizedIn(held, marks')
           IN  100 * (worth - dayStart') > -(dayStart' * DailyLossPct)]_replayVars
  BY DEF LossLimited
<1>7. ExperimentSpec => StopsHold
  BY <1>4, <1>5, PTL DEF StopsHold
<1>8. ExperimentSpec => DayLossBlocks
  BY <1>4, <1>6, PTL DEF DayLossBlocks
<1> QED
  BY <1>7, <1>8 DEF LossLimitsHold

-----------------------------------------------------------------------------
(* The labels                                                              *)

Price(bar) ==
  /\ Bar(bar) /\ bar.long \in Nat /\ bar.short \in Nat /\ bar.time \in Nat
  /\ \A distance \in {bar.long, bar.short} \ {0} : distance * TargetPct >= 100

BarsInv ==
  /\ bars \in Seq(Range(bars))
  /\ \A i \in 1..Len(bars) : Price(bars[i])
  /\ \A i \in 1..(Len(bars) - 1) : bars[i + 1].time >= bars[i].time + 1
LabelsInv == BarsInv /\ dataset \subseteq Labelled

(* A bar of the history is appended behind the others, later than they     *)
(* are.                                                                    *)
LEMMA NextBarKeeps ==
  ASSUME BarsInv, NEW step \in Steps, NEW b \in Candles, NextBar(step, b)
  PROVE  /\ BarsInv' /\ Len(bars) \in Nat /\ Len(bars') = Len(bars) + 1
         /\ \A i \in 1..Len(bars) : bars'[i] = bars[i]
<1>1. step \in Nat \ {0}
  BY LabelsAssumption
<1> DEFINE n == Len(bars)
           bar == [time |-> (IF bars = <<>> THEN 0 ELSE bars[n].time) + step,
                   low |-> b.low, close |-> b.close, high |-> b.high,
                   long |-> b.long, short |-> b.short]
<1>2. bars' = Append(bars, bar)
  BY DEF NextBar
<1>3. /\ bars' \in Seq(Range(bars')) /\ n \in Nat /\ Len(bars') = n + 1 /\ bars'[n + 1] = bar
      /\ \A i \in 1..n : bars'[i] = bars[i]
  <2> HIDE DEF bar
  <2> QED
    BY <1>2, Appended DEF BarsInv
<1>4. bar.time \in Nat /\ (n # 0 => bar.time >= bars[n].time + 1)
  <2>1. CASE bars = <<>>
    BY <1>1, <2>1
  <2>2. CASE bars # <<>>
    <3>1. n \in 1..n
      BY <1>3, <2>2 DEF BarsInv
    <3>2. bars[n].time \in Nat
      BY <3>1 DEF BarsInv, Price
    <3> QED
      BY <1>1, <2>2, <3>2
  <2> QED
    BY <2>1, <2>2
<1>5. Price(bar)
  <2>1. /\ Bar(b) /\ b.long \in Nat /\ b.short \in Nat
        /\ \A distance \in {b.long, b.short} \ {0} : distance * TargetPct >= 100
    BY RowsAreBars, RowsAssumption
  <2>2. /\ bar.low = b.low /\ bar.close = b.close /\ bar.high = b.high
        /\ bar.long = b.long /\ bar.short = b.short
    OBVIOUS
  <2> HIDE DEF bar
  <2> QED
    BY <1>4, <2>1, <2>2 DEF Price, Bar
<1> HIDE DEF bar, n
<1>6. \A i \in 1..Len(bars') : Price(bars'[i])
  <2>1. ASSUME NEW i \in 1..(n + 1) PROVE Price(bars'[i])
    <3>1. i = n + 1 \/ i \in 1..n
      BY <1>3
    <3>2. ASSUME i \in 1..n PROVE Price(bars[i])
      BY <3>2 DEF BarsInv, n
    <3> QED
      BY <1>3, <1>5, <3>1, <3>2
  <2> QED
    BY <1>3, <2>1
<1>7. \A i \in 1..(Len(bars') - 1) : bars'[i + 1].time >= bars'[i].time + 1
  <2>1. ASSUME NEW i \in 1..n PROVE bars'[i + 1].time >= bars'[i].time + 1
    <3>1. CASE i = n
      BY <1>3, <1>4, <3>1
    <3>2. CASE i # n
      <4>1. i \in 1..(n - 1) /\ i + 1 \in 1..n
        BY <1>3, <3>2
      <4>2. bars[i + 1].time >= bars[i].time + 1
        BY <4>1 DEF BarsInv, n
      <4> QED
        BY <1>3, <4>1, <4>2
    <3> QED
      BY <3>1, <3>2
  <2>2. Len(bars') - 1 = n
    BY <1>3
  <2> QED
    BY <2>1, <2>2
<1>8. BarsInv'
  BY <1>3, <1>6, <1>7 DEF BarsInv
<1> QED
  BY <1>3, <1>8 DEF n

(* The labels of a history bs.                                             *)
SuccessIn(bs, i, side, distance) ==
  LET entry  == bs[i].close
      target == entry + side * ((distance * TargetPct) \div 100)
      Stopped(k)  == Hit(bs[i + k], -side, entry - side * distance)
      Reached(k)  == Hit(bs[i + k], side, target)
  IN  {k \in 1..Horizon : /\ i + k <= Len(bs) /\ Reached(k) /\ ~Stopped(k)
                          /\ \A j \in 1..(k - 1) : ~Stopped(j) /\ ~Reached(j)}
LabelIn(bs, i) ==
  LET long  == SuccessIn(bs, i, 1, bs[i].long)
      short == SuccessIn(bs, i, -1, bs[i].short)
      Sooner(one, other) == one # {} /\ \A k \in one, j \in other : k < j
  IN  CASE Sooner(long, short) -> "LONG_SUCCESS"
        [] Sooner(short, long) -> "SHORT_SUCCESS"
        [] OTHER -> "NO_EDGE"

(* A label rests on bars that are there when it is given.                  *)
LEMMA LabelRests ==
  ASSUME NEW bs, NEW cs, Len(bs) \in Nat, Len(cs) \in Nat, Len(bs) <= Len(cs),
         \A j \in 1..Len(bs) : cs[j] = bs[j],
         NEW i \in 1..Len(bs), i + Horizon <= Len(bs)
  PROVE  LabelIn(cs, i) = LabelIn(bs, i)
<1>1. Horizon \in Nat \ {0}
  BY LabelsAssumption
<1>2. \A k \in 1..Horizon : i + k <= Len(bs) /\ i + k <= Len(cs) /\ cs[i + k] = bs[i + k]
  BY <1>1
<1>3. cs[i] = bs[i]
  OBVIOUS
<1>4. ASSUME NEW side, NEW distance PROVE SuccessIn(cs, i, side, distance) = SuccessIn(bs, i, side, distance)
  <2>1. ASSUME NEW k \in 1..Horizon
        PROVE  k \in SuccessIn(cs, i, side, distance) <=> k \in SuccessIn(bs, i, side, distance)
    <3>1. \A j \in 1..(k - 1) : j \in 1..Horizon /\ cs[i + j] = bs[i + j]
      BY <1>1, <1>2
    <3> QED
      BY <1>2, <1>3, <3>1 DEF SuccessIn
  <2>2. SuccessIn(cs, i, side, distance) \subseteq 1..Horizon /\ SuccessIn(bs, i, side, distance) \subseteq 1..Horizon
    BY DEF SuccessIn
  <2> QED
    BY <2>1, <2>2
<1>5. /\ SuccessIn(cs, i, 1, bs[i].long) = SuccessIn(bs, i, 1, bs[i].long)
      /\ SuccessIn(cs, i, -1, bs[i].short) = SuccessIn(bs, i, -1, bs[i].short)
  BY <1>4
<1> QED
  BY <1>3, <1>5 DEF LabelIn

(* Label in terms of the bars it is computed from, before a step and after *)
(* it.                                                                     *)
LEMMA LabelsOfBars ==
  ASSUME NEW i
  PROVE  Label(i) = LabelIn(bars, i) /\ Label(i)' = LabelIn(bars', i)
BY DEF Label, LabelIn, Success, SuccessIn

(* The label of an eligible row is the same after the history has grown.   *)
LEMMA LabelStays ==
  ASSUME BarsInv, Len(bars) \in Nat, Len(bars') \in Nat, Len(bars') >= Len(bars),
         \A i \in 1..Len(bars) : bars'[i] = bars[i],
         NEW i \in DOMAIN bars, Eligible(i)
  PROVE  /\ i \in 1..Len(bars) /\ Eligible(i)' /\ Time(i)' = Time(i) /\ Label(i)' = Label(i)
<1>1. Horizon \in Nat \ {0}
  BY LabelsAssumption
<1>2. i \in 1..Len(bars) /\ i + Horizon <= Len(bars) /\ bars'[i] = bars[i]
  BY DEF Eligible, BarsInv
<1>3. Eligible(i)' /\ Time(i)' = Time(i)
  BY <1>1, <1>2 DEF Eligible, Time
<1>4. LabelIn(bars', i) = LabelIn(bars, i)
  <2>1. PICK bs, cs : bs = bars /\ cs = bars'
    OBVIOUS
  <2> QED
    BY <1>2, <2>1, LabelRests
<1> QED
  BY <1>2, <1>3, <1>4, LabelsOfBars

(* What would be labelled now would be labelled later.                     *)
LEMMA LabelledStays ==
  ASSUME BarsInv, Len(bars) \in Nat, BarsInv', Len(bars') \in Nat, Len(bars') >= Len(bars),
         \A i \in 1..Len(bars) : bars'[i] = bars[i]
  PROVE  Labelled \subseteq Labelled'
<1>1. ASSUME NEW d \in Labelled PROVE d \in Labelled'
  <2>1. PICK i \in DOMAIN bars : Eligible(i) /\ d = [at |-> i, time |-> Time(i), label |-> Label(i)]
    BY DEF Labelled
  <2>2. i \in 1..Len(bars) /\ Eligible(i)' /\ Time(i)' = Time(i) /\ Label(i)' = Label(i)
    BY <2>1, LabelStays
  <2>3. i \in DOMAIN bars'
    BY <2>2 DEF BarsInv
  <2>4. d = [at |-> i, time |-> Time(i)', label |-> Label(i)']
    BY <2>1, <2>2
  <2> QED
    BY <2>2, <2>3, <2>4 DEF Labelled
<1> QED
  BY <1>1

(* The inductive invariant of the labels holds before the first bar.       *)
LEMMA LabelsStart ==
  ASSUME LabelsInit
  PROVE  LabelsInv
<1>1. bars = <<>> /\ dataset = {}
  BY DEF LabelsInit
<1>2. BarsInv
  BY <1>1, EmptyListed DEF BarsInv
<1> QED
  BY <1>1, <1>2 DEF LabelsInv

(* Every step of the experiment keeps it, and keeps every row of the       *)
(* dataset.                                                                *)
LEMMA LabelsStep ==
  ASSUME LabelsInv, [ExperimentNext]_experimentVars
  PROVE  LabelsInv' /\ (dataset \subseteq dataset' \/ UNCHANGED labelVars)
<1>1. CASE UNCHANGED labelVars
  <2>1. bars' = bars /\ dataset' = dataset
    BY <1>1 DEF labelVars
  <2>2. Labelled' = Labelled
    BY <2>1 DEF Labelled, Eligible, Label, Success, Time
  <2>3. BarsInv'
    BY <2>1 DEF LabelsInv, BarsInv
  <2> QED
    BY <1>1, <2>1, <2>2, <2>3 DEF LabelsInv
<1>2. ASSUME NEW step \in Steps, NEW b \in Candles, NextBar(step, b)
      PROVE  LabelsInv' /\ dataset \subseteq dataset'
  <2>1. /\ BarsInv' /\ Len(bars) \in Nat /\ Len(bars') = Len(bars) + 1
        /\ \A i \in 1..Len(bars) : bars'[i] = bars[i]
    BY <1>2, NextBarKeeps DEF LabelsInv
  <2>2. Labelled \subseteq Labelled'
    BY <2>1, LabelledStays DEF LabelsInv
  <2>3. dataset' = dataset
    BY <1>2 DEF NextBar
  <2> QED
    BY <2>1, <2>2, <2>3 DEF LabelsInv
<1>3. ASSUME Build PROVE LabelsInv' /\ dataset \subseteq dataset'
  <2>1. bars' = bars /\ dataset' = Labelled
    BY <1>3 DEF Build
  <2>2. Labelled' = Labelled
    BY <2>1 DEF Labelled, Eligible, Label, Success, Time
  <2>3. BarsInv'
    BY <2>1 DEF LabelsInv, BarsInv
  <2> QED
    BY <2>1, <2>2, <2>3 DEF LabelsInv
<1>4. UNCHANGED labelVars \/ (\E step \in Steps, b \in Candles : NextBar(step, b)) \/ Build
  <2>1. CASE UNCHANGED experimentVars
    BY <2>1 DEF experimentVars
  <2>2. CASE Grow
    BY <2>2 DEF Grow
  <2>3. CASE Execute \/ Backtest \/ Record
    BY <2>3 DEF Execute, Backtest, Record
  <2>4. ASSUME NEW answers \in BOOLEAN, EvaluateOOS(answers) \/ EvaluateFold(answers)
        PROVE  UNCHANGED labelVars
    BY <2>4 DEF EvaluateOOS, EvaluateFold
  <2> QED
    BY <2>1, <2>2, <2>3, <2>4 DEF ExperimentNext
<1> QED
  BY <1>1, <1>2, <1>3, <1>4

(* Whatever the bars that follow: a label in the dataset never changes and *)
(* never goes (outcome labels rest on the bars of their horizon only).     *)
THEOREM LabelsAlwaysFinal == ExperimentSpec => LabelsFinal
<1>1. ExperimentInit => LabelsInv
  BY LabelsStart DEF ExperimentInit
<1>2. LabelsInv /\ [ExperimentNext]_experimentVars => LabelsInv'
  BY LabelsStep
<1>3. LabelsInv /\ [ExperimentNext]_experimentVars => [dataset \subseteq dataset']_labelVars
  BY LabelsStep
<1> QED
  BY <1>1, <1>2, <1>3, PTL DEF ExperimentSpec, LabelsFinal

-----------------------------------------------------------------------------
(* Labels and replay                                                       *)

(* Where no gap is crossed the bars follow each other minute by minute.    *)
LEMMA OneMinute ==
  ASSUME NEW a \in Int, NEW c \in Int, NEW d \in Int, NEW k \in Int,
         a >= c + 1, ~(a - c > 1), c = d + k
  PROVE  a = d + (k + 1)
<1>1. a = c + 1
  OBVIOUS
<1> QED
  BY <1>1

(* A bar has a time.                                                       *)
LEMMA TimeTyped ==
  ASSUME BarsInv, NEW i \in 1..Len(bars)
  PROVE  Time(i) \in Nat
BY DEF BarsInv, Price, Time

(* Time goes on from bar to bar, by a minute where trading goes on.        *)
LEMMA TimeGoesOn ==
  ASSUME BarsInv, NEW i \in 1..Len(bars), NEW c \in Nat, i + c <= Len(bars)
  PROVE  /\ \A k \in 0..c : Time(i + k) >= Time(i) + k
         /\ (\A k \in 1..c : ~(Time(i + k) - Time(i + k - 1) > 1)) =>
               \A k \in 0..c : Time(i + k) = Time(i) + k
<1> DEFINE Later == {k \in 0..c : Time(i + k) >= Time(i) + k}
           Even == {k \in 0..c : Time(i + k) = Time(i) + k}
<1>1. Len(bars) \in Nat /\ i \in Nat
  BY DEF BarsInv
<1>2. \A k \in 0..c : i + k \in 1..Len(bars) /\ Time(i + k) \in Nat
  <2>1. ASSUME NEW k \in 0..c PROVE i + k \in 1..Len(bars)
    BY <1>1
  <2> QED
    BY <2>1, TimeTyped
<1>3. 0 \in Later /\ 0 \in Even
  <2>1. i + 0 = i /\ 0 \in 0..c
    BY <1>1
  <2>2. Time(i) \in Nat
    BY TimeTyped
  <2> QED
    BY <2>1, <2>2
<1>4. ASSUME NEW k \in 0..(c - 1)
      PROVE  /\ k + 1 \in 1..c /\ k + 1 \in 0..c /\ k \in 0..c /\ k \in Int
             /\ i + (k + 1) - 1 = i + k
             /\ Time(i + (k + 1)) \in Int /\ Time(i + k) \in Int /\ Time(i) \in Int
             /\ Time(i + (k + 1)) >= Time(i + k) + 1
  <2>1. k + 1 \in 1..c /\ k + 1 \in 0..c /\ k \in 0..c /\ k \in Int
    OBVIOUS
  <2>2. /\ i + k \in 1..(Len(bars) - 1) /\ (i + k) + 1 = i + (k + 1) /\ i + (k + 1) - 1 = i + k
    BY <1>1, <2>1
  <2>3. bars[(i + k) + 1].time >= bars[i + k].time + 1
    BY <2>2 DEF BarsInv
  <2>4. Time(i + (k + 1)) >= Time(i + k) + 1
    BY <2>2, <2>3 DEF Time
  <2>5. Time(i + (k + 1)) \in Int /\ Time(i + k) \in Int /\ Time(i) \in Int
    BY <1>2, <2>1, TimeTyped
  <2> QED
    BY <2>1, <2>2, <2>4, <2>5
<1>5. ASSUME NEW k \in 0..(c - 1), k \in Later PROVE k + 1 \in Later
  <2>1. Time(i + k) >= Time(i) + k
    BY <1>5
  <2>2. /\ Time(i + (k + 1)) \in Int /\ Time(i + k) \in Int /\ Time(i) \in Int
        /\ k \in Int /\ Time(i + (k + 1)) >= Time(i + k) + 1
    BY <1>4
  <2>3. Time(i + (k + 1)) >= Time(i) + (k + 1)
    BY <2>1, <2>2
  <2> QED
    BY <1>4, <2>3
<1>6. 0..c \subseteq Later
  <2> HIDE DEF Later
  <2> QED
    BY <1>3, <1>5, Counted
<1>7. ASSUME \A k \in 1..c : ~(Time(i + k) - Time(i + k - 1) > 1)
      PROVE  0..c \subseteq Even
  <2>1. ASSUME NEW k \in 0..(c - 1), k \in Even PROVE k + 1 \in Even
    <3>1. ~(Time(i + (k + 1)) - Time(i + k) > 1)
      BY <1>4, <1>7
    <3>2. Time(i + k) = Time(i) + k
      BY <2>1
    <3>3. /\ Time(i + (k + 1)) \in Int /\ Time(i + k) \in Int /\ Time(i) \in Int
          /\ k \in Int /\ Time(i + (k + 1)) >= Time(i + k) + 1
      BY <1>4
    <3>4. Time(i + (k + 1)) = Time(i) + (k + 1)
      BY <3>1, <3>2, <3>3, OneMinute
    <3> QED
      BY <1>4, <3>4
  <2> HIDE DEF Even
  <2> QED
    BY <1>3, <2>1, Counted
<1> QED
  BY <1>6, <1>7

Gaps(i) == {k \in 1..Horizon : Time(i + k) - Time(i + k - 1) > 1}

(* No gap, and at most one gap, in terms of the set of gaps.               *)
LEMMA GapsCounted ==
  ASSUME NEW i
  PROVE  /\ GapsIn(i) \in Nat
         /\ GapsIn(i) <= 0 => Gaps(i) = {}
         /\ GapsIn(i) <= 1 => \A k, j \in Gaps(i) : k = j
<1>1. IsFiniteSet(1..Horizon)
  BY LabelsAssumption, FS_Interval
<1>2. IsFiniteSet(Gaps(i)) /\ GapsIn(i) = Cardinality(Gaps(i))
  BY <1>1, FS_Subset DEF Gaps, GapsIn
<1>3. GapsIn(i) \in Nat
  BY <1>2, FS_CardinalityType
<1>4. ASSUME NEW k \in Gaps(i), NEW j \in Gaps(i), k # j PROVE GapsIn(i) >= 2
  <2>1. IsFiniteSet({k}) /\ Cardinality({k}) = 1
    BY FS_Singleton
  <2>2. Cardinality({k} \cup {j}) = 2
    BY <1>4, <2>1, FS_AddElement
  <2>3. {k} \cup {j} \in SUBSET Gaps(i)
    OBVIOUS
  <2>4. Cardinality({k} \cup {j}) <= Cardinality(Gaps(i))
    BY <1>2, <2>3, FS_Subset
  <2> QED
    BY <1>2, <2>2, <2>4
<1>5. GapsIn(i) <= 0 => Gaps(i) = {}
  BY <1>2, <1>3, FS_EmptySet
<1> QED
  BY <1>3, <1>4, <1>5

(* Where no gap in trading is crossed the bars of a horizon are a minute   *)
(* apart.                                                                  *)
LEMMA NoGapCrossed ==
  ASSUME BarsInv, NEW i \in 1..Len(bars), i + Horizon <= Len(bars), GapsIn(i) = 0
  PROVE  \A k \in 0..Horizon : Time(i + k) = Time(i) + k
<1>1. Gaps(i) = {}
  BY GapsCounted
<1>2. \A k \in 1..Horizon : ~(Time(i + k) - Time(i + k - 1) > 1)
  BY <1>1 DEF Gaps
<1>3. Horizon \in Nat
  BY LabelsAssumption
<1> QED
  BY <1>2, <1>3, TimeGoesOn

(* One share, its stop and its target apart from its entry.                *)
Share(t) ==
  /\ t.side \in {-1, 1} /\ t.entry \in Int /\ t.qty = 1 /\ t.stop \in Int /\ t.target \in Int
  /\ t.side * (t.stop - t.entry) < 0 /\ t.side * (t.target - t.entry) > 0
  /\ t.runner = FALSE /\ t.at \in Int /\ t # NoTrade

ShareFares(t, b, held, o) ==
  /\ ~StopHit(t, b) /\ ~TargetHit(t, b) /\ held < MaxHolding => o.trade = t
  /\ StopHit(t, b) \/ TargetHit(t, b) \/ held >= MaxHolding => o.trade = NoTrade
  /\ o.gross = t.side * (t.target - t.entry) <=> ~StopHit(t, b) /\ TargetHit(t, b)

(* What one bar makes of one share: it is sold at the stop or at the       *)
(* target, or it stays, and when its time is over it is sold at a price    *)
(* short of the target.                                                    *)
LEMMA OneShare ==
  ASSUME NEW t, Share(t), NEW b, Bar(b), NEW clock \in Int, NEW last, last = FALSE,
         NEW o, o = AfterRow(t, b, clock, last)
  PROVE  ShareFares(t, b, clock - t.at, o)
<1> DEFINE r == [trade |-> t, net |-> 0, gross |-> 0, money |-> 0]
           part == (t.qty * PartialPct) \div 100
<1>0. PICK m : m = Managed(t, b)
  OBVIOUS
<1> USE DEF Share, ShareFares
<1>1. PICK reward \in Int : reward = t.side * (t.target - t.entry)
  OBVIOUS
<1>2. PICK loss \in Int : loss = t.side * (t.stop - t.entry)
  OBVIOUS
<1>3. part \notin 1..(t.qty - 1) /\ reward > 0 /\ loss < 0
  BY <1>1, <1>2
<1>4. MaxHolding \in Nat
  <2>1. {TargetPct, MaxHolding, Starting} \subseteq Nat \ {0}
    BY ReplayAssumption
  <2> QED
    BY <2>1
<1>5. r.trade = t /\ r.gross = 0
  OBVIOUS
<1> HIDE DEF r, part
<1>6. ASSUME NEW price \in Int, NEW x, x.trade = t, x.gross = 0
      PROVE  Sold(x, price, t.qty).trade = NoTrade
             /\ Sold(x, price, t.qty).gross = t.side * (price - t.entry)
  <2>1. PICK gain \in Int : gain = t.side * (price - t.entry)
    OBVIOUS
  <2>2. 0 + t.side * (price - t.entry) * 1 = gain
    BY <2>1
  <2> QED
    BY <1>6, <2>1, <2>2 DEF Sold
<1>8. /\ m.trade = NoTrade => o = m
      /\ m.trade # NoTrade /\ ~(clock - m.trade.at >= MaxHolding) => o = m
      /\ m.trade # NoTrade /\ clock - m.trade.at >= MaxHolding => o = Sold(m, b.close, m.trade.qty)
  BY <1>0 DEF AfterRow
<1>9. CASE StopHit(t, b)
  <2>1. m = Sold(r, t.stop, t.qty)
    BY <1>0, <1>9 DEF Managed, r
  <2>2. m.trade = NoTrade /\ m.gross = loss
    BY <1>2, <1>5, <1>6, <2>1
  <2>3. o = m
    BY <1>8, <2>2
  <2> QED
    BY <1>1, <1>2, <1>3, <1>9, <2>2, <2>3
<1>10. CASE ~StopHit(t, b) /\ TargetHit(t, b)
  <2>1. m = Sold(r, t.target, t.qty)
    BY <1>0, <1>3, <1>10 DEF Managed, r, part
  <2>2. m.trade = NoTrade /\ m.gross = reward
    BY <1>1, <1>5, <1>6, <2>1
  <2>3. o = m
    BY <1>8, <2>2
  <2> QED
    BY <1>1, <1>10, <2>2, <2>3
<1>11. CASE ~StopHit(t, b) /\ ~TargetHit(t, b)
  <2>1. m = r
    BY <1>0, <1>11 DEF Managed, r
  <2>2. m.trade = t /\ m.gross = 0
    BY <1>5, <2>1
  <2>3. PICK held \in Int : held = clock - t.at
    OBVIOUS
  <2>4. CASE held < MaxHolding
    <3>1. ~(held >= MaxHolding) /\ clock - m.trade.at = held
      BY <1>4, <2>2, <2>3, <2>4
    <3>2. o = m
      BY <1>8, <2>2, <3>1
    <3>3. o.gross # reward
      BY <1>1, <1>3, <2>2, <3>2
    <3> QED
      BY <1>1, <1>11, <2>2, <2>3, <3>1, <3>2, <3>3
  <2>5. CASE ~(held < MaxHolding)
    <3>1. held >= MaxHolding
      BY <1>4, <2>5
    <3>2. o = Sold(m, b.close, t.qty)
      BY <1>8, <2>2, <2>3, <3>1
    <3>3. b.close \in Int
      BY DEF Bar
    <3>4. o.trade = NoTrade /\ o.gross = t.side * (b.close - t.entry)
      <4>1. /\ Sold(m, b.close, t.qty).trade = NoTrade
            /\ Sold(m, b.close, t.qty).gross = t.side * (b.close - t.entry)
        BY <1>6, <2>2, <3>3
      <4> QED
        BY <3>2, <4>1
    <3>5. t.side * (b.close - t.entry) # reward
      <4>1. b.low \in Int /\ b.high \in Int /\ b.low <= b.close /\ b.close <= b.high
        BY DEF Bar
      <4>2. CASE t.side = 1
        BY <1>1, <1>11, <3>3, <4>1, <4>2 DEF TargetHit
      <4>3. CASE t.side = -1
        BY <1>1, <1>11, <3>3, <4>1, <4>3 DEF TargetHit
      <4> QED
        BY <4>2, <4>3
    <3> QED
      BY <1>1, <1>11, <2>3, <2>5, <3>4, <3>5
  <2> QED
    BY <2>4, <2>5
<1> QED
  BY <1>9, <1>10, <1>11

(* Without a gap, the replay of one share takes the target of a row after  *)
(* the bars after which its candidate is labelled a success.               *)
LEMMA ReplayedIsSuccess ==
  ASSUME BarsInv, NEW i \in 1..Len(bars), i + Horizon <= Len(bars), GapsIn(i) = 0,
         NEW side \in {-1, 1}, NEW distance \in Nat \ {0}, distance * TargetPct >= 100
  PROVE  Replayed(i, side, distance) = Success(i, side, distance)
<1> DEFINE entry == bars[i].close
           reward == (distance * TargetPct) \div 100
           Stopped(k) == Hit(bars[i + k], -side, entry - side * distance)
           Reached(k) == Hit(bars[i + k], side, entry + side * reward)
           Quiet(k) == \A j \in 1..k : ~Stopped(j) /\ ~Reached(j)
<1>1. Horizon \in Nat \ {0} /\ Len(bars) \in Nat /\ MaxHolding = Horizon
  BY LabelsAssumption, ExperimentAssumption DEF BarsInv
<1>2. reward \in Nat \ {0}
  <2>1. {TargetPct, MaxHolding, Starting} \subseteq Nat \ {0}
    BY ReplayAssumption
  <2>2. TargetPct \in Nat
    BY <2>1
  <2>3. PICK n \in Nat : n = distance * TargetPct
    BY <2>2
  <2>4. n >= 100
    BY <2>3
  <2>5. n \div 100 \in Nat \ {0}
    BY <2>4
  <2> QED
    BY <2>3, <2>5
<1>3. entry \in Int /\ Time(i) \in Int
  <2>1. Price(bars[i])
    BY DEF BarsInv
  <2> QED
    BY <2>1 DEF Price, Bar, Time
<1>4. PICK entered : entered = [Entered(side, bars[i].close, distance, 1) EXCEPT !.at = Time(i)]
  OBVIOUS
<1>5. /\ entered.side = side /\ entered.entry = entry /\ entered.qty = 1
      /\ entered.stop = entry - side * distance /\ entered.target = entry + side * reward
      /\ entered.runner = FALSE /\ entered.at = Time(i)
  BY <1>4 DEF Entered
<1>6. entered # NoTrade
  <2>1. NoTrade.side = 0
    BY DEF NoTrade
  <2> QED
    BY <1>5, <2>1
<1>7. Replayed(i, side, distance) =
        LET after == CHOOSE f : f = [k \in 0..Horizon |->
              IF k = 0 THEN entered
              ELSE IF f[k - 1] = NoTrade THEN NoTrade
              ELSE AfterRow(f[k - 1], bars[i + k], Time(i + k), FALSE).trade]
        IN  {k \in 1..Horizon :
               /\ after[k - 1] # NoTrade
               /\ AfterRow(after[k - 1], bars[i + k], Time(i + k), FALSE).gross
                    = side * (entered.target - entered.entry)}
  BY <1>4 DEF Replayed
<1> HIDE DEF entry, reward
<1>19. Share(entered)
  <2>1. CASE side = 1
    BY <1>2, <1>3, <1>5, <1>6, <2>1 DEF Share
  <2>2. CASE side = -1
    BY <1>2, <1>3, <1>5, <1>6, <2>2 DEF Share
  <2> QED
    BY <2>1, <2>2
<1> DEFINE Row1(k) == AfterRow(entered, bars[i + k], Time(i + k), FALSE)
<1>8. ASSUME NEW k \in 1..Horizon
      PROVE  /\ ~Stopped(k) /\ ~Reached(k) /\ k < Horizon => Row1(k).trade = entered
             /\ Stopped(k) \/ Reached(k) \/ k >= Horizon => Row1(k).trade = NoTrade
             /\ Row1(k).gross = side * (entered.target - entered.entry) <=> ~Stopped(k) /\ Reached(k)
  <2>1. i + k \in 1..Len(bars)
    BY <1>1
  <2>2. Bar(bars[i + k])
    BY <2>1 DEF BarsInv, Price
  <2>3. Time(i + k) = Time(i) + k
    <3>1. k \in 0..Horizon
      BY <1>1
    <3> QED
      BY <3>1, NoGapCrossed
  <2>4. PICK clock \in Int : clock = Time(i + k) /\ clock - entered.at = k
    BY <1>1, <1>3, <1>5, <2>3
  <2>5. PICK b : b = bars[i + k]
    OBVIOUS
  <2>12. PICK last : last = FALSE
    OBVIOUS
  <2>6. PICK o : o = AfterRow(entered, b, clock, last)
    OBVIOUS
  <2>7. Bar(b) /\ clock \in Int
    BY <2>2, <2>4, <2>5
  <2>8. ShareFares(entered, b, clock - entered.at, o)
    BY <1>19, <2>6, <2>7, <2>12, OneShare
  <2>9. (StopHit(entered, b) <=> Stopped(k)) /\ (TargetHit(entered, b) <=> Reached(k))
    BY <1>5, <2>5 DEF StopHit, TargetHit, Hit
  <2>10. o = Row1(k)
    BY <2>4, <2>5, <2>6, <2>12
  <2> HIDE DEF Row1, Stopped, Reached
  <2>11. /\ ~Stopped(k) /\ ~Reached(k) /\ k < Horizon => o.trade = entered
         /\ Stopped(k) \/ Reached(k) \/ k >= Horizon => o.trade = NoTrade
         /\ o.gross = side * (entered.target - entered.entry) <=> ~Stopped(k) /\ Reached(k)
    BY <1>1, <1>5, <2>4, <2>8, <2>9 DEF ShareFares
  <2> QED
    BY <2>10, <2>11
<1> HIDE DEF Stopped, Reached
<1>9. ASSUME NEW k \in 1..Horizon PROVE Quiet(k) <=> Quiet(k - 1) /\ ~Stopped(k) /\ ~Reached(k)
  <2>1. 1..k = (1..(k - 1)) \cup {k}
    BY <1>1
  <2> QED
    BY <2>1
<1>10. Quiet(0)
  OBVIOUS
<1> HIDE DEF Quiet
<1> DEFINE Next1(f) == [k \in 0..Horizon |->
              IF k = 0 THEN entered
              ELSE IF f[k - 1] = NoTrade THEN NoTrade
              ELSE AfterRow(f[k - 1], bars[i + k], Time(i + k), FALSE).trade]
           run == [k \in 0..Horizon |-> IF k < Horizon /\ Quiet(k) THEN entered ELSE NoTrade]
           after == CHOOSE f : f = Next1(f)
<1>11. ASSUME NEW k \in 1..Horizon
       PROVE  k - 1 \in 0..Horizon /\ run[k - 1] = IF Quiet(k - 1) THEN entered ELSE NoTrade
  <2>1. k - 1 \in 0..Horizon /\ k - 1 < Horizon
    BY <1>1
  <2> QED
    BY <2>1
<1>12. run = Next1(run)
  <2>1. ASSUME NEW k \in 0..Horizon PROVE run[k] = Next1(run)[k]
    <3>1. CASE k = 0
      BY <1>1, <1>10, <3>1
    <3>2. CASE k # 0
      <4>1. k \in 1..Horizon
        BY <1>1, <3>2
      <4>2. run[k - 1] = IF Quiet(k - 1) THEN entered ELSE NoTrade
        BY <1>11, <4>1
      <4>3. Next1(run)[k] = IF run[k - 1] = NoTrade THEN NoTrade
                            ELSE AfterRow(run[k - 1], bars[i + k], Time(i + k), FALSE).trade
        BY <4>1, <3>2
      <4>4. run[k] = IF k < Horizon /\ Quiet(k) THEN entered ELSE NoTrade
        BY <4>1
      <4> HIDE DEF run, Next1
      <4>5. CASE ~Quiet(k - 1)
        BY <1>9, <4>1, <4>2, <4>3, <4>4, <4>5
      <4>6. CASE Quiet(k - 1)
        <5>1. Next1(run)[k] = Row1(k).trade
          BY <1>6, <4>2, <4>3, <4>6
        <5>2. CASE ~Stopped(k) /\ ~Reached(k) /\ k < Horizon
          <6>1. Row1(k).trade = entered
            BY <1>8, <4>1, <5>2
          <6> QED
            BY <1>9, <4>1, <4>4, <4>6, <5>1, <5>2, <6>1
        <5>3. CASE Stopped(k) \/ Reached(k) \/ k >= Horizon
          <6>1. Row1(k).trade = NoTrade
            BY <1>8, <4>1, <5>3
          <6>2. ~(k < Horizon /\ Quiet(k))
            BY <1>1, <1>9, <4>1, <5>3
          <6> QED
            BY <4>4, <5>1, <6>1, <6>2
        <5> QED
          BY <1>1, <4>1, <5>2, <5>3
      <4> QED
        BY <4>5, <4>6
    <3> HIDE DEF run, Next1
    <3> QED
      BY <3>1, <3>2
  <2>2. run = [k \in 0..Horizon |-> run[k]]
    OBVIOUS
  <2>3. Next1(run) = [k \in 0..Horizon |-> Next1(run)[k]]
    <3> HIDE DEF run
    <3> QED
      OBVIOUS
  <2> HIDE DEF run, Next1
  <2> QED
    BY <2>1, <2>2, <2>3
<1>13. after = Next1(after)
  <2> HIDE DEF run, Next1
  <2> QED
    BY <1>12
<1>14. \A k \in 0..Horizon : after[k] = run[k]
  <2> DEFINE Same == {k \in 0..Horizon : after[k] = run[k]}
  <2>1. PICK g : g = after
    OBVIOUS
  <2>2. PICK h : h = run
    OBVIOUS
  <2>3. g = Next1(g) /\ h = Next1(h)
    <3> HIDE DEF after, run, Next1
    <3> QED
      BY <1>12, <1>13, <2>1, <2>2
  <2>4. g[0] = h[0]
    BY <1>1, <2>3
  <2>5. ASSUME NEW k \in 0..(Horizon - 1), g[k] = h[k] PROVE g[k + 1] = h[k + 1]
    <3>1. k + 1 \in 0..Horizon /\ k + 1 # 0 /\ k + 1 - 1 = k
      BY <1>1
    <3>2. PICK n : n = k + 1
      OBVIOUS
    <3>3. n \in 0..Horizon /\ n # 0 /\ n - 1 = k
      BY <3>1, <3>2
    <3>4. Next1(g)[n] = (IF g[n - 1] = NoTrade THEN NoTrade
                         ELSE AfterRow(g[n - 1], bars[i + n], Time(i + n), FALSE).trade)
      BY <3>3
    <3>5. Next1(h)[n] = (IF h[n - 1] = NoTrade THEN NoTrade
                         ELSE AfterRow(h[n - 1], bars[i + n], Time(i + n), FALSE).trade)
      BY <3>3
    <3> HIDE DEF Next1
    <3>6. g[n] = Next1(g)[n] /\ h[n] = Next1(h)[n]
      BY <2>3
    <3> QED
      BY <2>5, <3>2, <3>3, <3>4, <3>5, <3>6
  <2> HIDE DEF after, run, Next1
  <2>6. 0 \in Same /\ \A k \in 0..(Horizon - 1) : k \in Same => k + 1 \in Same
    <3>1. \A k \in 0..(Horizon - 1) : k + 1 \in 0..Horizon
      BY <1>1
    <3>2. 0 \in 0..Horizon
      BY <1>1
    <3> QED
      BY <2>1, <2>2, <2>4, <2>5, <3>1, <3>2
  <2>7. 0..Horizon \subseteq Same
    <3> HIDE DEF Same
    <3> QED
      BY <1>1, <2>6, Counted
  <2> QED
    BY <2>7
<1>15. Replayed(i, side, distance) =
         {k \in 1..Horizon : /\ after[k - 1] # NoTrade
                             /\ AfterRow(after[k - 1], bars[i + k], Time(i + k), FALSE).gross
                                  = side * (entered.target - entered.entry)}
  BY <1>7
<1> HIDE DEF after
<1>16. ASSUME NEW k \in 1..Horizon
       PROVE  (/\ after[k - 1] # NoTrade
               /\ AfterRow(after[k - 1], bars[i + k], Time(i + k), FALSE).gross
                    = side * (entered.target - entered.entry))
              <=> Quiet(k - 1) /\ ~Stopped(k) /\ Reached(k)
  <2>1. after[k - 1] = IF Quiet(k - 1) THEN entered ELSE NoTrade
    <3> HIDE DEF run
    <3> QED
      BY <1>11, <1>14
  <2>2. CASE Quiet(k - 1)
    <3>1. after[k - 1] = entered
      BY <2>1, <2>2
    <3> QED
      BY <1>6, <1>8, <2>2, <3>1
  <2> QED
    BY <2>1, <2>2
<1>17. Replayed(i, side, distance) = {k \in 1..Horizon : Quiet(k - 1) /\ ~Stopped(k) /\ Reached(k)}
  BY <1>15, <1>16
<1>18. Success(i, side, distance) = {k \in 1..Horizon : Quiet(k - 1) /\ ~Stopped(k) /\ Reached(k)}
  <2>1. \A k \in 1..Horizon : i + k <= Len(bars)
    BY <1>1
  <2> QED
    BY <2>1 DEF Success, Quiet, Stopped, Reached, entry, reward
<1> QED
  BY <1>17, <1>18

(* A candidate succeeds once at most.                                      *)
LEMMA SucceedsOnce ==
  ASSUME NEW i, NEW side, NEW distance, NEW k \in Success(i, side, distance),
         NEW j \in Success(i, side, distance)
  PROVE  k = j /\ k \in Int
<1>1. k \in 1..Horizon /\ j \in 1..Horizon /\ Horizon \in Nat
  BY LabelsAssumption DEF Success
<1>2. ASSUME NEW a \in Success(i, side, distance), NEW c \in Success(i, side, distance), a < c
      PROVE  FALSE
  <2>1. a \in 1..Horizon /\ c \in 1..Horizon
    BY DEF Success
  <2>2. a \in 1..(c - 1)
    BY <1>1, <1>2, <2>1
  <2> QED
    BY <2>2 DEF Success
<1>3. ~(k < j) /\ ~(j < k)
  BY <1>2
<1> QED
  BY <1>1, <1>3

(* The invariant of the labels implies their agreement with the replay.    *)
LEMMA LabelsAgree ==
  ASSUME LabelsInv
  PROVE  LabelsAgreeWithReplay
<1>1. SUFFICES ASSUME NEW d \in dataset, GapsIn(d.at) = 0
               PROVE  LET long  == Replayed(d.at, 1, bars[d.at].long)
                          short == Replayed(d.at, -1, bars[d.at].short)
                      IN  /\ d.label = "LONG_SUCCESS"  <=> \E k \in long  : \A j \in short : k < j
                          /\ d.label = "SHORT_SUCCESS" <=> \E k \in short : \A j \in long  : k < j
  BY DEF LabelsAgreeWithReplay
<1>2. PICK i \in DOMAIN bars : Eligible(i) /\ d = [at |-> i, time |-> Time(i), label |-> Label(i)]
  BY DEF LabelsInv, Labelled
<1>3. d.at = i /\ d.label = Label(i) /\ GapsIn(i) = 0
  BY <1>1, <1>2
<1>4. BarsInv /\ i \in 1..Len(bars) /\ i + Horizon <= Len(bars)
      /\ bars[i].long # 0 /\ bars[i].short # 0
  BY <1>2 DEF LabelsInv, BarsInv, Eligible
<1>5. Price(bars[i])
  BY <1>4 DEF BarsInv
<1>6. PICK far \in Nat \ {0} : far = bars[i].long /\ far * TargetPct >= 100
  BY <1>4, <1>5 DEF Price
<1>7. PICK near \in Nat \ {0} : near = bars[i].short /\ near * TargetPct >= 100
  BY <1>4, <1>5 DEF Price
<1>8. PICK long : long = Success(i, 1, far)
  OBVIOUS
<1>9. PICK short : short = Success(i, -1, near)
  OBVIOUS
<1>10. long = Replayed(i, 1, far)
  BY <1>3, <1>4, <1>6, <1>8, ReplayedIsSuccess
<1>11. short = Replayed(i, -1, near)
  BY <1>3, <1>4, <1>7, <1>9, ReplayedIsSuccess
<1>12. \A k, j \in long : k = j /\ k \in Int
  BY <1>8, SucceedsOnce
<1>13. \A k, j \in short : k = j /\ k \in Int
  BY <1>9, SucceedsOnce
<1> DEFINE Sooner(one, other) == one # {} /\ \A k \in one, j \in other : k < j
<1>14. Label(i) = CASE Sooner(long, short) -> "LONG_SUCCESS"
                    [] Sooner(short, long) -> "SHORT_SUCCESS"
                    [] OTHER -> "NO_EDGE"
  BY <1>6, <1>7, <1>8, <1>9 DEF Label
<1>15. ~(Sooner(long, short) /\ Sooner(short, long))
  BY <1>12, <1>13
<1>16. Sooner(long, short) <=> \E k \in long : \A j \in short : k < j
  BY <1>12
<1>17. Sooner(short, long) <=> \E k \in short : \A j \in long : k < j
  BY <1>13
<1> HIDE DEF Sooner
<1>18. (Label(i) = "LONG_SUCCESS" <=> Sooner(long, short))
       /\ (Label(i) = "SHORT_SUCCESS" <=> Sooner(short, long))
  BY <1>14, <1>15
<1> QED
  BY <1>3, <1>6, <1>7, <1>10, <1>11, <1>16, <1>17, <1>18

(* For any horizon, distances, rates and history: where no gap in trading  *)
(* is crossed, a row is labelled with a direction exactly when the replay  *)
(* takes that direction's target within its holding time, and has not      *)
(* taken the other's by then.                                              *)
THEOREM LabelsAlwaysAgree == ExperimentSpec => []LabelsAgreeWithReplay
<1>1. ExperimentInit => LabelsInv
  BY LabelsStart DEF ExperimentInit
<1>2. LabelsInv /\ [ExperimentNext]_experimentVars => LabelsInv'
  BY LabelsStep
<1>3. LabelsInv => LabelsAgreeWithReplay
  BY LabelsAgree
<1> QED
  BY <1>1, <1>2, <1>3, PTL DEF ExperimentSpec

-----------------------------------------------------------------------------
(* The splits                                                              *)

UpTo(times, t) == {u \in times : u <= t}

(* Of finitely many times there is one with each number of times up to it. *)
LEMMA NthFound ==
  ASSUME NEW times, IsFiniteSet(times), times \subseteq Nat, NEW i \in 1..Cardinality(times)
  PROVE  Nth(times, i) \in times /\ Cardinality(UpTo(times, Nth(times, i))) = i
<1> DEFINE n == Cardinality(times)
           Found == {m \in 0..n : m = 0 \/ \E t \in times : Cardinality(UpTo(times, t)) = m}
<1>1. n \in Nat
  BY FS_CardinalityType
<1>2. ASSUME NEW D \in SUBSET times, Cardinality(D) # n, \A x \in D, y \in times \ D : x < y
      PROVE  \E t \in times : Cardinality(UpTo(times, t)) = Cardinality(D) + 1
  <2>1. times \ D # {} /\ times \ D \subseteq Nat
    BY <1>2
  <2>2. PICK t \in times \ D : \A y \in times \ D : t <= y
    BY <2>1, SmallestOf
  <2>3. UpTo(times, t) = D \cup {t}
    <3>1. ASSUME NEW u \in times, u <= t, u \notin D PROVE u = t
      <4>1. t <= u /\ u \in Nat /\ t \in Nat
        BY <2>2, <3>1
      <4> QED
        BY <3>1, <4>1
    <3>2. \A u \in D : u <= t
      <4>1. ASSUME NEW u \in D PROVE u <= t
        <5>1. u < t /\ u \in Nat /\ t \in Nat
          BY <1>2
        <5> QED
          BY <5>1
      <4> QED
        BY <4>1
    <3>3. t <= t
      BY <2>1
    <3> QED
      BY <3>1, <3>2, <3>3 DEF UpTo
  <2>4. IsFiniteSet(D)
    BY FS_Subset
  <2>5. Cardinality(D \cup {t}) = Cardinality(D) + 1
    BY <2>4, FS_AddElement
  <2> QED
    BY <2>3, <2>5
<1>3. 0 \in Found
  BY <1>1
<1>4. ASSUME NEW m \in 0..(n - 1), m \in Found PROVE m + 1 \in Found
  <2>1. PICK D \in SUBSET times : Cardinality(D) = m /\ \A x \in D, y \in times \ D : x < y
    <3>1. CASE m = 0
      <4>1. Cardinality({}) = 0
        BY FS_EmptySet
      <4> QED
        BY <3>1, <4>1
    <3>2. CASE m # 0
      <4>1. PICK t \in times : Cardinality(UpTo(times, t)) = m
        BY <1>4, <3>2
      <4>2. ASSUME NEW x \in UpTo(times, t), NEW y \in times \ UpTo(times, t) PROVE x < y
        <5>1. x \in Nat /\ y \in Nat /\ t \in Nat /\ x <= t /\ ~(y <= t)
          BY DEF UpTo
        <5> QED
          BY <5>1
      <4>3. UpTo(times, t) \in SUBSET times
        BY DEF UpTo
      <4> QED
        BY <4>1, <4>2, <4>3
    <3> QED
      BY <3>1, <3>2
  <2>2. m # n /\ m + 1 \in 0..n
    BY <1>1
  <2>3. \E t \in times : Cardinality(UpTo(times, t)) = m + 1
    BY <1>2, <2>1, <2>2
  <2> QED
    BY <2>2, <2>3
<1>5. 0..n \subseteq Found
  <2> HIDE DEF Found, n
  <2> QED
    BY <1>1, <1>3, <1>4, Counted
<1>6. i \in Found /\ i # 0
  BY <1>1, <1>5
<1>7. \E t \in times : Cardinality({u \in times : u <= t}) = i
  BY <1>6 DEF UpTo
<1> QED
  BY <1>7 DEF Nth, UpTo

(* The order of the times is that of their numbers.                        *)
LEMMA NthOrder ==
  ASSUME NEW times, IsFiniteSet(times), times \subseteq Nat,
         NEW i \in 1..Cardinality(times), NEW j \in 1..Cardinality(times), i < j
  PROVE  Nth(times, i) \in Nat /\ Nth(times, j) \in Nat /\ Nth(times, i) < Nth(times, j)
<1>1. Nth(times, i) \in times /\ Cardinality(UpTo(times, Nth(times, i))) = i
  BY NthFound
<1>2. Nth(times, j) \in times /\ Cardinality(UpTo(times, Nth(times, j))) = j
  BY NthFound
<1>3. PICK a \in Nat, c \in Nat : a = Nth(times, i) /\ c = Nth(times, j)
  BY <1>1, <1>2
<1>4. Cardinality(times) \in Nat
  BY FS_CardinalityType
<1>5. ASSUME c <= a PROVE FALSE
  <2>1. UpTo(times, c) \in SUBSET UpTo(times, a)
    <3>1. ASSUME NEW u \in UpTo(times, c) PROVE u \in UpTo(times, a)
      <4>1. u \in Nat /\ u \in times /\ u <= c
        BY DEF UpTo
      <4> QED
        BY <1>3, <1>5, <4>1 DEF UpTo
    <3> QED
      BY <3>1
  <2>2. IsFiniteSet(UpTo(times, a))
    <3>1. UpTo(times, a) \in SUBSET times
      BY DEF UpTo
    <3> QED
      BY <3>1, FS_Subset
  <2>3. Cardinality(UpTo(times, c)) <= Cardinality(UpTo(times, a))
    BY <2>1, <2>2, FS_Subset
  <2>4. j <= i /\ i \in Int /\ j \in Int
    BY <1>1, <1>2, <1>3, <1>4, <2>3
  <2> QED
    BY <2>4
<1> QED
  BY <1>3, <1>5

(* A percentage of a number of times is one of 0 .. n.                     *)
LEMMA Percent ==
  ASSUME NEW n \in Nat, NEW p \in 0..100
  PROVE  (n * p) \div 100 \in 0..n
<1>1. PICK x \in Nat : x = n * p
  OBVIOUS
<1>2. x <= n * 100
  <2>1. n * (100 - p) >= 0 /\ n * (100 - p) = n * 100 - n * p
    OBVIOUS
  <2> QED
    BY <1>1, <2>1
<1>3. x \div 100 \in 0..n
  BY <1>2
<1> QED
  BY <1>1, <1>3

(* Where a row's label ends, and the bars around a boundary that is purged *)
(* on both sides.                                                          *)
LEMMA RowOfTime ==
  ASSUME LabelsInv, NEW t \in Times
  PROVE  /\ RowAt(t).at \in 1..Len(bars) /\ RowAt(t).at + Horizon <= Len(bars)
         /\ Time(RowAt(t).at) = t /\ t \in Nat
<1>1. PICK e \in dataset : e.time = t
  BY DEF Times
<1>2. RowAt(t) \in dataset /\ RowAt(t).time = t
  BY <1>1 DEF RowAt
<1>3. PICK i \in DOMAIN bars : Eligible(i) /\ RowAt(t) = [at |-> i, time |-> Time(i), label |-> Label(i)]
  BY <1>2 DEF LabelsInv, Labelled
<1>4. RowAt(t).at = i /\ Time(i) = t /\ i \in 1..Len(bars) /\ i + Horizon <= Len(bars)
  BY <1>2, <1>3 DEF LabelsInv, BarsInv, Eligible
<1> QED
  BY <1>4, TimeTyped DEF LabelsInv

(* A boundary b purged on both sides: no label learnt from before it rests *)
(* on a bar behind it, one gap in trading included.                        *)
LEMMA PurgedBoundary ==
  ASSUME LabelsInv, NEW b \in Times, NEW t1 \in Times, NEW t2 \in Int,
         t1 <= b - Purge, b + Purge < t2
  PROVE  t1 < t2 /\ (GapsIn(RowAt(t1).at) <= 1 => Until(RowAt(t1).at) < t2)
<1>1. Horizon \in Nat \ {0} /\ Purge \in Nat /\ Purge >= Horizon /\ BarsInv /\ Len(bars) \in Nat
  BY LabelsAssumption, SplitsAssumption, ExperimentAssumption DEF LabelsInv, BarsInv
<1>2. PICK i \in 1..Len(bars) : /\ i = RowAt(t1).at /\ i + Horizon <= Len(bars) /\ Time(i) = t1
                                /\ t1 \in Nat
  BY RowOfTime
<1>3. PICK m \in 1..Len(bars) : Time(m) = b /\ b \in Nat
  BY RowOfTime
<1>4. i \in Nat /\ m \in Nat
  BY <1>1, <1>2, <1>3
<1>5. t1 < t2 /\ t1 + Horizon <= b
  BY <1>1, <1>2, <1>3
<1>6. i < m
  <2>1. CASE m <= i
    <3>1. PICK c \in Nat : c = i - m /\ m + c = i /\ c \in 0..c
      BY <1>4, <2>1
    <3>2. m + c <= Len(bars)
      BY <1>1, <1>2, <3>1
    <3>3. Time(m + c) >= Time(m) + c
      BY <1>1, <1>3, <3>1, <3>2, TimeGoesOn
    <3>4. t1 >= b + c
      BY <1>2, <1>3, <3>1, <3>3
    <3>5. t1 \in Int /\ b \in Int /\ c \in Nat /\ Horizon \in Nat /\ Horizon > 0
      BY <1>1, <1>2, <1>3, <3>1
    <3> QED
      BY <1>5, <3>4, <3>5
  <2> QED
    BY <1>4, <2>1
<1>7. Time(i + Horizon) \in Nat /\ i + Horizon \in 1..Len(bars)
  <2>1. i + Horizon \in 1..Len(bars)
    BY <1>1, <1>2
  <2> QED
    BY <1>1, <2>1, TimeTyped
<1>8. CASE i + Horizon <= m
  <2>1. PICK c \in Nat : c = m - (i + Horizon) /\ (i + Horizon) + c = m
    BY <1>1, <1>4, <1>8
  <2>2. (i + Horizon) + c <= Len(bars) /\ c \in 0..c
    BY <1>1, <1>3, <2>1
  <2>3. Time((i + Horizon) + c) >= Time(i + Horizon) + c
    BY <1>1, <1>7, <2>2, TimeGoesOn
  <2>4. Time(i + Horizon) <= b
    BY <1>3, <1>7, <2>1, <2>3
  <2> QED
    BY <1>1, <1>2, <1>3, <1>5, <1>7, <2>4 DEF Until
<1>9. CASE m < i + Horizon
  <2> SUFFICES ASSUME GapsIn(i) <= 1 PROVE Time(i + Horizon) < t2
    BY <1>2, <1>5 DEF Until
  <2>1. PICK c \in 1..(Horizon - 1) : c = m - i /\ i + c = m
    BY <1>1, <1>4, <1>6, <1>9
  <2>2. c \in Nat /\ c \in 0..c /\ i + c <= Len(bars)
    BY <1>1, <1>3, <2>1
  <2>3. PICK g \in 1..c : Time(i + g) - Time(i + g - 1) > 1
    <3>1. ASSUME \A k \in 1..c : ~(Time(i + k) - Time(i + k - 1) > 1) PROVE FALSE
      <4>1. Time(i + c) = Time(i) + c
        BY <1>1, <2>2, <3>1, TimeGoesOn
      <4>2. b = t1 + c /\ c < Horizon
        BY <1>1, <1>2, <1>3, <2>1, <4>1
      <4> QED
        BY <1>1, <1>2, <1>3, <1>5, <2>2, <4>2
    <3> QED
      BY <3>1
  <2>4. g \in Gaps(i)
    <3>1. g \in 1..Horizon
      BY <1>1, <2>1
    <3> QED
      BY <2>3, <3>1 DEF Gaps
  <2>5. PICK e \in Nat : e = Horizon - c /\ m + e = i + Horizon
    BY <1>1, <1>4, <2>1
  <2>6. ASSUME NEW k \in 1..e PROVE ~(Time(m + k) - Time(m + k - 1) > 1)
    <3>1. PICK j \in 1..Horizon : j = c + k /\ j > c
      BY <1>1, <2>1, <2>5
    <3>2. i + j = m + k /\ i + j - 1 = m + k - 1
      BY <1>1, <1>4, <2>1, <2>5, <3>1
    <3>3. j # g
      BY <2>1, <2>3, <3>1
    <3>4. j \notin Gaps(i)
      BY <2>4, <3>3, GapsCounted
    <3> QED
      BY <3>2, <3>4 DEF Gaps
  <2>7. Time(m + e) = Time(m) + e
    <3>1. m + e <= Len(bars) /\ e \in 0..e
      BY <1>2, <2>5
    <3> QED
      BY <1>1, <2>6, <3>1, TimeGoesOn
  <2>8. Time(i + Horizon) = b + e /\ e <= Horizon
    BY <1>1, <1>3, <2>1, <2>5, <2>7
  <2> QED
    BY <1>1, <1>3, <2>5, <2>8
<1> QED
  BY <1>1, <1>4, <1>8, <1>9

(* Without gaps, a label ends before what is purged after it.              *)
LEMMA PurgedBlock ==
  ASSUME LabelsInv, NEW t1 \in Times, NEW c \in Int, NEW t2 \in Int, t1 <= c, c + Purge < t2
  PROVE  t1 < t2 /\ (GapsIn(RowAt(t1).at) <= 0 => Until(RowAt(t1).at) < t2)
<1>1. Horizon \in Nat \ {0} /\ Purge \in Nat /\ Purge >= Horizon /\ BarsInv
  BY LabelsAssumption, SplitsAssumption, ExperimentAssumption DEF LabelsInv
<1>2. PICK i \in 1..Len(bars) : /\ i = RowAt(t1).at /\ i + Horizon <= Len(bars) /\ Time(i) = t1
                                /\ t1 \in Nat
  BY RowOfTime
<1>3. t1 < t2
  BY <1>1, <1>2
<1>4. ASSUME GapsIn(i) <= 0 PROVE Time(i + Horizon) < t2
  <2>1. GapsIn(i) = 0
    BY <1>4, GapsCounted
  <2>2. Horizon \in 0..Horizon
    BY <1>1
  <2>3. Time(i + Horizon) = Time(i) + Horizon
    BY <1>1, <1>2, <2>1, <2>2, NoGapCrossed
  <2> QED
    BY <1>1, <1>2, <2>3
<1> QED
  BY <1>2, <1>3, <1>4 DEF Until

(* The decision times are finitely many naturals.                          *)
LEMMA TimesFinite ==
  ASSUME LabelsInv
  PROVE  IsFiniteSet(Times) /\ Times \subseteq Nat
<1>1. BarsInv /\ Len(bars) \in Nat
  BY DEF LabelsInv, BarsInv
<1> DEFINE f == [i \in 1..Len(bars) |-> Time(i)]
           All == {f[i] : i \in 1..Len(bars)}
<1>2. IsFiniteSet(1..Len(bars))
  BY <1>1, FS_Interval
<1>3. f \in Surjection(1..Len(bars), All)
  BY DEF Surjection
<1>4. IsFiniteSet(All)
  <2> HIDE DEF f, All
  <2> QED
    BY <1>2, <1>3, FS_Surjection
<1>5. ASSUME NEW t \in Times PROVE t \in All /\ t \in Nat
  <2>1. RowAt(t).at \in 1..Len(bars) /\ Time(RowAt(t).at) = t /\ t \in Nat
    BY RowOfTime
  <2> QED
    BY <2>1
<1>6. Times \in SUBSET All
  BY <1>5
<1> HIDE DEF All
<1> QED
  BY <1>4, <1>5, <1>6, FS_Subset

(* The two boundaries of the out-of-sample split are decision times, the   *)
(* first before the second.                                                *)
SplitBy(times, b1, b2) ==
  /\ b1 \in times /\ b2 \in times /\ b1 + Purge < b2 - Purge
  /\ Split(times).train = {t \in times : t <= b1 - Purge}
  /\ Split(times).validation = {t \in times : b1 + Purge < t /\ t <= b2 - Purge}
  /\ Split(times).test = {t \in times : b2 + Purge < t}

(* The split has two boundaries, a purge apart on either side.             *)
LEMMA SplitBounded ==
  ASSUME NEW times, IsFiniteSet(times), times \subseteq Nat, Splittable(times)
  PROVE  \E b1, b2 : SplitBy(times, b1, b2)
<1> DEFINE n == Cardinality(times)
           i == Larger(1, (n * TrainPct) \div 100)
           j == Larger(i + 1, (n * (TrainPct + ValidationPct)) \div 100)
           m == IF j >= n THEN n - 1 ELSE j
           b1 == Nth(times, i)
           b2 == Nth(times, m)
<1>1. n \in Nat /\ n >= 3 /\ Split(times).validation # {}
  BY FS_CardinalityType DEF Splittable
<1>2. TrainPct \in 0..100 /\ TrainPct + ValidationPct \in 0..100
  <2>1. {TrainPct, ValidationPct, FirstPct} \subseteq 1..99 /\ TrainPct + ValidationPct < 100
    BY SplitsAssumption
  <2>2. TrainPct \in 1..99 /\ ValidationPct \in 1..99
    BY <2>1
  <2> QED
    BY <2>1, <2>2
<1>3. (n * TrainPct) \div 100 \in 0..n
  <2> HIDE DEF n
  <2> QED
    BY <1>1, <1>2, Percent
<1>4. (n * (TrainPct + ValidationPct)) \div 100 \in 0..n
  <2> HIDE DEF n
  <2>1. PICK p \in 0..100 : p = TrainPct + ValidationPct
    BY <1>2
  <2>2. (n * p) \div 100 \in 0..n
    BY <1>1, <2>1, Percent
  <2> QED
    BY <2>1, <2>2
<1>5. i \in 1..n
  <2>1. PICK x \in 0..n : x = (n * TrainPct) \div 100
    BY <1>3
  <2> HIDE DEF n
  <2> QED
    BY <1>1, <2>1 DEF Larger
<1>6. j \in Nat /\ j >= 2
  <2>1. PICK x \in 0..n : x = (n * (TrainPct + ValidationPct)) \div 100
    BY <1>4
  <2> HIDE DEF n, i
  <2> QED
    BY <1>1, <1>5, <2>1 DEF Larger
<1>7. m \in 1..n
  <2> HIDE DEF n, j
  <2> QED
    BY <1>1, <1>6
<1>8. Split(times) = [train      |-> {t \in times : t <= b1 - Purge},
                      validation |-> {t \in times : b1 + Purge < t /\ t <= b2 - Purge},
                      test       |-> {t \in times : b2 + Purge < t}]
  BY DEF Split
<1> HIDE DEF n, i, j, m
<1>9. b1 \in times
  BY <1>5, NthFound DEF n
<1>10. b2 \in times
  BY <1>7, NthFound DEF n
<1> HIDE DEF b1, b2
<1>13. Split(times).validation = {t \in times : b1 + Purge < t /\ t <= b2 - Purge}
  BY <1>8
<1>11. PICK t \in times : b1 + Purge < t /\ t <= b2 - Purge
  BY <1>1, <1>13
<1>12. b1 + Purge < b2 - Purge
  BY <1>9, <1>10, <1>11, SplitsAssumption
<1> QED
  BY <1>8, <1>9, <1>10, <1>12 DEF SplitBy

(* Training and validation are settled before what is tested.              *)
LEMMA SplitSettled ==
  ASSUME LabelsInv, Splittable(Times)
  PROVE  /\ Settled(Split(Times).train \cup Split(Times).validation, Split(Times).test, 1)
         /\ Settled(Split(Times).train, Split(Times).validation, 1)
<1>1. IsFiniteSet(Times) /\ Times \subseteq Nat /\ Purge \in Nat
  BY TimesFinite, SplitsAssumption
<1>2. PICK b1, b2 : SplitBy(Times, b1, b2)
  BY <1>1, SplitBounded
<1>3. b1 \in Times /\ b2 \in Times /\ b1 \in Nat /\ b2 \in Nat /\ b1 + Purge < b2 - Purge
  BY <1>1, <1>2 DEF SplitBy
<1>4. ASSUME NEW t1 \in Split(Times).train PROVE t1 \in Times /\ t1 <= b1 - Purge /\ t1 <= b2 - Purge
  <2>1. t1 \in Times /\ t1 <= b1 - Purge /\ t1 \in Nat
    BY <1>1, <1>2 DEF SplitBy
  <2> QED
    BY <1>1, <1>3, <2>1
<1>5. ASSUME NEW t1 \in Split(Times).validation
      PROVE  t1 \in Times /\ t1 \in Int /\ b1 + Purge < t1 /\ t1 <= b2 - Purge
  <2>1. t1 \in Times /\ b1 + Purge < t1 /\ t1 <= b2 - Purge
    BY <1>2 DEF SplitBy
  <2> QED
    BY <1>1, <2>1
<1>6. ASSUME NEW t2 \in Split(Times).test PROVE t2 \in Times /\ t2 \in Int /\ b2 + Purge < t2
  <2>1. t2 \in Times /\ b2 + Purge < t2
    BY <1>2 DEF SplitBy
  <2> QED
    BY <1>1, <2>1
<1>7. Settled(Split(Times).train \cup Split(Times).validation, Split(Times).test, 1)
  <2>1. ASSUME NEW t1 \in Split(Times).train \cup Split(Times).validation, NEW t2 \in Split(Times).test
        PROVE  t1 < t2 /\ (GapsIn(RowAt(t1).at) <= 1 => Until(RowAt(t1).at) < t2)
    <3>1. t1 \in Times /\ t1 <= b2 - Purge
      BY <1>4, <1>5
    <3> QED
      BY <1>3, <1>6, <3>1, PurgedBoundary
  <2> QED
    BY <2>1 DEF Settled
<1>8. Settled(Split(Times).train, Split(Times).validation, 1)
  <2>1. ASSUME NEW t1 \in Split(Times).train, NEW t2 \in Split(Times).validation
        PROVE  t1 < t2 /\ (GapsIn(RowAt(t1).at) <= 1 => Until(RowAt(t1).at) < t2)
    BY <1>3, <1>4, <1>5, PurgedBoundary
  <2> QED
    BY <2>1 DEF Settled
<1> QED
  BY <1>7, <1>8

(* The blocks of the walk-forward windows follow each other and end with   *)
(* the times.                                                              *)
LEMMA BlocksFollow ==
  ASSUME NEW n \in Nat, n >= Folds * 3, n - First(n) >= Folds
  PROVE  /\ \A k \in 0..Folds : EndOfBlock(n, k) \in 1..n
         /\ \A k \in 0..Folds, j \in 0..Folds : j < k => EndOfBlock(n, j) < EndOfBlock(n, k)
<1>1. Folds \in Nat \ {0} /\ FirstPct \in 0..100
  <2>1. {TrainPct, ValidationPct, FirstPct} \subseteq 1..99
    BY SplitsAssumption
  <2>2. FirstPct \in 1..99
    BY <2>1
  <2> QED
    BY <2>2, SplitsAssumption
<1>2. First(n) \in 1..n
  <2>1. PICK x \in 0..n : x = (n * FirstPct) \div 100
    BY <1>1, Percent
  <2>2. n >= 1
    BY <1>1
  <2> QED
    BY <2>1, <2>2 DEF First, Larger
<1>3. PICK rest \in Nat : rest = n - First(n) /\ rest >= Folds
  BY <1>1, <1>2
<1>4. PICK q \in Nat : q = rest \div Folds
  BY <1>1
<1>5. PICK r \in 0..(Folds - 1) : r = rest % Folds
  BY <1>1
<1>6. rest = Folds * q + r /\ q >= 1
  <2>1. rest = Folds * q + r
    BY <1>1, <1>4, <1>5
  <2>2. ASSUME q = 0 PROVE FALSE
    <3>1. Folds * q = 0
      BY <1>1, <2>2
    <3> QED
      BY <1>1, <1>3, <1>5, <2>1, <3>1
  <2> QED
    BY <1>4, <2>1, <2>2
<1> DEFINE Odd(k) == IF k < r THEN k ELSE r
<1>7. ASSUME NEW k \in 0..Folds PROVE EndOfBlock(n, k) = First(n) + k * q + Odd(k)
  BY <1>3, <1>4, <1>5 DEF EndOfBlock
<1>8. ASSUME NEW k \in 0..Folds PROVE EndOfBlock(n, k) \in 1..n
  <2>1. k \in Nat /\ Odd(k) \in 0..r /\ r \in Nat
    BY <1>1, <1>5
  <2>2. (Folds - k) * q >= 0 /\ (Folds - k) * q = Folds * q - k * q /\ k * q \in Nat
    <3>1. PICK f \in Nat : f = Folds
      BY <1>1
    <3>2. PICK c \in Nat : c = f - k
      BY <3>1
    <3>3. c * q >= 0 /\ c * q = f * q - k * q /\ k * q \in Nat
      BY <1>4, <2>1, <3>1, <3>2
    <3> QED
      BY <3>1, <3>2, <3>3
  <2> HIDE DEF Odd
  <2>3. PICK x \in Nat, y \in Int : x = k * q /\ y = Folds * q
    BY <1>1, <1>4, <2>2
  <2>4. x <= y
    BY <2>2, <2>3
  <2>5. First(n) + x + Odd(k) \in 1..n
    BY <1>2, <1>3, <1>6, <2>1, <2>3, <2>4
  <2> QED
    BY <1>7, <2>3, <2>5
<1>9. ASSUME NEW k \in 0..Folds, NEW j \in 0..Folds, j < k PROVE EndOfBlock(n, j) < EndOfBlock(n, k)
  <2>1. k \in Nat /\ j \in Nat /\ Odd(k) \in 0..r /\ Odd(j) \in 0..r /\ Odd(j) <= Odd(k) /\ r \in Nat
    BY <1>1, <1>5, <1>9
  <2>2. (k - j) * q >= 1 /\ (k - j) * q = k * q - j * q
    BY <1>4, <1>6, <1>9, <2>1
  <2> HIDE DEF Odd
  <2>3. PICK x \in Int, y \in Int : x = k * q /\ y = j * q
    BY <1>4, <2>1
  <2>4. y < x
    BY <2>2, <2>3
  <2>5. First(n) + y + Odd(j) < First(n) + x + Odd(k)
    BY <1>2, <2>1, <2>3, <2>4
  <2> QED
    BY <1>7, <2>3, <2>5
<1> QED
  BY <1>8, <1>9

(* Where the blocks of the windows begin and end, among the times.         *)
LEMMA BlockTimes ==
  ASSUME LabelsInv, Windowable(Times), NEW k \in 1..Folds
  PROVE  \E b, c, e \in Nat :
           /\ b = Nth(Times, EndOfBlock(Cardinality(Times), k - 1))
           /\ c = Nth(Times, EndOfBlock(Cardinality(Times), k - 1) + 1)
           /\ e = Nth(Times, EndOfBlock(Cardinality(Times), k))
           /\ b < c /\ c <= e
<1>1. IsFiniteSet(Times) /\ Times \subseteq Nat /\ Folds \in Nat \ {0}
  BY TimesFinite, SplitsAssumption
<1>2. PICK n \in Nat : n = Cardinality(Times)
  BY <1>1, FS_CardinalityType
<1>3. n >= Folds * 3 /\ n - First(n) >= Folds
  BY <1>2 DEF Windowable
<1>4. k \in 0..Folds /\ k - 1 \in 0..Folds /\ k - 1 < k
  BY <1>1
<1>5. PICK i \in 1..n : i = EndOfBlock(n, k - 1)
  BY <1>3, <1>4, BlocksFollow
<1>6. PICK j \in 1..n : j = EndOfBlock(n, k)
  BY <1>3, <1>4, BlocksFollow
<1>7. i < j
  BY <1>3, <1>4, <1>5, <1>6, BlocksFollow
<1>8. i + 1 \in 1..n /\ i < i + 1 /\ i + 1 <= j
  BY <1>5, <1>6, <1>7
<1>9. PICK b \in Nat, c \in Nat : b = Nth(Times, i) /\ c = Nth(Times, i + 1) /\ b < c
  BY <1>1, <1>2, <1>8, NthOrder
<1>10. PICK e \in Nat : e = Nth(Times, j)
  BY <1>1, <1>2, NthFound
<1>11. c <= e
  <2>1. CASE i + 1 = j
    BY <1>9, <1>10, <2>1
  <2>2. CASE i + 1 # j
    <3>1. i + 1 < j
      BY <1>6, <1>8, <2>2
    <3>2. c < e
      BY <1>1, <1>2, <1>8, <1>9, <1>10, <3>1, NthOrder
    <3> QED
      BY <3>2
  <2> QED
    BY <2>1, <2>2
<1> QED
  BY <1>2, <1>5, <1>6, <1>9, <1>10, <1>11

(* A fold trains on what is settled before its test, unless a gap is       *)
(* crossed.                                                                *)
LEMMA WindowSettled ==
  ASSUME LabelsInv, Windowable(Times), NEW k \in 1..Folds
  PROVE  Settled(Window(Times, k).train, Window(Times, k).test, 0)
<1>1. PICK b, c, e \in Nat :
        /\ b = Nth(Times, EndOfBlock(Cardinality(Times), k - 1))
        /\ c = Nth(Times, EndOfBlock(Cardinality(Times), k - 1) + 1)
        /\ e = Nth(Times, EndOfBlock(Cardinality(Times), k))
        /\ b < c /\ c <= e
  BY BlockTimes
<1>2. /\ Window(Times, k).train = {t \in Times : t <= b}
      /\ Window(Times, k).test = {t \in Times : c + Purge < t /\ t <= e}
  BY <1>1 DEF Window
<1>3. ASSUME NEW t1 \in Window(Times, k).train, NEW t2 \in Window(Times, k).test
      PROVE  t1 < t2 /\ (GapsIn(RowAt(t1).at) <= 0 => Until(RowAt(t1).at) < t2)
  <2>1. t1 \in Times /\ t2 \in Times /\ t1 <= b /\ c + Purge < t2 /\ t1 \in Nat /\ t2 \in Nat
    BY <1>2, <1>3, TimesFinite
  <2>2. t1 <= c
    BY <1>1, <2>1
  <2> QED
    BY <1>1, <2>1, <2>2, PurgedBlock
<1> QED
  BY <1>3 DEF Settled

(* No time is tested in two folds.                                         *)
LEMMA WindowsApart ==
  ASSUME LabelsInv, Windowable(Times), NEW j \in 1..Folds, NEW k \in 1..Folds, j < k
  PROVE  Window(Times, j).test \cap Window(Times, k).test = {}
<1>1. IsFiniteSet(Times) /\ Times \subseteq Nat /\ Folds \in Nat \ {0} /\ Purge \in Nat
  BY TimesFinite, SplitsAssumption
<1>2. PICK b, c, e \in Nat :
        /\ b = Nth(Times, EndOfBlock(Cardinality(Times), k - 1))
        /\ c = Nth(Times, EndOfBlock(Cardinality(Times), k - 1) + 1)
        /\ e = Nth(Times, EndOfBlock(Cardinality(Times), k))
        /\ b < c /\ c <= e
  BY BlockTimes
<1>3. PICK last \in Nat : last = Nth(Times, EndOfBlock(Cardinality(Times), j)) /\ last <= b
  <2>1. PICK n \in Nat : n = Cardinality(Times)
    BY <1>1, FS_CardinalityType
  <2>2. n >= Folds * 3 /\ n - First(n) >= Folds
    BY <2>1 DEF Windowable
  <2>3. j \in 0..Folds /\ k - 1 \in 0..Folds /\ (j = k - 1 \/ j < k - 1)
    BY <1>1
  <2>4. PICK i \in 1..n : i = EndOfBlock(n, j)
    BY <2>2, <2>3, BlocksFollow
  <2>5. PICK m \in 1..n : m = EndOfBlock(n, k - 1)
    BY <2>2, <2>3, BlocksFollow
  <2>6. PICK last \in Nat : last = Nth(Times, i)
    BY <1>1, <2>1, NthFound
  <2>7. i = m \/ i < m
    BY <2>2, <2>3, <2>4, <2>5, BlocksFollow
  <2>8. CASE i = m
    BY <1>2, <2>1, <2>4, <2>5, <2>6, <2>8
  <2>9. CASE i < m
    <3>1. last < b
      BY <1>1, <1>2, <2>1, <2>5, <2>6, <2>9, NthOrder
    <3> QED
      BY <2>1, <2>4, <2>6, <3>1
  <2> QED
    BY <2>7, <2>8, <2>9
<1>4. ASSUME NEW t \in Window(Times, j).test, t \in Window(Times, k).test PROVE FALSE
  <2>1. t \in Times /\ t <= last
    BY <1>3 DEF Window
  <2>2. c + Purge < t
    BY <1>2, <1>4 DEF Window
  <2>3. t \in Nat
    BY <1>1, <2>1
  <2> QED
    BY <1>1, <1>2, <1>3, <2>1, <2>2, <2>3
<1> QED
  BY <1>4

SumIn(f, S) ==
  /\ SumFunctionOnSet(f, {}) = 0
  /\ \A U \in SUBSET S : \A x \in U :
       SumFunctionOnSet(f, U) = f[x] + SumFunctionOnSet(f, U \ {x})

(* The sum over the subsets of a finite set, one element at a time.        *)
LEMMA SumWithout ==
  ASSUME NEW S, IsFiniteSet(S), NEW f, f \in [S -> Int]
  PROVE  SumIn(f, S)
<1>1. {} \in SUBSET S
  OBVIOUS
<1>2. SumFunctionOnSet(f, {}) = 0
  BY <1>1, SumTaken
<1>3. ASSUME NEW U \in SUBSET S, NEW x \in U
      PROVE  SumFunctionOnSet(f, U) = f[x] + SumFunctionOnSet(f, U \ {x})
  BY SumTaken
<1> QED
  BY <1>2, <1>3 DEF SumIn

SetsApart(T, n, f) ==
  /\ n \in Nat /\ f \in [1..n -> Int]
  /\ \A i \in 1..n : IsFiniteSet(T[i]) /\ f[i] = Cardinality(T[i])
  /\ \A i, j \in 1..n : i < j => T[i] \cap T[j] = {}
Together(T, n) == UNION {T[i] : i \in 1..n}

(* Sets without a common element have together as many as they have each.  *)
LEMMA ApartAdded ==
  ASSUME NEW n, NEW T, NEW f, SetsApart(T, n, f)
  PROVE  SumFunctionOnSet(f, 1..n) = Cardinality(Together(T, n))
<1> DEFINE All(m) == UNION {T[i] : i \in 1..m}
           Added == {m \in 0..n : IsFiniteSet(All(m)) /\ SumFunctionOnSet(f, 1..m) = Cardinality(All(m))}
<1>1. SumIn(f, 1..n)
  <2>1. IsFiniteSet(1..n) /\ f \in [1..n -> Int]
    BY FS_Interval DEF SetsApart
  <2> QED
    BY <2>1, SumWithout
<1>7. n \in Nat
  BY DEF SetsApart
<1>8. \A i \in 1..n : IsFiniteSet(T[i]) /\ f[i] = Cardinality(T[i])
  BY DEF SetsApart
<1>2. 0 \in Added
  <2>1. All(0) = {} /\ 1..0 = {} /\ 0 \in 0..n
    BY <1>7
  <2>2. IsFiniteSet({}) /\ Cardinality({}) = 0
    BY FS_EmptySet
  <2> HIDE DEF All
  <2>3. IsFiniteSet(All(0)) /\ SumFunctionOnSet(f, 1..0) = Cardinality(All(0))
    BY <1>1, <2>1, <2>2, Zenon DEF SumIn
  <2> QED
    BY <2>1, <2>3
<1>3. ASSUME NEW m \in 0..(n - 1), m \in Added PROVE m + 1 \in Added
  <2>1. PICK k \in 1..n : k = m + 1 /\ (1..k) \ {k} = 1..m /\ k \in 1..k /\ 1..k \in SUBSET (1..n)
    BY <1>7
  <2>2. All(k) = All(m) \cup T[k]
    <3>1. 1..k = (1..m) \cup {k}
      BY <2>1
    <3> QED
      BY <3>1
  <2>3. All(m) \cap T[k] = {}
    <3>1. \A i \in 1..m : i \in 1..n /\ i < k
      BY <1>7, <2>1
    <3>2. \A i \in 1..m : T[i] \cap T[k] = {}
      BY <3>1 DEF SetsApart
    <3> QED
      BY <3>2
  <2>4. PICK A : A = All(m)
    OBVIOUS
  <2>5. IsFiniteSet(A) /\ IsFiniteSet(T[k]) /\ A \cap T[k] = {}
    BY <1>3, <1>8, <2>3, <2>4
  <2>6. IsFiniteSet(A \cup T[k]) /\ Cardinality(A \cup T[k]) = Cardinality(A) + Cardinality(T[k])
    <3>1. PICK a \in Nat : a = Cardinality(A)
      BY <2>5, FS_CardinalityType
    <3>2. PICK t \in Nat : t = Cardinality(T[k])
      BY <2>5, FS_CardinalityType
    <3>3. Cardinality(A \cap T[k]) = 0
      BY <2>5, FS_EmptySet
    <3>4. /\ IsFiniteSet(A \cup T[k])
          /\ Cardinality(A \cup T[k]) = Cardinality(A) + Cardinality(T[k]) - Cardinality(A \cap T[k])
      BY <2>5, FS_Union
    <3>5. a + t - 0 = a + t
      OBVIOUS
    <3> QED
      BY <3>1, <3>2, <3>3, <3>4, <3>5
  <2>7. SumFunctionOnSet(f, 1..k) = f[k] + SumFunctionOnSet(f, 1..m)
    <3>1. SumFunctionOnSet(f, 1..k) = f[k] + SumFunctionOnSet(f, (1..k) \ {k})
      BY <1>1, <2>1, Zenon DEF SumIn
    <3> QED
      BY <2>1, <3>1, Zenon
  <2>8. SumFunctionOnSet(f, 1..m) = Cardinality(A) /\ f[k] = Cardinality(T[k])
    BY <1>3, <1>8, <2>4
  <2>9. SumFunctionOnSet(f, 1..k) = Cardinality(A) + Cardinality(T[k])
    <3>1. PICK a \in Nat : a = Cardinality(A)
      BY <2>5, FS_CardinalityType
    <3>2. PICK t \in Nat : t = Cardinality(T[k])
      BY <2>5, FS_CardinalityType
    <3>3. t + a = a + t
      OBVIOUS
    <3>4. SumFunctionOnSet(f, 1..k) = t + a
      BY <2>1, <2>7, <2>8, <3>1, <3>2
    <3> QED
      BY <3>1, <3>2, <3>3, <3>4
  <2>10. k \in 0..n
    BY <1>7, <2>1
  <2> QED
    BY <2>1, <2>2, <2>4, <2>6, <2>9, <2>10
<1>4. 0..n \subseteq Added
  <2> HIDE DEF Added
  <2> QED
    BY <1>2, <1>3, <1>7, Counted
<1>5. n \in 0..n
  BY <1>7
<1>6. n \in Added
  <2> HIDE DEF Added
  <2> QED
    BY <1>4, <1>5
<1> QED
  BY <1>6 DEF Together

-----------------------------------------------------------------------------
(* The experiment                                                          *)

TestsOf(fs) == [k \in DOMAIN fs |-> fs[k].test]

(* What is reported is a split, and the windows in their order, of the     *)
(* dataset as it stands since the experiment began.                        *)
Reported ==
  /\ phase = "history" => outOfSample = NoReport /\ folds = <<>>
  /\ outOfSample = NoReport \/ (Splittable(Times) /\ outOfSample = Split(Times))
  /\ folds \in Seq(Range(folds)) /\ Len(folds) \in 0..Folds
  /\ \A k \in DOMAIN folds : Windowable(Times) /\ folds[k] = Window(Times, k)
  /\ phase = "recorded" =>
       observations = Cardinality(outOfSample.test)
                      + SumFunction([k \in DOMAIN folds |-> Cardinality(folds[k].test)])

ExperimentInv == LabelsInv /\ Reported

(* Nothing is reported at the start.                                       *)
LEMMA ReportStarts ==
  ASSUME ExperimentInit
  PROVE  Reported
<1>1. phase = "history" /\ outOfSample = NoReport /\ folds = <<>> /\ Folds \in Nat
  BY SplitsAssumption DEF ExperimentInit
<1>2. folds \in Seq(Range(folds)) /\ Len(folds) = 0 /\ DOMAIN folds = {}
  BY <1>1, EmptyListed
<1> QED
  BY <1>1, <1>2 DEF Reported

(* Every step of the experiment keeps what is reported.                    *)
LEMMA ReportStep ==
  ASSUME ExperimentInv, [ExperimentNext]_experimentVars
  PROVE  Reported'
<1>1. Reported /\ Folds \in Nat
  BY SplitsAssumption DEF ExperimentInv
<1>2. CASE UNCHANGED reportVars /\ (UNCHANGED labelVars \/ phase = "history")
  <2>1. UNCHANGED <<phase, outOfSample, folds, observations>>
    BY <1>2 DEF reportVars
  <2>2. CASE UNCHANGED labelVars
    <3>1. Times' = Times
      BY <2>2 DEF labelVars, Times
    <3>2. phase' = phase /\ outOfSample' = outOfSample /\ folds' = folds /\ observations' = observations
      BY <2>1
    <3> QED
      BY <1>1, <3>1, <3>2 DEF Reported, Splittable, Windowable
  <2>3. CASE phase = "history"
    <3>1. outOfSample = NoReport /\ folds = <<>>
      BY <1>1, <2>3 DEF Reported
    <3>2. DOMAIN folds = {}
      BY <3>1
    <3>3. /\ phase' = "history" /\ outOfSample' = NoReport /\ folds' = <<>> /\ DOMAIN folds' = {}
          /\ folds' \in Seq(Range(folds')) /\ Len(folds') \in 0..Folds
      BY <1>1, <2>1, <2>3, <3>1, <3>2, EmptyListed
    <3> QED
      BY <3>3 DEF Reported, NoReport
  <2> QED
    BY <1>2, <2>2, <2>3
<1>3. ASSUME NEW kept, kept = Times, Times' = kept, phase' # "history", phase' # "recorded",
             UNCHANGED folds,
             outOfSample' = outOfSample \/ (Splittable(Times) /\ outOfSample' = Split(Times))
      PROVE  Reported'
  <2>1. Times' = Times /\ folds' = folds
    BY <1>3
  <2> QED
    BY <1>1, <1>3, <2>1 DEF Reported, NoReport, Splittable, Windowable
<1>4. CASE Execute
  <2>1. /\ phase' \in {"backtest", "oos"} /\ outOfSample' = outOfSample /\ folds' = folds /\ Times' = Times
    BY <1>4 DEF Execute, labelVars, Times
  <2> QED
    BY <1>3, <2>1
<1>5. CASE Backtest
  <2>1. /\ phase' \in {"backtest", "oos"} /\ outOfSample' = outOfSample /\ folds' = folds /\ Times' = Times
    BY <1>5 DEF Backtest, labelVars, Times
  <2> QED
    BY <1>3, <2>1
<1>6. ASSUME NEW answers \in BOOLEAN, EvaluateOOS(answers) PROVE Reported'
  <2>1. /\ phase' \in {"walk_forward", "failed"} /\ folds' = folds /\ Times' = Times
        /\ outOfSample' = outOfSample \/ (Splittable(Times) /\ outOfSample' = Split(Times))
    BY <1>6 DEF EvaluateOOS, labelVars, Times
  <2> QED
    BY <1>3, <2>1
<1>7. ASSUME NEW answers \in BOOLEAN, EvaluateFold(answers) PROVE Reported'
  <2>1. /\ phase = "walk_forward" /\ Len(folds) < Folds /\ outOfSample' = outOfSample /\ Times' = Times
    BY <1>7 DEF EvaluateFold, labelVars, Times
  <2>2. CASE Windowable(Times) /\ answers
    <3>1. PICK w : w = Window(Times, Len(folds) + 1)
      OBVIOUS
    <3>2. folds' = Append(folds, w) /\ phase' = "walk_forward"
      BY <1>7, <2>1, <2>2, <3>1 DEF EvaluateFold
    <3>3. /\ folds' \in Seq(Range(folds')) /\ DOMAIN folds = 1..Len(folds) /\ Len(folds) \in Nat
          /\ DOMAIN folds' = 1..(Len(folds) + 1) /\ Len(folds') = Len(folds) + 1
          /\ folds'[Len(folds) + 1] = w
          /\ \A i \in 1..Len(folds) : folds'[i] = folds[i]
      BY <1>1, <3>2, Appended DEF Reported
    <3>4. ASSUME NEW k \in DOMAIN folds' PROVE folds'[k] = Window(Times, k)
      <4>1. k \in 1..Len(folds) \/ k = Len(folds) + 1
        BY <3>3
      <4> QED
        BY <1>1, <3>1, <3>3, <4>1 DEF Reported
    <3>5. Len(folds') \in 0..Folds
      BY <1>1, <2>1, <3>3
    <3> QED
      BY <1>1, <2>1, <2>2, <3>2, <3>3, <3>4, <3>5 DEF Reported, Splittable, Windowable
  <2>3. CASE ~(Windowable(Times) /\ answers)
    <3>1. phase' = "failed" /\ folds' = folds
      BY <1>7, <2>3 DEF EvaluateFold
    <3> QED
      BY <1>3, <2>1, <3>1
  <2> QED
    BY <2>2, <2>3
<1>8. CASE Record
  <2>1. /\ phase' = "recorded" /\ outOfSample' = outOfSample /\ folds' = folds /\ Times' = Times
        /\ observations' = Cardinality(outOfSample.test)
                           + SumFunction([k \in DOMAIN folds |-> Cardinality(folds[k].test)])
    BY <1>8 DEF Record, labelVars, Times
  <2> QED
    BY <1>1, <2>1 DEF Reported, Splittable, Windowable
<1>9. CASE Grow
  BY <1>2, <1>9 DEF Grow
<1>10. CASE UNCHANGED experimentVars
  BY <1>2, <1>10 DEF experimentVars
<1> QED
  BY <1>4, <1>5, <1>6, <1>7, <1>8, <1>9, <1>10 DEF ExperimentNext

(* The inductive invariant implies that nothing tested was seen.           *)
LEMMA NothingSeen ==
  ASSUME ExperimentInv
  PROVE  NothingTestedWasSeen
<1>1. LabelsInv /\ IsFiniteSet(Times) /\ Folds \in Nat
  BY TimesFinite, SplitsAssumption DEF ExperimentInv
<1>2. PICK n \in 0..Folds : n = Len(folds) /\ DOMAIN folds = 1..n
  <2>1. folds \in Seq(Range(folds)) /\ Len(folds) \in 0..Folds
    BY DEF ExperimentInv, Reported
  <2> QED
    BY <2>1
<1>3. ASSUME NEW k \in 1..n PROVE k \in 1..Folds /\ Windowable(Times) /\ folds[k] = Window(Times, k)
  <2>1. k \in 1..Folds
    BY <1>1
  <2> QED
    BY <1>2, <2>1 DEF ExperimentInv, Reported
<1>4. /\ Settled(outOfSample.train \cup outOfSample.validation, outOfSample.test, 1)
      /\ Settled(outOfSample.train, outOfSample.validation, 1)
  <2>1. CASE outOfSample = NoReport
    BY <2>1 DEF NoReport, Settled
  <2>2. CASE Splittable(Times) /\ outOfSample = Split(Times)
    BY <1>1, <2>2, SplitSettled
  <2> QED
    BY <2>1, <2>2 DEF ExperimentInv, Reported
<1>5. \A k \in 1..n : Settled(folds[k].train, folds[k].test, 0)
  <2>1. ASSUME NEW k \in 1..n PROVE Settled(folds[k].train, folds[k].test, 0)
    BY <1>1, <1>3, WindowSettled
  <2> QED
    BY <2>1
<1>6. \A j, k \in 1..n : j < k => folds[j].test \cap folds[k].test = {}
  <2>1. ASSUME NEW j \in 1..n, NEW k \in 1..n, j < k PROVE folds[j].test \cap folds[k].test = {}
    <3>1. /\ j \in 1..Folds /\ k \in 1..Folds /\ Windowable(Times)
          /\ folds[j] = Window(Times, j) /\ folds[k] = Window(Times, k)
      BY <1>3
    <3>2. Window(Times, j).test \cap Window(Times, k).test = {}
      BY <1>1, <2>1, <3>1, WindowsApart
    <3> QED
      BY <3>1, <3>2
  <2> QED
    BY <2>1
<1>7. phase = "recorded" =>
        observations = Cardinality(outOfSample.test)
                       + Cardinality(UNION {folds[k].test : k \in DOMAIN folds})
  <2> DEFINE T == TestsOf(folds)
             f == [k \in 1..n |-> Cardinality(T[k])]
  <2>1. DOMAIN T = 1..n /\ \A k \in 1..n : T[k] = folds[k].test
    BY <1>2 DEF TestsOf
  <2>2. \A k \in 1..n : IsFiniteSet(T[k])
    <3>1. ASSUME NEW k \in 1..n PROVE IsFiniteSet(T[k])
      <4>1. folds[k] = Window(Times, k) /\ T[k] = folds[k].test
        BY <1>3, <2>1
      <4>2. Window(Times, k).test \in SUBSET Times
        BY DEF Window
      <4>3. T[k] \in SUBSET Times
        BY <4>1, <4>2
      <4> QED
        BY <1>1, <4>3, FS_Subset
    <3> QED
      BY <3>1
  <2>3. \A i, j \in 1..n : i < j => T[i] \cap T[j] = {}
    BY <1>6, <2>1
  <2>4. n \in Nat
    BY <1>1
  <2>5. SumFunctionOnSet(f, 1..n) = Cardinality(Together(T, n))
    <3>1. ASSUME NEW k \in 1..n PROVE Cardinality(T[k]) \in Int
      BY <2>2, FS_CardinalityType
    <3>2. SetsApart(T, n, f)
      BY <2>2, <2>3, <2>4, <3>1 DEF SetsApart
    <3> HIDE DEF T, f
    <3> QED
      BY <3>2, ApartAdded
  <2>6. [k \in DOMAIN folds |-> Cardinality(folds[k].test)] = f
    BY <1>2, <2>1
  <2>7. SumFunction(f) = SumFunctionOnSet(f, 1..n)
    BY DEF SumFunction, SumFunctionOnSet, FoldFunction
  <2>8. {T[i] : i \in 1..n} = {folds[k].test : k \in DOMAIN folds}
    BY <1>2, <2>1
  <2> HIDE DEF T, f
  <2> QED
    BY <2>5, <2>6, <2>7, <2>8 DEF ExperimentInv, Reported, Together
<1> QED
  BY <1>2, <1>4, <1>5, <1>6, <1>7 DEF NothingTestedWasSeen

(* Nothing that is tested was seen: whatever the bars, their gaps, the     *)
(* percentages of the splits and the number of folds, no label learnt from *)
(* rests on a tested bar as far as the purge of its boundary promises it,  *)
(* no row is tested in two folds, and the record counts each tested row    *)
(* once (splitting.py, walk_forward.py, executor.py).                      *)
THEOREM NothingTestedEverSeen == ExperimentSpec => []NothingTestedWasSeen
<1>1. ExperimentInit => ExperimentInv
  BY LabelsStart, ReportStarts DEF ExperimentInit, ExperimentInv
<1>2. ExperimentInv /\ [ExperimentNext]_experimentVars => ExperimentInv'
  BY LabelsStep, ReportStep DEF ExperimentInv
<1>3. ExperimentInv => NothingTestedWasSeen
  BY NothingSeen
<1> QED
  BY <1>1, <1>2, <1>3, PTL DEF ExperimentSpec

-----------------------------------------------------------------------------
(* The price structure of a row                                            *)

(* A finite set of integers has a largest element, and that is its Max.    *)
LEMMA LargestOf ==
  ASSUME NEW S, IsFiniteSet(S), S \subseteq Int, S # {}
  PROVE  Max(S) \in S /\ \A x \in S : x <= Max(S)
<1> DEFINE Q == {T \in SUBSET S : T = {} \/ \E m \in T : \A x \in T : m >= x}
<1>1. {} \in Q
  OBVIOUS
<1>2. ASSUME NEW T \in SUBSET S, T # {}, \A x \in T : T \ {x} \in Q PROVE T \in Q
  <2>1. PICK y \in T : T \ {y} \in Q
    BY <1>2
  <2>2. CASE T \ {y} = {}
    <3>1. \A x \in T : y >= x
      BY <2>1, <2>2
    <3> QED
      BY <2>1, <3>1
  <2>3. CASE T \ {y} # {}
    <3>1. PICK m \in T \ {y} : \A x \in T \ {y} : m >= x
      BY <2>1, <2>3
    <3>2. m \in Int /\ y \in Int /\ m >= m
      BY <2>1, <3>1
    <3>3. CASE m >= y
      <4>1. \A x \in T : m >= x
        BY <3>1, <3>3
      <4> QED
        BY <3>1, <4>1
    <3>4. CASE y >= m
      <4>1. ASSUME NEW x \in T PROVE y >= x
        <5>1. x \in Int /\ (x = y \/ m >= x)
          BY <3>1
        <5> QED
          BY <3>2, <3>4, <5>1
      <4> QED
        BY <2>1, <4>1
    <3> QED
      BY <3>2, <3>3, <3>4
  <2> QED
    BY <2>2, <2>3
<1>3. S \in Q
  <2> HIDE DEF Q
  <2>1. SUBSET S \subseteq Q
    BY <1>1, <1>2, SubsetInduction
  <2> QED
    BY <2>1
<1>4. \E m \in S : \A x \in S : m >= x
  BY <1>3
<1>5. Max(S) \in S /\ \A x \in S : Max(S) >= x
  BY <1>4 DEF Max
<1> QED
  BY <1>5

(* What a function makes of a finite set is finite.                        *)
LEMMA FiniteImage ==
  ASSUME NEW S, IsFiniteSet(S), NEW f
  PROVE  IsFiniteSet({f[x] : x \in S})
<1> DEFINE T == {f[x] : x \in S}
           g == [x \in S |-> f[x]]
<1>1. g \in Surjection(S, T)
  BY DEF Surjection
<1> HIDE DEF T, g
<1>2. IsFiniteSet(T)
  BY <1>1, FS_Surjection
<1> QED
  BY <1>2 DEF T

(* Two sets with the same elements up to one they share have one Min.      *)
LEMMA SameSmallest ==
  ASSUME NEW A, NEW B, A \subseteq Nat, B \subseteq Nat, NEW y, y \in A, y \in B,
         \A x \in Nat : x <= y => (x \in A <=> x \in B)
  PROVE  Min(A) = Min(B) /\ Min(A) \in A /\ Min(A) <= y
<1>1. PICK d \in A : \A x \in A : d <= x
  BY SmallestOf
<1>2. d \in Nat /\ d <= y /\ y \in Nat /\ d \in B
  BY <1>1
<1>3. ASSUME NEW x \in B PROVE d <= x
  <2>1. x \in Nat
    OBVIOUS
  <2>2. CASE x <= y
    BY <1>1, <2>1, <2>2
  <2>3. CASE x > y
    BY <1>2, <2>1, <2>3
  <2> QED
    BY <1>2, <2>1, <2>2, <2>3
<1>4. \A e \in A : (\A x \in A : e <= x) => e = d
  BY <1>1
<1>5. \A e \in B : (\A x \in B : e <= x) => e = d
  BY <1>2, <1>3
<1>6. Min(A) = d
  BY <1>1, <1>4 DEF Min
<1>7. Min(B) = d
  BY <1>2, <1>3, <1>5 DEF Min
<1> QED
  BY <1>1, <1>2, <1>6, <1>7

(* A history, and the part of it that ends with row i.                     *)
Chart(h) ==
  /\ Len(h) \in Nat /\ DOMAIN h = 1..Len(h)
  /\ \A j \in 1..Len(h) : h[j].high \in Int /\ h[j].low \in Int /\ h[j].close \in Int /\ h[j].time \in Int
  /\ \A j \in 1..Len(h) : h[j].low <= h[j].high
  /\ \A j, k \in 1..Len(h) : j < k => h[j].time < h[k].time
Piece(g, h, i) ==
  /\ i \in 1..Len(h) /\ Len(g) = i /\ DOMAIN g = 1..i
  /\ \A j \in 1..i : g[j] = h[j]

(* What comes from rows of the part is the same in it.                     *)
LEMMA LevelsRest ==
  ASSUME NEW h, NEW g, NEW i, Chart(h), Piece(g, h, i), NEW span, span \subseteq 1..i
  PROVE  Highest(g, span) = Highest(h, span) /\ Lowest(g, span) = Lowest(h, span)
<1>1. \A j \in span : g[j] = h[j]
  BY DEF Piece
<1>2. {g[j].high : j \in span} = {h[j].high : j \in span} /\ {g[j].low : j \in span} = {h[j].low : j \in span}
  BY <1>1
<1> QED
  BY <1>2 DEF Highest, Lowest

(* support_resistance, breakouts, structure_flags.                         *)
LEMMA PeriodRests ==
  ASSUME NEW h, NEW g, NEW i, Chart(h), Piece(g, h, i), NEW k \in 1..i
  PROVE  /\ Support(g, k) = Support(h, k) /\ Resistance(g, k) = Resistance(h, k)
         /\ (BrokeUp(g, k) <=> BrokeUp(h, k)) /\ (BrokeDown(g, k) <=> BrokeDown(h, k))
         /\ Flags(g, k) = Flags(h, k)
<1>1. i \in Nat /\ g[k] = h[k] /\ StructurePeriod \in Nat \ {0}
  BY StructureAssumption DEF Piece, Chart
<1>2. Preceding(k) \subseteq 1..i
  BY <1>1 DEF Preceding
<1>3. Support(g, k) = Support(h, k) /\ Resistance(g, k) = Resistance(h, k)
  BY <1>2, LevelsRest DEF Support, Resistance
<1>4. k # 1 => k - 1 \in 1..i
  BY <1>1
<1>5. k # 1 => g[k - 1] = h[k - 1]
  BY <1>4 DEF Piece
<1> QED
  BY <1>1, <1>3, <1>5 DEF BrokeUp, BrokeDown, Flags

(* swing_levels: a pivot is shown once its right side is complete.         *)
LEMMA SwingsRest ==
  ASSUME NEW h, NEW g, NEW i, Chart(h), Piece(g, h, i)
  PROVE  SwingHigh(g, i) = SwingHigh(h, i) /\ SwingLow(g, i) = SwingLow(h, i)
<1>1. /\ i \in Nat /\ LeftBars \in Nat \ {0} /\ RightBars \in Nat \ {0}
      /\ Len(h) \in Nat /\ DOMAIN h = 1..Len(h) /\ DOMAIN g = 1..i /\ 1..i \subseteq 1..Len(h)
  BY StructureAssumption DEF Piece, Chart
<1> DEFINE span == (LeftBars + 1)..(i - RightBars)
<1>2. Confirmed(g, i) = span /\ Confirmed(h, i) = span
  BY DEF Confirmed
<1>3. ASSUME NEW p \in span, NEW j \in (p - LeftBars)..(p + RightBars) PROVE j \in 1..i /\ p \in 1..i
  BY <1>1
<1>4. ASSUME NEW u, NEW v, \A j \in 1..i : u[j] = v[j]
      PROVE  Pivots(span, u) = Pivots(span, v) /\ Pivots(span, u) \subseteq 1..i
  <2>1. span \subseteq 1..i
    BY <1>1
  <2>2. ASSUME NEW p \in span
        PROVE  (\A j \in (p - LeftBars)..(p + RightBars) : j # p => u[p] > u[j])
               <=> (\A j \in (p - LeftBars)..(p + RightBars) : j # p => v[p] > v[j])
    <3> HIDE DEF span
    <3>1. u[p] = v[p] /\ \A j \in (p - LeftBars)..(p + RightBars) : u[j] = v[j]
      BY <1>3, <1>4, <2>1
    <3> QED
      BY <3>1
  <2> HIDE DEF span
  <2> QED
    BY <2>1, <2>2 DEF Pivots
<1> DEFINE highs(f) == [j \in DOMAIN f |-> f[j].high]
           lows(f)  == [j \in DOMAIN f |-> -f[j].low]
<1>5. \A j \in 1..i : highs(g)[j] = highs(h)[j] /\ lows(g)[j] = lows(h)[j]
  BY <1>1 DEF Piece
<1>6. \A P : P \subseteq 1..i /\ P # {} => Max(P) \in 1..i
  <2>1. ASSUME NEW P, P \subseteq 1..i, P # {} PROVE Max(P) \in 1..i
    <3>1. IsFiniteSet(P) /\ P \subseteq Int
      <4>1. IsFiniteSet(1..i)
        BY <1>1, FS_Interval
      <4>2. IsFiniteSet(P)
        BY <2>1, <4>1, FS_Subset
      <4> QED
        BY <1>1, <2>1, <4>2
    <3>2. Max(P) \in P
      BY <2>1, <3>1, LargestOf
    <3> QED
      BY <2>1, <3>2
  <2> QED
    BY <2>1
<1>7. SwingHigh(g, i) = SwingHigh(h, i)
  <2>1. PICK P : P = Pivots(span, highs(h))
    OBVIOUS
  <2>2. Pivots(span, highs(g)) = P /\ P \subseteq 1..i
    <3> HIDE DEF span, highs
    <3> QED
      BY <1>4, <1>5, <2>1
  <2>3. P # {} => g[Max(P)].high = h[Max(P)].high
    BY <1>6, <2>2 DEF Piece
  <2> HIDE DEF span
  <2> QED
    BY <1>2, <2>1, <2>2, <2>3 DEF SwingHigh
<1>8. SwingLow(g, i) = SwingLow(h, i)
  <2>1. PICK P : P = Pivots(span, lows(h))
    OBVIOUS
  <2>2. Pivots(span, lows(g)) = P /\ P \subseteq 1..i
    <3> HIDE DEF span, lows
    <3> QED
      BY <1>4, <1>5, <2>1
  <2>3. P # {} => g[Max(P)].low = h[Max(P)].low
    BY <1>6, <2>2 DEF Piece
  <2> HIDE DEF span
  <2> QED
    BY <1>2, <2>1, <2>2, <2>3 DEF SwingLow
<1> QED
  BY <1>7, <1>8

(* The sessions begun up to a row are the same in the part.                *)
LEMMA SessionsRest ==
  ASSUME NEW h, NEW g, NEW i, Chart(h), Piece(g, h, i)
  PROVE  /\ Openings(h) \subseteq 1..Len(h) /\ Openings(g) \subseteq 1..i
         /\ \A j \in 1..i : j \in Openings(g) <=> j \in Openings(h)
         /\ \A k \in 1..i : /\ FirstOf(g, k) = FirstOf(h, k)
                            /\ FirstOf(h, k) \in Openings(h) /\ FirstOf(h, k) \in 1..k
                            /\ \A j \in Openings(h) : j <= k => j <= FirstOf(h, k)
<1>1. i \in Nat /\ i \in 1..Len(h) /\ Len(h) \in Nat /\ Len(g) = i
  BY DEF Piece, Chart
<1>2. Openings(h) \subseteq 1..Len(h) /\ Openings(g) \subseteq 1..i
  BY <1>1 DEF Openings
<1>3. ASSUME NEW j \in 1..i PROVE j \in Openings(g) <=> j \in Openings(h)
  <2>1. CASE j = 1
    BY <2>1 DEF Openings
  <2>2. CASE j # 1
    <3>1. j \in 2..i /\ j \in 2..Len(h) /\ j - 1 \in 1..i
      BY <1>1, <2>2
    <3>2. g[j] = h[j] /\ g[j - 1] = h[j - 1]
      BY <3>1 DEF Piece
    <3> QED
      BY <1>1, <2>2, <3>1, <3>2 DEF Openings
  <2> QED
    BY <2>1, <2>2
<1>4. ASSUME NEW k \in 1..i
      PROVE  /\ FirstOf(g, k) = FirstOf(h, k)
             /\ FirstOf(h, k) \in Openings(h) /\ FirstOf(h, k) \in 1..k
             /\ \A j \in Openings(h) : j <= k => j <= FirstOf(h, k)
  <2>1. PICK S : S = {j \in Openings(h) : j <= k}
    OBVIOUS
  <2>2. S \subseteq 1..k
    BY <1>1, <1>2, <2>1
  <2>3. {j \in Openings(g) : j <= k} = S
    <3>1. ASSUME NEW j PROVE j \in Openings(g) /\ j <= k <=> j \in Openings(h) /\ j <= k
      <4>1. j \in Openings(g) => j \in 1..i
        BY <1>2
      <4>2. j \in Openings(h) /\ j <= k => j \in 1..i
        BY <1>1, <1>2
      <4> QED
        BY <1>3, <4>1, <4>2
    <3> QED
      BY <2>1, <3>1
  <2>4. 1 \in S
    BY <1>1, <2>1 DEF Openings
  <2>5. IsFiniteSet(S) /\ S \subseteq Int /\ S # {}
    <3>1. IsFiniteSet(1..k)
      BY <1>1, FS_Interval
    <3>2. IsFiniteSet(S)
      BY <2>2, <3>1, FS_Subset
    <3> QED
      BY <1>1, <2>2, <2>4, <3>2
  <2>6. Max(S) \in S /\ \A x \in S : x <= Max(S)
    BY <2>5, LargestOf
  <2>7. FirstOf(g, k) = Max(S) /\ FirstOf(h, k) = Max(S)
    BY <2>1, <2>3 DEF FirstOf
  <2> QED
    BY <2>1, <2>2, <2>6, <2>7
<1> QED
  BY <1>2, <1>3, <1>4

(* previous_day_levels: the session before the row's is over.              *)
LEMMA PreviousRests ==
  ASSUME NEW h, NEW g, NEW i, Chart(h), Piece(g, h, i)
  PROVE  PreviousDay(g, i) = PreviousDay(h, i) /\ PreviousDay(h, i) \subseteq 1..i
<1>1. i \in Nat /\ i \in 1..Len(h) /\ Len(h) \in Nat /\ Len(g) = i /\ i \in 1..i
  BY DEF Piece, Chart
<1>2. PICK f : f = FirstOf(h, i)
  OBVIOUS
<1>3. f = FirstOf(g, i) /\ f \in Openings(h) /\ f \in 1..i
  BY <1>1, <1>2, SessionsRest
<1>4. CASE f = 1
  BY <1>2, <1>3, <1>4 DEF PreviousDay
<1>5. CASE f # 1
  <2>1. f - 1 \in 1..i /\ f \in Openings(g)
    <3>1. f - 1 \in 1..i
      BY <1>1, <1>3, <1>5
    <3> QED
      BY <1>3, <3>1, SessionsRest
  <2>2. PICK e : e = FirstOf(h, f - 1)
    OBVIOUS
  <2>3. e = FirstOf(g, f - 1) /\ e \in 1..(f - 1)
    BY <2>1, <2>2, SessionsRest
  <2> DEFINE ends(c) == {Len(c)} \cup {j - 1 : j \in {k \in Openings(c) : k > e}}
  <2>4. Min(ends(h)) = Min(ends(g)) /\ Min(ends(h)) \in ends(h) /\ Min(ends(h)) <= f - 1
    <3>1. Openings(h) \subseteq 1..Len(h) /\ Openings(g) \subseteq 1..i
      BY SessionsRest
    <3>2. ends(h) \subseteq Nat /\ ends(g) \subseteq Nat
      BY <1>1, <3>1
    <3>3. f > e
      BY <1>1, <1>3, <2>3
    <3>4. f - 1 \in ends(h) /\ f - 1 \in ends(g)
      BY <1>3, <2>1, <3>3
    <3>5. ASSUME NEW x \in Nat, x <= f - 1 PROVE x \in ends(h) <=> x \in ends(g)
      <4>1. x # Len(h) /\ x # Len(g) /\ x + 1 \in 1..i /\ x = (x + 1) - 1
        BY <1>1, <1>3, <3>5
      <4>2. \A j \in Int : x = j - 1 <=> j = x + 1
        OBVIOUS
      <4>3. x + 1 \in Openings(g) <=> x + 1 \in Openings(h)
        BY <4>1, SessionsRest
      <4>4. x \in ends(h) <=> x + 1 \in Openings(h) /\ x + 1 > e
        BY <3>1, <4>1, <4>2
      <4>5. x \in ends(g) <=> x + 1 \in Openings(g) /\ x + 1 > e
        BY <3>1, <4>1, <4>2
      <4> QED
        BY <4>3, <4>4, <4>5
    <3> HIDE DEF ends
    <3> QED
      BY <3>2, <3>4, <3>5, SameSmallest
  <2>5. PICK last : last = Min(ends(h))
    OBVIOUS
  <2>6. Session(h, e) = e..last /\ Session(g, e) = e..last
    BY <2>4, <2>5 DEF Session
  <2>7. last \in Nat /\ last <= f - 1
    <3>1. Openings(h) \subseteq 1..Len(h)
      BY SessionsRest
    <3>2. ends(h) \subseteq Nat
      BY <1>1, <3>1
    <3> HIDE DEF ends
    <3> QED
      BY <2>4, <2>5, <3>2
  <2>8. e..last \subseteq 1..i
    BY <1>1, <1>3, <2>3, <2>7
  <2> QED
    BY <1>2, <1>3, <1>5, <2>2, <2>3, <2>6, <2>8 DEF PreviousDay
<1> QED
  BY <1>4, <1>5

(* opening_range: its candles are over when it is shown.                   *)
LEMMA OpeningRests ==
  ASSUME NEW h, NEW g, NEW i, Chart(h), Piece(g, h, i)
  PROVE  OpeningRows(g, i) = OpeningRows(h, i) /\ OpeningRows(h, i) \subseteq 1..i
<1>1. /\ i \in Nat /\ i \in 1..Len(h) /\ Len(h) \in Nat /\ Len(g) = i /\ i \in 1..i
      /\ OpeningMinutes \in Nat
  BY StructureAssumption DEF Piece, Chart
<1>2. PICK f : f = FirstOf(h, i)
  OBVIOUS
<1>3. /\ f = FirstOf(g, i) /\ f \in Openings(h) /\ f \in 1..i
      /\ \A j \in Openings(h) : j <= i => j <= f
  BY <1>1, <1>2, SessionsRest
<1>4. /\ Openings(h) \subseteq 1..Len(h) /\ Openings(g) \subseteq 1..i
      /\ \A j \in 1..i : j \in Openings(g) <=> j \in Openings(h)
  BY SessionsRest
<1>5. {k \in Openings(g) : k > f} = {}
  <2>1. ASSUME NEW k \in Openings(g), k > f PROVE FALSE
    <3>1. k \in 1..i /\ k \in Openings(h)
      BY <1>4
    <3>2. k <= i /\ k \in Int /\ f \in Int
      BY <1>1, <1>3, <3>1
    <3> QED
      BY <1>3, <2>1, <3>1, <3>2
  <2> QED
    BY <2>1
<1>6. Session(g, f) = f..i
  <2>1. {Len(g)} \cup {j - 1 : j \in {k \in Openings(g) : k > f}} = {i}
    BY <1>1, <1>5
  <2>2. Min({i}) = i
    BY <1>1 DEF Min
  <2> QED
    BY <2>1, <2>2 DEF Session
<1>7. PICK last : last \in Nat /\ last >= i /\ Session(h, f) = f..last /\ last <= Len(h)
  <2> DEFINE ends == {Len(h)} \cup {j - 1 : j \in {k \in Openings(h) : k > f}}
  <2>1. ASSUME NEW x \in ends PROVE x \in Nat /\ x >= i
    <3>1. CASE x = Len(h)
      BY <1>1, <3>1
    <3>2. CASE x # Len(h)
      <4>1. PICK k \in Openings(h) : k > f /\ x = k - 1
        BY <3>2
      <4>2. k \in Nat /\ k >= 1 /\ f \in Nat
        BY <1>1, <1>3, <1>4
      <4>3. ~(k <= i)
        BY <1>3, <4>1, <4>2
      <4> QED
        BY <1>1, <4>1, <4>2, <4>3
    <3> QED
      BY <3>1, <3>2
  <2>2. ends \subseteq Nat /\ Len(h) \in ends
    BY <2>1
  <2>3. Session(h, f) = f..Min(ends)
    BY DEF Session
  <2> HIDE DEF ends
  <2>4. Min(ends) \in ends /\ Min(ends) <= Len(h)
    BY <2>2, SameSmallest
  <2> QED
    BY <2>1, <2>3, <2>4
<1>8. h[i] = g[i] /\ h[f] = g[f]
  BY <1>1, <1>3 DEF Piece
<1>9. ASSUME NEW j, h[i].time >= h[f].time + OpeningMinutes
      PROVE  /\ j \in f..last /\ h[j].time < h[f].time + OpeningMinutes => j \in f..i
             /\ j \in f..i /\ g[j].time < h[f].time + OpeningMinutes
                <=> j \in f..last /\ h[j].time < h[f].time + OpeningMinutes
  <2>1. ASSUME j \in f..last, h[j].time < h[f].time + OpeningMinutes PROVE j \in f..i
    <3>1. j \in 1..Len(h) /\ i \in 1..Len(h) /\ f \in 1..Len(h) /\ j \in Int
      BY <1>1, <1>3, <1>7, <2>1
    <3>2. h[j].time \in Int /\ h[i].time \in Int /\ h[f].time \in Int
      BY <3>1 DEF Chart
    <3>3. h[j].time < h[i].time
      BY <1>1, <1>9, <2>1, <3>2
    <3>4. ~(i < j)
      BY <3>1, <3>2, <3>3 DEF Chart
    <3> QED
      BY <1>1, <1>3, <2>1, <3>1, <3>4
  <2>2. j \in f..i => j \in f..last /\ j \in 1..i
    BY <1>1, <1>3, <1>7
  <2>3. j \in f..i => g[j] = h[j]
    BY <2>2 DEF Piece
  <2> QED
    BY <2>1, <2>2, <2>3
<1>10. /\ OpeningRows(g, i) = {j \in f..i : h[i].time >= h[f].time + OpeningMinutes
                                            /\ g[j].time < h[f].time + OpeningMinutes}
       /\ OpeningRows(h, i) = {j \in f..last : h[i].time >= h[f].time + OpeningMinutes
                                               /\ h[j].time < h[f].time + OpeningMinutes}
  BY <1>2, <1>3, <1>6, <1>7, <1>8 DEF OpeningRows
<1>11. f..i \subseteq 1..i
  BY <1>1, <1>3
<1>12. CASE ~(h[i].time >= h[f].time + OpeningMinutes)
  BY <1>10, <1>12
<1>13. CASE h[i].time >= h[f].time + OpeningMinutes
  BY <1>9, <1>10, <1>11, <1>13
<1> QED
  BY <1>12, <1>13

(* A level, if there is one, is a number, and the only one, and no close   *)
(* is beyond both.                                                         *)
LEMMA OneLevel ==
  ASSUME NEW h, Chart(h), NEW b \in 1..Len(h)
  PROVE  /\ \A x \in Resistance(h, b) : Max(Resistance(h, b)) = x
         /\ \A x \in Support(h, b) : Max(Support(h, b)) = x
         /\ Resistance(h, b) \subseteq Int /\ Support(h, b) \subseteq Int
         /\ ~(BrokeUp(h, b) /\ BrokeDown(h, b))
<1> DEFINE span == Preceding(b)
           highs == {h[j].high : j \in span}
           lows == {h[j].low : j \in span}
<1>1. span \subseteq 1..Len(h) /\ IsFiniteSet(span)
  <2>1. span \subseteq 1..b
    BY StructureAssumption DEF Preceding, Chart
  <2>2. 1..b \subseteq 1..Len(h) /\ IsFiniteSet(1..b)
    BY FS_Interval DEF Chart
  <2> HIDE DEF span
  <2> QED
    BY <2>1, <2>2, FS_Subset
<1> HIDE DEF span
<1>2. highs \subseteq Int /\ lows \subseteq Int /\ (span # {} => highs # {} /\ lows # {})
  BY <1>1 DEF Chart
<1>3. IsFiniteSet(highs) /\ IsFiniteSet(lows)
  <2> DEFINE high == [j \in span |-> h[j].high]
             low == [j \in span |-> h[j].low]
  <2>1. IsFiniteSet({high[j] : j \in span}) /\ IsFiniteSet({low[j] : j \in span})
    <3> HIDE DEF high, low
    <3> QED
      BY <1>1, FiniteImage
  <2>2. {high[j] : j \in span} = highs /\ {low[j] : j \in span} = lows
    OBVIOUS
  <2> QED
    BY <2>1, <2>2
<1> HIDE DEF highs, lows
<1>4. ASSUME NEW v \in Int PROVE Max({v}) = v
  BY DEF Max
<1>5. span # {} => Max(highs) \in Int /\ \A x \in highs : x <= Max(highs)
  BY <1>2, <1>3, LargestOf
<1>6. span # {} => Min(lows) \in Int /\ \A x \in lows : Min(lows) =< x
  <2>1. ASSUME span # {} PROVE \E m \in lows : \A x \in lows : m =< x
    <3> DEFINE up == {-x : x \in lows}
    <3>1. up \subseteq Int /\ up # {}
      <4>1. \A x \in lows : -x \in Int
        BY <1>2
      <4>2. PICK x \in lows : TRUE
        BY <1>2, <2>1
      <4>3. -x \in up
        OBVIOUS
      <4> QED
        BY <4>1, <4>3
    <3>2. IsFiniteSet(up)
      <4> DEFINE negated == [x \in lows |-> -x]
      <4>1. IsFiniteSet({negated[x] : x \in lows})
        <5> HIDE DEF negated
        <5> QED
          BY <1>3, FiniteImage
      <4>2. {negated[x] : x \in lows} = up
        OBVIOUS
      <4> QED
        BY <4>1, <4>2
    <3> HIDE DEF up
    <3>3. Max(up) \in up /\ \A x \in up : x <= Max(up)
      BY <3>1, <3>2, LargestOf
    <3>4. PICK m \in lows : Max(up) = -m
      BY <3>3 DEF up
    <3>5. ASSUME NEW x \in lows PROVE m =< x
      <4>1. -x \in up /\ m \in Int /\ x \in Int
        BY <1>2 DEF up
      <4>2. -x <= -m
        BY <3>3, <3>4, <4>1
      <4> QED
        BY <4>1, <4>2
    <3> QED
      BY <3>5
  <2>2. span # {} => Min(lows) \in lows /\ \A x \in lows : Min(lows) =< x
    BY <2>1 DEF Min
  <2> QED
    BY <1>2, <2>2
<1>7. Resistance(h, b) = (IF span = {} THEN {} ELSE {Max(highs)})
  BY DEF Resistance, Highest, span, highs
<1>8. Support(h, b) = (IF span = {} THEN {} ELSE {Min(lows)})
  BY DEF Support, Lowest, span, lows
<1>9. ~(BrokeUp(h, b) /\ BrokeDown(h, b))
  <2>1. SUFFICES ASSUME BrokeUp(h, b), BrokeDown(h, b) PROVE FALSE
    OBVIOUS
  <2>2. span # {} /\ h[b].close > Max(highs) /\ h[b].close < Min(lows)
    BY <1>7, <1>8, <2>1 DEF BrokeUp, BrokeDown
  <2>3. PICK j \in span : TRUE
    BY <2>2
  <2>4. h[j].high \in highs /\ h[j].low \in lows
    BY DEF highs, lows
  <2>5. h[j].high <= Max(highs) /\ Min(lows) =< h[j].low
    BY <1>5, <1>6, <2>2, <2>4
  <2>6. h[j].low <= h[j].high /\ h[j].low \in Int /\ h[j].high \in Int /\ h[b].close \in Int
    BY <1>1 DEF Chart
  <2> QED
    BY <1>5, <1>6, <2>2, <2>5, <2>6
<1> QED
  BY <1>4, <1>5, <1>6, <1>7, <1>8, <1>9

(* The level of the last break: retests looks it up by going down the rows. *)
BreaksUpTo(h, n) == {j \in 1..n : BrokeUp(h, j) \/ BrokeDown(h, j)}
LevelAt(h, b) ==
  IF BrokeUp(h, b) THEN [side |-> 1, level |-> Max(Resistance(h, b))]
                   ELSE [side |-> -1, level |-> Max(Support(h, b))]
LastLevel(h, n) == IF BreaksUpTo(h, n) = {} THEN NoLevel ELSE LevelAt(h, Max(BreaksUpTo(h, n)))

(* One row more: its own level if it breaks one, the level before it if    *)
(* not.                                                                    *)
LEMMA LevelGoesOn ==
  ASSUME NEW h, NEW k \in Nat \ {0}
  PROVE  LastLevel(h, k) = IF BrokeUp(h, k) \/ BrokeDown(h, k) THEN LevelAt(h, k) ELSE LastLevel(h, k - 1)
<1>1. CASE BrokeUp(h, k) \/ BrokeDown(h, k)
  <2>1. k \in BreaksUpTo(h, k) /\ BreaksUpTo(h, k) \subseteq 1..k
    BY <1>1 DEF BreaksUpTo
  <2>2. PICK S : S = BreaksUpTo(h, k)
    OBVIOUS
  <2>3. k \in S /\ S \subseteq Int /\ \A x \in S : k >= x
    BY <2>1, <2>2
  <2>4. \A y \in S : (\A x \in S : y >= x) => y = k
    BY <2>3
  <2>5. Max(S) = k
    BY <2>3, <2>4 DEF Max
  <2> QED
    BY <1>1, <2>2, <2>3, <2>5 DEF LastLevel
<1>2. CASE ~(BrokeUp(h, k) \/ BrokeDown(h, k))
  <2>1. BreaksUpTo(h, k) = BreaksUpTo(h, k - 1)
    <3>1. 1..k = 1..(k - 1) \cup {k}
      OBVIOUS
    <3> QED
      BY <1>2, <3>1 DEF BreaksUpTo
  <2> QED
    BY <1>2, <2>1 DEF LastLevel
<1> QED
  BY <1>1, <1>2

LEMMA BrokenIs ==
  ASSUME NEW h, NEW n \in Nat, \A j \in 1..n : ~(BrokeUp(h, j) /\ BrokeDown(h, j))
  PROVE  Broken(h, n) = LastLevel(h, n)
<1> DEFINE Step(f) == [i \in 0..n |->
              CASE i = 0 -> NoLevel
                [] i > 0 /\ BrokeUp(h, i)   -> [side |-> 1, level |-> Max(Resistance(h, i))]
                [] i > 0 /\ BrokeDown(h, i) -> [side |-> -1, level |-> Max(Support(h, i))]
                [] OTHER -> f[i - 1]]
           run == [i \in 0..n |-> LastLevel(h, i)]
           after == CHOOSE f : f = Step(f)
<1>1. Broken(h, n) = after[n]
  BY DEF Broken
<1>2. ASSUME NEW f, NEW i \in 1..n
      PROVE  Step(f)[i] = IF BrokeUp(h, i) \/ BrokeDown(h, i) THEN LevelAt(h, i) ELSE f[i - 1]
  <2>1. i # 0 /\ i > 0 /\ i \in 0..n
    OBVIOUS
  <2>5. Step(f)[i] = CASE i = 0 -> NoLevel
                       [] i > 0 /\ BrokeUp(h, i)   -> [side |-> 1, level |-> Max(Resistance(h, i))]
                       [] i > 0 /\ BrokeDown(h, i) -> [side |-> -1, level |-> Max(Support(h, i))]
                       [] OTHER -> f[i - 1]
    BY <2>1
  <2> HIDE DEF Step
  <2>2. CASE BrokeUp(h, i) /\ ~BrokeDown(h, i)
    BY <2>1, <2>2, <2>5 DEF LevelAt
  <2>3. CASE ~BrokeUp(h, i) /\ BrokeDown(h, i)
    BY <2>1, <2>3, <2>5 DEF LevelAt
  <2>4. CASE ~BrokeUp(h, i) /\ ~BrokeDown(h, i)
    BY <2>1, <2>4, <2>5
  <2> QED
    BY <2>2, <2>3, <2>4
<1>3. ASSUME NEW f PROVE Step(f)[0] = NoLevel
  BY 0 \in 0..n
<1>4. run = Step(run)
  <2>1. ASSUME NEW i \in 0..n PROVE run[i] = Step(run)[i]
    <3>1. CASE i = 0
      <4>1. BreaksUpTo(h, 0) = {}
        BY DEF BreaksUpTo
      <4>2. run[0] = NoLevel
        BY <4>1, 0 \in 0..n DEF LastLevel
      <4> HIDE DEF run, Step
      <4> QED
        BY <1>3, <3>1, <4>2
    <3>2. CASE i # 0
      <4>1. i \in 1..n /\ i \in Nat \ {0} /\ i - 1 \in 0..n
        BY <3>2
      <4>2. run[i] = LastLevel(h, i) /\ run[i - 1] = LastLevel(h, i - 1)
        BY <4>1
      <4> HIDE DEF run, Step
      <4> QED
        BY <1>2, <4>1, <4>2, LevelGoesOn
    <3> QED
      BY <3>1, <3>2
  <2>2. DOMAIN run = 0..n /\ run = [i \in 0..n |-> run[i]]
    OBVIOUS
  <2>3. Step(run) = [i \in 0..n |-> Step(run)[i]]
    OBVIOUS
  <2> HIDE DEF run, Step
  <2> QED
    BY <2>1, <2>2, <2>3
<1>5. after = Step(after)
  <2> HIDE DEF run, Step
  <2> QED
    BY <1>4
<1>6. ASSUME NEW f, NEW e, f = Step(f), e = Step(e) PROVE f[n] = e[n]
  <2> DEFINE Same == {i \in 0..n : f[i] = e[i]}
  <2>1. 0 \in Same
    <3> HIDE DEF Step
    <3>1. f[0] = NoLevel /\ e[0] = NoLevel
      BY <1>3, <1>6
    <3> QED
      BY <3>1
  <2>2. ASSUME NEW i \in 0..(n - 1), i \in Same PROVE i + 1 \in Same
    <3>1. i + 1 \in 1..n /\ i + 1 \in 0..n /\ (i + 1) - 1 = i
      OBVIOUS
    <3>2. f[i] = e[i]
      BY <2>2
    <3>3. PICK k : k = i + 1
      OBVIOUS
    <3> HIDE DEF Step
    <3>4. /\ f[k] = IF BrokeUp(h, k) \/ BrokeDown(h, k) THEN LevelAt(h, k) ELSE f[k - 1]
          /\ e[k] = IF BrokeUp(h, k) \/ BrokeDown(h, k) THEN LevelAt(h, k) ELSE e[k - 1]
      BY <1>2, <1>6, <3>1, <3>3
    <3>5. f[k] = e[k]
      BY <3>1, <3>2, <3>3, <3>4
    <3> QED
      BY <3>1, <3>3, <3>5
  <2>3. n \in Same
    <3> HIDE DEF Same
    <3>1. 0..n \subseteq Same
      BY <2>1, <2>2, Counted
    <3> QED
      BY <3>1
  <2> QED
    BY <2>3
<1>7. after[n] = run[n]
  <2> HIDE DEF after, run, Step
  <2> QED
    BY <1>4, <1>5, <1>6
<1>8. run[n] = LastLevel(h, n)
  OBVIOUS
<1> QED
  BY <1>1, <1>7, <1>8

(* retests: on the levels broken before the row.                           *)
LEMMA RetestRests ==
  ASSUME NEW h, NEW g, NEW i, Chart(h), Piece(g, h, i)
  PROVE  Retest(g, i) = Retest(h, i)
<1>1. i \in Nat /\ i - 1 \in Nat /\ g[i] = h[i] /\ 1..(i - 1) \subseteq 1..i
  BY DEF Piece, Chart
<1>2. PICK S : S = BreaksUpTo(h, i - 1)
  OBVIOUS
<1>3. S \subseteq 1..i /\ BreaksUpTo(g, i - 1) = S
  <2>1. \A j \in 1..(i - 1) : (BrokeUp(g, j) <=> BrokeUp(h, j)) /\ (BrokeDown(g, j) <=> BrokeDown(h, j))
    BY <1>1, PeriodRests
  <2> QED
    BY <1>1, <1>2, <2>1 DEF BreaksUpTo
<1>4. S # {} => Max(S) \in 1..i
  <2>1. IsFiniteSet(1..i)
    BY <1>1, FS_Interval
  <2>2. IsFiniteSet(S)
    BY <1>3, <2>1, FS_Subset
  <2>3. S \subseteq Int
    BY <1>1, <1>3
  <2>4. S # {} => Max(S) \in S
    BY <2>2, <2>3, LargestOf
  <2> QED
    BY <1>3, <2>4
<1>5. S # {} => LevelAt(g, Max(S)) = LevelAt(h, Max(S))
  BY <1>4, PeriodRests DEF LevelAt
<1>6. LastLevel(g, i - 1) = LastLevel(h, i - 1)
  BY <1>2, <1>3, <1>5 DEF LastLevel
<1>7. Broken(g, i - 1) = Broken(h, i - 1)
  <2>1. \A j \in 1..(i - 1) : ~(BrokeUp(h, j) /\ BrokeDown(h, j))
    <3>1. 1..(i - 1) \subseteq 1..Len(h)
      BY <1>1 DEF Piece, Chart
    <3> QED
      BY <3>1, OneLevel
  <2>2. \A j \in 1..(i - 1) : ~(BrokeUp(g, j) /\ BrokeDown(g, j))
    BY <1>1, <2>1, PeriodRests
  <2> QED
    BY <1>1, <1>6, <2>1, <2>2, BrokenIs
<1> QED
  BY <1>1, <1>7 DEF Retest

(* add_structure_indicators: a row's columns are those of the part of the  *)
(* history that ends with it.                                              *)
LEMMA StructureRests ==
  ASSUME NEW h, NEW g, NEW i, Chart(h), Piece(g, h, i)
  PROVE  Structure(g, i) = Structure(h, i)
<1>1. i \in 1..i
  BY DEF Piece, Chart
<1>2. Support(g, i) = Support(h, i) /\ Resistance(g, i) = Resistance(h, i) /\ Flags(g, i) = Flags(h, i)
  BY <1>1, PeriodRests
<1>3. SwingHigh(g, i) = SwingHigh(h, i) /\ SwingLow(g, i) = SwingLow(h, i)
  BY SwingsRest
<1>4. Retest(g, i) = Retest(h, i)
  BY RetestRests
<1>5. /\ Highest(g, PreviousDay(g, i)) = Highest(h, PreviousDay(h, i))
      /\ Lowest(g, PreviousDay(g, i)) = Lowest(h, PreviousDay(h, i))
  BY PreviousRests, LevelsRest
<1>6. /\ Highest(g, OpeningRows(g, i)) = Highest(h, OpeningRows(h, i))
      /\ Lowest(g, OpeningRows(g, i)) = Lowest(h, OpeningRows(h, i))
  BY OpeningRests, LevelsRest
<1> QED
  BY <1>2, <1>3, <1>4, <1>5, <1>6 DEF Structure

(* The history of the experiment is a chart.                               *)
LEMMA BarsAreAChart == BarsInv => Chart(bars)
<1> SUFFICES ASSUME BarsInv PROVE Chart(bars)
  OBVIOUS
<1>1. Len(bars) \in Nat /\ DOMAIN bars = 1..Len(bars)
  BY DEF BarsInv
<1>2. \A j \in 1..Len(bars) : /\ bars[j].high \in Int /\ bars[j].low \in Int /\ bars[j].low <= bars[j].high
                              /\ bars[j].close \in Int /\ bars[j].time \in Int
  BY DEF BarsInv, Price, Bar
<1>3. ASSUME NEW j \in 1..Len(bars), NEW k \in 1..Len(bars), j < k PROVE bars[j].time < bars[k].time
  <2>1. PICK c \in Nat : c = k - j
    BY <1>1, <1>3
  <2>2. j + c = k /\ c > 0 /\ c \in 0..c /\ j + c <= Len(bars)
    BY <1>1, <1>3, <2>1
  <2>3. Time(j + c) >= Time(j) + c
    BY <2>1, <2>2, TimeGoesOn
  <2>4. Time(k) >= Time(j) + c /\ Time(k) \in Int /\ Time(j) \in Int
    BY <2>2, <2>3, TimeTyped
  <2>5. Time(j) < Time(k)
    BY <2>2, <2>4
  <2> QED
    BY <2>5 DEF Time
<1> QED
  BY <1>1, <1>2, <1>3 DEF Chart

(* A row is told what it would be told live.                               *)
LEMMA RowAsLive ==
  ASSUME BarsInv, NEW i \in DOMAIN bars
  PROVE  AsLive(i)
<1>1. Chart(bars)
  BY BarsAreAChart
<1>2. Len(bars) \in Nat /\ i \in 1..Len(bars)
  BY <1>1 DEF Chart
<1>3. PICK g : g = SubSeq(bars, 1, i)
  OBVIOUS
<1>4. Piece(g, bars, i)
  <2>1. PICK R : bars \in Seq(R)
    BY DEF BarsInv
  <2> QED
    BY <1>2, <1>3, <2>1 DEF Piece
<1>5. Structure(g, i) = Structure(bars, i)
  <2>1. PICK h : h = bars
    OBVIOUS
  <2>2. Chart(h) /\ Piece(g, h, i)
    BY <1>1, <1>4, <2>1
  <2> QED
    BY <2>1, <2>2, StructureRests
<1> QED
  BY <1>3, <1>5 DEF AsLive

(* A retest is one of the last break before the row.                       *)
LEMMA RetestsLast ==
  ASSUME BarsInv, NEW i \in DOMAIN bars
  PROVE  RetestsTheLastBreak(i)
<1>1. Chart(bars) /\ i \in 1..Len(bars) /\ Len(bars) \in Nat /\ i - 1 \in Nat
  <2>1. Chart(bars)
    BY BarsAreAChart
  <2>2. i \in 1..Len(bars) /\ Len(bars) \in Nat
    BY <2>1 DEF Chart
  <2> QED
    BY <2>1, <2>2
<1>2. PICK active : active = Broken(bars, i - 1)
  OBVIOUS
<1>3. Breaks(i) = BreaksUpTo(bars, i - 1)
  BY DEF Breaks, BreaksUpTo
<1>4. active = IF Breaks(i) = {} THEN NoLevel ELSE LevelAt(bars, Max(Breaks(i)))
  <2>1. \A j \in 1..(i - 1) : ~(BrokeUp(bars, j) /\ BrokeDown(bars, j))
    <3>1. 1..(i - 1) \subseteq 1..Len(bars)
      BY <1>1
    <3> QED
      BY <1>1, <3>1, OneLevel
  <2> QED
    BY <1>1, <1>2, <1>3, <2>1, BrokenIs DEF LastLevel
<1>10. active.side # 0 => Breaks(i) # {}
  BY <1>4 DEF NoLevel
<1>5. ASSUME Breaks(i) # {}
      PROVE  \E b \in Breaks(i) : b = Max(Breaks(i)) /\ active = LevelAt(bars, b) /\ b \in 1..Len(bars)
  <2>1. Breaks(i) # {}
    BY <1>5
  <2>2. Breaks(i) \subseteq 1..(i - 1) /\ 1..(i - 1) \subseteq 1..Len(bars) /\ 1..(i - 1) \subseteq Int
    BY <1>1 DEF Breaks
  <2>3. IsFiniteSet(1..(i - 1))
    BY <1>1, FS_Interval
  <2>4. IsFiniteSet(Breaks(i)) /\ Breaks(i) \subseteq Int
    BY <2>2, <2>3, FS_Subset
  <2>5. Max(Breaks(i)) \in Breaks(i)
    BY <2>1, <2>4, LargestOf
  <2> QED
    BY <1>4, <2>1, <2>2, <2>5
<1>6. ASSUME NEW r \in Retest(bars, i)
      PROVE  /\ r.up <=> active.side = 1 /\ bars[i].low <= active.level /\ bars[i].close > active.level
             /\ r.down <=> active.side = -1 /\ bars[i].high >= active.level /\ bars[i].close < active.level
             /\ r.up \in BOOLEAN /\ r.down \in BOOLEAN
  <2> DEFINE up == active.side = 1 /\ bars[i].low <= active.level /\ bars[i].close > active.level
             down == active.side = -1 /\ bars[i].high >= active.level /\ bars[i].close < active.level
  <2>1. up \in BOOLEAN /\ down \in BOOLEAN
    OBVIOUS
  <2>2. r = [up |-> up, down |-> down, level |-> IF up \/ down THEN {active.level} ELSE {}]
    BY <1>2, <1>6 DEF Retest
  <2> HIDE DEF up, down
  <2>3. r.up = up /\ r.down = down
    BY <2>2
  <2> QED
    BY <2>1, <2>3 DEF up, down
<1>7. bars[i].low \in Int /\ bars[i].close \in Int /\ bars[i].high \in Int
  BY <1>1 DEF Chart
<1>8. ASSUME NEW r \in Retest(bars, i), r.up
      PROVE  \E b \in Breaks(i) : /\ b = Max(Breaks(i)) /\ BrokeUp(bars, b)
                                  /\ \E x \in Resistance(bars, b) : bars[i].low <= x /\ x < bars[i].close
  <2>1. active.side = 1 /\ bars[i].low <= active.level /\ bars[i].close > active.level
    BY <1>6, <1>8
  <2>2. PICK b \in Breaks(i) : b = Max(Breaks(i)) /\ active = LevelAt(bars, b) /\ b \in 1..Len(bars)
    BY <1>5, <1>10, <2>1
  <2>3. BrokeUp(bars, b) /\ active.level = Max(Resistance(bars, b))
    BY <2>1, <2>2 DEF LevelAt
  <2>4. PICK x \in Resistance(bars, b) : TRUE
    BY <2>3 DEF BrokeUp
  <2>5. active.level = x
    BY <1>1, <2>2, <2>3, OneLevel
  <2>6. bars[i].low <= x /\ x < bars[i].close
    BY <2>1, <2>5
  <2> QED
    BY <2>2, <2>3, <2>6
<1>9. ASSUME NEW r \in Retest(bars, i), r.down
      PROVE  \E b \in Breaks(i) : /\ b = Max(Breaks(i)) /\ BrokeDown(bars, b)
                                  /\ \E x \in Support(bars, b) : bars[i].high >= x /\ x > bars[i].close
  <2>1. active.side = -1 /\ bars[i].high >= active.level /\ bars[i].close < active.level
    BY <1>6, <1>9
  <2>2. PICK b \in Breaks(i) : b = Max(Breaks(i)) /\ active = LevelAt(bars, b) /\ b \in 1..Len(bars)
    BY <1>5, <1>10, <2>1
  <2>3. ~BrokeUp(bars, b) /\ active.level = Max(Support(bars, b))
    BY <2>1, <2>2 DEF LevelAt
  <2>4. BrokeDown(bars, b)
    BY <2>2, <2>3 DEF Breaks
  <2>5. PICK x \in Support(bars, b) : TRUE
    BY <2>4 DEF BrokeDown
  <2>6. active.level = x
    BY <1>1, <2>2, <2>3, <2>5, OneLevel
  <2>7. bars[i].high >= x /\ x > bars[i].close
    BY <2>1, <2>6
  <2> QED
    BY <2>2, <2>4, <2>7
<1>11. ASSUME NEW r \in Retest(bars, i), NEW b \in Breaks(i), b = Max(Breaks(i)), BrokeUp(bars, b),
              NEW x \in Resistance(bars, b), bars[i].low <= x, x < bars[i].close
       PROVE  r.up
  <2>1. active = LevelAt(bars, b) /\ b \in 1..Len(bars)
    BY <1>5, <1>11
  <2>2. Max(Resistance(bars, b)) = x
    BY <1>1, <2>1, OneLevel
  <2>3. active.side = 1 /\ active.level = x
    BY <1>11, <2>1, <2>2 DEF LevelAt
  <2>4. x \in Int
    BY <1>1, <2>1, OneLevel
  <2> QED
    BY <1>6, <1>7, <1>11, <2>3, <2>4
<1>12. ASSUME NEW r \in Retest(bars, i), NEW b \in Breaks(i), b = Max(Breaks(i)), BrokeDown(bars, b),
              NEW x \in Support(bars, b), bars[i].high >= x, x > bars[i].close
       PROVE  r.down
  <2>1. active = LevelAt(bars, b) /\ b \in 1..Len(bars)
    BY <1>5, <1>12
  <2>2. Max(Support(bars, b)) = x /\ ~BrokeUp(bars, b)
    BY <1>1, <1>12, <2>1, OneLevel
  <2>3. active.side = -1 /\ active.level = x
    BY <2>1, <2>2 DEF LevelAt
  <2>4. x \in Int
    BY <1>1, <2>1, OneLevel
  <2> QED
    BY <1>6, <1>7, <1>12, <2>3, <2>4
<1>13. ASSUME NEW r \in Retest(bars, i)
       PROVE  /\ r.up <=> \E b \in Breaks(i) :
                            /\ b = Max(Breaks(i)) /\ BrokeUp(bars, b)
                            /\ \E x \in Resistance(bars, b) : bars[i].low <= x /\ x < bars[i].close
              /\ r.down <=> \E b \in Breaks(i) :
                              /\ b = Max(Breaks(i)) /\ BrokeDown(bars, b)
                              /\ \E x \in Support(bars, b) : bars[i].high >= x /\ x > bars[i].close
  <2>1. r.up \in BOOLEAN /\ r.down \in BOOLEAN
    BY <1>6
  <2> QED
    BY <1>8, <1>9, <1>11, <1>12, <2>1, Zenon
<1> QED
  BY <1>13 DEF RetestsTheLastBreak

(* Whatever the bars, sessions and gaps: when a dataset is built, no row   *)
(* is told anything of the price structure that a history ending with it   *)
(* does not show, and a retest returns to the last break before the row    *)
(* (add_structure_indicators: "the calculations in this module are         *)
(* causal").                                                               *)
THEOREM RowsAlwaysSeenAsLive == ExperimentSpec => SeenAsLive
<1>1. ExperimentInit => LabelsInv
  BY LabelsStart DEF ExperimentInit
<1>2. LabelsInv /\ [ExperimentNext]_experimentVars => LabelsInv'
  BY LabelsStep
<1>3. LabelsInv => [dataset' # dataset =>
                      \A i \in DOMAIN bars : AsLive(i) /\ RetestsTheLastBreak(i)]_labelVars
  BY RowAsLive, RetestsLast DEF LabelsInv
<1> QED
  BY <1>1, <1>2, <1>3, PTL DEF ExperimentSpec, SeenAsLive
=============================================================================
