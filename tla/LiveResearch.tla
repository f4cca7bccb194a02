---------------------------- MODULE LiveResearch ----------------------------
(***************************************************************************)
(* research/live/runtime.py: LiveResearchCache and the background poller   *)
(* of LiveResearchRuntime, with the RSS provider they fetch from.          *)
(*                                                                         *)
(* The session thread (Main) starts the runtime, which refreshes once in   *)
(* the caller and then spawns a polling thread, and stops it with a join   *)
(* that may time out: the old thread then still runs when the runtime is   *)
(* started again.  A document of the source has an identity, a time of     *)
(* publication and a content that the source may edit.  last_error,        *)
(* last_refresh_at and refresh_count are only reported and left out.       *)
(***************************************************************************)
EXTENDS Integers

CONSTANTS Documents,   \* identities (source_id, external_id)
          Pollers,     \* threads that start() may create
          Main,        \* the session thread
          Lookback,    \* published_at window of a refresh (24 hours)
          Retention,   \* retention of the cache (7 days)
          MaxFetch,    \* no refresh is under way for longer (timeout 20 s)
          MaxTime,     \* bound: clock
          MaxEdits     \* bound: edits of a document

None == "none"   \* no thread

ASSUME ResearchAssumption ==
  /\ Main \notin Pollers /\ Pollers # {} /\ None \notin Pollers
  /\ Lookback \in Nat \ {0} /\ MaxFetch \in Nat /\ Retention \in Nat
  /\ Retention >= Lookback + MaxFetch
  /\ {MaxTime, MaxEdits} \subseteq Nat

VARIABLES
  now,         \* the clock
  published,   \* per document: time of publication, or Never
  content,     \* per document: version the source shows
  cache,       \* _documents: [version, avail], or Absent
  at,          \* where each thread is
  took,        \* the clock as the running refresh read it (end, available_at)
  items,       \* what the running refresh has fetched: versions, or Never
  stop,        \* _stop
  thread,      \* _thread, or None
  first        \* per document: available_at of its first capture, or Never

vars == <<now, published, content, cache, at, took, items, stop, thread, first>>
source == <<published, content>>

Never   == -1
Absent  == [version |-> Never, avail |-> Never]
Threads == Pollers \cup {Main}
Nothing == [d \in Documents |-> Never]

TypeOK ==
  /\ now \in 0..MaxTime
  /\ published \in [Documents -> {Never} \cup 0..MaxTime]
  /\ content \in [Documents -> 0..MaxEdits]
  /\ cache \in [Documents -> [version : {Never} \cup 0..MaxEdits, avail : {Never} \cup 0..MaxTime]]
  /\ at \in [Threads -> {"out", "fetch", "insert", "wait", "running", "join", "over"}]
  /\ took \in [Threads -> {Never} \cup 0..MaxTime]
  /\ items \in [Threads -> [Documents -> {Never} \cup 0..MaxEdits]]
  /\ thread \in Pollers \cup {None}
  /\ thread # None <=> at[Main] \in {"running", "join"}
  /\ stop \in BOOLEAN

Init ==
  /\ now = 0
  /\ published = Nothing /\ content = [d \in Documents |-> 0]
  /\ cache = [d \in Documents |-> Absent]
  /\ at = [t \in Threads |-> "out"] /\ took = [t \in Threads |-> Never]
  /\ items = [t \in Threads |-> Nothing]
  /\ stop = FALSE /\ thread = None
  /\ first = Nothing

-----------------------------------------------------------------------------
(* Threads                                                                 *)

Refreshing(t) == at[t] \in {"fetch", "insert"}

(* A refresh begins: refresh_once and the provider read the clock.         *)
Begins(t) ==
  /\ at' = [at EXCEPT ![t] = "fetch"]
  /\ took' = [took EXCEPT ![t] = now]

(* Where a thread goes when its refresh is over: the caller of start       *)
(* spawns the polling thread, a poller waits for its next interval.        *)
Refreshed(t) ==
  /\ items' = [items EXCEPT ![t] = Nothing]
  /\ took' = [took EXCEPT ![t] = Never]
  /\ IF t = Main
     THEN \E p \in Pollers :
            /\ at[p] = "out"
            /\ at' = [at EXCEPT ![Main] = "running", ![p] = "wait"]
            /\ thread' = p
     ELSE at' = [at EXCEPT ![t] = "wait"] /\ UNCHANGED thread

(* start: the flag is cleared and the first refresh runs in the caller.    *)
Start ==
  /\ at[Main] = "out" /\ \E p \in Pollers : at[p] = "out"
  /\ stop' = FALSE
  /\ Begins(Main)
  /\ UNCHANGED <<now, source, cache, items, thread, first>>

(* The provider answers with what the source shows now, of what was        *)
(* published in the window that ends at the clock it read before.          *)
FetchReturns(t) ==
  /\ at[t] = "fetch"
  /\ items' = [items EXCEPT ![t] = [d \in Documents |->
       IF published[d] # Never /\ published[d] \in (took[t] - Lookback)..took[t]
       THEN content[d] ELSE Never]]
  /\ at' = [at EXCEPT ![t] = "insert"]
  /\ UNCHANGED <<now, source, cache, took, stop, thread, first>>

(* The request fails or times out: refresh_once raises, the caller goes on. *)
FetchFails(t) ==
  /\ at[t] = "fetch"
  /\ Refreshed(t)
  /\ UNCHANGED <<now, source, cache, stop, first>>

Fetched(t)   == {d \in Documents : items[t][d] # Never}
Cached       == {d \in Documents : cache[d] # Absent}
Fresh(t)     == Fetched(t) \ Cached
Conflicts(t) == {d \in Fetched(t) \cap Cached : items[t][d] # cache[d].version}

(* The cache with the documents ds of t's refresh entered.                 *)
With(t, ds) == [d \in Documents |->
  IF d \in ds THEN [version |-> items[t][d], avail |-> took[t]] ELSE cache[d]]

PrunedEarly(c) ==                \* mutant: the last instant of the retention is cut off
  [d \in Documents |-> IF c[d].avail <= now - Retention THEN Absent ELSE c[d]]
Pruned(c) ==                     \* _prune_locked
  [d \in Documents |-> IF c[d].avail < now - Retention THEN Absent ELSE c[d]]

Captures(ds, t) ==
  first' = [d \in Documents |-> IF d \in ds /\ first[d] = Never THEN took[t] ELSE first[d]]

InsertOverwrites(t) ==           \* mutant: a document fetched again takes its new availability
  /\ at[t] = "insert" /\ Conflicts(t) = {}
  /\ cache' = Pruned(With(t, Fetched(t)))
  /\ Captures(Fresh(t), t)
  /\ Refreshed(t)
  /\ UNCHANGED <<now, source, stop>>
(* Under the lock: new identities enter, known ones keep what they have,   *)
(* and what is older than the retention leaves.                            *)
Insert(t) ==
  /\ at[t] = "insert" /\ Conflicts(t) = {}
  /\ cache' = Pruned(With(t, Fresh(t)))
  /\ Captures(Fresh(t), t)
  /\ Refreshed(t)
  /\ UNCHANGED <<now, source, stop>>

(* An edited document raises in the middle of the loop: those the source   *)
(* listed before it are in, the rest are not, and nothing is pruned.       *)
InsertConflicts(t) ==
  /\ at[t] = "insert" /\ Conflicts(t) # {}
  /\ \E ds \in SUBSET Fresh(t) : cache' = With(t, ds) /\ Captures(ds, t)
  /\ Refreshed(t)
  /\ UNCHANGED <<now, source, stop>>

(* _run: the interval is over, or the flag is set.                         *)
Polls(p) ==
  /\ at[p] = "wait" /\ ~stop
  /\ Begins(p)
  /\ UNCHANGED <<now, source, cache, items, stop, thread, first>>

LeavesOnlyCurrent(p) ==          \* mutant: only the thread the runtime knows looks at the flag
  /\ at[p] = "wait" /\ stop /\ thread = p
  /\ at' = [at EXCEPT ![p] = "over"]
  /\ UNCHANGED <<now, source, cache, took, items, stop, thread, first>>
Leaves(p) ==
  /\ at[p] = "wait" /\ stop
  /\ at' = [at EXCEPT ![p] = "over"]
  /\ UNCHANGED <<now, source, cache, took, items, stop, thread, first>>

Stop ==
  /\ at[Main] = "running"
  /\ stop' = TRUE
  /\ at' = [at EXCEPT ![Main] = "join"]
  /\ UNCHANGED <<now, source, cache, took, items, thread, first>>

JoinedKeepsThread ==             \* mutant: the stopped thread is not forgotten
  /\ at[Main] = "join"
  /\ at' = [at EXCEPT ![Main] = "out"]
  /\ UNCHANGED <<now, source, cache, took, items, stop, thread, first>>
(* The join returns, at the latest at its timeout: the thread is           *)
(* forgotten, whether it has ended or is still in a fetch.                 *)
Joined ==
  /\ at[Main] = "join"
  /\ thread' = None
  /\ at' = [at EXCEPT ![Main] = "out"]
  /\ UNCHANGED <<now, source, cache, took, items, stop, first>>

(* snapshot: the documents available at or before the decision time.       *)
SnapshotLatest(asOf) == Cached       \* mutant: whatever the cache holds
Snapshot(asOf) == {d \in Cached : cache[d].avail <= asOf}

-----------------------------------------------------------------------------
(* The source and the clock                                                *)

Publish(d) ==
  /\ published[d] = Never
  /\ published' = [published EXCEPT ![d] = now]
  /\ UNCHANGED <<now, content, cache, at, took, items, stop, thread, first>>

Edit(d) ==
  /\ published[d] # Never /\ content[d] < MaxEdits
  /\ content' = [content EXCEPT ![d] = @ + 1]
  /\ UNCHANGED <<now, published, cache, at, took, items, stop, thread, first>>

Tick ==
  /\ now < MaxTime
  /\ \A t \in Threads : Refreshing(t) => now < took[t] + MaxFetch
  /\ now' = now + 1
  /\ UNCHANGED <<source, cache, at, took, items, stop, thread, first>>

Next ==
  \/ Start \/ Stop \/ Joined \/ Tick
  \/ \E t \in Threads : FetchReturns(t) \/ FetchFails(t) \/ Insert(t) \/ InsertConflicts(t)
  \/ \E p \in Pollers : Polls(p) \/ Leaves(p)
  \/ \E d \in Documents : Publish(d) \/ Edit(d)

Spec == Init /\ [][Next]_vars

(* Requests end (they have a timeout), threads run, the join times out.    *)
Fairness ==
  /\ \A t \in Threads : WF_vars(FetchReturns(t) \/ FetchFails(t))
  /\ \A t \in Threads : WF_vars(Insert(t) \/ InsertConflicts(t))
  /\ \A p \in Pollers : WF_vars(Leaves(p))
  /\ WF_vars(Joined)

FairSpec == Spec /\ Fairness

-----------------------------------------------------------------------------
(* Properties                                                              *)

(* Whenever the snapshot of a decision time is taken, and however long a   *)
(* fetch took, it holds nothing that was published after that time.        *)
NoLookahead == \A asOf \in 0..now : \A d \in Snapshot(asOf) : published[d] <= asOf

(* A document keeps the availability of its first capture, through further *)
(* refreshes, two pollers at once and errors, and it does not come back    *)
(* with another one after the cache dropped it: the evidence of a past     *)
(* decision is not rewritten.                                              *)
CapturedOnce == \A d \in Cached : cache[d].avail = first[d]

(* What was captured within the retention is still there, whatever raised. *)
EvidenceKept ==
  \A d \in Documents : first[d] # Never /\ first[d] >= now - Retention => d \in Cached

(* The cache and its threads are well formed (one polling thread on record *)
(* while it runs), what they hold is what was captured first, and nothing  *)
(* captured within the retention is missing.                               *)
CapturesSound == TypeOK /\ CapturedOnce /\ EvidenceKept

(* After the last stop every polling thread ends, also one that an earlier *)
(* join left behind in a fetch.                                            *)
PollingEnds ==
  [](stop /\ at[Main] = "out" /\ (\A p \in Pollers : at[p] # "out")
     => <>(\A p \in Pollers : at[p] = "over"))
=============================================================================
