--------------------------- MODULE ReviewJournal ---------------------------
(***************************************************************************)
(* journal/manual_review.py (ManualReviewStore, ManualReviewJournal) and   *)
(* the requests of dashboard/server.py that write to it: a threading HTTP  *)
(* server records the operator's reviews and outcomes in a JSONL file.     *)
(*                                                                         *)
(* A review is known by its content (review_id is its hash): the signal,   *)
(* whether it had expired (the fingerprint covers it), the action and the  *)
(* operator's time.  An outcome names a review; its figures are left out.  *)
(* A line is written and ended by two writes: a server that dies between   *)
(* them, or inside the first, leaves the file's last line unended or cut.  *)
(***************************************************************************)
EXTENDS Naturals, Sequences, SequencesExt

CONSTANTS Handlers,     \* threads of the server
          MaxRecords,   \* bound: lines of the journal
          MaxCrashes    \* bound: restarts of the server

ASSUME JournalAssumption == {MaxRecords, MaxCrashes} \subseteq Nat

VARIABLES
  journal,    \* the records written, in order
  tail,       \* the end of the file: "clean", "unended", "partial" or "ruined"
  request,    \* per thread: the record it is to write, or NoRequest
  step,       \* per thread: "idle", "received", "append", "write", "end"
  crashes     \* restarts of the server so far

journalVars == <<journal, tail, request, step, crashes>>

NoRequest == [kind |-> "none"]

JournalInit ==
  /\ journal = <<>> /\ tail = "clean"
  /\ request = [h \in Handlers |-> NoRequest]
  /\ step = [h \in Handlers |-> "idle"]
  /\ crashes = 0

(* read_events: the whole file, or an exception at a line that is no       *)
(* record: one being written, or one ruined for ever.                      *)
Readable == tail \in {"clean", "unended"}
Records  == Range(journal)
Reviews  == {r \in Records : r.kind = "review"}
Outcomes == {r \in Records : r.kind = "outcome"}

Takes(h, r, s) ==
  /\ request' = [request EXCEPT ![h] = r]
  /\ step' = [step EXCEPT ![h] = s]
Idle(h) == Takes(h, NoRequest, "idle")

-----------------------------------------------------------------------------
(* POST /api/review: the operator clicks at `time', with the signal `seen' *)
(* on the screen; the request carries the action and the time.             *)
PostReview(h, action, time, seen) ==
  /\ step[h] = "idle"
  /\ Takes(h, [kind |-> "review", action |-> action, time |-> time, seen |-> seen], "received")
  /\ UNCHANGED <<journal, tail, crashes>>

(* record_review reads the snapshot: without a signal, or for the          *)
(* acceptance of an expired one, the request is answered 400.              *)
Captured(r, signal, expired) ==
  [kind |-> "review", action |-> r.action, time |-> r.time,
   signal |-> signal, expired |-> expired, asShown |-> signal = r.seen]
ReadSnapshotAny(h, signal, present, expired) ==   \* mutant: no check of the expiry
  /\ step[h] = "received"
  /\ IF present THEN Takes(h, Captured(request[h], signal, expired), "append") ELSE Idle(h)
  /\ UNCHANGED <<journal, tail, crashes>>
ReadSnapshot(h, signal, present, expired) ==
  /\ step[h] = "received"
  /\ IF present /\ ~(expired /\ request[h].action = "ACCEPT")
       THEN Takes(h, Captured(request[h], signal, expired), "append")
       ELSE Idle(h)
  /\ UNCHANGED <<journal, tail, crashes>>

(* POST /api/outcome: the review is looked up without the lock.            *)
PostOutcome(h, review) ==
  /\ step[h] = "idle" /\ Readable /\ review \in Reviews
  /\ Takes(h, [kind |-> "outcome", review |-> review], "append")
  /\ UNCHANGED <<journal, tail, crashes>>

-----------------------------------------------------------------------------
(* ManualReviewStore.append                                                *)

(* review_id hashes what the record holds, not what was on the screen.     *)
Id(r) == <<r.signal, r.expired, r.action, r.time>>

(* The event is in the file, or its review has an outcome.                 *)
Duplicate(r) ==
  IF r.kind = "review" THEN \E s \in Reviews : Id(s) = Id(r)
                       ELSE \E s \in Outcomes : Id(s.review) = Id(r.review)

Locked == \E h \in Handlers : step[h] \in {"write", "end"}

LockNotTaken(h) ==                     \* mutant: read and check without the lock
  /\ step[h] = "append"
  /\ IF ~Readable \/ Duplicate(request[h])
       THEN Idle(h)
       ELSE Takes(h, request[h], "write") /\ Len(journal) < MaxRecords
  /\ UNCHANGED <<journal, tail, crashes>>
(* The lock is taken and the file read: a line that is no record, a        *)
(* duplicate or a second outcome is answered 400 and the lock released.    *)
Lock(h) ==
  /\ step[h] = "append" /\ ~Locked
  /\ IF ~Readable \/ Duplicate(request[h])
       THEN Idle(h)
       ELSE Takes(h, request[h], "write") /\ Len(journal) < MaxRecords
  /\ UNCHANGED <<journal, tail, crashes>>

(* The first write: the line is out as a whole or in part.  Behind a line  *)
(* without its end it makes one line of two records.                       *)
Write(h) ==
  /\ step[h] = "write"
  /\ tail' \in IF tail = "clean" THEN {"unended", "partial"} ELSE {"ruined"}
  /\ journal' = Append(journal, request[h])
  /\ step' = [step EXCEPT ![h] = "end"]
  /\ UNCHANGED <<request, crashes>>

(* The rest of the line and its end are out, the lock is released and the  *)
(* request answered 201.                                                   *)
End(h) ==
  /\ step[h] = "end"
  /\ tail' = IF tail = "ruined" THEN "ruined" ELSE "clean"
  /\ Idle(h)
  /\ UNCHANGED <<journal, crashes>>

(* The server dies, wherever its threads are, and is started again.        *)
Crash ==
  /\ crashes < MaxCrashes /\ crashes' = crashes + 1
  /\ tail' = IF tail = "partial" THEN "ruined" ELSE tail
  /\ request' = [h \in Handlers |-> NoRequest]
  /\ step' = [h \in Handlers |-> "idle"]
  /\ UNCHANGED journal
=============================================================================
