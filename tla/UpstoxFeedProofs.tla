-------------------------- MODULE UpstoxFeedProofs --------------------------
(***************************************************************************)
(* Theorems about UpstoxFeed for any symbols, any number of connections    *)
(* and any number of attempts per reconnect, whatever line of the reader   *)
(* the watchdog's stop falls on.                                           *)
(***************************************************************************)
EXTENDS UpstoxFeed, TLAPS

(* Where the threads can be at the same time, and which sockets exist.     *)
Placed ==
  /\ ws # NoSocket => ws \in 1..opened
  /\ reader = "new" => shut = {} /\ ~ended /\ ~unresolved
  /\ reader = "subscribe" => ws # NoSocket
  /\ reader \in {"new", "subscribe"} => watchdog = "new"
  /\ watchdog = "new" =>
       /\ reader \in {"new", "subscribe", "ended"}
       /\ at["Watchdog"] = "out" /\ at["Reader"] = "out"
  /\ watchdog = "waiting" => at["Watchdog"] = "out"
  /\ at["Reader"] # "out" => reader \in {"stopping", "ended"}
  /\ reader = "ended" /\ watchdog # "new" => at["Reader"] = "done"

(* The flag is raised before anything of a disconnect is done, and a recv  *)
(* interrupted by one is not classified.                                   *)
Flagged ==
  /\ \A t \in Threads : at[t] \in {"look", "close", "null", "clear", "unmark"} => stopping
  /\ shut # {} \/ ended => stopping
  /\ reader = "classify" => ~ended

(* Until then the session's symbols are all there, kept through a          *)
(* reconnect, and the provider was asked for them on the current socket.   *)
Subscribed ==
  ~stopping =>
    /\ watchdog # "new" => symbols = Symbols
    /\ reader \in InReconnect => saved = Symbols
    /\ reader \in {"enter", "top", "recv", "caught", "classify", "frame"} /\ ws # NoSocket =>
         sent[ws] = Symbols
    /\ reader = "recv" => sock = ws

(* A thread raises in disconnect() only when its socket was taken away     *)
(* between two reads; the reader's only by a watchdog past its own.        *)
WatchdogPast == at["Watchdog"] \in {"clear", "unmark", "done"} /\ ~threw["Watchdog"]
Raced ==
  /\ \A t \in Threads : threw[t] => at[t] \in {"unmark", "done"}
  /\ at["Reader"] = "close" /\ ws = NoSocket => WatchdogPast
  /\ threw["Reader"] => WatchdogPast

Ended ==
  reader = "ended" /\ watchdog # "new" /\ ~failed => outcome = "finalized" \/ threw["Reader"]

(* The inductive invariant.                                                *)
FeedInv == TypeOK /\ Placed /\ Flagged /\ Subscribed /\ Raced /\ Ended /\ NamedUntilStopped
             /\ FailureCountedOnce

(* No step of either thread leaves the types.                              *)
(* A new connection is one of the sockets there can be, open and not shut.  *)
LEMMA AttachType ==
  ASSUME TypeOK, Attach, UNCHANGED shut
  PROVE  /\ opened' \in 0..MaxSockets /\ ws' \in Sockets
         /\ open' \subseteq 1..opened' /\ shut' \subseteq (1..opened') \ open'
<1> USE FeedAssumption DEF TypeOK, Attach, Sockets
<1>1. opened \in 0..MaxSockets /\ opened < MaxSockets /\ opened' = opened + 1
  OBVIOUS
<1>2. opened' \in 1..MaxSockets /\ 1..opened \subseteq 1..opened' /\ opened' \notin 1..opened
  BY <1>1
<1> QED
  BY <1>2

(* Each of the three counters stays a number.                              *)
LEMMA CountType ==
  ASSUME TypeOK, NEW c \in {"failure", "success", "exhausted"}, Count(c)
  PROVE  counts' \in [{"failure", "success", "exhausted"} -> Nat]
BY DEF TypeOK, Count

(* A step of a stop moves its thread and may close a socket.               *)
LEMMA StopType ==
  ASSUME TypeOK,
         at' \in [Threads -> {"out", "stop", "flag", "look", "close", "null", "clear", "unmark",
                             "done"}],
         threw' \in [Threads -> BOOLEAN], started' \in BOOLEAN,
         open' \subseteq 1..opened /\ shut' \subseteq (1..opened) \ open',
         UNCHANGED <<ws, stopping, symbols, opened, sent, reader, readVars, retryVars, sessionVars,
                     dogVars>>
  PROVE  TypeOK'
<1>1. UNCHANGED <<ws, stopping, symbols, opened, sent, reader, sock, error, ended, saved, aliased,
                  attempt, failed, outcome, unresolved, counts, watchdog, stopEvent>>
  BY DEF readVars, retryVars, sessionVars, dogVars
<1>2. open' \subseteq 1..opened' /\ shut' \subseteq (1..opened') \ open'
  BY <1>1
<1>3. /\ ws' \in Sockets \cup {NoSocket} /\ sock' \in Sockets \cup {NoSocket}
      /\ {stopping', started', ended', aliased', failed', stopEvent', unresolved'} \subseteq BOOLEAN
      /\ symbols' \subseteq Symbols /\ saved' \subseteq Symbols
      /\ opened' \in 0..MaxSockets
  BY <1>1 DEF TypeOK
<1>4. /\ sent' \in [Sockets -> SUBSET Symbols]
      /\ attempt' \in 0..MaxAttempts
      /\ counts' \in [{"failure", "success", "exhausted"} -> Nat]
  BY <1>1 DEF TypeOK
<1>5. /\ reader' \in {"new", "subscribe", "enter", "top", "recv", "caught", "classify",
                      "frame", "leaving", "stopping", "ended"} \cup InReconnect
      /\ error' \in {"none", "timeout", "connection", "other"}
      /\ outcome' \in {"none", "finalized", "raised"}
      /\ watchdog' \in {"new", "waiting", "stopping", "done"}
  BY <1>1 DEF TypeOK
<1> QED
  BY <1>2, <1>3, <1>4, <1>5 DEF TypeOK

LEMMA TypeStep == ASSUME TypeOK, Placed, [Next]_vars PROVE TypeOK'
<1> USE FeedAssumption DEF TypeOK, Threads, Sockets, InReconnect
<1> USE DEF feedVars, socketVars, readVars, retryVars, sessionVars, dogVars, stopVars
<1>1. ASSUME Connect PROVE TypeOK'
  <2>1. CASE Attach /\ reader' = "subscribe" /\ UNCHANGED outcome
    BY <1>1, <2>1, AttachType DEF Connect
  <2>2. CASE reader' = "ended" /\ outcome' = "raised" /\ UNCHANGED <<opened, ws, open>>
    BY <1>1, <2>2 DEF Connect
  <2> QED
    BY <1>1, <2>1, <2>2 DEF Connect
<1>2. ASSUME Subscribe PROVE TypeOK'
  <2>1. ws \in 1..opened /\ ws \in Sockets
    BY <1>2 DEF Placed, Subscribe
  <2>2. sent' \in [Sockets -> SUBSET Symbols] /\ symbols' \subseteq Symbols
    BY <1>2, <2>1 DEF Subscribe
  <2>3. open' \subseteq 1..opened /\ shut' \subseteq (1..opened) \ open' /\ opened' = opened
    BY <1>2, <2>1 DEF Subscribe
  <2> QED
    BY <1>2, <2>2, <2>3 DEF Subscribe
<1>3. ASSUME EnterEvents PROVE TypeOK'
  BY <1>3 DEF EnterEvents
<1>4. ASSUME ReadSocket PROVE TypeOK'
  BY <1>4 DEF ReadSocket
<1>5. ASSUME RecvFrame PROVE TypeOK'
  BY <1>5 DEF RecvFrame
<1>6. ASSUME RecvNothing PROVE TypeOK'
  BY <1>6 DEF RecvNothing
<1>7. ASSUME RecvTimesOut PROVE TypeOK'
  BY <1>7 DEF RecvTimesOut
<1>8. ASSUME NEW e \in {"connection", "other"}, RecvRaises(e) PROVE TypeOK'
  BY <1>8 DEF RecvRaises
<1>9. ASSUME Caught PROVE TypeOK'
  BY <1>9 DEF Caught
<1>10. ASSUME Classify PROVE TypeOK'
  <2>1. CASE error = "connection" /\ reader' = "reconnect" /\ Count("failure")
             /\ saved' = symbols /\ aliased' = FALSE /\ attempt' = 0 /\ UNCHANGED failed
    <3>1. counts' \in [{"failure", "success", "exhausted"} -> Nat]
      BY <2>1, CountType
    <3>2. attempt' \in 0..MaxAttempts
      BY <2>1
    <3> QED
      BY <1>10, <2>1, <3>1, <3>2 DEF Classify
  <2>2. CASE error = "timeout" /\ reader' = "top" /\ UNCHANGED <<retryVars, failed, counts>>
    BY <1>10, <2>2 DEF Classify
  <2>3. CASE error = "other" /\ reader' = "leaving" /\ failed' = TRUE
             /\ UNCHANGED <<retryVars, counts>>
    BY <1>10, <2>3 DEF Classify
  <2>4. \/ error = "timeout" /\ reader' = "top" /\ UNCHANGED <<retryVars, failed, counts>>
        \/ error = "other" /\ reader' = "leaving" /\ failed' = TRUE
             /\ UNCHANGED <<retryVars, counts>>
        \/ error = "connection" /\ reader' = "reconnect" /\ Count("failure")
             /\ saved' = symbols /\ aliased' = FALSE /\ attempt' = 0 /\ UNCHANGED failed
    <3> USE <1>10 DEF Classify
    <3> QED
      OBVIOUS
  <2> QED
    BY <2>1, <2>2, <2>3, <2>4
<1>11. ASSUME HandleFrame PROVE TypeOK'
  BY <1>11 DEF HandleFrame
<1>12. ASSUME ReconnectTry PROVE TypeOK'
  BY <1>12 DEF ReconnectTry
<1>13. ASSUME ReconnectExhausted PROVE TypeOK'
  BY <1>13 DEF ReconnectExhausted, Count
<1>14. ASSUME OpenAgain PROVE TypeOK'
  <2>1. CASE Attach /\ reader' = "restore"
    BY <1>14, <2>1, AttachType DEF OpenAgain
  <2>2. CASE ws' = NoSocket /\ reader' = "reconnect" /\ UNCHANGED <<opened, open>>
    BY <1>14, <2>2 DEF OpenAgain
  <2> QED
    BY <1>14, <2>1, <2>2 DEF OpenAgain
<1>15. ASSUME Restore PROVE TypeOK'
  BY <1>15 DEF Restore
<1>16. ASSUME Send PROVE TypeOK'
  <2>1. CASE Count("success") /\ reader' = "top" /\ UNCHANGED ws
             /\ sent' = IF symbols = {} THEN sent ELSE [sent EXCEPT ![ws] = symbols]
    <3>1. counts' \in [{"failure", "success", "exhausted"} -> Nat]
      BY <2>1, CountType
    <3>2. sent' \in [Sockets -> SUBSET Symbols]
      BY <2>1
    <3> QED
      BY <1>16, <2>1, <3>1, <3>2 DEF Send
  <2>2. CASE ws' = NoSocket /\ reader' = "reconnect" /\ UNCHANGED <<sent, counts>>
    BY <1>16, <2>2 DEF Send
  <2> QED
    BY <1>16, <2>1, <2>2 DEF Send
<1>17. ASSUME Leave PROVE TypeOK'
  BY <1>17 DEF Leave
<1>18. ASSUME EndSession PROVE TypeOK'
  BY <1>18 DEF EndSession
<1>19. ASSUME SessionCloses PROVE TypeOK'
  BY <1>19 DEF SessionCloses
<1>20. ASSUME WatchdogLeaves PROVE TypeOK'
  BY <1>20 DEF WatchdogLeaves
<1>21. ASSUME NEW t \in Threads, StopBegin(t) PROVE TypeOK'
  BY <1>21 DEF StopBegin
<1>22. ASSUME NEW t \in Threads, DisconnectFlag(t) PROVE TypeOK'
  BY <1>22 DEF DisconnectFlag
<1>23. ASSUME NEW t \in Threads, DisconnectLook(t) PROVE TypeOK'
  BY <1>23 DEF DisconnectLook
<1>24. ASSUME NEW t \in Threads, DisconnectClose(t) PROVE TypeOK'
  <2>1. \A p \in {"unmark", "null"} :
          [at EXCEPT ![t] = p] \in [Threads -> {"out", "stop", "flag", "look", "close", "null",
                                              "clear", "unmark", "done"}]
    OBVIOUS
  <2>2. [threw EXCEPT ![t] = TRUE] \in [Threads -> BOOLEAN]
    OBVIOUS
  <2>3. CASE ws = NoSocket
    <3>1. /\ at' = [at EXCEPT ![t] = "unmark"] /\ threw' = [threw EXCEPT ![t] = TRUE]
          /\ UNCHANGED <<open, shut, feedVars, opened, sent, reader, readVars, retryVars,
                         sessionVars, dogVars>>
      BY <1>24, <2>3 DEF DisconnectClose
    <3> QED
      BY <2>1, <2>2, <3>1, StopType
  <2>4. CASE ws # NoSocket
    <3>1. ws \in 1..opened
      BY <2>4 DEF Placed
    <3>2. /\ open' = open \ {ws} /\ shut' = shut \cup {ws}
          /\ at' = [at EXCEPT ![t] = "null"]
          /\ UNCHANGED <<threw, feedVars, opened, sent, reader, readVars, retryVars, sessionVars,
                         dogVars>>
      BY <1>24, <2>4 DEF DisconnectClose
    <3>3. open' \subseteq 1..opened /\ shut' \subseteq (1..opened) \ open'
      BY <3>1, <3>2
    <3> QED
      BY <2>1, <3>2, <3>3, StopType
  <2> QED
    BY <2>3, <2>4
<1>25. ASSUME NEW t \in Threads, DisconnectDetach(t) PROVE TypeOK'
  BY <1>25 DEF DisconnectDetach
<1>26. ASSUME NEW t \in Threads, DisconnectClear(t) PROVE TypeOK'
  BY <1>26 DEF DisconnectClear
<1>27. ASSUME NEW t \in Threads, StopUnmark(t) PROVE TypeOK'
  <2>1. [at EXCEPT ![t] = "done"] \in [Threads -> {"out", "stop", "flag", "look", "close", "null",
                                                  "clear", "unmark", "done"}]
    OBVIOUS
  <2>2. /\ at' = [at EXCEPT ![t] = "done"] /\ started' = FALSE
        /\ UNCHANGED <<threw, open, shut, ws, stopping, symbols, opened, sent, reader, readVars,
                       retryVars, sessionVars, dogVars>>
    BY <1>27 DEF StopUnmark
  <2> QED
    BY <2>1, <2>2, StopType
<1>28. ASSUME UNCHANGED vars PROVE TypeOK'
  BY <1>28 DEF vars
<1> QED
  BY <1>1, <1>2, <1>3, <1>4, <1>5, <1>6, <1>7, <1>8, <1>9, <1>10, <1>11, <1>12, <1>13, <1>14,
     <1>15, <1>16, <1>17, <1>18, <1>19, <1>20, <1>21, <1>22, <1>23, <1>24, <1>25, <1>26, <1>27, <1>28
  DEF Next, ReaderStep, StopStep, Recv

(* The watchdog runs from a successful subscription on, and the reader is  *)
(* inside pipeline.stop only in the `finally` clause.                      *)
LEMMA PlaceStep == ASSUME TypeOK, Placed, [Next]_vars PROVE Placed'
<1> USE FeedAssumption DEF Placed, TypeOK, Threads, Sockets, InReconnect
<1> USE DEF feedVars, socketVars, readVars, retryVars, sessionVars, dogVars, stopVars
<1>1. ASSUME Connect PROVE Placed'
  BY <1>1 DEF Connect, Attach
<1>2. ASSUME Subscribe PROVE Placed'
  BY <1>2 DEF Subscribe
<1>3. ASSUME EnterEvents PROVE Placed'
  BY <1>3 DEF EnterEvents
<1>4. ASSUME ReadSocket PROVE Placed'
  BY <1>4 DEF ReadSocket
<1>5. ASSUME RecvFrame PROVE Placed'
  BY <1>5 DEF RecvFrame
<1>6. ASSUME RecvNothing PROVE Placed'
  BY <1>6 DEF RecvNothing
<1>7. ASSUME RecvTimesOut PROVE Placed'
  BY <1>7 DEF RecvTimesOut
<1>8. ASSUME NEW e \in {"connection", "other"}, RecvRaises(e) PROVE Placed'
  BY <1>8 DEF RecvRaises
<1>9. ASSUME Caught PROVE Placed'
  BY <1>9 DEF Caught
<1>10. ASSUME Classify PROVE Placed'
  BY <1>10 DEF Classify, Count
<1>11. ASSUME HandleFrame PROVE Placed'
  BY <1>11 DEF HandleFrame
<1>12. ASSUME ReconnectTry PROVE Placed'
  BY <1>12 DEF ReconnectTry
<1>13. ASSUME ReconnectExhausted PROVE Placed'
  BY <1>13 DEF ReconnectExhausted, Count
<1>14. ASSUME OpenAgain PROVE Placed'
  BY <1>14 DEF OpenAgain, Attach
<1>15. ASSUME Restore PROVE Placed'
  BY <1>15 DEF Restore
<1>16. ASSUME Send PROVE Placed'
  BY <1>16 DEF Send, Count
<1>17. ASSUME Leave PROVE Placed'
  BY <1>17 DEF Leave
<1>18. ASSUME EndSession PROVE Placed'
  BY <1>18 DEF EndSession
<1>19. ASSUME SessionCloses PROVE Placed'
  BY <1>19 DEF SessionCloses
<1>20. ASSUME WatchdogLeaves PROVE Placed'
  BY <1>20 DEF WatchdogLeaves
<1>21. ASSUME NEW t \in Threads, StopBegin(t) PROVE Placed'
  BY <1>21 DEF StopBegin
<1>22. ASSUME NEW t \in Threads, DisconnectFlag(t) PROVE Placed'
  BY <1>22 DEF DisconnectFlag
<1>23. ASSUME NEW t \in Threads, DisconnectLook(t) PROVE Placed'
  BY <1>23 DEF DisconnectLook
<1>24. ASSUME NEW t \in Threads, DisconnectClose(t) PROVE Placed'
  BY <1>24 DEF DisconnectClose
<1>25. ASSUME NEW t \in Threads, DisconnectDetach(t) PROVE Placed'
  BY <1>25 DEF DisconnectDetach
<1>26. ASSUME NEW t \in Threads, DisconnectClear(t) PROVE Placed'
  BY <1>26 DEF DisconnectClear
<1>27. ASSUME NEW t \in Threads, StopUnmark(t) PROVE Placed'
  BY <1>27 DEF StopUnmark
<1>28. ASSUME UNCHANGED vars PROVE Placed'
  BY <1>28 DEF vars
<1> QED
  BY <1>1, <1>2, <1>3, <1>4, <1>5, <1>6, <1>7, <1>8, <1>9, <1>10, <1>11, <1>12, <1>13, <1>14,
     <1>15, <1>16, <1>17, <1>18, <1>19, <1>20, <1>21, <1>22, <1>23, <1>24, <1>25, <1>26, <1>27, <1>28
  DEF Next, ReaderStep, StopStep, Recv

(* _stopping is raised by the first line of disconnect() and lowered only by *)
(* connect(), before there is a second thread.                             *)
LEMMA FlagStep == ASSUME TypeOK, Placed, Flagged, [Next]_vars PROVE Flagged'
<1> USE FeedAssumption DEF Flagged, TypeOK, Placed, Threads, Sockets, InReconnect
<1> USE DEF feedVars, socketVars, readVars, retryVars, sessionVars, dogVars, stopVars
<1>1. ASSUME Connect PROVE Flagged'
  BY <1>1 DEF Connect, Attach
<1>2. ASSUME Subscribe PROVE Flagged'
  BY <1>2 DEF Subscribe
<1>3. ASSUME EnterEvents PROVE Flagged'
  BY <1>3 DEF EnterEvents
<1>4. ASSUME ReadSocket PROVE Flagged'
  BY <1>4 DEF ReadSocket
<1>5. ASSUME RecvFrame PROVE Flagged'
  BY <1>5 DEF RecvFrame
<1>6. ASSUME RecvNothing PROVE Flagged'
  BY <1>6 DEF RecvNothing
<1>7. ASSUME RecvTimesOut PROVE Flagged'
  BY <1>7 DEF RecvTimesOut
<1>8. ASSUME NEW e \in {"connection", "other"}, RecvRaises(e) PROVE Flagged'
  BY <1>8 DEF RecvRaises
<1>9. ASSUME Caught PROVE Flagged'
  BY <1>9 DEF Caught
<1>10. ASSUME Classify PROVE Flagged'
  BY <1>10 DEF Classify, Count
<1>11. ASSUME HandleFrame PROVE Flagged'
  BY <1>11 DEF HandleFrame
<1>12. ASSUME ReconnectTry PROVE Flagged'
  BY <1>12 DEF ReconnectTry
<1>13. ASSUME ReconnectExhausted PROVE Flagged'
  BY <1>13 DEF ReconnectExhausted, Count
<1>14. ASSUME OpenAgain PROVE Flagged'
  BY <1>14 DEF OpenAgain, Attach
<1>15. ASSUME Restore PROVE Flagged'
  BY <1>15 DEF Restore
<1>16. ASSUME Send PROVE Flagged'
  BY <1>16 DEF Send, Count
<1>17. ASSUME Leave PROVE Flagged'
  BY <1>17 DEF Leave
<1>18. ASSUME EndSession PROVE Flagged'
  BY <1>18 DEF EndSession
<1>19. ASSUME SessionCloses PROVE Flagged'
  BY <1>19 DEF SessionCloses
<1>20. ASSUME WatchdogLeaves PROVE Flagged'
  BY <1>20 DEF WatchdogLeaves
<1>21. ASSUME NEW t \in Threads, StopBegin(t) PROVE Flagged'
  BY <1>21 DEF StopBegin
<1>22. ASSUME NEW t \in Threads, DisconnectFlag(t) PROVE Flagged'
  BY <1>22 DEF DisconnectFlag
<1>23. ASSUME NEW t \in Threads, DisconnectLook(t) PROVE Flagged'
  BY <1>23 DEF DisconnectLook
<1>24. ASSUME NEW t \in Threads, DisconnectClose(t) PROVE Flagged'
  BY <1>24 DEF DisconnectClose
<1>25. ASSUME NEW t \in Threads, DisconnectDetach(t) PROVE Flagged'
  BY <1>25 DEF DisconnectDetach
<1>26. ASSUME NEW t \in Threads, DisconnectClear(t) PROVE Flagged'
  BY <1>26 DEF DisconnectClear
<1>27. ASSUME NEW t \in Threads, StopUnmark(t) PROVE Flagged'
  BY <1>27 DEF StopUnmark
<1>28. ASSUME UNCHANGED vars PROVE Flagged'
  BY <1>28 DEF vars
<1> QED
  BY <1>1, <1>2, <1>3, <1>4, <1>5, <1>6, <1>7, <1>8, <1>9, <1>10, <1>11, <1>12, <1>13, <1>14,
     <1>15, <1>16, <1>17, <1>18, <1>19, <1>20, <1>21, <1>22, <1>23, <1>24, <1>25, <1>26, <1>27, <1>28
  DEF Next, ReaderStep, StopStep, Recv

(* A reconnect preserves the symbols, puts them back and sends them again  *)
(* before the reader waits once more.                                      *)
LEMMA SubscribedStep == ASSUME TypeOK, Placed, Flagged, Subscribed, [Next]_vars PROVE Subscribed'
<1> USE FeedAssumption DEF Subscribed, TypeOK, Placed, Flagged, Threads, Sockets, InReconnect
<1> USE DEF feedVars, socketVars, readVars, retryVars, sessionVars, dogVars, stopVars
<1>1. ASSUME Connect PROVE Subscribed'
  BY <1>1 DEF Connect, Attach
<1>2. ASSUME Subscribe PROVE Subscribed'
  BY <1>2 DEF Subscribe
<1>3. ASSUME EnterEvents PROVE Subscribed'
  BY <1>3 DEF EnterEvents
<1>4. ASSUME ReadSocket PROVE Subscribed'
  BY <1>4 DEF ReadSocket
<1>5. ASSUME RecvFrame PROVE Subscribed'
  BY <1>5 DEF RecvFrame
<1>6. ASSUME RecvNothing PROVE Subscribed'
  BY <1>6 DEF RecvNothing
<1>7. ASSUME RecvTimesOut PROVE Subscribed'
  BY <1>7 DEF RecvTimesOut
<1>8. ASSUME NEW e \in {"connection", "other"}, RecvRaises(e) PROVE Subscribed'
  BY <1>8 DEF RecvRaises
<1>9. ASSUME Caught PROVE Subscribed'
  BY <1>9 DEF Caught
<1>10. ASSUME Classify PROVE Subscribed'
  BY <1>10 DEF Classify, Count
<1>11. ASSUME HandleFrame PROVE Subscribed'
  BY <1>11 DEF HandleFrame
<1>12. ASSUME ReconnectTry PROVE Subscribed'
  BY <1>12 DEF ReconnectTry
<1>13. ASSUME ReconnectExhausted PROVE Subscribed'
  BY <1>13 DEF ReconnectExhausted, Count
<1>14. ASSUME OpenAgain PROVE Subscribed'
  BY <1>14 DEF OpenAgain, Attach
<1>15. ASSUME Restore PROVE Subscribed'
  BY <1>15 DEF Restore
<1>16. ASSUME Send PROVE Subscribed'
  BY <1>16 DEF Send, Count
<1>17. ASSUME Leave PROVE Subscribed'
  BY <1>17 DEF Leave
<1>18. ASSUME EndSession PROVE Subscribed'
  BY <1>18 DEF EndSession
<1>19. ASSUME SessionCloses PROVE Subscribed'
  BY <1>19 DEF SessionCloses
<1>20. ASSUME WatchdogLeaves PROVE Subscribed'
  BY <1>20 DEF WatchdogLeaves
<1>21. ASSUME NEW t \in Threads, StopBegin(t) PROVE Subscribed'
  BY <1>21 DEF StopBegin
<1>22. ASSUME NEW t \in Threads, DisconnectFlag(t) PROVE Subscribed'
  BY <1>22 DEF DisconnectFlag
<1>23. ASSUME NEW t \in Threads, DisconnectLook(t) PROVE Subscribed'
  BY <1>23 DEF DisconnectLook
<1>24. ASSUME NEW t \in Threads, DisconnectClose(t) PROVE Subscribed'
  BY <1>24 DEF DisconnectClose
<1>25. ASSUME NEW t \in Threads, DisconnectDetach(t) PROVE Subscribed'
  BY <1>25 DEF DisconnectDetach
<1>26. ASSUME NEW t \in Threads, DisconnectClear(t) PROVE Subscribed'
  BY <1>26 DEF DisconnectClear
<1>27. ASSUME NEW t \in Threads, StopUnmark(t) PROVE Subscribed'
  BY <1>27 DEF StopUnmark
<1>28. ASSUME UNCHANGED vars PROVE Subscribed'
  BY <1>28 DEF vars
<1> QED
  BY <1>1, <1>2, <1>3, <1>4, <1>5, <1>6, <1>7, <1>8, <1>9, <1>10, <1>11, <1>12, <1>13, <1>14,
     <1>15, <1>16, <1>17, <1>18, <1>19, <1>20, <1>21, <1>22, <1>23, <1>24, <1>25, <1>26, <1>27, <1>28
  DEF Next, ReaderStep, StopStep, Recv

(* Of two threads inside disconnect(), at most one finds _ws gone between  *)
(* its two reads.                                                          *)
LEMMA RaceStep == ASSUME TypeOK, Placed, Raced, [Next]_vars PROVE Raced'
<1> USE FeedAssumption DEF Raced, TypeOK, Placed, Threads, Sockets, InReconnect, WatchdogPast
<1> USE DEF feedVars, socketVars, readVars, retryVars, sessionVars, dogVars, stopVars
<1>1. ASSUME Connect PROVE Raced'
  BY <1>1 DEF Connect, Attach
<1>2. ASSUME Subscribe PROVE Raced'
  BY <1>2 DEF Subscribe
<1>3. ASSUME EnterEvents PROVE Raced'
  BY <1>3 DEF EnterEvents
<1>4. ASSUME ReadSocket PROVE Raced'
  BY <1>4 DEF ReadSocket
<1>5. ASSUME RecvFrame PROVE Raced'
  BY <1>5 DEF RecvFrame
<1>6. ASSUME RecvNothing PROVE Raced'
  BY <1>6 DEF RecvNothing
<1>7. ASSUME RecvTimesOut PROVE Raced'
  BY <1>7 DEF RecvTimesOut
<1>8. ASSUME NEW e \in {"connection", "other"}, RecvRaises(e) PROVE Raced'
  BY <1>8 DEF RecvRaises
<1>9. ASSUME Caught PROVE Raced'
  BY <1>9 DEF Caught
<1>10. ASSUME Classify PROVE Raced'
  BY <1>10 DEF Classify, Count
<1>11. ASSUME HandleFrame PROVE Raced'
  BY <1>11 DEF HandleFrame
<1>12. ASSUME ReconnectTry PROVE Raced'
  BY <1>12 DEF ReconnectTry
<1>13. ASSUME ReconnectExhausted PROVE Raced'
  BY <1>13 DEF ReconnectExhausted, Count
<1>14. ASSUME OpenAgain PROVE Raced'
  BY <1>14 DEF OpenAgain, Attach
<1>15. ASSUME Restore PROVE Raced'
  BY <1>15 DEF Restore
<1>16. ASSUME Send PROVE Raced'
  BY <1>16 DEF Send, Count
<1>17. ASSUME Leave PROVE Raced'
  BY <1>17 DEF Leave
<1>18. ASSUME EndSession PROVE Raced'
  BY <1>18 DEF EndSession
<1>19. ASSUME SessionCloses PROVE Raced'
  BY <1>19 DEF SessionCloses
<1>20. ASSUME WatchdogLeaves PROVE Raced'
  BY <1>20 DEF WatchdogLeaves
<1>21. ASSUME NEW t \in Threads, StopBegin(t) PROVE Raced'
  BY <1>21 DEF StopBegin
<1>22. ASSUME NEW t \in Threads, DisconnectFlag(t) PROVE Raced'
  BY <1>22 DEF DisconnectFlag
<1>23. ASSUME NEW t \in Threads, DisconnectLook(t) PROVE Raced'
  BY <1>23 DEF DisconnectLook
<1>24. ASSUME NEW t \in Threads, DisconnectClose(t) PROVE Raced'
  BY <1>24 DEF DisconnectClose
<1>25. ASSUME NEW t \in Threads, DisconnectDetach(t) PROVE Raced'
  BY <1>25 DEF DisconnectDetach
<1>26. ASSUME NEW t \in Threads, DisconnectClear(t) PROVE Raced'
  BY <1>26 DEF DisconnectClear
<1>27. ASSUME NEW t \in Threads, StopUnmark(t) PROVE Raced'
  BY <1>27 DEF StopUnmark
<1>28. ASSUME UNCHANGED vars PROVE Raced'
  BY <1>28 DEF vars
<1> QED
  BY <1>1, <1>2, <1>3, <1>4, <1>5, <1>6, <1>7, <1>8, <1>9, <1>10, <1>11, <1>12, <1>13, <1>14,
     <1>15, <1>16, <1>17, <1>18, <1>19, <1>20, <1>21, <1>22, <1>23, <1>24, <1>25, <1>26, <1>27, <1>28
  DEF Next, ReaderStep, StopStep, Recv

(* The outcome of the session is decided by what the loop and the stop did. *)
LEMMA EndStep == ASSUME Placed, Raced, Ended, [Next]_vars PROVE Ended'
<1> USE FeedAssumption DEF Ended, Placed, Raced, Threads, Sockets, InReconnect, WatchdogPast
<1> USE DEF feedVars, socketVars, readVars, retryVars, sessionVars, dogVars, stopVars
<1>1. ASSUME Connect PROVE Ended'
  BY <1>1 DEF Connect, Attach
<1>2. ASSUME Subscribe PROVE Ended'
  BY <1>2 DEF Subscribe
<1>3. ASSUME EnterEvents PROVE Ended'
  BY <1>3 DEF EnterEvents
<1>4. ASSUME ReadSocket PROVE Ended'
  BY <1>4 DEF ReadSocket
<1>5. ASSUME RecvFrame PROVE Ended'
  BY <1>5 DEF RecvFrame
<1>6. ASSUME RecvNothing PROVE Ended'
  BY <1>6 DEF RecvNothing
<1>7. ASSUME RecvTimesOut PROVE Ended'
  BY <1>7 DEF RecvTimesOut
<1>8. ASSUME NEW e \in {"connection", "other"}, RecvRaises(e) PROVE Ended'
  BY <1>8 DEF RecvRaises
<1>9. ASSUME Caught PROVE Ended'
  BY <1>9 DEF Caught
<1>10. ASSUME Classify PROVE Ended'
  BY <1>10 DEF Classify, Count
<1>11. ASSUME HandleFrame PROVE Ended'
  BY <1>11 DEF HandleFrame
<1>12. ASSUME ReconnectTry PROVE Ended'
  BY <1>12 DEF ReconnectTry
<1>13. ASSUME ReconnectExhausted PROVE Ended'
  BY <1>13 DEF ReconnectExhausted, Count
<1>14. ASSUME OpenAgain PROVE Ended'
  BY <1>14 DEF OpenAgain, Attach
<1>15. ASSUME Restore PROVE Ended'
  BY <1>15 DEF Restore
<1>16. ASSUME Send PROVE Ended'
  BY <1>16 DEF Send, Count
<1>17. ASSUME Leave PROVE Ended'
  BY <1>17 DEF Leave
<1>18. ASSUME EndSession PROVE Ended'
  BY <1>18 DEF EndSession
<1>19. ASSUME SessionCloses PROVE Ended'
  BY <1>19 DEF SessionCloses
<1>20. ASSUME WatchdogLeaves PROVE Ended'
  BY <1>20 DEF WatchdogLeaves
<1>21. ASSUME NEW t \in Threads, StopBegin(t) PROVE Ended'
  BY <1>21 DEF StopBegin
<1>22. ASSUME NEW t \in Threads, DisconnectFlag(t) PROVE Ended'
  BY <1>22 DEF DisconnectFlag
<1>23. ASSUME NEW t \in Threads, DisconnectLook(t) PROVE Ended'
  BY <1>23 DEF DisconnectLook
<1>24. ASSUME NEW t \in Threads, DisconnectClose(t) PROVE Ended'
  BY <1>24 DEF DisconnectClose
<1>25. ASSUME NEW t \in Threads, DisconnectDetach(t) PROVE Ended'
  BY <1>25 DEF DisconnectDetach
<1>26. ASSUME NEW t \in Threads, DisconnectClear(t) PROVE Ended'
  BY <1>26 DEF DisconnectClear
<1>27. ASSUME NEW t \in Threads, StopUnmark(t) PROVE Ended'
  BY <1>27 DEF StopUnmark
<1>28. ASSUME UNCHANGED vars PROVE Ended'
  BY <1>28 DEF vars
<1> QED
  BY <1>1, <1>2, <1>3, <1>4, <1>5, <1>6, <1>7, <1>8, <1>9, <1>10, <1>11, <1>12, <1>13, <1>14,
     <1>15, <1>16, <1>17, <1>18, <1>19, <1>20, <1>21, <1>22, <1>23, <1>24, <1>25, <1>26, <1>27, <1>28
  DEF Next, ReaderStep, StopStep, Recv

(* An event loses its name only while the symbols are cleared, so under the *)
(* flag.                                                                   *)
LEMMA NameStep ==
  ASSUME TypeOK, Placed, Subscribed, NamedUntilStopped, [Next]_vars
  PROVE  NamedUntilStopped'
<1> USE FeedAssumption DEF NamedUntilStopped, TypeOK, Placed, Subscribed, Threads, Sockets, InReconnect
<1> USE DEF feedVars, socketVars, readVars, retryVars, sessionVars, dogVars, stopVars
<1>1. ASSUME Connect PROVE NamedUntilStopped'
  BY <1>1 DEF Connect, Attach
<1>2. ASSUME Subscribe PROVE NamedUntilStopped'
  BY <1>2 DEF Subscribe
<1>3. ASSUME EnterEvents PROVE NamedUntilStopped'
  BY <1>3 DEF EnterEvents
<1>4. ASSUME ReadSocket PROVE NamedUntilStopped'
  BY <1>4 DEF ReadSocket
<1>5. ASSUME RecvFrame PROVE NamedUntilStopped'
  BY <1>5 DEF RecvFrame
<1>6. ASSUME RecvNothing PROVE NamedUntilStopped'
  BY <1>6 DEF RecvNothing
<1>7. ASSUME RecvTimesOut PROVE NamedUntilStopped'
  BY <1>7 DEF RecvTimesOut
<1>8. ASSUME NEW e \in {"connection", "other"}, RecvRaises(e) PROVE NamedUntilStopped'
  BY <1>8 DEF RecvRaises
<1>9. ASSUME Caught PROVE NamedUntilStopped'
  BY <1>9 DEF Caught
<1>10. ASSUME Classify PROVE NamedUntilStopped'
  BY <1>10 DEF Classify, Count
<1>11. ASSUME HandleFrame PROVE NamedUntilStopped'
  BY <1>11 DEF HandleFrame
<1>12. ASSUME ReconnectTry PROVE NamedUntilStopped'
  BY <1>12 DEF ReconnectTry
<1>13. ASSUME ReconnectExhausted PROVE NamedUntilStopped'
  BY <1>13 DEF ReconnectExhausted, Count
<1>14. ASSUME OpenAgain PROVE NamedUntilStopped'
  BY <1>14 DEF OpenAgain, Attach
<1>15. ASSUME Restore PROVE NamedUntilStopped'
  BY <1>15 DEF Restore
<1>16. ASSUME Send PROVE NamedUntilStopped'
  BY <1>16 DEF Send, Count
<1>17. ASSUME Leave PROVE NamedUntilStopped'
  BY <1>17 DEF Leave
<1>18. ASSUME EndSession PROVE NamedUntilStopped'
  BY <1>18 DEF EndSession
<1>19. ASSUME SessionCloses PROVE NamedUntilStopped'
  BY <1>19 DEF SessionCloses
<1>20. ASSUME WatchdogLeaves PROVE NamedUntilStopped'
  BY <1>20 DEF WatchdogLeaves
<1>21. ASSUME NEW t \in Threads, StopBegin(t) PROVE NamedUntilStopped'
  BY <1>21 DEF StopBegin
<1>22. ASSUME NEW t \in Threads, DisconnectFlag(t) PROVE NamedUntilStopped'
  BY <1>22 DEF DisconnectFlag
<1>23. ASSUME NEW t \in Threads, DisconnectLook(t) PROVE NamedUntilStopped'
  BY <1>23 DEF DisconnectLook
<1>24. ASSUME NEW t \in Threads, DisconnectClose(t) PROVE NamedUntilStopped'
  BY <1>24 DEF DisconnectClose
<1>25. ASSUME NEW t \in Threads, DisconnectDetach(t) PROVE NamedUntilStopped'
  BY <1>25 DEF DisconnectDetach
<1>26. ASSUME NEW t \in Threads, DisconnectClear(t) PROVE NamedUntilStopped'
  BY <1>26 DEF DisconnectClear
<1>27. ASSUME NEW t \in Threads, StopUnmark(t) PROVE NamedUntilStopped'
  BY <1>27 DEF StopUnmark
<1>28. ASSUME UNCHANGED vars PROVE NamedUntilStopped'
  BY <1>28 DEF vars
<1> QED
  BY <1>1, <1>2, <1>3, <1>4, <1>5, <1>6, <1>7, <1>8, <1>9, <1>10, <1>11, <1>12, <1>13, <1>14,
     <1>15, <1>16, <1>17, <1>18, <1>19, <1>20, <1>21, <1>22, <1>23, <1>24, <1>25, <1>26, <1>27, <1>28
  DEF Next, ReaderStep, StopStep, Recv

(* Each action that enters or leaves _reconnect moves exactly one counter. *)
LEMMA CountStep == ASSUME TypeOK, FailureCountedOnce, [Next]_vars PROVE FailureCountedOnce'
<1> USE FeedAssumption DEF FailureCountedOnce, TypeOK, Threads, Sockets, InReconnect
<1> USE DEF feedVars, socketVars, readVars, retryVars, sessionVars, dogVars, stopVars
<1>1. ASSUME Connect PROVE FailureCountedOnce'
  BY <1>1 DEF Connect, Attach
<1>2. ASSUME Subscribe PROVE FailureCountedOnce'
  BY <1>2 DEF Subscribe
<1>3. ASSUME EnterEvents PROVE FailureCountedOnce'
  BY <1>3 DEF EnterEvents
<1>4. ASSUME ReadSocket PROVE FailureCountedOnce'
  BY <1>4 DEF ReadSocket
<1>5. ASSUME RecvFrame PROVE FailureCountedOnce'
  BY <1>5 DEF RecvFrame
<1>6. ASSUME RecvNothing PROVE FailureCountedOnce'
  BY <1>6 DEF RecvNothing
<1>7. ASSUME RecvTimesOut PROVE FailureCountedOnce'
  BY <1>7 DEF RecvTimesOut
<1>8. ASSUME NEW e \in {"connection", "other"}, RecvRaises(e) PROVE FailureCountedOnce'
  BY <1>8 DEF RecvRaises
<1>9. ASSUME Caught PROVE FailureCountedOnce'
  BY <1>9 DEF Caught
<1>10. ASSUME Classify PROVE FailureCountedOnce'
  BY <1>10 DEF Classify, Count
<1>11. ASSUME HandleFrame PROVE FailureCountedOnce'
  BY <1>11 DEF HandleFrame
<1>12. ASSUME ReconnectTry PROVE FailureCountedOnce'
  BY <1>12 DEF ReconnectTry
<1>13. ASSUME ReconnectExhausted PROVE FailureCountedOnce'
  BY <1>13 DEF ReconnectExhausted, Count
<1>14. ASSUME OpenAgain PROVE FailureCountedOnce'
  BY <1>14 DEF OpenAgain, Attach
<1>15. ASSUME Restore PROVE FailureCountedOnce'
  BY <1>15 DEF Restore
<1>16. ASSUME Send PROVE FailureCountedOnce'
  BY <1>16 DEF Send, Count
<1>17. ASSUME Leave PROVE FailureCountedOnce'
  BY <1>17 DEF Leave
<1>18. ASSUME EndSession PROVE FailureCountedOnce'
  BY <1>18 DEF EndSession
<1>19. ASSUME SessionCloses PROVE FailureCountedOnce'
  BY <1>19 DEF SessionCloses
<1>20. ASSUME WatchdogLeaves PROVE FailureCountedOnce'
  BY <1>20 DEF WatchdogLeaves
<1>21. ASSUME NEW t \in Threads, StopBegin(t) PROVE FailureCountedOnce'
  BY <1>21 DEF StopBegin
<1>22. ASSUME NEW t \in Threads, DisconnectFlag(t) PROVE FailureCountedOnce'
  BY <1>22 DEF DisconnectFlag
<1>23. ASSUME NEW t \in Threads, DisconnectLook(t) PROVE FailureCountedOnce'
  BY <1>23 DEF DisconnectLook
<1>24. ASSUME NEW t \in Threads, DisconnectClose(t) PROVE FailureCountedOnce'
  BY <1>24 DEF DisconnectClose
<1>25. ASSUME NEW t \in Threads, DisconnectDetach(t) PROVE FailureCountedOnce'
  BY <1>25 DEF DisconnectDetach
<1>26. ASSUME NEW t \in Threads, DisconnectClear(t) PROVE FailureCountedOnce'
  BY <1>26 DEF DisconnectClear
<1>27. ASSUME NEW t \in Threads, StopUnmark(t) PROVE FailureCountedOnce'
  BY <1>27 DEF StopUnmark
<1>28. ASSUME UNCHANGED vars PROVE FailureCountedOnce'
  BY <1>28 DEF vars
<1> QED
  BY <1>1, <1>2, <1>3, <1>4, <1>5, <1>6, <1>7, <1>8, <1>9, <1>10, <1>11, <1>12, <1>13, <1>14,
     <1>15, <1>16, <1>17, <1>18, <1>19, <1>20, <1>21, <1>22, <1>23, <1>24, <1>25, <1>26, <1>27, <1>28
  DEF Next, ReaderStep, StopStep, Recv

(* Nothing is connected, nothing raised and nothing counted at the start.  *)
LEMMA FeedInvInit == ASSUME Init PROVE FeedInv
<1> USE FeedAssumption DEF Init
<1>1. TypeOK
  <2>1. 0 \in 0..MaxSockets /\ 0 \in 0..MaxAttempts
    OBVIOUS
  <2>2. counts \in [{"failure", "success", "exhausted"} -> Nat] /\ sent \in [Sockets -> SUBSET Symbols]
    OBVIOUS
  <2>3. at \in [Threads -> {"out", "stop", "flag", "look", "close", "null", "clear", "unmark", "done"}]
        /\ threw \in [Threads -> BOOLEAN]
    OBVIOUS
  <2>4. open \subseteq 1..opened /\ shut \subseteq (1..opened) \ open
    OBVIOUS
  <2> QED
    BY <2>1, <2>2, <2>3, <2>4 DEF TypeOK, InReconnect
<1>2. Placed /\ Flagged /\ Subscribed
  BY DEF Placed, Flagged, Subscribed, Threads, InReconnect
<1>3. Raced /\ Ended /\ NamedUntilStopped /\ FailureCountedOnce
  BY DEF Raced, Ended, NamedUntilStopped, FailureCountedOnce, Threads, InReconnect
<1> QED
  BY <1>1, <1>2, <1>3 DEF FeedInv

(* FeedInv is an invariant of the two threads at every line of both.       *)
THEOREM FeedInvariant == Spec => []FeedInv
<1>1. Init => FeedInv
  BY FeedInvInit
<1>2. FeedInv /\ [Next]_vars => FeedInv'
  BY TypeStep, PlaceStep, FlagStep, SubscribedStep, RaceStep, EndStep, NameStep, CountStep
  DEF FeedInv
<1> QED
  BY <1>1, <1>2, PTL DEF Spec

(* Whatever the number of symbols, connections and attempts: the reader    *)
(* of events() waits on a socket that was asked for every symbol, names    *)
(* are lost only to a stop, each failure of recv() is accounted once, and  *)
(* a session whose loop ended cleanly is finalized unless two disconnects  *)
(* ran into each other, in which case one of them raised.                  *)
THEOREM FeedAlwaysSound == Spec => []FeedSound
<1>1. ASSUME FeedInv PROVE FeedSound
  <2>1. ReadsSubscribed
    BY <1>1, FeedAssumption DEF FeedInv, TypeOK, Placed, Subscribed, ReadsSubscribed, Sockets
  <2>2. FinalizedUnlessRaced
    BY <1>1 DEF FeedInv, Raced, Ended, WatchdogPast, FinalizedUnlessRaced
  <2> QED
    BY <1>1, <2>1, <2>2 DEF FeedInv, FeedSound
<1> QED
  BY <1>1, FeedInvariant, PTL

(* A recv() that disconnect() interrupted is never answered by _reconnect: *)
(* the exception reaches the handler with the flag already raised.         *)
THEOREM ShutdownNeverFails == Spec => ShutdownIsNoFailure
<1>1. ASSUME FeedInv, [Next]_vars
      PROVE  [reader = "classify" /\ reader' = "reconnect" => ~ended]_vars
  BY <1>1 DEF FeedInv, Flagged
<1> QED
  BY <1>1, FeedInvariant, PTL DEF Spec, ShutdownIsNoFailure

=============================================================================
