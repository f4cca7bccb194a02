----------------------------- MODULE UpstoxFeed -----------------------------
(***************************************************************************)
(* The live feed of a virtual session, and the two threads that share it:  *)
(*                                                                         *)
(*   Reader     VirtualIntradaySession.run: pipeline.start, the loop over  *)
(*              UpstoxMarketFeed.events with its reconnects, and the stop  *)
(*              in the `finally` clause;                                   *)
(*   Watchdog   session_close_watchdog: calls pipeline.stop at the close   *)
(*              of the market, whatever the reader is doing.               *)
(*                                                                         *)
(* No lock protects _ws, _stopping, _subscribed_symbols or _started, so a  *)
(* step here is the code between two accesses of that shared state.        *)
(***************************************************************************)
EXTENDS Naturals

CONSTANTS Symbols,       \* the symbols the session subscribes
          NoSocket,      \* the value of _ws when nothing is attached
          MaxSockets,    \* bound: connections that can be opened
          MaxAttempts    \* config.reconnect_max_attempts

ASSUME FeedAssumption ==
  /\ Symbols # {}
  /\ MaxSockets \in Nat \ {0}
  /\ MaxAttempts \in Nat \ {0}
  /\ NoSocket \notin 1..MaxSockets

Threads == {"Reader", "Watchdog"}
Sockets == 1..MaxSockets

VARIABLES
  ws, stopping, symbols, started,  \* _ws, _stopping, _subscribed_symbols, _started
  opened,      \* sockets created so far
  open,        \* those neither side has closed
  sent,        \* symbols the provider was asked for, per socket
  reader,      \* where the reader is
  sock,        \* the socket whose recv() the reader waits in
  error,       \* what recv() raised
  ended,       \* that recv() was interrupted by disconnect()
  saved,       \* local subscribed_symbols of _reconnect
  aliased,     \* `saved` and _subscribed_symbols are one set object
  attempt,     \* attempts of the current _reconnect
  failed,      \* an exception is on its way out of the reader's loop
  outcome,     \* how VirtualIntradaySession.run ended
  watchdog,    \* where the watchdog is
  stopEvent,   \* the reader has told the watchdog to leave
  at,          \* where a thread is inside pipeline.stop
  threw,       \* pipeline.stop raised in this thread
  shut,        \* sockets that disconnect() closed
  unresolved,  \* an event was named by its instrument key
  counts       \* connection_failure, reconnect_success, reconnect_failure

feedVars    == <<ws, stopping, symbols, started>>
socketVars  == <<opened, open, sent, shut>>
readVars    == <<sock, error, ended>>
retryVars   == <<saved, aliased, attempt>>
sessionVars == <<failed, outcome, unresolved, counts>>
dogVars     == <<watchdog, stopEvent>>
stopVars    == <<at, threw>>
vars == <<feedVars, socketVars, reader, readVars, retryVars, sessionVars, dogVars, stopVars>>

InReconnect == {"reconnect", "open", "restore", "send"}

TypeOK ==
  /\ ws \in Sockets \cup {NoSocket} /\ sock \in Sockets \cup {NoSocket}
  /\ {stopping, started, ended, aliased, failed, stopEvent, unresolved} \subseteq BOOLEAN
  /\ symbols \subseteq Symbols /\ saved \subseteq Symbols
  /\ opened \in 0..MaxSockets
  /\ open \subseteq 1..opened /\ shut \subseteq (1..opened) \ open
  /\ sent \in [Sockets -> SUBSET Symbols]
  /\ reader \in {"new", "subscribe", "enter", "top", "recv", "caught", "classify",
                 "frame", "leaving", "stopping", "ended"} \cup InReconnect
  /\ error \in {"none", "timeout", "connection", "other"}
  /\ attempt \in 0..MaxAttempts
  /\ outcome \in {"none", "finalized", "raised"}
  /\ watchdog \in {"new", "waiting", "stopping", "done"}
  /\ at \in [Threads -> {"out", "stop", "flag", "look", "close", "null", "clear", "unmark", "done"}]
  /\ threw \in [Threads -> BOOLEAN]
  /\ counts \in [{"failure", "success", "exhausted"} -> Nat]

Init ==
  /\ ws = NoSocket /\ stopping = FALSE /\ symbols = {} /\ started = FALSE
  /\ opened = 0 /\ open = {} /\ shut = {} /\ sent = [s \in Sockets |-> {}]
  /\ reader = "new" /\ sock = NoSocket /\ error = "none" /\ ended = FALSE
  /\ saved = {} /\ aliased = FALSE /\ attempt = 0
  /\ failed = FALSE /\ outcome = "none" /\ unresolved = FALSE
  /\ counts = [c \in {"failure", "success", "exhausted"} |-> 0]
  /\ watchdog = "new" /\ stopEvent = FALSE
  /\ at = [t \in Threads |-> "out"] /\ threw = [t \in Threads |-> FALSE]

Count(c) == counts' = [counts EXCEPT ![c] = @ + 1]

Attach ==   \* _open_connection succeeds
  /\ opened < MaxSockets
  /\ opened' = opened + 1 /\ ws' = opened + 1 /\ open' = open \cup {opened + 1}

(* --- the reader starts: pipeline.start ---------------------------------- *)

Connect ==
  /\ reader = "new"
  /\ stopping' = FALSE
  /\ \/ Attach /\ reader' = "subscribe" /\ UNCHANGED outcome
     \/ reader' = "ended" /\ outcome' = "raised" /\ UNCHANGED <<opened, ws, open>>
  /\ UNCHANGED <<symbols, started, sent, shut, readVars, retryVars, failed, unresolved,
                 counts, dogVars, stopVars>>

(* A failing send disconnects again; the watchdog does not run yet.        *)
Subscribe ==
  /\ reader = "subscribe"
  /\ \/ /\ sent' = [sent EXCEPT ![ws] = Symbols] /\ symbols' = Symbols
        /\ started' = TRUE /\ reader' = "enter" /\ watchdog' = "waiting"
        /\ UNCHANGED <<ws, stopping, open, shut, outcome>>
     \/ /\ stopping' = TRUE /\ open' = open \ {ws} /\ shut' = shut \cup {ws}
        /\ ws' = NoSocket /\ symbols' = {} /\ reader' = "ended" /\ outcome' = "raised"
        /\ UNCHANGED <<sent, started, watchdog>>
  /\ UNCHANGED <<opened, readVars, retryVars, failed, unresolved, counts, stopEvent, stopVars>>

(* --- the reader's loop: events() ---------------------------------------- *)

(* pipeline.run and events() refuse to read what is not started, connected *)
EnterEvents ==
  /\ reader = "enter"
  /\ IF started /\ ws # NoSocket /\ ws \in open
     THEN reader' = "top" /\ UNCHANGED failed
     ELSE reader' = "leaving" /\ failed' = TRUE
  /\ UNCHANGED <<feedVars, socketVars, readVars, retryVars, outcome, unresolved, counts,
                 dogVars, stopVars>>

(* self._ws.recv(): the attribute is read once, then the socket waits      *)
ReadSocket ==
  /\ reader = "top"
  /\ sock' = ws /\ ended' = FALSE
  /\ IF ws = NoSocket THEN reader' = "caught" /\ error' = "other"
                      ELSE reader' = "recv" /\ error' = "none"
  /\ UNCHANGED <<feedVars, socketVars, retryVars, sessionVars, dogVars, stopVars>>

RecvFrame ==
  /\ reader = "recv" /\ sock \in open
  /\ reader' = "frame"
  /\ UNCHANGED <<feedVars, socketVars, readVars, retryVars, sessionVars, dogVars, stopVars>>

RecvNothing ==
  /\ reader = "recv" /\ sock \in open
  /\ reader' = "leaving"
  /\ UNCHANGED <<feedVars, socketVars, readVars, retryVars, sessionVars, dogVars, stopVars>>

RecvTimesOut ==
  /\ reader = "recv" /\ sock \in open
  /\ reader' = "caught" /\ error' = "timeout"
  /\ UNCHANGED <<feedVars, socketVars, sock, ended, retryVars, sessionVars, dogVars, stopVars>>

(* The peer is gone, or disconnect() closed the socket under the call.     *)
RecvRaises(e) ==
  /\ reader = "recv"
  /\ reader' = "caught" /\ error' = e
  /\ ended' = (sock \in shut)
  /\ open' = open \ {sock}
  /\ UNCHANGED <<feedVars, opened, sent, shut, sock, retryVars, sessionVars, dogVars, stopVars>>

CaughtLate ==   \* mutant: a timeout is recognised before the shutdown is
  /\ reader = "caught"
  /\ reader' = IF stopping /\ error # "timeout" THEN "leaving" ELSE "classify"
  /\ UNCHANGED <<feedVars, socketVars, readVars, retryVars, sessionVars, dogVars, stopVars>>
Caught ==
  /\ reader = "caught"
  /\ reader' = IF stopping THEN "leaving" ELSE "classify"
  /\ UNCHANGED <<feedVars, socketVars, readVars, retryVars, sessionVars, dogVars, stopVars>>

Classify ==
  /\ reader = "classify"
  /\ \/ /\ error = "timeout" /\ reader' = "top"
        /\ UNCHANGED <<retryVars, failed, counts>>
     \/ /\ error = "other" /\ reader' = "leaving" /\ failed' = TRUE
        /\ UNCHANGED <<retryVars, counts>>
     \/ /\ error = "connection" /\ reader' = "reconnect" /\ Count("failure")
        /\ saved' = symbols /\ aliased' = FALSE /\ attempt' = 0
        /\ UNCHANGED failed
  /\ UNCHANGED <<feedVars, socketVars, readVars, outcome, unresolved, dogVars, stopVars>>

(* Each record of the frame is named after a subscribed symbol, or after   *)
(* its instrument key when none matches; then the consumer of the events   *)
(* goes on, raises, or has seen max_candles.                               *)
HandleFrame ==
  /\ reader = "frame"
  /\ unresolved' = (unresolved \/ symbols # Symbols)
  /\ \/ reader' = "top" /\ UNCHANGED failed
     \/ reader' = "leaving" /\ failed' \in {failed, TRUE}
  /\ UNCHANGED <<feedVars, socketVars, readVars, retryVars, outcome, counts, dogVars, stopVars>>

(* --- the reader's _reconnect -------------------------------------------- *)

ReconnectTryCounts ==   \* mutant: every attempt counts as a new failure
  /\ reader = "reconnect" /\ attempt < MaxAttempts
  /\ attempt' = attempt + 1
  /\ open' = open \ {ws} /\ ws' = NoSocket
  /\ reader' = "open" /\ Count("failure")
  /\ UNCHANGED <<stopping, symbols, started, opened, sent, shut, readVars, saved, aliased,
                 failed, outcome, unresolved, dogVars, stopVars>>
ReconnectTryMore ==   \* mutant: one attempt more than configured
  /\ reader = "reconnect" /\ attempt <= MaxAttempts
  /\ attempt' = attempt + 1
  /\ open' = open \ {ws} /\ ws' = NoSocket
  /\ reader' = "open"
  /\ UNCHANGED <<stopping, symbols, started, opened, sent, shut, readVars, saved, aliased,
                 sessionVars, dogVars, stopVars>>
ReconnectTry ==
  /\ reader = "reconnect" /\ attempt < MaxAttempts
  /\ attempt' = attempt + 1
  /\ open' = open \ {ws} /\ ws' = NoSocket
  /\ reader' = "open"
  /\ UNCHANGED <<stopping, symbols, started, opened, sent, shut, readVars, saved, aliased,
                 sessionVars, dogVars, stopVars>>

ReconnectExhausted ==
  /\ reader = "reconnect" /\ attempt = MaxAttempts
  /\ Count("exhausted") /\ failed' = TRUE /\ reader' = "leaving"
  /\ UNCHANGED <<feedVars, socketVars, readVars, retryVars, outcome, unresolved, dogVars, stopVars>>

OpenAgain ==
  /\ reader = "open"
  /\ \/ Attach /\ reader' = "restore"
     \/ ws' = NoSocket /\ reader' = "reconnect" /\ UNCHANGED <<opened, open>>
  /\ UNCHANGED <<stopping, symbols, started, sent, shut, readVars, retryVars, sessionVars,
                 dogVars, stopVars>>

(* From here on _subscribed_symbols and the local are the same set object. *)
RestoreForgets ==   \* mutant: the preserved set is never put back
  /\ reader = "restore"
  /\ symbols' = {} /\ aliased' = TRUE
  /\ reader' = "send"
  /\ UNCHANGED <<ws, stopping, started, socketVars, readVars, saved, attempt, sessionVars,
                 dogVars, stopVars>>
Restore ==
  /\ reader = "restore"
  /\ symbols' = saved /\ aliased' = TRUE
  /\ reader' = "send"
  /\ UNCHANGED <<ws, stopping, started, socketVars, readVars, saved, attempt, sessionVars,
                 dogVars, stopVars>>

(* _resubscribe sends nothing for an empty set; sending through a socket   *)
(* that disconnect() closed or detached raises, like any network error.    *)
SendForgets ==   \* mutant: the reconnect ends without _resubscribe
  /\ reader = "send"
  /\ Count("success") /\ reader' = "top"
  /\ UNCHANGED <<feedVars, socketVars, readVars, retryVars, failed, outcome, unresolved,
                 dogVars, stopVars>>
Send ==
  /\ reader = "send"
  /\ \/ /\ (symbols = {} \/ ws \in open)
        /\ sent' = IF symbols = {} THEN sent ELSE [sent EXCEPT ![ws] = symbols]
        /\ Count("success") /\ reader' = "top"
        /\ UNCHANGED ws
     \/ /\ symbols # {}
        /\ ws' = NoSocket /\ reader' = "reconnect"
        /\ UNCHANGED <<sent, counts>>
  /\ UNCHANGED <<stopping, symbols, started, opened, open, shut, readVars, retryVars,
                 failed, outcome, unresolved, dogVars, stopVars>>

(* --- pipeline.stop, called by either thread ----------------------------- *)

StopBegin(t) ==   \* nothing to do when the other thread has finished
  /\ at[t] = "stop"
  /\ at' = [at EXCEPT ![t] = IF started THEN "flag" ELSE "done"]
  /\ UNCHANGED <<feedVars, socketVars, reader, readVars, retryVars, sessionVars, dogVars, threw>>

FlagLate(t) ==   \* mutant: the flag is raised after the socket is closed
  /\ at[t] = "flag"
  /\ open' = open \ {ws} /\ shut' = shut \cup ({ws} \cap Sockets)
  /\ stopping' = (ws = NoSocket)
  /\ at' = [at EXCEPT ![t] = IF ws = NoSocket THEN "look" ELSE @]
  /\ ws' = NoSocket
  /\ UNCHANGED <<symbols, started, opened, sent, reader, readVars, retryVars, sessionVars,
                 dogVars, threw>>
DisconnectFlag(t) ==
  /\ at[t] = "flag"
  /\ stopping' = TRUE
  /\ at' = [at EXCEPT ![t] = "look"]
  /\ UNCHANGED <<ws, symbols, started, socketVars, reader, readVars, retryVars, sessionVars,
                 dogVars, threw>>

DisconnectLook(t) ==   \* if self._ws is not None
  /\ at[t] = "look"
  /\ at' = [at EXCEPT ![t] = IF ws = NoSocket THEN "clear" ELSE "close"]
  /\ UNCHANGED <<feedVars, socketVars, reader, readVars, retryVars, sessionVars, dogVars, threw>>

(* self._ws.close() reads the attribute a second time: if the other thread *)
(* has detached the socket since, the call raises, `finally` runs and the  *)
(* set of symbols is not cleared.                                          *)
DisconnectClose(t) ==
  /\ at[t] = "close"
  /\ IF ws = NoSocket
     THEN /\ threw' = [threw EXCEPT ![t] = TRUE]
          /\ at' = [at EXCEPT ![t] = "unmark"]
          /\ UNCHANGED <<open, shut>>
     ELSE /\ open' = open \ {ws} /\ shut' = shut \cup {ws}
          /\ at' = [at EXCEPT ![t] = "null"]
          /\ UNCHANGED threw
  /\ UNCHANGED <<feedVars, opened, sent, reader, readVars, retryVars, sessionVars, dogVars>>

DisconnectDetach(t) ==   \* a socket opened meanwhile loses its only reference
  /\ at[t] = "null"
  /\ open' = open \ {ws} /\ ws' = NoSocket
  /\ at' = [at EXCEPT ![t] = "clear"]
  /\ UNCHANGED <<stopping, symbols, started, opened, sent, shut, reader, readVars, retryVars,
                 sessionVars, dogVars, threw>>

DisconnectClear(t) ==
  /\ at[t] = "clear"
  /\ symbols' = {} /\ saved' = IF aliased THEN {} ELSE saved
  /\ at' = [at EXCEPT ![t] = "unmark"]
  /\ UNCHANGED <<ws, stopping, started, socketVars, reader, readVars, aliased, attempt,
                 sessionVars, dogVars, threw>>

StopUnmark(t) ==
  /\ at[t] = "unmark"
  /\ started' = FALSE
  /\ at' = [at EXCEPT ![t] = "done"]
  /\ UNCHANGED <<ws, stopping, symbols, socketVars, reader, readVars, retryVars, sessionVars,
                 dogVars, threw>>

(* --- the session: watchdog, `finally`, finalize ------------------------- *)

SessionCloses ==
  /\ watchdog = "waiting" /\ ~stopEvent
  /\ watchdog' = "stopping" /\ at' = [at EXCEPT !["Watchdog"] = "stop"]
  /\ UNCHANGED <<feedVars, socketVars, reader, readVars, retryVars, sessionVars, stopEvent, threw>>

WatchdogLeaves ==
  /\ \/ watchdog = "waiting" /\ stopEvent
     \/ watchdog = "stopping" /\ at["Watchdog"] = "done"
  /\ watchdog' = "done"
  /\ UNCHANGED <<feedVars, socketVars, reader, readVars, retryVars, sessionVars, stopEvent, stopVars>>

Leave ==
  /\ reader = "leaving"
  /\ reader' = "stopping" /\ stopEvent' = TRUE /\ at' = [at EXCEPT !["Reader"] = "stop"]
  /\ UNCHANGED <<feedVars, socketVars, readVars, retryVars, sessionVars, watchdog, threw>>

(* The session is finalized unless the loop or the stop has raised.        *)
EndSession ==
  /\ reader = "stopping" /\ at["Reader"] = "done"
  /\ reader' = "ended"
  /\ outcome' = IF failed \/ threw["Reader"] THEN "raised" ELSE "finalized"
  /\ UNCHANGED <<feedVars, socketVars, readVars, retryVars, failed, unresolved, counts,
                 dogVars, stopVars>>

Recv == RecvFrame \/ RecvNothing \/ RecvTimesOut \/ \E e \in {"connection", "other"} : RecvRaises(e)

ReaderStep ==
  \/ Connect \/ Subscribe \/ EnterEvents \/ ReadSocket \/ Recv \/ Caught \/ Classify
  \/ HandleFrame \/ ReconnectTry \/ ReconnectExhausted \/ OpenAgain \/ Restore \/ Send
  \/ Leave \/ EndSession

StopStep(t) ==
  \/ StopBegin(t) \/ DisconnectFlag(t) \/ DisconnectLook(t) \/ DisconnectClose(t)
  \/ DisconnectDetach(t) \/ DisconnectClear(t) \/ StopUnmark(t)

Next == ReaderStep \/ SessionCloses \/ WatchdogLeaves \/ \E t \in Threads : StopStep(t)

Spec == Init /\ [][Next]_vars

(* Threads run, the close of the market comes, and the market goes quiet   *)
(* over and over: a recv() on an open socket does not deliver for ever.    *)
FairSpec ==
  /\ Spec
  /\ WF_vars(ReaderStep) /\ SF_vars(RecvTimesOut)
  /\ WF_vars(SessionCloses) /\ WF_vars(WatchdogLeaves)
  /\ \A t \in Threads : WF_vars(StopStep(t))

-----------------------------------------------------------------------------
(* Properties                                                              *)

(* _reconnect, lines 145-147: while the session runs, a socket the reader  *)
(* waits on has been asked for every symbol, however often the connection  *)
(* was replaced: no silent feed after a reconnect.                         *)
ReadsSubscribed ==
  reader = "recv" /\ sock \in open /\ ~stopping => sent[sock] = Symbols

(* Lines 306-314 name an event after its instrument key only once the      *)
(* session is being stopped and disconnect() has cleared the symbols.      *)
NamedUntilStopped == unresolved => stopping

(* Line 276 "exactly once": every connection failure counted is matched by *)
(* one reconnect that succeeded, one that gave up, or the one under way.   *)
FailureCountedOnce ==
  counts["failure"] = counts["success"] + counts["exhausted"]
                      + (IF reader \in InReconnect THEN 1 ELSE 0)

(* test_virtual_session.py, test_run_stops_live_feed_at_session_close_and_ *)
(* finalizes, as far as it holds: a loop that ends without an error is     *)
(* finalized unless the watchdog was inside disconnect() as well, whose    *)
(* assignment to _ws can fall between the reader's two reads of it         *)
(* (feed.py:356, :358); then the session that closed normally raises.      *)
FinalizedUnlessRaced ==
  /\ reader = "ended" /\ watchdog # "new" /\ ~failed =>
       outcome = "finalized" \/ (threw["Reader"] /\ at["Watchdog"] # "out")
  /\ ~(threw["Reader"] /\ threw["Watchdog"])

(* Through any number of reconnects and a stop at any line: the state is   *)
(* well typed, a reader waits on a subscribed socket, names are lost only  *)
(* to a stop, every failure is accounted once, and only the race of two    *)
(* disconnects keeps a clean end from being finalized.                     *)
FeedSound ==
  TypeOK /\ ReadsSubscribed /\ NamedUntilStopped /\ FailureCountedOnce /\ FinalizedUnlessRaced

(* Lines 213-216: the close of the socket by disconnect(), in the other    *)
(* thread, is never taken for a connection failure and reconnected.        *)
ShutdownIsNoFailure ==
  [][reader = "classify" /\ reader' = "reconnect" => ~ended]_vars

(* The run ends: at the latest the watchdog stops it, even when the stop   *)
(* races a reconnect and the reader is left with a fresh connection.       *)
SessionEnds == <>(reader = "ended")
=============================================================================
