--------------------------- MODULE ExecutionEngine ---------------------------
(***************************************************************************)
(* execution/engine.py: one ExecutionEngine, the durable audit journal it  *)
(* writes through, and the broker behind its adapter.                      *)
(*                                                                         *)
(* The engine is called by one thread.  submit and cancel are split where  *)
(* they call the adapter: between the two halves the broker moves on, the  *)
(* call may raise, or the process may die.  refresh, recover_unknown and   *)
(* rehydrate change nothing before their single lookup answers, so each is *)
(* one action that reads the broker and merges what it read.               *)
(*                                                                         *)
(* Every order asks for Qty units, filled one unit at a time.              *)
(***************************************************************************)
EXTENDS OrderLifecycle

CONSTANTS Orders,         \* client_order_ids, one per risk-approved decision
          NoOrder,        \* not an order: no adapter call is in flight
          Qty,            \* the risk-approved quantity of an order
          MaxCrashes,     \* bound: process deaths
          BrokerDedups,   \* the adapter returns the existing order for a
                          \* repeated id (paper) or places again (Upstox)
          LateDelivery,   \* a request may reach the broker after the call
                          \* that sent it has raised or died
          MissingLookup,  \* get_order may return None for a placed order
          AuditMayFail    \* an append to the audit file may raise

ASSUME EngineAssumption ==
  /\ NoOrder \notin Orders
  /\ Qty \in Nat \ {0}
  /\ MaxCrashes \in Nat
  /\ {BrokerDedups, LateDelivery, MissingLookup, AuditMayFail} \subseteq BOOLEAN

VARIABLES
  states,    \* engine._states
  oStatus,   \* status of the snapshot in engine._orders
  oFilled,   \* its filled_quantity, also the sum of engine._fills
  inSubmit,  \* the order whose adapter.submit is being waited for
  inCancel,  \* the order whose adapter.cancel is being waited for
  up,        \* the process runs
  todo,      \* journalled ids the restarted caller has not rehydrated yet
  crashes,   \* process deaths so far
  audit,     \* to_status of an order's last durable audit event
  auditOk,   \* appends to the audit file succeed
  wire,      \* place requests on their way to the broker
  sent,      \* place requests this process made
  placed,    \* broker orders that carry this client_order_id
  bStatus,   \* broker: status of the latest order with this id
  bFilled,   \* broker: its filled quantity
  executed   \* broker: quantity filled under this id, all its orders together

engineVars == <<states, oStatus, oFilled>>
callVars   == <<inSubmit, inCancel>>
lifeVars   == <<up, todo, crashes>>
auditVars  == <<audit, auditOk>>
brokerVars == <<placed, bStatus, bFilled, executed>>
vars == <<engineVars, callVars, lifeVars, auditVars, wire, sent, brokerVars>>

TypeOK ==
  /\ states  \in [Orders -> Status \cup {None}]
  /\ oStatus \in [Orders -> Status \cup {None}]
  /\ oFilled \in [Orders -> 0 .. Qty]
  /\ inSubmit \in Orders \cup {NoOrder}
  /\ inCancel \in Orders \cup {NoOrder}
  /\ up \in BOOLEAN
  /\ todo \in SUBSET Orders
  /\ crashes \in 0 .. MaxCrashes
  /\ audit \in [Orders -> Status \cup {None}]
  /\ auditOk \in BOOLEAN
  /\ wire \in [Orders -> Nat]
  /\ sent \in [Orders -> Nat]
  /\ placed \in [Orders -> Nat]
  /\ bStatus \in [Orders -> BrokerStatus \cup {None}]
  /\ bFilled \in [Orders -> 0 .. Qty]
  /\ executed \in [Orders -> Nat]

Init ==
  /\ states  = [o \in Orders |-> None]
  /\ oStatus = [o \in Orders |-> None]
  /\ oFilled = [o \in Orders |-> 0]
  /\ inSubmit = NoOrder /\ inCancel = NoOrder
  /\ up = TRUE /\ todo = {} /\ crashes = 0
  /\ audit = [o \in Orders |-> None] /\ auditOk = TRUE
  /\ wire = [o \in Orders |-> 0]
  /\ sent = [o \in Orders |-> 0]
  /\ placed = [o \in Orders |-> 0]
  /\ bStatus = [o \in Orders |-> None]
  /\ bFilled = [o \in Orders |-> 0]
  /\ executed = [o \in Orders |-> 0]

-----------------------------------------------------------------------------
(* ExecutionEngine._transition and the merge of a snapshot                 *)

Idle == up /\ inSubmit = NoOrder /\ inCancel = NoOrder

\* The transition is legal and its audit event is written.  A repeated state
\* returns before the event is built.
Journalled(o, target) ==
  /\ MayBecome(states[o], target)
  /\ auditOk \/ states[o] = target
  /\ states' = [states EXCEPT ![o] = target]
  /\ audit' = IF states[o] = target THEN audit
              ELSE [audit EXCEPT ![o] = target]

\* The transition is legal, the state is set, and then append_event raises.
\* The rest of the calling method does not run.
AuditRaises(o, target) ==
  /\ ~auditOk
  /\ states[o] # target
  /\ MayBecome(states[o], target)
  /\ states' = [states EXCEPT ![o] = target]
  /\ UNCHANGED audit

\* Mutant: the snapshot's cumulative quantity is added to what was booked.
RecordAdds(o, status, filled) ==
  /\ oStatus' = [oStatus EXCEPT ![o] = status]
  /\ oFilled' = [oFilled EXCEPT ![o] = @ + filled]

\* self._orders[id] = snapshot; self._fills[id] = snapshot.fills
Record(o, status, filled) ==
  /\ oStatus' = [oStatus EXCEPT ![o] = status]
  /\ oFilled' = [oFilled EXCEPT ![o] = filled]

\* _transition to the snapshot's status, then the record.
Merge(o, status, filled) ==
  \/ Journalled(o, status) /\ Record(o, status, filled)
  \/ AuditRaises(o, status) /\ UNCHANGED <<oStatus, oFilled>>

\* _transition raises before it changes anything.
MergeRefused(o, status) ==
  /\ ~MayBecome(states[o], status)
  /\ UNCHANGED <<engineVars, audit>>

\* adapter.get_order found the order / returned None.
Found(o)   == bStatus[o] # None
Missing(o) == bStatus[o] = None \/ MissingLookup

\* The answer to place_order is the acknowledgement written when the request
\* arrived or, from a synchronous adapter, what the order has become since.
Answer(o) == {<<"SUBMITTED", 0>>, <<bStatus[o], bFilled[o]>>}

-----------------------------------------------------------------------------
(* submit                                                                  *)

\* Mutant: a failed audit append is swallowed and the order goes out.
SubmitWithoutJournal(o) ==
  /\ Idle /\ todo = {}
  /\ oStatus[o] = None
  /\ MayBecome(states[o], "VALIDATED")
  /\ states' = [states EXCEPT ![o] = "SUBMITTING"]
  /\ audit'  = IF auditOk THEN [audit EXCEPT ![o] = "SUBMITTING"] ELSE audit
  /\ inSubmit' = o
  /\ wire' = [wire EXCEPT ![o] = @ + 1]
  /\ sent' = [sent EXCEPT ![o] = @ + 1]
  /\ UNCHANGED <<oStatus, oFilled, inCancel, lifeVars, auditOk, brokerVars>>

\* Validation, the lookup in _orders, VALIDATED, SUBMITTING, and the call.
\* An id with an _orders entry returns it and changes nothing.
SubmitBegin(o) ==
  /\ Idle /\ todo = {}
  /\ oStatus[o] = None
  /\ MayBecome(states[o], "VALIDATED")
  /\ auditOk
  /\ states' = [states EXCEPT ![o] = "SUBMITTING"]
  /\ audit'  = [audit EXCEPT ![o] = "SUBMITTING"]
  /\ inSubmit' = o
  /\ wire' = [wire EXCEPT ![o] = @ + 1]
  /\ sent' = [sent EXCEPT ![o] = @ + 1]
  /\ UNCHANGED <<oStatus, oFilled, inCancel, lifeVars, auditOk, brokerVars>>

\* An audit append fails before the adapter is called: the first event leaves
\* the order VALIDATED; a repeated submit passes VALIDATED without an event
\* and leaves it SUBMITTING.
SubmitAuditRaises(o) ==
  /\ Idle /\ todo = {}
  /\ oStatus[o] = None
  /\ MayBecome(states[o], "VALIDATED")
  /\ AuditRaises(o, IF states[o] = None THEN "VALIDATED" ELSE "SUBMITTING")
  /\ UNCHANGED <<oStatus, oFilled, callVars, lifeVars, auditOk, wire, sent,
                 brokerVars>>

\* The call is over.  A request that has not arrived by then is lost, unless
\* the network may deliver it later.
SubmitEnds ==
  /\ inSubmit' = NoOrder
  /\ \/ LateDelivery /\ UNCHANGED wire
     \/ wire' = [o \in Orders |-> 0]

\* adapter.submit returned a snapshot that passed the id, quantity and
\* contract checks.  When the table refuses its status the call raises with
\* the order SUBMITTING and without an _orders entry.
SubmitReturns(o) ==
  /\ up /\ inSubmit = o
  /\ wire[o] = 0 /\ Found(o)
  /\ \E answer \in Answer(o) :
       \/ Merge(o, answer[1], answer[2])
       \/ MergeRefused(o, answer[1])
  /\ SubmitEnds
  /\ UNCHANGED <<inCancel, lifeVars, auditOk, sent, brokerVars>>

\* Mutant: a failed call is rolled back so that the caller can retry it.
SubmitRollsBack(o) ==
  /\ up /\ inSubmit = o
  /\ states' = [states EXCEPT ![o] = None]
  /\ SubmitEnds
  /\ UNCHANGED <<oStatus, oFilled, inCancel, lifeVars, auditVars, sent,
                 brokerVars>>

\* adapter.submit raised (timeout, transport error, adapter disabled): the
\* order becomes UNKNOWN, whether or not the request arrives.
SubmitRaises(o) ==
  /\ up /\ inSubmit = o
  /\ Merge(o, "UNKNOWN", 0)
  /\ SubmitEnds
  /\ UNCHANGED <<inCancel, lifeVars, auditOk, sent, brokerVars>>

\* Mutant: a refused answer takes the order back to its first state.
AnswerRejectedRollsBack(o) ==
  /\ up /\ inSubmit = o
  /\ wire[o] = 0 /\ Found(o)
  /\ states' = [states EXCEPT ![o] = None]
  /\ SubmitEnds
  /\ UNCHANGED <<oStatus, oFilled, inCancel, lifeVars, auditVars, sent,
                 brokerVars>>

\* The response names another id or quantity, or contradicts itself: submit
\* raises after the broker accepted.
SubmitAnswerRejected(o) ==
  /\ up /\ inSubmit = o
  /\ wire[o] = 0 /\ Found(o)
  /\ SubmitEnds
  /\ UNCHANGED <<engineVars, inCancel, lifeVars, auditVars, sent, brokerVars>>

-----------------------------------------------------------------------------
(* refresh, recover_unknown, rehydrate                                     *)

\* Mutant: the transition is made and the record is left as it was.
RefreshKeepsRecord(o) ==
  /\ Idle /\ Found(o)
  /\ Journalled(o, bStatus[o])
  /\ UNCHANGED <<oStatus, oFilled, callVars, lifeVars, auditOk, wire, sent,
                 brokerVars>>

\* refresh: merge what the broker holds.  Without a state the status is taken
\* over with no transition and no event.
RefreshFound(o) ==
  /\ Idle /\ Found(o)
  /\ IF states[o] = None
     THEN /\ states' = [states EXCEPT ![o] = bStatus[o]]
          /\ Record(o, bStatus[o], bFilled[o])
          /\ UNCHANGED audit
     ELSE Merge(o, bStatus[o], bFilled[o])
  /\ UNCHANGED <<callVars, lifeVars, auditOk, wire, sent, brokerVars>>

\* refresh of an order the broker does not show: UNKNOWN, the fills kept.
\* With no local record it is a KeyError.
RefreshMissing(o) ==
  /\ Idle /\ Missing(o)
  /\ oStatus[o] # None
  /\ Merge(o, "UNKNOWN", oFilled[o])
  /\ UNCHANGED <<callVars, lifeVars, auditOk, wire, sent, brokerVars>>

RecoverUnknown(o) ==
  /\ Idle /\ Found(o)
  /\ oStatus[o] = "UNKNOWN"
  /\ Merge(o, bStatus[o], bFilled[o])
  /\ UNCHANGED <<callVars, lifeVars, auditOk, wire, sent, brokerVars>>

\* One turn of rehydrate's loop, for an id the journal named: the broker's
\* record replaces the local one without a transition; a missing one is
\* UNKNOWN when the engine knew the order and is skipped when it did not.
Rehydrate(o) ==
  /\ Idle
  /\ audit[o] # None
  /\ \/ /\ Found(o)
        /\ states' = [states EXCEPT ![o] = bStatus[o]]
        /\ Record(o, bStatus[o], bFilled[o])
     \/ /\ Missing(o) /\ oStatus[o] # None
        /\ states' = [states EXCEPT ![o] = "UNKNOWN"]
        /\ Record(o, "UNKNOWN", oFilled[o])
     \/ /\ Missing(o) /\ oStatus[o] = None
        /\ UNCHANGED engineVars
  /\ todo' = todo \ {o}
  /\ UNCHANGED <<callVars, up, crashes, auditVars, wire, sent, brokerVars>>

-----------------------------------------------------------------------------
(* cancel                                                                  *)

CancelBegin(o) ==
  /\ Idle
  /\ oStatus[o] \notin {None, "FILLED", "CANCELLED", "REJECTED_BROKER"}
  /\ \/ Journalled(o, "CANCEL_PENDING") /\ inCancel' = o
     \/ AuditRaises(o, "CANCEL_PENDING") /\ UNCHANGED inCancel
  /\ UNCHANGED <<oStatus, oFilled, inSubmit, lifeVars, auditOk, wire, sent,
                 brokerVars>>

\* Mutant: the cancelled snapshot drops the quantity already filled.
CancelDropsFills(o) ==
  /\ up /\ inCancel = o
  /\ Found(o)
  /\ \/ Merge(o, bStatus[o], 0)
     \/ MergeRefused(o, bStatus[o])
  /\ inCancel' = NoOrder
  /\ UNCHANGED <<inSubmit, lifeVars, auditOk, wire, sent, brokerVars>>

\* adapter.cancel returned the order.  A CANCEL_PENDING answer is recorded
\* without a second transition; an answer the table refuses raises.
CancelReturns(o) ==
  /\ up /\ inCancel = o
  /\ Found(o)
  /\ \/ Merge(o, bStatus[o], bFilled[o])
     \/ MergeRefused(o, bStatus[o])
  /\ inCancel' = NoOrder
  /\ UNCHANGED <<inSubmit, lifeVars, auditOk, wire, sent, brokerVars>>

\* adapter.cancel raised: the state stays CANCEL_PENDING and the record in
\* _orders stays what it was.
CancelRaises(o) ==
  /\ up /\ inCancel = o
  /\ inCancel' = NoOrder
  /\ UNCHANGED <<engineVars, inSubmit, lifeVars, auditVars, wire, sent,
                 brokerVars>>

-----------------------------------------------------------------------------
(* The process and its audit file                                          *)

Crash ==
  /\ up /\ crashes < MaxCrashes
  /\ up' = FALSE /\ crashes' = crashes + 1 /\ todo' = {}
  /\ states'  = [o \in Orders |-> None]
  /\ oStatus' = [o \in Orders |-> None]
  /\ oFilled' = [o \in Orders |-> 0]
  /\ sent' = [o \in Orders |-> 0]
  /\ SubmitEnds
  /\ inCancel' = NoOrder
  /\ UNCHANGED <<auditVars, brokerVars>>

\* Mutant: the restarted caller starts submitting without the journal.
RestartBlind ==
  /\ ~up /\ auditOk
  /\ up' = TRUE
  /\ todo' = {}
  /\ UNCHANGED <<engineVars, callVars, crashes, auditVars, wire, sent,
                 brokerVars>>

\* The caller reads the journal (read_all raises while a line is broken) and
\* will rehydrate every id it names before it submits again.
Restart ==
  /\ ~up /\ auditOk
  /\ up' = TRUE
  /\ todo' = {o \in Orders : audit[o] # None}
  /\ UNCHANGED <<engineVars, callVars, crashes, auditVars, wire, sent,
                 brokerVars>>

AuditFails ==
  /\ AuditMayFail /\ auditOk /\ auditOk' = FALSE
  /\ UNCHANGED <<engineVars, callVars, lifeVars, audit, wire, sent, brokerVars>>

AuditRepaired ==
  /\ ~auditOk /\ auditOk' = TRUE
  /\ UNCHANGED <<engineVars, callVars, lifeVars, audit, wire, sent, brokerVars>>

-----------------------------------------------------------------------------
(* The broker (external)                                                   *)

BrokerUnchanged ==
  UNCHANGED <<engineVars, callVars, lifeVars, auditVars, sent>>

\* A request arrives.  The paper adapter knows the id and ignores a second
\* one; Upstox places an order for every request with the same tag.
BrokerAccepts(o) ==
  /\ wire[o] > 0
  /\ wire' = [wire EXCEPT ![o] = @ - 1]
  /\ IF BrokerDedups /\ bStatus[o] # None
     THEN UNCHANGED brokerVars
     ELSE /\ placed' = [placed EXCEPT ![o] = @ + 1]
          /\ bStatus' = [bStatus EXCEPT ![o] = "SUBMITTED"]
          /\ bFilled' = [bFilled EXCEPT ![o] = 0]
          /\ UNCHANGED executed
  /\ BrokerUnchanged

\* A fill can also win against a cancellation already reported
\* (PaperBrokerAdapter.fill_remaining with after_cancel).
BrokerFills(o) ==
  /\ bStatus[o] \in Working \cup {"CANCELLED"}
  /\ bFilled[o] < Qty
  /\ \E n \in 1 .. Qty - bFilled[o] :
       /\ bStatus[o] = "CANCELLED" => n = Qty - bFilled[o]
       /\ bFilled' = [bFilled EXCEPT ![o] = @ + n]
       /\ executed' = [executed EXCEPT ![o] = @ + n]
       /\ bStatus' = [bStatus EXCEPT ![o] =
                        IF bFilled[o] + n = Qty THEN "FILLED"
                        ELSE IF @ = "CANCEL_PENDING" THEN @
                        ELSE "PARTIALLY_FILLED"]
  /\ UNCHANGED <<wire, placed>>
  /\ BrokerUnchanged

\* Every other status the adapters map: opened, rejected, cancel in progress,
\* cancelled (on request, or an IOC remainder), expired at the close.
BrokerMoves(o) ==
  /\ bStatus[o] \in Working
  /\ \E s \in {"OPEN", "REJECTED_BROKER", "CANCEL_PENDING", "CANCELLED",
               "EXPIRED"} :
       /\ s \in {"OPEN", "REJECTED_BROKER"} => bStatus[o] = "SUBMITTED"
       /\ s # bStatus[o]
       /\ bStatus' = [bStatus EXCEPT ![o] = s]
  /\ UNCHANGED <<wire, placed, bFilled, executed>>
  /\ BrokerUnchanged

-----------------------------------------------------------------------------
EngineStep(o) ==
  \/ SubmitBegin(o) \/ SubmitAuditRaises(o) \/ SubmitReturns(o)
  \/ SubmitRaises(o) \/ SubmitAnswerRejected(o)
  \/ RefreshFound(o) \/ RefreshMissing(o) \/ RecoverUnknown(o) \/ Rehydrate(o)
  \/ CancelBegin(o) \/ CancelReturns(o) \/ CancelRaises(o)

BrokerStep(o) == BrokerAccepts(o) \/ BrokerFills(o) \/ BrokerMoves(o)

ProcessStep == Crash \/ Restart \/ AuditFails \/ AuditRepaired

Next ==
  \/ \E o \in Orders : EngineStep(o) \/ BrokerStep(o)
  \/ ProcessStep

Spec == Init /\ [][Next]_vars

-----------------------------------------------------------------------------
(* Properties                                                              *)

\* The broker and the network account for every request: nothing arrives
\* after its call ended and no placed order is ever missing from a lookup.
Reliable == ~LateDelivery /\ ~MissingLookup

\* One process asks the broker at most once per client_order_id, whatever the
\* broker answers, drops or delays and however often the caller repeats
\* submit ("submit once", engine.py submit).
OncePerProcess == \A o \in Orders : sent[o] <= 1

\* A client_order_id names at most one broker order, across crashes and
\* restarts, even when the adapter does not deduplicate.
PlacedAtMostOnce == \A o \in Orders : placed[o] <= 1

\* The broker never executes more under one id than risk approved for it.
ExecutedWithinApproval == \A o \in Orders : executed[o] <= Qty

\* The journal is written ahead: a restarted caller that reads it learns of
\* every order the broker has or is about to get.
JournalNamesPlaced ==
  \A o \in Orders : placed[o] + wire[o] > 0 => audit[o] # None

\* The engine never books more filled quantity than the broker has executed,
\* however stale the snapshot it merged.
BooksOnlyExecuted == \A o \in Orders : oFilled[o] <= executed[o]

\* A broker order the engine has no record of (a response it refused) is never
\* submittable again; its state tells it from an order that was not sent.
UntrackedIsBlocked ==
  \A o \in Orders :
    (Idle /\ todo = {} /\ placed[o] > 0 /\ oStatus[o] = None)
      => states[o] \notin {None, "VALIDATED"}

\* The three ledgers agree on what exists: the journal names every order the
\* broker has or is about to get, the books hold no more than it executed, and
\* what the books miss (submit, _transition, rehydrate) is not sent again.
LedgersSound == JournalNamesPlaced /\ BooksOnlyExecuted /\ UntrackedIsBlocked

\* _states and the status in _orders are written at different points of a
\* call.  With a working audit file the only way to find them apart is a
\* cancel that raised, and then the state is CANCEL_PENDING.
ApartOnlyByCancel ==
  \A o \in Orders :
    oStatus[o] \notin {None, states[o]} => states[o] = "CANCEL_PENDING"

\* While the process lives, the filled quantity booked for an order never
\* falls: losing sight of the order (UNKNOWN) keeps what was known.
FillsNeverForgotten ==
  [][up' => \A o \in Orders : oFilled'[o] >= oFilled[o]]_vars

-----------------------------------------------------------------------------
(* Liveness.  Nothing in engine.py polls: the fairness of refresh and      *)
(* recover_unknown says that the caller keeps asking about every order.    *)

CallsEnd(o) ==
  /\ WF_vars(SubmitReturns(o) \/ SubmitRaises(o) \/ SubmitAnswerRejected(o))
  /\ WF_vars(CancelReturns(o) \/ CancelRaises(o))

CallerPolls ==
  /\ SF_vars(Restart) /\ WF_vars(AuditRepaired)
  /\ \A o \in Orders : /\ CallsEnd(o)
                       /\ WF_vars(o \in todo /\ Rehydrate(o))
                       /\ SF_vars(RefreshFound(o))
                       /\ SF_vars(RecoverUnknown(o))

FairSpec == Spec /\ CallerPolls

\* A completely filled order is eventually recorded as FILLED, across crashes,
\* refused responses, UNKNOWN and a cancel that lost the race.
FillIsLearned ==
  \A o \in Orders : (bStatus[o] = "FILLED") ~> (oStatus[o] = "FILLED")

-----------------------------------------------------------------------------
(* Refinement: with a broker and a network that account for every request, *)
(* the engine implements ApprovedOrder.                                    *)

Promise == INSTANCE ApprovedOrder
             WITH dispatched <- placed, traded <- executed, booked <- oFilled

\* Every step of the engine, the broker and the process is a step of the
\* abstract order or leaves it alone.
ImplementsPromise == Promise!Spec

=============================================================================
