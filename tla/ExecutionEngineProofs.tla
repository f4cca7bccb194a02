----------------------- MODULE ExecutionEngineProofs -----------------------
(***************************************************************************)
(* Theorems about ExecutionEngine for every set of orders, every quantity  *)
(* and any number of crashes.                                              *)
(***************************************************************************)
EXTENDS ExecutionEngine, TLAPS

-----------------------------------------------------------------------------
(* Facts about the transition table                                        *)

LEMMA StatusFacts ==
  /\ BrokerStatus \subseteq Status
  /\ {"VALIDATED", "SUBMITTING", "UNKNOWN", "CANCEL_PENDING"} \subseteq Status
  /\ None \notin Status
  /\ BrokerStatus \cap {None, "CREATED", "VALIDATED"} = {}
  /\ Working \subseteq BrokerStatus
BY DEF BrokerStatus, Status, None, Working

\* Only an order that was never sent may become VALIDATED.
LEMMA ValidatedFrom ==
  ASSUME NEW s \in Status \cup {None}, MayBecome(s, "VALIDATED")
  PROVE  s \in {None, "CREATED", "VALIDATED"}
BY DEF MayBecome, Allowed, Status, None

-----------------------------------------------------------------------------
(* Type correctness                                                        *)

LEMMA TypeInit == Init => TypeOK
BY EngineAssumption DEF Init, TypeOK

LEMMA AnswerType ==
  ASSUME TypeOK, NEW o \in Orders, Found(o), NEW answer \in Answer(o)
  PROVE  answer[1] \in BrokerStatus /\ answer[2] \in 0 .. Qty
BY EngineAssumption DEF TypeOK, Found, Answer, BrokerStatus

LEMMA MergeType ==
  ASSUME TypeOK, NEW o \in Orders, NEW s \in Status, NEW q \in 0 .. Qty,
         Merge(o, s, q)
  PROVE  /\ states' \in [Orders -> Status \cup {None}]
         /\ oStatus' \in [Orders -> Status \cup {None}]
         /\ oFilled' \in [Orders -> 0 .. Qty]
         /\ audit' \in [Orders -> Status \cup {None}]
BY DEF TypeOK, Merge, Journalled, AuditRaises, Record

LEMMA TypeStep == TypeOK /\ [Next]_vars => TypeOK'
<1> SUFFICES ASSUME TypeOK, [Next]_vars PROVE TypeOK'
  OBVIOUS
<1> USE StatusFacts, EngineAssumption
<1>1. ASSUME NEW o \in Orders, SubmitBegin(o) PROVE TypeOK'
  BY <1>1 DEF TypeOK, SubmitBegin, lifeVars, brokerVars, Idle
<1>2. ASSUME NEW o \in Orders, SubmitAuditRaises(o) PROVE TypeOK'
  BY <1>2 DEF TypeOK, SubmitAuditRaises, AuditRaises, callVars, lifeVars,
              brokerVars
<1>3. ASSUME NEW o \in Orders, SubmitReturns(o) PROVE TypeOK'
  <2>1. PICK answer \in Answer(o) : \/ Merge(o, answer[1], answer[2])
                                    \/ MergeRefused(o, answer[1])
    BY <1>3 DEF SubmitReturns
  <2>2. answer[1] \in Status /\ answer[2] \in 0 .. Qty
    BY <1>3, AnswerType DEF SubmitReturns
  <2>3. /\ states' \in [Orders -> Status \cup {None}]
        /\ oStatus' \in [Orders -> Status \cup {None}]
        /\ oFilled' \in [Orders -> 0 .. Qty]
        /\ audit' \in [Orders -> Status \cup {None}]
    BY <2>1, <2>2, MergeType DEF MergeRefused, engineVars, TypeOK
  <2> QED
    BY <1>3, <2>3 DEF TypeOK, SubmitReturns, SubmitEnds, lifeVars, brokerVars
<1>4. ASSUME NEW o \in Orders, SubmitRaises(o) PROVE TypeOK'
  BY <1>4, MergeType DEF TypeOK, SubmitRaises, SubmitEnds, lifeVars, brokerVars
<1>5. ASSUME NEW o \in Orders, SubmitAnswerRejected(o) PROVE TypeOK'
  BY <1>5 DEF TypeOK, SubmitAnswerRejected, SubmitEnds, engineVars, lifeVars,
              auditVars, brokerVars
<1>6. ASSUME NEW o \in Orders, RefreshFound(o) PROVE TypeOK'
  <2>1. bStatus[o] \in Status /\ bFilled[o] \in 0 .. Qty
    BY <1>6 DEF RefreshFound, Found, TypeOK
  <2>2. /\ states' \in [Orders -> Status \cup {None}]
        /\ oStatus' \in [Orders -> Status \cup {None}]
        /\ oFilled' \in [Orders -> 0 .. Qty]
        /\ audit' \in [Orders -> Status \cup {None}]
    BY <1>6, <2>1, MergeType DEF RefreshFound, Record, TypeOK
  <2> QED
    BY <1>6, <2>2 DEF TypeOK, RefreshFound, callVars, lifeVars, brokerVars
<1>7. ASSUME NEW o \in Orders, RefreshMissing(o) PROVE TypeOK'
  <2>1. oFilled[o] \in 0 .. Qty
    BY DEF TypeOK
  <2> QED
    BY <1>7, <2>1, MergeType DEF TypeOK, RefreshMissing, callVars, lifeVars,
       brokerVars
<1>8. ASSUME NEW o \in Orders, RecoverUnknown(o) PROVE TypeOK'
  <2>1. bStatus[o] \in Status /\ bFilled[o] \in 0 .. Qty
    BY <1>8 DEF RecoverUnknown, Found, TypeOK
  <2> QED
    BY <1>8, <2>1, MergeType DEF TypeOK, RecoverUnknown, callVars, lifeVars,
       brokerVars
<1>9. ASSUME NEW o \in Orders, Rehydrate(o) PROVE TypeOK'
  BY <1>9 DEF TypeOK, Rehydrate, Record, Found, engineVars, callVars,
              auditVars, brokerVars
<1>10. ASSUME NEW o \in Orders, CancelBegin(o) PROVE TypeOK'
  BY <1>10 DEF TypeOK, CancelBegin, Journalled, AuditRaises, lifeVars,
               brokerVars
<1>11. ASSUME NEW o \in Orders, CancelReturns(o) PROVE TypeOK'
  <2>1. bStatus[o] \in Status /\ bFilled[o] \in 0 .. Qty
    BY <1>11 DEF CancelReturns, Found, TypeOK
  <2>2. /\ states' \in [Orders -> Status \cup {None}]
        /\ oStatus' \in [Orders -> Status \cup {None}]
        /\ oFilled' \in [Orders -> 0 .. Qty]
        /\ audit' \in [Orders -> Status \cup {None}]
    BY <1>11, <2>1, MergeType DEF CancelReturns, MergeRefused, engineVars, TypeOK
  <2> QED
    BY <1>11, <2>2 DEF TypeOK, CancelReturns, lifeVars, brokerVars
<1>12. ASSUME NEW o \in Orders, CancelRaises(o) PROVE TypeOK'
  BY <1>12 DEF TypeOK, CancelRaises, engineVars, lifeVars, auditVars, brokerVars
<1>13. ASSUME NEW o \in Orders, BrokerAccepts(o) PROVE TypeOK'
  BY <1>13 DEF TypeOK, BrokerAccepts, BrokerUnchanged, engineVars, callVars,
               lifeVars, auditVars, brokerVars, BrokerStatus
<1>14. ASSUME NEW o \in Orders, BrokerFills(o) PROVE TypeOK'
  <2>1. PICK n \in 1 .. Qty - bFilled[o] :
          /\ bFilled' = [bFilled EXCEPT ![o] = @ + n]
          /\ executed' = [executed EXCEPT ![o] = @ + n]
          /\ bStatus' = [bStatus EXCEPT ![o] =
                           IF bFilled[o] + n = Qty THEN "FILLED"
                           ELSE IF @ = "CANCEL_PENDING" THEN @
                           ELSE "PARTIALLY_FILLED"]
    BY <1>14 DEF BrokerFills, TypeOK
  <2>2. bFilled' \in [Orders -> 0 .. Qty]
    BY <2>1 DEF TypeOK
  <2>3. executed' \in [Orders -> Nat]
    BY <2>1 DEF TypeOK
  <2>4. bStatus' \in [Orders -> BrokerStatus \cup {None}]
    BY <2>1 DEF TypeOK, BrokerStatus
  <2> QED
    BY <1>14, <2>2, <2>3, <2>4 DEF TypeOK, BrokerFills, BrokerUnchanged,
       engineVars, callVars, lifeVars, auditVars
<1>15. ASSUME NEW o \in Orders, BrokerMoves(o) PROVE TypeOK'
  BY <1>15 DEF TypeOK, BrokerMoves, BrokerUnchanged, engineVars, callVars,
               lifeVars, auditVars, BrokerStatus
<1>16. ASSUME Crash PROVE TypeOK'
  <2>1. crashes' \in 0 .. MaxCrashes /\ up' \in BOOLEAN /\ todo' \in SUBSET Orders
    <3>1. /\ crashes \in 0 .. MaxCrashes /\ crashes < MaxCrashes
          /\ crashes' = crashes + 1 /\ up' = FALSE /\ todo' = {}
      BY <1>16 DEF TypeOK, Crash
    <3>2. crashes' \in 0 .. MaxCrashes
      BY <3>1
    <3> QED
      BY <3>1, <3>2
  <2>2. /\ states' \in [Orders -> Status \cup {None}]
        /\ oStatus' \in [Orders -> Status \cup {None}]
        /\ oFilled' \in [Orders -> 0 .. Qty]
    BY <1>16 DEF Crash
  <2>3. /\ wire' \in [Orders -> Nat] /\ sent' \in [Orders -> Nat]
        /\ inSubmit' \in Orders \cup {NoOrder}
        /\ inCancel' \in Orders \cup {NoOrder}
    BY <1>16 DEF Crash, SubmitEnds, TypeOK
  <2> QED
    BY <1>16, <2>1, <2>2, <2>3 DEF TypeOK, Crash, auditVars, brokerVars
<1>17. ASSUME Restart \/ AuditFails \/ AuditRepaired PROVE TypeOK'
  BY <1>17 DEF TypeOK, Restart, AuditFails, AuditRepaired, engineVars, callVars,
               lifeVars, auditVars, brokerVars
<1>18. ASSUME UNCHANGED vars PROVE TypeOK'
  BY <1>18 DEF TypeOK, vars, engineVars, callVars, lifeVars, auditVars,
               brokerVars
<1> QED
  BY <1>1, <1>2, <1>3, <1>4, <1>5, <1>6, <1>7, <1>8, <1>9, <1>10, <1>11,
     <1>12, <1>13, <1>14, <1>15, <1>16, <1>17, <1>18
     DEF Next, EngineStep, BrokerStep, ProcessStep

\* Every reachable state is well typed: quantities stay within the approved
\* quantity, statuses within the Enum, requests in transit are never negative.
THEOREM TypeCorrect == Spec => []TypeOK
BY TypeInit, TypeStep, PTL DEF Spec

-----------------------------------------------------------------------------
(* Submit once per process, with no assumption about broker or network     *)

\* A request this process has sent leaves the order in a state from which
\* submit cannot reach the adapter again.
SentIsMarked ==
  \A o \in Orders :
    /\ states[o] # "CREATED"
    /\ sent[o] <= 1
    /\ sent[o] = 1 => states[o] \notin {None, "VALIDATED"}

LEMMA MarkedStep == TypeOK /\ SentIsMarked /\ [Next]_vars => SentIsMarked'
<1> SUFFICES ASSUME TypeOK, SentIsMarked, [Next]_vars PROVE SentIsMarked'
  OBVIOUS
<1> USE StatusFacts, EngineAssumption
<1>1. ASSUME NEW o \in Orders, SubmitBegin(o) PROVE SentIsMarked'
  <2>1. states[o] \in {None, "VALIDATED"}
    BY <1>1, ValidatedFrom DEF SubmitBegin, TypeOK, SentIsMarked
  <2>2. sent[o] = 0
    BY <2>1 DEF SentIsMarked, TypeOK
  <2> QED
    BY <1>1, <2>2 DEF SentIsMarked, SubmitBegin, TypeOK, None
<1>2. ASSUME NEW o \in Orders, SubmitAuditRaises(o) PROVE SentIsMarked'
  <2>1. states[o] \in {None, "VALIDATED"}
    BY <1>2, ValidatedFrom DEF SubmitAuditRaises, TypeOK, SentIsMarked
  <2>2. sent[o] = 0
    BY <2>1 DEF SentIsMarked, TypeOK
  <2> QED
    BY <1>2, <2>2 DEF SentIsMarked, SubmitAuditRaises, AuditRaises, TypeOK, None
<1>3. ASSUME NEW o \in Orders, NEW s \in Status \ {"CREATED", "VALIDATED"},
             states' = states \/ states' = [states EXCEPT ![o] = s],
             sent' = sent
      PROVE  SentIsMarked'
  BY <1>3 DEF SentIsMarked, TypeOK
<1>4. ASSUME NEW o \in Orders, SubmitReturns(o) PROVE SentIsMarked'
  <2>1. PICK answer \in Answer(o) : \/ Merge(o, answer[1], answer[2])
                                    \/ MergeRefused(o, answer[1])
    BY <1>4 DEF SubmitReturns
  <2>2. answer[1] \in Status \ {"CREATED", "VALIDATED"}
    BY <1>4, AnswerType DEF SubmitReturns
  <2> QED
    BY <1>3, <1>4, <2>1, <2>2 DEF SubmitReturns, Merge, MergeRefused, Journalled,
       AuditRaises, engineVars
<1>5. ASSUME NEW o \in Orders, SubmitRaises(o) PROVE SentIsMarked'
  BY <1>3, <1>5 DEF SubmitRaises, Merge, Journalled, AuditRaises
<1>6. ASSUME NEW o \in Orders,
             Found(o),
             RefreshFound(o) \/ RecoverUnknown(o) \/ CancelReturns(o)
      PROVE  SentIsMarked'
  <2>1. bStatus[o] \in Status \ {"CREATED", "VALIDATED"}
    BY <1>6 DEF Found, TypeOK
  <2> QED
    BY <1>3, <1>6, <2>1 DEF RefreshFound, RecoverUnknown, CancelReturns, Merge,
       MergeRefused, Journalled, AuditRaises, engineVars
<1>7. ASSUME NEW o \in Orders, RefreshMissing(o) PROVE SentIsMarked'
  BY <1>3, <1>7 DEF RefreshMissing, Merge, Journalled, AuditRaises
<1>8. ASSUME NEW o \in Orders, Rehydrate(o) PROVE SentIsMarked'
  <2>1. Found(o) => bStatus[o] \in Status \ {"CREATED", "VALIDATED"}
    BY DEF Found, TypeOK
  <2> QED
    BY <1>3, <1>8, <2>1 DEF Rehydrate, engineVars
<1>9. ASSUME NEW o \in Orders, CancelBegin(o) PROVE SentIsMarked'
  BY <1>3, <1>9 DEF CancelBegin, Journalled, AuditRaises
<1>10. ASSUME states' = states, sent' = sent PROVE SentIsMarked'
  BY <1>10 DEF SentIsMarked
<1>11. ASSUME Crash PROVE SentIsMarked'
  BY <1>11 DEF Crash, SentIsMarked, None
<1>12. ASSUME NEW o \in Orders,
              \/ SubmitAnswerRejected(o) \/ CancelRaises(o)
              \/ BrokerAccepts(o) \/ BrokerFills(o) \/ BrokerMoves(o)
       PROVE  SentIsMarked'
  BY <1>10, <1>12 DEF SubmitAnswerRejected, CancelRaises, BrokerAccepts,
     BrokerFills, BrokerMoves, BrokerUnchanged, engineVars
<1>13. ASSUME Restart \/ AuditFails \/ AuditRepaired \/ UNCHANGED vars
       PROVE  SentIsMarked'
  BY <1>10, <1>13 DEF Restart, AuditFails, AuditRepaired, engineVars, vars
<1>14. \A o \in Orders : RefreshFound(o) \/ RecoverUnknown(o) \/ CancelReturns(o)
                          => Found(o)
  BY DEF RefreshFound, RecoverUnknown, CancelReturns
<1> QED
  BY <1>1, <1>2, <1>4, <1>5, <1>6, <1>7, <1>8, <1>9, <1>11, <1>12, <1>13, <1>14
     DEF Next, EngineStep, BrokerStep, ProcessStep

\* Within one process a client_order_id reaches the broker at most once:
\* whatever the broker loses, delays or repeats, whether or not the audit file
\* accepts writes, and however submit, refresh, cancel, recover_unknown and
\* rehydrate are called.
THEOREM SubmitOnce == Spec => []OncePerProcess
<1>1. Init => SentIsMarked
  BY DEF Init, SentIsMarked, None
<1>2. SentIsMarked => OncePerProcess
  BY DEF SentIsMarked, OncePerProcess
<1> QED
  BY <1>1, <1>2, TypeInit, TypeStep, MarkedStep, PTL DEF Spec

-----------------------------------------------------------------------------
(* At most one broker order per approval, across crashes                   *)

\* A submit in flight holds its order SUBMITTING and unrecorded.
CallShape ==
  /\ inSubmit # NoOrder => /\ up /\ inCancel = NoOrder
                           /\ states[inSubmit] = "SUBMITTING"
                           /\ oStatus[inSubmit] = None
  /\ inCancel # NoOrder => up /\ inSubmit = NoOrder
  /\ \A o \in Orders : oStatus[o] = None => oFilled[o] = 0

\* A request is in transit only while its call waits, and never for an order
\* the broker already has.
WireShape ==
  \A o \in Orders : /\ wire[o] > 0 => inSubmit = o
                    /\ placed[o] + wire[o] <= 1

\* An order the broker has is named by the journal and, once the restarted
\* caller has rehydrated it, marked so that submit refuses it.
PlacedIsMarked ==
  \A o \in Orders :
    /\ placed[o] + wire[o] > 0 => audit[o] # None
    /\ (placed[o] > 0 /\ up /\ o \notin todo)
         => states[o] \notin {None, "VALIDATED"}

\* The broker's latest record is its only one, and the books are within it.
BookShape ==
  \A o \in Orders : /\ placed[o] = 0 <=> bStatus[o] = None
                    /\ placed[o] = 0 => bFilled[o] = 0
                    /\ executed[o] = bFilled[o]
                    /\ oFilled[o] <= bFilled[o]

ReliableInv ==
  TypeOK /\ SentIsMarked /\ CallShape /\ WireShape /\ PlacedIsMarked /\ BookShape

LEMMA ReliableInit == Init => ReliableInv
BY TypeInit, StatusFacts, EngineAssumption
   DEF Init, ReliableInv, SentIsMarked, CallShape, WireShape, PlacedIsMarked,
       BookShape, None

\* What a merge does to one order, and that it touches no other.
LEMMA MergeEffect ==
  ASSUME TypeOK, NEW o \in Orders, NEW s \in Status, NEW q \in 0 .. Qty,
         Merge(o, s, q)
  PROVE  /\ states'[o] = s
         /\ \/ oStatus'[o] = s /\ oFilled'[o] = q
            \/ oStatus'[o] = oStatus[o] /\ oFilled'[o] = oFilled[o]
         /\ audit[o] # None => audit'[o] # None
         /\ \A p \in Orders \ {o} :
              /\ states'[p] = states[p] /\ oStatus'[p] = oStatus[p]
              /\ oFilled'[p] = oFilled[p] /\ audit'[p] = audit[p]
BY StatusFacts DEF TypeOK, Merge, Journalled, AuditRaises, Record

LEMMA ReliableStep ==
  ASSUME Reliable
  PROVE  ReliableInv /\ [Next]_vars => ReliableInv'
<1> SUFFICES ASSUME ReliableInv, [Next]_vars
             PROVE  CallShape' /\ WireShape' /\ PlacedIsMarked' /\ BookShape'
  BY TypeStep, MarkedStep DEF ReliableInv
<1> DEFINE Goal == CallShape /\ WireShape /\ PlacedIsMarked /\ BookShape
<1> USE StatusFacts, EngineAssumption
<1>0. TypeOK /\ SentIsMarked /\ Goal
  BY DEF ReliableInv
<1>1. ASSUME NEW o \in Orders, SubmitBegin(o) PROVE Goal'
  <2>1. states[o] \in {None, "VALIDATED"}
    BY <1>0, <1>1, ValidatedFrom DEF SubmitBegin, TypeOK, SentIsMarked
  <2>2. placed[o] = 0 /\ wire[o] = 0
    BY <1>0, <1>1, <2>1 DEF SubmitBegin, Idle, TypeOK, PlacedIsMarked, WireShape
  <2>3. CallShape'
    BY <1>0, <1>1 DEF SubmitBegin, Idle, TypeOK, CallShape, lifeVars
  <2>4. WireShape'
    BY <1>0, <1>1, <2>2 DEF SubmitBegin, Idle, TypeOK, WireShape, brokerVars
  <2>5. PlacedIsMarked'
    BY <1>0, <1>1 DEF SubmitBegin, Idle, TypeOK, PlacedIsMarked, brokerVars,
       lifeVars
  <2>6. BookShape'
    BY <1>0, <1>1 DEF SubmitBegin, TypeOK, BookShape, brokerVars
  <2> QED
    BY <2>3, <2>4, <2>5, <2>6
<1>2. ASSUME NEW o \in Orders, SubmitAuditRaises(o) PROVE Goal'
  <2>1. states[o] \in {None, "VALIDATED"}
    BY <1>0, <1>2, ValidatedFrom DEF SubmitAuditRaises, TypeOK, SentIsMarked
  <2>2. placed[o] = 0
    BY <1>0, <1>2, <2>1 DEF SubmitAuditRaises, Idle, TypeOK, PlacedIsMarked
  <2>3. CallShape'
    BY <1>0, <1>2 DEF SubmitAuditRaises, AuditRaises, Idle, TypeOK, CallShape,
       callVars, lifeVars
  <2>4. WireShape' /\ BookShape'
    BY <1>0, <1>2 DEF SubmitAuditRaises, TypeOK, WireShape, BookShape,
       callVars, brokerVars
  <2>5. PlacedIsMarked'
    BY <1>0, <1>2, <2>2 DEF SubmitAuditRaises, AuditRaises, TypeOK,
       PlacedIsMarked, lifeVars, brokerVars
  <2> QED
    BY <2>3, <2>4, <2>5
<1>3. ASSUME SubmitEnds PROVE wire' = [o \in Orders |-> 0] /\ inSubmit' = NoOrder
  BY <1>3 DEF SubmitEnds, Reliable
<1>4. ASSUME NEW o \in Orders PROVE Missing(o) <=> bStatus[o] = None
  BY DEF Missing, Reliable
<1>5. ASSUME NEW o \in Orders, up, inSubmit = o,
             NEW s \in Status \ {"VALIDATED"}, NEW q \in 0 .. bFilled[o],
             \/ Merge(o, s, q)
             \/ UNCHANGED <<engineVars, audit>>,
             wire[o] = 0 \/ placed[o] = 0,
             SubmitEnds, inCancel' = inCancel, UNCHANGED <<lifeVars, brokerVars>>
      PROVE  Goal'
  <2>1. /\ states[o] = "SUBMITTING" /\ oStatus[o] = None /\ oFilled[o] = 0
        /\ inCancel = NoOrder /\ (audit[o] # None \/ placed[o] = 0)
    BY <1>0, <1>5 DEF CallShape, PlacedIsMarked, TypeOK
  <2>2. q \in 0 .. Qty
    BY <1>0, <1>5 DEF TypeOK
  <2>3. /\ states'[o] \notin {None, "VALIDATED"}
        /\ oStatus'[o] = None => oFilled'[o] = 0
        /\ oFilled'[o] <= bFilled[o]
        /\ audit[o] # None => audit'[o] # None
        /\ \A p \in Orders \ {o} :
             /\ states'[p] = states[p] /\ oStatus'[p] = oStatus[p]
             /\ oFilled'[p] = oFilled[p] /\ audit'[p] = audit[p]
    BY <1>0, <1>5, <2>1, <2>2, MergeEffect DEF engineVars, TypeOK
  <2>4. CallShape'
    BY <1>0, <1>3, <1>5, <2>1, <2>3 DEF CallShape
  <2>5. WireShape'
    BY <1>0, <1>3, <1>5 DEF WireShape, brokerVars, TypeOK
  <2>6. PlacedIsMarked'
    BY <1>0, <1>3, <1>5, <2>3 DEF PlacedIsMarked, brokerVars, lifeVars, TypeOK
  <2>7. BookShape'
    BY <1>0, <1>5, <2>3 DEF BookShape, brokerVars
  <2> QED
    BY <2>4, <2>5, <2>6, <2>7
<1>6. ASSUME NEW o \in Orders, SubmitReturns(o) PROVE Goal'
  <2>1. PICK answer \in Answer(o) : \/ Merge(o, answer[1], answer[2])
                                    \/ MergeRefused(o, answer[1])
    BY <1>6 DEF SubmitReturns
  <2>2. /\ answer[1] \in Status \ {"VALIDATED"}
        /\ answer[2] \in 0 .. bFilled[o]
    BY <1>0, <1>6 DEF SubmitReturns, Answer, Found, TypeOK, BrokerStatus, Status
  <2>3. /\ \/ Merge(o, answer[1], answer[2])
           \/ UNCHANGED <<engineVars, audit>>
        /\ up /\ inSubmit = o /\ wire[o] = 0 /\ SubmitEnds /\ inCancel' = inCancel
        /\ UNCHANGED <<lifeVars, brokerVars>>
    BY <1>6, <2>1 DEF SubmitReturns, MergeRefused
  <2>4. ASSUME NEW s \in Status \ {"VALIDATED"}, NEW q \in 0 .. bFilled[o],
               Merge(o, s, q) \/ UNCHANGED <<engineVars, audit>>
        PROVE  Goal'
    BY <1>5, <2>3, <2>4
  <2> QED
    BY <2>2, <2>3, <2>4, Zenon
<1>7. ASSUME NEW o \in Orders, SubmitRaises(o) PROVE Goal'
  <2>1. wire[o] = 0 \/ placed[o] = 0
    <3>1. wire[o] \in Nat /\ placed[o] \in Nat
      BY <1>0 DEF TypeOK
    <3>2. placed[o] + wire[o] <= 1
      BY <1>0 DEF WireShape
    <3> QED
      BY <3>1, <3>2
  <2>2. 0 \in 0 .. bFilled[o]
    BY <1>0 DEF TypeOK
  <2> QED
    BY <1>5, <1>7, <2>1, <2>2 DEF SubmitRaises
<1>8. ASSUME NEW o \in Orders, SubmitAnswerRejected(o) PROVE Goal'
  <2>1. 0 \in 0 .. bFilled[o] /\ "UNKNOWN" \in Status \ {"VALIDATED"}
    BY <1>0 DEF TypeOK
  <2>2. /\ up /\ inSubmit = o /\ wire[o] = 0 /\ SubmitEnds /\ inCancel' = inCancel
        /\ UNCHANGED <<engineVars, audit>> /\ UNCHANGED <<lifeVars, brokerVars>>
    BY <1>8 DEF SubmitAnswerRejected, auditVars
  <2> QED
    BY <1>5, <2>1, <2>2
\* A lookup or a cancel that found the order merges what the broker holds.
<1>9. ASSUME NEW o \in Orders, Found(o), up, inSubmit = NoOrder,
             \/ Merge(o, bStatus[o], bFilled[o])
             \/ UNCHANGED <<engineVars, audit>>
             \/ /\ states' = [states EXCEPT ![o] = bStatus[o]]
                /\ Record(o, bStatus[o], bFilled[o])
                /\ UNCHANGED audit,
             inCancel' = inCancel \/ inCancel' = NoOrder,
             UNCHANGED <<inSubmit, up, wire, brokerVars>>,
             todo' = todo \/ (todo' = todo \ {o} /\ states'[o] = bStatus[o])
      PROVE  Goal'
  <2>1. /\ bStatus[o] \in Status \ {"VALIDATED"} /\ bFilled[o] \in 0 .. Qty
        /\ oFilled[o] <= bFilled[o]
    BY <1>0, <1>9 DEF Found, TypeOK, BookShape
  <2>3. /\ states'[o] \in {states[o], bStatus[o]}
        /\ oFilled'[o] = 0 \/ oStatus'[o] # None \/ oStatus[o] # None
        /\ oStatus'[o] = None => oFilled'[o] = 0
        /\ oFilled'[o] <= bFilled[o]
        /\ audit[o] # None => audit'[o] # None
        /\ \A p \in Orders \ {o} :
             /\ states'[p] = states[p] /\ oStatus'[p] = oStatus[p]
             /\ oFilled'[p] = oFilled[p] /\ audit'[p] = audit[p]
    BY <1>0, <1>9, <2>1, MergeEffect DEF engineVars, TypeOK, Record, CallShape
  <2>4. CallShape'
    BY <1>0, <1>9, <2>3 DEF CallShape
  <2>5. WireShape'
    BY <1>0, <1>9 DEF WireShape, brokerVars
  <2>6. PlacedIsMarked'
    BY <1>0, <1>9, <2>1, <2>3 DEF PlacedIsMarked, brokerVars
  <2>7. BookShape'
    BY <1>0, <1>9, <2>3 DEF BookShape, brokerVars
  <2> QED
    BY <2>4, <2>5, <2>6, <2>7
<1>10. ASSUME NEW o \in Orders, RefreshFound(o) \/ RecoverUnknown(o) PROVE Goal'
  BY <1>9, <1>10 DEF RefreshFound, RecoverUnknown, Idle, callVars, lifeVars
<1>11. ASSUME NEW o \in Orders, CancelReturns(o) PROVE Goal'
  <2>1. inSubmit = NoOrder
    BY <1>0, <1>11 DEF CancelReturns, CallShape
  <2> QED
    BY <1>9, <1>11, <2>1 DEF CancelReturns, MergeRefused, lifeVars
\* Losing sight of an order, or never having seen it, books nothing new.
<1>12. ASSUME NEW o \in Orders, RefreshMissing(o) PROVE Goal'
  <2>1. placed[o] = 0 /\ oFilled[o] \in 0 .. Qty
    BY <1>0, <1>4, <1>12 DEF RefreshMissing, BookShape, TypeOK
  <2>2. /\ oStatus[o] # None /\ Idle
        /\ oStatus'[o] # None /\ oFilled'[o] = oFilled[o]
        /\ audit[o] # None => audit'[o] # None
        /\ \A p \in Orders \ {o} :
             /\ states'[p] = states[p] /\ oStatus'[p] = oStatus[p]
             /\ oFilled'[p] = oFilled[p] /\ audit'[p] = audit[p]
    BY <1>0, <1>12, <2>1, MergeEffect DEF RefreshMissing
  <2>3. UNCHANGED <<callVars, lifeVars, wire, brokerVars>>
    BY <1>12 DEF RefreshMissing
  <2>4. CallShape'
    BY <1>0, <2>2, <2>3 DEF CallShape, Idle, callVars, lifeVars
  <2>5. WireShape' /\ BookShape'
    BY <1>0, <2>2, <2>3 DEF WireShape, BookShape, callVars, brokerVars
  <2>6. PlacedIsMarked'
    BY <1>0, <2>1, <2>2, <2>3 DEF PlacedIsMarked, lifeVars, brokerVars
  <2> QED
    BY <2>4, <2>5, <2>6
<1>13. ASSUME NEW o \in Orders, Rehydrate(o) PROVE Goal'
  <2>1. /\ Idle /\ todo' = todo \ {o}
        /\ UNCHANGED <<inSubmit, inCancel, up, audit, wire, brokerVars>>
    BY <1>13 DEF Rehydrate, callVars, auditVars
  <2>2. CASE /\ Found(o)
             /\ states' = [states EXCEPT ![o] = bStatus[o]]
             /\ Record(o, bStatus[o], bFilled[o])
    <3>1. states'[o] = bStatus[o]
      BY <1>0, <2>2 DEF TypeOK
    <3> QED
      BY <1>9, <2>1, <2>2, <3>1 DEF Idle
  <2>3. CASE /\ Missing(o) /\ oStatus[o] # None
             /\ states' = [states EXCEPT ![o] = "UNKNOWN"]
             /\ Record(o, "UNKNOWN", oFilled[o])
    <3>1. placed[o] = 0
      BY <1>0, <1>4, <2>3 DEF BookShape
    <3>2. CallShape'
      BY <1>0, <2>1, <2>3 DEF CallShape, Idle, Record, TypeOK
    <3>3. WireShape' /\ BookShape'
      BY <1>0, <2>1, <2>3 DEF WireShape, BookShape, Record, brokerVars, TypeOK
    <3>4. PlacedIsMarked'
      BY <1>0, <2>1, <2>3, <3>1 DEF PlacedIsMarked, brokerVars, TypeOK
    <3> QED
      BY <3>2, <3>3, <3>4
  <2>4. CASE Missing(o) /\ UNCHANGED engineVars
    <3>1. placed[o] = 0
      BY <1>0, <1>4, <2>4 DEF BookShape
    <3>2. CallShape' /\ WireShape' /\ BookShape'
      BY <1>0, <2>1, <2>4 DEF CallShape, WireShape, BookShape, engineVars,
         brokerVars
    <3>3. PlacedIsMarked'
      BY <1>0, <2>1, <2>4, <3>1 DEF PlacedIsMarked, engineVars, brokerVars
    <3> QED
      BY <3>2, <3>3
  <2> QED
    BY <1>13, <2>2, <2>3, <2>4 DEF Rehydrate
<1>14. ASSUME NEW o \in Orders, CancelBegin(o) PROVE Goal'
  <2>1. /\ Idle /\ states' = [states EXCEPT ![o] = "CANCEL_PENDING"]
        /\ audit' = audit \/ audit' = [audit EXCEPT ![o] = "CANCEL_PENDING"]
        /\ inCancel' \in {inCancel, o}
        /\ UNCHANGED <<oStatus, oFilled, inSubmit, lifeVars, wire, brokerVars>>
    BY <1>14 DEF CancelBegin, Journalled, AuditRaises
  <2>2. CallShape'
    BY <1>0, <2>1 DEF CallShape, Idle, lifeVars
  <2>3. WireShape' /\ BookShape'
    BY <1>0, <2>1 DEF WireShape, BookShape, brokerVars
  <2>4. PlacedIsMarked'
    BY <1>0, <2>1 DEF PlacedIsMarked, brokerVars, lifeVars, TypeOK
  <2> QED
    BY <2>2, <2>3, <2>4
<1>15. ASSUME NEW o \in Orders, CancelRaises(o) PROVE Goal'
  BY <1>0, <1>15 DEF CancelRaises, CallShape, WireShape, PlacedIsMarked,
     BookShape, engineVars, lifeVars, auditVars, brokerVars
<1>16. ASSUME NEW o \in Orders, BrokerAccepts(o) PROVE Goal'
  <2>1. /\ placed[o] = 0 /\ wire[o] = 1 /\ inSubmit = o
        /\ bStatus[o] = None /\ bFilled[o] = 0
    BY <1>0, <1>16 DEF BrokerAccepts, WireShape, BookShape, TypeOK
  <2>2. /\ wire' = [wire EXCEPT ![o] = 0]
        /\ placed' = [placed EXCEPT ![o] = 1]
        /\ bStatus' = [bStatus EXCEPT ![o] = "SUBMITTED"]
        /\ bFilled' = [bFilled EXCEPT ![o] = 0]
        /\ executed' = executed
        /\ UNCHANGED <<states, oStatus, oFilled, inSubmit, inCancel, up, todo,
                       audit>>
    BY <1>16, <2>1 DEF BrokerAccepts, BrokerUnchanged, engineVars, callVars,
       lifeVars, auditVars
  <2>3. CallShape'
    BY <1>0, <2>2 DEF CallShape
  <2>4. WireShape'
    BY <1>0, <2>1, <2>2 DEF WireShape, TypeOK
  <2>5. PlacedIsMarked'
    BY <1>0, <2>1, <2>2 DEF PlacedIsMarked, CallShape, TypeOK
  <2>6. BookShape'
    <3>1. ASSUME NEW p \in Orders \ {o}
          PROVE  /\ placed'[p] = placed[p] /\ bStatus'[p] = bStatus[p]
                 /\ bFilled'[p] = bFilled[p]
      BY <1>0, <2>2 DEF TypeOK
    <3>2. placed'[o] = 1 /\ bStatus'[o] = "SUBMITTED" /\ bFilled'[o] = 0
      BY <1>0, <2>2 DEF TypeOK
    <3>3. executed[o] = 0 /\ oFilled[o] = 0
      BY <1>0, <2>1 DEF BookShape, TypeOK
    <3> QED
      BY <1>0, <2>2, <3>1, <3>2, <3>3 DEF BookShape, None
  <2> QED
    BY <2>3, <2>4, <2>5, <2>6
<1>17. ASSUME NEW o \in Orders, BrokerFills(o) PROVE Goal'
  <2>1. PICK n \in 1 .. Qty - bFilled[o] :
          /\ bFilled' = [bFilled EXCEPT ![o] = @ + n]
          /\ executed' = [executed EXCEPT ![o] = @ + n]
          /\ bStatus' = [bStatus EXCEPT ![o] =
                           IF bFilled[o] + n = Qty THEN "FILLED"
                           ELSE IF @ = "CANCEL_PENDING" THEN @
                           ELSE "PARTIALLY_FILLED"]
    BY <1>17 DEF BrokerFills
  <2>2. UNCHANGED <<states, oStatus, oFilled, inSubmit, inCancel, up, todo,
                    audit, wire, placed>>
    BY <1>17 DEF BrokerFills, BrokerUnchanged, engineVars, callVars, lifeVars,
       auditVars
  <2>3. bStatus[o] # None /\ bStatus'[o] # None
    BY <1>0, <1>17, <2>1 DEF BrokerFills, TypeOK, BrokerStatus, None
  <2>4. CallShape' /\ WireShape' /\ PlacedIsMarked'
    BY <1>0, <2>2 DEF CallShape, WireShape, PlacedIsMarked
  <2>5. BookShape'
    BY <1>0, <2>1, <2>2, <2>3 DEF BookShape, TypeOK
  <2> QED
    BY <2>4, <2>5
<1>18. ASSUME NEW o \in Orders, BrokerMoves(o) PROVE Goal'
  <2>1. UNCHANGED <<states, oStatus, oFilled, inSubmit, inCancel, up, todo,
                    audit, wire, placed, bFilled, executed>>
    BY <1>18 DEF BrokerMoves, BrokerUnchanged, engineVars, callVars, lifeVars,
       auditVars
  <2>2. CallShape' /\ WireShape' /\ PlacedIsMarked'
    BY <1>0, <2>1 DEF CallShape, WireShape, PlacedIsMarked
  <2>3. BookShape'
    BY <1>0, <1>18, <2>1 DEF BrokerMoves, BookShape, TypeOK, None
  <2> QED
    BY <2>2, <2>3
<1>19. ASSUME Crash PROVE Goal'
  <2>1. /\ wire' = [o \in Orders |-> 0] /\ inSubmit' = NoOrder
        /\ inCancel' = NoOrder /\ up' = FALSE
        /\ oStatus' = [o \in Orders |-> None]
        /\ oFilled' = [o \in Orders |-> 0]
        /\ UNCHANGED <<audit, brokerVars>>
    BY <1>3, <1>19 DEF Crash, auditVars
  <2>2. CallShape' /\ WireShape'
    BY <1>0, <2>1 DEF CallShape, WireShape, brokerVars, TypeOK
  <2>3. PlacedIsMarked' /\ BookShape'
    BY <1>0, <2>1 DEF PlacedIsMarked, BookShape, brokerVars, TypeOK
  <2> QED
    BY <2>2, <2>3
<1>20. ASSUME Restart PROVE Goal'
  <2>1. /\ ~up /\ up' = TRUE /\ todo' = {o \in Orders : audit[o] # None}
        /\ UNCHANGED <<engineVars, callVars, audit, wire, brokerVars>>
    BY <1>20 DEF Restart, auditVars
  <2>2. CallShape' /\ WireShape' /\ BookShape'
    BY <1>0, <2>1 DEF CallShape, WireShape, BookShape, engineVars, callVars,
       brokerVars
  <2>3. PlacedIsMarked'
    BY <1>0, <2>1 DEF PlacedIsMarked, engineVars, brokerVars, TypeOK
  <2> QED
    BY <2>2, <2>3
<1>21. ASSUME UNCHANGED <<engineVars, callVars, lifeVars, audit, wire, brokerVars>>
       PROVE  Goal'
  BY <1>0, <1>21 DEF CallShape, WireShape, PlacedIsMarked, BookShape,
     engineVars, callVars, lifeVars, brokerVars
<1>22. ASSUME AuditFails \/ AuditRepaired \/ UNCHANGED vars PROVE Goal'
  BY <1>21, <1>22 DEF AuditFails, AuditRepaired, vars, auditVars
<1> QED
  BY <1>1, <1>2, <1>6, <1>7, <1>8, <1>10, <1>11, <1>12, <1>13, <1>14, <1>15,
     <1>16, <1>17, <1>18, <1>19, <1>20, <1>22
     DEF Next, EngineStep, BrokerStep, ProcessStep, ReliableInv

LEMMA ReliableAlways ==
  ASSUME Reliable
  PROVE  Spec => []ReliableInv
BY ReliableInit, ReliableStep, PTL DEF Spec

\* With a broker and a network that account for every request, a
\* client_order_id names at most one broker order for ever, across any number
\* of crashes, because the restarted caller rehydrates every journalled id.
THEOREM PlacedOnceAcrossCrashes ==
  ASSUME Reliable
  PROVE  Spec => []PlacedAtMostOnce
<1>1. ReliableInv => PlacedAtMostOnce
  BY DEF ReliableInv, TypeOK, WireShape, PlacedAtMostOnce
<1> QED
  BY <1>1, ReliableAlways, PTL

\* Under the same assumption the broker never executes more than risk approved.
THEOREM NeverOverExecuted ==
  ASSUME Reliable
  PROVE  Spec => []ExecutedWithinApproval
<1>1. ReliableInv => ExecutedWithinApproval
  BY EngineAssumption DEF ReliableInv, TypeOK, BookShape, ExecutedWithinApproval
<1> QED
  BY <1>1, ReliableAlways, PTL

\* ... and the journal names every order placed or in transit, the engine books
\* no more than was executed, and a placed order it holds no record of cannot
\* be submitted again.
THEOREM JournalAndBooksSound ==
  ASSUME Reliable
  PROVE  Spec => []LedgersSound
<1>1. ReliableInv => JournalNamesPlaced
  BY DEF ReliableInv, PlacedIsMarked, JournalNamesPlaced
<1>2. ReliableInv => BooksOnlyExecuted
  BY DEF ReliableInv, BookShape, BooksOnlyExecuted
<1>3. ReliableInv => UntrackedIsBlocked
  BY DEF ReliableInv, PlacedIsMarked, UntrackedIsBlocked, Idle
<1>4. ReliableInv => LedgersSound
  BY <1>1, <1>2, <1>3 DEF LedgersSound
<1> QED
  BY <1>4, ReliableAlways, PTL

-----------------------------------------------------------------------------
(* The engine implements ApprovedOrder                                     *)

\* What a step does to the three quantities the abstract order sees.
LEMMA StepEffect ==
  ASSUME Reliable, ReliableInv, [Next]_vars
  PROVE  \/ /\ oFilled' = [o \in Orders |-> 0]
            /\ up' = FALSE
            /\ UNCHANGED <<placed, executed>>
         \/ \E o \in Orders :
              /\ UNCHANGED <<placed, executed>>
              /\ \E q \in oFilled[o] .. executed[o] :
                   oFilled' = [oFilled EXCEPT ![o] = q]
         \/ \E o \in Orders :
              /\ placed[o] = 0 /\ placed' = [placed EXCEPT ![o] = 1]
              /\ UNCHANGED <<oFilled, executed>>
         \/ \E o \in Orders :
              /\ placed[o] = 1
              /\ \E q \in 0 .. Qty : /\ q > executed[o]
                                     /\ executed' = [executed EXCEPT ![o] = q]
              /\ UNCHANGED <<oFilled, placed>>
         \/ UNCHANGED <<oFilled, placed, executed>>
<1> DEFINE Booked(o) == /\ UNCHANGED <<placed, executed>>
                        /\ \E q \in oFilled[o] .. executed[o] :
                             oFilled' = [oFilled EXCEPT ![o] = q]
           Same == UNCHANGED <<oFilled, placed, executed>>
<1> USE StatusFacts, EngineAssumption
<1>0. /\ TypeOK /\ CallShape /\ BookShape
      /\ \A o \in Orders : bFilled[o] = executed[o] /\ oFilled[o] <= executed[o]
  BY DEF ReliableInv, BookShape
<1>1. ASSUME NEW o \in Orders, NEW s, NEW q \in oFilled[o] .. executed[o],
             Merge(o, s, q), UNCHANGED <<placed, executed>>
      PROVE  Booked(o) \/ Same
  BY <1>1 DEF Merge, Record
<1>2. ASSUME NEW o \in Orders, SubmitReturns(o) \/ SubmitRaises(o)
      PROVE  Booked(o) \/ Same
  <2>1. oFilled[o] = 0 /\ 0 \in oFilled[o] .. executed[o]
        /\ bFilled[o] \in oFilled[o] .. executed[o]
    BY <1>0, <1>2 DEF SubmitReturns, SubmitRaises, CallShape, TypeOK
  <2>2. UNCHANGED <<placed, executed>>
    BY <1>2 DEF SubmitReturns, SubmitRaises, brokerVars
  <2>3. CASE SubmitRaises(o)
    BY <1>1, <2>1, <2>2, <2>3 DEF SubmitRaises
  <2>4. CASE SubmitReturns(o)
    <3>1. \/ Merge(o, "SUBMITTED", 0) \/ Merge(o, bStatus[o], bFilled[o])
          \/ UNCHANGED oFilled
      BY <2>4 DEF SubmitReturns, Answer, MergeRefused, engineVars
    <3> QED
      BY <1>1, <2>1, <2>2, <3>1
  <2> QED
    BY <1>2, <2>3, <2>4
<1>3. ASSUME NEW o \in Orders,
             RefreshFound(o) \/ RecoverUnknown(o) \/ CancelReturns(o)
      PROVE  Booked(o) \/ Same
  <2>1. bFilled[o] \in oFilled[o] .. executed[o]
    BY <1>0 DEF TypeOK
  <2>2. UNCHANGED <<placed, executed>>
    BY <1>3 DEF RefreshFound, RecoverUnknown, CancelReturns, brokerVars
  <2>3. \/ Merge(o, bStatus[o], bFilled[o]) \/ Record(o, bStatus[o], bFilled[o])
        \/ UNCHANGED oFilled
    BY <1>3 DEF RefreshFound, RecoverUnknown, CancelReturns, MergeRefused,
       engineVars
  <2>4. ASSUME Record(o, bStatus[o], bFilled[o]) PROVE Booked(o)
    BY <2>1, <2>2, <2>4 DEF Record
  <2> QED
    BY <1>1, <2>1, <2>2, <2>3, <2>4
<1>4. ASSUME NEW o \in Orders, RefreshMissing(o) PROVE Booked(o) \/ Same
  <2>1. oFilled[o] \in oFilled[o] .. executed[o]
    BY <1>0 DEF TypeOK
  <2> QED
    BY <1>1, <1>4, <2>1 DEF RefreshMissing, brokerVars
<1>5. ASSUME NEW o \in Orders, Rehydrate(o) PROVE Booked(o) \/ Same
  <2>1. /\ bFilled[o] \in oFilled[o] .. executed[o]
        /\ oFilled[o] \in oFilled[o] .. executed[o]
    BY <1>0 DEF TypeOK
  <2>2. UNCHANGED <<placed, executed>>
    BY <1>5 DEF Rehydrate, brokerVars
  <2>3. \/ oFilled' = [oFilled EXCEPT ![o] = bFilled[o]]
        \/ oFilled' = [oFilled EXCEPT ![o] = oFilled[o]]
        \/ oFilled' = oFilled
    BY <1>5 DEF Rehydrate, Record, engineVars
  <2> QED
    BY <2>1, <2>2, <2>3
<1>6. ASSUME NEW o \in Orders,
             \/ SubmitBegin(o) \/ SubmitAuditRaises(o)
             \/ SubmitAnswerRejected(o) \/ CancelBegin(o) \/ CancelRaises(o)
             \/ BrokerMoves(o)
      PROVE  Same
  BY <1>6 DEF SubmitBegin, SubmitAuditRaises, SubmitAnswerRejected, CancelBegin,
     CancelRaises, BrokerMoves, BrokerUnchanged, engineVars, brokerVars
<1>7. ASSUME NEW o \in Orders, BrokerAccepts(o)
      PROVE  /\ placed[o] = 0 /\ placed' = [placed EXCEPT ![o] = 1]
             /\ UNCHANGED <<oFilled, executed>>
  <2>1. placed[o] = 0 /\ bStatus[o] = None
    <3>1. wire[o] \in Nat /\ placed[o] \in Nat /\ wire[o] > 0
      BY <1>0, <1>7 DEF TypeOK, BrokerAccepts
    <3>2. placed[o] + wire[o] <= 1
      BY DEF ReliableInv, WireShape
    <3>3. placed[o] = 0
      BY <3>1, <3>2
    <3> QED
      BY <1>0, <3>3 DEF BookShape
  <2> QED
    BY <1>7, <2>1 DEF BrokerAccepts, BrokerUnchanged, engineVars
<1>8. ASSUME NEW o \in Orders, BrokerFills(o)
      PROVE  /\ placed[o] = 1
             /\ \E q \in 0 .. Qty : /\ q > executed[o]
                                    /\ executed' = [executed EXCEPT ![o] = q]
             /\ UNCHANGED <<oFilled, placed>>
  <2>1. placed[o] = 1
    BY <1>8 DEF BrokerFills, ReliableInv, WireShape, BookShape, TypeOK, None,
       BrokerStatus
  <2>2. PICK n \in 1 .. Qty - bFilled[o] :
          executed' = [executed EXCEPT ![o] = @ + n]
    BY <1>8 DEF BrokerFills
  <2>3. executed[o] + n \in 0 .. Qty /\ executed[o] + n > executed[o]
    BY <1>0, <2>2 DEF TypeOK
  <2> QED
    BY <1>8, <2>1, <2>2, <2>3 DEF BrokerFills, BrokerUnchanged, engineVars
<1>9. ASSUME Crash
      PROVE  /\ oFilled' = [o \in Orders |-> 0] /\ up' = FALSE
             /\ UNCHANGED <<placed, executed>>
  BY <1>9 DEF Crash, brokerVars
<1>10. ASSUME Restart \/ AuditFails \/ AuditRepaired \/ UNCHANGED vars PROVE Same
  BY <1>10 DEF Restart, AuditFails, AuditRepaired, vars, engineVars, brokerVars
<1> QED
  BY <1>2, <1>3, <1>4, <1>5, <1>6, <1>7, <1>8, <1>9, <1>10
     DEF Next, EngineStep, BrokerStep, ProcessStep

\* The engine, its broker and its crashes implement the abstract approved
\* order: dispatched once, traded within the approval, booked from trades.
THEOREM EngineImplementsPromise ==
  ASSUME Reliable
  PROVE  Spec => ImplementsPromise
<1>1. Init => Promise!Init
  BY DEF Init, Promise!Init
<1>2. ReliableInv /\ [Next]_vars => [Promise!Next]_(Promise!vars)
  <2> SUFFICES ASSUME ReliableInv, [Next]_vars
               PROVE  [Promise!Next]_(Promise!vars)
    OBVIOUS
  <2> QED
    BY StepEffect DEF Promise!Next, Promise!vars, Promise!Forget,
       Promise!Dispatch, Promise!Trade, Promise!Book
<1> QED
  BY <1>1, <1>2, ReliableAlways, PTL DEF Spec, ImplementsPromise, Promise!Spec

\* While the process lives the quantity booked for an order never falls.
THEOREM FillsKept ==
  ASSUME Reliable
  PROVE  Spec => FillsNeverForgotten
<1>1. ReliableInv /\ [Next]_vars
        => [up' => \A o \in Orders : oFilled'[o] >= oFilled[o]]_vars
  <2> SUFFICES ASSUME ReliableInv, [Next]_vars, up', NEW o \in Orders
               PROVE  oFilled'[o] >= oFilled[o]
    BY DEF vars
  <2>1. oFilled \in [Orders -> Nat] /\ executed \in [Orders -> Nat]
    BY EngineAssumption DEF ReliableInv, TypeOK
  <2>2. \/ \E p \in Orders : \E q \in oFilled[p] .. executed[p] :
              oFilled' = [oFilled EXCEPT ![p] = q]
        \/ oFilled' = oFilled
    BY StepEffect
  <2> QED
    BY <2>1, <2>2
<1> QED
  BY <1>1, ReliableAlways, PTL DEF Spec, FillsNeverForgotten

-----------------------------------------------------------------------------
(* The state and the record of an order                                    *)

\* What a call may leave of one order: its state and its record the same, its
\* state CANCEL_PENDING beside an older record, or no record.
Written(o) ==
  /\ \/ states'[o] = oStatus'[o]
     \/ states'[o] = "CANCEL_PENDING" /\ oStatus'[o] = oStatus[o]
     \/ oStatus'[o] = None
  /\ \A p \in Orders \ {o} : states'[p] = states[p] /\ oStatus'[p] = oStatus[p]

Undisturbed == UNCHANGED <<states, oStatus>>

LEMMA MergeWrites ==
  ASSUME TypeOK, auditOk, NEW o \in Orders, NEW s, NEW q, Merge(o, s, q)
  PROVE  Written(o)
BY DEF TypeOK, Merge, Journalled, AuditRaises, Record, Written

\* Every step writes one order in one of these ways, forgets all of them, or
\* leaves states and records alone.
LEMMA EachStepWrites ==
  ASSUME TypeOK, auditOk, [Next]_vars
  PROVE  \/ \E o \in Orders : Written(o)
         \/ Undisturbed
         \/ \A o \in Orders : oStatus'[o] = None
<1>1. ASSUME NEW o \in Orders, SubmitBegin(o) PROVE Written(o)
  BY <1>1 DEF SubmitBegin, Written, TypeOK
<1>2. ASSUME NEW o \in Orders, CancelBegin(o) PROVE Written(o)
  BY <1>2 DEF CancelBegin, Journalled, AuditRaises, Written, TypeOK
<1>3. ASSUME NEW o \in Orders, SubmitReturns(o) \/ SubmitRaises(o)
      PROVE  Written(o) \/ Undisturbed
  BY <1>3, MergeWrites DEF SubmitReturns, SubmitRaises, MergeRefused, engineVars, Undisturbed
<1>4. ASSUME NEW o \in Orders, RefreshFound(o) PROVE Written(o)
  <2>1. CASE states[o] = None
    BY <1>4, <2>1 DEF RefreshFound, Record, Written, TypeOK
  <2>2. CASE states[o] # None
    BY <1>4, <2>2, MergeWrites DEF RefreshFound
  <2> QED
    BY <2>1, <2>2
<1>5. ASSUME NEW o \in Orders, RefreshMissing(o) \/ RecoverUnknown(o) \/ CancelReturns(o)
      PROVE  Written(o) \/ Undisturbed
  BY <1>5, MergeWrites
  DEF RefreshMissing, RecoverUnknown, CancelReturns, MergeRefused, engineVars, Undisturbed
<1>6. ASSUME NEW o \in Orders, Rehydrate(o) PROVE Written(o) \/ Undisturbed
  BY <1>6 DEF Rehydrate, Record, engineVars, Written, Undisturbed, TypeOK
<1>7. ASSUME NEW o \in Orders,
             \/ SubmitAuditRaises(o) \/ SubmitAnswerRejected(o) \/ CancelRaises(o)
             \/ BrokerStep(o)
      PROVE  Undisturbed
  BY <1>7 DEF SubmitAuditRaises, AuditRaises, SubmitAnswerRejected, CancelRaises, BrokerStep,
     BrokerAccepts, BrokerFills, BrokerMoves, BrokerUnchanged, engineVars, Undisturbed
<1>8. ASSUME Crash PROVE \A o \in Orders : oStatus'[o] = None
  BY <1>8 DEF Crash
<1>9. ASSUME Restart \/ AuditFails \/ AuditRepaired \/ UNCHANGED vars PROVE Undisturbed
  BY <1>9 DEF Restart, AuditFails, AuditRepaired, vars, engineVars, Undisturbed
<1> QED
  BY <1>1, <1>2, <1>3, <1>4, <1>5, <1>6, <1>7, <1>8, <1>9 DEF Next, EngineStep, ProcessStep

\* While the audit file works, whatever the broker answers, loses or delivers
\* late and wherever the process dies: the state and the record of an order
\* differ only when a cancel was begun and has not been answered.
THEOREM ApartAlwaysByCancel ==
  ASSUME ~AuditMayFail
  PROVE  Spec => []ApartOnlyByCancel
<1> DEFINE Inv == TypeOK /\ auditOk /\ ApartOnlyByCancel
<1>1. Init => Inv
  BY TypeInit DEF Init, ApartOnlyByCancel
<1>2. Inv /\ [Next]_vars => Inv'
  <2> SUFFICES ASSUME Inv, [Next]_vars PROVE Inv'
    OBVIOUS
  <2>1. TypeOK'
    BY TypeStep
  <2>2. auditOk'
    BY DEF Next, EngineStep, BrokerStep, ProcessStep, SubmitBegin, SubmitAuditRaises,
       SubmitReturns, SubmitRaises, SubmitAnswerRejected, RefreshFound, RefreshMissing,
       RecoverUnknown, Rehydrate, CancelBegin, CancelReturns, CancelRaises, BrokerAccepts,
       BrokerFills, BrokerMoves, BrokerUnchanged, Crash, Restart, AuditFails, AuditRepaired,
       vars, auditVars
  <2>3. ApartOnlyByCancel'
    <3>1. CASE \E o \in Orders : Written(o)
      BY <3>1 DEF ApartOnlyByCancel, Written
    <3>2. CASE Undisturbed
      BY <3>2 DEF ApartOnlyByCancel, Undisturbed
    <3>3. CASE \A o \in Orders : oStatus'[o] = None
      BY <3>3 DEF ApartOnlyByCancel
    <3> QED
      BY <3>1, <3>2, <3>3, EachStepWrites
  <2> QED
    BY <2>1, <2>2, <2>3
<1> QED
  BY <1>1, <1>2, PTL DEF Spec
=============================================================================
