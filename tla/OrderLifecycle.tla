--------------------------- MODULE OrderLifecycle ---------------------------
(***************************************************************************)
(* The order states of execution/engine.py and the transition table its    *)
(* OrderStateMachine enforces.  A status is the value of the Python Enum.  *)
(***************************************************************************)
EXTENDS Naturals

Status == {"CREATED", "VALIDATED", "REJECTED_LOCAL", "SUBMITTING", "SUBMITTED",
           "ACKNOWLEDGED", "OPEN", "PARTIALLY_FILLED", "FILLED",
           "CANCEL_PENDING", "CANCELLED", "REJECTED_BROKER", "EXPIRED",
           "FAILED", "UNKNOWN"}

\* A map that has no entry for an order yields None, as dict.get does.
None == "None"

\* OrderStateMachine._ALLOWED.  REJECTED_LOCAL has no entry in the table, and
\* .get(current, set()) makes that the empty set.
Allowed ==
  [s \in Status |->
     CASE s = "CREATED"      -> {"VALIDATED", "REJECTED_LOCAL"}
       [] s = "VALIDATED"    -> {"SUBMITTING", "REJECTED_LOCAL"}
       [] s = "SUBMITTING"   -> {"SUBMITTED", "PARTIALLY_FILLED", "FILLED",
                                 "REJECTED_BROKER", "FAILED", "UNKNOWN"}
       [] s = "SUBMITTED"    -> {"ACKNOWLEDGED", "OPEN", "PARTIALLY_FILLED",
                                 "FILLED", "REJECTED_BROKER", "UNKNOWN"}
       [] s = "ACKNOWLEDGED" -> {"OPEN", "PARTIALLY_FILLED", "FILLED",
                                 "REJECTED_BROKER", "UNKNOWN"}
       [] s = "OPEN"         -> {"PARTIALLY_FILLED", "FILLED", "CANCEL_PENDING",
                                 "CANCELLED", "EXPIRED", "UNKNOWN"}
       [] s = "PARTIALLY_FILLED" -> {"PARTIALLY_FILLED", "FILLED",
                                     "CANCEL_PENDING", "CANCELLED", "UNKNOWN"}
       [] s = "CANCEL_PENDING" -> {"CANCELLED", "FILLED", "UNKNOWN"}
       [] s = "CANCELLED"    -> {"FILLED", "UNKNOWN"}
       [] s \in {"FILLED", "EXPIRED", "REJECTED_BROKER", "FAILED"} -> {"UNKNOWN"}
       [] s = "UNKNOWN"      -> {"SUBMITTED", "ACKNOWLEDGED", "OPEN",
                                 "PARTIALLY_FILLED", "FILLED", "CANCEL_PENDING",
                                 "CANCELLED", "REJECTED_BROKER", "FAILED"}
       [] OTHER -> {}]

\* Mutant: the table has no edge from CANCELLED to FILLED.
NoLateFill(current, target) ==
  \/ current \in {None, target}
  \/ current # None /\ target \in Allowed[current]
     /\ <<current, target>> # <<"CANCELLED", "FILLED">>

\* ExecutionEngine._transition does not raise: a first transition is free, a
\* repeated state returns at once, every other one is looked up in the table.
MayBecome(current, target) ==
  \/ current \in {None, target}
  \/ current # None /\ target \in Allowed[current]

\* The statuses an adapter reports (adapters/upstox.py _status).
BrokerStatus == {"SUBMITTED", "OPEN", "PARTIALLY_FILLED", "FILLED",
                 "CANCEL_PENDING", "CANCELLED", "REJECTED_BROKER", "EXPIRED"}

\* Broker states in which an order can still trade.
Working == {"SUBMITTED", "OPEN", "PARTIALLY_FILLED", "CANCEL_PENDING"}
=============================================================================
