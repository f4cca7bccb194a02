---------------------------- MODULE ApprovedOrder ----------------------------
(***************************************************************************)
(* What execution promises about a risk-approved quantity, with nothing of *)
(* how: an order is dispatched to the market once, trades up to the        *)
(* approved quantity and no further, and what the system books for it is a *)
(* part of what has traded.  A process that dies may forget what it booked *)
(* but nothing it books again is invented.                                 *)
(***************************************************************************)
EXTENDS Naturals

CONSTANTS Orders, Qty

VARIABLES
  dispatched,  \* market orders that exist for an approval
  traded,      \* quantity traded under it
  booked       \* quantity the system has on its books

vars == <<dispatched, traded, booked>>

Init ==
  /\ dispatched = [o \in Orders |-> 0]
  /\ traded = [o \in Orders |-> 0]
  /\ booked = [o \in Orders |-> 0]

Dispatch(o) ==
  /\ dispatched[o] = 0
  /\ dispatched' = [dispatched EXCEPT ![o] = 1]
  /\ UNCHANGED <<traded, booked>>

Trade(o) ==
  /\ dispatched[o] = 1
  /\ \E q \in 0 .. Qty :
       /\ q > traded[o]
       /\ traded' = [traded EXCEPT ![o] = q]
  /\ UNCHANGED <<dispatched, booked>>

Book(o) ==
  /\ \E q \in booked[o] .. traded[o] : booked' = [booked EXCEPT ![o] = q]
  /\ UNCHANGED <<dispatched, traded>>

Forget ==
  /\ booked' = [o \in Orders |-> 0]
  /\ UNCHANGED <<dispatched, traded>>

Next == Forget \/ \E o \in Orders : Dispatch(o) \/ Trade(o) \/ Book(o)

Spec == Init /\ [][Next]_vars
=============================================================================
