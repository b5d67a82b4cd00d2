----------------------------- MODULE OrderRules -----------------------------
(***************************************************************************)
(* The rules an order obeys whoever changes it: its statuses, the table of *)
(* transitions, the columns of its row that decide anything, and the gates *)
(* update_order_status tries before it writes a new status.                *)
(*                                                                         *)
(* app/models/order.py and app/services/order_service.py.                  *)
(***************************************************************************)
EXTENDS Naturals

CONSTANTS
  Bakers, Riders,   \* users.id of the staff an order can be given to
  Txns,             \* PayU transaction ids the service can mint
  MaxShots,         \* bound: photographs of the finished cake per order
  None              \* NULL

OrderStatus ==
  {"RECEIVED", "CONFIRMED", "ASSIGNED", "IN_PRODUCTION", "QC",
   "AWAITING_APPROVAL", "PACKAGED", "OUT_FOR_DELIVERY", "READY_FOR_PICKUP",
   "DELIVERED", "COLLECTED", "NOT_COLLECTED", "DELIVERY_FAILED", "CANCELLED"}

PaymentStatus == {"PENDING", "PAID", "COD_PENDING", "FAILED", "REFUNDED"}

(* The table, as a relation.  QC is an enum member no transition reaches. *)
VALID_TRANSITIONS ==
  UNION { {"RECEIVED"}          \X {"CONFIRMED", "CANCELLED"},
          {"CONFIRMED"}         \X {"ASSIGNED", "CANCELLED"},
          {"ASSIGNED"}          \X {"IN_PRODUCTION", "CANCELLED"},
          {"IN_PRODUCTION"}     \X {"AWAITING_APPROVAL", "CANCELLED"},
          {"AWAITING_APPROVAL"} \X {"PACKAGED", "IN_PRODUCTION", "CANCELLED"},
          {"PACKAGED"}          \X {"OUT_FOR_DELIVERY", "READY_FOR_PICKUP"},
          {"OUT_FOR_DELIVERY"}  \X {"DELIVERED", "DELIVERY_FAILED"},
          {"DELIVERY_FAILED"}   \X {"OUT_FOR_DELIVERY", "CANCELLED"},
          {"READY_FOR_PICKUP"}  \X {"COLLECTED", "NOT_COLLECTED", "CANCELLED"},
          {"NOT_COLLECTED"}     \X {"READY_FOR_PICKUP", "COLLECTED", "CANCELLED"} }

Closed == {"DELIVERED", "COLLECTED", "CANCELLED"}

(***************************************************************************)
(* The row.  `cod' is payment_method = "COD", which only orders placed     *)
(* before cash on delivery was withdrawn still carry.  A photograph is its *)
(* number, 0 for none: save_image gives every upload a name of its own.    *)
(* `verified' is proof_verified_at being set.                              *)
(***************************************************************************)
Row ==
  [status   : OrderStatus,
   payment  : PaymentStatus,
   cod      : BOOLEAN,
   pickup   : BOOLEAN,
   txn      : Txns \cup {None},
   proof    : 0 .. MaxShots,
   verified : BOOLEAN,
   handover : BOOLEAN,
   baker    : Bakers \cup {None},
   rider    : Riders \cup {None}]

ASSUME ShotsAssumption == MaxShots \in Nat
ASSUME NoneAssumption  == None \notin Bakers \cup Riders \cup Txns \cup Row

(* create_order: the row before the customer has seen the payment page. *)
NewRow(pickup) ==
  [status |-> "RECEIVED", payment |-> "PENDING", cod |-> FALSE,
   pickup |-> pickup, txn |-> None, proof |-> 0, verified |-> FALSE,
   handover |-> FALSE, baker |-> None, rider |-> None]

(* What create_order left behind for a cash order, while there were any. *)
LegacyRow(pickup) ==
  [NewRow(pickup) EXCEPT !.status = "CONFIRMED", !.payment = "COD_PENDING",
                         !.cod = TRUE]

is_payable(r) == r.cod \/ r.payment = "PAID"

(***************************************************************************)
(* The gates of update_order_status, on the row the session holds: paid    *)
(* for, in the table, the right branch of the fork, photographed, checked, *)
(* photographed at the door, and given to a rider.                         *)
(***************************************************************************)

(* For comparison: a gate left out. *)
Ungated(r, new) == TRUE

PaymentGate(r, new)  == new \in {"ASSIGNED", "IN_PRODUCTION"} => is_payable(r)
TableGate(r, new)    == <<r.status, new>> \in VALID_TRANSITIONS
ForkGate(r, new)     == /\ new = "OUT_FOR_DELIVERY" => ~r.pickup
                        /\ new = "READY_FOR_PICKUP" => r.pickup
ProofGate(r, new)    == new = "AWAITING_APPROVAL" => r.proof # 0
CheckGate(r, new)    == new = "PACKAGED" => r.verified
HandoverGate(r, new) == new = "DELIVERED" => r.handover
RiderGate(r, new)    == new = "OUT_FOR_DELIVERY" => r.rider # None

MayBecome(r, new) ==
  /\ PaymentGate(r, new) /\ TableGate(r, new) /\ ForkGate(r, new)
  /\ ProofGate(r, new) /\ CheckGate(r, new)
  /\ HandoverGate(r, new) /\ RiderGate(r, new)
=============================================================================
