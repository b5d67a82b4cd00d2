-------------------------- MODULE MCOrderLifecycle --------------------------
(* One order and small sets for TLC. *)
EXTENDS OrderLifecycle, TLC

CONSTANTS o1, w1, w2, t1, t2, b1, b2, r1, r2

TheOrder    == {o1}
ForTheOrder == [t \in Txns |-> o1]
OneWorker   == {w1}
TwoWorkers  == {w1, w2}
Swap        == Permutations(TwoWorkers)

(* A shop that takes its payments through PayU does not simulate them.     *)
ShopRequests == AllRequests \ {"DemoPay"}

(* For two handlers at once: one way to ask for each step, and whatever    *)
(* can be asked for at any time. *)
RacingRequests ==
  {"DemoPay", "CancelOwn", "StartBaking", "UploadProof", "BakingDone",
   "AdminApprove", "AdminReject", "RejectProof", "AssignRider", "RiderPickup",
   "Handover", "RiderDelivered", "DeliveryFailed", "RetryDelivery",
   "StaffReady", "StaffCollected"}
RacingPatches == {"CONFIRMED", "PACKAGED", "READY_FOR_PICKUP", "CANCELLED"}

(* Around payment. *)
PayingRequests == {"Checkout", "CancelOwn", "AutoBaker", "StartBaking"}
PayingPatches  == {"CONFIRMED"}

(* Nothing but update_order_status writes a status. *)
TransitionRequests == RacingRequests \ {"DemoPay"}
TransitionPatches  == {"CONFIRMED", "ASSIGNED", "PACKAGED", "CANCELLED"}
=============================================================================
