----------------------------- MODULE OrderGates -----------------------------
(***************************************************************************)
(* What the shop promises of an order, whoever handles it and however many *)
(* handle it at once: the doors on its way to the customer open with keys, *)
(* and a key once earned is never taken back.                              *)
(*                                                                         *)
(* This says nothing of the order of the statuses.  That is promised only  *)
(* of handlers that run one at a time.                                     *)
(***************************************************************************)
CONSTANTS Orders, Statuses

VARIABLES status,   \* where each order is
          keys,     \* the keys each order has earned
          pickup    \* whether the customer collects it

(* Paid for, looked at, carried by somebody, photographed at the door. *)
Keys == {"paid", "checked", "carried", "photographed"}

(* The keys a status takes. *)
Needs(s) ==
  CASE s \in {"ASSIGNED", "IN_PRODUCTION", "AWAITING_APPROVAL"} -> {"paid"}
    [] s \in {"PACKAGED", "READY_FOR_PICKUP", "COLLECTED", "NOT_COLLECTED"}
                                               -> {"paid", "checked"}
    [] s \in {"OUT_FOR_DELIVERY", "DELIVERY_FAILED"}
                                               -> {"paid", "checked", "carried"}
    [] s = "DELIVERED"                         -> Keys
    [] OTHER                                   -> {}

(* The statuses a delivery, or a self pickup, has no business in. *)
Barred(collected) ==
  IF collected THEN {"OUT_FOR_DELIVERY", "DELIVERY_FAILED", "DELIVERED"}
               ELSE {"READY_FOR_PICKUP", "COLLECTED", "NOT_COLLECTED"}

Admitted == \A o \in Orders : /\ status[o] \in Statuses \ Barred(pickup[o])
                              /\ Needs(status[o]) \subseteq keys[o]

GatesInit == Admitted

GatesNext ==
  /\ \A o \in Orders : keys[o] \subseteq keys'[o]
  /\ pickup' = pickup
  /\ Admitted'

GatesSpec == GatesInit /\ [][GatesNext]_<<status, keys, pickup>>
=============================================================================
