--------------------------- MODULE OrderLifecycle ---------------------------
(***************************************************************************)
(* Orders, and the request handlers that read and write them.              *)
(*                                                                         *)
(* The API runs its handlers on a pool of threads, each with a database    *)
(* session of its own.  A handler loads an order into its session, decides *)
(* on that copy, and commits; its UPDATE carries the columns whose value   *)
(* differs from the copy and no others, and a commit expires the copy, so  *)
(* the next access loads the row again.  A step here is one load, or one   *)
(* decision with its commit.                                               *)
(*                                                                         *)
(* update_order_status locks the row, but a locking query returns the copy *)
(* the session already holds.  Only PATCH /orders/{id}/status, which has   *)
(* read nothing before, decides on what the lock protects.                 *)
(***************************************************************************)
EXTENDS OrderRules

CONSTANTS
  Orders, Workers,
  LegacyOrders,     \* those that may date from cash on delivery
  OrderOf,          \* the order a transaction id names: "CO{order.id}-..."
  Requests,         \* the requests that arrive, of AllRequests
  Patches,          \* the statuses an admin asks for by PATCH
  AdminPayments,    \* the payment statuses an admin sets
  MayCrash          \* whether the process may stop between two steps

VARIABLES
  row,      \* the orders table
  job,      \* per worker: what it has still to do, and the copy it holds
  payu,     \* per transaction id: what PayU knows of it (external)
  past      \* history of an order, read by the properties alone

vars == <<row, job, payu, past>>

AllRequests ==
  {"RiderPickup", "RiderDelivered", "DeliveryFailed", "RetryDelivery",
   "StartBaking", "BakingDone", "CancelOwn", "AdminCancel", "AdminReject",
   "AdminApprove", "StaffReady", "StaffCollected", "StaffNotCollected",
   "AutoBaker", "ProcessQueue", "AutoRider", "AssignBaker", "TransferBaker",
   "AssignRider", "UploadProof", "VerifyProof", "RejectProof", "Handover",
   "Checkout", "DemoPay"}

ASSUME OrdersAssumption == /\ LegacyOrders \subseteq Orders
                           /\ None \notin Orders
                           /\ OrderOf \in [Txns -> Orders]
ASSUME TrafficAssumption == /\ Requests \subseteq AllRequests
                            /\ Patches \subseteq OrderStatus
                            /\ AdminPayments \subseteq PaymentStatus
                            /\ MayCrash \in BOOLEAN

(***************************************************************************)
(* What a worker has to do next: a status still to be written, or one of   *)
(* the other writes.  APPROVE and PACK are the two halves of the admin's   *)
(* APPROVE reply, which records the check and then packs.                  *)
(***************************************************************************)
Tasks ==
  OrderStatus \cup
  {"IDLE", "APPROVE", "PACK", "AUTO_BAKER", "APPLY_BAKER", "AUTO_RIDER",
   "ASSIGN_BAKER", "TRANSFER_BAKER", "ASSIGN_RIDER", "UPLOAD", "VERIFY",
   "REJECT", "HANDOVER", "CHECKOUT", "DEMO_PAY", "RELEASE"}

Job == [task : Tasks, order : Orders \cup {None}, copy : Row \cup {None}]

Idle == [task |-> "IDLE", order |-> None, copy |-> None]

(* The next piece of a handler; its copy has expired and is loaded anew. *)
Then(task, o) == [task |-> task, order |-> o, copy |-> None]

PayuState == {"unused", "open", "paid", "failed", "refused"}

Past == [cash     : BOOLEAN,               \* it was placed for cash on delivery
         paid     : BOOLEAN,               \* it has been payable
         settled  : BOOLEAN,               \* a payment was taken for it
         checked  : SUBSET (1 .. MaxShots),  \* photographs somebody approved
         rejected : SUBSET (1 .. MaxShots),  \* photographs somebody sent back
         shots    : 0 .. MaxShots]         \* photographs uploaded

TypeOK == /\ row  \in [Orders -> Row]
          /\ job  \in [Workers -> Job]
          /\ payu \in [Txns -> PayuState]
          /\ past \in [Orders -> Past]

Init ==
  /\ \E legacy \in SUBSET LegacyOrders, pickup \in [Orders -> BOOLEAN] :
       /\ row  = [o \in Orders |-> IF o \in legacy THEN LegacyRow(pickup[o])
                                                  ELSE NewRow(pickup[o])]
       /\ past = [o \in Orders |->
                    [cash |-> o \in legacy, paid |-> o \in legacy, settled |-> FALSE,
                     checked |-> {}, rejected |-> {}, shots |-> 0]]
  /\ job  = [w \in Workers |-> Idle]
  /\ payu = [t \in Txns |-> "unused"]
-----------------------------------------------------------------------------
(* A request arrives, loads the order and applies the route's own checks.  *)

(* What the route goes on to do, once its checks pass. *)
Goal ==
  [RiderPickup |-> "OUT_FOR_DELIVERY", RiderDelivered |-> "DELIVERED",
   DeliveryFailed |-> "DELIVERY_FAILED", RetryDelivery |-> "OUT_FOR_DELIVERY",
   StartBaking |-> "IN_PRODUCTION", BakingDone |-> "AWAITING_APPROVAL",
   CancelOwn |-> "CANCELLED", AdminCancel |-> "CANCELLED",
   AdminReject |-> "IN_PRODUCTION", AdminApprove |-> "APPROVE",
   StaffReady |-> "READY_FOR_PICKUP", StaffCollected |-> "COLLECTED",
   StaffNotCollected |-> "NOT_COLLECTED", AutoBaker |-> "AUTO_BAKER",
   ProcessQueue |-> "AUTO_BAKER",
   AutoRider |-> "AUTO_RIDER", AssignBaker |-> "ASSIGN_BAKER",
   TransferBaker |-> "TRANSFER_BAKER", AssignRider |-> "ASSIGN_RIDER",
   UploadProof |-> "UPLOAD", VerifyProof |-> "VERIFY",
   RejectProof |-> "REJECT", Handover |-> "HANDOVER",
   Checkout |-> "CHECKOUT", DemoPay |-> "DEMO_PAY"]

RiderMay(request, r) ==
  \/ request = "RiderPickup" /\ r.status = "PACKAGED"
  \/ request \in {"RiderDelivered", "DeliveryFailed"} /\ r.status = "OUT_FOR_DELIVERY"
  \/ request = "RetryDelivery" /\ r.status = "DELIVERY_FAILED" /\ r.rider # None

BakerMay(request, r) ==
  \/ request = "StartBaking" /\ r.status = "ASSIGNED"
  \/ request = "BakingDone"  /\ r.status = "IN_PRODUCTION"

CustomerMay(request, r) ==
  /\ request = "CancelOwn"
  /\ r.payment # "PAID" /\ r.status \in {"RECEIVED", "CONFIRMED"}

AdminMay(request, r) ==
  \/ request = "AdminCancel" /\ <<r.status, "CANCELLED">> \in VALID_TRANSITIONS
  \/ request \in {"AdminReject", "AdminApprove"} /\ r.status = "AWAITING_APPROVAL"

CounterMay(request, r) ==
  /\ r.pickup
  /\ \/ request = "StaffReady" /\ r.status \in {"PACKAGED", "NOT_COLLECTED"}
     \/ request \in {"StaffCollected", "StaffNotCollected"}
        /\ r.status = "READY_FOR_PICKUP"

(* What the morning queue, and an admin who empties it, looks for. *)
Queued(r) == r.status = "CONFIRMED" /\ r.baker = None

StaffingMay(request, r) ==
  \/ request = "AssignBaker"
  \/ request = "AutoBaker"     /\ r.baker = None
  \/ request = "ProcessQueue"  /\ Queued(r)
  \/ request = "TransferBaker" /\ r.baker # None
  \/ request = "AutoRider"     /\ r.rider = None
  \/ request = "AssignRider"   /\ ~r.pickup

PhotoMay(request, r) ==
  \/ request \in {"UploadProof", "Handover"} /\ r.status \notin Closed
  \/ request = "VerifyProof" /\ r.proof # 0
  \/ request = "RejectProof"

PayMay(request, r) == request \in {"Checkout", "DemoPay"} /\ r.payment # "PAID"

Accepts(request, r) ==
  \/ RiderMay(request, r) \/ BakerMay(request, r) \/ CustomerMay(request, r)
  \/ AdminMay(request, r) \/ CounterMay(request, r) \/ StaffingMay(request, r)
  \/ PhotoMay(request, r) \/ PayMay(request, r)

(* For comparison: every checkout mints an id. *)
NeverReusable(copy) == FALSE

(* Reuse the id while its payment is outstanding, else mint another. *)
Reusable(copy) == copy.txn # None /\ copy.payment = "PENDING"

IssuedTxn(o, copy) ==
  IF Reusable(copy) THEN {copy.txn}
                    ELSE {t \in Txns : OrderOf[t] = o /\ payu[t] = "unused"}

Arrive(w, o, request) ==
  /\ job[w] = Idle
  /\ Accepts(request, row[o])
  /\ request = "Checkout" => IssuedTxn(o, row[o]) # {}   \* bound: Txns
  /\ job' = [job EXCEPT ![w] = [task |-> Goal[request], order |-> o, copy |-> row[o]]]
  /\ UNCHANGED <<row, payu, past>>

(***************************************************************************)
(* A later piece of a handler loads the row again, and may find that it    *)
(* has nothing left to do.  A paid order no longer at RECEIVED goes        *)
(* straight to the assignment engine; an assigned baker moves the order on *)
(* only from CONFIRMED.                                                    *)
(***************************************************************************)
Unreleased(task, r) ==   \* for comparison: a paid order stays at RECEIVED
  CASE task = "RELEASE"     -> "AUTO_BAKER"
    [] task = "APPLY_BAKER" -> "ASSIGNED"
    [] OTHER                -> task

Resumed(task, r) ==
  CASE task = "RELEASE" /\ r.status # "RECEIVED" -> "AUTO_BAKER"
    [] task = "APPLY_BAKER"                      -> "ASSIGNED"
    [] OTHER                                     -> task

StillNeeded(task, r) ==
  /\ task = "AUTO_BAKER"    => r.baker = None
  /\ task = "AUTO_RIDER"    => r.rider = None
  /\ task = "ASSIGNED"      => r.status = "CONFIRMED"
  /\ task = "IN_PRODUCTION" => r.status = "AWAITING_APPROVAL"

Reload(w) ==
  /\ job[w].task # "IDLE" /\ job[w].copy = None
  /\ LET r == row[job[w].order]
         t == Resumed(job[w].task, r)
     IN  job' = [job EXCEPT ![w] = IF StillNeeded(t, r)
                                   THEN [@ EXCEPT !.task = t, !.copy = r]
                                   ELSE Idle]
  /\ UNCHANGED <<row, payu, past>>

Holds(w, task) == job[w].task = task /\ job[w].copy # None
-----------------------------------------------------------------------------
(* Writing a status: update_order_status.                                  *)

Target(task) == IF task \in {"APPROVE", "PACK"} THEN "PACKAGED" ELSE task

(* What the handler still does once the new status is committed. *)
Continuation(task, o, r) ==
  CASE task = "CONFIRMED"                              -> Then("AUTO_BAKER", o)
    [] Target(task) = "PACKAGED" /\ ~r.pickup          -> Then("AUTO_RIDER", o)
    [] task \in {"APPROVE", "PACK"} /\ r.pickup        -> Then("READY_FOR_PICKUP", o)
    [] OTHER                                           -> Idle

Rework(r, new) == r.status = "AWAITING_APPROVAL" /\ new = "IN_PRODUCTION"

(* Worker w, holding r for order o, passes the gates and commits. *)
Transition(w, o, r, task) ==
  /\ MayBecome(r, Target(task))
  /\ row'  = [row EXCEPT ![o].status = Target(task)]
  /\ past' = [past EXCEPT ![o].rejected =
                 @ \cup {p \in {r.proof} \ {0} : Rework(r, Target(task))}]
  /\ job'  = [job EXCEPT ![w] = Continuation(task, o, r)]
  /\ UNCHANGED payu

PatchStatus(w, o, new) ==
  /\ job[w] = Idle
  /\ Transition(w, o, row[o], new)

(* APPROVE on a photograph nobody has approved records that first. *)
ChecksFirst(j) == j.task = "APPROVE" /\ j.copy.proof # 0 /\ ~j.copy.verified

Moving(w) == /\ job[w].copy # None
             /\ Target(job[w].task) \in OrderStatus
             /\ ~ChecksFirst(job[w])

Move(w) == Moving(w) /\ Transition(w, job[w].order, job[w].copy, job[w].task)

(* For comparison: a refused write is tried again. *)
RefuseAndRetry(w) ==
  /\ Moving(w)
  /\ ~MayBecome(job[w].copy, Target(job[w].task))
  /\ job' = [job EXCEPT ![w].copy = None]
  /\ UNCHANGED <<row, payu, past>>

Refuse(w) ==
  /\ Moving(w)
  /\ ~MayBecome(job[w].copy, Target(job[w].task))
  /\ job' = [job EXCEPT ![w] = Idle]
  /\ UNCHANGED <<row, payu, past>>
-----------------------------------------------------------------------------
(* Proof of work.                                                          *)

(* A column after an UPDATE: it is left out if the handler did not change  *)
(* the value in its copy, whatever the row holds by then.                  *)
Put(copied, new, now) == IF new = copied THEN now ELSE new

(* For comparison: the new photograph inherits the approval of the old.    *)
UploadUnchecked(w) ==
  LET o == job[w].order
      shot == past[o].shots + 1
  IN  /\ Holds(w, "UPLOAD")
      /\ shot <= MaxShots
      /\ row'  = [row EXCEPT ![o].proof = shot]
      /\ past' = [past EXCEPT ![o].shots = shot]
      /\ job'  = [job EXCEPT ![w] = Idle]
      /\ UNCHANGED payu

UploadProof(w) ==
  LET o == job[w].order
      shot == past[o].shots + 1
  IN  /\ Holds(w, "UPLOAD")
      /\ shot <= MaxShots
      /\ row'  = [row EXCEPT ![o].proof = shot,
                             ![o].verified = Put(job[w].copy.verified, FALSE, @)]
      /\ past' = [past EXCEPT ![o].shots = shot]
      /\ job'  = [job EXCEPT ![w] = Idle]
      /\ UNCHANGED payu

(* proof_verified_at is the time of the check: never the value in the copy. *)
Check(w, next) ==
  LET o == job[w].order
  IN  /\ row'  = [row EXCEPT ![o].verified = TRUE]
      /\ past' = [past EXCEPT ![o].checked = @ \cup {job[w].copy.proof}]
      /\ job'  = [job EXCEPT ![w] = next]
      /\ UNCHANGED payu

VerifyProof(w) == Holds(w, "VERIFY") /\ Check(w, Idle)

ApproveFirst(w) ==
  /\ Holds(w, "APPROVE") /\ ChecksFirst(job[w])
  /\ Check(w, Then("PACK", job[w].order))

RejectProof(w) ==
  LET o == job[w].order
      copy == job[w].copy
  IN  /\ Holds(w, "REJECT")
      /\ row'  = [row EXCEPT ![o].proof = Put(copy.proof, 0, @),
                             ![o].verified = Put(copy.verified, FALSE, @)]
      /\ past' = [past EXCEPT ![o].rejected = @ \cup ({copy.proof} \ {0})]
      /\ job'  = [job EXCEPT ![w] = Then("IN_PRODUCTION", o)]
      /\ UNCHANGED payu

UploadHandover(w) ==
  /\ Holds(w, "HANDOVER")
  /\ row' = [row EXCEPT ![job[w].order].handover = TRUE]
  /\ job' = [job EXCEPT ![w] = Idle]
  /\ UNCHANGED <<payu, past>>

(* save_image refuses the file, before anything is written. *)
BadImage(w) ==
  /\ Holds(w, "UPLOAD") \/ Holds(w, "HANDOVER")
  /\ job' = [job EXCEPT ![w] = Idle]
  /\ UNCHANGED <<row, payu, past>>
-----------------------------------------------------------------------------
(* The assignment engine.  Who is on duty and least loaded is any of the   *)
(* staff, or nobody.                                                       *)

(* For comparison: the order's own id is written for the baker's. *)
SetWrongBaker(w, b, next) ==
  /\ row' = [row EXCEPT ![job[w].order].baker = job[w].order]
  /\ job' = [job EXCEPT ![w] = next]
  /\ UNCHANGED <<payu, past>>

SetBaker(w, b, next) ==
  /\ row' = [row EXCEPT ![job[w].order].baker = Put(job[w].copy.baker, b, @)]
  /\ job' = [job EXCEPT ![w] = next]
  /\ UNCHANGED <<payu, past>>

(* Both go on to move the order. *)
auto_assign_baker(w, b) ==
  Holds(w, "AUTO_BAKER") /\ SetBaker(w, b, Then("APPLY_BAKER", job[w].order))

admin_assign_baker(w, b) ==
  Holds(w, "ASSIGN_BAKER") /\ SetBaker(w, b, Then("APPLY_BAKER", job[w].order))

AssignBaker(w, b) == auto_assign_baker(w, b) \/ admin_assign_baker(w, b)

TransferBaker(w, b) == Holds(w, "TRANSFER_BAKER") /\ SetBaker(w, b, Idle)

(* auto_assign_rider, rider_self_accept and admin_assign_rider. *)
AssignRider(w, d) ==
  /\ Holds(w, "AUTO_RIDER") \/ Holds(w, "ASSIGN_RIDER")
  /\ row' = [row EXCEPT ![job[w].order].rider = Put(job[w].copy.rider, d, @)]
  /\ job' = [job EXCEPT ![w] = Idle]
  /\ UNCHANGED <<payu, past>>

NobodyAvailable(w) ==
  /\ Holds(w, "AUTO_BAKER") \/ Holds(w, "AUTO_RIDER")
  /\ job' = [job EXCEPT ![w] = Idle]
  /\ UNCHANGED <<row, payu, past>>
-----------------------------------------------------------------------------
(* Payment.                                                                *)

(* PayU takes a transaction id once: a second attempt under it is refused. *)
Presented(known) == CASE known = "unused" -> "open"
                      [] known = "failed" -> "refused"
                      [] OTHER            -> known

CreatePaymentOrder(w, t) ==
  LET o == job[w].order
  IN  /\ Holds(w, "CHECKOUT")
      /\ t \in IssuedTxn(o, job[w].copy)
      /\ row'  = [row EXCEPT ![o].cod = FALSE,
                             ![o].txn = Put(job[w].copy.txn, t, @)]
      /\ payu' = [payu EXCEPT ![t] = Presented(@)]
      /\ job'  = [job EXCEPT ![w] = Idle]
      /\ UNCHANGED past

(* A shop without PayU keys that allows it simulates the payment instead,  *)
(* under an id the callback never carries.                                 *)
DemoPay(w) ==
  LET o == job[w].order
  IN  /\ Holds(w, "DEMO_PAY")
      /\ row'  = [row EXCEPT ![o].cod = FALSE, ![o].payment = "PAID",
                             ![o].txn = None]
      /\ past' = [past EXCEPT ![o].paid = TRUE, ![o].settled = TRUE]
      /\ job'  = [job EXCEPT ![w] = Then("RELEASE", o)]
      /\ UNCHANGED payu

(* At PayU: the customer pays, or the attempt fails and is over. *)
CustomerPays(t) ==
  /\ payu[t] = "open"
  /\ payu' = [payu EXCEPT ![t] = "paid"]
  /\ UNCHANGED <<row, job, past>>

AttemptFails(t) ==
  /\ payu[t] = "open"
  /\ payu' = [payu EXCEPT ![t] = "failed"]
  /\ UNCHANGED <<row, job, past>>

(* The callback of a payment taken, as often as PayU cares to repeat it.   *)
(* Its row is locked and was not read before.  One that reports a failure, *)
(* carries another transaction id or finds the order PAID changes nothing. *)
PayuCallback(w, t) ==
  LET o == OrderOf[t]
  IN  /\ job[w] = Idle
      /\ payu[t] = "paid"
      /\ row[o].payment # "PAID"
      /\ row[o].txn = t
      /\ row'  = [row EXCEPT ![o].payment = "PAID"]
      /\ past' = [past EXCEPT ![o].paid = TRUE, ![o].settled = TRUE]
      /\ job'  = [job EXCEPT ![w] = Then("RELEASE", o)]
      /\ UNCHANGED payu

(* _release_for_production, which locks nothing. *)
ReleaseForProduction(w) ==
  LET o == job[w].order
  IN  /\ Holds(w, "RELEASE")
      /\ row' = [row EXCEPT ![o].status = "CONFIRMED"]
      /\ job' = [job EXCEPT ![w] = Then("AUTO_BAKER", o)]
      /\ UNCHANGED <<payu, past>>

UpdatePaymentStatus(w, o, new) ==
  /\ job[w] = Idle
  /\ row[o].payment # new
  /\ row'  = [row EXCEPT ![o].payment = new]
  /\ past' = [past EXCEPT ![o].paid = @ \/ is_payable(row'[o])]
  /\ UNCHANGED <<job, payu>>

(* The process dies: what a handler had still to do, nobody does. *)
Crash ==
  /\ MayCrash
  /\ \E w \in Workers : job[w] # Idle
  /\ job' = [w \in Workers |-> Idle]
  /\ UNCHANGED <<row, payu, past>>
-----------------------------------------------------------------------------
(* What a handler in progress can do next. *)
Continue(w) ==
  \/ Reload(w)
  \/ Move(w) \/ Refuse(w)
  \/ UploadProof(w) \/ VerifyProof(w) \/ ApproveFirst(w) \/ RejectProof(w)
  \/ UploadHandover(w) \/ BadImage(w)
  \/ \E b \in Bakers : AssignBaker(w, b) \/ TransferBaker(w, b)
  \/ \E d \in Riders : AssignRider(w, d)
  \/ NobodyAvailable(w)
  \/ \E t \in Txns : CreatePaymentOrder(w, t)
  \/ DemoPay(w)
  \/ ReleaseForProduction(w)

Start(w) ==
  \/ \E o \in Orders :
       \/ \E request \in Requests : Arrive(w, o, request)
       \/ \E new \in Patches : PatchStatus(w, o, new)
       \/ \E new \in AdminPayments : UpdatePaymentStatus(w, o, new)
  \/ \E t \in Txns : PayuCallback(w, t)

Next ==
  \/ \E w \in Workers : Start(w) \/ Continue(w)
  \/ \E t \in Txns : CustomerPays(t) \/ AttemptFails(t)
  \/ Crash

Spec == Init /\ [][Next]_vars

(* A thread that serves a request goes on until it has answered. *)
FairSpec == Spec /\ \A w \in Workers : WF_vars(Continue(w))
-----------------------------------------------------------------------------
(* Properties.                                                             *)

InKitchen == {"ASSIGNED", "IN_PRODUCTION", "AWAITING_APPROVAL"}
Dispatched == {"OUT_FOR_DELIVERY", "DELIVERED", "DELIVERY_FAILED"}
AtCounter == {"READY_FOR_PICKUP", "COLLECTED", "NOT_COLLECTED"}
Packed == {"PACKAGED"} \cup Dispatched \cup AtCounter

(* However many handlers interleave, no order is in the kitchen or beyond  *)
(* that was never paid for nor exempt: update_order_status, "an unpaid     *)
(* ONLINE order must not enter production by any route".                   *)
PaidBeforeKitchen ==
  \A o \in Orders : row[o].status \in InKitchen \cup Packed => past[o].paid

(* A self pickup is never with a rider, a delivery never on the counter.   *)
BranchesDoNotCross ==
  \A o \in Orders : /\ row[o].status \in Dispatched => ~row[o].pickup
                    /\ row[o].status \in AtCounter  => row[o].pickup

(* A cake is packed on the photograph that is on its order, and that one   *)
(* is one somebody approved: "cannot be packed until somebody has looked   *)
(* at that photo".  So for handlers that run one at a time.                *)
PackedWasChecked ==
  [][\A o \in Orders :
       row[o].status # "PACKAGED" /\ row'[o].status = "PACKAGED" =>
         row'[o].proof \in past'[o].checked]_vars

(* A delivery on the road has a rider, and one closed has its photograph.  *)
RoadHasRider ==
  \A o \in Orders :
    /\ row[o].status \in Dispatched => row[o].rider # None
    /\ row[o].status = "DELIVERED" => row[o].handover

(* A payment taken is never forgotten at RECEIVED: until the order leaves  *)
(* that status some handler is still to release it (payu_callback commits  *)
(* PAID and releases in two transactions).                                 *)
SettledIsInHand ==
  \A o \in Orders :
    past[o].settled /\ row[o].status = "RECEIVED" =>
      \E w \in Workers : job[w].task = "RELEASE" /\ job[w].order = o

(* The release does happen, and every request is answered.                 *)
SettledIsReleased ==
  \A o \in Orders :
    (past[o].settled /\ row[o].status = "RECEIVED") ~> row[o].status # "RECEIVED"

RequestsAreAnswered ==
  \A w \in Workers : job[w].task # "IDLE" ~> job[w].task = "IDLE"

(* Every change of status is one the table allows: the row lock is there   *)
(* so that two requests cannot both pass the transition check.             *)
StatusFollowsTable ==
  [][\A o \in Orders :
       row[o].status # row'[o].status =>
         <<row[o].status, row'[o].status>> \in VALID_TRANSITIONS]_vars

(* The photograph the approval stands for is the one on the order: "if the *)
(* photo changes, the thing Shriya approved is not the thing in the box".  *)
ApprovedIsInTheBox ==
  \A o \in Orders : row[o].verified => row[o].proof \in past[o].checked

(* No cake is packed on a photograph it was sent back to the kitchen with: *)
(* "leaving the old picture in place would let the cake through on a shot  *)
(* of the rejected one".                                                   *)
RejectedStaysOut ==
  \A o \in Orders :
    row[o].status \in Packed => row[o].proof \notin past[o].rejected

(* Money PayU took under an id this service minted settles the order: its  *)
(* callback is not turned away because another checkout replaced the id.   *)
(* Orders placed for cash are left out: they are COD_PENDING, for which    *)
(* checkout mints an id every time, and of them it does not hold.          *)
MoneyHonoured ==
  \A t \in Txns :
    payu[t] = "paid" /\ ~past[OrderOf[t]].cash => row[OrderOf[t]].txn = t

(* "A genuine retry needs a fresh one": after a failed attempt checkout    *)
(* never sends the customer to PayU under the id that failed.              *)
RetryGetsFreshTxn == \A t \in Txns : payu[t] # "refused"

(* "The admin queue will surface it": a paid order that no handler is      *)
(* working on and that waits at CONFIRMED has no baker, which is what the  *)
(* queue selects.                                                          *)
PaidWaitsInQueue ==
  \A o \in Orders :
    /\ row[o].status = "CONFIRMED" /\ is_payable(row[o])
    /\ \A w \in Workers : job[w].order # o
    => Queued(row[o])

(* The keys an order has earned. *)
KeysOf(r, h) ==
  {k \in {"paid", "checked", "carried", "photographed"} :
     \/ k = "paid"         /\ h.paid
     \/ k = "checked"      /\ h.checked # {}
     \/ k = "carried"      /\ r.rider # None
     \/ k = "photographed" /\ r.handover}

Gates == INSTANCE OrderGates
           WITH Statuses <- OrderStatus,
                status   <- [o \in Orders |-> row[o].status],
                keys     <- [o \in Orders |-> KeysOf(row[o], past[o])],
                pickup   <- [o \in Orders |-> row[o].pickup]

(* Handlers that interleave anyhow still keep the shop's promise: doors    *)
(* open with keys, and no handler takes a key back.                        *)
GatesKept == Gates!GatesSpec
=============================================================================
