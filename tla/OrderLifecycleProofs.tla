------------------------ MODULE OrderLifecycleProofs ------------------------
(***************************************************************************)
(* For any number of orders, handlers, staff, transaction ids and shots,   *)
(* and whatever requests arrive: the safety of OrderLifecycle.  First what *)
(* does not depend on handlers running one at a time, then what does.      *)
(*                                                                         *)
(* A handler decides on a copy that may be older than the row.  The        *)
(* argument is that every copy was once a row, so it is as sound as one;   *)
(* and what it is sound about is never lost: what the order's history      *)
(* records only grows, and a rider, a handover photograph and the way of   *)
(* fulfilment are never taken from the row.                                *)
(***************************************************************************)
EXTENDS OrderLifecycle, TLAPS

(* What a row, or a copy of one, says that its order's history confirms. *)
Sound(r, h) ==
  /\ is_payable(r) => h.paid
  /\ r.status \in InKitchen \cup Packed => h.paid
  /\ r.verified => h.checked # {}
  /\ r.status \in Packed => h.checked # {}
  /\ r.status \in Dispatched => ~r.pickup /\ r.rider # None
  /\ r.status \in AtCounter => r.pickup
  /\ r.status = "DELIVERED" => r.handover

(* What a row never loses after r. *)
Kept(r, later) ==
  /\ later.pickup = r.pickup
  /\ r.rider # None => later.rider # None
  /\ r.handover => later.handover

Grown(h, later) == /\ h.paid => later.paid
                   /\ h.checked \subseteq later.checked
                   /\ later.cash = h.cash

JobSound(j, rows, pasts) ==
  /\ j.task # "IDLE" => j.order \in Orders
  /\ j.task = "VERIFY" => j.copy # None /\ j.copy.proof # 0
  /\ j.task = "CHECKOUT" => j.copy # None /\ j.copy.payment # "PAID"
  /\ j.copy # None => /\ j.order \in Orders
                      /\ Sound(j.copy, pasts[j.order])
                      /\ Kept(j.copy, rows[j.order])

(* What a handler goes on with after a commit: neither of these two, which  *)
(* rely on the copy they arrived with.                                     *)
Later == Tasks \ {"VERIFY", "CHECKOUT"}

IInv == /\ TypeOK
        /\ \A o \in Orders : Sound(row[o], past[o])
        /\ \A w \in Workers : JobSound(job[w], row, past)

(* One worker's step: it writes one row, extends one history. *)
Advance(w, o, r, h, j) ==
  /\ row'  = [row EXCEPT ![o] = r]
  /\ past' = [past EXCEPT ![o] = h]
  /\ job'  = [job EXCEPT ![w] = j]
  /\ payu' \in [Txns -> PayuState]
  /\ Sound(r, h)
  /\ Kept(row[o], r)
  /\ Grown(past[o], h)
  /\ JobSound(j, row', past')

Step == \E w \in Workers, o \in Orders, r \in Row, h \in Past, j \in Job :
          Advance(w, o, r, h, j)

-----------------------------------------------------------------------------
(* What was kept, and what was sound, still is after another step. *)
LEMMA KeptTransitive ==
  ASSUME NEW a, NEW b, NEW c, Kept(a, b), Kept(b, c)
  PROVE  Kept(a, c)
BY DEF Kept

LEMMA SoundGrows ==
  ASSUME NEW r, NEW h, NEW later, Sound(r, h), Grown(h, later)
  PROVE  Sound(r, later)
BY DEF Sound, Grown

(* A step keeps the invariant. *)
LEMMA StepKeepsIInv ==
  ASSUME IInv, Step
  PROVE  IInv'
<1>1. PICK w \in Workers, o \in Orders, r \in Row, h \in Past, j \in Job :
        Advance(w, o, r, h, j)
  BY DEF Step
<1>2. TypeOK'
  BY <1>1 DEF IInv, TypeOK, Advance
<1>3. \A p \in Orders : Sound(row'[p], past'[p])
  BY <1>1 DEF IInv, TypeOK, Advance
<1>4. \A p \in Orders : Grown(past[p], past'[p])
  BY <1>1 DEF IInv, TypeOK, Advance, Grown
<1>5. \A p \in Orders : Kept(row[p], row'[p])
  BY <1>1 DEF IInv, TypeOK, Advance, Kept
<1>6. ASSUME NEW v \in Workers
      PROVE  JobSound(job'[v], row', past')
  <2>1. CASE v = w
    BY <1>1, <2>1 DEF IInv, TypeOK, Advance
  <2>2. CASE v # w
    <3>1. job'[v] = job[v]
      BY <1>1, <2>2 DEF IInv, TypeOK, Advance
    <3>2. JobSound(job[v], row, past)
      BY DEF IInv
    <3>3. ASSUME job[v].copy # None
          PROVE  /\ Sound(job[v].copy, past'[job[v].order])
                 /\ Kept(job[v].copy, row'[job[v].order])
      BY <1>4, <1>5, <3>2, <3>3, SoundGrows, KeptTransitive DEF JobSound
    <3>4. QED
      BY <3>1, <3>2, <3>3 DEF JobSound
  <2>3. QED
    BY <2>1, <2>2
<1>7. QED
  BY <1>2, <1>3, <1>6 DEF IInv
-----------------------------------------------------------------------------
(* Where the table lets a status be reached from. *)
LEMMA Predecessors ==
  ASSUME NEW s, NEW new, <<s, new>> \in VALID_TRANSITIONS
  PROVE  /\ new \in OrderStatus \ {"RECEIVED", "QC"}
         /\ new = "AWAITING_APPROVAL" => s = "IN_PRODUCTION"
         /\ new = "PACKAGED" => s = "AWAITING_APPROVAL"
         /\ new = "OUT_FOR_DELIVERY" => s \in {"PACKAGED", "DELIVERY_FAILED"}
         /\ new \in {"DELIVERED", "DELIVERY_FAILED"} => s = "OUT_FOR_DELIVERY"
         /\ new = "READY_FOR_PICKUP" => s \in {"PACKAGED", "NOT_COLLECTED"}
         /\ new \in {"COLLECTED", "NOT_COLLECTED"} => s \in AtCounter
BY DEF VALID_TRANSITIONS, OrderStatus, AtCounter

(* A status a copy may become is sound in the row, however old the copy. *)
LEMMA GatesAreSound ==
  ASSUME NEW copy \in Row, NEW r \in Row, NEW h \in Past, NEW new,
         Sound(copy, h), Sound(r, h), Kept(copy, r), MayBecome(copy, new)
  PROVE  /\ [r EXCEPT !.status = new] \in Row
         /\ Sound([r EXCEPT !.status = new], h)
<1> DEFINE n == [r EXCEPT !.status = new]
<1>1. /\ new \in OrderStatus
      /\ n.status = new /\ n.pickup = r.pickup /\ n.verified = r.verified
      /\ n.rider = r.rider /\ n.handover = r.handover
      /\ n.cod = r.cod /\ n.payment = r.payment
  BY Predecessors DEF MayBecome, TableGate, Row
<1>2. n \in Row
  BY <1>1 DEF Row
<1>3. is_payable(n) => h.paid
  BY <1>1 DEF is_payable, Sound
<1>4. n.verified => h.checked # {}
  BY <1>1 DEF Sound
<1>5. new \in InKitchen \cup Packed => h.paid
  BY Predecessors DEF MayBecome, PaymentGate, TableGate,
                      Sound, InKitchen, Packed, Dispatched, AtCounter
<1>6. new \in Packed => h.checked # {}
  BY Predecessors DEF MayBecome, TableGate, CheckGate,
                      Sound, Packed, Dispatched, AtCounter
<1>7. new \in Dispatched => ~r.pickup /\ r.rider # None
  BY Predecessors DEF MayBecome, TableGate, ForkGate, RiderGate,
                      Sound, Kept, Dispatched
<1>8. new \in AtCounter => r.pickup
  BY Predecessors DEF MayBecome, TableGate, ForkGate, Sound, Kept, AtCounter
<1>9. new = "DELIVERED" => r.handover
  BY DEF MayBecome, HandoverGate, Kept
<1>10. QED
  BY <1>1, <1>2, <1>3, <1>4, <1>5, <1>6, <1>7, <1>8, <1>9 DEF Sound
-----------------------------------------------------------------------------
(* Each action of a worker is a Step. *)
LEMMA FreshJobs ==
  /\ Idle \in Job
  /\ \A rows, pasts : JobSound(Idle, rows, pasts)
  /\ \A task \in Later, o \in Orders :
       /\ Then(task, o) \in Job
       /\ \A rows, pasts : JobSound(Then(task, o), rows, pasts)
BY DEF Idle, Then, Job, Later, Tasks, JobSound

LEMMA HeldCopy ==
  ASSUME IInv, NEW w \in Workers, job[w].copy # None
  PROVE  /\ job[w].order \in Orders
         /\ job[w].copy \in Row
         /\ row[job[w].order] \in Row
         /\ past[job[w].order] \in Past
         /\ Sound(job[w].copy, past[job[w].order])
         /\ Sound(row[job[w].order], past[job[w].order])
         /\ Kept(job[w].copy, row[job[w].order])
BY DEF IInv, TypeOK, JobSound, Job

(* What stays the same is kept, and has grown. *)
LEMMA Unmoved == \A x : Kept(x, x) /\ Grown(x, x)
BY DEF Kept, Grown

(* A step that only changes what the worker is doing. *)
LEMMA JobOnly ==
  ASSUME IInv, NEW w \in Workers, NEW o \in Orders, NEW j \in Job,
         job' = [job EXCEPT ![w] = j], UNCHANGED <<row, payu, past>>,
         JobSound(j, row, past)
  PROVE  Step
<1>1. /\ row' = [row EXCEPT ![o] = row[o]] /\ past' = [past EXCEPT ![o] = past[o]]
      /\ row[o] \in Row /\ past[o] \in Past /\ payu' \in [Txns -> PayuState]
      /\ Sound(row[o], past[o])
  BY DEF IInv, TypeOK
<1>2. Advance(w, o, row[o], past[o], j)
  BY <1>1, Unmoved DEF Advance
<1>3. QED
  BY <1>1, <1>2 DEF Step

LEMMA ArriveIsStep ==
  ASSUME IInv, NEW w \in Workers, NEW o \in Orders, NEW request \in AllRequests,
         Arrive(w, o, request)
  PROVE  Step
<1> DEFINE j == [task |-> Goal[request], order |-> o, copy |-> row[o]]
<1>1. Goal[request] \in Tasks
  BY DEF AllRequests, Goal, Tasks, OrderStatus
<1>2. j \in Job
  BY <1>1 DEF Job, IInv, TypeOK
<1>3. /\ Goal[request] = "VERIFY" => row[o].proof # 0
      /\ Goal[request] = "CHECKOUT" => row[o].payment # "PAID"
  BY DEF Arrive, Accepts, RiderMay, BakerMay, CustomerMay, AdminMay, CounterMay,
         StaffingMay, PhotoMay, PayMay, AllRequests, Goal
<1>4. row[o] # None
  BY NoneAssumption DEF IInv, TypeOK
<1>5. JobSound(j, row, past)
  BY <1>3, <1>4, Unmoved DEF JobSound, IInv
<1>6. QED
  BY <1>2, <1>5, JobOnly DEF Arrive

LEMMA ReloadIsStep ==
  ASSUME IInv, NEW w \in Workers, Reload(w)
  PROVE  Step
<1> DEFINE o == job[w].order
           t == Resumed(job[w].task, row[o])
           j == [job[w] EXCEPT !.task = t, !.copy = row[o]]
<1>1. o \in Orders /\ job[w] \in Job /\ row[o] \in Row
  BY DEF IInv, TypeOK, JobSound, Reload
<1>2. t \in Tasks /\ t # "VERIFY" /\ t # "CHECKOUT"
  BY <1>1 DEF Resumed, Tasks, Job, OrderStatus, IInv, JobSound, Reload
<1>3. j \in Job /\ j.task = t /\ j.order = o /\ j.copy = row[o]
  BY <1>1, <1>2 DEF Job
<1>4. JobSound(j, row, past)
  BY <1>1, <1>2, <1>3, Unmoved DEF JobSound, IInv
<1>5. CASE StillNeeded(t, row[o])
  BY <1>1, <1>3, <1>4, <1>5, JobOnly DEF Reload
<1>6. CASE ~StillNeeded(t, row[o])
  BY <1>1, <1>6, JobOnly, FreshJobs DEF Reload
<1>7. QED
  BY <1>5, <1>6

(* Writing a status, on any sound copy of the row. *)
LEMMA TransitionIsStep ==
  ASSUME IInv, NEW w \in Workers, NEW o \in Orders, NEW copy \in Row, NEW task \in Tasks,
         Sound(copy, past[o]), Kept(copy, row[o]), Transition(w, o, copy, task)
  PROVE  Step
<1> DEFINE new == Target(task)
           r == [row[o] EXCEPT !.status = new]
           back == {p \in {copy.proof} \ {0} : Rework(copy, new)}
           h == [past[o] EXCEPT !.rejected = @ \cup back]
           j == Continuation(task, o, copy)
<1>1. row[o] \in Row /\ past[o] \in Past /\ Sound(row[o], past[o])
  BY DEF IInv, TypeOK
<1>2. r \in Row /\ Sound(r, past[o])
  BY <1>1, GatesAreSound DEF Transition
<1>3. back \subseteq 1 .. MaxShots
  BY ShotsAssumption DEF Row
<1>4. h \in Past /\ h.cash = past[o].cash /\ h.paid = past[o].paid /\ h.checked = past[o].checked
  BY <1>1, <1>3 DEF Past
<1>5. Sound(r, h) /\ Grown(past[o], h)
  BY <1>2, <1>4 DEF Sound, Grown
<1>6. Kept(row[o], r)
  BY <1>1 DEF Kept, Row
<1>7. {"AUTO_BAKER", "AUTO_RIDER", "READY_FOR_PICKUP"} \subseteq Later
  BY DEF Later, Tasks, OrderStatus
<1>8. j \in {Idle, Then("AUTO_BAKER", o), Then("AUTO_RIDER", o),
             Then("READY_FOR_PICKUP", o)}
  BY DEF Continuation
<1>9. j \in Job /\ \A rows, pasts : JobSound(j, rows, pasts)
  BY <1>7, <1>8, FreshJobs
<1>10. Advance(w, o, r, h, j)
  BY <1>1, <1>5, <1>6, <1>9 DEF Advance, Transition, IInv, TypeOK
<1>11. QED
  BY <1>2, <1>4, <1>9, <1>10 DEF Step

(* Writing other columns, and then going on or ending. *)
LEMMA WriteIsStep ==
  ASSUME IInv, NEW w \in Workers, NEW o \in Orders, NEW r \in Row, NEW h \in Past, NEW j,
         row' = [row EXCEPT ![o] = r], past' = [past EXCEPT ![o] = h],
         job' = [job EXCEPT ![w] = j], payu' \in [Txns -> PayuState],
         j = Idle \/ \E task \in Later : j = Then(task, o),
         Sound(r, h), Kept(row[o], r), Grown(past[o], h)
  PROVE  Step
<1>1. j \in Job /\ \A rows, pasts : JobSound(j, rows, pasts)
  BY FreshJobs
<1>2. Advance(w, o, r, h, j)
  BY <1>1 DEF Advance
<1>3. QED
  BY <1>1, <1>2 DEF Step

(* An edit that leaves the status alone, takes nothing away that is kept,  *)
(* and earns what it adds. *)
LEMMA EditIsSound ==
  ASSUME NEW before \in Row, NEW r \in Row, NEW g, NEW h,
         Sound(before, g), Grown(g, h),
         r.status = before.status, r.pickup = before.pickup,
         before.rider # None => r.rider # None,
         before.handover => r.handover,
         r.verified => before.verified \/ h.checked # {},
         is_payable(r) => is_payable(before) \/ h.paid
  PROVE  Sound(r, h) /\ Kept(before, r)
BY DEF Sound, Grown, Kept

LEMMA UploadProofIsStep ==
  ASSUME IInv, NEW w \in Workers, UploadProof(w)
  PROVE  Step
<1> DEFINE o == job[w].order
           shot == past[o].shots + 1
           seen == Put(job[w].copy.verified, FALSE, row[o].verified)
           r == [row[o] EXCEPT !.proof = shot, !.verified = seen]
           h == [past[o] EXCEPT !.shots = shot]
<1>1. /\ o \in Orders /\ row[o] \in Row /\ past[o] \in Past
      /\ Sound(row[o], past[o]) /\ job[w].copy \in Row
  BY HeldCopy DEF UploadProof, Holds
<1>2. shot \in 0 .. MaxShots
  BY <1>1, ShotsAssumption DEF UploadProof, Past
<1>3. seen \in BOOLEAN /\ (seen => row[o].verified)
  BY <1>1 DEF Put, Row
<1>4. /\ r \in Row /\ r.status = row[o].status /\ r.pickup = row[o].pickup
      /\ r.verified = seen /\ r.rider = row[o].rider
      /\ r.handover = row[o].handover
      /\ r.cod = row[o].cod /\ r.payment = row[o].payment
  BY <1>1, <1>2, <1>3 DEF Row
<1>5. h \in Past /\ h.cash = past[o].cash /\ h.paid = past[o].paid /\ h.checked = past[o].checked
  BY <1>1, <1>2 DEF Past
<1>6. Grown(past[o], h)
  BY <1>5 DEF Grown
<1>7. /\ row' = [row EXCEPT ![o] = r] /\ past' = [past EXCEPT ![o] = h]
      /\ job' = [job EXCEPT ![w] = Idle] /\ payu' \in [Txns -> PayuState]
  BY <1>1 DEF UploadProof, IInv, TypeOK
<1>8. is_payable(r) = is_payable(row[o])
  BY <1>4 DEF is_payable
<1> HIDE DEF o, r, h
<1>9. Sound(r, h) /\ Kept(row[o], r)
  BY <1>1, <1>3, <1>4, <1>6, <1>8, EditIsSound
<1>10. QED
  BY <1>1, <1>4, <1>5, <1>6, <1>7, <1>9, WriteIsStep

LEMMA CheckIsStep ==
  ASSUME IInv, NEW w \in Workers, NEW next, job[w].copy # None, job[w].copy.proof # 0,
         next = Idle \/ \E task \in Later : next = Then(task, job[w].order),
         Check(w, next)
  PROVE  Step
<1> DEFINE o == job[w].order
           shot == job[w].copy.proof
           r == [row[o] EXCEPT !.verified = TRUE]
           h == [past[o] EXCEPT !.checked = @ \cup {shot}]
<1>1. /\ o \in Orders /\ row[o] \in Row /\ past[o] \in Past
      /\ Sound(row[o], past[o]) /\ job[w].copy \in Row
  BY HeldCopy
<1>2. shot \in 1 .. MaxShots
  BY <1>1, ShotsAssumption DEF Row
<1>3. /\ r \in Row /\ r.status = row[o].status /\ r.pickup = row[o].pickup
      /\ r.rider = row[o].rider /\ r.handover = row[o].handover
      /\ r.cod = row[o].cod /\ r.payment = row[o].payment
  BY <1>1 DEF Row
<1>4. /\ h \in Past /\ h.cash = past[o].cash /\ h.paid = past[o].paid
      /\ h.checked = past[o].checked \cup {shot}
  BY <1>1, <1>2 DEF Past
<1>5. Grown(past[o], h)
  BY <1>4 DEF Grown
<1>6. /\ row' = [row EXCEPT ![o] = r] /\ past' = [past EXCEPT ![o] = h]
      /\ job' = [job EXCEPT ![w] = next] /\ payu' \in [Txns -> PayuState]
  BY <1>1 DEF Check, IInv, TypeOK
<1>7. is_payable(r) = is_payable(row[o])
  BY <1>3 DEF is_payable
<1> HIDE DEF o, r, h
<1>n. h.checked # {}
  BY <1>4
<1>8. Sound(r, h) /\ Kept(row[o], r)
  <2>1. r.status = row[o].status /\ r.pickup = row[o].pickup /\ r.rider = row[o].rider
        /\ r.handover = row[o].handover /\ r \in Row
    BY <1>3
  <2> QED BY <1>1, <2>1, <1>5, <1>n, <1>7, EditIsSound
<1>9. QED
  BY <1>1, <1>3, <1>4, <1>5, <1>6, <1>8, WriteIsStep DEF o

LEMMA VerifyIsStep ==
  ASSUME IInv, NEW w \in Workers, VerifyProof(w) \/ ApproveFirst(w)
  PROVE  Step
<1>1. CASE VerifyProof(w)
  BY <1>1, CheckIsStep DEF VerifyProof, Holds, IInv, JobSound
<1>2. CASE ApproveFirst(w)
  <2>1. "PACK" \in Later
    BY DEF Later, Tasks
  <2>2. QED
    BY <1>2, <2>1, CheckIsStep DEF ApproveFirst, Holds, ChecksFirst
<1>3. QED
  BY <1>1, <1>2

LEMMA RejectProofIsStep ==
  ASSUME IInv, NEW w \in Workers, RejectProof(w)
  PROVE  Step
<1> DEFINE o == job[w].order
           copy == job[w].copy
           shot == Put(copy.proof, 0, row[o].proof)
           seen == Put(copy.verified, FALSE, row[o].verified)
           r == [row[o] EXCEPT !.proof = shot, !.verified = seen]
           h == [past[o] EXCEPT !.rejected = @ \cup ({copy.proof} \ {0})]
<1>1. /\ o \in Orders /\ row[o] \in Row /\ past[o] \in Past
      /\ Sound(row[o], past[o]) /\ copy \in Row
  BY HeldCopy DEF RejectProof, Holds
<1>2. shot \in 0 .. MaxShots /\ seen \in BOOLEAN /\ (seen => row[o].verified)
  <2>1. shot \in 0 .. MaxShots
    BY <1>1, ShotsAssumption DEF Put, Row
  <2>2. seen \in BOOLEAN /\ (seen => row[o].verified)
    BY <1>1 DEF Put, Row
  <2>3. QED
    BY <2>1, <2>2
<1>3. /\ r \in Row /\ r.status = row[o].status /\ r.pickup = row[o].pickup
      /\ r.verified = seen /\ r.rider = row[o].rider
      /\ r.handover = row[o].handover
      /\ r.cod = row[o].cod /\ r.payment = row[o].payment
  BY <1>1, <1>2 DEF Row
<1>4. {copy.proof} \ {0} \subseteq 1 .. MaxShots
  BY <1>1, ShotsAssumption DEF Row
<1>5. h \in Past /\ h.cash = past[o].cash /\ h.paid = past[o].paid /\ h.checked = past[o].checked
  BY <1>1, <1>4 DEF Past
<1>6. Grown(past[o], h)
  BY <1>5 DEF Grown
<1>7. /\ row' = [row EXCEPT ![o] = r] /\ past' = [past EXCEPT ![o] = h]
      /\ job' = [job EXCEPT ![w] = Then("IN_PRODUCTION", o)]
      /\ payu' \in [Txns -> PayuState]
  BY <1>1 DEF RejectProof, IInv, TypeOK
<1>8. "IN_PRODUCTION" \in Later
  BY DEF Later, Tasks, OrderStatus
<1>9. is_payable(r) = is_payable(row[o])
  BY <1>3 DEF is_payable
<1> HIDE DEF o, r, h
<1>10. Sound(r, h) /\ Kept(row[o], r)
  BY <1>1, <1>2, <1>3, <1>6, <1>9, EditIsSound
<1>11. QED
  BY <1>1, <1>3, <1>5, <1>6, <1>7, <1>8, <1>10, WriteIsStep

(* Steps that write one column of the row and leave the history alone. *)
LEMMA RowOnly ==
  ASSUME IInv, NEW w \in Workers, NEW o \in Orders, NEW r \in Row, NEW j,
         row' = [row EXCEPT ![o] = r], past' = past,
         job' = [job EXCEPT ![w] = j], payu' \in [Txns -> PayuState],
         j = Idle \/ \E task \in Later : j = Then(task, o),
         Sound(r, past[o]), Kept(row[o], r)
  PROVE  Step
<1>1. past[o] \in Past /\ past' = [past EXCEPT ![o] = past[o]]
  BY DEF IInv, TypeOK
<1>2. QED
  BY <1>1, WriteIsStep, Unmoved

LEMMA HandoverIsStep ==
  ASSUME IInv, NEW w \in Workers, UploadHandover(w)
  PROVE  Step
<1> DEFINE o == job[w].order
           r == [row[o] EXCEPT !.handover = TRUE]
<1>1. o \in Orders /\ row[o] \in Row /\ Sound(row[o], past[o])
  BY HeldCopy DEF UploadHandover, Holds
<1>2. /\ r \in Row /\ r.status = row[o].status /\ r.pickup = row[o].pickup
      /\ r.verified = row[o].verified /\ r.rider = row[o].rider /\ r.handover
      /\ r.cod = row[o].cod /\ r.payment = row[o].payment
  BY <1>1 DEF Row
<1>3. /\ row' = [row EXCEPT ![o] = r] /\ past' = past
      /\ job' = [job EXCEPT ![w] = Idle] /\ payu' \in [Txns -> PayuState]
  BY <1>1 DEF UploadHandover, IInv, TypeOK
<1>4. is_payable(r) = is_payable(row[o])
  BY <1>2 DEF is_payable
<1> HIDE DEF o, r
<1>5. Sound(r, past[o]) /\ Kept(row[o], r)
  BY <1>1, <1>2, <1>4, EditIsSound, Unmoved
<1>6. QED
  BY <1>1, <1>2, <1>3, <1>5, RowOnly

LEMMA BakerIsStep ==
  ASSUME IInv, NEW w \in Workers, NEW b \in Bakers,
         AssignBaker(w, b) \/ TransferBaker(w, b)
  PROVE  Step
<1> DEFINE o == job[w].order
           r == [row[o] EXCEPT !.baker = Put(job[w].copy.baker, b, row[o].baker)]
<1>1. o \in Orders /\ row[o] \in Row /\ Sound(row[o], past[o])
  BY HeldCopy DEF AssignBaker, auto_assign_baker, admin_assign_baker, TransferBaker, Holds
<1>2. /\ r \in Row /\ r.status = row[o].status /\ r.pickup = row[o].pickup
      /\ r.verified = row[o].verified /\ r.rider = row[o].rider
      /\ r.handover = row[o].handover
      /\ r.cod = row[o].cod /\ r.payment = row[o].payment
  BY <1>1 DEF Row, Put
<1>3. PICK j : /\ SetBaker(w, b, j)
               /\ j = Idle \/ j = Then("APPLY_BAKER", o)
  BY DEF AssignBaker, auto_assign_baker, admin_assign_baker, TransferBaker
<1>4. /\ row' = [row EXCEPT ![o] = r] /\ past' = past
      /\ job' = [job EXCEPT ![w] = j] /\ payu' \in [Txns -> PayuState]
  BY <1>1, <1>3 DEF SetBaker, IInv, TypeOK
<1>5. "APPLY_BAKER" \in Later
  BY DEF Later, Tasks
<1>6. is_payable(r) = is_payable(row[o])
  BY <1>2 DEF is_payable
<1> HIDE DEF o, r
<1>7. Sound(r, past[o]) /\ Kept(row[o], r)
  BY <1>1, <1>2, <1>6, EditIsSound, Unmoved
<1>8. QED
  BY <1>1, <1>2, <1>3, <1>4, <1>5, <1>7, RowOnly

LEMMA RiderIsStep ==
  ASSUME IInv, NEW w \in Workers, NEW d \in Riders, AssignRider(w, d)
  PROVE  Step
<1> DEFINE o == job[w].order
           who == Put(job[w].copy.rider, d, row[o].rider)
           r == [row[o] EXCEPT !.rider = who]
<1>1. /\ o \in Orders /\ row[o] \in Row /\ Sound(row[o], past[o])
      /\ Kept(job[w].copy, row[o])
  BY HeldCopy DEF AssignRider, Holds
<1>2. who \in Riders \cup {None} /\ who # None
  BY <1>1, NoneAssumption DEF Put, Row, Kept
<1>3. /\ r \in Row /\ r.status = row[o].status /\ r.pickup = row[o].pickup
      /\ r.verified = row[o].verified /\ r.rider = who
      /\ r.handover = row[o].handover
      /\ r.cod = row[o].cod /\ r.payment = row[o].payment
  BY <1>1, <1>2 DEF Row
<1>4. /\ row' = [row EXCEPT ![o] = r] /\ past' = past
      /\ job' = [job EXCEPT ![w] = Idle] /\ payu' \in [Txns -> PayuState]
  BY <1>1 DEF AssignRider, IInv, TypeOK
<1>5. is_payable(r) = is_payable(row[o])
  BY <1>3 DEF is_payable
<1> HIDE DEF o, r
<1>6. Sound(r, past[o]) /\ Kept(row[o], r)
  BY <1>1, <1>2, <1>3, <1>5, EditIsSound, Unmoved
<1>7. QED
  BY <1>1, <1>3, <1>4, <1>6, RowOnly

LEMMA CreatePaymentOrderIsStep ==
  ASSUME IInv, NEW w \in Workers, NEW t \in Txns, CreatePaymentOrder(w, t)
  PROVE  Step
<1> DEFINE o == job[w].order
           r == [row[o] EXCEPT !.cod = FALSE,
                               !.txn = Put(job[w].copy.txn, t, row[o].txn)]
<1>1. o \in Orders /\ row[o] \in Row /\ Sound(row[o], past[o])
  BY HeldCopy DEF CreatePaymentOrder, Holds
<1>2. /\ r \in Row /\ r.status = row[o].status /\ r.pickup = row[o].pickup
      /\ r.verified = row[o].verified /\ r.rider = row[o].rider
      /\ r.handover = row[o].handover
      /\ r.cod = FALSE /\ r.payment = row[o].payment
  BY <1>1 DEF Row, Put
<1>3. /\ row' = [row EXCEPT ![o] = r] /\ past' = past
      /\ job' = [job EXCEPT ![w] = Idle]
  BY <1>1 DEF CreatePaymentOrder, IInv, TypeOK
<1>4. Presented(payu[t]) \in PayuState
  BY DEF Presented, PayuState, IInv, TypeOK
<1>5. payu' \in [Txns -> PayuState]
  BY <1>4 DEF CreatePaymentOrder, IInv, TypeOK
<1>6. is_payable(r) => is_payable(row[o])
  BY <1>2 DEF is_payable
<1> HIDE DEF o, r
<1>7. Sound(r, past[o]) /\ Kept(row[o], r)
  BY <1>1, <1>2, <1>6, EditIsSound, Unmoved
<1>8. QED
  BY <1>1, <1>2, <1>3, <1>5, <1>7, RowOnly

(* A payment comes in: the demo's, or PayU's through its callback. *)
LEMMA PaidIsSound ==
  ASSUME NEW before \in Row, NEW r \in Row, NEW g \in Past, Sound(before, g),
         r.status = before.status, r.pickup = before.pickup,
         r.verified = before.verified, r.rider = before.rider,
         r.handover = before.handover
  PROVE  LET h == [g EXCEPT !.paid = TRUE, !.settled = TRUE]
         IN  h \in Past /\ Sound(r, h) /\ Kept(before, r) /\ Grown(g, h)
<1> DEFINE h == [g EXCEPT !.paid = TRUE, !.settled = TRUE]
<1>1. h \in Past /\ h.cash = g.cash /\ h.paid /\ h.checked = g.checked
  BY DEF Past
<1>2. Grown(g, h)
  BY <1>1 DEF Grown
<1> HIDE DEF h
<1>3. Sound(r, h) /\ Kept(before, r)
  BY <1>1, <1>2, EditIsSound
<1> USE DEF h
<1>4. QED
  BY <1>1, <1>2, <1>3

LEMMA DemoPayIsStep ==
  ASSUME IInv, NEW w \in Workers, DemoPay(w)
  PROVE  Step
<1> DEFINE o == job[w].order
           r == [row[o] EXCEPT !.cod = FALSE, !.payment = "PAID", !.txn = None]
           h == [past[o] EXCEPT !.paid = TRUE, !.settled = TRUE]
<1>1. /\ o \in Orders /\ row[o] \in Row /\ past[o] \in Past
      /\ Sound(row[o], past[o])
  BY HeldCopy DEF DemoPay, Holds
<1>2. /\ r \in Row /\ r.status = row[o].status /\ r.pickup = row[o].pickup
      /\ r.verified = row[o].verified /\ r.rider = row[o].rider
      /\ r.handover = row[o].handover
  BY <1>1 DEF Row, PaymentStatus
<1>3. /\ row' = [row EXCEPT ![o] = r] /\ past' = [past EXCEPT ![o] = h]
      /\ job' = [job EXCEPT ![w] = Then("RELEASE", o)]
      /\ payu' \in [Txns -> PayuState]
  BY <1>1 DEF DemoPay, IInv, TypeOK
<1>4. "RELEASE" \in Later
  BY DEF Later, Tasks
<1> HIDE DEF o, r
<1>5. h \in Past /\ Sound(r, h) /\ Kept(row[o], r) /\ Grown(past[o], h)
  BY <1>1, <1>2, PaidIsSound
<1>6. QED
  BY <1>1, <1>2, <1>3, <1>4, <1>5, WriteIsStep

LEMMA PayuCallbackIsStep ==
  ASSUME IInv, NEW w \in Workers, NEW t \in Txns, PayuCallback(w, t)
  PROVE  Step
<1> DEFINE o == OrderOf[t]
           r == [row[o] EXCEPT !.payment = "PAID"]
           h == [past[o] EXCEPT !.paid = TRUE, !.settled = TRUE]
<1>1. /\ o \in Orders /\ row[o] \in Row /\ past[o] \in Past
      /\ Sound(row[o], past[o])
  BY OrdersAssumption DEF IInv, TypeOK
<1>2. /\ r \in Row /\ r.status = row[o].status /\ r.pickup = row[o].pickup
      /\ r.verified = row[o].verified /\ r.rider = row[o].rider
      /\ r.handover = row[o].handover
  BY <1>1 DEF Row, PaymentStatus
<1>3. /\ row' = [row EXCEPT ![o] = r] /\ past' = [past EXCEPT ![o] = h]
      /\ job' = [job EXCEPT ![w] = Then("RELEASE", o)]
      /\ payu' \in [Txns -> PayuState]
  BY <1>1 DEF PayuCallback, IInv, TypeOK
<1>4. "RELEASE" \in Later
  BY DEF Later, Tasks
<1> HIDE DEF o, r
<1>5. h \in Past /\ Sound(r, h) /\ Kept(row[o], r) /\ Grown(past[o], h)
  BY <1>1, <1>2, PaidIsSound
<1>6. QED
  BY <1>1, <1>2, <1>3, <1>4, <1>5, WriteIsStep

LEMMA ReleaseIsStep ==
  ASSUME IInv, NEW w \in Workers, ReleaseForProduction(w)
  PROVE  Step
<1> DEFINE o == job[w].order
           r == [row[o] EXCEPT !.status = "CONFIRMED"]
<1>1. o \in Orders /\ row[o] \in Row /\ Sound(row[o], past[o])
  BY HeldCopy DEF ReleaseForProduction, Holds
<1>2. /\ r \in Row /\ r.status = "CONFIRMED" /\ r.pickup = row[o].pickup
      /\ r.verified = row[o].verified /\ r.rider = row[o].rider
      /\ r.handover = row[o].handover
      /\ r.cod = row[o].cod /\ r.payment = row[o].payment
  BY <1>1 DEF Row, OrderStatus
<1>3. /\ row' = [row EXCEPT ![o] = r] /\ past' = past
      /\ job' = [job EXCEPT ![w] = Then("AUTO_BAKER", o)]
      /\ payu' \in [Txns -> PayuState]
  BY <1>1 DEF ReleaseForProduction, IInv, TypeOK
<1>4. "AUTO_BAKER" \in Later
  BY DEF Later, Tasks
<1> HIDE DEF o, r
<1>5. Sound(r, past[o])
  BY <1>1, <1>2 DEF Sound, is_payable, InKitchen, Packed, Dispatched, AtCounter
<1>6. Kept(row[o], r)
  BY <1>2 DEF Kept
<1>7. QED
  BY <1>1, <1>2, <1>3, <1>4, <1>5, <1>6, RowOnly

LEMMA UpdatePaymentIsStep ==
  ASSUME IInv, NEW w \in Workers, NEW o \in Orders, NEW new \in PaymentStatus,
         UpdatePaymentStatus(w, o, new)
  PROVE  Step
<1> DEFINE r == [row[o] EXCEPT !.payment = new]
           h == [past[o] EXCEPT !.paid = past[o].paid \/ is_payable(r)]
<1>1. /\ row[o] \in Row /\ past[o] \in Past /\ Sound(row[o], past[o])
      /\ row'[o] = r /\ job[w] \in Job /\ JobSound(job[w], row, past)
  BY DEF IInv, TypeOK, UpdatePaymentStatus
<1>2. /\ r \in Row /\ r.status = row[o].status /\ r.pickup = row[o].pickup
      /\ r.verified = row[o].verified /\ r.rider = row[o].rider
      /\ r.handover = row[o].handover
  BY <1>1 DEF Row
<1>3. is_payable(r) \in BOOLEAN
  BY <1>2 DEF is_payable, Row
<1>4. row' = [row EXCEPT ![o] = r] /\ past' = [past EXCEPT ![o] = h]
  BY <1>1 DEF UpdatePaymentStatus, IInv, TypeOK
<1>5. job' = [job EXCEPT ![w] = Idle] /\ payu' \in [Txns -> PayuState]
  BY DEF UpdatePaymentStatus, IInv, TypeOK
<1> HIDE DEF r
<1>6. /\ h \in Past /\ h.cash = past[o].cash /\ h.checked = past[o].checked
      /\ h.paid = (past[o].paid \/ is_payable(r))
  BY <1>1, <1>3 DEF Past
<1>7. Grown(past[o], h)
  BY <1>6 DEF Grown
<1> HIDE DEF h
<1>8. Sound(r, h) /\ Kept(row[o], r)
  BY <1>1, <1>2, <1>6, <1>7, EditIsSound
<1>9. QED
  BY <1>2, <1>4, <1>5, <1>6, <1>7, <1>8, WriteIsStep
-----------------------------------------------------------------------------
(* Every step of the specification is a worker's Step or leaves the orders *)
(* and their histories alone. *)
Quiet == /\ UNCHANGED <<row, past>>
         /\ payu' \in [Txns -> PayuState]
         /\ job' = job \/ job' = [w \in Workers |-> Idle]

LEMMA ContinueIsStep ==
  ASSUME IInv, NEW w \in Workers, Continue(w)
  PROVE  Step
<1>1. CASE Reload(w)
  BY <1>1, ReloadIsStep
<1>2. CASE Move(w)
  BY <1>2, TransitionIsStep, HeldCopy DEF Move, Moving, IInv, TypeOK, Job
<1>3. CASE Refuse(w)
  BY <1>3, JobOnly, HeldCopy, FreshJobs DEF Refuse, Moving
<1>4. CASE UploadProof(w)
  BY <1>4, UploadProofIsStep
<1>5. CASE VerifyProof(w) \/ ApproveFirst(w)
  BY <1>5, VerifyIsStep
<1>6. CASE RejectProof(w)
  BY <1>6, RejectProofIsStep
<1>7. CASE UploadHandover(w)
  BY <1>7, HandoverIsStep
<1>8. CASE BadImage(w)
  BY <1>8, JobOnly, HeldCopy, FreshJobs DEF BadImage, Holds
<1>9. CASE \E b \in Bakers : AssignBaker(w, b) \/ TransferBaker(w, b)
  BY <1>9, BakerIsStep
<1>10. CASE \E d \in Riders : AssignRider(w, d)
  BY <1>10, RiderIsStep
<1>11. CASE NobodyAvailable(w)
  BY <1>11, JobOnly, HeldCopy, FreshJobs DEF NobodyAvailable, Holds
<1>12. CASE \E t \in Txns : CreatePaymentOrder(w, t)
  BY <1>12, CreatePaymentOrderIsStep
<1>13. CASE DemoPay(w)
  BY <1>13, DemoPayIsStep
<1>14. CASE ReleaseForProduction(w)
  BY <1>14, ReleaseIsStep
<1>15. QED
  BY <1>1, <1>2, <1>3, <1>4, <1>5, <1>6, <1>7, <1>8, <1>9, <1>10, <1>11,
     <1>12, <1>13, <1>14 DEF Continue

LEMMA PatchIsStep ==
  ASSUME IInv, NEW w \in Workers, NEW o \in Orders, NEW new \in Patches,
         PatchStatus(w, o, new)
  PROVE  Step
<1>1. row[o] \in Row /\ Sound(row[o], past[o]) /\ Kept(row[o], row[o])
  BY Unmoved DEF IInv, TypeOK
<1>2. new \in Tasks
  BY TrafficAssumption DEF Tasks
<1>3. QED
  BY <1>1, <1>2, TransitionIsStep DEF PatchStatus

LEMMA StartIsStep ==
  ASSUME IInv, NEW w \in Workers, Start(w)
  PROVE  Step
<1>1. CASE \E o \in Orders, request \in Requests : Arrive(w, o, request)
  BY <1>1, TrafficAssumption, ArriveIsStep
<1>2. CASE \E o \in Orders, new \in Patches : PatchStatus(w, o, new)
  BY <1>2, PatchIsStep
<1>3. CASE \E o \in Orders, new \in AdminPayments : UpdatePaymentStatus(w, o, new)
  BY <1>3, TrafficAssumption, UpdatePaymentIsStep
<1>4. CASE \E t \in Txns : PayuCallback(w, t)
  BY <1>4, PayuCallbackIsStep
<1>5. QED
  BY <1>1, <1>2, <1>3, <1>4 DEF Start

LEMMA NextIsStep ==
  ASSUME IInv, [Next]_vars
  PROVE  Step \/ Quiet
<1>1. CASE \E w \in Workers : Start(w) \/ Continue(w)
  BY <1>1, StartIsStep, ContinueIsStep
<1>2. CASE \E t \in Txns : CustomerPays(t) \/ AttemptFails(t)
  BY <1>2 DEF CustomerPays, AttemptFails, Quiet, IInv, TypeOK, PayuState
<1>3. CASE Crash
  BY <1>3 DEF Crash, Quiet, IInv, TypeOK
<1>4. CASE UNCHANGED vars
  BY <1>4 DEF vars, Quiet, IInv, TypeOK
<1>5. QED
  BY <1>1, <1>2, <1>3, <1>4 DEF Next

LEMMA QuietKeepsIInv ==
  ASSUME IInv, Quiet
  PROVE  IInv'
<1>1. \A w \in Workers : job'[w] = job[w] \/ job'[w] = Idle
  BY DEF Quiet
<1>2. \A w \in Workers : JobSound(job'[w], row', past')
  BY <1>1, FreshJobs DEF Quiet, IInv
<1>3. TypeOK'
  BY FreshJobs DEF Quiet, IInv, TypeOK
<1>4. QED
  BY <1>2, <1>3 DEF Quiet, IInv

LEMMA InitIsSound ==
  ASSUME Init
  PROVE  IInv
<1>1. PICK legacy \in SUBSET LegacyOrders, pickup \in [Orders -> BOOLEAN] :
        /\ row  = [o \in Orders |-> IF o \in legacy THEN LegacyRow(pickup[o])
                                                   ELSE NewRow(pickup[o])]
        /\ past = [o \in Orders |->
                     [cash |-> o \in legacy, paid |-> o \in legacy, settled |-> FALSE,
                      checked |-> {}, rejected |-> {}, shots |-> 0]]
  BY DEF Init
<1>2. ASSUME NEW collected \in BOOLEAN
      PROVE  /\ NewRow(collected) \in Row
             /\ LegacyRow(collected) \in Row
  <2>1. NewRow(collected) \in Row
    BY ShotsAssumption DEF NewRow, Row, OrderStatus, PaymentStatus
  <2>2. LegacyRow(collected) \in Row
    BY <2>1 DEF LegacyRow, Row, OrderStatus, PaymentStatus
  <2>3. QED
    BY <2>1, <2>2
<1>3. \A o \in Orders : past[o] \in Past
  BY <1>1, ShotsAssumption DEF Past
<1>4. TypeOK
  BY <1>1, <1>2, <1>3, FreshJobs DEF Init, TypeOK, PayuState
<1>5. ASSUME NEW o \in Orders
      PROVE  Sound(row[o], past[o])
  BY <1>1 DEF Sound, NewRow, LegacyRow, is_payable, InKitchen, Packed,
              Dispatched, AtCounter
<1>6. \A w \in Workers : JobSound(job[w], row, past)
  BY FreshJobs DEF Init
<1>7. QED
  BY <1>4, <1>5, <1>6 DEF IInv

(* The inductive invariant holds of every behaviour. *)
THEOREM Invariance == Spec => []IInv
<1>1. Init => IInv
  BY InitIsSound
<1>2. IInv /\ [Next]_vars => IInv'
  BY NextIsStep, StepKeepsIInv, QuietKeepsIInv
<1>3. QED
  BY <1>1, <1>2, PTL DEF Spec

(* TypeOK: the state stays well formed, with every copy a possible row.    *)
THEOREM TypeCorrect == Spec => []TypeOK
<1>1. IInv => TypeOK
  BY DEF IInv
<1>2. QED
  BY <1>1, Invariance, PTL

(* PaidBeforeKitchen: however many handlers interleave, and with copies of *)
(* any age, no unpaid order that is not exempt is ever in the kitchen.     *)
THEOREM PaidFirst == Spec => []PaidBeforeKitchen
<1>1. IInv => PaidBeforeKitchen
  BY DEF IInv, Sound, PaidBeforeKitchen
<1>2. QED
  BY <1>1, Invariance, PTL

(* BranchesDoNotCross: no pickup is ever with a rider, no delivery on the  *)
(* counter.                                                                *)
THEOREM Branches == Spec => []BranchesDoNotCross
<1>1. IInv => BranchesDoNotCross
  BY DEF IInv, Sound, BranchesDoNotCross
<1>2. QED
  BY <1>1, Invariance, PTL

(* RoadHasRider: nothing is on the road without somebody carrying it, or   *)
(* delivered without its photograph.                                       *)
THEOREM Carried == Spec => []RoadHasRider
<1>1. IInv => RoadHasRider
  BY DEF IInv, Sound, RoadHasRider
<1>2. QED
  BY <1>1, Invariance, PTL
-----------------------------------------------------------------------------
(* GatesKept: the lifecycle implements the shop's promise.                 *)
LEMMA KeysAreEnough ==
  ASSUME NEW r \in Row, NEW h \in Past, Sound(r, h)
  PROVE  /\ r.status \in OrderStatus \ Gates!Barred(r.pickup)
         /\ Gates!Needs(r.status) \subseteq KeysOf(r, h)
<1>1. r.status \in OrderStatus \ Gates!Barred(r.pickup)
  BY DEF Sound, Row, Gates!Barred, Dispatched, AtCounter
<1>2. ASSUME NEW k \in Gates!Needs(r.status)
      PROVE  k \in KeysOf(r, h)
  BY <1>2 DEF Gates!Needs, Gates!Keys, KeysOf, Sound, InKitchen, Packed,
              Dispatched, AtCounter
<1>3. QED
  BY <1>1, <1>2

LEMMA KeysStay ==
  ASSUME NEW r, NEW s, NEW g, NEW h, Kept(r, s), Grown(g, h)
  PROVE  KeysOf(r, g) \subseteq KeysOf(s, h)
BY DEF Kept, Grown, KeysOf

LEMMA SoundIsAdmitted ==
  ASSUME IInv
  PROVE  Gates!Admitted
BY KeysAreEnough DEF IInv, TypeOK, Gates!Admitted

LEMMA StepKeepsGates ==
  ASSUME IInv, IInv', Step
  PROVE  Gates!GatesNext
<1>1. \A o \in Orders : Kept(row[o], row'[o]) /\ Grown(past[o], past'[o])
  BY DEF Step, Advance, IInv, TypeOK, Kept, Grown
<1>2. \A o \in Orders : KeysOf(row[o], past[o]) \subseteq KeysOf(row'[o], past'[o])
  BY <1>1, KeysStay
<1>3. [o \in Orders |-> row'[o].pickup] = [o \in Orders |-> row[o].pickup]
  BY <1>1 DEF Kept
<1>4. Gates!Admitted'
  BY KeysAreEnough DEF IInv, TypeOK, Gates!Admitted
<1>5. QED
  BY <1>2, <1>3, <1>4 DEF Gates!GatesNext

(* The routes, the staff commands, the engine and the callback, interleaved *)
(* on stale copies, implement OrderGates: whatever update_order_status lets *)
(* a handler do, no order is where its keys would not let it be.           *)
THEOREM Implementation == Spec => GatesKept
<1>1. Init => Gates!GatesInit
  BY InitIsSound, SoundIsAdmitted DEF Gates!GatesInit
<1>2. IInv /\ [Next]_vars => IInv'
  BY NextIsStep, StepKeepsIInv, QuietKeepsIInv
<1>3. ASSUME IInv, [Next]_vars
      PROVE  [Gates!GatesNext]_<<[o \in Orders |-> row[o].status],
                                 [o \in Orders |-> KeysOf(row[o], past[o])],
                                 [o \in Orders |-> row[o].pickup]>>
  <2>1. CASE Step
    BY <1>2, <1>3, <2>1, StepKeepsGates
  <2>2. CASE Quiet
    BY <2>2 DEF Quiet
  <2>3. QED
    BY <1>3, <2>1, <2>2, NextIsStep
<1>4. QED
  BY <1>1, <1>3, Invariance, PTL DEF Spec, GatesKept, Gates!GatesSpec
-----------------------------------------------------------------------------
(* A payment once taken stays in some handler's hands until it is released *)
(* - unless the process dies in between.                                   *)
Releasing(w, o) == job[w].task = "RELEASE" /\ job[w].order = o

(* Worker w's step lets go of no payment. *)
HoldsOn(w) ==
  /\ \A v \in Workers \ {w} : job'[v] = job[v]
  /\ \A o \in Orders :
       /\ row'[o].status = "RECEIVED" => row[o].status = "RECEIVED"
       /\ past'[o].settled => past[o].settled \/ Releasing(w, o)'
       /\ Releasing(w, o) => row'[o].status # "RECEIVED" \/ Releasing(w, o)'

LEMMA ReloadHoldsOn ==
  ASSUME IInv, NEW w \in Workers, Reload(w)
  PROVE  HoldsOn(w)
<1>1. CASE job[w].task = "RELEASE" /\ row[job[w].order].status = "RECEIVED"
  <2>1. /\ Resumed(job[w].task, row[job[w].order]) = "RELEASE"
        /\ StillNeeded("RELEASE", row[job[w].order])
    BY <1>1 DEF Resumed, StillNeeded
  <2>2. job' = [job EXCEPT ![w] = [job[w] EXCEPT !.task = "RELEASE",
                                                 !.copy = row[job[w].order]]]
    BY <2>1 DEF Reload
  <2>3. job'[w].task = "RELEASE" /\ job'[w].order = job[w].order
    BY <2>2 DEF IInv, TypeOK, Job
  <2>4. QED
    BY <2>2, <2>3 DEF HoldsOn, Releasing, IInv, TypeOK, Reload
<1>2. CASE ~(job[w].task = "RELEASE" /\ row[job[w].order].status = "RECEIVED")
  BY <1>2 DEF HoldsOn, Releasing, IInv, TypeOK, Reload
<1>3. QED
  BY <1>1, <1>2

LEMMA TransitionHoldsOn ==
  ASSUME IInv, NEW w \in Workers, NEW o \in Orders, NEW copy, NEW task,
         Transition(w, o, copy, task), job[w].task # "RELEASE"
  PROVE  HoldsOn(w)
<1>1. Target(task) # "RECEIVED" /\ Target(task) \in OrderStatus
  BY Predecessors DEF Transition, MayBecome, TableGate
<1>2. \A p \in Orders : row'[p].status = "RECEIVED" => row[p].status = "RECEIVED"
  BY <1>1 DEF Transition, IInv, TypeOK, Row
<1>3. \A p \in Orders : past'[p].settled = past[p].settled
  BY DEF Transition, IInv, TypeOK, Past
<1>4. \A v \in Workers \ {w} : job'[v] = job[v]
  BY DEF Transition, IInv, TypeOK
<1>5. QED
  BY <1>2, <1>3, <1>4 DEF HoldsOn, Releasing

LEMMA StartHoldsOn ==
  ASSUME IInv, NEW w \in Workers, Start(w)
  PROVE  HoldsOn(w)
<1>1. job[w] = Idle
  BY DEF Start, Arrive, PatchStatus, UpdatePaymentStatus, PayuCallback
<1>0. job[w].task # "RELEASE"
  BY <1>1 DEF Idle
<1>2. CASE \E o \in Orders, request \in Requests : Arrive(w, o, request)
  BY <1>0, <1>1, <1>2 DEF Arrive, HoldsOn, Releasing, IInv, TypeOK
<1>3. CASE \E o \in Orders, new \in Patches : PatchStatus(w, o, new)
  BY <1>0, <1>1, <1>3, TransitionHoldsOn DEF PatchStatus
<1>4. CASE \E o \in Orders, new \in AdminPayments : UpdatePaymentStatus(w, o, new)
  <2>1. PICK o \in Orders, new \in AdminPayments : UpdatePaymentStatus(w, o, new)
    BY <1>4
  <2>2. \A p \in Orders : row'[p].status = row[p].status
    BY <2>1 DEF UpdatePaymentStatus, IInv, TypeOK, Row
  <2>3. \A p \in Orders : past'[p].settled = past[p].settled
    BY <2>1 DEF UpdatePaymentStatus, IInv, TypeOK, Past
  <2>4. QED
    BY <1>0, <1>1, <2>1, <2>2, <2>3 DEF UpdatePaymentStatus, HoldsOn, Releasing
<1>5. CASE \E t \in Txns : PayuCallback(w, t)
  <2>1. PICK t \in Txns : PayuCallback(w, t)
    BY <1>5
  <2>2. \A p \in Orders : row'[p].status = row[p].status
    BY <2>1 DEF PayuCallback, IInv, TypeOK, Row
  <2>3. \A p \in Orders : p # OrderOf[t] => past'[p].settled = past[p].settled
    BY <2>1 DEF PayuCallback, IInv, TypeOK
  <2>4. Releasing(w, OrderOf[t])' /\ \A v \in Workers \ {w} : job'[v] = job[v]
    BY <2>1 DEF PayuCallback, Releasing, Then, IInv, TypeOK
  <2>5. QED
    BY <1>0, <1>1, <2>2, <2>3, <2>4 DEF HoldsOn, Releasing
<1>6. QED
  BY <1>2, <1>3, <1>4, <1>5 DEF Start

LEMMA ContinueHoldsOn ==
  ASSUME IInv, NEW w \in Workers, Continue(w)
  PROVE  HoldsOn(w)
<1>1. CASE Reload(w)
  BY <1>1, ReloadHoldsOn
<1>2. CASE Move(w)
  <2>1. job[w].task # "RELEASE" /\ job[w].order \in Orders
    BY <1>2, HeldCopy DEF Move, Moving, Target, OrderStatus
  <2>2. QED
    BY <1>2, <2>1, TransitionHoldsOn DEF Move
<1>3. CASE Refuse(w) \/ BadImage(w) \/ NobodyAvailable(w)
  <2>1. job[w].task # "RELEASE"
    BY <1>3 DEF Refuse, BadImage, NobodyAvailable, Moving, Target, OrderStatus, Holds
  <2>2. QED
    BY <1>3, <2>1 DEF Refuse, BadImage, NobodyAvailable, HoldsOn, Releasing,
                      IInv, TypeOK
<1>4. CASE DemoPay(w)
  <2>1. \A p \in Orders : row'[p].status = row[p].status
    BY <1>4 DEF DemoPay, IInv, TypeOK, Row
  <2>2. \A p \in Orders : p # job[w].order => past'[p].settled = past[p].settled
    BY <1>4 DEF DemoPay, IInv, TypeOK
  <2>3. /\ job[w].task # "RELEASE"
        /\ job'[w].task = "RELEASE" /\ job'[w].order = job[w].order
        /\ \A v \in Workers \ {w} : job'[v] = job[v]
    BY <1>4 DEF DemoPay, Holds, Then, IInv, TypeOK
  <2>4. \A p \in Orders : ~Releasing(w, p)
    BY <2>3 DEF Releasing
  <2>5. \A p \in Orders : past'[p].settled => past[p].settled \/ Releasing(w, p)'
    BY <2>2, <2>3 DEF Releasing
  <2>6. QED
    BY <2>1, <2>3, <2>4, <2>5 DEF HoldsOn
<1>5. CASE ReleaseForProduction(w)
  <2>1. /\ row'[job[w].order].status = "CONFIRMED"
        /\ \A p \in Orders : p # job[w].order => row'[p] = row[p]
    BY <1>5, HeldCopy DEF ReleaseForProduction, Holds, IInv, TypeOK, Row
  <2>2. QED
    BY <1>5, <2>1 DEF ReleaseForProduction, HoldsOn, Releasing, IInv, TypeOK
<1>6. CASE UploadProof(w) \/ RejectProof(w) \/ UploadHandover(w)
  <2>1. /\ \A p \in Orders : row'[p].status = row[p].status
        /\ \A p \in Orders : past'[p].settled = past[p].settled
    <3>1. CASE UploadProof(w)
      BY <3>1 DEF UploadProof, IInv, TypeOK, Row, Past
    <3>2. CASE RejectProof(w)
      BY <3>2 DEF RejectProof, IInv, TypeOK, Row, Past
    <3>3. CASE UploadHandover(w)
      BY <3>3 DEF UploadHandover, IInv, TypeOK, Row, Past
    <3>4. QED
      BY <1>6, <3>1, <3>2, <3>3
  <2>2. job[w].task # "RELEASE" /\ \A v \in Workers \ {w} : job'[v] = job[v]
    BY <1>6 DEF UploadProof, RejectProof, UploadHandover, Holds, IInv, TypeOK
  <2>3. QED
    BY <2>1, <2>2 DEF HoldsOn, Releasing
<1>7. CASE VerifyProof(w) \/ ApproveFirst(w)
  <2>1. PICK next : Check(w, next)
    BY <1>7 DEF VerifyProof, ApproveFirst
  <2>2. /\ \A p \in Orders : row'[p].status = row[p].status
        /\ \A p \in Orders : past'[p].settled = past[p].settled
        /\ \A v \in Workers \ {w} : job'[v] = job[v]
    BY <2>1 DEF Check, IInv, TypeOK, Row, Past
  <2>3. job[w].task # "RELEASE"
    BY <1>7 DEF VerifyProof, ApproveFirst, Holds
  <2>4. QED
    BY <2>2, <2>3 DEF HoldsOn, Releasing
<1>8. CASE \/ \E b \in Bakers : AssignBaker(w, b) \/ TransferBaker(w, b)
           \/ \E d \in Riders : AssignRider(w, d)
           \/ \E t \in Txns : CreatePaymentOrder(w, t)
  <2>1. /\ \A p \in Orders : row'[p].status = row[p].status
        /\ past' = past
        /\ \A v \in Workers \ {w} : job'[v] = job[v]
    <3>1. CASE \E b \in Bakers : AssignBaker(w, b) \/ TransferBaker(w, b)
      BY <3>1 DEF AssignBaker, auto_assign_baker, admin_assign_baker, TransferBaker, SetBaker, IInv, TypeOK, Row
    <3>2. CASE \E d \in Riders : AssignRider(w, d)
      BY <3>2 DEF AssignRider, IInv, TypeOK, Row
    <3>3. CASE \E t \in Txns : CreatePaymentOrder(w, t)
      BY <3>3 DEF CreatePaymentOrder, IInv, TypeOK, Row
    <3>4. QED
      BY <1>8, <3>1, <3>2, <3>3
  <2>2. job[w].task # "RELEASE"
    BY <1>8 DEF AssignBaker, auto_assign_baker, admin_assign_baker, TransferBaker, AssignRider, CreatePaymentOrder, Holds
  <2>3. QED
    BY <2>1, <2>2 DEF HoldsOn, Releasing
<1>9. QED
  BY <1>1, <1>2, <1>3, <1>4, <1>5, <1>6, <1>7, <1>8 DEF Continue

(* SettledIsInHand, where the process does not die.                        *)
THEOREM InHand ==
  ASSUME MayCrash = FALSE
  PROVE  Spec => []SettledIsInHand
<1>1. Init => SettledIsInHand
  BY DEF Init, SettledIsInHand
<1>2. ASSUME IInv, SettledIsInHand, [Next]_vars
      PROVE  SettledIsInHand'
  <2>1. CASE \E w \in Workers : Start(w) \/ Continue(w)
    <3>1. PICK w \in Workers : HoldsOn(w)
      BY <1>2, <2>1, StartHoldsOn, ContinueHoldsOn
    <3>2. ASSUME NEW o \in Orders, past'[o].settled, row'[o].status = "RECEIVED"
          PROVE  \E v \in Workers : Releasing(v, o)'
      <4>1. CASE ~past[o].settled
        BY <3>1, <3>2, <4>1 DEF HoldsOn
      <4>2. CASE past[o].settled
        <5>1. PICK v \in Workers : Releasing(v, o)
          BY <1>2, <3>1, <3>2, <4>2 DEF HoldsOn, SettledIsInHand, Releasing
        <5>2. QED
          BY <3>1, <3>2, <5>1 DEF HoldsOn, Releasing
      <4>3. QED
        BY <4>1, <4>2
    <3>3. QED
      BY <3>2 DEF SettledIsInHand, Releasing
  <2>2. CASE \E t \in Txns : CustomerPays(t) \/ AttemptFails(t)
    BY <1>2, <2>2 DEF CustomerPays, AttemptFails, SettledIsInHand
  <2>3. CASE UNCHANGED vars
    BY <1>2, <2>3 DEF vars, SettledIsInHand
  <2>4. QED
    BY <1>2, <2>1, <2>2, <2>3 DEF Next, Crash
<1>3. QED
  BY <1>1, <1>2, Invariance, PTL DEF Spec
-----------------------------------------------------------------------------
(* Handlers that run one at a time.  No copy is then older than the row,   *)
(* and what the gates say of the copy is so of the row.                    *)

GoodCopy(w) ==
  job[w].copy # None => /\ job[w].copy = row[job[w].order]
                        /\ job[w].task = "RELEASE" => job[w].copy.status = "RECEIVED"

Current == \A w \in Workers : GoodCopy(w)

Follows(o) == row'[o].status # row[o].status =>
                /\ <<row[o].status, row'[o].status>> \in VALID_TRANSITIONS
                /\ row'[o].status = "PACKAGED" => row'[o].verified

(* The approval is of the photograph that is on the order, or is new.      *)
Boxes(o) == row'[o].verified =>
              \/ row[o].verified /\ row'[o].proof = row[o].proof
              \/ row'[o].proof \in past'[o].checked

Serves(w) == GoodCopy(w)' /\ \A o \in Orders : Follows(o) /\ Boxes(o)

(* A step that leaves the table as it is, with no copy or a fresh one. *)
LEMMA LookingServes ==
  ASSUME NEW w \in Workers, UNCHANGED row, GoodCopy(w)'
  PROVE  Serves(w)
BY DEF Serves, Follows, Boxes

(* A step that writes other columns and is done with its copy. *)
LEMMA WritingServes ==
  ASSUME NEW w \in Workers, job'[w].copy = None,
         \A o \in Orders : /\ row'[o].status = row[o].status
                           /\ row'[o].verified = row[o].verified
                           /\ row'[o].proof = row[o].proof
  PROVE  Serves(w)
BY DEF Serves, Follows, Boxes, GoodCopy

LEMMA TransitionServes ==
  ASSUME IInv, NEW w \in Workers, NEW o \in Orders, NEW task,
         Transition(w, o, row[o], task)
  PROVE  Serves(w)
<1>1. /\ <<row[o].status, Target(task)>> \in VALID_TRANSITIONS
      /\ Target(task) = "PACKAGED" => row[o].verified
  BY DEF Transition, MayBecome, TableGate, CheckGate
<1>2. /\ row'[o].status = Target(task)
      /\ \A p \in Orders : /\ p # o => row'[p] = row[p]
                           /\ row'[p].verified = row[p].verified
                           /\ row'[p].proof = row[p].proof
  BY DEF Transition, IInv, TypeOK, Row
<1>3. job'[w].copy = None
  BY DEF Transition, Continuation, Then, Idle, IInv, TypeOK
<1> QED BY <1>1, <1>2, <1>3 DEF Serves, Follows, Boxes, GoodCopy

LEMMA StartServes ==
  ASSUME IInv, NEW w \in Workers, Start(w)
  PROVE  Serves(w)
<1>1. job[w] = Idle
  BY DEF Start, Arrive, PatchStatus, UpdatePaymentStatus, PayuCallback
<1>2. ASSUME NEW o \in Orders, NEW request \in Requests, Arrive(w, o, request)
      PROVE  Serves(w)
  <2>1. Goal[request] # "RELEASE"
    BY TrafficAssumption DEF Goal, AllRequests
  <2>2. job'[w] = [task |-> Goal[request], order |-> o, copy |-> row[o]] /\ row' = row
    BY <1>2 DEF Arrive, IInv, TypeOK
  <2>3. GoodCopy(w)'
    BY <2>1, <2>2 DEF GoodCopy
  <2> QED BY <2>2, <2>3, LookingServes
<1>3. ASSUME NEW o \in Orders, NEW new \in Patches, PatchStatus(w, o, new)
      PROVE  Serves(w)
  BY <1>3, TransitionServes DEF PatchStatus
<1>4. ASSUME NEW o \in Orders, NEW new \in AdminPayments, UpdatePaymentStatus(w, o, new)
      PROVE  Serves(w)
  <2>1. job'[w].copy = None
    BY <1>1, <1>4 DEF UpdatePaymentStatus, Idle
  <2> QED BY <1>4, <2>1, WritingServes DEF UpdatePaymentStatus, IInv, TypeOK, Row
<1>5. ASSUME NEW t \in Txns, PayuCallback(w, t)
      PROVE  Serves(w)
  <2>1. job'[w].copy = None
    BY <1>5 DEF PayuCallback, Then, IInv, TypeOK
  <2> QED BY <1>5, <2>1, WritingServes DEF PayuCallback, IInv, TypeOK, Row
<1> QED BY <1>2, <1>3, <1>4, <1>5 DEF Start

LEMMA ReloadServes ==
  ASSUME IInv, NEW w \in Workers, Reload(w)
  PROVE  Serves(w)
<1> DEFINE r == row[job[w].order]
           t == Resumed(job[w].task, r)
<1>1. job[w] \in Job /\ row' = row
      /\ job' = [job EXCEPT ![w] = IF StillNeeded(t, r)
                                   THEN [job[w] EXCEPT !.task = t, !.copy = r] ELSE Idle]
  BY DEF Reload, IInv, TypeOK
<1>2. t = "RELEASE" => r.status = "RECEIVED"
  BY DEF Resumed
<1>3. CASE StillNeeded(t, r)
  <2>1. job'[w].copy = r /\ job'[w].task = t /\ job'[w].order = job[w].order
    BY <1>1, <1>3 DEF Job, IInv, TypeOK
  <2> QED BY <1>1, <1>2, <2>1, LookingServes DEF GoodCopy
<1>4. CASE ~StillNeeded(t, r)
  <2>1. job'[w] = Idle
    BY <1>1, <1>4 DEF IInv, TypeOK
  <2>2. GoodCopy(w)'
    BY <2>1 DEF GoodCopy, Idle
  <2> QED BY <1>1, <2>2, LookingServes
<1> QED BY <1>3, <1>4

(* Uploads and rejections take the approval away; a check approves what    *)
(* the copy shows, which is what the row shows.                            *)
LEMMA PhotographsServe ==
  ASSUME IInv, Current, NEW w \in Workers,
         UploadProof(w) \/ RejectProof(w) \/ VerifyProof(w) \/ ApproveFirst(w)
  PROVE  Serves(w)
<1> DEFINE o == job[w].order
<1>0. /\ job[w].copy # None /\ job[w].copy = row[o] /\ o \in Orders
      /\ row \in [Orders -> Row] /\ past \in [Orders -> Past]
  BY HeldCopy DEF Current, GoodCopy, UploadProof, RejectProof, VerifyProof, ApproveFirst,
     Holds, IInv, TypeOK
<1>1. ASSUME \A p \in Orders : row'[p].status = row[p].status,
             \A p \in Orders \ {o} : row'[p] = row[p],
             ~row'[o].verified \/ row'[o].proof \in past'[o].checked,
             job'[w].copy = None
      PROVE  Serves(w)
  BY <1>1 DEF Serves, Follows, Boxes, GoodCopy
<1>2. CASE UploadProof(w)
  <2>1. ~row'[o].verified
    BY <1>0, <1>2 DEF UploadProof, Put, Row
  <2>2. job'[w].copy = None
    BY <1>2 DEF UploadProof, Idle, IInv, TypeOK
  <2>3. \A p \in Orders : row'[p].status = row[p].status /\ (p # o => row'[p] = row[p])
    BY <1>0, <1>2 DEF UploadProof, Row
  <2> QED BY <1>1, <2>1, <2>2, <2>3
<1>3. CASE RejectProof(w)
  <2>1. ~row'[o].verified
    BY <1>0, <1>3 DEF RejectProof, Put, Row
  <2>2. job'[w].copy = None
    BY <1>3 DEF RejectProof, Then, IInv, TypeOK
  <2>3. \A p \in Orders : row'[p].status = row[p].status /\ (p # o => row'[p] = row[p])
    BY <1>0, <1>3 DEF RejectProof, Row
  <2> QED BY <1>1, <2>1, <2>2, <2>3
<1>4. ASSUME NEW next, Check(w, next), next.copy = None
      PROVE  Serves(w)
  <2>1. row'[o].proof \in past'[o].checked
    BY <1>0, <1>4 DEF Check, Row, Past
  <2> QED BY <1>1, <1>4, <2>1, <1>0 DEF Check, IInv, TypeOK, Row
<1>5. CASE VerifyProof(w)
  BY <1>4, <1>5 DEF VerifyProof, Idle
<1>6. CASE ApproveFirst(w)
  BY <1>4, <1>6 DEF ApproveFirst, Then
<1> QED BY <1>2, <1>3, <1>5, <1>6

LEMMA ContinueServes ==
  ASSUME IInv, Current, NEW w \in Workers, Continue(w)
  PROVE  Serves(w)
<1> USE DEF IInv, TypeOK
<1>1. CASE Reload(w)
  BY <1>1, ReloadServes
<1>2. CASE Move(w)
  <2>1. job[w].order \in Orders /\ job[w].copy = row[job[w].order]
    BY <1>2, HeldCopy DEF Move, Moving, Current, GoodCopy
  <2> QED BY <1>2, <2>1, TransitionServes DEF Move
<1>3. CASE Refuse(w) \/ BadImage(w) \/ NobodyAvailable(w)
  <2>1. job'[w] = Idle /\ row' = row
    BY <1>3 DEF Refuse, BadImage, NobodyAvailable
  <2> QED BY <2>1, LookingServes DEF GoodCopy, Idle
<1>4. CASE UploadProof(w) \/ RejectProof(w) \/ VerifyProof(w) \/ ApproveFirst(w)
  BY <1>4, PhotographsServe
<1>5. CASE \/ UploadHandover(w) \/ DemoPay(w)
           \/ \E b \in Bakers : AssignBaker(w, b) \/ TransferBaker(w, b)
           \/ \E d \in Riders : AssignRider(w, d)
           \/ \E t \in Txns : CreatePaymentOrder(w, t)
  <2>1. job'[w].copy = None
    <3>1. \A x, y : Idle.copy = None /\ Then(x, y).copy = None
      BY DEF Idle, Then
    <3>2. CASE UploadHandover(w)
      BY <3>1, <3>2 DEF UploadHandover
    <3>3. CASE DemoPay(w)
      BY <3>1, <3>3 DEF DemoPay
    <3>4. CASE \E b \in Bakers : AssignBaker(w, b) \/ TransferBaker(w, b)
      BY <3>1, <3>4 DEF AssignBaker, auto_assign_baker, admin_assign_baker, TransferBaker, SetBaker
    <3>5. CASE \E d \in Riders : AssignRider(w, d)
      BY <3>1, <3>5 DEF AssignRider
    <3>6. CASE \E t \in Txns : CreatePaymentOrder(w, t)
      BY <3>1, <3>6 DEF CreatePaymentOrder
    <3> QED BY <1>5, <3>2, <3>3, <3>4, <3>5, <3>6
  <2>2. \A p \in Orders : /\ row'[p].status = row[p].status
                          /\ row'[p].verified = row[p].verified
                          /\ row'[p].proof = row[p].proof
    <3>1. CASE UploadHandover(w)
      BY <3>1 DEF UploadHandover, Row
    <3>2. CASE DemoPay(w)
      BY <3>2 DEF DemoPay, Row
    <3>3. CASE \E b \in Bakers : AssignBaker(w, b) \/ TransferBaker(w, b)
      BY <3>3 DEF AssignBaker, auto_assign_baker, admin_assign_baker, TransferBaker, SetBaker, Row
    <3>4. CASE \E d \in Riders : AssignRider(w, d)
      BY <3>4 DEF AssignRider, Row
    <3>5. CASE \E t \in Txns : CreatePaymentOrder(w, t)
      BY <3>5 DEF CreatePaymentOrder, Row
    <3> QED BY <1>5, <3>1, <3>2, <3>3, <3>4, <3>5
  <2> QED BY <2>1, <2>2, WritingServes
<1>6. CASE ReleaseForProduction(w)
  <2> DEFINE o == job[w].order
  <2>1. o \in Orders /\ row[o].status = "RECEIVED"
    BY <1>6, HeldCopy DEF ReleaseForProduction, Holds, Current, GoodCopy
  <2>2. <<"RECEIVED", "CONFIRMED">> \in VALID_TRANSITIONS
    BY DEF VALID_TRANSITIONS
  <2>3. /\ row'[o].status = "CONFIRMED"
        /\ \A p \in Orders : /\ p # o => row'[p] = row[p]
                             /\ row'[p].verified = row[p].verified
                             /\ row'[p].proof = row[p].proof
        /\ job'[w].copy = None
    BY <1>6, <2>1 DEF ReleaseForProduction, Then, Row
  <2> QED BY <2>1, <2>2, <2>3 DEF Serves, Follows, Boxes, GoodCopy
<1> QED BY <1>1, <1>2, <1>3, <1>4, <1>5, <1>6 DEF Continue

(* A step of the only handler, or one that moves neither row nor history.  *)
LEMMA AloneServes ==
  ASSUME \A v, w \in Workers : v = w, IInv, Current, [Next]_vars
  PROVE  Current' /\ \A o \in Orders : Follows(o) /\ Boxes(o)
<1>1. CASE \E w \in Workers : Start(w) \/ Continue(w)
  <2>1. PICK w \in Workers : Serves(w)
    BY <1>1, StartServes, ContinueServes
  <2> QED BY <2>1 DEF Serves, Current
<1>2. CASE Crash
  BY <1>2 DEF Crash, Current, GoodCopy, Idle, Follows, Boxes
<1>3. CASE UNCHANGED <<row, job, past>>
  BY <1>3 DEF Current, GoodCopy, Follows, Boxes
<1> QED BY <1>1, <1>2, <1>3 DEF Next, vars, CustomerPays, AttemptFails

LEMMA AloneIsCurrent ==
  ASSUME \A v, w \in Workers : v = w
  PROVE  Spec => []Current
<1>1. Init => Current
  BY DEF Init, Current, GoodCopy, Idle
<1>2. IInv /\ Current /\ [Next]_vars => Current'
  BY AloneServes
<1> QED BY <1>1, <1>2, Invariance, PTL DEF Spec

(* StatusFollowsTable, for handlers that run one at a time: no route, staff *)
(* command, engine or callback moves an order where the table does not.    *)
THEOREM TableIsFollowed ==
  ASSUME \A v, w \in Workers : v = w
  PROVE  Spec => StatusFollowsTable
<1>1. ASSUME IInv, Current, [Next]_vars
      PROVE  \A o \in Orders :
               row[o].status # row'[o].status =>
                 <<row[o].status, row'[o].status>> \in VALID_TRANSITIONS
  BY <1>1, AloneServes DEF Follows
<1> QED BY <1>1, AloneIsCurrent, Invariance, PTL DEF Spec, StatusFollowsTable

(* ApprovedIsInTheBox, for handlers that run one at a time: the photograph *)
(* that somebody approved is the one that is on the order.                 *)
THEOREM ApprovedIsKept ==
  ASSUME \A v, w \in Workers : v = w
  PROVE  Spec => []ApprovedIsInTheBox
<1>1. ASSUME Init
      PROVE  ApprovedIsInTheBox
  <2>1. \A collected : ~NewRow(collected).verified /\ ~LegacyRow(collected).verified
    BY DEF NewRow, LegacyRow
  <2>2. PICK legacy \in SUBSET LegacyOrders, pickup \in [Orders -> BOOLEAN] :
          row = [o \in Orders |-> IF o \in legacy THEN LegacyRow(pickup[o])
                                                  ELSE NewRow(pickup[o])]
    BY <1>1 DEF Init
  <2> QED BY <2>1, <2>2 DEF ApprovedIsInTheBox
<1>2. ASSUME IInv, Current, ApprovedIsInTheBox, [Next]_vars
      PROVE  ApprovedIsInTheBox'
  <2>1. \A o \in Orders : Boxes(o)
    BY <1>2, AloneServes
  <2>2. \A o \in Orders : past[o].checked \subseteq past'[o].checked
    <3>1. CASE Step
      BY <1>2, <3>1 DEF Step, Advance, Grown, IInv, TypeOK
    <3>2. CASE Quiet
      BY <3>2 DEF Quiet
    <3> QED BY <1>2, <3>1, <3>2, NextIsStep
  <2> QED BY <1>2, <2>1, <2>2 DEF ApprovedIsInTheBox, Boxes
<1> QED BY <1>1, <1>2, AloneIsCurrent, Invariance, PTL DEF Spec

(* PackedWasChecked, for handlers that run one at a time: the photograph a *)
(* cake is packed on was approved, that one and not an earlier one.        *)
THEOREM CheckedFirst ==
  ASSUME \A v, w \in Workers : v = w
  PROVE  Spec => PackedWasChecked
<1>1. ASSUME IInv, Current, ApprovedIsInTheBox', [Next]_vars
      PROVE  \A o \in Orders :
               row[o].status # "PACKAGED" /\ row'[o].status = "PACKAGED" =>
                 row'[o].proof \in past'[o].checked
  BY <1>1, AloneServes DEF Follows, ApprovedIsInTheBox
<1> QED BY <1>1, AloneIsCurrent, ApprovedIsKept, Invariance, PTL DEF Spec, PackedWasChecked
-----------------------------------------------------------------------------
(* Money, for handlers that run one at a time, in a shop that does not     *)
(* simulate payments and whose admin marks orders paid or pending.  Of an  *)
(* order that was not placed for cash, an id PayU has heard of is the one  *)
(* on it.                                                                  *)

Owns(o) == /\ ~past[o].cash => row[o].payment \in {"PENDING", "PAID"}
           /\ row[o].txn # None => OrderOf[row[o].txn] = o

Named(t) == payu[t] # "unused" /\ ~past[OrderOf[t]].cash => row[OrderOf[t]].txn = t

Honest == (\A o \in Orders : Owns(o)) /\ (\A t \in Txns : Named(t))

(* The payment and the id of an order are not touched. *)
Unbilled == /\ \A o \in Orders : /\ row'[o].payment = row[o].payment
                                 /\ row'[o].txn = row[o].txn
            /\ \A t \in Txns : payu[t] = "unused" => payu'[t] = "unused"

PlacedAs == \A o \in Orders : past'[o].cash = past[o].cash

LEMMA UnbilledIsHonest ==
  ASSUME Honest, PlacedAs, Unbilled
  PROVE  Honest'
BY OrdersAssumption DEF Honest, Owns, Named, PlacedAs, Unbilled

(* One order is paid, or written in some way that names no other id. *)
LEMMA BilledIsHonest ==
  ASSUME Honest, PlacedAs, NEW o \in Orders, Owns(o)',
         \A p \in Orders \ {o} : row'[p] = row[p],
         \A t \in Txns : OrderOf[t] # o => payu'[t] = payu[t],
         \A t \in Txns : OrderOf[t] = o => Named(t)'
  PROVE  Honest'
BY OrdersAssumption DEF Honest, Owns, Named, PlacedAs

LEMMA TransitionUnbilled ==
  ASSUME IInv, NEW w \in Workers, NEW o \in Orders, NEW copy, NEW task,
         Transition(w, o, copy, task)
  PROVE  Unbilled
BY DEF Transition, Unbilled, IInv, TypeOK, Row

LEMMA StartIsHonest ==
  ASSUME AdminPayments \subseteq {"PENDING", "PAID"},
         IInv, Honest, PlacedAs, NEW w \in Workers, Start(w)
  PROVE  Honest'
<1> USE DEF IInv, TypeOK
<1>1. CASE \E o \in Orders, request \in Requests : Arrive(w, o, request)
  BY <1>1, UnbilledIsHonest DEF Arrive, Unbilled
<1>2. CASE \E o \in Orders, new \in Patches : PatchStatus(w, o, new)
  BY <1>2, TransitionUnbilled, UnbilledIsHonest DEF PatchStatus
<1>3. ASSUME NEW o \in Orders, NEW new \in AdminPayments, UpdatePaymentStatus(w, o, new)
      PROVE  Honest'
  <2>1. /\ row'[o].payment = new /\ row'[o].txn = row[o].txn /\ payu' = payu
        /\ \A p \in Orders \ {o} : row'[p] = row[p]
    BY <1>3 DEF UpdatePaymentStatus, Row
  <2>3. Owns(o)'
    BY <2>1 DEF Honest, Owns, PlacedAs
  <2>4. \A t \in Txns : OrderOf[t] = o => Named(t)'
    BY <2>1 DEF Honest, Named, PlacedAs
  <2> QED BY <2>1, <2>3, <2>4, BilledIsHonest
<1>4. ASSUME NEW t \in Txns, PayuCallback(w, t)
      PROVE  Honest'
  <2> DEFINE o == OrderOf[t]
  <2>1. /\ o \in Orders /\ row'[o].payment = "PAID" /\ row'[o].txn = row[o].txn
        /\ payu' = payu /\ \A p \in Orders \ {o} : row'[p] = row[p]
    BY <1>4, OrdersAssumption DEF PayuCallback, Row, Past
  <2>2. Owns(o)' /\ \A u \in Txns : OrderOf[u] = o => Named(u)'
    BY <2>1 DEF Honest, Owns, Named, PlacedAs
  <2> QED BY <2>1, <2>2, BilledIsHonest
<1> QED BY <1>1, <1>2, <1>3, <1>4 DEF Start

(* Checkout reuses the id while it is outstanding.  It mints another only  *)
(* for a cash order, or for one whose ids PayU never heard of.             *)
LEMMA CheckoutIsHonest ==
  ASSUME IInv, Current, Honest, PlacedAs, NEW w \in Workers, NEW t \in Txns,
         CreatePaymentOrder(w, t)
  PROVE  Honest'
<1> USE DEF IInv, TypeOK
<1>0. PICK o \in Orders : o = job[w].order
  BY HeldCopy DEF CreatePaymentOrder, Holds
<1>1. job[w].copy = row[o] /\ row[o] \in Row /\ t \in IssuedTxn(o, row[o])
  BY <1>0 DEF CreatePaymentOrder, Holds, Current, GoodCopy
<1>2. /\ row'[o].txn = t /\ row'[o].payment = row[o].payment
      /\ \A p \in Orders \ {o} : row'[p] = row[p]
      /\ \A u \in Txns \ {t} : payu'[u] = payu[u]
      /\ past' = past
      /\ row[o].payment # "PAID"
  BY <1>0, <1>1 DEF CreatePaymentOrder, Holds, Put, Row, JobSound
<1>3. OrderOf[t] = o
  BY <1>1, NoneAssumption DEF IssuedTxn, Reusable, Honest, Owns
<1>4. Owns(o)'
  BY <1>2, <1>3 DEF Honest, Owns
<1>5. ASSUME NEW u \in Txns, OrderOf[u] = o
      PROVE  Named(u)'
  <2>1. CASE u = t
    BY <1>2, <1>3, <2>1 DEF Named
  <2>2. CASE u # t /\ Reusable(row[o])
    <3>1. row[o].txn = t
      BY <1>1, <2>2 DEF IssuedTxn
    <3> QED BY <1>2, <1>5, <2>2, <3>1 DEF Honest, Named
  <2>3. CASE u # t /\ ~Reusable(row[o])
    <3>1. row[o].txn = None \/ past[o].cash
      BY <1>1, <1>2, <2>3 DEF Reusable, Honest, Owns
    <3>2. u # None
      BY NoneAssumption
    <3> QED BY <1>2, <1>5, <2>3, <3>1, <3>2 DEF Honest, Named
  <2> QED BY <2>1, <2>2, <2>3
<1>6. \A u \in Txns : OrderOf[u] # o => payu'[u] = payu[u]
  BY <1>2, <1>3
<1> QED BY <1>2, <1>4, <1>5, <1>6, BilledIsHonest

LEMMA ContinueIsHonest ==
  ASSUME IInv, Current, Honest, PlacedAs, NEW w \in Workers, Continue(w), ~DemoPay(w)
  PROVE  Honest'
<1> USE DEF IInv, TypeOK
<1>1. CASE Reload(w) \/ Refuse(w) \/ BadImage(w) \/ NobodyAvailable(w)
  BY <1>1, UnbilledIsHonest DEF Reload, Refuse, BadImage, NobodyAvailable, Unbilled
<1>2. CASE Move(w)
  BY <1>2, TransitionUnbilled, UnbilledIsHonest, HeldCopy DEF Move, Moving
<1>3. CASE UploadProof(w) \/ RejectProof(w) \/ UploadHandover(w)
  <2>1. CASE UploadProof(w)
    BY <2>1, UnbilledIsHonest DEF UploadProof, Unbilled, Row
  <2>2. CASE RejectProof(w)
    BY <2>2, UnbilledIsHonest DEF RejectProof, Unbilled, Row
  <2>3. CASE UploadHandover(w)
    BY <2>3, UnbilledIsHonest DEF UploadHandover, Unbilled, Row
  <2> QED BY <1>3, <2>1, <2>2, <2>3
<1>4. CASE VerifyProof(w) \/ ApproveFirst(w)
  BY <1>4, UnbilledIsHonest DEF VerifyProof, ApproveFirst, Check, Unbilled, Row
<1>5. CASE \E b \in Bakers : AssignBaker(w, b) \/ TransferBaker(w, b)
  BY <1>5, UnbilledIsHonest DEF AssignBaker, auto_assign_baker, admin_assign_baker,
     TransferBaker, SetBaker, Unbilled, Row
<1>6. CASE \E d \in Riders : AssignRider(w, d)
  BY <1>6, UnbilledIsHonest DEF AssignRider, Unbilled, Row
<1>7. CASE \E t \in Txns : CreatePaymentOrder(w, t)
  BY <1>7, CheckoutIsHonest
<1>9. CASE ReleaseForProduction(w)
  BY <1>9, UnbilledIsHonest DEF ReleaseForProduction, Unbilled, Row
<1> QED BY <1>1, <1>2, <1>3, <1>4, <1>5, <1>6, <1>7, <1>9 DEF Continue

(* Nobody simulates a payment where no such request arrives. *)
NoDemo == \A w \in Workers : job[w].task # "DEMO_PAY"

LEMMA NoDemoHolds ==
  ASSUME "DemoPay" \notin Requests
  PROVE  Spec => []NoDemo
<1>1. Init => NoDemo
  BY DEF Init, Idle, NoDemo
<1>2. ASSUME IInv, NoDemo, [Next]_vars
      PROVE  NoDemo'
  <2> USE DEF IInv, TypeOK
  <2>1. \A o : \A task \in Tasks \ {"DEMO_PAY"} :
          Then(task, o).task # "DEMO_PAY" /\ Idle.task # "DEMO_PAY"
    BY DEF Then, Idle
  <2>3. ASSUME NEW w \in Workers, NEW o \in Orders, NEW copy, NEW task,
               Transition(w, o, copy, task)
        PROVE  NoDemo'
    <3>1. Continuation(task, o, copy).task # "DEMO_PAY"
      BY DEF Continuation, Then, Idle
    <3> QED BY <1>2, <2>3, <3>1 DEF Transition, NoDemo
  <2>4. ASSUME NEW w \in Workers, NEW o \in Orders, NEW request \in Requests,
               Arrive(w, o, request)
        PROVE  NoDemo'
    <3>1. Goal[request] # "DEMO_PAY"
      BY TrafficAssumption DEF Goal, AllRequests
    <3> QED BY <1>2, <2>4, <3>1 DEF Arrive, NoDemo
  <2>5. ASSUME NEW w \in Workers, Start(w)
        PROVE  NoDemo'
    <3>1. CASE \E o \in Orders, new \in Patches : PatchStatus(w, o, new)
      BY <3>1, <2>3 DEF PatchStatus
    <3>2. CASE \E o \in Orders, new \in AdminPayments : UpdatePaymentStatus(w, o, new)
      BY <1>2, <3>2 DEF UpdatePaymentStatus, NoDemo
    <3>3. CASE \E t \in Txns : PayuCallback(w, t)
      BY <3>3, <1>2 DEF PayuCallback, Then, NoDemo
    <3> QED BY <2>4, <2>5, <3>1, <3>2, <3>3 DEF Start
  <2>6. ASSUME NEW w \in Workers, Reload(w)
        PROVE  NoDemo'
    <3> DEFINE t == Resumed(job[w].task, row[job[w].order])
               go == [job[w] EXCEPT !.task = t, !.copy = row[job[w].order]]
    <3>1. t # "DEMO_PAY"
      BY <1>2 DEF NoDemo, Resumed
    <3>2. go.task # "DEMO_PAY" /\ Idle.task # "DEMO_PAY"
      <4>1. job[w] \in Job
        BY <1>2
      <4>2. go.task = t
        BY <4>1 DEF Job
      <4> QED BY <3>1, <4>2 DEF Idle
    <3>3. job'[w] \in {go, Idle}
      BY <1>2, <2>6 DEF Reload
    <3> HIDE DEF go
    <3>4. job'[w].task # "DEMO_PAY"
      BY <3>2, <3>3
    <3>5. \A v \in Workers \ {w} : job'[v] = job[v]
      BY <1>2, <2>6 DEF Reload
    <3> QED BY <1>2, <3>4, <3>5 DEF NoDemo
  <2>7. ASSUME NEW w \in Workers, Continue(w)
        PROVE  NoDemo'
    <3>1. CASE Move(w)
      BY <3>1, <2>3, HeldCopy, <1>2 DEF Move, Moving
    <3>2. CASE Refuse(w) \/ BadImage(w) \/ NobodyAvailable(w) \/ UploadProof(w)
               \/ UploadHandover(w)
      BY <3>2, <1>2 DEF NoDemo, Refuse, BadImage, NobodyAvailable, UploadProof, UploadHandover, Idle
    <3>3. CASE RejectProof(w) \/ VerifyProof(w) \/ ApproveFirst(w)
      BY <3>3, <1>2 DEF NoDemo, RejectProof, VerifyProof, ApproveFirst, Check, Then, Idle
    <3>4. CASE \E b \in Bakers : AssignBaker(w, b) \/ TransferBaker(w, b)
      BY <3>4, <1>2 DEF NoDemo, AssignBaker, auto_assign_baker, admin_assign_baker,
         TransferBaker, SetBaker, Then, Idle
    <3>5. CASE \E d \in Riders : AssignRider(w, d)
      BY <3>5, <1>2 DEF NoDemo, AssignRider, Idle
    <3>6. CASE \E t \in Txns : CreatePaymentOrder(w, t)
      BY <3>6, <1>2 DEF NoDemo, CreatePaymentOrder, Idle
    <3>7. CASE DemoPay(w) \/ ReleaseForProduction(w)
      BY <3>7, <1>2 DEF NoDemo, DemoPay, ReleaseForProduction, Then
    <3> QED BY <2>6, <2>7, <3>1, <3>2, <3>3, <3>4, <3>5, <3>6, <3>7 DEF Continue
  <2>8. CASE Crash \/ UNCHANGED vars \/ \E t \in Txns : CustomerPays(t) \/ AttemptFails(t)
    BY <1>2, <2>8 DEF Crash, vars, CustomerPays, AttemptFails, NoDemo, Idle
  <2> QED BY <1>2, <2>5, <2>7, <2>8 DEF Next
<1> QED BY <1>1, <1>2, Invariance, PTL DEF Spec

(* MoneyHonoured, for handlers that run one at a time in a shop that takes *)
(* payments through PayU alone: the callback of a payment PayU took finds  *)
(* its own id on the order, unless the order was placed for cash.          *)
THEOREM MoneyIsHonoured ==
  ASSUME \A v, w \in Workers : v = w,
         AdminPayments \subseteq {"PENDING", "PAID"},
         "DemoPay" \notin Requests
  PROVE  Spec => []MoneyHonoured
<1>1. ASSUME Init
      PROVE  Honest
  <2>1. PICK legacy \in SUBSET LegacyOrders, pickup \in [Orders -> BOOLEAN] :
          /\ row  = [o \in Orders |-> IF o \in legacy THEN LegacyRow(pickup[o])
                                                     ELSE NewRow(pickup[o])]
          /\ past = [o \in Orders |->
                       [cash |-> o \in legacy, paid |-> o \in legacy, settled |-> FALSE,
                        checked |-> {}, rejected |-> {}, shots |-> 0]]
    BY <1>1 DEF Init
  <2>2. \A c : /\ NewRow(c).payment = "PENDING" /\ NewRow(c).txn = None
               /\ LegacyRow(c).txn = None
    BY DEF NewRow, LegacyRow
  <2> QED BY <1>1, <2>1, <2>2 DEF Init, Honest, Owns, Named
<1>2. ASSUME IInv, Current, NoDemo, Honest, [Next]_vars
      PROVE  Honest'
  <2>1. PlacedAs
    <3>1. CASE Step
      BY <1>2, <3>1 DEF Step, Advance, Grown, IInv, TypeOK, PlacedAs
    <3>2. CASE Quiet
      BY <3>2 DEF Quiet, PlacedAs
    <3> QED BY <1>2, <3>1, <3>2, NextIsStep
  <2>2. \A w \in Workers : ~DemoPay(w)
    BY <1>2 DEF NoDemo, DemoPay, Holds
  <2>3. CASE \E w \in Workers : Start(w) \/ Continue(w)
    BY <1>2, <2>1, <2>2, <2>3, StartIsHonest, ContinueIsHonest
  <2>4. CASE \E t \in Txns : CustomerPays(t) \/ AttemptFails(t)
    BY <1>2, <2>1, <2>4, UnbilledIsHonest DEF CustomerPays, AttemptFails, Unbilled, IInv, TypeOK
  <2>5. CASE Crash \/ UNCHANGED vars
    BY <1>2, <2>1, <2>5, UnbilledIsHonest DEF Crash, vars, Unbilled
  <2> QED BY <1>2, <2>3, <2>4, <2>5 DEF Next
<1>3. Honest => MoneyHonoured
  BY DEF Honest, Named, MoneyHonoured
<1> QED BY <1>1, <1>2, <1>3, AloneIsCurrent, NoDemoHolds, Invariance, PTL DEF Spec
=============================================================================
