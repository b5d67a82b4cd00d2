------------------------- MODULE LiveTrackingProofs -------------------------
(***************************************************************************)
(* For any number of deliveries, riders and connections: who still reports *)
(* positions once a delivery has ended or changed hands, who watches, and  *)
(* what the fleet view holds.                                              *)
(*                                                                         *)
(* A socket is let in on what the orders table says, and the table moves   *)
(* on without it.  The argument is that every change of the table that     *)
(* makes a socket wrong leaves a closing on its way, and that a closing    *)
(* goes away only by being done: no other coroutine takes it from the loop.*)
(* The same holds of the word to the customers who watch.                  *)
(*                                                                         *)
(* What the fleet is told of a delivery it is told in the order of the     *)
(* changes, when a delivery moves on after the last answer; so the last    *)
(* word on a delivery that is not on the road, said or on its way, is that *)
(* it ended.  Once it is said the delivery is remembered as completed, and *)
(* a snapshot read before cannot bring it back; one read later is without  *)
(* it already.                                                             *)
(***************************************************************************)
EXTENDS LiveTracking, FiniteSetTheorems, SequenceTheorems, TLAPS

Stamps == [Orders -> Riders \cup {None}]

Typed == /\ status \in [Orders -> Statuses] /\ rider \in Stamps
         /\ meta \in Stamps
         /\ job  \in [Workers -> Job]
         /\ loop \in Seq(Coroutine)
         /\ sock \in [Socks -> Sock]

(* A connection that still may report: asking, or registered and not       *)
(* revoked, and no closing has missed it.                                  *)
Live(s) == sock[s].at # "OFF" /\ ~sock[s].revoked /\ ~sock[s].late

Right(s) == /\ status[sock[s].order] = "OUT_FOR_DELIVERY"
            /\ rider[sock[s].order] = sock[s].who \/ sock[s].passed

SocketInv == \A s \in Socks :
  Live(s) => /\ sock[s].order \in Orders
             /\ Right(s) \/ Closing(sock[s].order)

JobInv == \A w \in Workers : job[w].task # "IDLE" => job[w].order \in Orders

IInv == Typed /\ JobInv /\ SocketInv

StillClosing == \A o \in Orders : Closing(o) => Closing(o)'
-----------------------------------------------------------------------------
(* What is left of a sequence when one element is removed. *)
LEMMA RemoveAtKeeps ==
  ASSUME NEW S, NEW seq \in Seq(S), NEW i \in 1 .. Len(seq)
  PROVE  /\ RemoveAt(seq, i) \in Seq(S)
         /\ \A j \in 1 .. Len(seq) : j # i =>
              \E k \in 1 .. Len(RemoveAt(seq, i)) : RemoveAt(seq, i)[k] = seq[j]
<1> DEFINE a == SubSeq(seq, 1, i - 1)
           b == SubSeq(seq, i + 1, Len(seq))
<1>1. a \in Seq(S) /\ b \in Seq(S)
  BY SubSeqProperties
<1>2. /\ Len(a) = i - 1 /\ \A k \in 1 .. i - 1 : a[k] = seq[k]
      /\ Len(b) = Len(seq) - i /\ \A k \in 1 .. Len(seq) - i : b[k] = seq[i + k]
  BY SubSeqProperties
<1>3. /\ Len(a \o b) = Len(a) + Len(b)
      /\ \A k \in 1 .. Len(a) + Len(b) :
           (a \o b)[k] = IF k <= Len(a) THEN a[k] ELSE b[k - Len(a)]
  <2> HIDE DEF a, b
  <2> QED BY <1>1, ConcatProperties
<1>4. RemoveAt(seq, i) = a \o b
  BY DEF RemoveAt
<1> HIDE DEF a, b
<1>5. ASSUME NEW j \in 1 .. Len(seq), j # i
      PROVE  \E k \in 1 .. Len(a \o b) : (a \o b)[k] = seq[j]
  <2>0. i \in Int /\ j \in Int /\ Len(seq) \in Nat /\ 1 <= i /\ i <= Len(seq)
        /\ 1 <= j /\ j <= Len(seq)
    BY LenProperties
  <2>1. CASE j < i
    <3>1. j \in 1 .. Len(a \o b) /\ (a \o b)[j] = seq[j]
      BY <2>0, <2>1, <1>2, <1>3
    <3> QED BY <3>1
  <2>2. CASE j > i
    <3>1. /\ j - 1 \in 1 .. Len(a) + Len(b) /\ ~(j - 1 <= Len(a))
          /\ (j - 1) - Len(a) = j - i
          /\ j - i \in 1 .. Len(seq) - i /\ i + (j - i) = j
      BY <2>0, <2>2, <1>2
    <3>2. (a \o b)[j - 1] = b[(j - 1) - Len(a)]
      BY <3>1, <1>3
    <3>3. b[j - i] = seq[i + (j - i)]
      BY <3>1, <1>2
    <3>4. j - 1 \in 1 .. Len(a \o b) /\ (a \o b)[j - 1] = seq[j]
      BY <3>1, <3>2, <3>3, <1>3
    <3> QED BY <3>4
  <2> QED BY <2>0, <2>1, <2>2, <1>5
<1>6. a \o b \in Seq(S)
  BY <1>1, ConcatProperties
<1> QED BY <1>4, <1>5, <1>6
-----------------------------------------------------------------------------
(* A handler's own step takes no closing away, if it goes on with its own. *)
LEMMA JobStep ==
  ASSUME IInv, NEW w \in Workers, NEW j \in Job,
         job' = [job EXCEPT ![w] = j], loop' = loop,
         Closes(job[w]) => Closes(j) /\ j.order = job[w].order
  PROVE  StillClosing
BY DEF IInv, Typed, StillClosing, Closing

(* What the table says of a live socket stays so, or a closing is left. *)
LEMMA TableStep ==
  ASSUME IInv, StillClosing, sock' = sock,
         \A o \in Orders : status[o] = "OUT_FOR_DELIVERY" =>
           \/ Closing(o)'
           \/ status'[o] = "OUT_FOR_DELIVERY" /\ rider'[o] = rider[o]
  PROVE  SocketInv'
BY DEF IInv, SocketInv, StillClosing, Live, Right

(* A handler's step, on the table or after it. *)
LEMMA HandlerStep ==
  ASSUME IInv, NEW w \in Workers, NEW j \in Job,
         job' = [job EXCEPT ![w] = j], UNCHANGED <<loop, sock>>,
         status' \in [Orders -> Statuses], rider' \in Stamps,
         meta' \in Stamps,
         j.task # "IDLE" => j.order \in Orders,
         Closes(job[w]) => Closes(j) /\ j.order = job[w].order,
         \A o \in Orders : status[o] = "OUT_FOR_DELIVERY" =>
           \/ Closes(j) /\ j.order = o
           \/ status'[o] = "OUT_FOR_DELIVERY" /\ rider'[o] = rider[o]
  PROVE  IInv'
<1>1. Typed' /\ JobInv'
  BY DEF IInv, Typed, JobInv
<1>2. StillClosing
  BY JobStep
<1>3. \A o \in Orders : Closes(j) /\ j.order = o => Closing(o)'
  BY DEF Closing, IInv, Typed
<1>4. SocketInv'
  BY <1>2, <1>3, TableStep
<1> QED BY <1>1, <1>4 DEF IInv

(* A socket's own step makes no live socket of one that was not. *)
LEMMA SocketStep ==
  ASSUME IInv, NEW s \in Socks, NEW new \in Sock,
         sock' = [sock EXCEPT ![s] = new],
         UNCHANGED <<status, rider, meta, job, loop>>,
         \/ new.at = "OFF"
         \/ /\ sock[s].at # "OFF"
            /\ new.order = sock[s].order /\ new.who = sock[s].who
            /\ new.revoked = sock[s].revoked /\ new.late = sock[s].late
            /\ new.passed = sock[s].passed
         \/ /\ new.order \in Orders
            /\ status[new.order] = "OUT_FOR_DELIVERY" /\ rider[new.order] = new.who
  PROVE  IInv'
<1>1. \A o : Closing(o) <=> Closing(o)'
  BY DEF Closing
<1>2. Typed' /\ JobInv'
  BY DEF IInv, Typed, JobInv
<1>3. SocketInv'
  BY <1>1 DEF IInv, Typed, SocketInv, Live, Right
<1> QED BY <1>2, <1>3 DEF IInv

(* All sockets of an order are closed at once, and its closing is done. *)
LEMMA ClosingStep ==
  ASSUME IInv, NEW i \in 1 .. Len(loop),
         sock' = CloseSockets(loop[i].order), loop' = RemoveAt(loop, i),
         UNCHANGED <<status, rider, meta, job>>
  PROVE  IInv'
<1> DEFINE o == loop[i].order
<1>0. /\ loop \in Seq(Coroutine) /\ loop[i] \in Coroutine /\ o \in Orders
      /\ \A s \in Socks : sock[s] \in Sock
  <2>1. loop \in Seq(Coroutine) /\ \A s \in Socks : sock[s] \in Sock
    BY DEF IInv, Typed
  <2>2. loop[i] \in Coroutine
    BY <2>1, ElementOfSeq
  <2> QED BY <2>1, <2>2 DEF Coroutine
<1>1. /\ loop' \in Seq(Coroutine)
      /\ \A j \in 1 .. Len(loop) : j # i => \E k \in 1 .. Len(loop') : loop'[k] = loop[j]
  BY <1>0, RemoveAtKeeps
<1>2. Typed' /\ JobInv'
  <2>1. ASSUME NEW s \in Socks
        PROVE  CloseSockets(o)[s] \in Sock
    <3>1. CASE sock[s].order # o
      BY <1>0, <3>1 DEF CloseSockets
    <3>2. CASE sock[s].order = o /\ sock[s].at = "ASKED"
      BY <1>0, <3>2 DEF CloseSockets, Sock
    <3>3. CASE sock[s].order = o /\ sock[s].at # "ASKED"
      BY <1>0, <3>3 DEF CloseSockets, Sock
    <3> QED BY <3>1, <3>2, <3>3
  <2>2. sock' \in [Socks -> Sock]
    BY <2>1 DEF CloseSockets
  <2> QED BY <1>1, <2>2 DEF IInv, Typed, JobInv
<1>3. \A p \in Orders : p # o /\ Closing(p) => Closing(p)'
  BY <1>1 DEF Closing
<1>4. ASSUME NEW s \in Socks, Live(s)'
      PROVE  /\ sock'[s].order \in Orders
             /\ Right(s)' \/ Closing(sock[s].order)'
  <2>1. sock[s].order # o
    BY <1>4 DEF Live, CloseSockets, IInv, Typed, Sock
  <2>2. sock'[s] = sock[s]
    BY <2>1 DEF CloseSockets
  <2> QED BY <1>3, <1>4, <2>1, <2>2 DEF IInv, SocketInv, Live, Right
<1>5. SocketInv'
  BY <1>4 DEF SocketInv
<1> QED BY <1>2, <1>5 DEF IInv
-----------------------------------------------------------------------------
LEMMA RequestsKeepIInv ==
  ASSUME IInv, NEW w \in Workers, Request(w)
  PROVE  IInv'
<1>0. Typed
  BY DEF IInv
<1>1. ASSUME NEW o \in Orders, SendOut(w, o)
      PROVE  IInv'
  <2> DEFINE j == Begin("START", o, rider[o], TRUE)
  <2>1. /\ j \in Job /\ j.order \in Orders /\ ~Closes(job[w])
    BY <1>0, <1>1 DEF SendOut, ChangeStatus, Typed, Stamps, Tasks, Job, Begin, Idle, Closes
  <2>2. /\ job' = [job EXCEPT ![w] = j]
        /\ UNCHANGED <<loop, sock, rider>>
        /\ status' \in [Orders -> Statuses] /\ rider' \in Stamps
        /\ meta' \in Stamps
        /\ \A p \in Orders : status[p] = "OUT_FOR_DELIVERY" => status'[p] = "OUT_FOR_DELIVERY"
    BY <1>0, <1>1 DEF SendOut, ChangeStatus, Typed, Statuses, redis, sockets
  <2> HIDE DEF j
  <2> QED BY <2>1, <2>2, HandlerStep
<1>2. ASSUME NEW o \in Orders, NEW new \in Statuses, EndDelivery(w, o, new)
      PROVE  IInv'
  <2> DEFINE j == Begin("STOP", o, None, TRUE)
  <2>1. /\ j \in Job /\ Closes(j) /\ j.order = o /\ ~Closes(job[w])
    BY <1>0, <1>2 DEF EndDelivery, ChangeStatus, Tasks, Job, Begin, Idle, Closes
  <2>2. /\ job' = [job EXCEPT ![w] = j]
        /\ UNCHANGED <<loop, sock, rider>>
        /\ status' \in [Orders -> Statuses] /\ rider' \in Stamps
        /\ meta' \in Stamps
        /\ \A p \in Orders : p # o => status'[p] = status[p]
    BY <1>0, <1>2 DEF EndDelivery, ChangeStatus, Typed, redis, sockets
  <2> HIDE DEF j
  <2> QED BY <2>1, <2>2, HandlerStep
<1>3. ASSUME NEW o \in Orders, NEW r \in Riders, ReadOrder(w, o, r)
      PROVE  IInv'
  <2>1. PICK task \in Readings : job' = [job EXCEPT ![w] = Begin(task, o, r, FALSE)]
    BY <1>3 DEF ReadOrder
  <2> DEFINE j == Begin(task, o, r, FALSE)
  <2>2. j \in Job /\ j.order \in Orders /\ ~Closes(job[w])
    BY <1>3 DEF ReadOrder, Tasks, Job, Begin, Idle, Closes
  <2>3. /\ job' = [job EXCEPT ![w] = j]
        /\ UNCHANGED <<loop, sock, status, rider>>
        /\ status' \in [Orders -> Statuses] /\ rider' \in Stamps /\ meta' \in Stamps
    BY <1>0, <1>3, <2>1 DEF ReadOrder, Typed, table, redis, sockets
  <2> HIDE DEF j
  <2> QED BY <2>2, <2>3, HandlerStep
<1>4. ASSUME NEW o \in Orders, AskStart(w, o)
      PROVE  IInv'
  <2> DEFINE j == Begin("START", o, rider[o], FALSE)
  <2>1. /\ j \in Job /\ j.order \in Orders /\ ~Closes(job[w])
    BY <1>0, <1>4 DEF AskStart, Typed, Stamps, Tasks, Job, Begin, Idle, Closes
  <2>2. /\ job' = [job EXCEPT ![w] = j]
        /\ UNCHANGED <<loop, sock, status, rider>>
        /\ status' \in [Orders -> Statuses] /\ rider' \in Stamps
        /\ meta' \in Stamps
    BY <1>0, <1>4 DEF AskStart, Typed, table, redis, sockets
  <2> HIDE DEF j
  <2> QED BY <2>1, <2>2, HandlerStep
<1>5. ASSUME NEW o \in Orders, AskStop(w, o)
      PROVE  IInv'
  <2> DEFINE j == Begin("STOP", o, None, FALSE)
  <2>1. /\ j \in Job /\ j.order \in Orders /\ ~Closes(job[w])
    BY <1>0, <1>5 DEF AskStop, Tasks, Job, Begin, Idle, Closes
  <2>2. /\ job' = [job EXCEPT ![w] = j]
        /\ UNCHANGED <<loop, sock, status, rider>>
        /\ status' \in [Orders -> Statuses] /\ rider' \in Stamps
        /\ meta' \in Stamps
    BY <1>0, <1>5 DEF AskStop, Typed, table, redis, sockets
  <2> HIDE DEF j
  <2> QED BY <2>1, <2>2, HandlerStep
<1> QED BY <1>1, <1>2, <1>3, <1>4, <1>5 DEF Request

(* The closing goes from the handler to the loop. *)
LEMMA DispatchKeepsIInv ==
  ASSUME IInv, NEW w \in Workers, Dispatch(w)
  PROVE  IInv'
<1> DEFINE c == [does |-> Said[job[w].task], order |-> job[w].order, at |-> "QUEUED"]
<1>0. /\ Typed /\ job[w].order \in Orders
      /\ job[w].task \in {"STARTED", "STOPPED", "SWAPPED"}
      /\ job' = [job EXCEPT ![w] = Idle] /\ loop' = Append(loop, c)
      /\ UNCHANGED <<status, rider, meta, sock>>
  BY DEF Dispatch, IInv, JobInv, Said, table, redis
<1>1. c \in Coroutine /\ (Closes(job[w]) => c.does # "START")
  BY <1>0 DEF Coroutine, Said, Closes
<1>2. /\ loop' \in Seq(Coroutine) /\ Len(loop') = Len(loop) + 1
      /\ loop'[Len(loop) + 1] = c
      /\ \A i \in 1 .. Len(loop) : loop'[i] = loop[i]
  <2> HIDE DEF c
  <2> QED BY <1>0, <1>1, AppendProperties DEF Typed
<1>3. Idle \in Job /\ Idle.task = "IDLE"
  BY DEF Idle, Job, Tasks
<1>4. Typed' /\ JobInv'
  BY <1>0, <1>2, <1>3 DEF IInv, Typed, JobInv
<1>5. ASSUME NEW o \in Orders, Closing(o)
      PROVE  Closing(o)'
  <2>0. Len(loop) \in Nat
    BY <1>0, LenProperties DEF Typed
  <2>1. CASE job[w].order = o /\ Closes(job[w])
    <3>1. Len(loop) + 1 \in 1 .. Len(loop')
      BY <1>2, <2>0
    <3>2. loop'[Len(loop) + 1].order = o /\ loop'[Len(loop) + 1].does # "START"
      BY <1>1, <1>2, <2>1
    <3> QED BY <3>1, <3>2 DEF Closing
  <2>2. CASE \E v \in Workers \ {w} : job[v].order = o /\ Closes(job[v])
    BY <2>2, <1>0 DEF Closing, Typed
  <2>3. CASE \E i \in 1 .. Len(loop) : loop[i].order = o /\ loop[i].does # "START"
    <3>1. 1 .. Len(loop) \subseteq 1 .. Len(loop')
      BY <1>2, <2>0
    <3> QED BY <2>3, <3>1, <1>2 DEF Closing
  <2> QED BY <1>5, <2>1, <2>2, <2>3 DEF Closing
<1>6. SocketInv'
  BY <1>0, <1>5, TableStep DEF StillClosing
<1> QED BY <1>4, <1>6 DEF IInv

(* Of the sockets whose rider is passed over nothing is claimed any more.  *)
LEMMA AcceptKeepsIInv ==
  ASSUME IInv, NEW w \in Workers, rider_self_accept(w)
  PROVE  IInv'
<1> DEFINE o == job[w].order
           r == job[w].who
<1>0. /\ Typed /\ job[w] \in Job /\ r \in Riders \cup {None} /\ Idle \in Job
      /\ Idle.task = "IDLE" /\ ~Closes(job[w])
      /\ \A s \in Socks : sock[s] \in Sock
  BY DEF IInv, Typed, rider_self_accept, Job, Idle, Tasks, Closes
<1>1. /\ rider' = [rider EXCEPT ![o] = r] /\ job' = [job EXCEPT ![w] = Idle]
      /\ UNCHANGED <<status, meta, loop>>
  BY DEF rider_self_accept, WriteRider, redis
<1>2. ASSUME NEW s \in Socks
      PROVE  /\ sock'[s] \in Sock
             /\ sock'[s].order = sock[s].order /\ sock'[s].who = sock[s].who
             /\ Live(s)' => Live(s)
             /\ sock[s].passed => sock'[s].passed
             /\ sock[s].order = o /\ rider[o] # r => sock'[s].passed
  <2> DEFINE b == sock[s].passed \/ (sock[s].order = o /\ rider[o] # r)
  <2>1. sock'[s] = [sock[s] EXCEPT !.passed = b]
    BY DEF rider_self_accept
  <2>2. b \in BOOLEAN
    BY <1>0 DEF Sock
  <2>3. sock[s].passed => b
    OBVIOUS
  <2>4. sock[s].order = o /\ rider[o] # r => b
    OBVIOUS
  <2> HIDE DEF b
  <2> QED BY <1>0, <2>1, <2>2, <2>3, <2>4 DEF Sock, Live
<1>3. sock' = [s \in Socks |-> sock'[s]]
  BY DEF rider_self_accept
<1>4. Typed' /\ JobInv'
  <2>1. sock' \in [Socks -> Sock]
    BY <1>2, <1>3
  <2> QED BY <1>0, <1>1, <2>1 DEF IInv, Typed, JobInv, Stamps
<1>5. StillClosing
  BY <1>0, <1>1 DEF StillClosing, Closing, Typed
<1>6. \A p \in Orders : p # o => rider'[p] = rider[p]
  BY <1>0, <1>1 DEF Typed, Stamps
<1>7. rider[o] = r => rider' = rider
  BY <1>0, <1>1 DEF Typed, Stamps
<1>8. ASSUME NEW s \in Socks, Live(s)'
      PROVE  /\ sock'[s].order \in Orders
             /\ Right(s)' \/ Closing(sock[s].order)'
  <2>1. PICK p \in Orders : /\ p = sock[s].order /\ p = sock'[s].order
                            /\ Right(s) \/ Closing(p)
    BY <1>2, <1>8 DEF IInv, SocketInv
  <2>2. CASE Closing(p)
    BY <1>5, <2>1, <2>2 DEF StillClosing
  <2>3. CASE Right(s)
    <3>1. sock'[s].who = sock[s].who /\ (sock[s].passed => sock'[s].passed)
      BY <1>2
    <3>2. rider'[p] = rider[p] \/ sock'[s].passed
      BY <1>2, <1>6, <1>7, <2>1
    <3> QED BY <1>1, <2>1, <2>3, <3>1, <3>2 DEF Right
  <2> QED BY <2>1, <2>2, <2>3
<1>9. SocketInv'
  BY <1>8 DEF SocketInv
<1> QED BY <1>4, <1>9 DEF IInv

LEMMA HandlersKeepIInv ==
  ASSUME IInv, NEW w \in Workers, Continue(w)
  PROVE  IInv'
<1>0. Typed /\ job[w] \in Job /\ job \in [Workers -> Job]
  BY DEF IInv, Typed
<1>1. ASSUME NEW said \in DOMAIN Said, After(w, said),
             UNCHANGED <<status, rider, loop, sock>>, meta' \in Stamps,
             Closes(job[w]) => said # "STARTED",
             job[w].order \in Orders
      PROVE  IInv'
  <2> DEFINE j == IF job[w].tells THEN Begin(said, job[w].order, None, TRUE) ELSE Idle
  <2>1. /\ j \in Job
        /\ Closes(job[w]) => Closes(j) /\ j.order = job[w].order
    BY <1>0, <1>1 DEF Said, Begin, Idle, Job, Tasks, Closes
  <2>2. j.task # "IDLE" => j.order \in Orders
    BY <1>1 DEF Said, Begin, Idle
  <2>3. job' = [job EXCEPT ![w] = j]
    BY <1>0, <1>1 DEF After
  <2>4. /\ status' \in [Orders -> Statuses] /\ rider' \in Stamps
        /\ meta' \in Stamps
    BY <1>0, <1>1 DEF Typed
  <2> HIDE DEF j
  <2> QED BY <2>1, <2>2, <2>3, <2>4, <1>1, HandlerStep
<1>2. CASE start_delivery_tracking(w)
  BY <1>1, <1>2 DEF start_delivery_tracking, Said, Closes, IInv, JobInv, Typed, Stamps, Job, Tasks,
     table, redis, sockets
<1>3. CASE stop_delivery_tracking(w)
  BY <1>1, <1>3 DEF stop_delivery_tracking, Said, Closes, IInv, JobInv, Typed, Stamps, Job, Tasks,
     table, redis, sockets
<1>4. CASE NothingToSwap(w)
  BY <1>1, <1>4 DEF NothingToSwap, Said, Closes, IInv, JobInv, Typed, table, redis, sockets
<1>5. CASE set_tracking_rider(w)
  BY <1>1, <1>5 DEF set_tracking_rider, Said, Closes, IInv, JobInv, Typed, Stamps, Job, Tasks,
     table, redis, sockets
<1>6. CASE NothingToStop(w)
  BY <1>1, <1>6 DEF NothingToStop, Said, Closes, IInv, JobInv, Typed, table, redis, sockets
<1>7. CASE LookToStop(w)
  <2> DEFINE j == [job[w] EXCEPT !.task = "CLEAR", !.who = meta[job[w].order]]
  <2>1. /\ j \in Job /\ j.order = job[w].order /\ j.order \in Orders
        /\ Closes(job[w]) => Closes(j)
    BY <1>0, <1>7 DEF LookToStop, IInv, Typed, JobInv, Stamps, Job, Tasks, Closes
  <2>2. job' = [job EXCEPT ![w] = j]
    BY <1>0, <1>7 DEF LookToStop
  <2>3. /\ UNCHANGED <<status, rider, loop, sock>>
        /\ status' \in [Orders -> Statuses] /\ rider' \in Stamps
        /\ meta' \in Stamps
    BY <1>0, <1>7 DEF LookToStop, Typed, table, redis, sockets
  <2> HIDE DEF j
  <2> QED BY <2>1, <2>2, <2>3, HandlerStep
<1>8. CASE LookAtMeta(w)
  <2> DEFINE j == [job[w] EXCEPT !.task = "SWAP", !.known = meta[job[w].order] # None]
  <2>1. /\ j \in Job /\ j.order = job[w].order /\ j.order \in Orders
        /\ Closes(job[w]) => Closes(j)
    BY <1>0, <1>8 DEF LookAtMeta, IInv, JobInv, Job, Tasks, Closes
  <2>2. job' = [job EXCEPT ![w] = j]
    BY <1>0, <1>8 DEF LookAtMeta
  <2>3. /\ UNCHANGED <<status, rider, loop, sock>>
        /\ status' \in [Orders -> Statuses] /\ rider' \in Stamps
        /\ meta' \in Stamps
    BY <1>0, <1>8 DEF LookAtMeta, Typed, table, redis, sockets
  <2> HIDE DEF j
  <2> QED BY <2>1, <2>2, <2>3, HandlerStep
<1>9. CASE admin_assign_rider(w)
  <2> DEFINE o == job[w].order
             r == job[w].who
             j == IF status[o] = "OUT_FOR_DELIVERY" THEN Begin("LOOK", o, r, TRUE) ELSE Idle
  <2>0. o \in Orders /\ r \in Riders \cup {None}
    BY <1>0, <1>9 DEF admin_assign_rider, IInv, JobInv, Job
  <2>1. /\ j \in Job
        /\ j.task # "IDLE" => j.order \in Orders
        /\ status[o] = "OUT_FOR_DELIVERY" => Closes(j) /\ j.order = o
        /\ ~Closes(job[w])
    BY <1>0, <1>9, <2>0 DEF admin_assign_rider, Tasks, Job, Begin, Idle, Closes
  <2>2. /\ job' = [job EXCEPT ![w] = j]
        /\ UNCHANGED <<loop, sock, status>>
        /\ status' \in [Orders -> Statuses] /\ rider' \in Stamps /\ meta' \in Stamps
        /\ \A p \in Orders : p # o => rider'[p] = rider[p]
    BY <1>0, <1>9, <2>0 DEF admin_assign_rider, WriteRider, Typed, Stamps, redis, sockets
  <2> HIDE DEF j
  <2>3. \A p \in Orders : status[p] = "OUT_FOR_DELIVERY" =>
          \/ Closes(j) /\ j.order = p
          \/ status'[p] = "OUT_FOR_DELIVERY" /\ rider'[p] = rider[p]
    BY <2>1, <2>2
  <2> QED BY <2>1, <2>2, <2>3, HandlerStep
<1> QED BY <1>2, <1>3, <1>4, <1>5, <1>6, <1>7, <1>8, <1>9, AcceptKeepsIInv, DispatchKeepsIInv
        DEF Continue
-----------------------------------------------------------------------------
(* The loop: a coroutine that goes on, or one that closes nothing and ends. *)
LEMMA LoopKeepsIInv ==
  ASSUME IInv, NEW i \in 1 .. Len(loop),
         \/ DeliveryStarted(i) \/ DeliveryCompleted(i) \/ RiderReassigned(i)
         \/ TellWatchers(i) \/ FinishSockets(i)
  PROVE  IInv'
<1> USE DEF table, redis, fleet
<1>0. /\ loop \in Seq(Coroutine) /\ loop[i] \in Coroutine
      /\ Len(loop) \in Nat
  <2>1. loop \in Seq(Coroutine)
    BY DEF IInv, Typed
  <2> QED BY <2>1, ElementOfSeq, LenProperties
<1>1. ASSUME UNCHANGED <<status, rider, meta, job, sock>>, loop' \in Seq(Coroutine), StillClosing
      PROVE  IInv'
  <2>1. Typed' /\ JobInv'
    BY <1>1 DEF IInv, Typed, JobInv
  <2>2. SocketInv'
    BY <1>1, TableStep
  <2> QED BY <2>1, <2>2 DEF IInv
<1>2. CASE DeliveryStarted(i)
  <2>1. /\ loop' \in Seq(Coroutine)
        /\ \A j \in 1 .. Len(loop) : j # i => \E k \in 1 .. Len(loop') : loop'[k] = loop[j]
    BY <1>0, <1>2, RemoveAtKeeps DEF DeliveryStarted
  <2>2. loop[i].does = "START" /\ UNCHANGED <<status, rider, meta, job, sock>>
    BY <1>2 DEF DeliveryStarted, Starts
  <2>3. StillClosing
    BY <2>1, <2>2 DEF StillClosing, Closing
  <2> QED BY <1>1, <2>1, <2>2, <2>3
<1>3. ASSUME NEW at \in {"WATCHERS", "SOCKETS"}, loop' = [loop EXCEPT ![i].at = at],
             UNCHANGED <<status, rider, meta, job, sock>>
      PROVE  IInv'
  <2>1. /\ loop' \in Seq(Coroutine) /\ Len(loop') = Len(loop)
        /\ \A j \in 1 .. Len(loop) : /\ loop'[j].order = loop[j].order
                                     /\ loop'[j].does = loop[j].does
    <3> DEFINE c == [loop[i] EXCEPT !.at = at]
    <3>1. c \in Coroutine /\ c.order = loop[i].order /\ c.does = loop[i].does
      BY <1>0 DEF Coroutine
    <3>2. loop' = [loop EXCEPT ![i] = c]
      BY <1>3
    <3> HIDE DEF c
    <3>3. loop' \in Seq(Coroutine) /\ Len(loop') = Len(loop)
      BY <1>0, <3>1, <3>2, ExceptSeq
    <3>4. \A j \in 1 .. Len(loop) : loop'[j] = IF j = i THEN c ELSE loop[j]
      BY <1>0, <3>1, <3>2, ExceptSeq
    <3> QED BY <3>1, <3>3, <3>4
  <2>2. StillClosing
    BY <1>3, <2>1 DEF StillClosing, Closing
  <2> QED BY <1>1, <1>3, <2>1, <2>2
<1>4. CASE DeliveryCompleted(i)
  BY <1>3, <1>4 DEF DeliveryCompleted
<1>5. CASE TellWatchers(i)
  BY <1>3, <1>5 DEF TellWatchers
<1>6. CASE RiderReassigned(i)
  BY <1>6, ClosingStep DEF RiderReassigned
<1>7. CASE FinishSockets(i)
  BY <1>7, ClosingStep DEF FinishSockets
<1> QED BY <1>2, <1>4, <1>5, <1>6, <1>7

LEMMA GpsKeepsIInv ==
  ASSUME IInv, NEW s \in Socks, Gps(s)
  PROVE  IInv'
<1> USE DEF table, redis, Socket
<1>0. sock[s] \in Sock /\ rider \in Stamps
  BY DEF IInv, Typed
<1>1. ASSUME NEW at \in {"OPEN", "FRAME", "SENT"}, sock[s].at # "OFF",
             sock' = [sock EXCEPT ![s] = [sock[s] EXCEPT !.at = at]],
             UNCHANGED <<status, rider, meta, job, loop>>
      PROVE  IInv'
  <2> DEFINE new == [sock[s] EXCEPT !.at = at]
  <2>1. /\ new \in Sock /\ new.order = sock[s].order /\ new.who = sock[s].who
        /\ new.revoked = sock[s].revoked /\ new.late = sock[s].late
        /\ new.passed = sock[s].passed
    BY <1>0 DEF Sock
  <2> HIDE DEF new
  <2> QED BY <1>1, <2>1, SocketStep DEF new
<1>2. ASSUME NEW o \in Orders, Authorise(s, o)
      PROVE  IInv'
  <2> DEFINE new == [Off EXCEPT !.at = "ASKED", !.order = o, !.who = rider[o]]
  <2>1. new \in Sock /\ new.order = o /\ new.who = rider[o]
    BY <1>0 DEF Off, Sock, Stamps
  <2>2. sock' = [sock EXCEPT ![s] = new] /\ UNCHANGED <<status, rider, meta, job, loop>>
        /\ status[o] = "OUT_FOR_DELIVERY"
    BY <1>2 DEF Authorise, can_observe_delivery
  <2> HIDE DEF new
  <2> QED BY <2>1, <2>2, SocketStep
<1>3. CASE HangUp(s)
  <2>1. Off \in Sock /\ Off.at = "OFF"
    BY DEF Off, Sock
  <2> QED BY <1>3, <2>1, SocketStep DEF HangUp
<1>4. CASE Register(s)
  BY <1>1, <1>4 DEF Register
<1>5. CASE Receive(s)
  BY <1>1, <1>5 DEF Receive
<1>6. CASE Ping(s)
  BY <1>1, <1>6 DEF Ping
<1>7. CASE Forward(s)
  BY <1>1, <1>7 DEF Forward
<1>8. CASE NothingToForward(s)
  BY <1>1, <1>8 DEF NothingToForward
<1> QED BY <1>2, <1>3, <1>4, <1>5, <1>6, <1>7, <1>8 DEF Gps

(* The rest touches neither the table, nor a handler, nor the loop. *)
LEMMA OthersKeepIInv ==
  ASSUME IInv, UNCHANGED <<status, rider, job, loop, sock>>, meta' \in Stamps
  PROVE  IInv'
BY DEF IInv, Typed, JobInv, SocketInv, Live, Right, Closing
-----------------------------------------------------------------------------
(* IInv holds at first, and every step keeps it. *)
THEOREM TrackingInvariance == Spec => []IInv
<1>1. Init => IInv
  <2> SUFFICES ASSUME Init PROVE IInv
    OBVIOUS
  <2>1. Idle \in Job /\ Off \in Sock /\ Idle.task = "IDLE" /\ Off.at = "OFF"
    BY DEF Idle, Off, Job, Sock, Tasks
  <2>2. Typed
    BY <2>1, EmptySeq DEF Init, Typed, Statuses, Stamps
  <2> QED BY <2>1, <2>2 DEF Init, IInv, JobInv, SocketInv, Live
<1>2. ASSUME IInv, [Next]_vars
      PROVE  IInv'
  <2>1. ASSUME NEW w \in Workers, Request(w) \/ Continue(w)
        PROVE  IInv'
    BY <1>2, <2>1, RequestsKeepIInv, HandlersKeepIInv
  <2>2. CASE StartCoroutine
    BY <1>2, <2>2, LoopKeepsIInv DEF StartCoroutine
  <2>3. ASSUME NEW o \in Orders, ResumeCoroutine(o)
        PROVE  IInv'
    BY <1>2, <2>3, LoopKeepsIInv DEF ResumeCoroutine
  <2>4. ASSUME NEW o \in Orders, Expire(o)
        PROVE  IInv'
    BY <1>2, <2>4, OthersKeepIInv DEF Expire, table, sockets, IInv, Typed, Stamps
  <2>5. ASSUME NEW s \in Socks, Gps(s)
        PROVE  IInv'
    BY <1>2, <2>5, GpsKeepsIInv
  <2>6. ASSUME NEW d \in Desks, Admin(d)
        PROVE  IInv'
    BY <1>2, <2>6, OthersKeepIInv
       DEF Admin, Connect, ReadSnapshot, SendSnapshot, Disconnect, table, redis,
           IInv, Typed
  <2>7. ASSUME NEW c \in Watchers, Customer(c)
        PROVE  IInv'
    BY <1>2, <2>7, OthersKeepIInv DEF Customer, AskToWatch, add_watcher, LookAway, table, redis, IInv, Typed
  <2>8. CASE UNCHANGED vars
    BY <1>2, <2>8, OthersKeepIInv DEF vars, IInv, Typed
  <2> QED BY <1>2, <2>1, <2>2, <2>3, <2>4, <2>5, <2>6, <2>7, <2>8 DEF Next, Step
<1> QED BY <1>1, <1>2, PTL DEF Spec

(* Once no closing is on its way, only the rider who carries a delivery    *)
(* still reports positions for it, on whatever socket was not let in late. *)
THEOREM CarrierAlone == Spec => []OnlyTheCarrierReports
<1>1. IInv => OnlyTheCarrierReports
  BY DEF IInv, SocketInv, OnlyTheCarrierReports, Registered, Live, Right
<1> QED BY <1>1, TrackingInvariance, PTL
-----------------------------------------------------------------------------
(* The customers.  A delivery ends with a word on its way to whoever came  *)
(* while it was on the road, and the word is lost only by being said.      *)

Tells(j) == j.tells /\ j.task \in {"STOP", "CLEAR", "STOPPED"}

Unsaid(c) == c.does = "FINISH" /\ c.at # "SOCKETS"

Telling(o) ==
  \/ \E w \in Workers : job[w].order = o /\ Tells(job[w])
  \/ \E i \in 1 .. Len(loop) : loop[i].order = o /\ Unsaid(loop[i])

WatchInv ==
  /\ watch \in [Watchers -> View]
  /\ \A c \in Watchers : watch[c].on /\ watch[c].road =>
       /\ watch[c].order \in Orders
       /\ status[watch[c].order] = "DELIVERED" => Telling(watch[c].order)

StillTelling == \A o \in Orders : Telling(o) => Telling(o)'

(* Customers stay, and so does every word on its way to them. *)
LEMMA WordStep ==
  ASSUME WatchInv, StillTelling, watch' = watch,
         \A o \in Orders :
           status'[o] = "DELIVERED" => status[o] = "DELIVERED" \/ Telling(o)'
  PROVE  WatchInv'
BY DEF WatchInv, StillTelling

LEMMA HandlerTells ==
  ASSUME IInv, WatchInv, NEW w \in Workers, NEW j \in Job,
         job' = [job EXCEPT ![w] = j], UNCHANGED <<loop, watch>>,
         Tells(job[w]) => Tells(j) /\ j.order = job[w].order,
         \A o \in Orders : status'[o] = "DELIVERED" =>
           status[o] = "DELIVERED" \/ (Tells(j) /\ j.order = o)
  PROVE  WatchInv'
<1>1. StillTelling
  BY DEF IInv, Typed, StillTelling, Telling
<1>2. \A o \in Orders : Tells(j) /\ j.order = o => Telling(o)'
  BY DEF IInv, Typed, Telling
<1> QED BY <1>1, <1>2, WordStep

LEMMA RequestsTell ==
  ASSUME IInv, WatchInv, NEW w \in Workers, Request(w)
  PROVE  WatchInv'
<1> USE DEF sockets, table
<1>0. Typed /\ ~Tells(Idle) /\ Idle \in Job
  BY DEF IInv, Tells, Idle, Job, Tasks
<1>1. ASSUME NEW o \in Orders, NEW task \in Tasks, NEW r \in Riders \cup {None},
             NEW tells \in BOOLEAN
      PROVE  Begin(task, o, r, tells) \in Job
  BY DEF Begin, Job
<1>2. {"START", "STOP", "LOOK"} \subseteq Tasks
  BY DEF Tasks
<1>3. ASSUME NEW j \in Job, job[w] = Idle, job' = [job EXCEPT ![w] = j],
             UNCHANGED <<loop, watch>>,
             \A p \in Orders : status'[p] = "DELIVERED" =>
               status[p] = "DELIVERED" \/ (Tells(j) /\ j.order = p)
      PROVE  WatchInv'
  BY <1>0, <1>3, HandlerTells
<1>4. ASSUME NEW o \in Orders, SendOut(w, o)
      PROVE  WatchInv'
  <2> DEFINE j == Begin("START", o, rider[o], TRUE)
  <2>1. j \in Job
    BY <1>0, <1>1, <1>2 DEF Typed, Stamps
  <2>2. /\ job' = [job EXCEPT ![w] = j] /\ UNCHANGED <<loop, watch>> /\ job[w] = Idle
        /\ \A p \in Orders : status'[p] = "DELIVERED" => status[p] = "DELIVERED"
    BY <1>0, <1>4 DEF SendOut, ChangeStatus, Typed
  <2> HIDE DEF j
  <2> QED BY <1>3, <2>1, <2>2
<1>5. ASSUME NEW o \in Orders, NEW new \in Statuses, EndDelivery(w, o, new)
      PROVE  WatchInv'
  <2> DEFINE j == Begin("STOP", o, None, TRUE)
  <2>1. j \in Job /\ Tells(j) /\ j.order = o
    BY <1>1, <1>2 DEF Tells, Begin
  <2>2. /\ job' = [job EXCEPT ![w] = j] /\ UNCHANGED <<loop, watch>> /\ job[w] = Idle
        /\ \A p \in Orders : p # o => status'[p] = status[p]
    BY <1>0, <1>5 DEF EndDelivery, ChangeStatus, Typed
  <2> HIDE DEF j
  <2> QED BY <1>3, <2>1, <2>2
<1>6. ASSUME NEW o \in Orders, NEW r \in Riders, ReadOrder(w, o, r)
      PROVE  WatchInv'
  <2>1. PICK task \in Readings : job' = [job EXCEPT ![w] = Begin(task, o, r, FALSE)]
    BY <1>6 DEF ReadOrder
  <2> DEFINE j == Begin(task, o, r, FALSE)
  <2>2. j \in Job
    BY <1>1 DEF Tasks
  <2>3. /\ job' = [job EXCEPT ![w] = j] /\ UNCHANGED <<loop, watch>> /\ job[w] = Idle
        /\ status' = status
    BY <1>6, <2>1 DEF ReadOrder
  <2> HIDE DEF j
  <2> QED BY <1>3, <2>2, <2>3
<1>7. ASSUME NEW o \in Orders, AskStart(w, o)
      PROVE  WatchInv'
  <2> DEFINE j == Begin("START", o, rider[o], FALSE)
  <2>1. j \in Job
    BY <1>0, <1>1, <1>2 DEF Typed, Stamps
  <2>2. /\ job' = [job EXCEPT ![w] = j] /\ UNCHANGED <<loop, watch>> /\ job[w] = Idle
        /\ status' = status
    BY <1>7 DEF AskStart
  <2> HIDE DEF j
  <2> QED BY <1>3, <2>1, <2>2
<1>8. ASSUME NEW o \in Orders, AskStop(w, o)
      PROVE  WatchInv'
  <2> DEFINE j == Begin("STOP", o, None, FALSE)
  <2>1. j \in Job
    BY <1>1, <1>2
  <2>2. /\ job' = [job EXCEPT ![w] = j] /\ UNCHANGED <<loop, watch>> /\ job[w] = Idle
        /\ status' = status
    BY <1>8 DEF AskStop
  <2> HIDE DEF j
  <2> QED BY <1>3, <2>1, <2>2
<1> QED BY <1>4, <1>5, <1>6, <1>7, <1>8 DEF Request

(* The word goes from the handler to the loop. *)
LEMMA DispatchTells ==
  ASSUME IInv, WatchInv, NEW w \in Workers, Dispatch(w)
  PROVE  WatchInv'
<1> DEFINE c == [does |-> Said[job[w].task], order |-> job[w].order, at |-> "QUEUED"]
<1>0. /\ Typed /\ job[w].order \in Orders
      /\ job[w].task \in {"STARTED", "STOPPED", "SWAPPED"}
      /\ job' = [job EXCEPT ![w] = Idle] /\ loop' = Append(loop, c)
      /\ UNCHANGED <<status, watch>>
  BY DEF Dispatch, IInv, JobInv, Said, table
<1>1. c \in Coroutine /\ (Tells(job[w]) => Unsaid(c))
  BY <1>0 DEF Coroutine, Said, Tells, Unsaid
<1>2. /\ Len(loop) \in Nat /\ Len(loop') = Len(loop) + 1 /\ loop'[Len(loop) + 1] = c
      /\ \A i \in 1 .. Len(loop) : loop'[i] = loop[i]
  <2> HIDE DEF c
  <2> QED BY <1>0, <1>1, AppendProperties, LenProperties DEF Typed
<1>3. /\ Len(loop) + 1 \in 1 .. Len(loop') /\ 1 .. Len(loop) \subseteq 1 .. Len(loop')
      /\ c.order = job[w].order
  BY <1>2
<1> HIDE DEF c
<1>4. ASSUME NEW o \in Orders, Telling(o)
      PROVE  Telling(o)'
  <2>1. CASE job[w].order = o /\ Tells(job[w])
    BY <2>1, <1>1, <1>2, <1>3 DEF Telling
  <2>2. CASE \E v \in Workers \ {w} : job[v].order = o /\ Tells(job[v])
    BY <2>2, <1>0 DEF Telling, Typed
  <2>3. CASE \E i \in 1 .. Len(loop) : loop[i].order = o /\ Unsaid(loop[i])
    BY <2>3, <1>2, <1>3 DEF Telling
  <2> QED BY <1>4, <2>1, <2>2, <2>3 DEF Telling
<1> QED BY <1>0, <1>4, WordStep DEF StillTelling

LEMMA HandlersTell ==
  ASSUME IInv, WatchInv, NEW w \in Workers, Continue(w)
  PROVE  WatchInv'
<1> USE DEF sockets, table
<1>0. job[w] \in Job /\ job \in [Workers -> Job]
  BY DEF IInv, Typed
<1>1. ASSUME NEW said \in DOMAIN Said, After(w, said), UNCHANGED <<status, loop, watch>>,
             Tells(job[w]) => said = "STOPPED"
      PROVE  WatchInv'
  <2> DEFINE j == IF job[w].tells THEN Begin(said, job[w].order, None, TRUE) ELSE Idle
  <2>1. j \in Job /\ (Tells(job[w]) => Tells(j) /\ j.order = job[w].order)
    BY <1>0, <1>1 DEF Said, Begin, Idle, Job, Tasks, Tells
  <2>2. job' = [job EXCEPT ![w] = j]
    BY <1>0, <1>1 DEF After
  <2> HIDE DEF j
  <2> QED BY <2>1, <2>2, <1>1, HandlerTells
<1>2. CASE start_delivery_tracking(w)
  BY <1>1, <1>2 DEF start_delivery_tracking, Said, Tells
<1>3. CASE NothingToStop(w)
  BY <1>1, <1>3 DEF NothingToStop, Said
<1>4. CASE stop_delivery_tracking(w)
  BY <1>1, <1>4 DEF stop_delivery_tracking, Said
<1>5. CASE NothingToSwap(w)
  BY <1>1, <1>5 DEF NothingToSwap, Said, Tells
<1>6. CASE set_tracking_rider(w)
  BY <1>1, <1>6 DEF set_tracking_rider, Said, Tells
<1>7. CASE LookToStop(w)
  <2> DEFINE j == [job[w] EXCEPT !.task = "CLEAR", !.who = meta[job[w].order]]
  <2>1. j \in Job /\ (Tells(job[w]) => Tells(j) /\ j.order = job[w].order)
    BY <1>0, <1>7 DEF LookToStop, IInv, JobInv, Typed, Stamps, Job, Tasks, Tells
  <2>2. job' = [job EXCEPT ![w] = j] /\ UNCHANGED <<status, loop, watch>>
    BY <1>0, <1>7 DEF LookToStop
  <2> HIDE DEF j
  <2> QED BY <2>1, <2>2, HandlerTells
<1>8. CASE LookAtMeta(w)
  <2> DEFINE j == [job[w] EXCEPT !.task = "SWAP", !.known = meta[job[w].order] # None]
  <2>1. j \in Job /\ ~Tells(job[w])
    BY <1>0, <1>8 DEF LookAtMeta, Job, Tasks, Tells
  <2>2. job' = [job EXCEPT ![w] = j] /\ UNCHANGED <<status, loop, watch>>
    BY <1>0, <1>8 DEF LookAtMeta
  <2> HIDE DEF j
  <2> QED BY <2>1, <2>2, HandlerTells
<1>9. CASE rider_self_accept(w) \/ admin_assign_rider(w)
  <2>1. PICK j \in Job : job' = [job EXCEPT ![w] = j]
    <3>1. Idle \in Job
      BY DEF Idle, Job, Tasks
    <3>2. Begin("LOOK", job[w].order, job[w].who, TRUE) \in Job
      BY <1>0 DEF Begin, Job, Tasks
    <3> QED BY <1>9, <3>1, <3>2 DEF rider_self_accept, admin_assign_rider
  <2>2. ~Tells(job[w]) /\ UNCHANGED <<status, loop, watch>>
    BY <1>9 DEF rider_self_accept, admin_assign_rider, Tells
  <2> QED BY <2>1, <2>2, HandlerTells
<1> QED BY <1>2, <1>3, <1>4, <1>5, <1>6, <1>7, <1>8, <1>9, DispatchTells DEF Continue

(* A coroutine leaves the loop with nothing unsaid, and one that goes on   *)
(* has either not come to the customers or has just told them.             *)
LEMMA LoopTells ==
  ASSUME IInv, WatchInv, NEW i \in 1 .. Len(loop),
         \/ DeliveryStarted(i) \/ DeliveryCompleted(i) \/ RiderReassigned(i)
         \/ TellWatchers(i) \/ FinishSockets(i)
  PROVE  WatchInv'
<1> USE DEF table, fleet
<1>0. loop \in Seq(Coroutine) /\ loop[i] \in Coroutine /\ loop[i].order \in Orders
  <2>1. loop \in Seq(Coroutine)
    BY DEF IInv, Typed
  <2>2. loop[i] \in Coroutine
    BY <2>1, ElementOfSeq
  <2> QED BY <2>1, <2>2 DEF Coroutine
<1>1. ASSUME loop' = RemoveAt(loop, i), ~Unsaid(loop[i]), UNCHANGED <<status, job, watch>>
      PROVE  WatchInv'
  <2>1. \A j \in 1 .. Len(loop) : j # i => \E k \in 1 .. Len(loop') : loop'[k] = loop[j]
    BY <1>0, <1>1, RemoveAtKeeps
  <2>2. StillTelling
    BY <1>1, <2>1 DEF StillTelling, Telling
  <2> QED BY <1>1, <2>2, WordStep
<1>2. CASE DeliveryStarted(i)
  BY <1>1, <1>2 DEF DeliveryStarted, Starts, Unsaid
<1>3. CASE RiderReassigned(i)
  BY <1>1, <1>3 DEF RiderReassigned, Starts, Unsaid
<1>4. CASE FinishSockets(i)
  BY <1>1, <1>4 DEF FinishSockets, Unsaid
<1>5. ASSUME NEW at \in {"WATCHERS", "SOCKETS"}, loop' = [loop EXCEPT ![i].at = at]
      PROVE  /\ Len(loop') = Len(loop)
             /\ \A k \in 1 .. Len(loop) : k # i => loop'[k] = loop[k]
             /\ loop'[i] = [loop[i] EXCEPT !.at = at]
  <2> DEFINE c == [loop[i] EXCEPT !.at = at]
  <2>1. c \in Coroutine /\ loop' = [loop EXCEPT ![i] = c]
    BY <1>0, <1>5 DEF Coroutine
  <2> HIDE DEF c
  <2>2. Len(loop') = Len(loop) /\ \A k \in 1 .. Len(loop) : loop'[k] = IF k = i THEN c ELSE loop[k]
    BY <1>0, <2>1, ExceptSeq
  <2> QED BY <2>2 DEF c
<1>6. CASE DeliveryCompleted(i)
  <2>1. /\ Len(loop') = Len(loop)
        /\ \A k \in 1 .. Len(loop) : k # i => loop'[k] = loop[k]
        /\ loop'[i] = [loop[i] EXCEPT !.at = "WATCHERS"]
    BY <1>5, <1>6 DEF DeliveryCompleted
  <2>2. loop'[i].order = loop[i].order /\ Unsaid(loop'[i])
    BY <1>0, <1>6, <2>1 DEF DeliveryCompleted, Starts, Coroutine, Unsaid
  <2>3. UNCHANGED <<status, job, watch>>
    BY <1>6 DEF DeliveryCompleted
  <2>4. StillTelling
    BY <2>1, <2>2, <2>3 DEF StillTelling, Telling
  <2> QED BY <2>3, <2>4, WordStep
<1>7. CASE TellWatchers(i)
  <2> DEFINE o == loop[i].order
  <2>1. /\ Len(loop') = Len(loop)
        /\ \A k \in 1 .. Len(loop) : k # i => loop'[k] = loop[k]
    BY <1>5, <1>7 DEF TellWatchers
  <2>2. UNCHANGED <<status, job>>
        /\ watch' = [c \in Watchers |->
                       IF watch[c].on /\ watch[c].order = o THEN Away ELSE watch[c]]
    BY <1>7 DEF TellWatchers
  <2>3. \A p \in Orders : p # o /\ Telling(p) => Telling(p)'
    BY <2>1, <2>2 DEF Telling
  <2>4. Away \in View /\ ~Away.on
    BY DEF Away, View
  <2> QED BY <2>2, <2>3, <2>4 DEF WatchInv
<1> QED BY <1>2, <1>3, <1>4, <1>6, <1>7

LEMMA CustomersComeAndGo ==
  ASSUME IInv, WatchInv, NEW c \in Watchers, Customer(c)
  PROVE  WatchInv'
<1>1. UNCHANGED <<status, job, loop>>
  BY DEF Customer, AskToWatch, add_watcher, LookAway, table
<1>2. \A o : Telling(o) <=> Telling(o)'
  BY <1>1 DEF Telling
<1>3. ASSUME NEW v \in View, watch' = [watch EXCEPT ![c] = v],
             v.on /\ v.road => v.order \in Orders /\ status[v.order] # "DELIVERED"
      PROVE  WatchInv'
  BY <1>1, <1>2, <1>3 DEF WatchInv
<1>4. ASSUME NEW o \in Orders, AskToWatch(c, o)
      PROVE  WatchInv'
  <2> DEFINE v == [Away EXCEPT !.order = o]
  <2>1. v \in View /\ ~v.on /\ watch' = [watch EXCEPT ![c] = v]
    BY <1>4 DEF Away, View, AskToWatch
  <2> HIDE DEF v
  <2> QED BY <1>3, <2>1
<1>5. CASE add_watcher(c)
  <2> DEFINE o == watch[c].order
             v == [order |-> o, on |-> TRUE, road |-> status[o] = "OUT_FOR_DELIVERY"]
  <2>1. o \in Orders
    BY <1>5 DEF add_watcher, WatchInv, View
  <2>2. v \in View /\ watch' = [watch EXCEPT ![c] = v]
    BY <1>5, <2>1 DEF View, add_watcher
  <2>3. v.road => v.order \in Orders /\ status[v.order] # "DELIVERED"
    BY <2>1
  <2> HIDE DEF v
  <2> QED BY <1>3, <2>2, <2>3
<1>6. CASE LookAway(c)
  <2>1. Away \in View /\ ~Away.on /\ watch' = [watch EXCEPT ![c] = Away]
    BY <1>6 DEF Away, View, LookAway
  <2> QED BY <1>3, <2>1
<1> QED BY <1>4, <1>5, <1>6 DEF Customer

(* Whatever order handlers and coroutines run in, a customer who came      *)
(* while a delivery was on the road is told when it has been wound down.   *)
THEOREM CustomersAreTold == Spec => []NobodyLeftWatching
<1>1. Init => WatchInv
  BY DEF Init, WatchInv, Away, View
<1>2. ASSUME IInv, WatchInv, [Next]_vars
      PROVE  WatchInv'
  <2>0. ASSUME UNCHANGED <<status, job, loop, watch>>
        PROVE  WatchInv'
    BY <1>2, <2>0 DEF WatchInv, Telling
  <2>1. ASSUME NEW w \in Workers, Request(w) \/ Continue(w)
        PROVE  WatchInv'
    BY <1>2, <2>1, RequestsTell, HandlersTell
  <2>2. CASE StartCoroutine
    BY <1>2, <2>2, LoopTells DEF StartCoroutine
  <2>3. ASSUME NEW o \in Orders, ResumeCoroutine(o)
        PROVE  WatchInv'
    BY <1>2, <2>3, LoopTells DEF ResumeCoroutine
  <2>4. ASSUME NEW o \in Orders, Expire(o)
        PROVE  WatchInv'
    BY <2>0, <2>4 DEF Expire, table, sockets
  <2>5. ASSUME NEW s \in Socks, Gps(s)
        PROVE  WatchInv'
    BY <2>0, <2>5 DEF Gps, Authorise, Register, Receive, Ping, Forward, NothingToForward,
       HangUp, table, fleet
  <2>6. ASSUME NEW d \in Desks, Admin(d)
        PROVE  WatchInv'
    BY <2>0, <2>6 DEF Admin, Connect, ReadSnapshot, SendSnapshot, Disconnect, table
  <2>7. ASSUME NEW c \in Watchers, Customer(c)
        PROVE  WatchInv'
    BY <1>2, <2>7, CustomersComeAndGo
  <2>8. CASE UNCHANGED vars
    BY <2>0, <2>8 DEF vars
  <2> QED BY <1>2, <2>1, <2>2, <2>3, <2>4, <2>5, <2>6, <2>7, <2>8 DEF Next, Step
<1>3. WatchInv => NobodyLeftWatching
  BY DEF WatchInv, NobodyLeftWatching, Telling, Tells, Pending, Readings
<1> QED BY <1>1, <1>2, <1>3, TrackingInvariance, PTL DEF Spec
-----------------------------------------------------------------------------
(* Sequences without repetition: the memory of completed deliveries.       *)
LEMMA RemoveAtIs ==
  ASSUME NEW S, NEW seq \in Seq(S), NEW i \in 1 .. Len(seq)
  PROVE  /\ RemoveAt(seq, i) \in Seq(S)
         /\ Len(RemoveAt(seq, i)) = Len(seq) - 1
         /\ \A k \in 1 .. Len(seq) - 1 : RemoveAt(seq, i)[k] = IF k < i THEN seq[k] ELSE seq[k + 1]
<1> DEFINE a == SubSeq(seq, 1, i - 1)
           b == SubSeq(seq, i + 1, Len(seq))
<1>0. i \in Int /\ Len(seq) \in Nat /\ 1 <= i /\ i <= Len(seq)
  BY LenProperties
<1>1. a \in Seq(S) /\ b \in Seq(S)
  BY SubSeqProperties
<1>2. /\ Len(a) = i - 1 /\ \A k \in 1 .. i - 1 : a[k] = seq[k]
      /\ Len(b) = Len(seq) - i /\ \A k \in 1 .. Len(seq) - i : b[k] = seq[i + k]
  BY SubSeqProperties
<1>3. RemoveAt(seq, i) = a \o b
  BY DEF RemoveAt
<1> HIDE DEF a, b
<1>4. /\ a \o b \in Seq(S) /\ Len(a \o b) = Len(a) + Len(b)
      /\ \A k \in 1 .. Len(a) + Len(b) :
           (a \o b)[k] = IF k <= Len(a) THEN a[k] ELSE b[k - Len(a)]
  BY <1>1, ConcatProperties
<1>5. Len(a \o b) = Len(seq) - 1
  BY <1>0, <1>2, <1>4
<1>6. ASSUME NEW k \in 1 .. Len(seq) - 1
      PROVE  (a \o b)[k] = IF k < i THEN seq[k] ELSE seq[k + 1]
  <2>1. k \in 1 .. Len(a) + Len(b)
    BY <1>0, <1>2
  <2>2. CASE k < i
    <3>1. k <= Len(a) /\ k \in 1 .. i - 1
      BY <1>0, <1>2, <2>2
    <3> QED BY <1>2, <1>4, <2>1, <2>2, <3>1
  <2>3. CASE ~(k < i)
    <3>1. /\ ~(k <= Len(a)) /\ k - Len(a) = k - i + 1
          /\ k - i + 1 \in 1 .. Len(seq) - i /\ i + (k - i + 1) = k + 1
      BY <1>0, <1>2, <2>3
    <3> QED BY <1>2, <1>4, <2>1, <2>3, <3>1
  <2> QED BY <2>2, <2>3
<1> QED BY <1>3, <1>4, <1>5, <1>6

Memory(s) == s \in Seq(Orders) /\ IsInjective(s)

LEMMA Remembered ==
  ASSUME NEW s, Memory(s)
  PROVE  /\ Len(s) \in Nat /\ DOMAIN s = 1 .. Len(s)
         /\ \A i, j \in 1 .. Len(s) : s[i] = s[j] => i = j
         /\ \A i \in 1 .. Len(s) : s[i] \in Orders
<1>1. Len(s) \in Nat /\ DOMAIN s = 1 .. Len(s)
  BY LenProperties DEF Memory
<1>2. \A i \in 1 .. Len(s) : s[i] \in Orders
  BY ElementOfSeq DEF Memory
<1> QED BY <1>1, <1>2 DEF Memory, IsInjective

(* What is put out of mind goes, and nothing else does.                    *)
LEMMA WithoutForgets ==
  ASSUME NEW s, Memory(s), NEW o
  PROVE  /\ Memory(Without(s, o)) /\ Len(Without(s, o)) <= Len(s)
         /\ ~Contains(Without(s, o), o)
         /\ \A x : x # o => (Contains(Without(s, o), x) <=> Contains(s, x))
<1>0. /\ s \in Seq(Orders) /\ Len(s) \in Nat /\ DOMAIN s = 1 .. Len(s)
      /\ \A i, j \in 1 .. Len(s) : s[i] = s[j] => i = j
  BY Remembered DEF Memory
<1>1. CASE ~Contains(s, o)
  BY <1>0, <1>1 DEF Without, RemoveFirst, Contains
<1>2. CASE Contains(s, o)
  <2>1. PICK i \in 1 .. Len(s) : s[i] = o
    BY <1>2 DEF Contains
  <2>2. {j \in 1 .. Len(s) : s[j] = o} = {i}
    BY <1>0, <2>1
  <2>3. SelectInSeq(s, LAMBDA v : v = o) = i
    <3>1. Min({i}) = i
      BY <1>0 DEF Min
    <3> QED BY <2>2, <3>1 DEF SelectInSeq
  <2>4. Without(s, o) = RemoveAt(s, i)
    BY <2>1, <2>3 DEF Without, RemoveFirst
  <2> DEFINE t == RemoveAt(s, i)
  <2>5. /\ t \in Seq(Orders) /\ Len(t) = Len(s) - 1
        /\ \A k \in 1 .. Len(s) - 1 : t[k] = IF k < i THEN s[k] ELSE s[k + 1]
    BY <1>0, RemoveAtIs
  <2> HIDE DEF t
  <2>6. DOMAIN t = 1 .. Len(t)
    BY <2>5, LenProperties
  <2>7. ASSUME NEW k \in 1 .. Len(t)
        PROVE  \E j \in 1 .. Len(s) : /\ t[k] = s[j] /\ j # i
                                      /\ (k < i /\ j = k) \/ (k >= i /\ j = k + 1)
    <3>1. CASE k < i
      BY <1>0, <2>5, <3>1
    <3>2. CASE k >= i
      BY <1>0, <2>5, <3>2
    <3> QED BY <1>0, <2>5, <3>1, <3>2
  <2>8. IsInjective(t)
    <3> SUFFICES ASSUME NEW k \in 1 .. Len(t), NEW l \in 1 .. Len(t), t[k] = t[l] PROVE k = l
      BY <2>6 DEF IsInjective
    <3>1. PICK m \in 1 .. Len(s) : /\ t[k] = s[m] /\ m # i
                                   /\ (k < i /\ m = k) \/ (k >= i /\ m = k + 1)
      BY <2>7
    <3>2. PICK n \in 1 .. Len(s) : /\ t[l] = s[n] /\ n # i
                                   /\ (l < i /\ n = l) \/ (l >= i /\ n = l + 1)
      BY <2>7
    <3>3. m = n
      BY <1>0, <3>1, <3>2
    <3>4. k \in Int /\ l \in Int /\ i \in Int
      BY <1>0
    <3> QED BY <3>1, <3>2, <3>3, <3>4
  <2>9. ~Contains(t, o)
    BY <1>0, <2>1, <2>7 DEF Contains
  <2>10. ASSUME NEW x, x # o PROVE Contains(t, x) <=> Contains(s, x)
    <3>1. Contains(t, x) => Contains(s, x)
      BY <2>7 DEF Contains
    <3>2. ASSUME NEW j \in 1 .. Len(s), s[j] = x PROVE Contains(t, x)
      <4>1. CASE j < i
        BY <1>0, <2>5, <3>2, <4>1 DEF Contains
      <4>2. CASE j > i
        <5>1. j - 1 \in 1 .. Len(t) /\ ~(j - 1 < i) /\ (j - 1) + 1 = j
          BY <1>0, <2>5, <4>2
        <5> QED BY <2>5, <3>2, <5>1 DEF Contains
      <4> QED BY <2>1, <2>10, <3>2, <4>1, <4>2
    <3> QED BY <3>1, <3>2 DEF Contains
  <2> QED BY <1>0, <2>4, <2>5, <2>8, <2>9, <2>10 DEF Memory, t
<1> QED BY <1>1, <1>2

(* A new one is remembered last.                                           *)
LEMMA AppendRemembers ==
  ASSUME NEW s, Memory(s), NEW o \in Orders, ~Contains(s, o)
  PROVE  /\ Memory(Append(s, o)) /\ Len(Append(s, o)) = Len(s) + 1
         /\ \A x : Contains(Append(s, o), x) <=> Contains(s, x) \/ x = o
<1> DEFINE t == Append(s, o)
<1>0. /\ s \in Seq(Orders) /\ Len(s) \in Nat
      /\ \A i, j \in 1 .. Len(s) : s[i] = s[j] => i = j
  BY Remembered DEF Memory
<1>1. /\ t \in Seq(Orders) /\ Len(t) = Len(s) + 1
      /\ \A k \in 1 .. Len(s) : t[k] = s[k] 
      /\ t[Len(s) + 1] = o
  BY <1>0, AppendProperties
<1> HIDE DEF t
<1>2. DOMAIN t = 1 .. Len(t)
  BY <1>1, LenProperties
<1>3. \A k \in 1 .. Len(t) : k \in 1 .. Len(s) \/ k = Len(s) + 1
  BY <1>0, <1>1
<1>4. IsInjective(t)
  <2> SUFFICES ASSUME NEW k \in 1 .. Len(t), NEW l \in 1 .. Len(t), t[k] = t[l] PROVE k = l
    BY <1>2 DEF IsInjective
  <2> QED BY <1>0, <1>1, <1>3 DEF Contains
<1>5. \A x : Contains(t, x) <=> Contains(s, x) \/ x = o
  <2>1. \A k \in 1 .. Len(s) : k \in 1 .. Len(t)
    BY <1>0, <1>1
  <2>2. Len(s) + 1 \in 1 .. Len(t)
    BY <1>0, <1>1
  <2> QED BY <1>1, <1>3, <2>1, <2>2 DEF Contains
<1> QED BY <1>1, <1>4, <1>5 DEF Memory, t

(* Only the oldest are forgotten, and only when there is no room.          *)
LEMMA LastOfRemembers ==
  ASSUME NEW s, Memory(s), NEW n \in Nat
  PROVE  /\ Memory(LastOf(s, n)) /\ Len(LastOf(s, n)) <= n
         /\ Len(s) <= n => LastOf(s, n) = s
<1>0. /\ s \in Seq(Orders) /\ Len(s) \in Nat
      /\ \A i, j \in 1 .. Len(s) : s[i] = s[j] => i = j
  BY Remembered DEF Memory
<1>1. PICK from \in Nat : from = IF Len(s) > n THEN Len(s) - n ELSE 0
  BY <1>0
<1>2. from <= Len(s) /\ Len(s) - from <= n /\ (Len(s) <= n => from = 0)
  BY <1>0, <1>1
<1> DEFINE t == SubSeq(s, 1 + from, Len(s))
<1>3. LastOf(s, n) = t
  BY <1>1 DEF LastOf
<1>4. /\ t \in Seq(Orders) /\ Len(t) = Len(s) - from
      /\ \A k \in 1 .. Len(s) - from : t[k] = s[from + k]
  <2>1. 1 + from \in Int /\ \A k \in 1 + from .. Len(s) : s[k] \in Orders
    BY <1>0, ElementOfSeq
  <2>2. /\ t \in Seq(Orders)
        /\ Len(t) = IF 1 + from <= Len(s) THEN Len(s) - (1 + from) + 1 ELSE 0
        /\ \A k \in 1 .. Len(s) - (1 + from) + 1 : t[k] = s[(1 + from) + k - 1]
    BY <1>0, <2>1, SubSeqProperties
  <2>3. Len(t) = Len(s) - from /\ Len(s) - (1 + from) + 1 = Len(s) - from
    BY <1>0, <1>2, <2>2
  <2>4. \A k \in 1 .. Len(s) - from : (1 + from) + k - 1 = from + k
    BY <1>0
  <2> QED BY <2>2, <2>3, <2>4
<1> HIDE DEF t
<1>5. DOMAIN t = 1 .. Len(t)
  BY <1>4, LenProperties
<1>6. IsInjective(t)
  <2> SUFFICES ASSUME NEW k \in 1 .. Len(t), NEW l \in 1 .. Len(t), t[k] = t[l] PROVE k = l
    BY <1>5 DEF IsInjective
  <2>1. from + k \in 1 .. Len(s) /\ from + l \in 1 .. Len(s) /\ s[from + k] = s[from + l]
    BY <1>0, <1>2, <1>4
  <2> QED BY <1>0, <2>1
<1>7. ASSUME Len(s) <= n PROVE t = s
  <2>1. from = 0 /\ Len(t) = Len(s) /\ \A k \in 1 .. Len(s) : t[k] = s[k]
    BY <1>0, <1>2, <1>4, <1>7
  <2> QED BY <1>0, <1>4, <2>1, SeqEqual
<1> QED BY <1>2, <1>3, <1>4, <1>6, <1>7 DEF Memory

(* There is room for every delivery there is.                              *)
LEMMA OneToOneIsShort ==
  ASSUME NEW n \in Nat, NEW f \in [1 .. n -> Orders], IsFiniteSet(Orders),
         \A i, j \in 1 .. n : f[i] = f[j] => i = j
  PROVE  n <= Cardinality(Orders)
<1>1. f \in Injection(1 .. n, Orders)
  <2>1. IsInjective(f)
    BY DEF IsInjective
  <2> QED BY <2>1 DEF Injection
<1>2. Cardinality(1 .. n) <= Cardinality(Orders)
  BY <1>1, FS_Injection
<1>3. 1 \in Int /\ n \in Int /\ Cardinality(1 .. n) = IF 1 > n THEN 0 ELSE n - 1 + 1
  BY FS_Interval
<1>4. Cardinality(1 .. n) = n
  BY <1>3
<1> QED BY <1>2, <1>4

LEMMA MemoryIsShort ==
  ASSUME NEW s, Memory(s), IsFiniteSet(Orders)
  PROVE  Len(s) <= Cardinality(Orders)
<1>1. s \in [1 .. Len(s) -> Orders]
  BY LenProperties DEF Memory
<1>2. Len(s) \in Nat /\ \A i, j \in 1 .. Len(s) : s[i] = s[j] => i = j
  BY Remembered
<1> QED BY <1>1, <1>2, OneToOneIsShort

-----------------------------------------------------------------------------
(* What the fleet, the admins and the customers hold has its type.         *)
FleetTyped ==
  /\ fix \subseteq Orders /\ active \subseteq Orders
  /\ Memory(completed) /\ Len(completed) <= COMPLETED_MEMORY
  /\ desk \in [Desks -> Desk]
  /\ watch \in [Watchers -> View]
  /\ \A s \in Socks : sock[s].at # "OFF" => sock[s].order \in Orders

LEMMA LoopEntries ==
  ASSUME Typed, NEW i \in 1 .. Len(loop)
  PROVE  /\ loop \in Seq(Coroutine) /\ Len(loop) \in Nat
         /\ loop[i] \in Coroutine /\ loop[i].order \in Orders
<1>1. loop \in Seq(Coroutine) /\ Len(loop) \in Nat
  BY LenProperties DEF Typed
<1>2. loop[i] \in Coroutine
  BY <1>1, ElementOfSeq
<1> QED BY <1>1, <1>2 DEF Coroutine

LEMMA RowsAreTyped ==
  ASSUME FleetTyped, NEW o \in Orders
  PROVE  Shown(o) \in [Desks -> Desk] /\ Hidden(o) \in [Desks -> Desk]
<1>1. ASSUME NEW d \in Desks
      PROVE  /\ [desk[d] EXCEPT !.rows = @ \cup {o}] \in Desk
             /\ [desk[d] EXCEPT !.rows = @ \ {o}] \in Desk
             /\ desk[d] \in Desk
  <2>1. desk[d] \in Desk
    BY DEF FleetTyped
  <2> QED BY <2>1 DEF Desk
<1> QED BY <1>1 DEF Shown, Hidden

LEMMA LoopIsTyped ==
  ASSUME IInv, FleetTyped, NEW i \in 1 .. Len(loop),
         \/ DeliveryStarted(i) \/ DeliveryCompleted(i) \/ RiderReassigned(i)
         \/ TellWatchers(i) \/ FinishSockets(i)
  PROVE  FleetTyped'
<1>0. loop[i].order \in Orders
  BY LoopEntries DEF IInv
<1>1. CASE DeliveryStarted(i)
  <2>1. /\ active' = active \cup {loop[i].order}
        /\ completed' = Without(completed, loop[i].order)
        /\ desk' = Shown(loop[i].order) /\ UNCHANGED <<fix, watch, sock>>
    BY <1>1 DEF DeliveryStarted, redis
  <2>2. Memory(completed') /\ Len(completed') <= Len(completed)
    BY <2>1, WithoutForgets DEF FleetTyped
  <2>3. Len(completed') <= COMPLETED_MEMORY
    BY <2>2, Remembered, BoundsAssumption DEF FleetTyped
  <2> QED BY <1>0, <2>1, <2>2, <2>3, RowsAreTyped DEF FleetTyped
<1>2. CASE DeliveryCompleted(i)
  <2> DEFINE t == Append(Without(completed, loop[i].order), loop[i].order)
  <2>1. /\ active' = active \ {loop[i].order} /\ completed' = LastOf(t, COMPLETED_MEMORY)
        /\ desk' = Hidden(loop[i].order) /\ UNCHANGED <<fix, watch, sock>>
    BY <1>2 DEF DeliveryCompleted, redis
  <2>2. Memory(t)
    BY <1>0, WithoutForgets, AppendRemembers DEF FleetTyped
  <2> HIDE DEF t
  <2>3. Memory(completed') /\ Len(completed') <= COMPLETED_MEMORY
    BY <2>1, <2>2, LastOfRemembers, BoundsAssumption
  <2> QED BY <1>0, <2>1, <2>3, RowsAreTyped DEF FleetTyped
<1>3. CASE RiderReassigned(i) \/ FinishSockets(i)
  <2>1. /\ sock' = CloseSockets(loop[i].order)
        /\ UNCHANGED <<fix, active, completed, desk, watch>>
    BY <1>3 DEF RiderReassigned, FinishSockets, redis, fleet
  <2>2. \A s \in Socks : sock'[s].at = sock[s].at /\ sock'[s].order = sock[s].order
    BY <2>1 DEF CloseSockets, IInv, Typed, Sock
  <2> QED BY <2>1, <2>2 DEF FleetTyped
<1>4. CASE TellWatchers(i)
  <2>1. Away \in View
    BY DEF Away, View
  <2> QED BY <1>4, <2>1 DEF TellWatchers, FleetTyped, redis, fleet
<1> QED BY <1>1, <1>2, <1>3, <1>4

LEMMA GpsIsTyped ==
  ASSUME IInv, FleetTyped, NEW s \in Socks, Gps(s)
  PROVE  FleetTyped'
<1> USE DEF table, redis, fleet, Socket
<1>0. sock[s] \in Sock /\ sock \in [Socks -> Sock]
  BY DEF IInv, Typed
<1>1. PICK new \in Sock :
        /\ sock' = [sock EXCEPT ![s] = new]
        /\ new.at # "OFF" => new.order \in Orders
  <2>1. ASSUME NEW at \in {"OPEN", "FRAME", "SENT"}, sock[s].at # "OFF"
        PROVE  LET new == [sock[s] EXCEPT !.at = at]
               IN  new \in Sock /\ new.order \in Orders
    BY <1>0, <2>1 DEF Sock, FleetTyped
  <2>2. ASSUME NEW o \in Orders, NEW r \in Riders
        PROVE  LET new == [Off EXCEPT !.at = "ASKED", !.order = o, !.who = r]
               IN  new \in Sock /\ new.order \in Orders
    BY DEF Off, Sock
  <2>3. Off \in Sock /\ Off.at = "OFF"
    BY DEF Off, Sock
  <2>4. CASE \E o \in Orders : Authorise(s, o)
    BY <2>2, <2>4 DEF Authorise
  <2>5. CASE Register(s) \/ Receive(s)
    BY <2>1, <2>5 DEF Register, Receive
  <2>6. CASE Ping(s) \/ Forward(s) \/ NothingToForward(s)
    BY <2>1, <2>6 DEF Ping, Forward, NothingToForward
  <2>7. CASE HangUp(s)
    BY <2>3, <2>7 DEF HangUp
  <2> QED BY <2>4, <2>5, <2>6, <2>7 DEF Gps
<1>2. \A u \in Socks : sock'[u].at # "OFF" => sock'[u].order \in Orders
  BY <1>0, <1>1 DEF FleetTyped
<1>3. CASE Ping(s)
  <2>1. sock[s].order \in Orders
    BY <1>3 DEF Ping, FleetTyped
  <2>2. UNCHANGED <<active, completed, desk, watch>> /\ fix' \subseteq fix \cup {sock[s].order}
    BY <1>3 DEF Ping, update_rider_location
  <2> QED BY <1>2, <2>1, <2>2 DEF FleetTyped
<1>4. CASE Forward(s)
  <2>1. sock[s].order \in Orders
    BY <1>4 DEF Forward, FleetTyped
  <2> QED BY <1>2, <1>4, <2>1, RowsAreTyped DEF Forward, broadcast_location, FleetTyped
<1>5. CASE ~(Ping(s) \/ Forward(s))
  BY <1>2, <1>5 DEF Gps, Authorise, Register, Receive, NothingToForward, HangUp, FleetTyped
<1> QED BY <1>3, <1>4, <1>5

LEMMA AdminIsTyped ==
  ASSUME IInv, FleetTyped, NEW d \in Desks, Admin(d)
  PROVE  FleetTyped'
<1>1. PICK new \in Desk :
        /\ desk' = [desk EXCEPT ![d] = new] /\ active' \subseteq Orders
        /\ UNCHANGED <<fix, completed, watch, sock>>
  <2>0. desk[d] \in Desk /\ desk \in [Desks -> Desk] /\ active \subseteq Orders
    BY DEF FleetTyped
  <2>1. CASE Connect(d)
    <3>1. [desk[d] EXCEPT !.on = TRUE] \in Desk
      BY <2>0 DEF Desk
    <3> QED BY <2>0, <2>1, <3>1 DEF Connect, redis
  <2>2. CASE ReadSnapshot(d)
    <3> DEFINE read == [rows |-> {o \in Orders : status[o] \in FLEET_STATUSES},
                        road |-> {o \in Orders : status[o] = "OUT_FOR_DELIVERY"}]
    <3>1. read \in Snapshot
      BY DEF Snapshot
    <3>2. desk' = [desk EXCEPT ![d] = [desk[d] EXCEPT !.read = read]]
          /\ UNCHANGED <<active, fix, completed, watch, sock>>
      BY <2>2 DEF ReadSnapshot, redis
    <3> HIDE DEF read
    <3>3. [desk[d] EXCEPT !.read = read] \in Desk
      BY <2>0, <3>1 DEF Desk
    <3> QED BY <2>0, <3>2, <3>3
  <2>3. CASE SendSnapshot(d)
    <3> DEFINE rows == IF desk[d].on THEN {o \in desk[d].read.rows : ~is_completed(o)} ELSE {}
    <3>1. desk[d].read \in Snapshot
      BY <2>0, <2>3 DEF SendSnapshot, Desk
    <3>2. rows \subseteq Orders /\ sync_active(desk[d].read.road) \subseteq Orders
      BY <3>1 DEF Snapshot, sync_active
    <3>3. /\ desk' = [desk EXCEPT ![d] = [desk[d] EXCEPT !.rows = rows, !.read = None]]
          /\ active' = sync_active(desk[d].read.road)
          /\ UNCHANGED <<fix, completed, watch, sock>>
      BY <2>0, <2>3 DEF SendSnapshot, redis
    <3> HIDE DEF rows
    <3>4. [desk[d] EXCEPT !.rows = rows, !.read = None] \in Desk
      BY <2>0, <3>2 DEF Desk
    <3> QED BY <3>2, <3>3, <3>4
  <2>4. CASE Disconnect(d)
    <3>1. [desk[d] EXCEPT !.on = FALSE, !.rows = {}] \in Desk
      BY <2>0 DEF Desk
    <3>2. desk' = [desk EXCEPT ![d] = [desk[d] EXCEPT !.on = FALSE, !.rows = {}]]
      BY <2>0, <2>4 DEF Disconnect
    <3> QED BY <2>0, <2>4, <3>1, <3>2 DEF Disconnect, redis
  <2> QED BY <2>1, <2>2, <2>3, <2>4 DEF Admin
<1> QED BY <1>1 DEF FleetTyped

LEMMA FleetTypeStep ==
  ASSUME IInv, FleetTyped, [Next]_vars
  PROVE  FleetTyped'
<1>1. ASSUME NEW w \in Workers, Request(w) \/ Continue(w) PROVE FleetTyped'
  <2>1. /\ UNCHANGED <<active, completed, desk, watch>> /\ fix' \subseteq fix
        /\ \A s \in Socks : sock'[s].at = sock[s].at /\ sock'[s].order = sock[s].order
    <3>1. CASE Request(w)
      BY <3>1 DEF Request, SendOut, EndDelivery, ChangeStatus, ReadOrder, AskStart, AskStop,
                  redis, sockets, fleet
    <3>2. CASE rider_self_accept(w)
      BY <3>2 DEF rider_self_accept, redis, fleet, IInv, Typed, Sock
    <3>3. CASE Continue(w) /\ ~rider_self_accept(w)
      BY <3>3 DEF Continue, admin_assign_rider, start_delivery_tracking, LookToStop, NothingToStop,
                  stop_delivery_tracking, LookAtMeta, NothingToSwap, set_tracking_rider, Dispatch,
                  redis, sockets, fleet
    <3> QED BY <1>1, <3>1, <3>2, <3>3
  <2> QED BY <2>1 DEF FleetTyped
<1>2. CASE StartCoroutine
  BY <1>2, LoopIsTyped DEF StartCoroutine
<1>3. ASSUME NEW o \in Orders, ResumeCoroutine(o) PROVE FleetTyped'
  BY <1>3, LoopIsTyped DEF ResumeCoroutine
<1>4. ASSUME NEW o \in Orders, Expire(o) PROVE FleetTyped'
  BY <1>4 DEF Expire, sockets, fleet, FleetTyped
<1>5. ASSUME NEW s \in Socks, Gps(s) PROVE FleetTyped'
  BY <1>5, GpsIsTyped
<1>6. ASSUME NEW d \in Desks, Admin(d) PROVE FleetTyped'
  BY <1>6, AdminIsTyped
<1>7. ASSUME NEW c \in Watchers, Customer(c) PROVE FleetTyped'
  <2>1. PICK new \in View :
          watch' = [watch EXCEPT ![c] = new] /\ UNCHANGED <<fix, active, completed, desk, sock>>
    <3>1. ASSUME NEW o \in Orders \cup {None}
          PROVE  /\ [order |-> o, on |-> TRUE, road |-> status[o] = "OUT_FOR_DELIVERY"] \in View
                 /\ [Away EXCEPT !.order = o] \in View
      BY DEF View, Away
    <3>2. Away \in View /\ watch[c].order \in Orders \cup {None}
      BY DEF Away, View, FleetTyped
    <3> QED BY <1>7, <3>1, <3>2 DEF Customer, AskToWatch, add_watcher, LookAway, redis, fleet
  <2> QED BY <2>1 DEF FleetTyped
<1>8. CASE UNCHANGED vars
  BY <1>8 DEF vars, FleetTyped
<1> QED BY <1>1, <1>2, <1>3, <1>4, <1>5, <1>6, <1>7, <1>8 DEF Next, Step

LEMMA FleetTypeAtFirst == Init => FleetTyped
<1> SUFFICES ASSUME Init PROVE FleetTyped
  OBVIOUS
<1>1. Memory(<<>>) /\ Len(<<>>) = 0
  BY EmptySeq DEF Memory, IsInjective
<1>2. [on |-> FALSE, rows |-> {}, read |-> None] \in Desk /\ Away \in View
  BY DEF Desk, Away, View
<1>3. \A s \in Socks : sock[s].at = "OFF"
  BY DEF Init, Off
<1> QED BY <1>1, <1>2, <1>3, BoundsAssumption DEF Init, FleetTyped

(* The tracking state always has its type; the memory of what has finished *)
(* holds no delivery twice and is never longer than COMPLETED_MEMORY       *)
(* (FleetManager, websocket.py:206-246).                                   *)
THEOREM TrackingTypeCorrect == Spec => []TypeOK
<1>1. IInv /\ FleetTyped /\ overlap \in BOOLEAN => TypeOK
  BY DEF IInv, Typed, Stamps, FleetTyped, Memory, TypeOK
<1>2. Init => overlap \in BOOLEAN
  BY DEF Init
<1>3. overlap \in BOOLEAN /\ [Next]_vars => (overlap \in BOOLEAN)'
  BY DEF Next, vars
<1> QED BY <1>1, <1>2, <1>3, FleetTypeAtFirst, FleetTypeStep, TrackingInvariance, PTL DEF Spec

-----------------------------------------------------------------------------
(* A delivery that is over. *)

(* Deliveries move on after the last answer, and the fleet can remember    *)
(* every one of them.                                                      *)
Roomy == ~overlap /\ IsFiniteSet(Orders) /\ Cardinality(Orders) <= COMPLETED_MEMORY

(* The handler of a change of status, and what is told of it.              *)
Moves(j, o) == /\ j.order = o /\ j.tells
               /\ j.task \notin Readings \cup {"LOOK", "SWAP", "SWAPPED"}
Waits(c, o, does) == c.order = o /\ c.does = does /\ c.at = "QUEUED"

(* A handler that announces a start is at work on a delivery that is out;  *)
(* and only one that is to tell the fleet comes to do so.                  *)
OneMind == \A w \in Workers :
  /\ \A o \in Orders : Moves(job[w], o) =>
       (job[w].task \in {"START", "STARTED"} <=> status[o] = "OUT_FOR_DELIVERY")
  /\ job[w].task \in DOMAIN Said => job[w].tells

NoStart(o)     == \A k \in 1 .. Len(loop) : ~Waits(loop[k], o, "START")
FinishWaits(o) == \E k \in 1 .. Len(loop) :
                    /\ Waits(loop[k], o, "FINISH")
                    /\ \A l \in k .. Len(loop) : ~Waits(loop[l], o, "START")
OnItsWay(o)    == (\E w \in Workers : Moves(job[w], o)) \/ FinishWaits(o)

(* It is off the map, and no snapshot that is being read brings it back.   *)
ReadWithout(o) == \A d \in Desks : desk[d].read # None =>
                    /\ o \notin desk[d].read.road
                    /\ status[o] = "DELIVERED" => o \notin desk[d].read.rows
Over(o) == /\ o \notin active
           /\ status[o] = "DELIVERED" => \A d \in Desks : o \notin desk[d].rows
           /\ Contains(completed, o) \/ ReadWithout(o)

Ended(o) == OnItsWay(o) \/ (NoStart(o) /\ Over(o))
AllEnded == \A o \in Orders : status[o] # "OUT_FOR_DELIVERY" => Ended(o)

FleetInv == IInv /\ FleetTyped /\ OneMind /\ AllEnded
-----------------------------------------------------------------------------
(* Handlers. *)

LEMMA OverStays ==
  ASSUME NEW o \in Orders, Over(o), UNCHANGED <<active, completed, desk>>,
         status'[o] = "DELIVERED" => status[o] = "DELIVERED"
  PROVE  Over(o)'
BY DEF Over, ReadWithout

(* A handler changes a status and has to tell of it, or goes on as before. *)
LEMMA HandlerEnds ==
  ASSUME FleetInv, NEW w \in Workers, NEW j \in Job, job' = [job EXCEPT ![w] = j],
         UNCHANGED <<loop, active, completed, desk>>, j.task \in DOMAIN Said => j.tells,
         \A o \in Orders :
           \/ /\ status'[o] = status[o]
              /\ Moves(j, o) <=> Moves(job[w], o)
              /\ Moves(j, o) => (j.task \in {"START", "STARTED"}
                                 <=> job[w].task \in {"START", "STARTED"})
           \/ /\ \A v \in Workers : ~Moves(job[v], o)
              /\ Moves(j, o)
              /\ j.task \in {"START", "STARTED"} <=> status'[o] = "OUT_FOR_DELIVERY"
  PROVE  OneMind' /\ AllEnded'
<1>1. \A v \in Workers : job'[v] = IF v = w THEN j ELSE job[v]
  BY DEF FleetInv, IInv, Typed
<1>2. OneMind'
  <2>0. \A v \in Workers : job'[v].task \in DOMAIN Said => job'[v].tells
    BY <1>1 DEF FleetInv, OneMind
  <2> SUFFICES ASSUME NEW v \in Workers, NEW o \in Orders, Moves(job'[v], o)
               PROVE  job'[v].task \in {"START", "STARTED"} <=> status'[o] = "OUT_FOR_DELIVERY"
    BY <2>0 DEF OneMind
  <2>1. CASE v = w
    BY <1>1, <2>1 DEF FleetInv, OneMind
  <2>2. CASE v # w
    <3>1. job'[v] = job[v]
      BY <1>1, <2>2
    <3> QED BY <3>1 DEF FleetInv, OneMind
  <2> QED BY <2>1, <2>2
<1>3. AllEnded'
  <2> SUFFICES ASSUME NEW o \in Orders, status'[o] # "OUT_FOR_DELIVERY" PROVE Ended(o)'
    BY DEF AllEnded
  <2>1. CASE Moves(j, o)
    BY <1>1, <2>1 DEF Ended, OnItsWay
  <2>2. CASE ~Moves(j, o)
    <3>1. status'[o] = status[o] /\ ~Moves(job[w], o)
      BY <2>2
    <3>2. Ended(o)
      BY <3>1 DEF FleetInv, AllEnded
    <3>3. OnItsWay(o) => OnItsWay(o)'
      BY <1>1, <3>1 DEF OnItsWay, FinishWaits
    <3>4. NoStart(o) /\ Over(o) => NoStart(o)' /\ Over(o)'
      BY <3>1, OverStays DEF NoStart
    <3> QED BY <3>2, <3>3, <3>4 DEF Ended
  <2> QED BY <2>1, <2>2
<1> QED BY <1>2, <1>3

LEMMA RequestEnds ==
  ASSUME Roomy, FleetInv, NEW w \in Workers, Request(w)
  PROVE  OneMind' /\ AllEnded'
<1> USE DEF redis, sockets, fleet
<1>0. /\ job \in [Workers -> Job] /\ status \in [Orders -> Statuses]
      /\ rider \in [Orders -> Riders \cup {None}] /\ Idle \in Job
      /\ \A o : ~Moves(Idle, o)
      /\ DOMAIN Said = {"STARTED", "STOPPED", "SWAPPED"} /\ Idle.task = "IDLE"
  BY DEF FleetInv, IInv, Typed, Stamps, Idle, Job, Tasks, Moves, Said
<1>1. ASSUME NEW o \in Orders, NEW new \in Statuses, NEW r \in Riders \cup {None},
             NEW task \in {"START", "STOP"}, task = "START" <=> new = "OUT_FOR_DELIVERY",
             ChangeStatus(w, o, new, Begin(task, o, r, TRUE))
      PROVE  OneMind' /\ AllEnded'
  <2> DEFINE j == Begin(task, o, r, TRUE)
  <2>1. /\ j \in Job /\ j.task = task /\ \A p : Moves(j, p) <=> p = o
    BY DEF Begin, Job, Tasks, Moves, Readings
  <2>2. /\ job[w] = Idle /\ job' = [job EXCEPT ![w] = j] /\ ~Moving(o)
        /\ UNCHANGED <<loop, active, completed, desk>>
        /\ status' = [status EXCEPT ![o] = new]
    BY <1>1 DEF ChangeStatus, Roomy
  <2>3. \A v \in Workers : ~Moves(job[v], o)
    BY <1>0, <2>2 DEF Moving, Working, Moves
  <2> HIDE DEF j
  <2>4. /\ status'[o] = new /\ \A p \in Orders : p # o => status'[p] = status[p]
    BY <1>0, <2>2
  <2>5. \A p \in Orders : p # o => ~Moves(j, p) /\ ~Moves(job[w], p)
    BY <1>0, <2>1, <2>2
  <2>6. /\ j.task \notin DOMAIN Said
        /\ j.task \in {"START", "STARTED"} <=> status'[o] = "OUT_FOR_DELIVERY"
    BY <1>0, <1>1, <2>1, <2>4
  <2>7. ASSUME NEW p \in Orders
        PROVE  \/ /\ status'[p] = status[p]
                  /\ Moves(j, p) <=> Moves(job[w], p)
                  /\ Moves(j, p) => (j.task \in {"START", "STARTED"}
                                     <=> job[w].task \in {"START", "STARTED"})
               \/ /\ \A v \in Workers : ~Moves(job[v], p)
                  /\ Moves(j, p)
                  /\ j.task \in {"START", "STARTED"} <=> status'[p] = "OUT_FOR_DELIVERY"
    BY <2>1, <2>3, <2>4, <2>5, <2>6
  <2> QED BY <2>1, <2>2, <2>6, <2>7, HandlerEnds
<1>2. ASSUME NEW j \in Job, \A o \in Orders : ~Moves(j, o), job[w] = Idle, j.task \notin DOMAIN Said,
             job' = [job EXCEPT ![w] = j], UNCHANGED <<status, loop, active, completed, desk>>
      PROVE  OneMind' /\ AllEnded'
  BY <1>0, <1>2, HandlerEnds
<1>3. ASSUME NEW o \in Orders, SendOut(w, o) PROVE OneMind' /\ AllEnded'
  BY <1>0, <1>1, <1>3 DEF SendOut, Statuses
<1>4. ASSUME NEW o \in Orders, NEW new \in Statuses, EndDelivery(w, o, new)
      PROVE  OneMind' /\ AllEnded'
  BY <1>1, <1>4 DEF EndDelivery
<1>5. ASSUME NEW o \in Orders, NEW r \in Riders, ReadOrder(w, o, r)
      PROVE  OneMind' /\ AllEnded'
  <2>1. PICK task \in Readings : job' = [job EXCEPT ![w] = Begin(task, o, r, FALSE)]
    BY <1>5 DEF ReadOrder
  <2> DEFINE j == Begin(task, o, r, FALSE)
  <2>2. j \in Job /\ j.task \notin DOMAIN Said /\ \A p \in Orders : ~Moves(j, p)
    BY <1>0 DEF Begin, Job, Tasks, Moves, Readings
  <2>3. /\ job[w] = Idle /\ job' = [job EXCEPT ![w] = j]
        /\ UNCHANGED <<status, loop, active, completed, desk>>
    BY <1>5, <2>1 DEF ReadOrder, table
  <2> HIDE DEF j
  <2> QED BY <1>2, <2>2, <2>3
<1>6. ASSUME NEW o \in Orders, AskStart(w, o) \/ AskStop(w, o)
      PROVE  OneMind' /\ AllEnded'
  <2>1. PICK j \in Job : /\ \A p \in Orders : ~Moves(j, p)
                         /\ j.task \notin DOMAIN Said
                         /\ job[w] = Idle /\ job' = [job EXCEPT ![w] = j]
    <3>1. ASSUME NEW task \in {"START", "STOP"}, NEW r \in Riders \cup {None}
          PROVE  /\ Begin(task, o, r, FALSE) \in Job /\ ~Begin(task, o, r, FALSE).tells
                 /\ Begin(task, o, r, FALSE).task = task
      BY DEF Begin, Job, Tasks
    <3> QED BY <1>0, <1>6, <3>1 DEF AskStart, AskStop, Moves, Typed, FleetInv, IInv
  <2>2. UNCHANGED <<status, loop, active, completed, desk>>
    BY <1>6 DEF AskStart, AskStop, table
  <2> QED BY <1>2, <2>1, <2>2
<1> QED BY <1>3, <1>4, <1>5, <1>6 DEF Request

(* What a handler has to tell is queued behind what was told before.       *)
LEMMA DispatchEnds ==
  ASSUME FleetInv, NEW w \in Workers, Dispatch(w)
  PROVE  OneMind' /\ AllEnded'
<1> DEFINE c == [does |-> Said[job[w].task], order |-> job[w].order, at |-> "QUEUED"]
<1>0. /\ Typed /\ job[w] \in Job /\ job[w].order \in Orders
      /\ job[w].task \in {"STARTED", "STOPPED", "SWAPPED"}
      /\ job' = [job EXCEPT ![w] = Idle] /\ loop' = Append(loop, c)
      /\ UNCHANGED <<status, active, completed, desk>>
  BY DEF Dispatch, FleetInv, IInv, Typed, JobInv, Said, table, fleet
<1>1. /\ c \in Coroutine /\ c.order = job[w].order /\ c.at = "QUEUED"
      /\ job[w].task = "STARTED" => c.does = "START"
      /\ job[w].task = "STOPPED" => c.does = "FINISH"
      /\ job[w].task = "SWAPPED" => c.does = "SWAP"
  BY <1>0 DEF Coroutine, Said
<1> HIDE DEF c
<1>2. /\ Len(loop) \in Nat /\ Len(loop') = Len(loop) + 1 /\ loop'[Len(loop) + 1] = c
      /\ \A i \in 1 .. Len(loop) : loop'[i] = loop[i]
  BY <1>0, <1>1, AppendProperties, LenProperties DEF Typed
<1>3. /\ Len(loop) + 1 \in 1 .. Len(loop')
      /\ \A k \in 1 .. Len(loop') : k \in 1 .. Len(loop) \/ k = Len(loop) + 1
      /\ \A k \in 1 .. Len(loop) : k \in 1 .. Len(loop')
      /\ \A k \in 1 .. Len(loop) : \A l \in k .. Len(loop') :
           l \in k .. Len(loop) \/ l = Len(loop) + 1
      /\ \A l \in Len(loop) + 1 .. Len(loop') : l = Len(loop) + 1
  BY <1>2
<1>4. \A v \in Workers : job'[v] = IF v = w THEN Idle ELSE job[v]
  BY <1>0 DEF Typed
<1>5. \A o \in Orders : ~Moves(Idle, o)
  BY DEF Moves, Idle
<1>6. OneMind'
  <2>1. Idle.task \notin DOMAIN Said
    BY DEF Idle, Said
  <2> QED BY <1>0, <1>4, <1>5, <2>1 DEF FleetInv, OneMind
<1>7. AllEnded'
  <2> SUFFICES ASSUME NEW o \in Orders, status[o] # "OUT_FOR_DELIVERY" PROVE Ended(o)'
    BY <1>0 DEF AllEnded
  <2>1. Ended(o)
    BY DEF FleetInv, AllEnded
  <2>2. CASE Moves(job[w], o)
    <3>1. job[w].task = "STOPPED"
      BY <1>0, <2>2 DEF FleetInv, OneMind, Moves
    <3>2. Waits(loop'[Len(loop) + 1], o, "FINISH")
      BY <1>1, <1>2, <2>2, <3>1 DEF Moves, Waits
    <3>3. ~Waits(loop'[Len(loop) + 1], o, "START")
      BY <3>2 DEF Waits
    <3>4. FinishWaits(o)'
      BY <1>3, <3>2, <3>3 DEF FinishWaits
    <3> QED BY <3>4 DEF Ended, OnItsWay
  <2>3. CASE ~Moves(job[w], o)
    <3>1. ~Waits(c, o, "START")
      <4>1. job[w].tells
        BY <1>0 DEF FleetInv, OneMind, Said
      <4>2. job[w].order = o => job[w].task = "SWAPPED"
        BY <1>0, <2>3, <4>1 DEF Moves, Readings
      <4> QED BY <1>1, <4>2 DEF Waits
    <3>2. (\E v \in Workers : Moves(job[v], o)) => \E v \in Workers : Moves(job[v], o)'
      BY <1>4, <2>3
    <3>3. FinishWaits(o) => FinishWaits(o)'
      BY <1>2, <1>3, <3>1 DEF FinishWaits
    <3>4. NoStart(o) => NoStart(o)'
      BY <1>2, <1>3, <3>1 DEF NoStart
    <3>5. Over(o) => Over(o)'
      BY <1>0, OverStays
    <3> QED BY <2>1, <3>2, <3>3, <3>4, <3>5 DEF Ended, OnItsWay
  <2> QED BY <2>2, <2>3
<1> QED BY <1>6, <1>7

LEMMA HandlersEnd ==
  ASSUME FleetInv, NEW w \in Workers, Continue(w)
  PROVE  OneMind' /\ AllEnded'
<1> USE DEF sockets, table, fleet
<1>0. /\ job[w] \in Job /\ job \in [Workers -> Job] /\ meta \in Stamps
      /\ DOMAIN Said = {"STARTED", "STOPPED", "SWAPPED"}
      /\ JobInv
  BY DEF FleetInv, IInv, Typed, Said
<1>1. ASSUME NEW j \in Job, job' = [job EXCEPT ![w] = j],
             UNCHANGED <<status, loop, active, completed, desk>>,
             j.task \in DOMAIN Said => j.tells,
             \A o \in Orders : /\ Moves(j, o) <=> Moves(job[w], o)
                               /\ Moves(j, o) => (j.task \in {"START", "STARTED"}
                                                  <=> job[w].task \in {"START", "STARTED"})
      PROVE  OneMind' /\ AllEnded'
  BY <1>1, HandlerEnds
<1>2. ASSUME NEW said \in DOMAIN Said, After(w, said),
             UNCHANGED <<status, loop, active, completed, desk>>,
             job[w].task \in {"LOOK", "SWAP"} <=> said = "SWAPPED",
             job[w].task \in {"START", "STARTED"} <=> said = "STARTED",
             job[w].task # "SWAPPED", job[w].task \notin Readings, job[w].order \in Orders
      PROVE  OneMind' /\ AllEnded'
  <2> DEFINE j == IF job[w].tells THEN Begin(said, job[w].order, None, TRUE) ELSE Idle
  <2>1. /\ j \in Job /\ (j.task \in DOMAIN Said => j.tells)
        /\ \A o \in Orders : /\ Moves(j, o) <=> Moves(job[w], o)
                             /\ Moves(j, o) => (j.task \in {"START", "STARTED"}
                                                <=> job[w].task \in {"START", "STARTED"})
    <3>1. CASE job[w].tells
      <4>1. /\ j \in Job /\ j.task = said /\ j.order = job[w].order /\ j.tells
        BY <1>0, <1>2, <3>1 DEF Begin, Job, Tasks
      <4> HIDE DEF j
      <4>2. said \notin {"LOOK", "SWAP"}
        BY <1>0, <1>2
      <4>3. said \notin Readings /\ job[w].task \notin Readings
        BY <1>0, <1>2 DEF Readings
      <4> QED BY <1>0, <1>2, <3>1, <4>1, <4>2, <4>3 DEF Moves
    <3>2. CASE ~job[w].tells
      <4>1. j = Idle /\ Idle \in Job /\ Idle.task = "IDLE" /\ ~Idle.tells
        BY <3>2 DEF Idle, Job, Tasks
      <4> HIDE DEF j
      <4> QED BY <1>0, <3>2, <4>1 DEF Moves
    <3> QED BY <3>1, <3>2
  <2>2. job' = [job EXCEPT ![w] = j]
    BY <1>0, <1>2 DEF After
  <2> HIDE DEF j
  <2> QED BY <1>1, <1>2, <2>1, <2>2
<1>3. job[w].task # "IDLE" => job[w].order \in Orders
  BY <1>0 DEF JobInv
<1>4. CASE start_delivery_tracking(w)
  BY <1>0, <1>2, <1>3, <1>4 DEF start_delivery_tracking, Readings
<1>5. CASE NothingToStop(w)
  BY <1>0, <1>2, <1>3, <1>5 DEF NothingToStop, Readings
<1>6. CASE stop_delivery_tracking(w)
  BY <1>0, <1>2, <1>3, <1>6 DEF stop_delivery_tracking, Readings
<1>7. CASE NothingToSwap(w)
  BY <1>0, <1>2, <1>3, <1>7 DEF NothingToSwap, Readings
<1>8. CASE set_tracking_rider(w)
  BY <1>0, <1>2, <1>3, <1>8 DEF set_tracking_rider, Readings
<1>9. CASE LookToStop(w)
  <2> DEFINE j == [job[w] EXCEPT !.task = "CLEAR", !.who = meta[job[w].order]]
  <2>1. /\ j \in Job /\ j.task = "CLEAR" /\ j.order = job[w].order /\ j.tells = job[w].tells
        /\ job[w].task = "STOP"
    BY <1>0, <1>3, <1>9 DEF LookToStop, Stamps, Job, Tasks
  <2>2. job' = [job EXCEPT ![w] = j] /\ UNCHANGED <<status, loop, active, completed, desk>>
    BY <1>0, <1>9 DEF LookToStop
  <2> HIDE DEF j
  <2> QED BY <1>0, <1>1, <2>1, <2>2 DEF Moves, Readings
<1>10. CASE LookAtMeta(w)
  <2> DEFINE j == [job[w] EXCEPT !.task = "SWAP", !.known = meta[job[w].order] # None]
  <2>1. /\ j \in Job /\ j.task = "SWAP" /\ j.order = job[w].order /\ j.tells = job[w].tells
        /\ job[w].task = "LOOK"
    BY <1>0, <1>10 DEF LookAtMeta, Job, Tasks
  <2>2. job' = [job EXCEPT ![w] = j] /\ UNCHANGED <<status, loop, active, completed, desk>>
    BY <1>0, <1>10 DEF LookAtMeta
  <2> HIDE DEF j
  <2> QED BY <1>0, <1>1, <2>1, <2>2 DEF Moves, Readings
<1>11. CASE rider_self_accept(w) \/ admin_assign_rider(w)
  <2>1. PICK j \in {Idle, Begin("LOOK", job[w].order, job[w].who, TRUE)} :
          job' = [job EXCEPT ![w] = j]
    BY <1>11 DEF rider_self_accept, admin_assign_rider
  <2>2. j \in Job /\ j.task \notin DOMAIN Said /\ \A o \in Orders : ~Moves(j, o)
    <3>1. /\ Idle \in Job /\ Idle.task = "IDLE" /\ ~Idle.tells
      BY DEF Idle, Job, Tasks
    <3>2. /\ Begin("LOOK", job[w].order, job[w].who, TRUE) \in Job
          /\ Begin("LOOK", job[w].order, job[w].who, TRUE).task = "LOOK"
      BY <1>0 DEF Begin, Job, Tasks
    <3> QED BY <1>0, <2>1, <3>1, <3>2 DEF Moves
  <2>3. /\ \A o \in Orders : ~Moves(job[w], o)
        /\ UNCHANGED <<status, loop, active, completed, desk>>
    BY <1>11 DEF rider_self_accept, admin_assign_rider, Moves, Readings
  <2> QED BY <1>1, <2>1, <2>2, <2>3
<1> QED BY <1>4, <1>5, <1>6, <1>7, <1>8, <1>9, <1>10, <1>11, DispatchEnds DEF Continue
-----------------------------------------------------------------------------
(* The loop: what is taken from it, and what is left to be said. *)

LEMMA LoopShrinks ==
  ASSUME Typed, NEW i \in 1 .. Len(loop), loop' = RemoveAt(loop, i), NEW o
  PROVE  /\ NoStart(o) => NoStart(o)'
         /\ FinishWaits(o) /\ ~Waits(loop[i], o, "FINISH") => FinishWaits(o)'
<1>0. loop \in Seq(Coroutine) /\ Len(loop) \in Nat /\ i \in 1 .. Len(loop)
  BY LenProperties DEF Typed
<1>1. /\ Len(loop') = Len(loop) - 1
      /\ \A k \in 1 .. Len(loop) - 1 : loop'[k] = IF k < i THEN loop[k] ELSE loop[k + 1]
  BY <1>0, RemoveAtIs
<1>2. NoStart(o) => NoStart(o)'
  <2>1. \A k \in 1 .. Len(loop') : loop'[k] = loop[k] \/ loop'[k] = loop[k + 1]
    BY <1>0, <1>1
  <2>2. \A k \in 1 .. Len(loop') : k \in 1 .. Len(loop) /\ k + 1 \in 1 .. Len(loop)
    BY <1>0, <1>1
  <2> QED BY <2>1, <2>2 DEF NoStart
<1>3. ASSUME FinishWaits(o), ~Waits(loop[i], o, "FINISH") PROVE FinishWaits(o)'
  <2>1. PICK k \in 1 .. Len(loop) : /\ Waits(loop[k], o, "FINISH")
                                    /\ \A l \in k .. Len(loop) : ~Waits(loop[l], o, "START")
    BY <1>3 DEF FinishWaits
  <2>2. k # i
    BY <1>3, <2>1
  <2>3. PICK m \in 1 .. Len(loop') : m = IF k < i THEN k ELSE k - 1
    BY <1>0, <1>1, <2>2
  <2>4. loop'[m] = loop[k]
    BY <1>0, <1>1, <2>2, <2>3
  <2>5. ASSUME NEW l \in m .. Len(loop') PROVE ~Waits(loop'[l], o, "START")
    <3>1. /\ l \in 1 .. Len(loop) - 1
          /\ IF l < i THEN l \in k .. Len(loop) ELSE l + 1 \in k .. Len(loop)
      BY <1>0, <1>1, <2>2, <2>3
    <3> QED BY <1>1, <2>1, <3>1
  <2> QED BY <2>1, <2>4, <2>5 DEF FinishWaits
<1> QED BY <1>2, <1>3

LEMMA LoopGoesOn ==
  ASSUME Typed, NEW i \in 1 .. Len(loop), NEW at \in {"WATCHERS", "SOCKETS"},
         loop' = [loop EXCEPT ![i].at = at], NEW o
  PROVE  /\ Len(loop') = Len(loop) /\ loop'[i].at = at
         /\ \A k \in 1 .. Len(loop) : k # i => loop'[k] = loop[k]
         /\ NoStart(o) => NoStart(o)'
         /\ FinishWaits(o) /\ ~Waits(loop[i], o, "FINISH") => FinishWaits(o)'
<1> DEFINE c == [loop[i] EXCEPT !.at = at]
<1>1. c \in Coroutine /\ loop' = [loop EXCEPT ![i] = c] /\ loop \in Seq(Coroutine)
  BY LoopEntries DEF Coroutine
<1>2. c.at = at
  BY LoopEntries DEF Coroutine
<1> HIDE DEF c
<1>3. Len(loop') = Len(loop) /\ \A k \in 1 .. Len(loop) : loop'[k] = IF k = i THEN c ELSE loop[k]
  BY <1>1, ExceptSeq
<1>4. NoStart(o) => NoStart(o)'
  BY <1>2, <1>3 DEF NoStart, Waits
<1>5. ASSUME FinishWaits(o), ~Waits(loop[i], o, "FINISH") PROVE FinishWaits(o)'
  <2>1. PICK k \in 1 .. Len(loop) : /\ Waits(loop[k], o, "FINISH")
                                    /\ \A l \in k .. Len(loop) : ~Waits(loop[l], o, "START")
    BY <1>5 DEF FinishWaits
  <2>2. k # i /\ loop'[k] = loop[k]
    BY <1>3, <1>5, <2>1
  <2>3. ASSUME NEW l \in k .. Len(loop) PROVE ~Waits(loop'[l], o, "START")
    <3>1. l \in 1 .. Len(loop) /\ ~Waits(loop[l], o, "START")
      BY <2>1, LenProperties DEF Typed
    <3> QED BY <1>2, <1>3, <3>1 DEF Waits
  <2> QED BY <1>3, <2>1, <2>2, <2>3 DEF FinishWaits
<1> QED BY <1>2, <1>3, <1>4, <1>5

(* The fleet's own word is not on its way any more when it was the last.   *)
LEMMA FinishIsSaid ==
  ASSUME Typed, NEW i \in 1 .. Len(loop), Starts(i, "FINISH"), NEW o \in Orders,
         o = loop[i].order, loop' = [loop EXCEPT ![i].at = "WATCHERS"], UNCHANGED job
  PROVE  Ended(o) => OnItsWay(o)' \/ NoStart(o)'
<1>1. /\ Len(loop') = Len(loop) /\ loop'[i].at = "WATCHERS"
      /\ \A k \in 1 .. Len(loop) : k # i => loop'[k] = loop[k]
      /\ NoStart(o) => NoStart(o)'
  BY LoopGoesOn
<1>2. Len(loop) \in Nat
  BY LenProperties DEF Typed
<1>3. ASSUME NEW k \in 1 .. Len(loop), Waits(loop[k], o, "FINISH"),
             \A l \in k .. Len(loop) : ~Waits(loop[l], o, "START")
      PROVE  FinishWaits(o)' \/ NoStart(o)'
  <2>1. ~(k < i)
    BY <1>2, <1>3 DEF Starts, Waits
  <2>2. \A l \in 1 .. i - 1 : loop[l].at # "QUEUED"
    BY DEF Starts
  <2>3. CASE k = i
    <3>1. ASSUME NEW l \in 1 .. Len(loop) PROVE ~Waits(loop'[l], o, "START")
      <4>1. CASE l < i
        BY <1>1, <1>2, <2>2, <4>1 DEF Waits
      <4>2. CASE l = i
        BY <1>1, <4>2 DEF Waits
      <4>3. CASE l > i
        BY <1>1, <1>2, <1>3, <2>3, <4>3
      <4> QED BY <1>2, <4>1, <4>2, <4>3
    <3> QED BY <1>1, <3>1 DEF NoStart
  <2>4. CASE k > i
    <3>1. loop'[k] = loop[k] /\ \A l \in k .. Len(loop) : l \in 1 .. Len(loop) /\ l # i
      BY <1>1, <1>2, <2>4
    <3>2. \A l \in k .. Len(loop') : ~Waits(loop'[l], o, "START")
      BY <1>1, <1>3, <3>1
    <3> QED BY <1>1, <1>3, <3>1, <3>2 DEF FinishWaits
  <2> QED BY <1>2, <2>1, <2>3, <2>4
<1>4. FinishWaits(o) => FinishWaits(o)' \/ NoStart(o)'
  BY <1>3 DEF FinishWaits
<1>5. (\E w \in Workers : Moves(job[w], o)) => (\E w \in Workers : Moves(job[w], o))'
  OBVIOUS
<1> QED BY <1>1, <1>4, <1>5 DEF Ended, OnItsWay

LEMMA RowsOf ==
  ASSUME FleetTyped, NEW o, NEW d \in Desks
  PROVE  /\ Shown(o)[d].rows \subseteq desk[d].rows \cup {o} /\ Shown(o)[d].read = desk[d].read
         /\ Hidden(o)[d].rows = desk[d].rows \ {o} /\ Hidden(o)[d].read = desk[d].read
<1>1. desk[d] \in Desk
  BY DEF FleetTyped
<1> QED BY <1>1 DEF Shown, Hidden, Desk

LEMMA LoopEnds ==
  ASSUME Roomy, FleetInv, NEW i \in 1 .. Len(loop),
         \/ DeliveryStarted(i) \/ DeliveryCompleted(i) \/ RiderReassigned(i)
         \/ TellWatchers(i) \/ FinishSockets(i)
  PROVE  OneMind' /\ AllEnded'
<1> USE DEF table, fleet
<1>0. Typed /\ FleetTyped /\ loop[i].order \in Orders
  BY LoopEntries DEF FleetInv, IInv
<1>1. UNCHANGED <<status, job>>
  BY DEF DeliveryStarted, DeliveryCompleted, RiderReassigned, TellWatchers, FinishSockets
<1>2. OneMind'
  BY <1>1 DEF FleetInv, OneMind
<1>3. SUFFICES ASSUME NEW o \in Orders, status[o] # "OUT_FOR_DELIVERY" PROVE Ended(o)'
  BY <1>1, <1>2 DEF AllEnded
<1>4. Ended(o)
  BY <1>3 DEF FleetInv, AllEnded
<1>5. (\E w \in Workers : Moves(job[w], o)) => (\E w \in Workers : Moves(job[w], o))'
  BY <1>1
<1>6. CASE DeliveryStarted(i)
  <2>1. /\ Starts(i, "START") /\ loop' = RemoveAt(loop, i)
        /\ active' = active \cup {loop[i].order}
        /\ completed' = Without(completed, loop[i].order) /\ desk' = Shown(loop[i].order)
    BY <1>6 DEF DeliveryStarted
  <2>2. /\ NoStart(o) => NoStart(o)'
        /\ FinishWaits(o) => FinishWaits(o)'
    BY <1>0, <2>1, LoopShrinks DEF Starts, Waits
  <2>3. CASE loop[i].order = o
    <3>1. ~NoStart(o)
      BY <2>1, <2>3 DEF Starts, NoStart, Waits
    <3> QED BY <1>4, <1>5, <2>2, <3>1 DEF Ended, OnItsWay
  <2>4. CASE loop[i].order # o
    <3>1. Contains(completed, o) => Contains(completed, o)'
      BY <1>0, <2>1, <2>4, WithoutForgets DEF FleetTyped
    <3>2. ReadWithout(o) => ReadWithout(o)'
      BY <1>0, <1>1, <2>1, RowsOf DEF ReadWithout
    <3>3. Over(o) => Over(o)'
      BY <1>0, <1>1, <2>1, <2>4, <3>1, <3>2, RowsOf DEF Over
    <3> QED BY <1>4, <1>5, <2>2, <3>3 DEF Ended, OnItsWay
  <2> QED BY <2>3, <2>4
<1>7. CASE DeliveryCompleted(i)
  <2> DEFINE p == loop[i].order
             t == Append(Without(completed, p), p)
  <2>1. /\ Starts(i, "FINISH") /\ loop' = [loop EXCEPT ![i].at = "WATCHERS"]
        /\ active' = active \ {p} /\ completed' = LastOf(t, COMPLETED_MEMORY)
        /\ desk' = Hidden(p)
    BY <1>7 DEF DeliveryCompleted
  <2>2. Memory(t) /\ \A x : Contains(t, x) <=> (x # p /\ Contains(completed, x)) \/ x = p
    BY <1>0, WithoutForgets, AppendRemembers DEF FleetTyped
  <2> HIDE DEF t
  <2>3. completed' = t
    <3>1. Len(t) <= Cardinality(Orders) /\ Len(t) \in Nat
      BY <2>2, MemoryIsShort, Remembered DEF Roomy
    <3>2. Cardinality(Orders) \in Nat /\ Cardinality(Orders) <= COMPLETED_MEMORY
      BY FS_CardinalityType DEF Roomy
    <3>3. COMPLETED_MEMORY \in Nat
      BY BoundsAssumption
    <3>4. Len(t) <= COMPLETED_MEMORY
      BY <3>1, <3>2, <3>3
    <3> QED BY <2>1, <2>2, <3>3, <3>4, LastOfRemembers
  <2>4. CASE p = o
    <3>1. Over(o)'
      BY <1>0, <2>1, <2>2, <2>3, <2>4, RowsOf DEF Over
    <3>2. OnItsWay(o)' \/ NoStart(o)'
      BY <1>0, <1>1, <1>4, <2>1, <2>4, FinishIsSaid
    <3> QED BY <3>1, <3>2 DEF Ended
  <2>5. CASE p # o
    <3>1. /\ NoStart(o) => NoStart(o)'
          /\ FinishWaits(o) => FinishWaits(o)'
      BY <1>0, <2>1, <2>5, LoopGoesOn DEF Waits
    <3>2. Contains(completed, o) => Contains(completed, o)'
      BY <2>2, <2>3, <2>5
    <3>3. ReadWithout(o) => ReadWithout(o)'
      BY <1>0, <1>1, <2>1, RowsOf DEF ReadWithout
    <3>4. Over(o) => Over(o)'
      BY <1>0, <1>1, <2>1, <3>2, <3>3, RowsOf DEF Over
    <3> QED BY <1>4, <1>5, <3>1, <3>4 DEF Ended, OnItsWay
  <2> QED BY <2>4, <2>5
<1>8. CASE RiderReassigned(i) \/ TellWatchers(i) \/ FinishSockets(i)
  <2>1. UNCHANGED <<active, completed, desk>> /\ ~Waits(loop[i], o, "FINISH")
    BY <1>8 DEF RiderReassigned, TellWatchers, FinishSockets, Starts, Waits
  <2>2. /\ NoStart(o) => NoStart(o)'
        /\ FinishWaits(o) => FinishWaits(o)'
    <3>1. CASE loop' = RemoveAt(loop, i)
      BY <1>0, <2>1, <3>1, LoopShrinks
    <3>2. CASE loop' = [loop EXCEPT ![i].at = "SOCKETS"]
      BY <1>0, <2>1, <3>2, LoopGoesOn
    <3> QED BY <1>8, <3>1, <3>2 DEF RiderReassigned, TellWatchers, FinishSockets
  <2>3. Over(o) => Over(o)'
    BY <1>1, <2>1, OverStays
  <2> QED BY <1>4, <1>5, <2>2, <2>3 DEF Ended, OnItsWay
<1> QED BY <1>6, <1>7, <1>8
-----------------------------------------------------------------------------
(* Positions and snapshots bring nothing back.                             *)
LEMMA OthersEnd ==
  ASSUME FleetInv, UNCHANGED <<status, job, loop>>,
         \A o \in Orders : status[o] # "OUT_FOR_DELIVERY" /\ Over(o) => Over(o)'
  PROVE  OneMind' /\ AllEnded'
<1>1. OneMind'
  BY DEF FleetInv, OneMind
<1>2. ASSUME NEW o \in Orders, status[o] # "OUT_FOR_DELIVERY" PROVE Ended(o)'
  <2>1. Ended(o)
    BY <1>2 DEF FleetInv, AllEnded
  <2>2. OnItsWay(o) => OnItsWay(o)'
    BY DEF OnItsWay, FinishWaits
  <2>3. NoStart(o) => NoStart(o)'
    BY DEF NoStart
  <2> QED BY <1>2, <2>1, <2>2, <2>3 DEF Ended
<1> QED BY <1>1, <1>2 DEF AllEnded

LEMMA GpsEnds ==
  ASSUME FleetInv, NEW s \in Socks, Gps(s)
  PROVE  OneMind' /\ AllEnded'
<1> USE DEF table, fleet, redis
<1>1. UNCHANGED <<status, job, loop, active, completed>>
  BY DEF Gps, Authorise, Register, Receive, Ping, Forward, NothingToForward, HangUp
<1>2. \/ UNCHANGED desk
      \/ \E o \in active : desk' = Shown(o)
  BY DEF Gps, Authorise, Register, Receive, Ping, Forward, NothingToForward, HangUp,
         broadcast_location
<1>3. ASSUME NEW o \in Orders, Over(o) PROVE Over(o)'
  <2>1. CASE UNCHANGED desk
    BY <1>1, <1>3, <2>1, OverStays
  <2>2. CASE \E p \in active : desk' = Shown(p)
    <3>1. PICK p \in active : desk' = Shown(p)
      BY <2>2
    <3>2. p # o
      BY <1>3 DEF Over
    <3>3. ReadWithout(o) => ReadWithout(o)'
      BY <1>1, <3>1, RowsOf DEF ReadWithout, FleetInv
    <3>4. \A d \in Desks : o \notin desk[d].rows => o \notin desk'[d].rows
      BY <3>1, <3>2, RowsOf DEF FleetInv
    <3> QED BY <1>1, <1>3, <3>3, <3>4 DEF Over
  <2> QED BY <1>2, <2>1, <2>2
<1> QED BY <1>1, <1>3, OthersEnd

LEMMA AdminEnds ==
  ASSUME FleetInv, NEW d \in Desks, Admin(d)
  PROVE  OneMind' /\ AllEnded'
<1> USE DEF table, redis
<1>0. desk \in [Desks -> Desk] /\ desk[d] \in Desk
  BY DEF FleetInv, FleetTyped
<1>1. UNCHANGED <<status, job, loop, completed>>
  BY DEF Admin, Connect, ReadSnapshot, SendSnapshot, Disconnect
<1>2. SUFFICES ASSUME NEW o \in Orders, status[o] # "OUT_FOR_DELIVERY", Over(o) PROVE Over(o)'
  BY <1>1, OthersEnd
<1>3. CASE Connect(d) \/ Disconnect(d)
  <2>1. /\ UNCHANGED active
        /\ \A e \in Desks : desk'[e].rows \subseteq desk[e].rows /\ desk'[e].read = desk[e].read
    BY <1>0, <1>3 DEF Connect, Disconnect, Desk
  <2> QED BY <1>1, <1>2, <2>1 DEF Over, ReadWithout
<1>4. CASE ReadSnapshot(d)
  <2> DEFINE read == [rows |-> {p \in Orders : status[p] \in FLEET_STATUSES},
                      road |-> {p \in Orders : status[p] = "OUT_FOR_DELIVERY"}]
  <2>1. o \notin read.road /\ (status[o] = "DELIVERED" => o \notin read.rows)
    BY <1>2 DEF FLEET_STATUSES
  <2>2. /\ UNCHANGED active /\ desk' = [desk EXCEPT ![d].read = read]
    BY <1>4 DEF ReadSnapshot
  <2> HIDE DEF read
  <2>3. \A e \in Desks : /\ desk'[e].rows = desk[e].rows
                         /\ desk'[e].read = IF e = d THEN read ELSE desk[e].read
    BY <1>0, <2>2 DEF Desk
  <2>4. ReadWithout(o) => ReadWithout(o)'
    BY <1>1, <2>1, <2>3 DEF ReadWithout
  <2> QED BY <1>1, <1>2, <2>2, <2>3, <2>4 DEF Over
<1>5. CASE SendSnapshot(d)
  <2> DEFINE rows == IF desk[d].on THEN {p \in desk[d].read.rows : ~is_completed(p)} ELSE {}
  <2>1. /\ desk[d].read # None /\ active' = sync_active(desk[d].read.road)
        /\ desk' = [desk EXCEPT ![d] = [desk[d] EXCEPT !.rows = rows, !.read = None]]
    BY <1>0, <1>5 DEF SendSnapshot
  <2>2. \/ is_completed(o)
        \/ /\ o \notin desk[d].read.road
           /\ status[o] = "DELIVERED" => o \notin desk[d].read.rows
    BY <1>2, <2>1 DEF Over, ReadWithout, is_completed
  <2>3. o \notin active' /\ (status[o] = "DELIVERED" => o \notin rows)
    BY <2>1, <2>2 DEF sync_active
  <2> HIDE DEF rows
  <2>4. \A e \in Desks : /\ desk'[e].rows = IF e = d THEN rows ELSE desk[e].rows
                         /\ desk'[e].read = IF e = d THEN None ELSE desk[e].read
    BY <1>0, <2>1 DEF Desk
  <2>5. ReadWithout(o) => ReadWithout(o)'
    BY <1>1, <2>4 DEF ReadWithout
  <2> QED BY <1>1, <1>2, <2>3, <2>4, <2>5 DEF Over
<1> QED BY <1>3, <1>4, <1>5 DEF Admin
-----------------------------------------------------------------------------
LEMMA FleetStep ==
  ASSUME Roomy, FleetInv, [Next]_vars
  PROVE  OneMind' /\ AllEnded'
<1>1. ASSUME UNCHANGED <<status, job, loop, active, completed, desk>>
      PROVE  OneMind' /\ AllEnded'
  BY <1>1, OverStays, OthersEnd
<1>2. ASSUME NEW w \in Workers, Request(w) \/ Continue(w) PROVE OneMind' /\ AllEnded'
  BY <1>2, RequestEnds, HandlersEnd
<1>3. CASE StartCoroutine
  BY <1>3, LoopEnds DEF StartCoroutine
<1>4. ASSUME NEW o \in Orders, ResumeCoroutine(o) PROVE OneMind' /\ AllEnded'
  BY <1>4, LoopEnds DEF ResumeCoroutine
<1>5. ASSUME NEW o \in Orders, Expire(o) PROVE OneMind' /\ AllEnded'
  BY <1>1, <1>5 DEF Expire, table, sockets, fleet
<1>6. ASSUME NEW s \in Socks, Gps(s) PROVE OneMind' /\ AllEnded'
  BY <1>6, GpsEnds
<1>7. ASSUME NEW d \in Desks, Admin(d) PROVE OneMind' /\ AllEnded'
  BY <1>7, AdminEnds
<1>8. ASSUME NEW c \in Watchers, Customer(c) PROVE OneMind' /\ AllEnded'
  BY <1>1, <1>8 DEF Customer, AskToWatch, add_watcher, LookAway, table, fleet
<1>9. CASE UNCHANGED vars
  BY <1>1, <1>9 DEF vars
<1> QED BY <1>2, <1>3, <1>4, <1>5, <1>6, <1>7, <1>8, <1>9 DEF Next, Step

LEMMA FleetAtFirst == Init => OneMind /\ AllEnded
<1> SUFFICES ASSUME Init PROVE OneMind /\ AllEnded
  OBVIOUS
<1>1. OneMind
  BY DEF Init, OneMind, Idle, Moves, Said
<1>2. Len(<<>>) = 0
  BY EmptySeq
<1>3. ASSUME NEW o \in Orders PROVE NoStart(o) /\ Over(o)
  BY <1>2 DEF Init, NoStart, Over, ReadWithout
<1> QED BY <1>1, <1>3 DEF AllEnded, Ended

(* A delivery that is over stays off the admins' map, whatever snapshot    *)
(* was being read and whatever position was on its way when it ended       *)
(* (FleetManager, websocket.py:206-246), when deliveries move on after the *)
(* last answer and the fleet can remember every one of them.               *)
THEOREM OverStaysOffTheMap ==
  ASSUME IsFiniteSet(Orders), Cardinality(Orders) <= COMPLETED_MEMORY
  PROVE  Spec => []OverIsOffTheMap
<1> DEFINE Settled == ~overlap => OneMind /\ AllEnded
<1>1. Init => Settled
  BY FleetAtFirst
<1>2. ASSUME IInv, FleetTyped, Settled, [Next]_vars
      PROVE  Settled'
  <2>1. overlap' = overlap
    BY <1>2 DEF Next, vars
  <2>2. CASE ~overlap
    <3>1. Roomy /\ FleetInv
      BY <1>2, <2>2 DEF Roomy, FleetInv
    <3> QED BY <1>2, <3>1, FleetStep
  <2> QED BY <2>1, <2>2
<1>3. IInv /\ FleetTyped /\ Settled => OverIsOffTheMap
  <2> SUFFICES ASSUME FleetInv, NEW o \in Orders, status[o] # "OUT_FOR_DELIVERY", ~Pending(o)
               PROVE  Over(o)
    BY DEF OverIsOffTheMap, Over, FleetInv
  <2>1. Ended(o)
    BY DEF FleetInv, AllEnded
  <2>2. ~OnItsWay(o)
    BY DEF OnItsWay, FinishWaits, Moves, Waits, Pending
  <2> QED BY <2>1, <2>2 DEF Ended
<1>4. Init => FleetTyped
  BY FleetTypeAtFirst
<1>5. IInv /\ FleetTyped /\ [Next]_vars => FleetTyped'
  BY FleetTypeStep
<1> HIDE DEF Settled
<1> QED BY <1>1, <1>2, <1>3, <1>4, <1>5, TrackingInvariance, PTL DEF Spec
=============================================================================
