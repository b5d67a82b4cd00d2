---------------------------- MODULE LiveTracking ----------------------------
(***************************************************************************)
(* Deliveries on the road: the position keys in Redis, the riders' GPS     *)
(* sockets that write them, and the sockets that watch.                    *)
(*                                                                         *)
(* Three kinds of process meet here.  A request handler, on a thread,      *)
(* commits the order and then tidies Redis itself, but hands everything    *)
(* about sockets to the event loop.  The loop starts what it is handed in  *)
(* the order it came, and lets others run at every await.  A snapshot for  *)
(* the admins is read on a thread and applied on the loop.                 *)
(*                                                                         *)
(* Sockets of one order are closed one after another, with an await each;  *)
(* a frame or a newcomer in between is as one before or after, so closing  *)
(* them is one step here.  So is a broadcast to the admins.                *)
(***************************************************************************)
EXTENDS Integers, FiniteSets, SequencesExt

CONSTANTS
  None,
  Orders,           \* deliveries, packed
  Riders, Workers,
  Socks,            \* the riders' GPS connections
  Desks,            \* the admins' connections
  Watchers,         \* the customers' connections
  COMPLETED_MEMORY, \* how many finished deliveries the fleet remembers
  MaxPending,       \* bound: handlers at work and coroutines on the loop
  RedisMayFail

VARIABLES
  status, rider,    \* the orders table (external: see OrderLifecycle)
  meta, fix,        \* Redis: whose a delivery is, and which have a position
  job,              \* what each handler has still to do
  loop,             \* coroutines handed to the loop and not done
  sock,             \* the GPS connections and their registry
  active,           \* FleetManager.active_orders
  completed,        \* FleetManager.completed_orders, oldest first
  desk,             \* what each admin sees, and the snapshot being read
  watch,            \* what each customer watches, and whether it was on the
                    \* road when they came (a history)
  overlap           \* whether deliveries move on before the last answer: it
                    \* says under which traffic a property is claimed

vars ==
  <<status, rider, meta, fix, job, loop, sock, active, completed, desk, watch, overlap>>

Statuses == {"PACKAGED", "OUT_FOR_DELIVERY", "DELIVERED", "DELIVERY_FAILED"}
FLEET_STATUSES == Statuses \ {"DELIVERED"}

ASSUME ActorsAssumption == None \notin Orders \cup Riders
ASSUME BoundsAssumption == /\ COMPLETED_MEMORY \in Nat \ {0}
                           /\ MaxPending \in Nat \ {0}
                           /\ RedisMayFail \in BOOLEAN

(* A request that has read the order and is to write its rider. *)
Readings == {"ACCEPT", "REASSIGN"}

Tasks == Readings \cup {"IDLE", "START", "STARTED", "STOP", "CLEAR", "STOPPED",
                        "LOOK", "SWAP", "SWAPPED"}

(* who: the rider to write, or the one that was read; known: whether any   *)
(* was read; tells: whether the loop is to hear of it.                     *)
Job   == [task : Tasks, order : Orders \cup {None}, who : Riders \cup {None},
          known : BOOLEAN, tells : BOOLEAN]
Idle  == [task |-> "IDLE", order |-> None, who |-> None, known |-> FALSE, tells |-> FALSE]
Begin(task, o, r, tells) ==
  [task |-> task, order |-> o, who |-> r, known |-> FALSE, tells |-> tells]

Coroutine == [does : {"START", "FINISH", "SWAP"}, order : Orders,
              at : {"QUEUED", "WATCHERS", "SOCKETS"}]

(* asked: authorised and not registered yet; frame: a position received;   *)
(* sent: written, to be forwarded.  Two histories: late, the order's       *)
(* sockets were closed while this one was asking; passed, another rider    *)
(* accepted the order on a reading from before its rider was set.          *)
Sock == [at : {"OFF", "ASKED", "OPEN", "FRAME", "SENT"}, order : Orders \cup {None},
         who : Riders \cup {None}, revoked : BOOLEAN, late : BOOLEAN, passed : BOOLEAN]
Off  == [at |-> "OFF", order |-> None, who |-> None, revoked |-> FALSE, late |-> FALSE,
         passed |-> FALSE]

Snapshot == [rows : SUBSET Orders, road : SUBSET Orders]
Desk     == [on : BOOLEAN, rows : SUBSET Orders, read : Snapshot \cup {None}]

(* on: registered with the delivery, not only let in. *)
View == [order : Orders \cup {None}, on : BOOLEAN, road : BOOLEAN]
Away == [order |-> None, on |-> FALSE, road |-> FALSE]

TypeOK ==
  /\ status \in [Orders -> Statuses] /\ rider \in [Orders -> Riders \cup {None}]
  /\ meta \in [Orders -> Riders \cup {None}] /\ fix \subseteq Orders
  /\ job  \in [Workers -> Job]
  /\ loop \in Seq(Coroutine)
  /\ sock \in [Socks -> Sock]
  /\ active \subseteq Orders
  /\ completed \in Seq(Orders)
  /\ IsInjective(completed) /\ Len(completed) <= COMPLETED_MEMORY
  /\ desk \in [Desks -> Desk] /\ watch \in [Watchers -> View]
  /\ overlap \in BOOLEAN

Init ==
  /\ status = [o \in Orders |-> "PACKAGED"] /\ rider \in [Orders -> Riders \cup {None}]
  /\ meta = [o \in Orders |-> None] /\ fix = {}
  /\ job  = [w \in Workers |-> Idle]
  /\ loop = <<>>
  /\ sock = [s \in Socks |-> Off]
  /\ active = {} /\ completed = <<>>
  /\ desk = [d \in Desks |-> [on |-> FALSE, rows |-> {}, read |-> None]]
  /\ watch = [c \in Watchers |-> Away]
  /\ overlap \in BOOLEAN

table   == <<status, rider>>
redis   == <<meta, fix>>
fleet   == <<active, completed, desk>>
sockets == <<loop, sock, fleet, watch>>
-----------------------------------------------------------------------------
(* Handlers: the commit, and what they do after it.                        *)

Working == {w \in Workers : job[w] # Idle}
Room == Cardinality(Working) + Len(loop) < MaxPending

Moving(o) ==
  \E w \in Working : /\ job[w].order = o /\ job[w].tells
                     /\ job[w].task \notin {"LOOK", "SWAP", "SWAPPED"}

ChangeStatus(w, o, new, next) ==
  /\ job[w] = Idle /\ Room
  /\ overlap \/ ~Moving(o)
  /\ status' = [status EXCEPT ![o] = new]
  /\ job'    = [job EXCEPT ![w] = next]
  /\ UNCHANGED <<rider, redis, sockets>>

SendOut(w, o) == /\ status[o] \in {"PACKAGED", "DELIVERY_FAILED"} /\ rider[o] # None
                 /\ ChangeStatus(w, o, "OUT_FOR_DELIVERY", Begin("START", o, rider[o], TRUE))

EndDelivery(w, o, new) == /\ status[o] = "OUT_FOR_DELIVERY"
                          /\ new \in {"DELIVERED", "DELIVERY_FAILED"}
                          /\ ChangeStatus(w, o, new, Begin("STOP", o, None, TRUE))

(* A request reads the order and goes on to write its rider: r accepts it, *)
(* or auto_assign_rider picks r, for want of a rider; or an admin puts r   *)
(* in the place of whoever has it.                                         *)
ReadOrder(w, o, r) ==
  /\ job[w] = Idle /\ Room
  /\ \E task \in Readings :
       /\ task = "ACCEPT"   => rider[o] = None
       /\ task = "REASSIGN" => rider[o] # r
       /\ job' = [job EXCEPT ![w] = Begin(task, o, r, FALSE)]
  /\ UNCHANGED <<table, redis, sockets>>

WriteRider(w) == rider' = [rider EXCEPT ![job[w].order] = job[w].who]

(* Whoever has become the order's rider since is passed over, and nothing  *)
(* is told of it.                                                          *)
rider_self_accept(w) ==
  LET over(s) == sock[s].order = job[w].order /\ rider[job[w].order] # job[w].who
  IN  /\ job[w].task = "ACCEPT"
      /\ WriteRider(w)
      /\ job'  = [job EXCEPT ![w] = Idle]
      /\ sock' = [s \in Socks |-> [sock[s] EXCEPT !.passed = @ \/ over(s)]]
      /\ UNCHANGED <<status, redis, loop, fleet, watch>>

(* Only a delivery on the road has anything to move. *)
admin_assign_rider(w) ==
  LET o == job[w].order
  IN  /\ job[w].task = "REASSIGN"
      /\ WriteRider(w)
      /\ job' = [job EXCEPT ![w] = IF status[o] = "OUT_FOR_DELIVERY"
                                   THEN Begin("LOOK", o, job[w].who, TRUE) ELSE Idle]
      /\ UNCHANGED <<status, redis, sockets>>

(* POST start-tracking: the rider's phone stamps the delivery itself. *)
AskStart(w, o) ==
  /\ job[w] = Idle /\ Room
  /\ status[o] = "OUT_FOR_DELIVERY"
  /\ job' = [job EXCEPT ![w] = Begin("START", o, rider[o], FALSE)]
  /\ UNCHANGED <<table, redis, sockets>>

(* POST stop-tracking, for a phone that died: whatever the order's status. *)
AskStop(w, o) ==
  /\ job[w] = Idle /\ Room
  /\ job' = [job EXCEPT ![w] = Begin("STOP", o, None, FALSE)]
  /\ UNCHANGED <<table, redis, sockets>>

(* After a Redis call, done or failed, a handler of the lifecycle goes on. *)
After(w, said) ==
  job' = [job EXCEPT ![w] = IF @.tells THEN Begin(said, @.order, None, TRUE) ELSE Idle]

start_delivery_tracking(w) ==
  /\ job[w].task = "START"
  /\ \/ meta' = [meta EXCEPT ![job[w].order] = job[w].who]
     \/ RedisMayFail /\ UNCHANGED meta
  /\ After(w, "STARTED")
  /\ UNCHANGED <<table, fix, sockets>>

(* The metadata is read, marked completed and written back, whoever has    *)
(* written it since.                                                       *)
LookToStop(w) ==
  /\ job[w].task = "STOP"
  /\ job' = [job EXCEPT ![w].task = "CLEAR", ![w].who = meta[job[w].order]]
  /\ UNCHANGED <<table, redis, sockets>>

NothingToStop(w) ==
  /\ job[w].task = "STOP" /\ RedisMayFail
  /\ After(w, "STOPPED")
  /\ UNCHANGED <<table, redis, sockets>>

stop_delivery_tracking(w) ==
  LET o == job[w].order
  IN  /\ job[w].task = "CLEAR"
      /\ \/ /\ meta' = IF job[w].who = None THEN meta
                                              ELSE [meta EXCEPT ![o] = job[w].who]
            /\ fix'  = fix \ {o}
         \/ RedisMayFail /\ UNCHANGED redis
      /\ After(w, "STOPPED")
      /\ UNCHANGED <<table, sockets>>

(* set_tracking_rider reads, decides, and writes in another round trip. *)
LookAtMeta(w) ==
  /\ job[w].task = "LOOK"
  /\ meta[job[w].order] # job[w].who
  /\ job' = [job EXCEPT ![w].task = "SWAP", ![w].known = meta[job[w].order] # None]
  /\ UNCHANGED <<table, redis, sockets>>

(* Nothing actually changed, or Redis failed. *)
NothingToSwap(w) ==
  /\ job[w].task = "LOOK"
  /\ meta[job[w].order] = job[w].who \/ RedisMayFail
  /\ After(w, "SWAPPED")
  /\ UNCHANGED <<table, redis, sockets>>

set_tracking_rider(w) ==
  LET o == job[w].order
  IN  /\ job[w].task = "SWAP"
      /\ \/ /\ meta' = IF job[w].known THEN [meta EXCEPT ![o] = job[w].who]
                                         ELSE meta
            /\ fix'  = fix \ {o}
         \/ RedisMayFail /\ UNCHANGED redis
      /\ After(w, "SWAPPED")
      /\ UNCHANGED <<table, sockets>>

(* The last thing a handler does is to hand the loop its coroutine. *)
Said == [STARTED |-> "START", STOPPED |-> "FINISH", SWAPPED |-> "SWAP"]

Dispatch(w) ==
  /\ job[w].task \in DOMAIN Said
  /\ loop' = Append(loop, [does |-> Said[job[w].task], order |-> job[w].order,
                           at |-> "QUEUED"])
  /\ job'  = [job EXCEPT ![w] = Idle]
  /\ UNCHANGED <<table, redis, sock, fleet, watch>>

(* Keys expire, or are evicted. *)
Expire(o) ==
  /\ \/ meta' = [meta EXCEPT ![o] = None] /\ UNCHANGED fix
     \/ fix'  = fix \ {o} /\ UNCHANGED meta
  /\ UNCHANGED <<table, job, sockets>>
-----------------------------------------------------------------------------
(* The event loop.                                                         *)

(* The coroutine at i is the next to start. *)
Starts(i, does) ==
  /\ loop[i].at = "QUEUED" /\ loop[i].does = does
  /\ \A j \in 1 .. i - 1 : loop[j].at # "QUEUED"

(* For comparison: an entry is never moved. *)
Keeping(seq, o) == seq

Without(seq, o) == RemoveFirst(seq, o)

(* The row appears with every admin, or goes. *)
Shown(o)  == [d \in Desks |-> IF desk[d].on THEN [desk[d] EXCEPT !.rows = @ \cup {o}]
                                            ELSE desk[d]]
Hidden(o) == [d \in Desks |-> [desk[d] EXCEPT !.rows = @ \ {o}]]

DeliveryStarted(i) ==
  LET o == loop[i].order
  IN  /\ Starts(i, "START")
      /\ active' = active \cup {o}
      /\ completed' = Without(completed, o)
      /\ desk' = Shown(o)
      /\ loop' = RemoveAt(loop, i)
      /\ UNCHANGED <<table, redis, job, sock, watch>>

LastOf(seq, n) == SubSeq(seq, 1 + (IF Len(seq) > n THEN Len(seq) - n ELSE 0), Len(seq))

DeliveryCompleted(i) ==
  LET o == loop[i].order
  IN  /\ Starts(i, "FINISH")
      /\ active' = active \ {o}
      /\ completed' = LastOf(Append(Without(completed, o), o), COMPLETED_MEMORY)
      /\ desk' = Hidden(o)
      /\ loop' = [loop EXCEPT ![i].at = "WATCHERS"]
      /\ UNCHANGED <<table, redis, job, sock, watch>>

(* For comparison: nobody tells the customer. *)
SkipWatchers(i) ==
  /\ loop[i].at = "WATCHERS"
  /\ loop' = [loop EXCEPT ![i].at = "SOCKETS"]
  /\ UNCHANGED <<table, redis, job, sock, fleet, watch>>

(* tracking_ended, and the customers' sockets are closed. *)
TellWatchers(i) ==
  /\ loop[i].at = "WATCHERS"
  /\ watch' = [c \in Watchers |->
                 IF watch[c].on /\ watch[c].order = loop[i].order THEN Away ELSE watch[c]]
  /\ loop'  = [loop EXCEPT ![i].at = "SOCKETS"]
  /\ UNCHANGED <<table, redis, job, sock, fleet>>

Registered(s) == sock[s].at \in {"OPEN", "FRAME", "SENT"} /\ ~sock[s].revoked

(* rider_sockets.close_order: revoked first, then closed. *)
CloseSockets(o) ==
  [s \in Socks |->
     IF sock[s].order # o         THEN sock[s]
     ELSE IF sock[s].at = "ASKED" THEN [sock[s] EXCEPT !.late = TRUE]
                                  ELSE [sock[s] EXCEPT !.revoked = TRUE]]

FinishSockets(i) ==
  /\ loop[i].at = "SOCKETS"
  /\ sock' = CloseSockets(loop[i].order)
  /\ loop' = RemoveAt(loop, i)
  /\ UNCHANGED <<table, redis, job, fleet, watch>>

(* For comparison: the previous rider stays connected. *)
SwapKeepsSockets(i) ==
  /\ Starts(i, "SWAP")
  /\ loop' = RemoveAt(loop, i)
  /\ UNCHANGED <<table, redis, job, sock, fleet, watch>>

RiderReassigned(i) ==
  /\ Starts(i, "SWAP")
  /\ sock' = CloseSockets(loop[i].order)
  /\ loop' = RemoveAt(loop, i)
  /\ UNCHANGED <<table, redis, job, fleet, watch>>
-----------------------------------------------------------------------------
(* A rider's GPS socket.                                                   *)

Socket(s, new) == sock' = [sock EXCEPT ![s] = new]

can_observe_delivery(r, o) == rider[o] = r

(* _authorise_socket, on a thread: the delivery is on the road, and who    *)
(* connects carries it.                                                    *)
Authorise(s, o) ==
  /\ sock[s] = Off
  /\ status[o] = "OUT_FOR_DELIVERY"
  /\ \E r \in Riders : /\ can_observe_delivery(r, o)
                       /\ Socket(s, [Off EXCEPT !.at = "ASKED", !.order = o, !.who = r])
  /\ UNCHANGED <<table, redis, job, loop, fleet, watch>>

Register(s) ==
  /\ sock[s].at = "ASKED"
  /\ Socket(s, [sock[s] EXCEPT !.at = "OPEN"])
  /\ UNCHANGED <<table, redis, job, loop, fleet, watch>>

Receive(s) ==
  /\ sock[s].at = "OPEN" /\ ~sock[s].revoked
  /\ Socket(s, [sock[s] EXCEPT !.at = "FRAME"])
  /\ UNCHANGED <<table, redis, job, loop, fleet, watch>>

update_rider_location(o) == \/ fix' = fix \cup {o}
                            \/ RedisMayFail /\ UNCHANGED fix

(* Whether there is a position to read back. *)
get_rider_location(o) == o \in fix

(* A frame of a socket revoked in the meantime is refused. *)
Ping(s) ==
  /\ sock[s].at = "FRAME" /\ ~sock[s].revoked
  /\ update_rider_location(sock[s].order)
  /\ Socket(s, [sock[s] EXCEPT !.at = "SENT"])
  /\ UNCHANGED <<table, meta, job, loop, fleet, watch>>

broadcast_location(o) == IF o \in active THEN Shown(o) ELSE desk

(* The position is read back and forwarded, if the fleet takes the order   *)
(* for active.                                                             *)
Forward(s) ==
  /\ sock[s].at = "SENT" /\ get_rider_location(sock[s].order)
  /\ desk' = broadcast_location(sock[s].order)
  /\ Socket(s, [sock[s] EXCEPT !.at = "OPEN"])
  /\ UNCHANGED <<table, redis, job, loop, active, completed, watch>>

(* Nothing to read back: Redis failed, or the position is gone again. *)
NothingToForward(s) ==
  /\ sock[s].at = "SENT" /\ (~get_rider_location(sock[s].order) \/ RedisMayFail)
  /\ Socket(s, [sock[s] EXCEPT !.at = "OPEN"])
  /\ UNCHANGED <<table, redis, job, loop, fleet, watch>>

(* The rider hangs up, or the handler finds its socket closed. *)
HangUp(s) ==
  /\ sock[s].at # "OFF"
  /\ Socket(s, Off)
  /\ UNCHANGED <<table, redis, job, loop, fleet, watch>>
-----------------------------------------------------------------------------
(* The admins' sockets, and the customers'.                                *)

Connect(d) ==
  /\ ~desk[d].on /\ desk[d].read = None
  /\ desk' = [desk EXCEPT ![d].on = TRUE]
  /\ UNCHANGED <<table, redis, job, loop, sock, active, completed, watch>>

(* On connecting, and on every resync: read the database on a thread... *)
ReadSnapshot(d) ==
  /\ desk[d].on /\ desk[d].read = None
  /\ desk' = [desk EXCEPT ![d].read =
       [rows |-> {o \in Orders : status[o] \in FLEET_STATUSES},
        road |-> {o \in Orders : status[o] = "OUT_FOR_DELIVERY"}]]
  /\ UNCHANGED <<table, redis, job, loop, sock, active, completed, watch>>

is_completed(o) == Contains(completed, o)

(* What is active anew: what was on the road, without what has finished. *)
sync_active(orders) == {o \in orders : ~is_completed(o)}

(* For comparison: the snapshot as it was read. *)
SendSnapshotAsRead(d) ==
  /\ desk[d].read # None
  /\ active' = desk[d].read.road
  /\ desk'   = [desk EXCEPT ![d].rows = IF desk[d].on THEN desk[d].read.rows ELSE {},
                            ![d].read = None]
  /\ UNCHANGED <<table, redis, job, loop, sock, completed, watch>>

(* ... and send it from the loop, without what has finished since. *)
SendSnapshot(d) ==
  LET read == desk[d].read
      rows == {o \in read.rows : ~is_completed(o)}
  IN  /\ read # None
      /\ active' = sync_active(read.road)
      /\ desk'   = [desk EXCEPT ![d].rows = IF desk[d].on THEN rows ELSE {}, ![d].read = None]
      /\ UNCHANGED <<table, redis, job, loop, sock, completed, watch>>

Disconnect(d) ==
  /\ desk[d].on
  /\ desk' = [desk EXCEPT ![d].on = FALSE, ![d].rows = {}]
  /\ UNCHANGED <<table, redis, job, loop, sock, active, completed, watch>>

(* Let in, on a thread; and then accepted and added to the watchers. *)
AskToWatch(c, o) ==
  /\ watch[c] = Away
  /\ watch' = [watch EXCEPT ![c] = [Away EXCEPT !.order = o]]
  /\ UNCHANGED <<table, redis, job, loop, sock, fleet>>

add_watcher(c) ==
  LET o == watch[c].order
  IN  /\ o # None /\ ~watch[c].on
      /\ watch' = [watch EXCEPT ![c] =
           [order |-> o, on |-> TRUE, road |-> status[o] = "OUT_FOR_DELIVERY"]]
      /\ UNCHANGED <<table, redis, job, loop, sock, fleet>>

LookAway(c) ==
  /\ watch[c] # Away
  /\ watch' = [watch EXCEPT ![c] = Away]
  /\ UNCHANGED <<table, redis, job, loop, sock, fleet>>
-----------------------------------------------------------------------------
Continue(w) ==
  \/ rider_self_accept(w) \/ admin_assign_rider(w)
  \/ start_delivery_tracking(w)
  \/ LookToStop(w) \/ NothingToStop(w) \/ stop_delivery_tracking(w)
  \/ LookAtMeta(w) \/ NothingToSwap(w) \/ set_tracking_rider(w)
  \/ Dispatch(w)

Request(w) ==
  \E o \in Orders : \/ SendOut(w, o)
                    \/ \E new \in Statuses : EndDelivery(w, o, new)
                    \/ \E r \in Riders : ReadOrder(w, o, r)
                    \/ AskStart(w, o) \/ AskStop(w, o)

StartCoroutine == \E i \in 1 .. Len(loop) :
  DeliveryStarted(i) \/ DeliveryCompleted(i) \/ RiderReassigned(i)

ResumeCoroutine(o) == \E i \in 1 .. Len(loop) :
  loop[i].order = o /\ (TellWatchers(i) \/ FinishSockets(i))

Gps(s) == \/ \E o \in Orders : Authorise(s, o)
          \/ Register(s) \/ Receive(s) \/ Ping(s)
          \/ Forward(s) \/ NothingToForward(s) \/ HangUp(s)

Admin(d) == Connect(d) \/ ReadSnapshot(d) \/ SendSnapshot(d) \/ Disconnect(d)

Customer(c) == (\E o \in Orders : AskToWatch(c, o)) \/ add_watcher(c) \/ LookAway(c)

Step ==
  \/ \E w \in Workers : Request(w) \/ Continue(w)
  \/ StartCoroutine
  \/ \E o \in Orders : ResumeCoroutine(o) \/ Expire(o)
  \/ \E s \in Socks : Gps(s)
  \/ \E d \in Desks : Admin(d)
  \/ \E c \in Watchers : Customer(c)

Next == Step /\ UNCHANGED overlap

Spec == Init /\ [][Next]_vars

-----------------------------------------------------------------------------
(* Properties.                                                             *)

(* A handler or a coroutine is on its way to close this order's sockets. *)
Closes(j) == j.tells /\ j.task \in {"STOP", "CLEAR", "STOPPED", "LOOK", "SWAP", "SWAPPED"}

Closing(o) ==
  \/ \E w \in Workers : job[w].order = o /\ Closes(job[w])
  \/ \E i \in 1 .. Len(loop) : loop[i].order = o /\ loop[i].does # "START"

(* Once a delivery has been wound down, or handed over, no socket reports  *)
(* its position (RiderSocketRegistry, "so the order lifecycle can shut     *)
(* them down") but that of the rider who carries it, and those that came   *)
(* in on what was so before: let in before the sockets were closed, or of  *)
(* a rider whom a late acceptance passed over, which nothing disconnects.  *)
OnlyTheCarrierReports ==
  \A s \in Socks :
    Registered(s) /\ ~sock[s].late /\ ~Closing(sock[s].order) =>
      /\ status[sock[s].order] = "OUT_FOR_DELIVERY"
      /\ rider[sock[s].order] = sock[s].who \/ sock[s].passed

(* Something of the last change of this delivery is still under way. *)
Pending(o) == \/ \E w \in Workers : job[w].order = o /\ job[w].task \notin Readings
              \/ \E i \in 1 .. Len(loop) : loop[i].order = o

(* A delivery that is over stays off the admins' map, whatever snapshot    *)
(* was being read and whatever position was on its way when it ended, as   *)
(* long as deliveries move on only after the last answer.                  *)
OverIsOffTheMap ==
  ~overlap =>
    \A o \in Orders :
      status[o] # "OUT_FOR_DELIVERY" /\ ~Pending(o) =>
        /\ o \notin active
        /\ status[o] = "DELIVERED" => \A d \in Desks : o \notin desk[d].rows

(* A customer who came while the cake was on the road is not left watching *)
(* a delivery that was wound down: "tells the customer's map that tracking *)
(* has ended".  One who was let in on the road, and added to the watchers  *)
(* after the end, is.                                                      *)
NobodyLeftWatching ==
  \A c \in Watchers :
    LET o == watch[c].order
    IN  watch[c].on /\ watch[c].road /\ status[o] = "DELIVERED" => Pending(o)

(* "Tracking keys that cleanup just removed" stay removed: no position of  *)
(* a delivered order is left once it has been wound down.                  *)
NoPositionLeft ==
  \A o \in Orders :
    status[o] = "DELIVERED" /\ ~Pending(o)
    /\ (\A s \in Socks : sock[s].order # o \/ ~sock[s].late) => o \notin fix

(* "A failed attempt is exactly the case an operator needs to see on this  *)
(* board": a snapshot that was read with one shows it.                     *)
FailedIsOnTheBoard ==
  [][\A d \in Desks, o \in Orders :
       /\ desk[d].read # None /\ desk'[d].read = None /\ desk[d].on
       /\ o \in desk[d].read.rows /\ status[o] = "DELIVERY_FAILED"
       => o \in desk'[d].rows]_vars
=============================================================================
