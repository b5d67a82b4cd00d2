--------------------------- MODULE MCLiveTracking ---------------------------
(* One delivery, two riders, and a connection of each kind.  Deliveries    *)
(* that move on at any time are explored with a rider's socket or with a   *)
(* customer, the others with the admin and the rider's socket, the rider   *)
(* settled.                                                                *)
EXTENDS LiveTracking, TLC

CONSTANTS o1, r1, r2, s1, d1, c1, w1, w2

OneDelivery == {o1}
TwoRiders   == {r1, r2}
TwoWorkers  == {w1, w2}
Alike       == Permutations(TwoRiders) \cup Permutations(TwoWorkers)
OneSock     == {s1}

Settled == \A o \in Orders : rider[o] # None
           /\ \A w \in Workers : job[w].task \notin Readings
NoCustomer == \A c \in Watchers : watch[c] = Away
NoSocket   == \A s \in Socks : sock[s] = Off
NoAdmin    == \A d \in Desks : ~desk[d].on /\ desk[d].read = None

Explored == IF overlap THEN NoAdmin /\ (NoCustomer \/ NoSocket) ELSE Settled /\ NoCustomer

MCInit == Init /\ Explored
MCNext == Next /\ Explored'
MCSpec == MCInit /\ [][MCNext]_vars
=============================================================================
