----------------------------- MODULE MCMessages -----------------------------
(* The two ways of the shop's messages share nothing but the consent; each *)
(* is explored with the other at rest.                                     *)
EXTENDS Inbox, TLC
CONSTANTS customer, admin, s1, s2, t1, t2

VARIABLE way
mcVars == <<outboxVars, inboxVars, way>>

Notify(event, staffed) == [event |-> event, staffed |-> staffed, rework |-> FALSE]
SomeNotices == {Notify("CONFIRMED", FALSE), Notify("PACKAGED", TRUE)}
ThreeMessages == 1 .. 3
Swap == Permutations({s1, s2}) \cup Permutations({t1, t2})

MCInit == /\ OutboxInit /\ InboxInit /\ way \in {"OUT", "IN"}
          /\ way = "OUT" => account
          /\ way = "IN" => \A p \in People \ {Customer} : consent[p]
MCNext == \/ way = "OUT" /\ OutboxNext /\ UNCHANGED <<inboxVars, way>>
          \/ way = "IN" /\ InboxNext /\ UNCHANGED way
MCSpec == MCInit /\ [][MCNext]_mcVars
=============================================================================
