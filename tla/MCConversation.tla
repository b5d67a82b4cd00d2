--------------------------- MODULE MCConversation ---------------------------
(* Two threads answer one customer.  Either the menu changes meanwhile, in *)
(* the morning, or the clock goes on and areas are switched, and delivery  *)
(* in either case; a conversation does not see both.                       *)
EXTENDS Conversation, TLC
CONSTANTS cake, buns, cakes, breads, menu, vanilla, plain, gomti, t1, t2

VARIABLE changes
mcVars == <<chatVars, changes>>

BothThreads == {t1, t2}
Sections == [p \in Products |-> IF p = cake THEN cakes ELSE breads]
OneGroup == [k \in Categories |-> menu]
OneSponge == [f \in Flavours |-> plain]
Swap == Permutations(BothThreads)

MCInit == ChatInit /\ changes \in {"MENU", "CLOCK"} /\ (changes = "MENU" => now = Min(Moments))
MCNext == /\ ChatNext /\ UNCHANGED changes
          /\ changes = "MENU" => now' = now /\ shop'.blocked_until = shop.blocked_until /\ zones' = zones
          /\ changes = "CLOCK" => listing' = listing /\ flavours' = flavours
MCSpec == MCInit /\ [][MCNext]_mcVars
=============================================================================
