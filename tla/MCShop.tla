------------------------------- MODULE MCShop -------------------------------
EXTENDS Shop, TLC
CONSTANTS topper, area, balloons, kg, h1, h2

TheRows  == {topper, area, balloons}
TheCosts == topper :> 20 @@ area :> 100 @@ balloons :> 30
TheTimes == kg :> 10

Cake(n, picks, size) == [quantity |-> n, picks |-> picks, rush |-> None, size |-> size]
TheRequests ==
  {[line |-> Cake(2, {topper}, "OPTION"), fulfilment |-> "PICKUP", zone |-> None,
    extras |-> {}, code |-> FALSE, spelled |-> TRUE],
   [line |-> Cake(1, {topper}, kg), fulfilment |-> "DELIVERY", zone |-> area,
    extras |-> {balloons}, code |-> TRUE, spelled |-> TRUE],
   [line |-> Cake(1, {}, "OPTION"), fulfilment |-> "PICKUP", zone |-> area,
    extras |-> {}, code |-> TRUE, spelled |-> TRUE]}
TheOffers == {[kind |-> "FLAT", value |-> 500, cap |-> None, least |-> 0],
              [kind |-> "PERCENTAGE", value |-> 100, cap |-> None, least |-> 0]}
SomeLimits == {None, 0, 1}
SomeShelf  == {None, -1, 2}
Swap == Permutations({h1, h2})

(* Of an option's two prices, the one it has at first. *)
MCInit == ShopInit /\ (option # None => option.price = Min(OptionPrices))
MCSpec == MCInit /\ [][ShopNext]_shopVars
=============================================================================
