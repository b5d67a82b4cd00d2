------------------------------ MODULE Pricing ------------------------------
(***************************************************************************)
(* What an order costs.                                                    *)
(*                                                                         *)
(* Prices are whole rupees and sizes tenths of a kilogram.  Everything a   *)
(* customer picks by name is a row that is on or off; a name that is not   *)
(* one of the rows that are on is refused, never priced at nothing.        *)
(***************************************************************************)
EXTENDS Integers, FiniteSets, FiniteSetsExt

CONSTANTS
  None,
  Rows,  \* flavours, designs, add-ons, rush options, areas, extras
  Cost,  \* [Rows -> Nat]
  Sizes, \* the global SizeRule rows
  Times  \* [Sizes -> Nat]: tenths of the base price

MIN_CUSTOM_CAKE == 10

ASSUME PricesAssumption ==
  /\ IsFiniteSet(Rows \cup Sizes) /\ Rows \cap Sizes = {} /\ None \notin Rows \cup Sizes \cup Int
  /\ Cost \in [Rows -> Nat] /\ Times \in [Sizes -> Nat]

(* base: base_price; tagged: its price is a placeholder; on: is_available; *)
(* row: a pricing row of the cake builder.                                 *)
Product == [base : Nat, tagged : BOOLEAN, on : BOOLEAN, perKg : BOOLEAN, row : BOOLEAN]
Option  == [price : Nat \cup {None}, multiplier : Nat \cup {None}]

(* A line of an order: picks are the rows named for it, size a SizeRule,   *)
(* "OPTION" the product's own, None or something else.                     *)
Picks(line) == line.picks
RoundedTo(tenths, base) == (base * tenths) \div 10

price_for(option, base) ==
  IF option.price # None THEN option.price
  ELSE IF option.multiplier # None THEN RoundedTo(option.multiplier, base)
  ELSE base

(* Every name has its row among those that are on. *)
_find_rule(names, on) == names \subseteq on

(* A product with an option of its own is sold in that and nothing else.   *)
_resolve_option(option, size) == option # None => size = "OPTION"

SizeFits(product, option, size, on) ==
  option = None /\ product.perKg /\ size # None
    => size \in Sizes \cap on /\ (product.row => Times[size] >= MIN_CUSTOM_CAKE)

Sellable(product, option, line, on, blocked) ==
  /\ product.on
  /\ line.quantity >= 1
  /\ _resolve_option(option, line.size) /\ SizeFits(product, option, line.size, on)
  /\ _find_rule(Picks(line), on)
  /\ (line.rush # None => line.rush \in on /\ (Cost[line.rush] > 0 => ~blocked))

SizeAdjusted(product, option, size) ==
  IF option # None THEN price_for(option, product.base)
  ELSE IF product.perKg /\ size \in Sizes THEN RoundedTo(Times[size], product.base)
  ELSE product.base

CostOf(rows) == MapThenSumSet(LAMBDA r : Cost[r], rows)

calculate_item_price(product, option, line) ==
  line.quantity * (SizeAdjusted(product, option, line.size)
                   + CostOf(Picks(line))
                   + (IF line.rush = None THEN 0 ELSE Cost[line.rush]))

(* Mutant: a collection has no charge, instead of a charge of nothing. *)
ChargeOrNone(zone) == IF zone = None THEN None ELSE Cost[zone]

(* Blank is a collection. *)
lookup_delivery_charge(zone) == IF zone = None THEN 0 ELSE Cost[zone]

(* Mutant: a flat discount is not held to the total. *)
DiscountInFull(c, total) == IF total < c.least THEN 0 ELSE c.value

(* kind: FLAT rupees or PERCENTAGE, which max_discount may cap.            *)
calculate_discount(c, total) ==
  LET share == (total * c.value) \div 100
  IN  IF total < c.least THEN 0
      ELSE IF c.kind = "FLAT" THEN Min({c.value, total})
      ELSE IF c.cap \in {None, 0} THEN share
      ELSE Min({share, c.cap})
=============================================================================
