-------------------------------- MODULE Shop --------------------------------
(***************************************************************************)
(* Checkout: what is on sale, what an order takes from the shelf, and the  *)
(* codes that make it cheaper.                                             *)
(*                                                                         *)
(* A handler reads the rows it needs, decides, and commits; only what it   *)
(* changed is written, over whatever was committed meanwhile.  One thing   *)
(* of one kind is on sale here, with one add-on the shop counts and one    *)
(* code.  The variable alone says whether handlers run one at a time, which*)
(* is what the shop's own rules take for granted.                          *)
(***************************************************************************)
EXTENDS Pricing, Sequences

CONSTANTS
  Handlers,
  Counted,     \* the add-on that has a stock
  Requests,    \* what customers ask for
  Offers,      \* the codes an admin may make
  Limits,      \* the values of max_uses
  Shelf,       \* the stocks an admin may set
  OptionPrices, OptionTimes, \* the values of an option
  MaxOrders, MaxEdits        \* bounds: orders placed, changes by admins

VARIABLES
  product, option, on,
  stock,   \* AddonRule.stock: None is unlimited
  coupon,  \* the row with the code, None when there is none
  orders,  \* the orders placed, first to last
  desk,    \* what each handler has read
  edits, alone,
  supply,  \* history: the stock an admin last set
  made     \* history: how many rows the code has had

shopVars == <<product, option, on, stock, coupon, orders, desk, edits, alone, supply, made>>
catalogue == <<product, option, on>>
history   == <<edits, alone, made>>

Line == [quantity : 1 .. 100, picks : SUBSET Rows, rush : Rows \cup {None},
         size : Sizes \cup {None, "OPTION", "UNKNOWN"}]
(* spelled: the add-on's name is spelled as the row is, to the letter.     *)
Request == [line : Line, fulfilment : {"DELIVERY", "PICKUP"}, zone : Rows \cup {None},
            extras : SUBSET Rows, code : BOOLEAN, spelled : BOOLEAN]
Offer   == [kind : {"FLAT", "PERCENTAGE"}, value : Nat, cap : Nat \cup {None}, least : Nat]
Uses    == Nat \cup {None}
Stocks  == Int \cup {None}  \* an admin may set any integer
Coupon  == [id : Nat, offer : Offers, active : BOOLEAN, max_uses : Uses, used_count : Nat]

ASSUME ShopAssumption ==
  /\ Counted \in Rows /\ Offers \subseteq Offer /\ None \notin Offers
  /\ Requests \subseteq Request /\ Requests # {}
  /\ Limits \subseteq Uses /\ Shelf \subseteq Stocks
  /\ OptionPrices \subseteq Nat /\ OptionTimes \in Nat
  /\ MaxOrders \in Nat /\ MaxEdits \in Nat

(* code: the id of the row it used, 0 for none.                            *)
Order == [status : {"PLACED", "CANCELLED"}, request : Requests, code : Nat,
          offer : Offers \cup {None}, items : Nat, extras : Nat, delivery : Nat, discount : Nat,
          tagged : BOOLEAN]
NoRequest == CHOOSE r \in Requests : TRUE
Rest == [task |-> "REST", request |-> NoRequest, product |-> None, option |-> None,
         stock |-> None, coupon |-> None, order |-> 0]

(* Every variable has its type, and an order carries what create_order put *)
(* on it: whole sums, none of them below nothing, and a charge even where  *)
(* there is no area.                                                       *)
ShopTypeOK ==
  /\ product \in Product \cup {None} /\ option \in Option \cup {None}
  /\ on \subseteq Rows \cup Sizes
  /\ stock \in Stocks /\ coupon \in Coupon \cup {None}
  /\ orders \in Seq(Order) /\ Len(orders) <= MaxOrders
  /\ \A h \in Handlers : /\ desk[h].task \in {"REST", "PRICED", "COUNTED", "CANCELLING",
                                              "CODE", "OPTION", "PRODUCT"}
                         /\ desk[h].request \in Requests
                         /\ desk[h].stock \in Stocks /\ desk[h].coupon \in Coupon \cup {None}
                         /\ desk[h].order \in 0 .. Len(orders)
  /\ edits \in 0 .. MaxEdits /\ alone \in BOOLEAN /\ supply \in Int /\ made \in Nat

ShopInit ==
  /\ product = [base |-> 100, tagged |-> FALSE, on |-> TRUE, perKg |-> TRUE, row |-> FALSE]
  /\ option \in {None} \cup [price : OptionPrices, multiplier : {None}]
  /\ on = Rows \cup Sizes
  /\ stock \in Shelf /\ supply = (IF stock = None THEN 0 ELSE stock)
  /\ coupon = None /\ made = 0
  /\ orders = <<>>
  /\ desk = [h \in Handlers |-> Rest]
  /\ edits = 0 /\ alone \in BOOLEAN
-----------------------------------------------------------------------------
AtRest  == \A h \in Handlers : desk[h] = Rest
Free(h) == desk[h] = Rest /\ (alone => AtRest)
Leave(h) == desk' = [desk EXCEPT ![h] = Rest]
At(h, task) == desk[h].task = task

(* Nothing is written by a handler that refuses, or that dies.             *)
Refuse(h) == /\ desk[h] # Rest
             /\ Leave(h)
             /\ UNCHANGED <<catalogue, stock, coupon, orders, history, supply>>
-----------------------------------------------------------------------------
(* create_order. *)

Units(r) == IF Counted \in r.line.picks /\ r.spelled THEN r.line.quantity ELSE 0

(* Each item is priced and its add-ons taken, on the rows as they are now. *)
PriceItems(h, r, blocked) ==
  /\ Free(h) /\ Len(orders) < MaxOrders
  /\ product # None /\ Sellable(product, option, r.line, on, blocked)
  /\ _find_rule(r.extras, on) /\ (r.zone # None => r.zone \in on)
  /\ desk' = [desk EXCEPT ![h] = [Rest EXCEPT !.task = "PRICED", !.request = r,
                                              !.product = product, !.option = option,
                                              !.stock = stock]]
  /\ UNCHANGED <<catalogue, stock, coupon, orders, history, supply>>

Items(d) == calculate_item_price(d.product, d.option, d.request.line)

(* Mutant: one use too many. *)
CodeAppliesOnceMore(c, items) ==
  /\ c # None /\ c.active
  /\ (c.max_uses \notin {None, 0} => c.used_count <= c.max_uses)
  /\ items >= c.offer.least

CodeApplies(c, items) ==
  /\ c # None /\ c.active
  /\ (c.max_uses \notin {None, 0} => c.used_count < c.max_uses)
  /\ items >= c.offer.least

(* Mutant: the use is committed when the code is looked up. *)
CountAtOnce(h) ==
  /\ At(h, "PRICED")
  /\ desk[h].request.code /\ CodeApplies(coupon, Items(desk[h]))
  /\ desk' = [desk EXCEPT ![h].task = "COUNTED", ![h].coupon = coupon]
  /\ coupon' = [coupon EXCEPT !.used_count = @ + 1]
  /\ UNCHANGED <<catalogue, stock, orders, history, supply>>

_apply_coupon(h) ==
  /\ At(h, "PRICED")
  /\ IF desk[h].request.code
     THEN /\ CodeApplies(coupon, Items(desk[h]))
          /\ desk' = [desk EXCEPT ![h].task = "COUNTED", ![h].coupon = coupon]
     ELSE desk' = [desk EXCEPT ![h].task = "COUNTED"]
  /\ UNCHANGED <<catalogue, stock, coupon, orders, history, supply>>

(* What is left on the shelf.  An order that does not pick the add-on does *)
(* not write it; one that does leaves nothing where there was less.        *)
Left(d) ==
  LET n == Units(d.request)
  IN  IF d.stock = None \/ n = 0 THEN d.stock ELSE Max({0, d.stock - n})

NewOrder(d) ==
  [status |-> "PLACED", request |-> d.request,
   code |-> IF d.coupon = None THEN 0 ELSE d.coupon.id,
   offer |-> IF d.coupon = None THEN None ELSE d.coupon.offer,
   items |-> Items(d), extras |-> CostOf(d.request.extras),
   delivery |-> lookup_delivery_charge(d.request.zone),
   discount |-> IF d.coupon = None THEN 0
                ELSE calculate_discount(d.coupon.offer, Items(d)),
   tagged |-> d.product.tagged]

(* An UPDATE of a row that is gone fails, and the order with it.           *)
Place(h) ==
  LET d == desk[h]
  IN  /\ At(h, "COUNTED") /\ Len(orders) < MaxOrders
      /\ d.coupon # None => coupon # None /\ coupon.id = d.coupon.id
      /\ orders' = Append(orders, NewOrder(d))
      /\ stock' = IF Left(d) = d.stock THEN stock ELSE Left(d)
      /\ coupon' = IF d.coupon = None THEN coupon
                   ELSE [coupon EXCEPT !.used_count = d.coupon.used_count + 1]
      /\ Leave(h)
      /\ UNCHANGED <<catalogue, history, supply>>
-----------------------------------------------------------------------------
(* A cancellation gives back what was asked for; the code stays used.      *)

LookAtOrder(h, i) ==
  /\ Free(h) /\ orders[i].status = "PLACED"
  /\ desk' = [desk EXCEPT ![h] = [Rest EXCEPT !.task = "CANCELLING", !.order = i,
                                              !.stock = stock]]
  /\ UNCHANGED <<catalogue, stock, coupon, orders, history, supply>>

(* Mutant: one unit comes back, however many were asked for. *)
RestoreOne(h) ==
  LET d == desk[h]
      n == Units(orders[d.order].request)
  IN  /\ At(h, "CANCELLING")
      /\ orders' = [orders EXCEPT ![d.order].status = "CANCELLED"]
      /\ stock' = IF d.stock = None \/ n = 0 THEN stock ELSE d.stock + 1
      /\ Leave(h)
      /\ UNCHANGED <<catalogue, coupon, history, supply>>

_restore_addon_stock(h) ==
  LET d == desk[h]
      n == Units(orders[d.order].request)
  IN  /\ At(h, "CANCELLING")
      /\ orders' = [orders EXCEPT ![d.order].status = "CANCELLED"]
      /\ stock' = IF d.stock = None \/ n = 0 THEN stock ELSE d.stock + n
      /\ Leave(h)
      /\ UNCHANGED <<catalogue, coupon, history, supply>>
-----------------------------------------------------------------------------
(* What admins change. *)

Edit == edits < MaxEdits /\ edits' = edits + 1 /\ UNCHANGED alone
(* One that reads nothing it depends on. *)
Change == Edit /\ (alone => AtRest)

create_coupon(offer, limit) ==
  /\ Change /\ coupon = None
  /\ made' = made + 1
  /\ coupon' = [id |-> made + 1, offer |-> offer, active |-> TRUE, max_uses |-> limit,
                used_count |-> 0]
  /\ UNCHANGED <<catalogue, stock, orders, desk, supply>>

delete_coupon ==
  /\ Change /\ coupon # None
  /\ coupon' = None
  /\ UNCHANGED <<catalogue, stock, orders, desk, supply, made>>

ReadCode(h) ==
  /\ Free(h) /\ coupon # None /\ edits < MaxEdits
  /\ desk' = [desk EXCEPT ![h] = [Rest EXCEPT !.task = "CODE", !.coupon = coupon]]
  /\ UNCHANGED <<catalogue, stock, coupon, orders, history, supply>>

SaveCode(h, c) ==
  /\ At(h, "CODE") /\ Edit
  /\ coupon # None /\ coupon.id = desk[h].coupon.id
  /\ coupon' = c
  /\ Leave(h)
  /\ UNCHANGED <<catalogue, stock, orders, supply, made>>

update_coupon(h, offer, limit) ==
  /\ At(h, "CODE") /\ (limit # None => limit >= desk[h].coupon.used_count)
  /\ SaveCode(h, [coupon EXCEPT !.offer = offer, !.max_uses = limit])

toggle_coupon(h) ==
  At(h, "CODE") /\ SaveCode(h, [coupon EXCEPT !.active = ~desk[h].coupon.active])

set_addon_stock(n) ==
  /\ Change
  /\ stock' = n
  /\ supply' = (IF n = None THEN 0 ELSE n)
  /\ UNCHANGED <<catalogue, coupon, orders, desk, made>>

ToggleRow(r) ==
  /\ Change
  /\ on' = IF r \in on THEN on \ {r} ELSE on \cup {r}
  /\ UNCHANGED <<product, option, stock, coupon, orders, desk, supply, made>>

(* The catalogue. *)

ReadOption(h) ==
  /\ Free(h) /\ option # None /\ edits < MaxEdits
  /\ desk' = [desk EXCEPT ![h] = [Rest EXCEPT !.task = "OPTION", !.option = option]]
  /\ UNCHANGED <<catalogue, stock, coupon, orders, history, supply>>

(* The values a request may ask for. *)
Asking == [price : OptionPrices \cup {None}, multiplier : {OptionTimes, None}]

(* A request gives fields their values, None among them.  A price clears   *)
(* the multiplier and a multiplier the price, and what would be left with  *)
(* both or with neither is refused.  Only what differs from the row as it  *)
(* was read is written.                                                    *)
update_product_option(h, fields, asked) ==
  LET read == desk[h].option
      given(field) == field \in fields /\ asked[field] # None
      new == [price      |-> IF given("multiplier") THEN None
                             ELSE IF "price" \in fields THEN asked.price ELSE read.price,
              multiplier |-> IF given("price") THEN None
                             ELSE IF "multiplier" \in fields THEN asked.multiplier
                             ELSE read.multiplier]
      saved(field) == IF new[field] = read[field] THEN option[field] ELSE new[field]
  IN  /\ At(h, "OPTION") /\ Edit
      /\ (new.price = None) # (new.multiplier = None)
      /\ option # None
      /\ option' = [price |-> saved("price"), multiplier |-> saved("multiplier")]
      /\ Leave(h)
      /\ UNCHANGED <<product, on, stock, coupon, orders, supply, made>>

create_product_option ==
  /\ Change /\ option = None
  /\ option' \in [price : OptionPrices, multiplier : {None}]
  /\ UNCHANGED <<product, on, stock, coupon, orders, desk, supply, made>>

delete_product_option ==
  /\ Change /\ option # None /\ option' = None
  /\ UNCHANGED <<product, on, stock, coupon, orders, desk, supply, made>>

ReadProduct(h) ==
  /\ Free(h) /\ product # None /\ edits < MaxEdits
  /\ desk' = [desk EXCEPT ![h] = [Rest EXCEPT !.task = "PRODUCT", !.product = product]]
  /\ UNCHANGED <<catalogue, stock, coupon, orders, history, supply>>

SaveProduct(h, p) ==
  /\ At(h, "PRODUCT") /\ Edit
  /\ product # None /\ product' = p
  /\ Leave(h)
  /\ UNCHANGED <<option, on, stock, coupon, orders, supply, made>>

(* A real price clears the placeholder, and may publish in the same save.  *)
SetPrice(h, publish) ==
  SaveProduct(h, [product EXCEPT !.base = 100, !.tagged = FALSE, !.on = @ \/ publish])

toggle_availability(h) ==
  /\ At(h, "PRODUCT") /\ (desk[h].product.on \/ ~desk[h].product.tagged)
  /\ SaveProduct(h, [product EXCEPT !.on = ~desk[h].product.on])

(* The tags an admin types, in a save that says nothing of availability.   *)
SetTags(h, tagged) == SaveProduct(h, [product EXCEPT !.tagged = tagged])

delete_product ==
  /\ Change /\ product # None
  /\ product' = None /\ option' = None
  /\ UNCHANGED <<on, stock, coupon, orders, desk, supply, made>>

create_product(tagged, published) ==
  /\ Change /\ product = None
  /\ product' = [base |-> IF tagged THEN 1 ELSE 100, tagged |-> tagged, on |-> published,
                 perKg |-> TRUE, row |-> FALSE]
  /\ UNCHANGED <<option, on, stock, coupon, orders, desk, supply, made>>
-----------------------------------------------------------------------------
ByCustomer(h) ==
  \/ \E r \in Requests, blocked \in BOOLEAN : PriceItems(h, r, blocked)
  \/ _apply_coupon(h) \/ Place(h)
  \/ \E i \in DOMAIN orders : LookAtOrder(h, i)
  \/ _restore_addon_stock(h)

Codes(h) ==
  \/ ReadCode(h) \/ toggle_coupon(h)
  \/ \E offer \in Offers, limit \in Limits :
       update_coupon(h, offer, limit) \/ create_coupon(offer, limit)
  \/ delete_coupon

Catalogue(h) ==
  \/ ReadOption(h)
  \/ \E fields \in SUBSET {"price", "multiplier"}, asked \in Asking :
       update_product_option(h, fields, asked)
  \/ create_product_option \/ delete_product_option
  \/ ReadProduct(h) \/ toggle_availability(h)
  \/ \E b \in BOOLEAN : SetPrice(h, b) \/ SetTags(h, b)
  \/ delete_product \/ \E b, c \in BOOLEAN : create_product(b, c)

ShopNext ==
  \/ \E h \in Handlers : ByCustomer(h) \/ Codes(h) \/ Catalogue(h) \/ Refuse(h)
  \/ \E n \in Shelf : set_addon_stock(n)
  \/ \E r \in Rows \cup Sizes : ToggleRow(r)

ShopSpec == ShopInit /\ [][ShopNext]_shopVars
-----------------------------------------------------------------------------
(* A code is never redeemed more often than its limit allows, however it   *)
(* is edited in between: coupons.py:51-56.                                 *)
CapIsKept ==
  alone /\ coupon # None /\ coupon.max_uses \notin {None, 0}
    => coupon.used_count <= coupon.max_uses

(* A use that is counted is an order that was placed, whoever races whom.  *)
CountIsNeverAhead ==
  coupon # None
    => coupon.used_count <= Cardinality({i \in DOMAIN orders : orders[i].code = coupon.id})

(* No unit disappears while handlers take turns: what is on the shelf and  *)
(* what the orders that stand asked for come to no less than an admin last *)
(* put there.  order_service.py:189 takes no more than was asked for, and  *)
(* 610 gives all of it back; more than was taken may come back, so the two *)
(* may come to more.                                                       *)
Asked(os) == MapThenSumSet(LAMBDA i : Units(os[i].request),
                           {i \in DOMAIN os : os[i].status = "PLACED"})
NoUnitIsLost == alone /\ stock # None => stock + Asked(orders) >= supply

(* The discount comes off the cakes alone: whatever the code and whenever  *)
(* it was edited, extras and delivery are paid for in full.  Nothing stops *)
(* an admin from making a code of more than a hundred per cent, which is   *)
(* left out.  order_service.py:222-224.                                    *)
CouponsTouchOnlyCakes ==
  \A i \in DOMAIN orders :
    orders[i].offer = None \/ orders[i].offer.kind = "FLAT" \/ orders[i].offer.value <= 100
      => orders[i].discount <= orders[i].items

(* Violated.  A pickup costs no delivery, which order_service.py:148-150   *)
(* promises of the charge, and which line 215 looks up from the area that  *)
(* was asked for whatever the fulfilment.                                  *)
PickupIsFree ==
  \A i \in DOMAIN orders : orders[i].request.fulfilment = "PICKUP" => orders[i].delivery = 0

(* Violated.  What has no price but a placeholder is not sold: product.py  *)
(* says that it "is never available, so it cannot be ordered".             *)
PlaceholderIsNotSold == \A i \in DOMAIN orders : ~orders[i].tagged
=============================================================================
