----------------------------- MODULE ShopProofs -----------------------------
(***************************************************************************)
(* Proofs about Shop: the use count of a code, its limit, what an order    *)
(* costs, and that no unit of the counted add-on disappears.               *)
(*                                                                         *)
(* The count is right whoever races whom, because a count that is written  *)
(* is one more than a count that was read, and the order that earns it is  *)
(* committed with it.  The limit is read and decided on, and holds when    *)
(* handlers take turns: the one at work holds the rows as they are.  So    *)
(* does what is said of the stock, where the sum of what was asked for     *)
(* changes by what one order asks for.                                     *)
(***************************************************************************)
EXTENDS Shop, SumProofs, FiniteSetTheorems, SequenceTheorems, TLAPS

Tasks == {"REST", "PRICED", "COUNTED", "CANCELLING", "CODE", "OPTION", "PRODUCT"}
Desk == [task : Tasks, request : Requests, product : Product \cup {None},
         option : Option \cup {None}, stock : Stocks, coupon : Coupon \cup {None}, order : Nat]

(* What an order cost is left open here, and added by Carried below.       *)
Kept(os) ==
  /\ \E S : os \in Seq(S)
  /\ \A i \in DOMAIN os : /\ {"status", "request", "code"} \subseteq DOMAIN os[i]
                          /\ os[i].request \in Requests

Typed ==
  /\ product \in Product \cup {None} /\ option \in Option \cup {None}
  /\ stock \in Stocks /\ coupon \in Coupon \cup {None} /\ made \in Nat
  /\ desk \in [Handlers -> Desk]
  /\ Kept(orders)

Redeemed(os, id) == {i \in DOMAIN os : os[i].code = id}
Earned(os, c) == c.used_count <= Cardinality(Redeemed(os, c.id))
Counts == /\ coupon # None => Earned(orders, coupon)
          /\ \A h \in Handlers : /\ desk[h].coupon # None => Earned(orders, desk[h].coupon)
                                 /\ desk[h].task = "PRICED" => desk[h].coupon = None
                                 /\ desk[h].task = "CANCELLING" => desk[h].order \in DOMAIN orders

IInv == Typed /\ Counts

(* Handlers that take turns. *)
Limited(c) == c.max_uses \notin {None, 0}
Alone == \A h, g \in Handlers : h # g => desk[h] = Rest \/ desk[g] = Rest
Current == \A h \in Handlers :
  /\ desk[h].coupon # None => desk[h].coupon = coupon
  /\ desk[h].task = "COUNTED" /\ desk[h].coupon # None /\ Limited(coupon)
       => coupon.used_count < coupon.max_uses
  /\ desk[h].task = "CODE" => desk[h].coupon # None
Capped == coupon # None /\ Limited(coupon) => coupon.used_count <= coupon.max_uses

TakingTurns == alone => Alone /\ Current /\ Capped
-----------------------------------------------------------------------------
(* The orders a code was used for, when an order is added or cancelled.    *)
LEMMA RedeemedIsFinite ==
  ASSUME NEW os, Kept(os), NEW id
  PROVE  IsFiniteSet(Redeemed(os, id)) /\ Cardinality(Redeemed(os, id)) \in Nat
<1>1. PICK S : os \in Seq(S)
  BY DEF Kept
<1>2. Len(os) \in Nat /\ DOMAIN os = 1 .. Len(os)
  BY <1>1, LenProperties
<1>3. IsFiniteSet(1 .. Len(os)) /\ Redeemed(os, id) \subseteq 1 .. Len(os)
  BY <1>2, FS_Interval DEF Redeemed
<1> QED BY <1>3, FS_Subset, FS_CardinalityType

LEMMA Recount ==
  ASSUME Kept(orders), Kept(orders'), NEW id,
         DOMAIN orders \subseteq DOMAIN orders',
         \A i \in DOMAIN orders : orders'[i].code = orders[i].code
  PROVE  Cardinality(Redeemed(orders, id)) <= Cardinality(Redeemed(orders', id))
<1>1. Redeemed(orders, id) \subseteq Redeemed(orders', id)
  BY DEF Redeemed
<1> QED BY <1>1, RedeemedIsFinite, FS_Subset

(* Place: the order that was added counts for its code.                    *)
LEMMA OneMore ==
  ASSUME Kept(orders), NEW o, orders' = Append(orders, o)
  PROVE  Cardinality(Redeemed(orders', o.code)) = Cardinality(Redeemed(orders, o.code)) + 1
<1>1. PICK S : orders \in Seq(S)
  BY DEF Kept
<1>2. /\ Len(orders) \in Nat /\ DOMAIN orders = 1 .. Len(orders)
      /\ DOMAIN orders' = 1 .. Len(orders) + 1
      /\ \A i \in 1 .. Len(orders) : orders'[i] = orders[i]
      /\ orders'[Len(orders) + 1] = o
  <2>1. orders \in Seq(S \cup {o})
    BY <1>1, SeqMonotonic
  <2> QED BY <2>1
<1>3. Redeemed(orders', o.code) = Redeemed(orders, o.code) \cup {Len(orders) + 1}
  BY <1>2 DEF Redeemed
<1>4. Len(orders) + 1 \notin Redeemed(orders, o.code)
  BY <1>2 DEF Redeemed
<1> QED BY <1>3, <1>4, RedeemedIsFinite, FS_AddElement

LEMMA PlacingKeepsOrders ==
  ASSUME Kept(orders), NEW o, orders' = Append(orders, o),
         {"status", "request", "code"} \subseteq DOMAIN o, o.request \in Requests
  PROVE  /\ Kept(orders')
         /\ DOMAIN orders \subseteq DOMAIN orders'
         /\ \A i \in DOMAIN orders : orders'[i].code = orders[i].code
<1>1. PICK S : orders \in Seq(S)
  BY DEF Kept
<1>2. /\ Len(orders) \in Nat /\ DOMAIN orders = 1 .. Len(orders)
      /\ DOMAIN orders' = 1 .. Len(orders) + 1
      /\ \A i \in 1 .. Len(orders) : orders'[i] = orders[i]
      /\ orders'[Len(orders) + 1] = o
      /\ orders' \in Seq(S \cup {o})
  <2>1. orders \in Seq(S \cup {o})
    BY <1>1, SeqMonotonic
  <2> QED BY <2>1
<1> QED BY <1>2 DEF Kept

LEMMA CancellingKeepsOrders ==
  ASSUME Kept(orders), NEW n, orders' = [orders EXCEPT ![n].status = "CANCELLED"]
  PROVE  /\ Kept(orders')
         /\ DOMAIN orders \subseteq DOMAIN orders'
         /\ \A i \in DOMAIN orders : orders'[i].code = orders[i].code
<1>1. PICK S : orders \in Seq(S)
  BY DEF Kept
<1>2. DOMAIN orders = 1 .. Len(orders) /\ Len(orders) \in Nat
  BY <1>1, LenProperties
<1> DEFINE o == [orders[n] EXCEPT !.status = "CANCELLED"]
<1>3. CASE n \in DOMAIN orders
  <2>1. /\ DOMAIN o = DOMAIN orders[n]
        /\ o.code = orders[n].code /\ o.request = orders[n].request
    <3>1. {"status", "request", "code"} \subseteq DOMAIN orders[n]
      BY <1>3 DEF Kept
    <3> QED BY <3>1
  <2>2. orders' = [orders EXCEPT ![n] = o]
    OBVIOUS
  <2>3. orders \in Seq(S \cup {o})
    BY <1>1, SeqMonotonic
  <2> HIDE DEF o
  <2>4. orders' \in Seq(S \cup {o}) /\ DOMAIN orders' = DOMAIN orders
    BY <1>2, <1>3, <2>2, <2>3, ExceptSeq
  <2>5. /\ orders'[n] = o
        /\ \A i \in DOMAIN orders : i # n => orders'[i] = orders[i]
    BY <1>3, <2>2
  <2> QED BY <2>1, <2>4, <2>5 DEF Kept
<1>4. CASE n \notin DOMAIN orders
  <2>1. orders' = orders
    <3>1. DOMAIN orders' = DOMAIN orders /\ \A i \in DOMAIN orders : orders'[i] = orders[i]
      BY <1>4
    <3>2. orders' = [i \in DOMAIN orders |-> orders'[i]] /\ orders = [i \in DOMAIN orders |-> orders[i]]
      BY <1>1, <3>1, LenProperties
    <3> QED BY <3>1, <3>2
  <2> QED BY <2>1 DEF Kept
<1> QED BY <1>3, <1>4
-----------------------------------------------------------------------------
(* Types: what goes on the shelf is a stock.                               *)
LEMMA UnitsAreNat == ASSUME NEW r \in Requests PROVE Units(r) \in Nat
<1>1. r.line.quantity \in Nat
  BY ShopAssumption DEF Request, Line
<1> QED BY <1>1 DEF Units

LEMMA MaxOfTwo ==
  ASSUME NEW a \in Int, NEW b \in Int
  PROVE  Max({a, b}) \in {a, b} /\ Max({a, b}) >= a /\ Max({a, b}) >= b
<1>1. \E x \in {a, b} : \A y \in {a, b} : x >= y
  OBVIOUS
<1>2. Max({a, b}) \in {a, b} /\ \A y \in {a, b} : Max({a, b}) >= y
  BY <1>1 DEF Max
<1> QED BY <1>2

(* What is left, and what was asked for: no less than there was.           *)
LEMMA LeftIsAStock ==
  ASSUME NEW d \in Desk
  PROVE  /\ Left(d) \in Stocks
         /\ d.stock = None => Left(d) = None
         /\ d.stock # None => /\ d.stock \in Int /\ Left(d) \in Int
                              /\ Left(d) + Units(d.request) >= d.stock
<1> DEFINE u == Units(d.request)
           n == d.stock - u
<1>1. d.stock \in Stocks /\ u \in Nat
  BY UnitsAreNat DEF Desk
<1>2. Left(d) = IF d.stock = None \/ u = 0 THEN d.stock ELSE Max({0, n})
  BY DEF Left
<1> HIDE DEF u
<1>3. CASE d.stock = None
  BY <1>2, <1>3 DEF Stocks
<1>4. CASE d.stock # None /\ u = 0
  BY <1>1, <1>2, <1>4 DEF Stocks, u
<1>5. CASE d.stock # None /\ u # 0
  <2>1. d.stock \in Int /\ n \in Int /\ n + u = d.stock
    BY <1>1, <1>5 DEF Stocks
  <2> HIDE DEF n
  <2>2. Left(d) = Max({0, n})
    BY <1>2, <1>5
  <2>3. Max({0, n}) \in {0, n} /\ Max({0, n}) >= n
    <3>1. 0 \in Int
      OBVIOUS
    <3> QED BY <2>1, <3>1, MaxOfTwo, Zenon
  <2>4. Left(d) \in Int /\ Left(d) >= n
    BY <2>1, <2>2, <2>3
  <2>5. Left(d) + u >= d.stock
    BY <1>1, <2>1, <2>4
  <2> QED BY <1>5, <2>1, <2>4, <2>5 DEF Stocks, u
<1> QED BY <1>3, <1>4, <1>5

LEMMA RestIsADesk ==
  /\ Rest \in Desk /\ Rest.coupon = None /\ Rest.task = "REST"
<1>1. NoRequest \in Requests
  BY ShopAssumption DEF NoRequest
<1> QED BY <1>1 DEF Rest, Desk, Tasks, Stocks
-----------------------------------------------------------------------------
(* What a step owes, by what it does with the handler's copies.            *)
LEMMA Reading ==
  ASSUME IInv, NEW h \in Handlers, NEW d \in Desk, desk' = [desk EXCEPT ![h] = d],
         d.coupon # None => Earned(orders, d.coupon), d.task = "PRICED" => d.coupon = None,
         d.task = "CANCELLING" => d.order \in DOMAIN orders,
         UNCHANGED <<product, option, stock, coupon, made, orders>>
  PROVE  IInv'
<1>1. Typed'
  BY DEF IInv, Typed, Kept
<1>2. Counts'
  BY DEF IInv, Typed, Counts, Earned, Redeemed
<1> QED BY <1>1, <1>2 DEF IInv

LEMMA Writing ==
  ASSUME IInv, desk' = desk \/ \E h \in Handlers : desk' = [desk EXCEPT ![h] = Rest],
         product' \in Product \cup {None}, option' \in Option \cup {None}, stock' \in Stocks,
         coupon' \in Coupon \cup {None}, made' \in Nat, Kept(orders'),
         DOMAIN orders \subseteq DOMAIN orders',
         \A id : Cardinality(Redeemed(orders, id)) <= Cardinality(Redeemed(orders', id)),
         coupon' = coupon \/ (coupon' # None => Earned(orders', coupon'))
  PROVE  IInv'
<1>1. desk' \in [Handlers -> Desk]
  BY RestIsADesk DEF IInv, Typed
<1>2. \A g \in Handlers : desk'[g] = desk[g] \/ desk'[g] = Rest
  BY DEF IInv, Typed
<1>3. ASSUME NEW c \in Coupon, Earned(orders, c)
      PROVE  Earned(orders', c)
  <2>1. /\ c.used_count \in Nat /\ Cardinality(Redeemed(orders, c.id)) \in Nat
        /\ Cardinality(Redeemed(orders', c.id)) \in Nat
    BY RedeemedIsFinite DEF Coupon, IInv, Typed
  <2> QED BY <1>3, <2>1 DEF Earned
<1>4. ASSUME NEW g \in Handlers, desk'[g].task = "PRICED" PROVE desk'[g].coupon = None
  BY <1>2, <1>4, RestIsADesk DEF IInv, Counts
<1>5. ASSUME NEW g \in Handlers, desk'[g].coupon # None
      PROVE  Earned(orders', desk'[g].coupon)
  <2>1. desk'[g] = desk[g]
    BY <1>2, <1>5, RestIsADesk
  <2>2. desk[g].coupon \in Coupon /\ Earned(orders, desk[g].coupon)
    BY <1>5, <2>1 DEF IInv, Typed, Counts, Desk
  <2> QED BY <1>3, <2>1, <2>2
<1>6. ASSUME NEW g \in Handlers, desk'[g].task = "CANCELLING"
      PROVE  desk'[g].order \in DOMAIN orders'
  BY <1>2, <1>6, RestIsADesk DEF IInv, Counts
<1>7. ASSUME coupon' # None PROVE Earned(orders', coupon')
  <2>1. CASE coupon' = coupon
    <3>1. coupon \in Coupon /\ Earned(orders, coupon)
      BY <1>7, <2>1 DEF IInv, Typed, Counts
    <3> QED BY <1>3, <2>1, <3>1
  <2> QED BY <1>7, <2>1
<1> QED BY <1>1, <1>4, <1>5, <1>6, <1>7 DEF IInv, Typed, Counts
-----------------------------------------------------------------------------
(* What a handler has when it has read something.                          *)
GoodCopy(h, d) ==
  /\ d \in Desk /\ desk' = [desk EXCEPT ![h] = d]
  /\ d.coupon \in {None, coupon}
  /\ d.task = "PRICED" => d.coupon = None
  /\ d.task = "CANCELLING" => d.order \in DOMAIN orders
  /\ d.task = "COUNTED" /\ d.coupon # None /\ Limited(coupon) => coupon.used_count < coupon.max_uses
  /\ d.task = "CODE" => d.coupon # None
  /\ desk[h] # Rest \/ (alone => AtRest)
  /\ UNCHANGED <<product, option, stock, coupon, made, orders, alone>>

Reads(h) ==
  \/ \E r \in Requests, blocked \in BOOLEAN : PriceItems(h, r, blocked)
  \/ _apply_coupon(h)
  \/ \E i \in DOMAIN orders : LookAtOrder(h, i)
  \/ ReadCode(h) \/ ReadOption(h) \/ ReadProduct(h)

LEMMA CopiesAreGood ==
  ASSUME IInv, NEW h \in Handlers, Reads(h)
  PROVE  \E d : GoodCopy(h, d)
<1>1. /\ Rest \in Desk /\ Rest.coupon = None /\ desk[h] \in Desk
      /\ product \in Product \cup {None} /\ option \in Option \cup {None}
      /\ stock \in Stocks /\ coupon \in Coupon \cup {None}
  BY RestIsADesk DEF IInv, Typed
<1>2. ASSUME NEW r \in Requests, NEW blocked \in BOOLEAN, PriceItems(h, r, blocked)
      PROVE  \E d : GoodCopy(h, d)
  <2> DEFINE d == [Rest EXCEPT !.task = "PRICED", !.request = r, !.product = product,
                               !.option = option, !.stock = stock]
  <2>1. d \in Desk /\ d.task = "PRICED" /\ d.coupon = None
    BY <1>1 DEF Desk, Tasks
  <2>2. /\ desk' = [desk EXCEPT ![h] = d] /\ (alone => AtRest)
        /\ UNCHANGED <<product, option, stock, coupon, made, orders, alone>>
    BY <1>2 DEF PriceItems, Free, catalogue, history
  <2> HIDE DEF d
  <2>3. GoodCopy(h, d)
    BY <2>1, <2>2 DEF GoodCopy
  <2> QED BY <2>3
<1>3. CASE _apply_coupon(h)
  <2>1. /\ UNCHANGED <<product, option, stock, coupon, made, orders, alone>>
        /\ desk[h].task = "PRICED" /\ desk[h].coupon = None /\ desk[h] # Rest
    BY <1>3 DEF _apply_coupon, At, catalogue, history, IInv, Counts, Rest
  <2>2. CASE desk[h].request.code
    <3> DEFINE d == [desk[h] EXCEPT !.task = "COUNTED", !.coupon = coupon]
    <3>1. d \in Desk /\ d.task = "COUNTED" /\ d.coupon = coupon
      BY <1>1 DEF Desk, Tasks
    <3>2. desk' = [desk EXCEPT ![h] = d]
      BY <1>3, <2>2 DEF _apply_coupon
    <3>3. Limited(coupon) => coupon.used_count < coupon.max_uses
      BY <1>3, <2>2 DEF _apply_coupon, CodeApplies, Limited
    <3> HIDE DEF d
    <3>4. GoodCopy(h, d)
      BY <2>1, <3>1, <3>2, <3>3 DEF GoodCopy
    <3> QED BY <3>4
  <2>3. CASE ~desk[h].request.code
    <3> DEFINE d == [desk[h] EXCEPT !.task = "COUNTED"]
    <3>1. d \in Desk /\ d.task = "COUNTED" /\ d.coupon = None
      BY <1>1, <2>1 DEF Desk, Tasks
    <3>2. desk' = [desk EXCEPT ![h] = d]
      BY <1>3, <2>3 DEF _apply_coupon
    <3> HIDE DEF d
    <3>3. GoodCopy(h, d)
      BY <2>1, <3>1, <3>2 DEF GoodCopy
    <3> QED BY <3>3
  <2> QED BY <2>2, <2>3
<1>4. ASSUME NEW i \in DOMAIN orders, LookAtOrder(h, i)
      PROVE  \E d : GoodCopy(h, d)
  <2> DEFINE d == [Rest EXCEPT !.task = "CANCELLING", !.order = i, !.stock = stock]
  <2>1. i \in Nat
    BY LenProperties DEF IInv, Typed, Kept
  <2>2. d \in Desk /\ d.task = "CANCELLING" /\ d.coupon = None /\ d.order \in DOMAIN orders
    BY <1>1, <2>1 DEF Desk, Tasks
  <2>3. /\ desk' = [desk EXCEPT ![h] = d] /\ (alone => AtRest)
        /\ UNCHANGED <<product, option, stock, coupon, made, orders, alone>>
    BY <1>4 DEF LookAtOrder, Free, catalogue, history
  <2> HIDE DEF d
  <2>4. GoodCopy(h, d)
    BY <2>2, <2>3 DEF GoodCopy
  <2> QED BY <2>4
<1>5. CASE ReadCode(h)
  <2> DEFINE d == [Rest EXCEPT !.task = "CODE", !.coupon = coupon]
  <2>1. d \in Desk /\ d.task = "CODE" /\ d.coupon = coupon /\ coupon # None
    BY <1>1, <1>5 DEF Desk, Tasks, ReadCode
  <2>2. /\ desk' = [desk EXCEPT ![h] = d] /\ (alone => AtRest)
        /\ UNCHANGED <<product, option, stock, coupon, made, orders, alone>>
    BY <1>5 DEF ReadCode, Free, catalogue, history
  <2> HIDE DEF d
  <2>3. GoodCopy(h, d)
    BY <2>1, <2>2 DEF GoodCopy
  <2> QED BY <2>3
<1>6. CASE ReadOption(h)
  <2> DEFINE d == [Rest EXCEPT !.task = "OPTION", !.option = option]
  <2>1. d \in Desk /\ d.task = "OPTION" /\ d.option = option /\ d.coupon = None
    BY <1>1 DEF Desk, Tasks
  <2>2. /\ desk' = [desk EXCEPT ![h] = d] /\ (alone => AtRest)
        /\ UNCHANGED <<product, option, stock, coupon, made, orders, alone>>
    BY <1>6 DEF ReadOption, Free, catalogue, history
  <2> HIDE DEF d
  <2>3. GoodCopy(h, d)
    BY <2>1, <2>2 DEF GoodCopy
  <2> QED BY <2>3
<1>7. CASE ReadProduct(h)
  <2> DEFINE d == [Rest EXCEPT !.task = "PRODUCT", !.product = product]
  <2>1. d \in Desk /\ d.task = "PRODUCT" /\ d.coupon = None
    BY <1>1 DEF Desk, Tasks
  <2>2. /\ desk' = [desk EXCEPT ![h] = d] /\ (alone => AtRest)
        /\ UNCHANGED <<product, option, stock, coupon, made, orders, alone>>
    BY <1>7 DEF ReadProduct, Free, catalogue, history
  <2> HIDE DEF d
  <2>3. GoodCopy(h, d)
    BY <2>1, <2>2 DEF GoodCopy
  <2> QED BY <2>3
<1> QED BY <1>2, <1>3, <1>4, <1>5, <1>6, <1>7 DEF Reads

LEMMA ReadingIsSound == ASSUME IInv, NEW h \in Handlers, Reads(h) PROVE IInv'
<1>1. PICK d : GoodCopy(h, d)
  BY CopiesAreGood
<1>2. d.coupon # None => Earned(orders, d.coupon)
  BY <1>1 DEF GoodCopy, IInv, Counts
<1> QED BY <1>1, <1>2, Reading DEF GoodCopy
-----------------------------------------------------------------------------
(* One lemma for each kind of row that is written.                         *)
LEMMA SameOrders ==
  ASSUME Kept(orders), UNCHANGED orders
  PROVE  /\ Kept(orders') /\ DOMAIN orders \subseteq DOMAIN orders'
         /\ \A id : Cardinality(Redeemed(orders, id)) <= Cardinality(Redeemed(orders', id))
<1>1. ASSUME NEW id PROVE Cardinality(Redeemed(orders, id)) <= Cardinality(Redeemed(orders', id))
  BY Recount
<1> QED BY <1>1

LEMMA PlaceIsSound == ASSUME IInv, NEW h \in Handlers, Place(h) PROVE IInv'
<1> DEFINE d == desk[h]
           o == NewOrder(d)
<1>1. /\ d \in Desk /\ Kept(orders) /\ coupon \in Coupon \cup {None} /\ stock \in Stocks
      /\ product \in Product \cup {None} /\ option \in Option \cup {None} /\ made \in Nat
      /\ d.request \in Requests /\ d.coupon \in Coupon \cup {None}
      /\ d.coupon # None => Earned(orders, d.coupon)
      /\ coupon # None => Earned(orders, coupon)
  BY DEF IInv, Typed, Counts, Desk
<1>2. /\ orders' = Append(orders, o) /\ UNCHANGED <<product, option, made>>
      /\ desk' = [desk EXCEPT ![h] = Rest]
      /\ stock' = (IF Left(d) = d.stock THEN stock ELSE Left(d))
      /\ coupon' = (IF d.coupon = None THEN coupon
                    ELSE [coupon EXCEPT !.used_count = d.coupon.used_count + 1])
      /\ d.coupon # None => coupon # None /\ coupon.id = d.coupon.id
  BY DEF Place, Leave, catalogue, history
<1>3. /\ {"status", "request", "code"} \subseteq DOMAIN o /\ o.request = d.request
      /\ o.code = IF d.coupon = None THEN 0 ELSE d.coupon.id
  BY DEF NewOrder
<1>4. stock' \in Stocks
  BY <1>1, <1>2, LeftIsAStock
<1> HIDE DEF d, o
<1>5. /\ Kept(orders') /\ DOMAIN orders \subseteq DOMAIN orders'
      /\ \A i \in DOMAIN orders : orders'[i].code = orders[i].code
  BY <1>1, <1>2, <1>3, PlacingKeepsOrders
<1>6. ASSUME NEW id PROVE /\ Cardinality(Redeemed(orders, id)) <= Cardinality(Redeemed(orders', id))
                          /\ Cardinality(Redeemed(orders, id)) \in Nat
                          /\ Cardinality(Redeemed(orders', id)) \in Nat
  BY <1>1, <1>5, Recount, RedeemedIsFinite
<1>7. coupon' \in Coupon \cup {None} /\ (coupon' # None => Earned(orders', coupon'))
  <2>1. CASE d.coupon = None
    <3>1. coupon' = coupon
      BY <1>2, <2>1
    <3> QED BY <1>1, <1>6, <3>1 DEF Earned, Coupon
  <2>2. CASE d.coupon # None
    <3>1. /\ coupon \in Coupon /\ d.coupon \in Coupon /\ coupon.id = d.coupon.id
          /\ coupon' = [coupon EXCEPT !.used_count = d.coupon.used_count + 1]
          /\ o.code = coupon.id
      BY <1>1, <1>2, <1>3, <2>2
    <3>2. /\ coupon' \in Coupon /\ coupon'.id = coupon.id
          /\ coupon'.used_count = d.coupon.used_count + 1
      BY <3>1 DEF Coupon
    <3>3. Cardinality(Redeemed(orders', o.code)) = Cardinality(Redeemed(orders, o.code)) + 1
      BY <1>1, <1>2, OneMore
    <3>4. d.coupon.used_count <= Cardinality(Redeemed(orders, o.code))
      BY <1>1, <2>2, <3>1 DEF Earned
    <3>5. coupon'.used_count <= Cardinality(Redeemed(orders', coupon'.id))
      BY <1>6, <3>1, <3>2, <3>3, <3>4 DEF Coupon
    <3> QED BY <3>2, <3>5 DEF Earned
  <2> QED BY <2>1, <2>2
<1> QED BY <1>1, <1>2, <1>4, <1>5, <1>6, <1>7, Writing

LEMMA CancelIsSound == ASSUME IInv, NEW h \in Handlers, _restore_addon_stock(h) PROVE IInv'
<1> DEFINE d == desk[h]
           n == Units(orders[d.order].request)
<1>1. /\ d \in Desk /\ d.stock \in Stocks /\ Kept(orders) /\ coupon \in Coupon \cup {None}
      /\ stock \in Stocks /\ product \in Product \cup {None} /\ option \in Option \cup {None}
      /\ made \in Nat /\ (coupon # None => Earned(orders, coupon))
  BY DEF IInv, Typed, Counts, Desk
<1>2. /\ orders' = [orders EXCEPT ![d.order].status = "CANCELLED"]
      /\ stock' = (IF d.stock = None \/ n = 0 THEN stock ELSE d.stock + n)
      /\ desk' = [desk EXCEPT ![h] = Rest] /\ UNCHANGED <<product, option, coupon, made>>
  BY DEF _restore_addon_stock, Leave, catalogue, history
<1>3. n \in Nat
  <2>1. d.order \in DOMAIN orders
    BY DEF _restore_addon_stock, At, IInv, Counts
  <2> QED BY <1>1, <2>1, UnitsAreNat DEF Kept
<1> HIDE DEF d, n
<1>4. stock' \in Stocks
  BY <1>1, <1>2, <1>3 DEF Stocks
<1>5. /\ Kept(orders') /\ DOMAIN orders \subseteq DOMAIN orders'
      /\ \A i \in DOMAIN orders : orders'[i].code = orders[i].code
  BY <1>1, <1>2, CancellingKeepsOrders
<1>6. ASSUME NEW id PROVE Cardinality(Redeemed(orders, id)) <= Cardinality(Redeemed(orders', id))
  BY <1>1, <1>5, Recount
<1> QED BY <1>1, <1>2, <1>4, <1>5, <1>6, Writing

(* A row changed, the orders left alone. *)
LEMMA EditIsSound ==
  ASSUME IInv, desk' = desk \/ \E h \in Handlers : desk' = [desk EXCEPT ![h] = Rest],
         product' \in Product \cup {None}, option' \in Option \cup {None}, stock' \in Stocks,
         made' \in Nat, UNCHANGED orders,
         coupon' = coupon \/ /\ coupon' \in Coupon \cup {None}
                             /\ coupon' # None => Earned(orders, coupon')
  PROVE  IInv'
<1>1. Kept(orders) /\ coupon \in Coupon \cup {None}
  BY DEF IInv, Typed
<1>2. coupon' # None /\ coupon' # coupon => Earned(orders', coupon')
  BY DEF Earned, Redeemed
<1> QED BY <1>1, <1>2, SameOrders, Writing

LEMMA CodesAreSound ==
  ASSUME IInv, NEW h \in Handlers, Codes(h), ~ReadCode(h)
  PROVE  IInv'
<1>1. /\ product \in Product \cup {None} /\ option \in Option \cup {None} /\ stock \in Stocks
      /\ coupon \in Coupon \cup {None} /\ made \in Nat /\ Kept(orders)
      /\ coupon # None => Earned(orders, coupon)
      /\ desk[h] \in Desk
  BY DEF IInv, Typed, Counts
<1>2. ASSUME NEW c \in Coupon, coupon # None, c.used_count = coupon.used_count,
             c.id = coupon.id, SaveCode(h, c)
      PROVE  IInv'
  <2>1. Earned(orders, c)
    BY <1>1, <1>2 DEF Earned
  <2>2. /\ UNCHANGED <<product, option, stock, orders, made>> /\ coupon' = c
        /\ desk' = [desk EXCEPT ![h] = Rest]
    BY <1>2 DEF SaveCode, Leave, catalogue
  <2> QED BY <1>1, <1>2, <2>1, <2>2, EditIsSound
<1>3. CASE toggle_coupon(h)
  <2> DEFINE c == [coupon EXCEPT !.active = ~desk[h].coupon.active]
  <2>1. SaveCode(h, c) /\ coupon # None /\ coupon \in Coupon
    BY <1>1, <1>3 DEF toggle_coupon, SaveCode
  <2>2. c \in Coupon /\ c.used_count = coupon.used_count /\ c.id = coupon.id
    BY <2>1 DEF Coupon
  <2> HIDE DEF c
  <2> QED BY <1>2, <2>1, <2>2
<1>4. ASSUME NEW offer \in Offers, NEW limit \in Limits, update_coupon(h, offer, limit)
      PROVE  IInv'
  <2> DEFINE c == [coupon EXCEPT !.offer = offer, !.max_uses = limit]
  <2>1. SaveCode(h, c) /\ coupon # None /\ coupon \in Coupon /\ limit \in Uses
    BY <1>1, <1>4, ShopAssumption DEF update_coupon, SaveCode
  <2>2. c \in Coupon /\ c.used_count = coupon.used_count /\ c.id = coupon.id
    BY <2>1 DEF Coupon
  <2> HIDE DEF c
  <2> QED BY <1>2, <2>1, <2>2
<1>5. ASSUME NEW offer \in Offers, NEW limit \in Limits, create_coupon(offer, limit)
      PROVE  IInv'
  <2> DEFINE c == [id |-> made + 1, offer |-> offer, active |-> TRUE, max_uses |-> limit,
                   used_count |-> 0]
  <2>1. /\ coupon' = c /\ made' = made + 1
        /\ UNCHANGED <<product, option, stock, orders, desk>>
    BY <1>5 DEF create_coupon, catalogue
  <2>2. c \in Coupon /\ c.used_count = 0
    BY <1>1, ShopAssumption DEF Coupon
  <2> HIDE DEF c
  <2>3. Earned(orders, c)
    BY <1>1, <2>2, RedeemedIsFinite DEF Earned
  <2> QED BY <1>1, <2>1, <2>2, <2>3, EditIsSound
<1>6. CASE delete_coupon
  <2>1. coupon' = None /\ UNCHANGED <<product, option, stock, orders, desk, made>>
    BY <1>6 DEF delete_coupon, catalogue
  <2> QED BY <1>1, <2>1, EditIsSound
<1> QED BY <1>3, <1>4, <1>5, <1>6 DEF Codes

LEMMA CatalogueIsSound ==
  ASSUME IInv, NEW h \in Handlers, Catalogue(h), ~ReadOption(h), ~ReadProduct(h)
  PROVE  IInv'
<1>1. /\ product \in Product \cup {None} /\ option \in Option \cup {None} /\ stock \in Stocks
      /\ made \in Nat
  BY DEF IInv, Typed
<1>2. ASSUME NEW fields \in SUBSET {"price", "multiplier"}, NEW asked \in Asking,
             update_product_option(h, fields, asked)
      PROVE  IInv'
  <2> DEFINE read == desk[h].option
             given(f) == f \in fields /\ asked[f] # None
             price == IF given("multiplier") THEN None
                      ELSE IF "price" \in fields THEN asked.price ELSE read.price
             multiplier == IF given("price") THEN None
                           ELSE IF "multiplier" \in fields THEN asked.multiplier
                           ELSE read.multiplier
  <2>1. /\ option # None /\ UNCHANGED <<product, stock, coupon, orders, made>>
        /\ desk' = [desk EXCEPT ![h] = Rest]
    BY <1>2 DEF update_product_option, Leave
  <2>2. option' = [price |-> IF price = read.price THEN option.price ELSE price,
                   multiplier |-> IF multiplier = read.multiplier THEN option.multiplier
                                  ELSE multiplier]
    BY <1>2 DEF update_product_option
  <2>3. /\ option \in Option
        /\ asked.price \in Nat \cup {None} /\ asked.multiplier \in Nat \cup {None}
    BY <1>1, <2>1, ShopAssumption DEF Asking
  <2>4. /\ price = read.price \/ price \in Nat \cup {None}
        /\ multiplier = read.multiplier \/ multiplier \in Nat \cup {None}
    BY <2>3
  <2> HIDE DEF price, multiplier, read
  <2>5. option' \in Option
    BY <2>2, <2>3, <2>4 DEF Option
  <2> QED BY <1>1, <2>1, <2>5, EditIsSound
<1>3. CASE create_product_option \/ delete_product_option
  <2>1. UNCHANGED <<product, stock, coupon, orders, desk, made>>
    BY <1>3 DEF create_product_option, delete_product_option
  <2>2. option' \in Option \cup {None}
    BY <1>3, ShopAssumption DEF create_product_option, delete_product_option, Option
  <2> QED BY <1>1, <2>1, <2>2, EditIsSound
<1>4. ASSUME NEW p \in Product, SaveProduct(h, p)
      PROVE  IInv'
  <2>1. /\ product' = p /\ UNCHANGED <<option, stock, coupon, orders, made>>
        /\ desk' = [desk EXCEPT ![h] = Rest]
    BY <1>4 DEF SaveProduct, Leave
  <2> QED BY <1>1, <1>4, <2>1, EditIsSound
<1>5. CASE toggle_availability(h)
  <2> DEFINE p == [product EXCEPT !.on = ~desk[h].product.on]
  <2>1. SaveProduct(h, p) /\ product \in Product
    BY <1>1, <1>5 DEF toggle_availability, SaveProduct
  <2>2. p \in Product
    BY <2>1 DEF Product
  <2> HIDE DEF p
  <2> QED BY <1>4, <2>1, <2>2
<1>6. ASSUME NEW b \in BOOLEAN, SetPrice(h, b) PROVE IInv'
  <2> DEFINE p == [product EXCEPT !.base = 100, !.tagged = FALSE, !.on = @ \/ b]
  <2>1. SaveProduct(h, p) /\ product \in Product
    BY <1>1, <1>6 DEF SetPrice, SaveProduct
  <2>2. p \in Product
    <3>1. PICK v \in BOOLEAN : v = (product.on \/ b)
      OBVIOUS
    <3>2. [product EXCEPT !.base = 100, !.tagged = FALSE, !.on = v] \in Product
      BY <2>1 DEF Product
    <3> QED BY <3>1, <3>2
  <2> HIDE DEF p
  <2> QED BY <1>4, <2>1, <2>2
<1>7. ASSUME NEW b \in BOOLEAN, SetTags(h, b) PROVE IInv'
  <2> DEFINE p == [product EXCEPT !.tagged = b]
  <2>1. SaveProduct(h, p) /\ product \in Product
    BY <1>1, <1>7 DEF SetTags, SaveProduct
  <2>2. p \in Product
    BY <2>1 DEF Product
  <2> HIDE DEF p
  <2> QED BY <1>4, <2>1, <2>2
<1>8. CASE delete_product
  <2>1. /\ product' = None /\ option' = None
        /\ UNCHANGED <<stock, coupon, orders, desk, made>>
    BY <1>8 DEF delete_product
  <2> QED BY <1>1, <2>1, EditIsSound
<1>9. ASSUME NEW b \in BOOLEAN, NEW c \in BOOLEAN, create_product(b, c) PROVE IInv'
  <2>1. product' \in Product /\ UNCHANGED <<option, stock, coupon, orders, desk, made>>
    BY <1>9 DEF create_product, Product
  <2> QED BY <1>1, <2>1, EditIsSound
<1> QED BY <1>2, <1>3, <1>5, <1>6, <1>7, <1>8, <1>9, ShopAssumption DEF Catalogue

LEMMA OtherIsSound ==
  ASSUME IInv, \/ \E n \in Shelf : set_addon_stock(n)
               \/ \E r \in Rows \cup Sizes : ToggleRow(r)
               \/ \E h \in Handlers : Refuse(h)
  PROVE  IInv'
<1>1. /\ product \in Product \cup {None} /\ option \in Option \cup {None} /\ stock \in Stocks
      /\ made \in Nat
  BY DEF IInv, Typed
<1>2. /\ UNCHANGED <<product, option, coupon, orders, made>>
      /\ stock' \in Stocks
      /\ desk' = desk \/ \E h \in Handlers : desk' = [desk EXCEPT ![h] = Rest]
  BY <1>1, ShopAssumption DEF set_addon_stock, ToggleRow, Refuse, Leave, Change, Edit, catalogue, history
<1> QED BY <1>1, <1>2, EditIsSound

LEMMA InitIsSound == ShopInit => IInv
<1> SUFFICES ASSUME ShopInit PROVE IInv
  OBVIOUS
<1>1. orders = <<>> /\ Kept(orders)
  BY DEF ShopInit, Kept
<1>2. Typed
  <2>1. product \in Product
    BY DEF ShopInit, Product
  <2>2. option \in Option \cup {None}
    BY ShopAssumption DEF ShopInit, Option
  <2>3. stock \in Stocks /\ coupon = None /\ made = 0 /\ desk = [h \in Handlers |-> Rest]
    BY ShopAssumption DEF ShopInit
  <2> QED BY <1>1, <2>1, <2>2, <2>3, RestIsADesk DEF Typed
<1>3. Counts
  BY RestIsADesk DEF ShopInit, Counts
<1> QED BY <1>2, <1>3 DEF IInv

LEMMA StepIsSound == IInv /\ [ShopNext]_shopVars => IInv'
<1> SUFFICES ASSUME IInv, [ShopNext]_shopVars PROVE IInv'
  OBVIOUS
<1>1. ASSUME NEW h \in Handlers, ByCustomer(h) PROVE IInv'
  BY <1>1, ReadingIsSound, PlaceIsSound, CancelIsSound DEF ByCustomer, Reads
<1>2. ASSUME NEW h \in Handlers, Codes(h) PROVE IInv'
  BY <1>2, ReadingIsSound, CodesAreSound DEF Reads
<1>3. ASSUME NEW h \in Handlers, Catalogue(h) PROVE IInv'
  BY <1>3, ReadingIsSound, CatalogueIsSound DEF Reads
<1>4. CASE UNCHANGED shopVars
  <2>1. IInv' <=> IInv
    BY <1>4 DEF shopVars, IInv, Typed, Counts, Kept, Earned, Redeemed
  <2> QED BY <2>1
<1> QED BY <1>1, <1>2, <1>3, <1>4, OtherIsSound DEF ShopNext

(* Every count that a handler holds or that is stored was earned.          *)
THEOREM ShopInvariance == ShopSpec => []IInv
BY InitIsSound, StepIsSound, PTL DEF ShopSpec

(* The use count of a code never exceeds the orders that used it           *)
(* (order_service.py:28-49), whoever races whom.                           *)
THEOREM EveryUseIsAnOrder == ShopSpec => []CountIsNeverAhead
<1>1. IInv => CountIsNeverAhead
  BY DEF IInv, Counts, Earned, Redeemed, CountIsNeverAhead
<1> QED BY <1>1, ShopInvariance, PTL
-----------------------------------------------------------------------------
(* Handlers that take turns.  Once something is written, nobody is at work.*)
WritesAndLeaves(h) ==
  \/ Place(h) \/ _restore_addon_stock(h) \/ Refuse(h)
  \/ toggle_coupon(h)
  \/ \E offer \in Offers, limit \in Limits : update_coupon(h, offer, limit)
  \/ \E fields \in SUBSET {"price", "multiplier"}, asked \in Asking :
       update_product_option(h, fields, asked)
  \/ toggle_availability(h)
  \/ \E b \in BOOLEAN : SetPrice(h, b) \/ SetTags(h, b)

Changes ==
  \/ \E offer \in Offers, limit \in Limits : create_coupon(offer, limit)
  \/ delete_coupon
  \/ create_product_option \/ delete_product_option
  \/ delete_product \/ \E b, c \in BOOLEAN : create_product(b, c)
  \/ \E n \in Shelf : set_addon_stock(n)
  \/ \E r \in Rows \cup Sizes : ToggleRow(r)

LEMMA NextIsOneOf ==
  ShopNext => Changes \/ \E h \in Handlers : Reads(h) \/ WritesAndLeaves(h)
BY DEF ShopNext, ByCustomer, Codes, Catalogue, Changes, WritesAndLeaves, Reads

(* Whether handlers take turns never changes. *)
LEMMA NobodyChangesTurns ==
  ASSUME Changes \/ \E h \in Handlers : WritesAndLeaves(h)
  PROVE  alone' = alone
<1>1. ASSUME Edit PROVE alone' = alone
  BY <1>1 DEF Edit
<1>2. CASE Changes
  <2>1. Edit
    BY <1>2 DEF Changes, create_coupon, delete_coupon, create_product_option,
                delete_product_option, delete_product, create_product, set_addon_stock,
                ToggleRow, Change
  <2> QED BY <1>1, <2>1
<1>3. ASSUME NEW h \in Handlers, Place(h) \/ _restore_addon_stock(h) \/ Refuse(h)
      PROVE  alone' = alone
  BY <1>3 DEF Place, _restore_addon_stock, Refuse, history
<1>4. ASSUME NEW h \in Handlers, WritesAndLeaves(h),
             ~(Place(h) \/ _restore_addon_stock(h) \/ Refuse(h))
      PROVE  alone' = alone
  <2>1. Edit
    BY <1>4 DEF WritesAndLeaves, toggle_coupon, update_coupon, SaveCode, update_product_option,
                toggle_availability, SetPrice, SetTags, SaveProduct
  <2> QED BY <1>1, <2>1
<1> QED BY <1>2, <1>3, <1>4

(* Whoever writes is done. *)
LEMMA WritersLeave ==
  ASSUME NEW h \in Handlers, WritesAndLeaves(h)
  PROVE  desk' = [desk EXCEPT ![h] = Rest]
<1>1. CASE Place(h) \/ _restore_addon_stock(h) \/ Refuse(h)
  BY <1>1 DEF Place, _restore_addon_stock, Refuse, Leave
<1>2. CASE toggle_coupon(h) \/ \E offer \in Offers, limit \in Limits : update_coupon(h, offer, limit)
  BY <1>2 DEF toggle_coupon, update_coupon, SaveCode, Leave
<1>3. ASSUME NEW fields, NEW asked, update_product_option(h, fields, asked)
      PROVE  desk' = [desk EXCEPT ![h] = Rest]
  BY <1>3 DEF update_product_option, Leave
<1>4. CASE toggle_availability(h) \/ \E b \in BOOLEAN : SetPrice(h, b) \/ SetTags(h, b)
  BY <1>4 DEF toggle_availability, SetPrice, SetTags, SaveProduct, Leave
<1> QED BY <1>1, <1>2, <1>3, <1>4 DEF WritesAndLeaves

LEMMA NobodyAtWork ==
  ASSUME IInv, TakingTurns, alone,
         Changes \/ \E h \in Handlers : WritesAndLeaves(h)
  PROVE  /\ alone' = alone
         /\ \A g \in Handlers : desk'[g] = Rest
<1>1. CASE Changes
  <2>1. AtRest /\ UNCHANGED <<alone, desk>>
    BY <1>1 DEF Changes, create_coupon, delete_coupon, create_product_option,
                delete_product_option, delete_product, create_product, set_addon_stock,
                ToggleRow, Change, Edit
  <2> QED BY <2>1 DEF AtRest
<1>2. ASSUME NEW h \in Handlers, WritesAndLeaves(h)
      PROVE  /\ alone' = alone
             /\ \A g \in Handlers : desk'[g] = Rest
  <2>1. desk' = [desk EXCEPT ![h] = Rest] /\ UNCHANGED alone
    BY <1>2, WritersLeave, NobodyChangesTurns
  <2>2. desk[h] # Rest
    <3>1. CASE Refuse(h)
      BY <3>1 DEF Refuse
    <3>2. CASE ~Refuse(h)
      <4>1. desk[h].task # "REST"
        BY <1>2, <3>2 DEF WritesAndLeaves, Place, _restore_addon_stock, toggle_coupon,
                          update_coupon, SaveCode, update_product_option, toggle_availability,
                          SetPrice, SetTags, SaveProduct, At
      <4> QED BY <4>1, RestIsADesk
    <3> QED BY <3>1, <3>2
  <2>3. \A g \in Handlers : g # h => desk[g] = Rest
    BY <2>2 DEF TakingTurns, Alone
  <2> QED BY <2>1, <2>3 DEF IInv, Typed
<1> QED BY <1>1, <1>2

LEMMA CapSurvives ==
  ASSUME IInv, TakingTurns, alone,
         Changes \/ \E h \in Handlers : WritesAndLeaves(h)
  PROVE  Capped'
<1> DEFINE New(c) == c = None \/ (Limited(c) => c.used_count <= c.max_uses)
<1>1. Capped /\ Current /\ coupon \in Coupon \cup {None}
  BY DEF TakingTurns, IInv, Typed
<1>2. CASE coupon' = coupon
  BY <1>1, <1>2 DEF Capped
<1>3. ASSUME NEW h \in Handlers, Place(h), coupon' # coupon PROVE Capped'
  <2> DEFINE d == desk[h]
  <2>1. /\ d.task = "COUNTED" /\ d.coupon # None /\ coupon # None
        /\ coupon' = [coupon EXCEPT !.used_count = d.coupon.used_count + 1]
    BY <1>3 DEF Place, At
  <2>2. d.coupon = coupon /\ (Limited(coupon) => coupon.used_count < coupon.max_uses)
    BY <1>1, <2>1 DEF Current
  <2>3. coupon \in Coupon
    BY <1>1, <2>1
  <2>4. coupon'.used_count = coupon.used_count + 1 /\ coupon'.max_uses = coupon.max_uses
    BY <2>1, <2>2, <2>3 DEF Coupon
  <2>5. coupon.used_count \in Nat /\ coupon.max_uses \in Nat \cup {None}
    BY <2>3 DEF Coupon, Uses
  <2> QED BY <2>2, <2>4, <2>5 DEF Capped, Limited
<1>4. ASSUME NEW h \in Handlers, toggle_coupon(h) PROVE Capped'
  <2>1. coupon # None /\ coupon' = [coupon EXCEPT !.active = ~desk[h].coupon.active]
    BY <1>4 DEF toggle_coupon, SaveCode
  <2>2. coupon'.used_count = coupon.used_count /\ coupon'.max_uses = coupon.max_uses
    BY <1>1, <2>1 DEF Coupon
  <2> QED BY <1>1, <2>1, <2>2 DEF Capped, Limited
<1>5. ASSUME NEW h \in Handlers, NEW offer \in Offers, NEW limit \in Limits,
             update_coupon(h, offer, limit)
      PROVE  Capped'
  <2>1. /\ coupon # None /\ desk[h].task = "CODE"
        /\ coupon' = [coupon EXCEPT !.offer = offer, !.max_uses = limit]
        /\ limit # None => limit >= desk[h].coupon.used_count
    BY <1>5 DEF update_coupon, SaveCode, At
  <2>2. desk[h].coupon = coupon
    BY <1>1, <2>1 DEF Current
  <2>3. coupon'.used_count = coupon.used_count /\ coupon'.max_uses = limit
    BY <1>1, <2>1 DEF Coupon
  <2>4. coupon.used_count \in Nat /\ limit \in Nat \cup {None}
    BY <1>1, <2>1, ShopAssumption DEF Coupon, Uses
  <2> QED BY <2>1, <2>2, <2>3, <2>4 DEF Capped, Limited
<1>6. ASSUME NEW offer \in Offers, NEW limit \in Limits, create_coupon(offer, limit)
      PROVE  Capped'
  <2>1. coupon'.used_count = 0 /\ coupon'.max_uses = limit
    BY <1>6 DEF create_coupon
  <2>2. limit \in Nat \cup {None}
    BY ShopAssumption DEF Uses
  <2> QED BY <2>1, <2>2 DEF Capped, Limited
<1>7. CASE delete_coupon
  BY <1>7 DEF delete_coupon, Capped
<1>8. CASE \/ create_product_option \/ delete_product_option
           \/ delete_product \/ \E b, c \in BOOLEAN : create_product(b, c)
           \/ \E n \in Shelf : set_addon_stock(n)
           \/ \E r \in Rows \cup Sizes : ToggleRow(r)
  BY <1>2, <1>8 DEF create_product_option, delete_product_option, delete_product,
                    create_product, set_addon_stock, ToggleRow, catalogue
<1>9. ASSUME NEW h \in Handlers,
             \/ _restore_addon_stock(h) \/ Refuse(h)
             \/ \E fields \in SUBSET {"price", "multiplier"}, asked \in Asking :
                  update_product_option(h, fields, asked)
             \/ toggle_availability(h)
             \/ \E b \in BOOLEAN : SetPrice(h, b) \/ SetTags(h, b)
      PROVE  Capped'
  BY <1>2, <1>9 DEF _restore_addon_stock, Refuse, update_product_option, toggle_availability,
                    SetPrice, SetTags, SaveProduct, catalogue
<1> QED BY <1>2, <1>3, <1>4, <1>5, <1>6, <1>7, <1>8, <1>9 DEF Changes, WritesAndLeaves

LEMMA ReadingInTurn ==
  ASSUME IInv, TakingTurns, NEW h \in Handlers, Reads(h)
  PROVE  TakingTurns'
<1>1. PICK d : GoodCopy(h, d)
  BY CopiesAreGood
<1>2. SUFFICES ASSUME alone PROVE (Alone /\ Current /\ Capped)'
  BY <1>1 DEF GoodCopy, TakingTurns
<1>3. \A g \in Handlers : g # h => desk[g] = Rest
  BY <1>1, <1>2 DEF GoodCopy, TakingTurns, Alone, AtRest
<1>4. \A g \in Handlers : desk'[g] = IF g = h THEN d ELSE Rest
  BY <1>1, <1>3 DEF GoodCopy, IInv, Typed
<1>5. UNCHANGED <<coupon, option>>
  BY <1>1 DEF GoodCopy
<1>6. Alone'
  BY <1>4 DEF Alone
<1>7. Current'
  <2>1. ASSUME NEW g \in Handlers
        PROVE  /\ desk'[g].coupon # None => desk'[g].coupon = coupon
               /\ desk'[g].task = "COUNTED" /\ desk'[g].coupon # None /\ Limited(coupon)
                    => coupon.used_count < coupon.max_uses
               /\ desk'[g].task = "CODE" => desk'[g].coupon # None
    <3>1. CASE g = h
      BY <1>1, <1>4, <3>1 DEF GoodCopy
    <3>2. CASE g # h
      BY <1>4, <3>2, RestIsADesk
    <3> QED BY <3>1, <3>2
  <2> QED BY <1>5, <2>1 DEF Current
<1>8. Capped'
  BY <1>2, <1>5 DEF TakingTurns, Capped
<1> QED BY <1>6, <1>7, <1>8

LEMMA WritingInTurn ==
  ASSUME IInv, TakingTurns, Changes \/ \E h \in Handlers : WritesAndLeaves(h)
  PROVE  TakingTurns'
<1>1. alone' = alone
  BY NobodyChangesTurns
<1>2. SUFFICES ASSUME alone PROVE (Alone /\ Current /\ Capped)'
  BY <1>1 DEF TakingTurns
<1>3. \A g \in Handlers : desk'[g] = Rest
  BY <1>2, NobodyAtWork
<1>4. Alone' /\ Current'
  BY <1>3, RestIsADesk DEF Alone, Current
<1> QED BY <1>2, <1>4, CapSurvives

LEMMA InTurnFromTheStart == ShopInit => TakingTurns
<1> SUFFICES ASSUME ShopInit PROVE Alone /\ Current /\ Capped
  BY DEF TakingTurns
<1>1. \A g \in Handlers : desk[g] = Rest
  BY DEF ShopInit
<1>2. Alone /\ Current
  BY <1>1, RestIsADesk DEF Alone, Current
<1>3. Capped
  BY DEF ShopInit, Capped
<1> QED BY <1>2, <1>3

(* While handlers take turns, whoever is at work has read the rows as they *)
(* are, so a limit that was looked at still holds when it writes.          *)
THEOREM TurnsAreTaken == ShopSpec => [](IInv /\ TakingTurns)
<1>1. IInv /\ TakingTurns /\ [ShopNext]_shopVars => (IInv /\ TakingTurns)'
  <2> SUFFICES ASSUME IInv, TakingTurns, [ShopNext]_shopVars PROVE IInv' /\ TakingTurns'
    OBVIOUS
  <2>1. IInv'
    BY StepIsSound
  <2>2. CASE ShopNext
    BY <2>1, <2>2, NextIsOneOf, ReadingInTurn, WritingInTurn
  <2>3. CASE UNCHANGED shopVars
    <3>1. TakingTurns' <=> TakingTurns
      BY <2>3 DEF shopVars, TakingTurns, Alone, Current, Capped
    <3> QED BY <2>1, <3>1
  <2> QED BY <2>2, <2>3
<1> QED BY <1>1, InitIsSound, InTurnFromTheStart, PTL DEF ShopSpec

(* A limited code is never redeemed beyond its limit while handlers take   *)
(* turns, however it is edited in between (coupons.py:43-79).              *)
THEOREM LimitsHold == ShopSpec => []CapIsKept
<1>1. IInv /\ TakingTurns => CapIsKept
  BY DEF TakingTurns, Capped, Limited, CapIsKept
<1> QED BY <1>1, TurnsAreTaken, PTL

-----------------------------------------------------------------------------
(* What things cost, and what comes off: prices are sums, and no discount  *)
(* of up to a hundred per cent is more than what it is taken from.         *)
LEMMA CostIsNat == ASSUME NEW S \in SUBSET Rows PROVE CostOf(S) \in Nat
<1>1. CostOf(S) = Total(Cost, S)
  BY DEF CostOf, Total
<1>2. IsFiniteSet(S) /\ \A r \in S : Cost[r] \in Nat
  BY PricesAssumption, FS_Subset
<1> QED BY <1>1, <1>2, TotalIsNat

LEMMA ProductIsNat == ASSUME NEW a \in Nat, NEW b \in Nat PROVE a * b \in Nat
OBVIOUS

LEMMA RoundedIsNat == ASSUME NEW a \in Nat, NEW b \in Nat PROVE RoundedTo(a, b) \in Nat
<1>1. b * a \in Nat
  BY ProductIsNat
<1> DEFINE p == b * a
<1> HIDE DEF p
<1>2. p \in Nat => p \div 10 \in Nat
  OBVIOUS
<1> QED BY <1>1, <1>2 DEF RoundedTo, p

LEMMA PriceIsNat == ASSUME NEW d \in Desk, d.product # None PROVE Items(d) \in Nat
<1> DEFINE line == d.request.line
           one == SizeAdjusted(d.product, d.option, line.size)
           rush == IF line.rush = None THEN 0 ELSE Cost[line.rush]
<1>1. /\ d.product \in Product /\ d.option \in Option \cup {None} /\ line \in Line
  BY ShopAssumption DEF Desk, Request
<1>2. one \in Nat
  <2>1. d.product.base \in Nat /\ \A s \in Sizes : Times[s] \in Nat
    BY <1>1, PricesAssumption DEF Product
  <2>2. d.option # None => /\ d.option.price \in Nat \cup {None}
                           /\ d.option.multiplier \in Nat \cup {None}
    BY <1>1 DEF Option
  <2> QED BY <2>1, <2>2, RoundedIsNat DEF SizeAdjusted, price_for
<1>3. CostOf(Picks(line)) \in Nat
  BY <1>1, CostIsNat DEF Picks, Line
<1>4. rush \in Nat
  BY <1>1, PricesAssumption DEF Line
<1>5. line.quantity \in Nat
  BY <1>1 DEF Line
<1>6. Items(d) = line.quantity * (one + CostOf(Picks(line)) + rush)
  BY DEF Items, calculate_item_price
<1> HIDE DEF line, one, rush
<1> QED BY <1>2, <1>3, <1>4, <1>5, <1>6, ProductIsNat

LEMMA MinOfTwo ==
  ASSUME NEW a \in Int, NEW b \in Int
  PROVE  Min({a, b}) \in {a, b} /\ Min({a, b}) <= a /\ Min({a, b}) <= b
<1>1. \E x \in {a, b} : \A y \in {a, b} : x <= y
  OBVIOUS
<1>2. Min({a, b}) \in {a, b} /\ \A y \in {a, b} : Min({a, b}) <= y
  BY <1>1 DEF Min
<1> QED BY <1>2

LEMMA ShareIsAPart ==
  ASSUME NEW t \in Nat, NEW v \in Nat
  PROVE  /\ (t * v) \div 100 \in Nat
         /\ v <= 100 => (t * v) \div 100 <= t
<1>1. t * v \in Nat /\ t * 100 \in Nat
  BY ProductIsNat
<1>2. ASSUME v <= 100 PROVE t * v <= t * 100
  <2>1. 100 - v \in Nat /\ t * (100 - v) \in Nat
    BY <1>2
  <2>2. t * (100 - v) = t * 100 - t * v
    OBVIOUS
  <2> QED BY <1>1, <2>1, <2>2
<1> DEFINE p == t * v
<1> HIDE DEF p
<1>3. p \in Nat => p \div 100 \in Nat /\ (p <= t * 100 => p \div 100 <= t)
  OBVIOUS
<1> QED BY <1>1, <1>2, <1>3 DEF p

LEMMA DiscountIsAPart ==
  ASSUME NEW c \in Offer, NEW t \in Nat
  PROVE  /\ calculate_discount(c, t) \in Nat
         /\ c.kind = "FLAT" \/ c.value <= 100 => calculate_discount(c, t) <= t
<1> DEFINE part == (t * c.value) \div 100
<1>1. /\ c.value \in Nat /\ c.cap \in Nat \cup {None} /\ c.kind \in {"FLAT", "PERCENTAGE"}
      /\ c.least \in Nat
  BY DEF Offer
<1>2. part \in Nat /\ (c.value <= 100 => part <= t)
  BY <1>1, ShareIsAPart
<1>3. calculate_discount(c, t) = IF t < c.least THEN 0
                                 ELSE IF c.kind = "FLAT" THEN Min({c.value, t})
                                 ELSE IF c.cap \in {None, 0} THEN part
                                 ELSE Min({part, c.cap})
  BY Zenon DEF calculate_discount
<1> HIDE DEF part
<1>4. CASE t < c.least
  BY <1>3, <1>4
<1>5. CASE t >= c.least /\ c.kind = "FLAT"
  <2>1. calculate_discount(c, t) = Min({c.value, t})
    BY <1>1, <1>3, <1>5
  <2>2. c.value \in Int /\ t \in Int
    BY <1>1
  <2>3. Min({c.value, t}) \in {c.value, t} /\ Min({c.value, t}) <= t
    BY <2>2, MinOfTwo, Zenon
  <2>4. Min({c.value, t}) \in Nat
    BY <1>1, <2>3
  <2> QED BY <2>1, <2>3, <2>4
<1>6. CASE t >= c.least /\ c.kind # "FLAT" /\ c.cap \in {None, 0}
  <2>1. calculate_discount(c, t) = part
    BY <1>1, <1>3, <1>6
  <2> QED BY <1>2, <1>6, <2>1
<1>7. CASE t >= c.least /\ c.kind # "FLAT" /\ c.cap \notin {None, 0}
  <2>1. calculate_discount(c, t) = Min({part, c.cap}) /\ c.cap \in Nat
    BY <1>1, <1>3, <1>7
  <2>2. Min({part, c.cap}) \in {part, c.cap} /\ Min({part, c.cap}) <= part
    <3>1. part \in Int /\ c.cap \in Int
      BY <1>2, <2>1
    <3> QED BY <3>1, MinOfTwo, Zenon
  <2>3. Min({part, c.cap}) \in Nat
    BY <1>2, <2>1, <2>2
  <2> QED BY <1>2, <1>7, <2>1, <2>2, <2>3
<1> QED BY <1>1, <1>4, <1>5, <1>6, <1>7
-----------------------------------------------------------------------------
(* The sum of what the orders that stand asked for, and what an order that *)
(* is placed or cancelled does to it.                                      *)
Standing(os) == {i \in DOMAIN os : os[i].status = "PLACED"}
AskedBy(os)  == [i \in DOMAIN os |-> Units(os[i].request)]

LEMMA OrdersAreFew ==
  ASSUME NEW os \in Seq(Order)
  PROVE  IsFiniteSet(Standing(os)) /\ Standing(os) \subseteq DOMAIN os
<1>1. Len(os) \in Nat /\ DOMAIN os = 1 .. Len(os)
  BY LenProperties
<1>2. IsFiniteSet(1 .. Len(os)) /\ Standing(os) \subseteq 1 .. Len(os)
  BY <1>1, FS_Interval DEF Standing
<1> QED BY <1>1, <1>2, FS_Subset

LEMMA OrderFields ==
  ASSUME NEW os \in Seq(Order), NEW i \in DOMAIN os
  PROVE  os[i] \in Order /\ os[i].request \in Requests /\ Units(os[i].request) \in Nat
<1>1. os[i] \in Order
  BY ElementOfSeq
<1> QED BY <1>1, UnitsAreNat DEF Order

AskedSum(G, os, P) ==
  G = [s \in SUBSET P |-> IF s = {} THEN 0
                          ELSE Units(os[OneOf(s)].request) + G[s \ {OneOf(s)}]]
LEMMA AskedIsATotal ==
  ASSUME NEW os \in Seq(Order)
  PROVE  Asked(os) = Total(AskedBy(os), Standing(os))
<1> DEFINE P == Standing(os)
           g == AskedBy(os)
<1>1. IsFiniteSet(P) /\ P \subseteq DOMAIN os
  BY OrdersAreFew
<1>2. Asked(os) = (CHOOSE G : AskedSum(G, os, P))[P]
  BY DEF Asked, MapThenSumSet, MapThenFoldSet, AskedSum, OneOf, Standing
<1>3. \A s \in SUBSET P : s # {} => g[OneOf(s)] = Units(os[OneOf(s)].request)
  BY <1>1, OneOfThem DEF AskedBy
<1> HIDE DEF P, g
<1>4. PICK H : IsSum(H, g, SUBSET P) /\ Total(g, P) = H[P]
  BY <1>1, TotalIsASum
<1>5. \A G : AskedSum(G, os, P) <=> IsSum(G, g, SUBSET P)
  <2>1. ASSUME NEW G
        PROVE  [s \in SUBSET P |-> IF s = {} THEN 0
                ELSE Units(os[OneOf(s)].request) + G[s \ {OneOf(s)}]]
               = [s \in SUBSET P |-> IF s = {} THEN 0 ELSE g[OneOf(s)] + G[s \ {OneOf(s)}]]
    BY <1>3
  <2> QED BY <2>1 DEF AskedSum, IsSum
<1>6. IsSum((CHOOSE G : AskedSum(G, os, P)), g, SUBSET P)
  BY <1>4, <1>5
<1> DEFINE C == CHOOSE G : AskedSum(G, os, P)
<1> HIDE DEF C
<1>7. C[P] = H[P]
  BY <1>1, <1>4, <1>6, SumsAgree DEF C
<1> QED BY <1>2, <1>4, <1>7 DEF C, P, g

LEMMA AskedIsNat == ASSUME NEW os \in Seq(Order) PROVE Asked(os) \in Nat
<1>1. \A i \in Standing(os) : AskedBy(os)[i] \in Nat
  BY OrderFields DEF Standing, AskedBy
<1> QED BY <1>1, OrdersAreFew, TotalIsNat, AskedIsATotal

(* create_order: the order that was added stands.                          *)
LEMMA PlacingAsks ==
  ASSUME NEW os \in Seq(Order), NEW o \in Order, o.status = "PLACED"
  PROVE  Asked(Append(os, o)) = Units(o.request) + Asked(os)
<1> DEFINE new == Append(os, o)
           n == Len(os) + 1
<1>1. /\ new \in Seq(Order) /\ Len(os) \in Nat
      /\ DOMAIN os = 1 .. Len(os) /\ DOMAIN new = 1 .. n
      /\ \A i \in DOMAIN os : new[i] = os[i]
      /\ new[n] = o
  BY AppendProperties, LenProperties
<1> HIDE DEF new
<1>2. n \notin DOMAIN os /\ n \in DOMAIN new /\ DOMAIN new = DOMAIN os \cup {n}
  BY <1>1
<1> HIDE DEF n
<1>3. Standing(new) \ {n} = Standing(os) /\ n \in Standing(new)
  BY <1>1, <1>2 DEF Standing
<1>4. /\ \A i \in Standing(os) : AskedBy(new)[i] = AskedBy(os)[i]
      /\ AskedBy(new)[n] = Units(o.request)
  BY <1>1, <1>2 DEF Standing, AskedBy
<1>5. \A i \in Standing(new) : AskedBy(new)[i] \in Int
  <2>1. \A i \in DOMAIN new : Units(new[i].request) \in Nat
    BY <1>1, OrderFields
  <2> QED BY <2>1 DEF Standing, AskedBy
<1>6. Total(AskedBy(new), Standing(new)) = AskedBy(new)[n] + Total(AskedBy(new), Standing(os))
  <2>1. IsFiniteSet(Standing(new))
    BY <1>1, OrdersAreFew
  <2> QED BY <1>3, <1>5, <2>1, TotalFrom
<1>7. Total(AskedBy(new), Standing(os)) = Total(AskedBy(os), Standing(os))
  BY <1>4, OrdersAreFew, TotalSame
<1>8. Asked(new) = Total(AskedBy(new), Standing(new)) /\ Asked(os) = Total(AskedBy(os), Standing(os))
  BY <1>1, AskedIsATotal
<1> QED BY <1>4, <1>6, <1>7, <1>8 DEF new

(* Cancelling: it stands no longer.                                        *)
LEMMA CancellingAsksNoMore ==
  ASSUME NEW os \in Seq(Order), NEW n \in DOMAIN os, os[n].status = "PLACED",
         NEW new \in Seq(Order), DOMAIN new = DOMAIN os,
         \A i \in DOMAIN os : i # n => new[i] = os[i],
         new[n].status = "CANCELLED"
  PROVE  Asked(os) = Units(os[n].request) + Asked(new)
<1>1. Standing(os) \ {n} = Standing(new) /\ n \in Standing(os)
  BY DEF Standing
<1>2. /\ \A i \in Standing(new) : AskedBy(os)[i] = AskedBy(new)[i]
      /\ AskedBy(os)[n] = Units(os[n].request)
  BY DEF Standing, AskedBy
<1>3. \A i \in Standing(os) : AskedBy(os)[i] \in Int
  BY OrderFields DEF Standing, AskedBy
<1>4. Total(AskedBy(os), Standing(os)) = AskedBy(os)[n] + Total(AskedBy(os), Standing(new))
  BY <1>1, <1>3, OrdersAreFew, TotalFrom
<1>5. Total(AskedBy(os), Standing(new)) = Total(AskedBy(new), Standing(new))
  BY <1>2, OrdersAreFew, TotalSame
<1> QED BY <1>2, <1>4, <1>5, AskedIsATotal
-----------------------------------------------------------------------------
(* An order carries what create_order put on it. *)
Discounted(o) ==
  o.offer = None \/ o.offer.kind = "FLAT" \/ o.offer.value <= 100 => o.discount <= o.items

Bounded ==
  /\ on \subseteq Rows \cup Sizes
  /\ edits \in 0 .. MaxEdits /\ alone \in BOOLEAN /\ supply \in Int
Carried ==
  /\ orders \in Seq(Order) /\ Len(orders) <= MaxOrders
  /\ \A i \in DOMAIN orders : Discounted(orders[i])
Working ==
  \A h \in Handlers : /\ desk[h].order \in 0 .. Len(orders)
                      /\ desk[h].task \in {"PRICED", "COUNTED"} => desk[h].product # None
Looking ==
  \A h \in Handlers :
    /\ desk[h].task \in {"PRICED", "COUNTED", "CANCELLING"} => desk[h].stock = stock
    /\ desk[h].task = "CANCELLING" => orders[desk[h].order].status = "PLACED"
Balanced == stock # None => stock + Asked(orders) >= supply

Books == Bounded /\ Carried /\ Working /\ (alone => Looking /\ Balanced)

LEMMA NewOrderIsAnOrder ==
  ASSUME NEW d \in Desk, d.product # None
  PROVE  /\ NewOrder(d) \in Order /\ Discounted(NewOrder(d))
         /\ NewOrder(d).status = "PLACED" /\ NewOrder(d).request = d.request
<1> DEFINE r == d.request
           code == IF d.coupon = None THEN 0 ELSE d.coupon.id
           offer == IF d.coupon = None THEN None ELSE d.coupon.offer
           delivery == lookup_delivery_charge(r.zone)
           discount == IF d.coupon = None THEN 0 ELSE calculate_discount(d.coupon.offer, Items(d))
<1>1. /\ r \in Requests /\ r.extras \in SUBSET Rows /\ r.zone \in Rows \cup {None}
      /\ d.product \in Product /\ d.coupon \in Coupon \cup {None}
  BY ShopAssumption DEF Desk, Request
<1>2. Items(d) \in Nat
  BY PriceIsNat
<1>3. CostOf(r.extras) \in Nat
  BY <1>1, CostIsNat
<1>5. code \in Nat /\ offer \in Offers \cup {None}
  BY <1>1 DEF Coupon
<1>6. delivery \in Nat
  BY <1>1, PricesAssumption DEF lookup_delivery_charge
<1>7. discount \in Nat /\ (offer = None \/ offer.kind = "FLAT" \/ offer.value <= 100
                             => discount <= Items(d))
  <2>1. CASE d.coupon = None
    BY <1>2, <2>1
  <2>2. CASE d.coupon # None
    <3>1. offer = d.coupon.offer /\ offer \in Offer /\ offer # None
      <4>1. d.coupon.offer \in Offers /\ d.coupon.offer \in Offer /\ d.coupon.offer # None
        BY <1>1, <2>2, ShopAssumption DEF Coupon
      <4>2. offer = d.coupon.offer
        BY <2>2
      <4> QED BY <4>1, <4>2
    <3> QED BY <1>2, <2>2, <3>1, DiscountIsAPart
  <2> QED BY <2>1, <2>2
<1>8. d.product.tagged \in BOOLEAN
  BY <1>1 DEF Product
<1>9. NewOrder(d) = [status |-> "PLACED", request |-> r, code |-> code,
                     offer |-> offer, items |-> Items(d), extras |-> CostOf(r.extras),
                     delivery |-> delivery, discount |-> discount, tagged |-> d.product.tagged]
  BY DEF NewOrder
<1> HIDE DEF r, code, offer, delivery, discount
<1>10. NewOrder(d) \in Order
  BY <1>1, <1>2, <1>3, <1>5, <1>6, <1>7, <1>8, <1>9 DEF Order
<1>11. Discounted(NewOrder(d))
  BY <1>7, <1>9 DEF Discounted
<1> QED BY <1>9, <1>10, <1>11 DEF r

SInv == IInv /\ TakingTurns /\ Books

(* What a handler has when it has read something.                          *)
FairCopy(h, d) ==
  /\ desk' = [desk EXCEPT ![h] = d]
  /\ d.order \in 0 .. Len(orders)
  /\ d.task \in {"PRICED", "COUNTED"} => d.product # None
  /\ alone => /\ d.task \in {"PRICED", "COUNTED", "CANCELLING"} => d.stock = stock
              /\ d.task = "CANCELLING" => orders[d.order].status = "PLACED"

LEMMA ReadingKeepsBooks ==
  ASSUME SInv, NEW h \in Handlers, Reads(h)
  PROVE  Books'
<1>1. /\ desk \in [Handlers -> Desk] /\ desk[h] \in Desk /\ Rest.order = 0 /\ Rest.task = "REST"
      /\ Bounded /\ Carried /\ Working /\ (alone => Looking /\ Balanced)
  BY DEF SInv, IInv, Typed, Books, Rest
<1>2. UNCHANGED <<product, option, on, stock, coupon, orders, edits, alone, made, supply>>
  BY DEF Reads, PriceItems, _apply_coupon, LookAtOrder, ReadCode, ReadOption, ReadProduct,
         catalogue, history
<1>3. Len(orders) \in Nat /\ DOMAIN orders = 1 .. Len(orders)
  BY <1>1, LenProperties DEF Carried
<1>4. PICK d : FairCopy(h, d)
  <2>1. ASSUME NEW r \in Requests, NEW blocked \in BOOLEAN, PriceItems(h, r, blocked)
        PROVE  \E d : FairCopy(h, d)
    <3> DEFINE d == [Rest EXCEPT !.task = "PRICED", !.request = r, !.product = product,
                                 !.option = option, !.stock = stock]
    <3>1. d.order = 0 /\ d.product = product /\ d.stock = stock /\ d.task = "PRICED"
      BY DEF Rest
    <3>2. desk' = [desk EXCEPT ![h] = d] /\ product # None
      BY <2>1 DEF PriceItems
    <3> HIDE DEF d
    <3>3. FairCopy(h, d)
      BY <1>3, <3>1, <3>2 DEF FairCopy
    <3> QED BY <3>3
  <2>2. ASSUME NEW d, desk' = [desk EXCEPT ![h] = d], desk[h].task = "PRICED",
               d.task = "COUNTED", d.order = desk[h].order, d.product = desk[h].product,
               d.stock = desk[h].stock
        PROVE  FairCopy(h, d)
    BY <1>1, <2>2 DEF FairCopy, Working, Looking
  <2>3. CASE _apply_coupon(h)
    <3>1. CASE desk[h].request.code
      <4> DEFINE d == [desk[h] EXCEPT !.task = "COUNTED", !.coupon = coupon]
      <4>1. /\ d.order = desk[h].order /\ d.product = desk[h].product /\ d.stock = desk[h].stock
            /\ d.task = "COUNTED" /\ desk[h].task = "PRICED"
        BY <1>1, <2>3 DEF Desk, _apply_coupon, At
      <4>2. desk' = [desk EXCEPT ![h] = d]
        BY <2>3, <3>1 DEF _apply_coupon
      <4> HIDE DEF d
      <4> QED BY <2>2, <4>1, <4>2
    <3>2. CASE ~desk[h].request.code
      <4> DEFINE d == [desk[h] EXCEPT !.task = "COUNTED"]
      <4>1. /\ d.order = desk[h].order /\ d.product = desk[h].product /\ d.stock = desk[h].stock
            /\ d.task = "COUNTED" /\ desk[h].task = "PRICED"
        BY <1>1, <2>3 DEF Desk, _apply_coupon, At
      <4>2. desk' = [desk EXCEPT ![h] = d]
        BY <2>3, <3>2 DEF _apply_coupon
      <4> HIDE DEF d
      <4> QED BY <2>2, <4>1, <4>2
    <3> QED BY <3>1, <3>2
  <2>4. ASSUME NEW i \in DOMAIN orders, LookAtOrder(h, i)
        PROVE  \E d : FairCopy(h, d)
    <3> DEFINE d == [Rest EXCEPT !.task = "CANCELLING", !.order = i, !.stock = stock]
    <3>1. d.order = i /\ d.stock = stock /\ d.task = "CANCELLING"
      BY DEF Rest
    <3>2. desk' = [desk EXCEPT ![h] = d] /\ orders[i].status = "PLACED"
      BY <2>4 DEF LookAtOrder
    <3> HIDE DEF d
    <3>3. FairCopy(h, d)
      BY <1>3, <3>1, <3>2 DEF FairCopy
    <3> QED BY <3>3
  <2>5. ASSUME NEW d, desk' = [desk EXCEPT ![h] = d], d.order = 0,
               d.task \in {"CODE", "OPTION", "PRODUCT"}
        PROVE  FairCopy(h, d)
    BY <1>3, <2>5 DEF FairCopy
  <2>6. CASE ReadCode(h)
    <3> DEFINE d == [Rest EXCEPT !.task = "CODE", !.coupon = coupon]
    <3>1. d.order = 0 /\ d.task = "CODE"
      BY DEF Rest
    <3>2. desk' = [desk EXCEPT ![h] = d]
      BY <2>6 DEF ReadCode
    <3> HIDE DEF d
    <3> QED BY <2>5, <3>1, <3>2
  <2>7. CASE ReadOption(h)
    <3> DEFINE d == [Rest EXCEPT !.task = "OPTION", !.option = option]
    <3>1. d.order = 0 /\ d.task = "OPTION"
      BY DEF Rest
    <3>2. desk' = [desk EXCEPT ![h] = d]
      BY <2>7 DEF ReadOption
    <3> HIDE DEF d
    <3> QED BY <2>5, <3>1, <3>2
  <2>8. CASE ReadProduct(h)
    <3> DEFINE d == [Rest EXCEPT !.task = "PRODUCT", !.product = product]
    <3>1. d.order = 0 /\ d.task = "PRODUCT"
      BY DEF Rest
    <3>2. desk' = [desk EXCEPT ![h] = d]
      BY <2>8 DEF ReadProduct
    <3> HIDE DEF d
    <3> QED BY <2>5, <3>1, <3>2
  <2> QED BY <2>1, <2>3, <2>4, <2>6, <2>7, <2>8 DEF Reads
<1>5. Working'
  <2>1. ASSUME NEW g \in Handlers
        PROVE  /\ desk'[g].order \in 0 .. Len(orders)
               /\ desk'[g].task \in {"PRICED", "COUNTED"} => desk'[g].product # None
    BY <1>1, <1>4 DEF Working, FairCopy
  <2> QED BY <1>2, <2>1 DEF Working
<1>6. ASSUME alone PROVE Looking'
  <2>1. ASSUME NEW g \in Handlers
        PROVE  /\ desk'[g].task \in {"PRICED", "COUNTED", "CANCELLING"} => desk'[g].stock = stock
               /\ desk'[g].task = "CANCELLING" => orders[desk'[g].order].status = "PLACED"
    BY <1>1, <1>4, <1>6 DEF Looking, FairCopy
  <2> QED BY <1>2, <2>1 DEF Looking
<1>7. Bounded' /\ Carried' /\ (alone => Balanced')
  BY <1>1, <1>2 DEF Bounded, Carried, Balanced
<1> QED BY <1>2, <1>5, <1>6, <1>7 DEF Books

(* What is left of the books to show once a handler has written and left.  *)
LEMMA OwedToBooks ==
  ASSUME SInv, Changes \/ \E h \in Handlers : WritesAndLeaves(h),
         Bounded', Carried', Len(orders) <= Len(orders'), alone => Balanced'
  PROVE  Books'
<1>1. /\ desk \in [Handlers -> Desk] /\ Working /\ Carried
  BY DEF SInv, IInv, Typed, Books
<1>2. alone => alone' = alone /\ \A g \in Handlers : desk'[g] = Rest
  BY NobodyAtWork DEF SInv
<1>3. ASSUME NEW g \in Handlers PROVE desk'[g] = desk[g] \/ desk'[g] = Rest
  <2>1. CASE Changes
    BY <2>1 DEF Changes, create_coupon, delete_coupon, create_product_option,
                delete_product_option, delete_product, create_product, set_addon_stock, ToggleRow
  <2>2. ASSUME NEW h \in Handlers, WritesAndLeaves(h) PROVE desk'[g] = desk[g] \/ desk'[g] = Rest
    <3>1. desk' = [desk EXCEPT ![h] = Rest]
      BY <2>2, WritersLeave
    <3> QED BY <1>1, <3>1
  <2> QED BY <2>1, <2>2
<1>4. Working'
  <2>1. Len(orders) \in Nat /\ Len(orders') \in Nat
    BY <1>1, LenProperties DEF Carried
  <2>2. Rest.order = 0 /\ Rest.task = "REST"
    BY DEF Rest
  <2>3. ASSUME NEW g \in Handlers
        PROVE  /\ desk'[g].order \in 0 .. Len(orders')
               /\ desk'[g].task \in {"PRICED", "COUNTED"} => desk'[g].product # None
    BY <1>1, <1>3, <2>1, <2>2 DEF Working
  <2> QED BY <2>3 DEF Working
<1>5. alone' = alone
  BY NobodyChangesTurns
<1>6. alone => Looking'
  BY <1>2, RestIsADesk DEF Looking
<1> QED BY <1>4, <1>5, <1>6 DEF Books

LEMMA PlacingKeepsBooks ==
  ASSUME SInv, NEW h \in Handlers, Place(h)
  PROVE  Books'
<1> DEFINE d == desk[h]
           o == NewOrder(d)
<1>1. /\ d \in Desk /\ d.task = "COUNTED" /\ d.product # None /\ stock \in Stocks
      /\ Bounded /\ Carried /\ (alone => Balanced /\ d.stock = stock)
      /\ orders \in Seq(Order)
  BY DEF Place, At, SInv, IInv, Typed, Books, Working, Looking, Carried
<1>2. /\ orders' = Append(orders, o) /\ Len(orders) < MaxOrders
      /\ stock' = (IF Left(d) = d.stock THEN stock ELSE Left(d))
      /\ UNCHANGED <<on, edits, alone, supply>>
  BY DEF Place, catalogue, history
<1>3. /\ o \in Order /\ Discounted(o) /\ o.status = "PLACED" /\ o.request = d.request
  BY <1>1, NewOrderIsAnOrder
<1>5. d.stock = None => Left(d) = None
  BY <1>1, LeftIsAStock
<1>6. d.stock # None => /\ d.stock \in Int /\ Left(d) \in Int
                        /\ Left(d) + Units(d.request) >= d.stock
  BY <1>1, LeftIsAStock
<1> HIDE DEF d, o
<1>7. /\ orders' \in Seq(Order) /\ Len(orders') = Len(orders) + 1
      /\ Len(orders) \in Nat /\ DOMAIN orders = 1 .. Len(orders)
      /\ DOMAIN orders' = 1 .. Len(orders) + 1
      /\ \A i \in 1 .. Len(orders) : orders'[i] = orders[i]
      /\ orders'[Len(orders) + 1] = o
  BY <1>1, <1>2, <1>3, AppendProperties, LenProperties
<1>8. Carried'
  BY <1>1, <1>2, <1>3, <1>7, ShopAssumption DEF Carried
<1>9. Bounded'
  BY <1>1, <1>2 DEF Bounded
<1>10. ASSUME alone, stock' # None PROVE stock' + Asked(orders') >= supply'
  <2>1. d.stock = stock /\ Balanced
    BY <1>1, <1>10
  <2>2. stock # None
    BY <1>2, <1>5, <1>10, <2>1
  <2>3. stock \in Int /\ Left(d) \in Int /\ stock' = Left(d) /\ Left(d) + Units(d.request) >= stock
    BY <1>2, <1>6, <2>1, <2>2
  <2>4. Asked(orders') = Units(d.request) + Asked(orders)
    BY <1>1, <1>2, <1>3, PlacingAsks
  <2>5. Asked(orders) \in Nat /\ Units(d.request) \in Nat /\ supply \in Int
    <3>1. d.request \in Requests
      BY <1>1 DEF Desk
    <3> QED BY <1>1, <3>1, AskedIsNat, UnitsAreNat DEF Bounded
  <2>6. stock + Asked(orders) >= supply
    BY <2>1, <2>2 DEF Balanced
  <2>7. supply' = supply
    BY <1>2
  <2> QED BY <2>3, <2>4, <2>5, <2>6, <2>7
<1>11. alone => Balanced'
  BY <1>10 DEF Balanced
<1>12. \E g \in Handlers : WritesAndLeaves(g)
  BY DEF WritesAndLeaves
<1> QED BY <1>7, <1>8, <1>9, <1>11, <1>12, OwedToBooks

LEMMA CancellingKeepsBooks ==
  ASSUME SInv, NEW h \in Handlers, _restore_addon_stock(h)
  PROVE  Books'
<1> DEFINE k == desk[h].order
           n == Units(orders[k].request)
           o == [orders[k] EXCEPT !.status = "CANCELLED"]
<1>1. /\ k \in DOMAIN orders /\ stock \in Stocks /\ desk[h].stock \in Stocks
      /\ Bounded /\ Carried /\ orders \in Seq(Order)
      /\ alone => Balanced /\ desk[h].stock = stock /\ orders[k].status = "PLACED"
  BY DEF _restore_addon_stock, At, SInv, IInv, Typed, Counts, Books, Looking, Carried, Desk
<1>2. /\ orders' = [orders EXCEPT ![k] = o]
      /\ stock' = (IF desk[h].stock = None \/ n = 0 THEN stock ELSE desk[h].stock + n)
      /\ UNCHANGED <<on, edits, alone, supply>>
  BY DEF _restore_addon_stock, catalogue, history
<1>3. orders[k] \in Order /\ n \in Nat /\ Discounted(orders[k])
  BY <1>1, OrderFields DEF Carried
<1>4. /\ o \in Order /\ o.status = "CANCELLED" /\ Discounted(o)
  BY <1>3 DEF Order, Discounted
<1> HIDE DEF k, n, o
<1>5. /\ orders' \in Seq(Order) /\ Len(orders') = Len(orders) /\ DOMAIN orders' = DOMAIN orders
      /\ Len(orders) \in Nat
  BY <1>1, <1>2, <1>4, ExceptSeq, LenProperties
<1>6. orders'[k] = o /\ \A i \in DOMAIN orders : i # k => orders'[i] = orders[i]
  BY <1>1, <1>2
<1>7. Carried'
  BY <1>1, <1>4, <1>5, <1>6 DEF Carried
<1>8. Bounded'
  BY <1>1, <1>2 DEF Bounded
<1>9. ASSUME alone, stock' # None PROVE stock' + Asked(orders') >= supply'
  <2>1. desk[h].stock = stock /\ orders[k].status = "PLACED" /\ Balanced
    BY <1>1, <1>9
  <2>2. stock # None
    BY <1>2, <1>9, <2>1
  <2>3. stock \in Int /\ stock' = stock + n
    BY <1>1, <1>2, <1>3, <2>1, <2>2 DEF Stocks
  <2>4. Asked(orders) = n + Asked(orders')
    BY <1>1, <1>4, <1>5, <1>6, <2>1, CancellingAsksNoMore DEF n
  <2>5. Asked(orders) \in Nat /\ Asked(orders') \in Nat /\ supply \in Int
    BY <1>1, <1>5, AskedIsNat DEF Bounded
  <2>6. stock + Asked(orders) >= supply
    BY <2>1, <2>2 DEF Balanced
  <2>7. supply' = supply
    BY <1>2
  <2> QED BY <1>3, <2>3, <2>4, <2>5, <2>6, <2>7
<1>10. alone => Balanced'
  BY <1>9 DEF Balanced
<1>11. \E g \in Handlers : WritesAndLeaves(g)
  BY DEF WritesAndLeaves
<1> QED BY <1>5, <1>7, <1>8, <1>10, <1>11, OwedToBooks

LEMMA SettingKeepsBooks ==
  ASSUME SInv, NEW n \in Shelf, set_addon_stock(n)
  PROVE  Books'
<1>1. Bounded /\ Carried /\ orders \in Seq(Order) /\ Asked(orders) \in Nat
  BY AskedIsNat DEF SInv, Books, Carried
<1>2. /\ stock' = n /\ supply' = (IF n = None THEN 0 ELSE n)
      /\ edits < MaxEdits /\ edits' = edits + 1
      /\ UNCHANGED <<on, orders, alone>>
  BY DEF set_addon_stock, Change, Edit, catalogue
<1>3. n = None \/ n \in Int
  BY ShopAssumption DEF Stocks
<1>4. supply' \in Int /\ edits' \in 0 .. MaxEdits
  BY <1>1, <1>2, <1>3, ShopAssumption DEF Bounded
<1>5. Bounded' /\ Carried' /\ Len(orders) <= Len(orders')
  <2>1. Len(orders) \in Nat
    BY <1>1, LenProperties
  <2> QED BY <1>1, <1>2, <1>4, <2>1 DEF Bounded, Carried
<1>6. Balanced'
  BY <1>1, <1>2, <1>3 DEF Balanced
<1>7. Changes
  BY DEF Changes
<1> QED BY <1>5, <1>6, <1>7, OwedToBooks

LEMMA OthersKeepBooks ==
  ASSUME SInv, UNCHANGED <<stock, orders, supply>>, on' \subseteq Rows \cup Sizes, UNCHANGED alone,
         edits' = edits \/ (edits < MaxEdits /\ edits' = edits + 1),
         Changes \/ \E h \in Handlers : WritesAndLeaves(h)
  PROVE  Books'
<1>1. Bounded /\ Carried /\ orders \in Seq(Order) /\ (alone => Balanced)
  BY DEF SInv, Books, Carried
<1>2. edits' \in 0 .. MaxEdits
  BY <1>1, ShopAssumption DEF Bounded
<1>3. Bounded' /\ Carried' /\ Len(orders) <= Len(orders')
  <2>1. Len(orders) \in Nat
    BY <1>1, LenProperties
  <2> QED BY <1>1, <1>2, <2>1 DEF Bounded, Carried
<1>4. alone => Balanced'
  BY <1>1 DEF Balanced
<1> QED BY <1>3, <1>4, OwedToBooks

LEMMA WritingKeepsBooks ==
  ASSUME SInv, Changes \/ \E h \in Handlers : WritesAndLeaves(h)
  PROVE  Books'
<1>1. on \subseteq Rows \cup Sizes
  BY DEF SInv, Books, Bounded
<1>2. ASSUME NEW r \in Rows \cup Sizes, ToggleRow(r) PROVE Books'
  <2>1. on' \subseteq Rows \cup Sizes
    BY <1>1, <1>2 DEF ToggleRow
  <2>2. UNCHANGED <<stock, orders, supply, alone>> /\ edits < MaxEdits /\ edits' = edits + 1
    BY <1>2 DEF ToggleRow, Change, Edit
  <2> QED BY <2>1, <2>2, OthersKeepBooks
<1>3. CASE \/ \E offer \in Offers, limit \in Limits : create_coupon(offer, limit)
           \/ delete_coupon \/ create_product_option \/ delete_product_option
           \/ delete_product \/ \E b, c \in BOOLEAN : create_product(b, c)
  <2>1. UNCHANGED <<on, stock, orders, supply, alone>> /\ edits < MaxEdits /\ edits' = edits + 1
    BY <1>3 DEF create_coupon, delete_coupon, create_product_option, delete_product_option,
                delete_product, create_product, Change, Edit, catalogue
  <2> QED BY <1>1, <2>1, OthersKeepBooks
<1>4. ASSUME NEW h \in Handlers,
             \/ toggle_coupon(h)
             \/ \E offer \in Offers, limit \in Limits : update_coupon(h, offer, limit)
             \/ \E fields \in SUBSET {"price", "multiplier"}, asked \in Asking :
                  update_product_option(h, fields, asked)
             \/ toggle_availability(h)
             \/ \E b \in BOOLEAN : SetPrice(h, b) \/ SetTags(h, b)
      PROVE  Books'
  <2>1. UNCHANGED <<on, stock, orders, supply, alone>> /\ edits < MaxEdits /\ edits' = edits + 1
    BY <1>4 DEF toggle_coupon, update_coupon, SaveCode, update_product_option,
                toggle_availability, SetPrice, SetTags, SaveProduct, Edit, catalogue
  <2> QED BY <1>1, <2>1, OthersKeepBooks
<1>5. ASSUME NEW h \in Handlers, Refuse(h) PROVE Books'
  <2>1. UNCHANGED <<on, stock, orders, supply, alone, edits>>
    BY <1>5 DEF Refuse, catalogue, history
  <2> QED BY <1>1, <2>1, OthersKeepBooks
<1> QED BY <1>2, <1>3, <1>4, <1>5, PlacingKeepsBooks, CancellingKeepsBooks, SettingKeepsBooks
        DEF Changes, WritesAndLeaves

LEMMA BooksAreOpened == ShopInit => Books
<1> SUFFICES ASSUME ShopInit PROVE Books
  OBVIOUS
<1>1. /\ orders = <<>> /\ stock \in Shelf /\ supply = (IF stock = None THEN 0 ELSE stock)
      /\ on = Rows \cup Sizes /\ edits = 0 /\ alone \in BOOLEAN /\ \A h \in Handlers : desk[h] = Rest
  BY DEF ShopInit
<1>2. stock \in Stocks
  BY <1>1, ShopAssumption
<1>3. orders \in Seq(Order) /\ Len(orders) = 0 /\ DOMAIN orders = {}
  BY <1>1
<1>4. Asked(orders) \in Nat
  BY <1>3, AskedIsNat
<1>5. Bounded
  BY <1>1, <1>2, ShopAssumption DEF Bounded, Stocks
<1>6. Carried
  BY <1>3, ShopAssumption DEF Carried
<1>7. Working
  BY <1>1, <1>3 DEF Working, Rest
<1>8. Looking
  BY <1>1 DEF Looking, Rest
<1>9. Balanced
  BY <1>1, <1>2, <1>4 DEF Balanced, Stocks
<1> QED BY <1>5, <1>6, <1>7, <1>8, <1>9 DEF Books

(* The books are in order: prices, discounts and types whoever races whom, *)
(* the units of the add-on while handlers take turns.                      *)
THEOREM BooksAreKept == ShopSpec => []SInv
<1>1. SInv /\ [ShopNext]_shopVars => Books'
  <2> SUFFICES ASSUME SInv, [ShopNext]_shopVars PROVE Books'
    OBVIOUS
  <2>1. CASE ShopNext
    BY <2>1, NextIsOneOf, ReadingKeepsBooks, WritingKeepsBooks
  <2>2. CASE UNCHANGED shopVars
    <3>1. Books' <=> Books
      BY <2>2 DEF shopVars, Books, Bounded, Carried, Working, Looking, Balanced
    <3> QED BY <3>1 DEF SInv
  <2> QED BY <2>1, <2>2
<1>2. IInv /\ TakingTurns /\ Books <=> SInv
  BY DEF SInv
<1> QED BY <1>1, <1>2, BooksAreOpened, TurnsAreTaken, PTL DEF ShopSpec

(* Every variable keeps its type, whatever integer an admin sets a stock   *)
(* to (admin.py:139-154): every order has its price in whole rupees,       *)
(* however many rows it is summed over, and nothing on it is below nothing *)
(* (order_service.py:165-260).                                             *)
THEOREM ShopTypeCorrect == ShopSpec => []ShopTypeOK
<1>1. SInv => ShopTypeOK
  BY DEF SInv, IInv, Typed, Books, Bounded, Carried, Working, ShopTypeOK, Desk, Tasks
<1> QED BY <1>1, BooksAreKept, PTL

(* While handlers take turns, what is on the shelf and what the orders     *)
(* that stand asked for come to no less than an admin last put there       *)
(* (order_service.py:189 and 610).                                         *)
THEOREM NothingIsLost == ShopSpec => []NoUnitIsLost
<1>1. SInv => NoUnitIsLost
  BY DEF SInv, Books, Balanced, NoUnitIsLost
<1> QED BY <1>1, BooksAreKept, PTL

(* A discount comes off the cakes alone, for every code of up to a hundred *)
(* per cent and every price (order_service.py:222-224, coupons.py).        *)
THEOREM ExtrasArePaidFor == ShopSpec => []CouponsTouchOnlyCakes
<1>1. SInv => CouponsTouchOnlyCakes
  BY DEF SInv, Books, Carried, Discounted, CouponsTouchOnlyCakes
<1> QED BY <1>1, BooksAreKept, PTL
=============================================================================
