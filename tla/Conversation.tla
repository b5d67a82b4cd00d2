---------------------------- MODULE Conversation ----------------------------
(***************************************************************************)
(* Ordering a cake over WhatsApp.                                          *)
(*                                                                         *)
(* What a customer has chosen so far is one record in Redis.  A message is *)
(* handled on a thread of the pool, which reads the record, decides, and   *)
(* writes it back whole, or leaves it; two messages sent in a row are two  *)
(* threads.  What a message says is read by rules and then by a language   *)
(* model, so a step may be met with anything; only the two steps that take *)
(* text as it comes are safe from being read as something else.            *)
(*                                                                         *)
(* A conversation nobody answered for twenty minutes, or whose record ran  *)
(* out, is one that has not begun.                                         *)
(***************************************************************************)
EXTENDS StoreHours

CONSTANTS
  None,
  Products,
  WithOptions, PerKg, \* products with sizes of their own, and sold by weight
  Flavoured,    \* is_customizable
  Categories, CategoryOf, \* the menu's sections, and each product's
  Groups, GroupOf,        \* the groups of sections, and each section's
  Flavours,     \* FlavorRule
  Sponges, SpongeOf, \* the groups they are listed in, and each flavour's
  Zones,        \* DeliveryZone
  Threads,
  Moments       \* bound: the moments the clock shows

VARIABLES
  chat,    \* the customer's record
  thread,  \* what each thread read, and what it has still to do
  now, shop,
  listing, \* whether each product is on sale, off sale or deleted
  flavours, zones \* those that are active

chatVars == <<chat, thread, now, shop, listing, flavours, zones>>
world    == <<now, shop, listing, flavours, zones>>

ASSUME ProductsAssumption ==
  /\ None \notin Products /\ Flavoured \subseteq Products
  /\ WithOptions \subseteq Products /\ PerKg \subseteq Products
  /\ SpongeOf \in [Flavours -> Sponges] /\ None \notin Flavours \cup Zones
ASSUME MenuAssumption ==
  CategoryOf \in [Products -> Categories] /\ GroupOf \in [Categories -> Groups]
ASSUME MomentsAssumption == Moments \subseteq Nat

Steps == {"IDLE", "SELECT_GROUP", "SELECT_CATEGORY", "SELECT_PRODUCT", "SELECT_SIZE",
          "SELECT_FLAVOR_GROUP", "SELECT_FLAVOR", "CAKE_MESSAGE", "DELIVERY_ADDRESS",
          "SELECT_AREA", "SELECT_DATE", "SELECT_TIME", "CONFIRM", "AWAITING_STATUS_ID"}

(* shown is the list of groups, categories or products that was shown, and *)
(* from the group or category it is the list of.  flavor_groups, flavors,  *)
(* zone_options, dates and times are the lists there were when each was    *)
(* asked for, None before; at is the time taken.                           *)
Lists   == (SUBSET Groups) \cup (SUBSET Categories) \cup (SUBSET Products)
FlavorLists == {None} \cup SUBSET Sponges
AreaLists   == {None} \cup SUBSET Zones
Sources == Groups \cup Categories \cup {None}
Chat == [step : Steps, shown : Lists, from : Sources,
         product : Products \cup {None}, size : BOOLEAN,
         flavor_groups : FlavorLists, flavors : SUBSET Flavours,
         flavor : Flavours \cup {None}, address : {"NONE", "PICKUP", "STREET"},
         zone_options : AreaLists, zone : Zones \cup {None},
         dates : SUBSET Nat, day : Nat \cup {None}, times : SUBSET Nat,
         at : Nat \cup {None}]
Asking(step) == [step |-> step, shown |-> {}, from |-> None,
                 product |-> None, size |-> FALSE, flavor_groups |-> None,
                 flavors |-> {}, flavor |-> None, address |-> "NONE",
                 zone_options |-> None, zone |-> None, dates |-> {}, day |-> None,
                 times |-> {}, at |-> None]
NoChat == Asking("IDLE")

Rest == [task |-> "REST", read |-> NoChat]

(* Every variable has its type, and a record is one that a step can read.  *)
ChatTypeOK ==
  /\ chat \in Chat
  /\ thread \in [Threads -> [task : {"REST", "READ", "PLACED"}, read : Chat]]
  /\ now \in Moments /\ shop \in ShopSettings
  /\ listing \in [Products -> {"ON", "OFF", "GONE"}]
  /\ flavours \subseteq Flavours /\ zones \subseteq Zones

ChatInit ==
  /\ chat = NoChat
  /\ thread = [t \in Threads |-> Rest]
  /\ now \in Moments
  /\ shop = [opens |-> 8, closes |-> 22, delivers |-> TRUE, blocked_until |-> -1]
  /\ listing = [p \in Products |-> "ON"]
  /\ flavours = Flavours /\ zones = Zones
-----------------------------------------------------------------------------
(* Handling a message. *)

Read(t) ==
  /\ thread[t] = Rest
  /\ thread' = [thread EXCEPT ![t] = [task |-> "READ", read |-> chat]]
  /\ UNCHANGED <<chat, world>>

Waits(t, steps) == thread[t].task = "READ" /\ thread[t].read.step \in steps
Done(t) == thread' = [thread EXCEPT ![t] = Rest] /\ UNCHANGED world

_set_state(t, c) == chat' = c /\ Done(t)
_clear_state(t)  == _set_state(t, NoChat)

(* What a message may be read as.  Some words, and the text of the two     *)
(* steps that take text as it comes, are read by rules; the model, asked   *)
(* about the rest, may answer anything.                                    *)
TakesText == {"CAKE_MESSAGE", "DELIVERY_ADDRESS"}

_quick_match(step) ==
  {"CANCEL_ORDER", "CONFIRM_ORDER", "SKIP"} \cup
  (CASE step = "IDLE" -> {"START_ORDER", "CHECK_STATUS", "WELCOME", "VIEW_MENU"}
     [] step = "AWAITING_STATUS_ID" -> {"STATUS_ORDER_ID"}
     [] step = "CAKE_MESSAGE"       -> {"SET_MESSAGE"}
     [] step = "DELIVERY_ADDRESS"   -> {"SET_ADDRESS"}
     [] OTHER                       -> {"SELECT_OPTION"})

_groq_parse ==
  {"WELCOME", "CONVERSATIONAL", "START_ORDER", "CHECK_STATUS", "STATUS_ORDER_ID", "VIEW_MENU",
   "SELECT_OPTION", "BY_NAME", "CONFIRM_ORDER", "CANCEL_ORDER", "SKIP", "UNKNOWN"}

parse_message(step) ==
  _quick_match(step) \cup {act \in _groq_parse : step \notin TakesText}

Understood(t, act) == Waits(t, Steps) /\ act \in parse_message(thread[t].read.step)

(* The menu as it is now: what is on sale, the categories and the groups   *)
(* that hold any of it, and the questions that list them.                  *)
_catalogue == {p \in Products : listing[p] = "ON"}
_by_section(k) == {p \in _catalogue : CategoryOf[p] = k}
_categories_for(g) == {k \in Categories : GroupOf[k] = g /\ _by_section(k) # {}}
_live_groups == {g \in Groups : _categories_for(g) # {}}

_group_prompt == [Asking("SELECT_GROUP") EXCEPT !.shown = _live_groups]
_category_prompt(g) ==
  [Asking("SELECT_CATEGORY") EXCEPT !.shown = _categories_for(g), !.from = g]
_product_prompt(c, k) ==
  [c EXCEPT !.step = "SELECT_PRODUCT", !.shown = _by_section(k), !.from = k]

(* A complaint, a question, a look at the menu, an answer that is none of  *)
(* those offered: the record is not written.                               *)
Keep(t) == chat' = chat /\ Done(t)
_answer_without_losing_the_order(t) == Waits(t, Steps) /\ Keep(t)
Converse(t) == Understood(t, "CONVERSATIONAL") /\ Keep(t)
ViewMenu(t) == Understood(t, "VIEW_MENU") /\ Keep(t)
AskAgain(t) == Waits(t, Steps) /\ Keep(t)
Reply(t) == _answer_without_losing_the_order(t) \/ Converse(t) \/ ViewMenu(t) \/ AskAgain(t)

Cancel(t)     == Understood(t, "CANCEL_ORDER") /\ _clear_state(t)
Welcome(t)    == Understood(t, "WELCOME") /\ _set_state(t, NoChat)
AskStatus(t)  == Understood(t, "CHECK_STATUS") /\ _set_state(t, Asking("AWAITING_STATUS_ID"))
TellStatus(t) == Understood(t, "STATUS_ORDER_ID") /\ _set_state(t, NoChat)
StartOrder(t) == Understood(t, "START_ORDER") /\ _set_state(t, _group_prompt)
-----------------------------------------------------------------------------
(* What to bake.                                                           *)

_flavour_groups == {SpongeOf[f] : f \in flavours}

(* Mutant: not asked for a flavour, the cake has the shop's usual one. *)
AskOrClassic(c) ==
  LET d == [c EXCEPT !.flavor_groups = _flavour_groups]
  IN  IF c.product \notin Flavoured \/ flavours = {}
      THEN [d EXCEPT !.step = "CAKE_MESSAGE", !.flavor = "Classic"]
      ELSE [d EXCEPT !.step = "SELECT_FLAVOR_GROUP"]

(* Only of what is made to order, and when there is one to choose. *)
_ask_for_flavor(c) ==
  LET d == [c EXCEPT !.flavor_groups = _flavour_groups]
  IN  IF c.product \notin Flavoured THEN [c EXCEPT !.step = "CAKE_MESSAGE"]
      ELSE IF flavours = {} THEN [d EXCEPT !.step = "CAKE_MESSAGE"]
      ELSE [d EXCEPT !.step = "SELECT_FLAVOR_GROUP"]

(* The products a size is asked of. *)
Sized == WithOptions \cup PerKg

(* Its own sizes if it has any, else the shop's. *)
_ask_for_size(c, p) == [c EXCEPT !.step = "SELECT_SIZE", !.product = p]

(* What was on the menu is forgotten. *)
_choose_product(c, p) ==
  LET d == [c EXCEPT !.shown = {}, !.from = None]
  IN  IF p \in Sized THEN _ask_for_size(d, p)
      ELSE _ask_for_flavor([d EXCEPT !.product = p, !.size = FALSE])

(* A group that holds one category asks nothing. *)
ChooseGroup(t) ==
  /\ Waits(t, {"SELECT_GROUP"})
  /\ \E g \in thread[t].read.shown :
       \/ /\ Cardinality(_categories_for(g)) # 1
          /\ _set_state(t, _category_prompt(g))
       \/ \E k \in _categories_for(g) :
            _categories_for(g) = {k} /\ _set_state(t, _product_prompt(thread[t].read, k))

ChooseCategory(t) ==
  /\ Waits(t, {"SELECT_CATEGORY"})
  /\ \E k \in thread[t].read.shown : _set_state(t, _product_prompt(thread[t].read, k))

(* By name, at any of the three.                                           *)
_match_product(t) ==
  /\ Waits(t, {"SELECT_GROUP", "SELECT_CATEGORY", "SELECT_PRODUCT"})
  /\ \E p \in _catalogue : _set_state(t, _choose_product(thread[t].read, p))

(* From the category as it is now; from the list that was shown, if there  *)
(* is nothing left in it.                                                  *)
ChooseProduct(t) ==
  LET c    == thread[t].read
      live == _by_section(c.from)
  IN  /\ Waits(t, {"SELECT_PRODUCT"})
      /\ \E p \in IF live = {} THEN c.shown ELSE live : _set_state(t, _choose_product(c, p))

(* To the categories, if there is a choice of them. *)
Back(t) ==
  LET g == GroupOf[thread[t].read.from]
  IN  \/ Waits(t, {"SELECT_CATEGORY"}) /\ _set_state(t, _group_prompt)
      \/ /\ Waits(t, {"SELECT_PRODUCT"})
         /\ \/ Cardinality(_categories_for(g)) > 1 /\ _set_state(t, _category_prompt(g))
            \/ Cardinality(_categories_for(g)) <= 1 /\ _set_state(t, _group_prompt)

(* The group's flavours as they are now, and the groups as they are now:   *)
(* there may be none left.                                                 *)
_flavour_list_prompt(c, g) ==
  [c EXCEPT !.step = "SELECT_FLAVOR", !.flavors = {f \in flavours : SpongeOf[f] = g}]
_flavour_prompt_again(c) ==
  [c EXCEPT !.step = "SELECT_FLAVOR_GROUP", !.flavor_groups = _flavour_groups, !.flavors = {}]

ChooseSize(t) ==
  /\ Waits(t, {"SELECT_SIZE"})
  /\ _set_state(t, _ask_for_flavor([thread[t].read EXCEPT !.size = TRUE]))

ChooseFlavorGroup(t) ==
  LET c == thread[t].read
  IN  /\ Waits(t, {"SELECT_FLAVOR_GROUP"})
      /\ \E g \in c.flavor_groups : _set_state(t, _flavour_list_prompt(c, g))

(* Back to the groups, or a flavour nobody could find. *)
OtherFlavorGroup(t) ==
  /\ Waits(t, {"SELECT_FLAVOR_GROUP", "SELECT_FLAVOR"})
  /\ _set_state(t, _flavour_prompt_again(thread[t].read))

(* One of those shown, or any there is by its name. *)
ChooseFlavor(t) ==
  LET c == thread[t].read
  IN  /\ Waits(t, {"SELECT_FLAVOR_GROUP", "SELECT_FLAVOR"})
      /\ \E f \in c.flavors \cup flavours :
           _set_state(t, [c EXCEPT !.step = "CAKE_MESSAGE", !.flavor = f, !.flavors = {}])
-----------------------------------------------------------------------------
(* Where and when. *)

_go_to_dates(c) ==
  IF delivery_date_options(now, shop) = {} THEN NoChat
  ELSE [c EXCEPT !.step = "SELECT_DATE", !.dates = delivery_date_options(now, shop)]

ToCollect(c) == _go_to_dates([c EXCEPT !.address = "PICKUP"])

GiveMessage(t) ==
  /\ Waits(t, {"CAKE_MESSAGE"})
  /\ _set_state(t, IF shop.delivers
                   THEN [thread[t].read EXCEPT !.step = "DELIVERY_ADDRESS"]
                   ELSE ToCollect(thread[t].read))

(* Where the areas there are are asked for. *)
ToStreet(c) ==
  LET d == [c EXCEPT !.address = "STREET", !.zone_options = zones]
  IN  IF zones = {} THEN _go_to_dates(d) ELSE [d EXCEPT !.step = "SELECT_AREA"]

(* Mutant: delivery was switched off since it was asked, and no area is. *)
KeepTheStreet(t, address) ==
  LET c == thread[t].read
  IN  /\ Waits(t, {"DELIVERY_ADDRESS"})
      /\ _set_state(t, IF address = "PICKUP" THEN ToCollect(c)
                       ELSE IF shop.delivers THEN ToStreet(c)
                       ELSE _go_to_dates([c EXCEPT !.address = address]))

GiveAddress(t, address) ==
  LET c == thread[t].read
  IN  /\ Waits(t, {"DELIVERY_ADDRESS"})
      /\ _set_state(t, IF address = "PICKUP" \/ ~shop.delivers THEN ToCollect(c) ELSE ToStreet(c))

ChooseArea(t) ==
  LET c == thread[t].read
  IN  /\ Waits(t, {"SELECT_AREA"})
      /\ \E z \in c.zone_options : _set_state(t, _go_to_dates([c EXCEPT !.zone = z]))

(* Mutant: a day that has no time left is taken. *)
ChooseAnyDate(t, day) ==
  LET c == thread[t].read
  IN  /\ Waits(t, {"SELECT_DATE"}) /\ day \in c.dates
      /\ _set_state(t, [c EXCEPT !.step = "SELECT_TIME", !.day = day,
                                 !.times = slots_for_date(day, now, shop)])

ChooseDate(t, day) ==
  LET c     == thread[t].read
      slots == slots_for_date(day, now, shop)
  IN  /\ Waits(t, {"SELECT_DATE"}) /\ day \in c.dates
      /\ _set_state(t, IF slots = {} THEN _go_to_dates(c)
                       ELSE [c EXCEPT !.step = "SELECT_TIME", !.day = day, !.times = slots])

(* Whether there is a price to show: a flavour that was switched off since *)
(* it was chosen is an error, and the record stays as it is.               *)
_quote(c) == listing[c.product] # "GONE"
calculate_item_price(c) == c.flavor \in flavours \cup {None}

ChooseTime(t, at) ==
  /\ Waits(t, {"SELECT_TIME"}) /\ at \in thread[t].read.times
  /\ _quote(thread[t].read) /\ calculate_item_price(thread[t].read)
  /\ _set_state(t, [thread[t].read EXCEPT !.step = "CONFIRM", !.at = at])

(* The product was deleted: there is nothing left to quote. *)
ItemGone(t) ==
  /\ Waits(t, {"SELECT_TIME"})
  /\ ~_quote(thread[t].read)
  /\ _clear_state(t)
-----------------------------------------------------------------------------
(* The order: create_order commits it, and then the record is cleared.     *)

create_order_accepts(c) == /\ listing[c.product] = "ON" /\ calculate_item_price(c)
                           /\ c.zone \in zones \cup {None}
                           /\ check_delivery_lead_time(c.at, now, shop)

Confirm(t) ==
  /\ Waits(t, {"CONFIRM"}) /\ Understood(t, "CONFIRM_ORDER")
  /\ create_order_accepts(thread[t].read)
  /\ thread' = [thread EXCEPT ![t] = [task |-> "PLACED", read |-> NoChat]]
  /\ UNCHANGED <<chat, world>>

ClearAfterOrder(t) == thread[t].task = "PLACED" /\ _clear_state(t)

Refused(t) ==
  /\ Waits(t, {"CONFIRM"}) /\ Understood(t, "CONFIRM_ORDER")
  /\ ~create_order_accepts(thread[t].read)
  /\ _clear_state(t)

(* A restart loses what a thread was doing. *)
Crash(t) == thread[t] # Rest /\ Keep(t)
-----------------------------------------------------------------------------
(* Meanwhile: time, the shop's switches, and silence.                      *)

Tick == /\ \E m \in Moments : m > now /\ now' = m
        /\ UNCHANGED <<chat, thread, shop, listing, flavours, zones>>

SwitchDelivery == /\ shop' = [shop EXCEPT !.delivers = ~@]
                  /\ UNCHANGED <<chat, thread, now, listing, flavours, zones>>

BlockToday == /\ shop.blocked_until < Day(now)
              /\ shop' = [shop EXCEPT !.blocked_until = Day(now)]
              /\ UNCHANGED <<chat, thread, now, listing, flavours, zones>>

toggle_availability(p) ==
  /\ listing[p] # "GONE"
  /\ listing' = [listing EXCEPT ![p] = IF @ = "ON" THEN "OFF" ELSE "ON"]
  /\ UNCHANGED <<chat, thread, now, shop, flavours, zones>>

delete_product(p) ==
  /\ listing' = [listing EXCEPT ![p] = "GONE"]
  /\ UNCHANGED <<chat, thread, now, shop, flavours, zones>>

Switched(set, x) == IF x \in set THEN set \ {x} ELSE set \cup {x}

SwitchFlavour(f) == /\ flavours' = Switched(flavours, f)
                    /\ UNCHANGED <<chat, thread, now, shop, listing, zones>>

SwitchZone(z) == /\ zones' = Switched(zones, z)
                 /\ UNCHANGED <<chat, thread, now, shop, listing, flavours>>

Lapse == /\ chat # NoChat
         /\ chat' = NoChat
         /\ UNCHANGED <<thread, world>>

Answer(t) ==
  \/ Reply(t) \/ Cancel(t) \/ Welcome(t) \/ AskStatus(t) \/ TellStatus(t) \/ StartOrder(t)
  \/ ChooseGroup(t) \/ ChooseCategory(t) \/ ChooseProduct(t) \/ _match_product(t) \/ Back(t)
  \/ ChooseSize(t) \/ ChooseFlavorGroup(t) \/ OtherFlavorGroup(t) \/ ChooseFlavor(t)
  \/ GiveMessage(t)
  \/ \E address \in {"PICKUP", "STREET"} : GiveAddress(t, address)
  \/ ChooseArea(t)
  \/ \E day \in thread[t].read.dates : ChooseDate(t, day)
  \/ \E at \in thread[t].read.times : ChooseTime(t, at)
  \/ ItemGone(t) \/ Confirm(t) \/ Refused(t) \/ ClearAfterOrder(t)

ChatNext == \/ \E t \in Threads : Read(t) \/ Answer(t) \/ Crash(t)
            \/ Tick \/ SwitchDelivery \/ BlockToday \/ Lapse
            \/ \E p \in Products : toggle_availability(p) \/ delete_product(p)
            \/ (\E f \in Flavours : SwitchFlavour(f)) \/ \E z \in Zones : SwitchZone(z)

ChatSpec == ChatInit /\ [][ChatNext]_chatVars
-----------------------------------------------------------------------------
Placing(t) == thread[t].task = "READ" /\ thread'[t].task = "PLACED"

Whole(c) ==
  /\ c.product \in Products
  /\ c.size = (c.product \in Sized)
  /\ IF c.product \in Flavoured THEN c.flavor # None \/ c.flavor_groups = {} ELSE c.flavor = None
  /\ \/ c.address = "PICKUP" /\ c.zone = None
     \/ c.address = "STREET" /\ (c.zone # None \/ c.zone_options = {})
  /\ c.day \in c.dates /\ c.at \in c.times /\ Day(c.at) = c.day

(* However messages cross, however often an order is begun again, gone     *)
(* back on or left, and whatever is switched meanwhile, what is ordered is *)
(* whole: the size its product has; a flavour if it is made to order, and  *)
(* an area if it is to be delivered, unless there was none when it was     *)
(* asked for, and otherwise neither; and a time of the day that was taken, *)
(* from the lists that were shown.                                         *)
PlacedIsWhole == [][\A t \in Threads : Placing(t) => Whole(thread[t].read)]_chatVars

(* Who is asked for an area, a day or a time has one to choose, though time*)
(* goes by and areas are switched between the questions.  It is not so of  *)
(* categories, products and flavours.                                      *)
SomewhereSometime ==
  /\ chat.step = "SELECT_AREA" => chat.zone_options # {}
  /\ chat.step = "SELECT_DATE" => chat.dates # {}
  /\ chat.step = "SELECT_TIME" => chat.times # {}

(* Violated.  order_service.py:116-117: "The bot never reaches this point  *)
(* with a delivery while the switch is off".                               *)
DeliversWhileOn ==
  [][\A t \in Threads : Placing(t) /\ thread[t].read.address = "STREET"
                          => shop.delivers]_chatVars
=============================================================================
