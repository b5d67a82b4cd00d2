------------------------- MODULE ConversationProofs -------------------------
(***************************************************************************)
(* Proofs about Conversation, for any products, hours and threads.         *)
(*                                                                         *)
(* Sound is the strengthening: what a record holds at each step, whichever *)
(* copy of it a thread has.  A thread writes back a record made from the   *)
(* copy it read, so it is enough that every way of making one keeps it     *)
(* sound.                                                                  *)
(***************************************************************************)
EXTENDS Conversation, TLAPS

Asked    == {"IDLE", "SELECT_GROUP", "SELECT_CATEGORY", "AWAITING_STATUS_ID"}
Choosing == {"IDLE", "SELECT_GROUP", "SELECT_CATEGORY", "SELECT_PRODUCT", "AWAITING_STATUS_ID"}
Dating   == {"SELECT_DATE", "SELECT_TIME", "CONFIRM"}
Placed   == {"SELECT_TIME", "CONFIRM"}

(* What has been chosen: the size, then the flavour; where; when.          *)
SizeIsSet(c)   == c.product \in Products /\ c.size = (c.product \in Sized)
FlavorIsSet(c) == IF c.product \in Flavoured THEN c.flavor # None \/ c.flavor_groups = {}
                  ELSE c.flavor = None
WhereIsSet(c)  == \/ c.address = "PICKUP" /\ c.zone = None
                  \/ c.address = "STREET" /\ (c.zone # None \/ c.zone_options = {})
WhenIsOffered(c) == /\ c.day \in c.dates
                    /\ \A at \in c.times : Day(at) = c.day

(* Neither a flavour nor an area yet.                                      *)
Plain(c) == c.flavor = None /\ c.zone = None

Sound(c) ==
  /\ c \in Chat
  /\ c.step = "SELECT_GROUP" => c.shown \subseteq Groups
  /\ c.step = "SELECT_CATEGORY" => c.shown \subseteq Categories
  /\ c.step = "SELECT_PRODUCT" => c.shown \subseteq Products /\ c.from \in Categories
  /\ c.step \notin Dating => c.zone = None
  /\ c.step \in Choosing \cup {"SELECT_SIZE"} => c.flavor = None
  /\ c.step = "SELECT_SIZE" => c.product \in Sized
  /\ c.step \notin Choosing \cup {"SELECT_SIZE"} => SizeIsSet(c)
  /\ c.step \in {"SELECT_FLAVOR_GROUP", "SELECT_FLAVOR"} => c.product \in Flavoured
  /\ c.step \in TakesText \cup {"SELECT_AREA"} \cup Dating => FlavorIsSet(c)
  /\ c.step = "SELECT_AREA" => c.zone_options \subseteq Zones /\ c.zone_options # {}
  /\ c.step = "SELECT_AREA" => c.address = "STREET"
  /\ c.step \in Dating => WhereIsSet(c)
  /\ c.step = "SELECT_DATE" => c.dates # {}
  /\ c.step \in Placed => WhenIsOffered(c)
  /\ c.step = "SELECT_TIME" => c.times # {}
  /\ c.step = "CONFIRM" => c.at \in c.times

IInv == ChatTypeOK /\ Sound(chat) /\ \A t \in Threads : Sound(thread[t].read)
-----------------------------------------------------------------------------
(* Any list of one of the three is one that can be shown.                  *)
LEMMA ListsAreLists ==
  /\ {} \in Lists /\ None \in Sources /\ None \in FlavorLists /\ None \in AreaLists
  /\ \A s : s \subseteq Groups \/ s \subseteq Categories \/ s \subseteq Products => s \in Lists
  /\ Groups \subseteq Sources /\ Categories \subseteq Sources
  /\ \A s : (s \subseteq Sponges => s \in FlavorLists) /\ (s \subseteq Zones => s \in AreaLists)
BY DEF Lists, Sources, FlavorLists, AreaLists

LEMMA NothingIsSound == \A step \in Asked : Sound(Asking(step))
BY ListsAreLists DEF Asked, Asking, Choosing, Sound, Chat, Steps, TakesText, Dating, Placed

(* The questions about the menu, whatever is on sale.                      *)
LEMMA MenuIsSound ==
  /\ Sound(_group_prompt)
  /\ \A g \in Groups : Sound(_category_prompt(g))
  /\ \A c \in Chat, k \in Categories : Plain(c) => Sound(_product_prompt(c, k))
<1>1. _live_groups \subseteq Groups /\ \A g : _categories_for(g) \subseteq Categories
  BY DEF _live_groups, _categories_for
<1>2. \A k : _by_section(k) \subseteq Products
  BY DEF _by_section, _catalogue
<1>3. Sound(_group_prompt)
  BY <1>1, ListsAreLists DEF _group_prompt, Asking, Choosing, Sound, Chat, Steps, TakesText, Dating, Placed
<1>4. ASSUME NEW g \in Groups
      PROVE  Sound(_category_prompt(g))
  <2> DEFINE d == _category_prompt(g)
  <2>1. /\ d.step = "SELECT_CATEGORY" /\ d.shown = _categories_for(g) /\ Plain(d)
        /\ d.from = g
    BY DEF _category_prompt, Asking, Plain
  <2>2. d \in Chat
    <3>1. Asking("SELECT_CATEGORY") \in Chat
      BY NothingIsSound DEF Asked, Sound
    <3> DEFINE s == _categories_for(g)
               e == Asking("SELECT_CATEGORY")
    <3>2. /\ s \in Lists
          /\ g \in Sources
      BY <1>1, ListsAreLists
    <3>3. d = [e EXCEPT !.shown = s, !.from = g]
      BY DEF _category_prompt
    <3> HIDE DEF d, s, e
    <3>4. e \in Chat
      BY <3>1 DEF e
    <3> QED BY <3>2, <3>3, <3>4 DEF Chat
  <2> HIDE DEF d
  <2>3. Sound(d)
    BY <1>1, <2>1, <2>2 DEF Sound, Plain, Choosing, TakesText, Dating, Placed
  <2> QED BY <2>3 DEF d
<1>5. ASSUME NEW c \in Chat, NEW k \in Categories, Plain(c)
      PROVE  Sound(_product_prompt(c, k))
  <2> DEFINE d == _product_prompt(c, k)
  <2>1. d \in Chat /\ Plain(d)
    <3> DEFINE s == _by_section(k)
    <3>1. /\ s \in Lists
          /\ k \in Sources
      BY <1>2, ListsAreLists
    <3>2. d = [c EXCEPT !.step = "SELECT_PRODUCT", !.shown = s, !.from = k]
      BY DEF _product_prompt
    <3> HIDE DEF d, s
    <3>3. d \in Chat
      BY <3>1, <3>2 DEF Chat, Steps
    <3>4. Plain(d)
      BY <3>2, <1>5 DEF Chat, Plain
    <3> QED BY <3>3, <3>4
  <2>2. d.step = "SELECT_PRODUCT" /\ d.shown = _by_section(k) /\ d.from = k
    BY DEF _product_prompt, Chat
  <2> HIDE DEF d
  <2>3. Sound(d)
    BY <1>2, <2>1, <2>2 DEF Sound, Plain, Choosing, TakesText, Dating, Placed
  <2> QED BY <2>3 DEF d
<1> QED BY <1>3, <1>4, <1>5

LEMMA NoChatIsSound == Sound(NoChat)
BY NothingIsSound DEF NoChat, Asked

(* slots_for_date: a slot is a moment of the day it was asked for.         *)
LEMMA SlotsAreOfTheDay ==
  ASSUME NEW day \in Nat
  PROVE  /\ slots_for_date(day, now, shop) \subseteq Nat
         /\ \A at \in slots_for_date(day, now, shop) : Day(at) = day
<1>1. \A h \in SlotHours : At(day, h) \in Nat /\ Day(At(day, h)) = day
  BY HoursAssumption DEF At, Day
<1> QED BY <1>1 DEF slots_for_date

(* delivery_date_options: a day offered is a day from today on.            *)
LEMMA DatesAreDays ==
  ASSUME now \in Nat
  PROVE  delivery_date_options(now, shop) \subseteq Nat
BY HoursAssumption DEF delivery_date_options, Day

(* Another step, and nothing else.                                         *)
LEMMA StepsOfChat ==
  ASSUME NEW c \in Chat, NEW step \in Steps
  PROVE  [c EXCEPT !.step = step] \in Chat
BY DEF Chat

(* _ask_for_flavor and _choose_product keep a record sound.                *)
LEMMA AskForFlavor ==
  ASSUME flavours \subseteq Flavours, NEW c \in Chat, SizeIsSet(c), Plain(c)
  PROVE  Sound(_ask_for_flavor(c))
<1> DEFINE d == _ask_for_flavor(c)
<1>0. _flavour_groups \in FlavorLists
  BY ListsAreLists, ProductsAssumption DEF _flavour_groups
<1>1. d \in Chat
  <2> DEFINE e == [c EXCEPT !.flavor_groups = _flavour_groups]
  <2>1. e \in Chat
    BY <1>0 DEF Chat
  <2> HIDE DEF e
  <2>2. "CAKE_MESSAGE" \in Steps /\ "SELECT_FLAVOR_GROUP" \in Steps
    BY DEF Steps
  <2>3. d \in {[c EXCEPT !.step = "CAKE_MESSAGE"], [e EXCEPT !.step = "CAKE_MESSAGE"],
               [e EXCEPT !.step = "SELECT_FLAVOR_GROUP"]}
    BY DEF _ask_for_flavor, e
  <2> HIDE DEF d
  <2> QED BY <2>1, <2>2, <2>3, StepsOfChat
<1>2. /\ d.product = c.product /\ d.size = c.size /\ d.zone = None /\ d.flavor = None
      /\ d.step \in {"SELECT_FLAVOR_GROUP", "CAKE_MESSAGE"}
      /\ d.step = "SELECT_FLAVOR_GROUP" => c.product \in Flavoured
      /\ d.step = "CAKE_MESSAGE" /\ c.product \in Flavoured => d.flavor_groups = _flavour_groups
      /\ d.step = "CAKE_MESSAGE" /\ c.product \in Flavoured => flavours = {}
  BY DEF _ask_for_flavor, Chat, Plain
<1> HIDE DEF d
<1>3. SizeIsSet(d)
  BY <1>2 DEF SizeIsSet
<1>4. d.step = "CAKE_MESSAGE" => FlavorIsSet(d)
  BY <1>2 DEF FlavorIsSet, _flavour_groups
<1>5. Sound(d)
  BY <1>1, <1>2, <1>3, <1>4 DEF Sound, Choosing, Dating, Placed, TakesText
<1> QED BY <1>5 DEF d

LEMMA ChooseTheProduct ==
  ASSUME flavours \subseteq Flavours, NEW c \in Chat, Plain(c), NEW p \in Products
  PROVE  Sound(_choose_product(c, p))
<1> DEFINE e == [c EXCEPT !.shown = {}, !.from = None]
<1>0. e \in Chat /\ Plain(e)
  BY ListsAreLists DEF Chat, Plain
<1> HIDE DEF e
<1>1. CASE p \in Sized
  <2> DEFINE d == _ask_for_size(e, p)
  <2>1. d \in Chat
    <3> DEFINE f == [e EXCEPT !.product = p]
    <3>1. f \in Chat
      BY <1>0 DEF Chat
    <3>2. d = [f EXCEPT !.step = "SELECT_SIZE"]
      BY <1>0 DEF _ask_for_size, Chat
    <3> HIDE DEF d, f
    <3> QED BY <3>1, <3>2, StepsOfChat DEF Steps
  <2>2. d.step = "SELECT_SIZE" /\ d.product = p /\ Plain(d)
    BY <1>0 DEF _ask_for_size, Chat, Plain
  <2> HIDE DEF d
  <2>3. Sound(d)
    BY <1>1, <2>1, <2>2 DEF Sound, Plain, Choosing, Dating, Placed, TakesText
  <2> QED BY <1>1, <2>3 DEF _choose_product, d, e
<1>2. CASE p \notin Sized
  <2> DEFINE d == [e EXCEPT !.product = p, !.size = FALSE]
  <2>1. d \in Chat
    BY <1>0 DEF Chat
  <2>2. d.product = p /\ d.size = FALSE /\ Plain(d)
    BY <1>0 DEF Chat, Plain
  <2> HIDE DEF d
  <2>3. SizeIsSet(d)
    <3>1. (d.product \in Sized) = FALSE
      BY <1>2, <2>2
    <3>2. d.size = (d.product \in Sized)
      BY <2>2, <3>1, Zenon
    <3> QED BY <2>2, <3>2 DEF SizeIsSet
  <2>4. _choose_product(c, p) = _ask_for_flavor(d)
    BY <1>2 DEF _choose_product, d, e
  <2> QED BY <2>1, <2>2, <2>3, <2>4, AskForFlavor
<1> QED BY <1>1, <1>2

(* _go_to_dates, wherever it is called from.                               *)
LEMMA GoToDates ==
  ASSUME now \in Nat, NEW c \in Chat, SizeIsSet(c), FlavorIsSet(c), WhereIsSet(c)
  PROVE  Sound(_go_to_dates(c))
<1>1. CASE delivery_date_options(now, shop) = {}
  BY <1>1, NoChatIsSound DEF _go_to_dates
<1>2. CASE delivery_date_options(now, shop) # {}
  BY <1>2, DatesAreDays
     DEF _go_to_dates, Sound, Chat, Steps, SizeIsSet, FlavorIsSet, WhereIsSet, Choosing, Dating,
         Placed, TakesText
<1> QED BY <1>1, <1>2
-----------------------------------------------------------------------------
(* What is true of a record a thread read, and what a thread may write.    *)
LEMMA Writes ==
  ASSUME IInv, NEW t \in Threads, NEW c, Sound(c), _set_state(t, c)
  PROVE  IInv'
<1>1. Sound(NoChat) /\ NoChat \in Chat
  BY NoChatIsSound DEF Sound
<1>2. /\ chat' = c /\ c \in Chat
      /\ thread' = [thread EXCEPT ![t] = [task |-> "REST", read |-> NoChat]]
      /\ UNCHANGED <<now, shop, listing, flavours, zones>>
  BY DEF _set_state, Done, Rest, Sound, world
<1>3. ChatTypeOK'
  BY <1>1, <1>2 DEF IInv, ChatTypeOK
<1>4. \A u \in Threads : Sound(thread'[u].read)
  BY <1>1, <1>2 DEF IInv, ChatTypeOK
<1>5. Sound(chat')
  BY <1>2
<1> QED BY <1>3, <1>4, <1>5 DEF IInv

LEMMA InitIsSound == ChatInit => IInv
<1> SUFFICES ASSUME ChatInit PROVE IInv
  OBVIOUS
<1>1. \A t \in Threads : thread[t] = Rest
  BY DEF ChatInit
<1>2. NoChat \in Chat
  BY NoChatIsSound DEF Sound
<1>3. shop \in ShopSettings
  BY DEF ChatInit, ShopSettings
<1>4. ChatTypeOK
  BY <1>2, <1>3 DEF ChatInit, ChatTypeOK, Rest
<1> QED BY <1>1, <1>4, NoChatIsSound DEF ChatInit, IInv, Rest
-----------------------------------------------------------------------------
(* One lemma for each part of the conversation.                            *)
LEMMA ReadIsSound ==
  ASSUME IInv, NEW t \in Threads, Waits(t, Steps)
  PROVE  /\ Sound(thread[t].read) /\ thread[t].read \in Chat
         /\ now \in Nat
BY MomentsAssumption DEF IInv, ChatTypeOK, Sound

LEMMA BakingIsSound ==
  ASSUME IInv, NEW t \in Threads,
         \/ ChooseGroup(t) \/ ChooseCategory(t) \/ ChooseProduct(t) \/ _match_product(t)
         \/ Back(t) \/ ChooseSize(t) \/ ChooseFlavorGroup(t) \/ OtherFlavorGroup(t)
         \/ ChooseFlavor(t)
  PROVE  IInv'
<1> DEFINE c == thread[t].read
<1>1. /\ Waits(t, Steps) /\ c.step \in Steps \ Dating
  BY DEF ChooseGroup, ChooseCategory, ChooseProduct, _match_product, Back, ChooseSize,
         ChooseFlavorGroup, OtherFlavorGroup, ChooseFlavor, Waits, Steps, Dating
<1>2. /\ Sound(c) /\ c \in Chat /\ c.zone = None
      /\ c.step \in Choosing \cup {"SELECT_SIZE"} => Plain(c)
  BY <1>1, ReadIsSound DEF Sound, Plain
<1>0. flavours \subseteq Flavours
  BY DEF IInv, ChatTypeOK
<1> HIDE DEF c
<1>3. CASE ChooseGroup(t)
  <2>1. c.step = "SELECT_GROUP" /\ c.shown \subseteq Groups
    BY <1>2, <1>3 DEF ChooseGroup, Waits, c, Sound
  <2>2. PICK g \in c.shown :
          \/ _set_state(t, _category_prompt(g))
          \/ \E k \in _categories_for(g) : _set_state(t, _product_prompt(c, k))
    BY <1>3 DEF ChooseGroup, c
  <2>3. _categories_for(g) \subseteq Categories /\ g \in Groups
    BY <2>1 DEF _categories_for
  <2>4. Plain(c)
    BY <1>2, <2>1 DEF Choosing
  <2> QED BY <1>2, <2>2, <2>3, <2>4, MenuIsSound, Writes
<1>4. CASE ChooseCategory(t)
  <2>1. c.step = "SELECT_CATEGORY" /\ c.shown \subseteq Categories
    BY <1>2, <1>4 DEF ChooseCategory, Waits, c, Sound
  <2>2. PICK k \in c.shown : _set_state(t, _product_prompt(c, k))
    BY <1>4 DEF ChooseCategory, c
  <2>3. Plain(c)
    BY <1>2, <2>1 DEF Choosing
  <2> QED BY <1>2, <2>1, <2>2, <2>3, MenuIsSound, Writes
<1>5. CASE ChooseProduct(t) \/ _match_product(t)
  <2>1. PICK p \in Products : _set_state(t, _choose_product(c, p))
    <3>1. CASE ChooseProduct(t)
      <4>1. c.shown \subseteq Products /\ _by_section(c.from) \subseteq Products
        BY <1>2, <3>1 DEF ChooseProduct, Waits, c, Sound, _by_section, _catalogue
      <4> QED BY <3>1, <4>1 DEF ChooseProduct, c
    <3>2. CASE _match_product(t)
      BY <3>2 DEF _match_product, _catalogue, c
    <3> QED BY <1>5, <3>1, <3>2
  <2>2. Sound(_choose_product(c, p))
    <3>1. Plain(c)
      BY <1>2, <1>5 DEF ChooseProduct, _match_product, Waits, c, Choosing
    <3> QED BY <1>0, <1>2, <3>1, ChooseTheProduct
  <2> QED BY <2>1, <2>2, Writes
<1>6. CASE Back(t)
  <2>1. Sound(_group_prompt)
    BY MenuIsSound
  <2>2. CASE c.step = "SELECT_PRODUCT"
    <3>1. GroupOf[c.from] \in Groups
      BY <1>2, <2>2, MenuAssumption DEF Sound
    <3>2. Sound(_category_prompt(GroupOf[c.from]))
      BY <3>1, MenuIsSound
    <3> QED BY <1>6, <2>1, <2>2, <3>2, Writes DEF Back, c
  <2>3. CASE c.step # "SELECT_PRODUCT"
    BY <1>6, <2>1, <2>3, Writes DEF Back, Waits, c
  <2> QED BY <2>2, <2>3
<1>7. CASE ChooseSize(t)
  <2> DEFINE d == [c EXCEPT !.size = TRUE]
  <2>1. c.step = "SELECT_SIZE" /\ c.product \in Sized
    BY <1>2, <1>7 DEF ChooseSize, Waits, c, Sound
  <2>2. d \in Chat /\ Plain(d) /\ d.size = TRUE /\ d.product = c.product
    BY <1>2, <2>1 DEF Chat, Plain
  <2> HIDE DEF d
  <2>3. SizeIsSet(d)
    <3>1. d.product \in Products /\ d.product \in Sized
      BY <2>1, <2>2, ProductsAssumption DEF Sized
    <3> QED BY <2>2, <3>1 DEF SizeIsSet
  <2> QED BY <1>0, <1>7, <2>2, <2>3, AskForFlavor, Writes DEF ChooseSize, c, d
<1>8. CASE ChooseFlavorGroup(t)
  <2>1. c.step = "SELECT_FLAVOR_GROUP"
    BY <1>8 DEF ChooseFlavorGroup, Waits, c
  <2>2. ASSUME NEW g PROVE Sound(_flavour_list_prompt(c, g))
    <3> DEFINE fs == {f \in flavours : SpongeOf[f] = g}
               e  == [c EXCEPT !.flavors = fs]
               d  == _flavour_list_prompt(c, g)
    <3>1. e \in Chat
      BY <1>0, <1>2 DEF Chat
    <3>2. d = [e EXCEPT !.step = "SELECT_FLAVOR"]
      BY <1>2 DEF _flavour_list_prompt, Chat
    <3>3. /\ d.step = "SELECT_FLAVOR" /\ d.zone = None
          /\ d.product = c.product /\ d.size = c.size
      BY <1>2 DEF _flavour_list_prompt, Chat
    <3> HIDE DEF d, e
    <3>4. d \in Chat
      BY <3>1, <3>2, StepsOfChat DEF Steps
    <3>5. SizeIsSet(d) /\ d.product \in Flavoured
      BY <1>2, <2>1, <3>3 DEF Sound, Choosing, SizeIsSet
    <3>6. Sound(d)
      BY <3>3, <3>4, <3>5 DEF Sound, Choosing, Dating, Placed, TakesText
    <3> QED BY <3>6 DEF d
  <2> QED BY <1>8, <2>2, Writes DEF ChooseFlavorGroup, c
<1>10. CASE OtherFlavorGroup(t)
  <2>1. c.step \in {"SELECT_FLAVOR_GROUP", "SELECT_FLAVOR"}
    BY <1>10 DEF OtherFlavorGroup, Waits, c
  <2>2. _flavour_groups \in FlavorLists
    BY <1>0, ListsAreLists, ProductsAssumption DEF _flavour_groups
  <2>3. Sound(_flavour_prompt_again(c))
    <3> DEFINE e == [c EXCEPT !.flavor_groups = _flavour_groups, !.flavors = {}]
               d == _flavour_prompt_again(c)
    <3>1. e \in Chat
      BY <1>2, <2>2 DEF Chat
    <3>2. d = [e EXCEPT !.step = "SELECT_FLAVOR_GROUP"]
      BY <1>2 DEF _flavour_prompt_again, Chat
    <3>3. /\ d.step = "SELECT_FLAVOR_GROUP" /\ d.zone = None
          /\ d.product = c.product /\ d.size = c.size
      BY <1>2 DEF _flavour_prompt_again, Chat
    <3> HIDE DEF d, e
    <3>4. d \in Chat
      BY <3>1, <3>2, StepsOfChat DEF Steps
    <3>5. SizeIsSet(d) /\ d.product \in Flavoured
      BY <1>2, <2>1, <3>3 DEF Sound, Choosing, SizeIsSet
    <3>6. Sound(d)
      BY <3>3, <3>4, <3>5 DEF Sound, Choosing, Dating, Placed, TakesText
    <3> QED BY <3>6 DEF d
  <2> QED BY <1>10, <2>3, Writes DEF OtherFlavorGroup, c
<1>9. CASE ChooseFlavor(t)
  <2>1. c.step \in {"SELECT_FLAVOR_GROUP", "SELECT_FLAVOR"}
    BY <1>9 DEF ChooseFlavor, Waits, c
  <2>2. ASSUME NEW f \in c.flavors \cup flavours
        PROVE  Sound([c EXCEPT !.step = "CAKE_MESSAGE", !.flavor = f, !.flavors = {}])
    <3> DEFINE d == [c EXCEPT !.step = "CAKE_MESSAGE", !.flavor = f, !.flavors = {}]
    <3>1. f \in Flavours /\ f # None
      BY <1>0, <1>2, ProductsAssumption DEF Chat
    <3>2. SizeIsSet(c) /\ c.product \in Flavoured
      BY <1>2, <2>1 DEF Sound, Choosing
    <3>3. d \in Chat
      <4>1. [c EXCEPT !.flavor = f] \in Chat
        BY <1>2, <3>1 DEF Chat
      <4> DEFINE e == [c EXCEPT !.flavor = f]
      <4>2. d = [e EXCEPT !.step = "CAKE_MESSAGE", !.flavors = {}]
        BY <1>2 DEF Chat
      <4> HIDE DEF d, e
      <4>3. e \in Chat
        BY <4>1 DEF e
      <4> QED BY <4>2, <4>3 DEF Chat, Steps
    <3>4. /\ d.step = "CAKE_MESSAGE" /\ d.flavor = f /\ d.zone = None
          /\ d.product = c.product /\ d.size = c.size
      BY <1>2 DEF Chat
    <3> HIDE DEF d
    <3>5. SizeIsSet(d) /\ FlavorIsSet(d)
      BY <3>1, <3>2, <3>4 DEF SizeIsSet, FlavorIsSet
    <3>6. Sound(d)
      BY <3>3, <3>4, <3>5 DEF Sound, Choosing, Dating, Placed, TakesText
    <3> QED BY <3>6 DEF d
  <2> QED BY <1>9, <2>2, Writes DEF ChooseFlavor, c
<1> QED BY <1>3, <1>4, <1>5, <1>6, <1>7, <1>8, <1>9, <1>10

(* Collecting it: ToCollect, from a record that has its flavour.           *)
LEMMA CollectIsSound ==
  ASSUME now \in Nat, NEW c \in Chat, SizeIsSet(c), FlavorIsSet(c), c.zone = None
  PROVE  Sound(ToCollect(c))
<1> DEFINE d == [c EXCEPT !.address = "PICKUP"]
<1>1. d \in Chat /\ SizeIsSet(d) /\ FlavorIsSet(d)
  BY DEF Chat, SizeIsSet, FlavorIsSet
<1>2. WhereIsSet(d)
  BY DEF Chat, WhereIsSet
<1> HIDE DEF d
<1> QED BY <1>1, <1>2, GoToDates DEF ToCollect, d

LEMMA WhereIsSound ==
  ASSUME IInv, NEW t \in Threads,
         \/ GiveMessage(t) \/ ChooseArea(t)
         \/ \E address \in {"PICKUP", "STREET"} : GiveAddress(t, address)
  PROVE  IInv'
<1> DEFINE c == thread[t].read
<1>1. Waits(t, Steps) /\ c.step \in TakesText \cup {"SELECT_AREA"}
  BY DEF GiveMessage, ChooseArea, GiveAddress, Waits, Steps, TakesText
<1>2. /\ Sound(c) /\ c \in Chat /\ now \in Nat /\ c.zone = None
      /\ SizeIsSet(c) /\ FlavorIsSet(c)
  BY <1>1, ReadIsSound DEF Sound, TakesText, Dating, Choosing
<1> HIDE DEF c
<1>3. Sound(ToCollect(c))
  BY <1>2, CollectIsSound
<1>4. CASE GiveMessage(t)
  <2>1. c.step = "CAKE_MESSAGE"
    BY <1>4 DEF GiveMessage, Waits, c
  <2>2. Sound([c EXCEPT !.step = "DELIVERY_ADDRESS"])
    BY <1>2, <2>1
       DEF Sound, Chat, Steps, Choosing, Dating, Placed, TakesText, SizeIsSet, FlavorIsSet
  <2> QED BY <1>3, <1>4, <2>2, Writes DEF GiveMessage, c
<1>5. CASE ChooseArea(t)
  <2>1. c.step = "SELECT_AREA" /\ c.address = "STREET" /\ c.zone_options \subseteq Zones
    BY <1>2, <1>5 DEF ChooseArea, Waits, c, Sound
  <2>2. PICK z \in c.zone_options : _set_state(t, _go_to_dates([c EXCEPT !.zone = z]))
    BY <1>5 DEF ChooseArea, c
  <2> DEFINE d == [c EXCEPT !.zone = z]
  <2>3. z \in Zones /\ z # None
    BY <2>1, ProductsAssumption
  <2>4. /\ d \in Chat /\ d.address = "STREET" /\ d.zone = z /\ d.product = c.product
        /\ d.size = c.size /\ d.flavor = c.flavor /\ d.flavor_groups = c.flavor_groups
    BY <1>2, <2>1, <2>3 DEF Chat
  <2> HIDE DEF d
  <2>5. SizeIsSet(d) /\ FlavorIsSet(d) /\ WhereIsSet(d)
    BY <1>2, <2>3, <2>4 DEF SizeIsSet, FlavorIsSet, WhereIsSet
  <2>6. _set_state(t, _go_to_dates(d))
    BY <2>2 DEF d
  <2> QED BY <1>2, <2>4, <2>5, <2>6, GoToDates, Writes
<1>6. ASSUME NEW address \in {"PICKUP", "STREET"}, GiveAddress(t, address)
      PROVE  IInv'
  <2> DEFINE d == [c EXCEPT !.address = "STREET", !.zone_options = zones]
  <2>0. zones \subseteq Zones
    BY DEF IInv, ChatTypeOK
  <2>1. /\ d \in Chat /\ d.address = "STREET" /\ d.zone = None /\ d.zone_options = zones
        /\ d.product = c.product /\ d.size = c.size /\ d.flavor = c.flavor
        /\ d.flavor_groups = c.flavor_groups
    BY <1>2, <2>0, ListsAreLists DEF Chat
  <2>2. ToStreet(c) = IF zones = {} THEN _go_to_dates(d) ELSE [d EXCEPT !.step = "SELECT_AREA"]
    BY DEF ToStreet
  <2> HIDE DEF d
  <2>3. SizeIsSet(d) /\ FlavorIsSet(d)
    BY <1>2, <2>1 DEF SizeIsSet, FlavorIsSet
  <2>4. CASE zones = {}
    <3>1. WhereIsSet(d)
      BY <2>1, <2>4 DEF WhereIsSet
    <3>2. Sound(ToStreet(c))
      BY <1>2, <2>1, <2>2, <2>3, <2>4, <3>1, GoToDates
    <3> QED BY <1>3, <1>6, <3>2, Writes DEF GiveAddress, c
  <2>5. CASE zones # {}
    <3> DEFINE e == [d EXCEPT !.step = "SELECT_AREA"]
    <3>1. /\ e \in Chat /\ e.step = "SELECT_AREA" /\ e.address = "STREET" /\ e.zone = None
          /\ e.zone_options = zones /\ e.product = c.product /\ e.size = c.size
          /\ e.flavor = c.flavor /\ e.flavor_groups = c.flavor_groups
      BY <2>1 DEF Chat, Steps
    <3>2. e = ToStreet(c)
      BY <2>2, <2>5
    <3> HIDE DEF e
    <3>3. SizeIsSet(e) /\ FlavorIsSet(e)
      BY <1>2, <3>1 DEF SizeIsSet, FlavorIsSet
    <3>4. Sound(e)
      BY <2>0, <2>5, <3>1, <3>3 DEF Sound, Choosing, Dating, Placed, TakesText
    <3> QED BY <1>3, <1>6, <3>2, <3>4, Writes DEF GiveAddress, c
  <2> QED BY <2>4, <2>5
<1> QED BY <1>4, <1>5, <1>6

LEMMA WhenIsSound ==
  ASSUME IInv, NEW t \in Threads,
         \/ \E day \in thread[t].read.dates : ChooseDate(t, day)
         \/ \E at \in thread[t].read.times : ChooseTime(t, at)
  PROVE  IInv'
<1> DEFINE c == thread[t].read
<1>1. Waits(t, Steps) /\ c.step \in {"SELECT_DATE", "SELECT_TIME"}
  BY DEF ChooseDate, ChooseTime, Waits, Steps
<1>2. /\ Sound(c) /\ c \in Chat /\ now \in Nat
      /\ SizeIsSet(c) /\ FlavorIsSet(c) /\ WhereIsSet(c)
  BY <1>1, ReadIsSound DEF Sound, TakesText, Dating, Choosing
<1> HIDE DEF c
<1>3. ASSUME NEW day \in c.dates, ChooseDate(t, day)
      PROVE  IInv'
  <2> DEFINE slots == slots_for_date(day, now, shop)
             d == [c EXCEPT !.step = "SELECT_TIME", !.day = day, !.times = slots]
  <2>1. day \in Nat
    BY <1>2 DEF Chat
  <2>2. slots \subseteq Nat /\ \A at \in slots : Day(at) = day
    BY <2>1, SlotsAreOfTheDay
  <2>3. CASE slots = {}
    <3>1. _set_state(t, _go_to_dates(c))
      BY <1>3, <2>3 DEF ChooseDate, c
    <3> HIDE DEF slots
    <3> QED BY <1>2, <3>1, GoToDates, Writes
  <2>4. CASE slots # {}
    <3> HIDE DEF slots
    <3>1. d \in Chat
      BY <1>2, <2>1, <2>2 DEF Chat, Steps
    <3>2. /\ d.step = "SELECT_TIME" /\ d.times = slots /\ d.day = day /\ d.dates = c.dates
          /\ d.product = c.product /\ d.size = c.size /\ d.flavor = c.flavor
          /\ d.address = c.address /\ d.zone = c.zone
          /\ d.flavor_groups = c.flavor_groups /\ d.zone_options = c.zone_options
      BY <1>2 DEF Chat
    <3> HIDE DEF d
    <3>3. Sound(d)
      <4>1. SizeIsSet(d) /\ FlavorIsSet(d) /\ WhereIsSet(d)
        BY <1>2, <3>1, <3>2 DEF SizeIsSet, FlavorIsSet, WhereIsSet, Chat
      <4>2. WhenIsOffered(d)
        BY <1>3, <2>2, <3>2 DEF WhenIsOffered
      <4> QED BY <2>4, <3>1, <3>2, <4>1, <4>2
              DEF Sound, Choosing, Dating, Placed, TakesText
    <3> QED BY <1>3, <2>4, <3>3, Writes DEF ChooseDate, c, d, slots
  <2> QED BY <2>3, <2>4
<1>4. ASSUME NEW at \in c.times, ChooseTime(t, at)
      PROVE  IInv'
  <2> DEFINE d == [c EXCEPT !.step = "CONFIRM", !.at = at]
  <2>1. c.step = "SELECT_TIME" /\ WhenIsOffered(c)
    BY <1>2, <1>4 DEF ChooseTime, Waits, c, Sound, Placed
  <2>2. d \in Chat
    BY <1>2, <1>4 DEF Chat, Steps
  <2>3. /\ d.step = "CONFIRM" /\ d.at = at /\ d.times = c.times /\ d.day = c.day
        /\ d.dates = c.dates /\ d.product = c.product /\ d.size = c.size
        /\ d.flavor = c.flavor /\ d.address = c.address /\ d.zone = c.zone
        /\ d.flavor_groups = c.flavor_groups /\ d.zone_options = c.zone_options
    BY <1>2 DEF Chat
  <2> HIDE DEF d
  <2>4. SizeIsSet(d) /\ FlavorIsSet(d) /\ WhereIsSet(d)
    BY <1>2, <2>2, <2>3 DEF SizeIsSet, FlavorIsSet, WhereIsSet, Chat
  <2>5. WhenIsOffered(d)
    BY <2>1, <2>3 DEF WhenIsOffered
  <2>6. Sound(d)
    BY <1>4, <2>2, <2>3, <2>4, <2>5 DEF Sound, Choosing, Dating, Placed, TakesText
  <2> QED BY <1>4, <2>6, Writes DEF ChooseTime, c, d
<1> QED BY <1>3, <1>4 DEF c
-----------------------------------------------------------------------------
(* Steps that leave the record alone, or put an empty one in its place.    *)
LEMMA LeavesIsSound ==
  ASSUME IInv, NEW t \in Threads, chat' = chat, Done(t)
  PROVE  IInv'
<1>1. _set_state(t, chat) /\ Sound(chat)
  BY DEF _set_state, IInv
<1> QED BY <1>1, Writes

LEMMA EmptyIsSound ==
  ASSUME IInv, NEW t \in Threads,
         \/ Cancel(t) \/ Welcome(t) \/ AskStatus(t) \/ TellStatus(t) \/ StartOrder(t)
         \/ ItemGone(t) \/ Refused(t) \/ ClearAfterOrder(t)
  PROVE  IInv'
<1>1. Sound(NoChat) /\ Sound(Asking("AWAITING_STATUS_ID")) /\ Sound(_group_prompt)
  BY NoChatIsSound, NothingIsSound, MenuIsSound DEF Asked
<1>2. \E c : Sound(c) /\ _set_state(t, c)
  BY <1>1 DEF Cancel, Welcome, AskStatus, TellStatus, StartOrder, ItemGone, Refused,
              ClearAfterOrder, _clear_state
<1> QED BY <1>2, Writes

LEMMA ThreadTask ==
  ASSUME IInv, NEW t \in Threads, NEW task \in {"READ", "PLACED"}, NEW c, Sound(c),
         chat' = chat, thread' = [thread EXCEPT ![t] = [task |-> task, read |-> c]],
         UNCHANGED world
  PROVE  IInv'
<1>1. c \in Chat
  BY DEF Sound
<1>2. ChatTypeOK'
  BY <1>1 DEF IInv, ChatTypeOK, world
<1>3. \A u \in Threads : Sound(thread'[u].read)
  BY DEF IInv, ChatTypeOK
<1>4. Sound(chat')
  BY DEF IInv
<1> QED BY <1>2, <1>3, <1>4 DEF IInv, Sound, Chat, SizeIsSet, FlavorIsSet, WhereIsSet,
                                WhenIsOffered

LEMMA WorldIsSound ==
  ASSUME IInv, UNCHANGED <<chat, thread>>,
         now' \in Moments, shop' \in ShopSettings, listing' \in [Products -> {"ON", "OFF", "GONE"}],
         flavours' \subseteq Flavours, zones' \subseteq Zones
  PROVE  IInv'
BY DEF IInv, ChatTypeOK, Sound, Chat, SizeIsSet, FlavorIsSet, WhereIsSet, WhenIsOffered

LEMMA MeanwhileIsSound ==
  ASSUME IInv, \/ Tick \/ SwitchDelivery \/ BlockToday
               \/ \E p \in Products : toggle_availability(p) \/ delete_product(p)
               \/ \E f \in Flavours : SwitchFlavour(f)
               \/ \E z \in Zones : SwitchZone(z)
  PROVE  IInv'
<1>1. /\ now \in Moments /\ now \in Nat /\ shop \in ShopSettings
      /\ listing \in [Products -> {"ON", "OFF", "GONE"}]
      /\ flavours \subseteq Flavours /\ zones \subseteq Zones
  BY MomentsAssumption DEF IInv, ChatTypeOK
<1>2. /\ UNCHANGED <<chat, thread>> /\ now' \in Moments
      /\ listing' \in [Products -> {"ON", "OFF", "GONE"}]
      /\ flavours' \subseteq Flavours /\ zones' \subseteq Zones
  BY <1>1 DEF Tick, SwitchDelivery, BlockToday, toggle_availability, delete_product, SwitchFlavour,
              SwitchZone, Switched
<1>3. shop' \in ShopSettings
  <2>1. CASE BlockToday
    <3>1. Day(now) \in Int
      BY <1>1 DEF Day
    <3> QED BY <1>1, <2>1, <3>1 DEF BlockToday, ShopSettings
  <2>2. CASE SwitchDelivery
    BY <1>1, <2>2 DEF SwitchDelivery, ShopSettings
  <2> QED BY <1>1, <2>1, <2>2 DEF Tick, toggle_availability, delete_product, SwitchFlavour,
                                     SwitchZone
<1> QED BY <1>2, <1>3, WorldIsSound
-----------------------------------------------------------------------------
(* Whatever is replied, the record stays as it was. *)
LEMMA ReplyKeeps ==
  ASSUME NEW t, Reply(t)
  PROVE  Waits(t, Steps) /\ chat' = chat /\ Done(t)
BY DEF Reply, _answer_without_losing_the_order, Converse, ViewMenu, AskAgain, Keep, Understood

LEMMA StepIsSound == IInv /\ [ChatNext]_chatVars => IInv'
<1> SUFFICES ASSUME IInv, [ChatNext]_chatVars PROVE IInv'
  OBVIOUS
<1>1. ASSUME NEW t \in Threads, Read(t) PROVE IInv'
  BY <1>1, ThreadTask DEF Read, IInv
<1>2. ASSUME NEW t \in Threads, Answer(t) PROVE IInv'
  <2>1. CASE Confirm(t)
    BY <2>1, NoChatIsSound, ThreadTask DEF Confirm
  <2>2. CASE Reply(t)
    BY <2>2, LeavesIsSound, ReplyKeeps
  <2> QED BY <1>2, <2>1, <2>2, EmptyIsSound, BakingIsSound, WhereIsSound, WhenIsSound DEF Answer
<1>3. ASSUME NEW t \in Threads, Crash(t) PROVE IInv'
  BY <1>3, LeavesIsSound DEF Crash, Keep
<1>4. CASE Lapse
  <2>1. NoChat \in Chat /\ Sound(NoChat)
    BY NoChatIsSound DEF Sound
  <2>2. chat' = NoChat /\ UNCHANGED <<thread, now, shop, listing, flavours, zones>>
    BY <1>4 DEF Lapse, world
  <2> QED BY <2>1, <2>2 DEF IInv, ChatTypeOK, Sound, Chat, SizeIsSet, FlavorIsSet, WhereIsSet,
                            WhenIsOffered
<1>5. CASE UNCHANGED chatVars
  BY <1>5, WorldIsSound DEF chatVars, IInv, ChatTypeOK
<1> QED BY <1>1, <1>2, <1>3, <1>4, <1>5, MeanwhileIsSound DEF ChatNext

(* The record, and every thread's copy of it, is sound for its step.       *)
THEOREM Soundness == ChatSpec => []IInv
<1>1. ChatInit => IInv
  BY InitIsSound
<1>2. IInv /\ [ChatNext]_chatVars => IInv'
  BY StepIsSound
<1> QED BY <1>1, <1>2, PTL DEF ChatSpec

(* The record in Redis is always one the flow can read, whichever thread   *)
(* wrote it last (_set_state).                                             *)
THEOREM ChatTypeCorrect == ChatSpec => []ChatTypeOK
<1>1. IInv => ChatTypeOK
  BY DEF IInv
<1> QED BY <1>1, Soundness, PTL

(* A day, a time and an area are asked for with a list that is not empty:  *)
(* SELECT_DATE, SELECT_TIME and SELECT_AREA.                               *)
THEOREM DaysTimesAndAreas == ChatSpec => []SomewhereSometime
<1>1. IInv => SomewhereSometime
  BY DEF IInv, Sound, SomewhereSometime
<1> QED BY <1>1, Soundness, PTL

(* What a CONFIRM hands to create_order is whole, on whatever threads and  *)
(* in whatever order the messages before it were handled.                  *)
THEOREM WholeOrders == ChatSpec => PlacedIsWhole
<1>1. ASSUME IInv, ChatNext, NEW t \in Threads, Placing(t)
      PROVE  Whole(thread[t].read)
  <2> DEFINE c == thread[t].read
  <2>1. Waits(t, {"CONFIRM"})
    <3>1. \A u \in Threads : ~Done(u)
      BY <1>1 DEF Done, Placing, Rest, IInv, ChatTypeOK
    <3>2. ASSUME NEW u \in Threads, Answer(u) PROVE Confirm(u)
      BY <3>1, <3>2, ReplyKeeps
         DEF Answer, Cancel, Welcome, AskStatus, TellStatus, StartOrder, ChooseGroup,
             ChooseCategory, ChooseProduct, _match_product, Back, ChooseSize, ChooseFlavorGroup,
             OtherFlavorGroup, ChooseFlavor, GiveMessage, GiveAddress, ChooseArea, ChooseDate,
             ChooseTime, ItemGone, Refused, ClearAfterOrder, _set_state, _clear_state
    <3>3. thread' # thread
      BY <1>1 DEF Placing
    <3>4. \E u \in Threads : Read(u) \/ Confirm(u)
      BY <1>1, <3>1, <3>2, <3>3
         DEF ChatNext, Crash, Keep, Tick, SwitchDelivery, BlockToday, toggle_availability,
             delete_product, SwitchFlavour, SwitchZone, Lapse
    <3>5. \E u \in Threads : Confirm(u) /\ u = t
      BY <1>1, <3>4 DEF Placing, Read, Confirm, IInv, ChatTypeOK
    <3> QED BY <3>5 DEF Confirm
  <2>2. Sound(c) /\ c.step = "CONFIRM"
    BY <1>1, <2>1 DEF IInv, Waits
  <2> HIDE DEF c
  <2>3. SizeIsSet(c) /\ FlavorIsSet(c) /\ WhereIsSet(c) /\ WhenIsOffered(c) /\ c.at \in c.times
    BY <2>2 DEF Sound, Choosing, Dating, Placed
  <2>4. Whole(c)
    BY <2>3 DEF Whole, SizeIsSet, FlavorIsSet, WhereIsSet, WhenIsOffered
  <2> QED BY <2>4 DEF c
<1>2. IInv /\ [ChatNext]_chatVars
        => [\A t \in Threads : Placing(t) => Whole(thread[t].read)]_chatVars
  BY <1>1
<1> QED BY <1>2, Soundness, PTL DEF ChatSpec, PlacedIsWhole
=============================================================================
