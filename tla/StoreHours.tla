----------------------------- MODULE StoreHours -----------------------------
(***************************************************************************)
(* The shop's hours, and the times a customer may ask for.                 *)
(*                                                                         *)
(* A moment is a number of hours since the midnight that began day 0.  The *)
(* shop's settings are a record: when it opens and closes, whether it is   *)
(* delivering, and the last day nothing may be ordered for the same day.   *)
(***************************************************************************)
EXTENDS Integers, FiniteSetsExt

CONSTANTS
  MIN_LEAD_HOURS,
  SlotHours,       \* the hours of DELIVERY_SLOTS
  MAX_DAYS_AHEAD

ASSUME HoursAssumption == /\ MIN_LEAD_HOURS \in Nat /\ MAX_DAYS_AHEAD \in Nat
                          /\ SlotHours \subseteq 0 .. 23

ShopSettings == [opens : 0 .. 23, closes : 0 .. 23, delivers : BOOLEAN, blocked_until : Int]

Day(moment)  == moment \div 24
Hour(moment) == moment % 24
At(day, hour) == day * 24 + hour

same_day_blocked(now, shop) == Day(now) <= shop.blocked_until

earliest_delivery_time(now, shop) ==
  IF same_day_blocked(now, shop)
  THEN Max({now + MIN_LEAD_HOURS, At(Day(now) + 1, shop.opens)})
  ELSE now + MIN_LEAD_HOURS

(* What the API accepts. *)
check_delivery_lead_time(moment, now, shop) == moment >= earliest_delivery_time(now, shop)

(* What the conversation offers. *)
slots_for_date(day, now, shop) ==
  {at \in {At(day, h) : h \in SlotHours} :
     /\ shop.opens <= Hour(at) /\ Hour(at) <= shop.closes
     /\ at >= earliest_delivery_time(now, shop)}

delivery_date_options(now, shop) ==
  {day \in Day(now) .. Day(now) + MAX_DAYS_AHEAD : slots_for_date(day, now, shop) # {}}
=============================================================================
