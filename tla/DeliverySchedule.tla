-------------------------- MODULE DeliverySchedule --------------------------
(***************************************************************************)
(* When a part ordered now is there (apps/api/src/inventory/                *)
(* delivery-schedule.service.ts, working-calendar.ts, warehouse.ts), and a  *)
(* page that goes on showing what it was told (apps/web/src/lib/delivery/,  *)
(* hooks/use-cutoff-refresh.ts, use-delivery-refresh.ts).  A civil date is  *)
(* a number of days, an instant of the shop's time zone a number of hours;  *)
(* cut-offs are whole hours.  The zone's offset and its changes are left    *)
(* out, and so are the minutes of a promise within the hour.                *)
(***************************************************************************)
EXTENDS Integers, FiniteSetsExt

CONSTANTS
    OpenHour,          \* SHOP_HOURS_WEEKDAY_OPEN, SHOP_HOURS_SATURDAY_OPEN
    WeekdayClose, SaturdayClose,
    SameDayCutoff,     \* SAME_DAY_CUTOFF_HOUR
    ProcessingCutoff,  \* NEXT_DAY_PLUS_CUTOFF_HOUR
    CourierDays,       \* COURIER_EXTRA_WORKING_DAYS
    Hours,             \* the hours of a day at which something may happen
    LastDay,           \* bound: the last day the page is open
    HolidayDays,       \* bound: the days a holiday may fall on
    MaxHolidays,       \* bound: the holidays of those days
    MaxBasket          \* bound: the warehouses the page's lines ship from

ASSUME ScheduleAssumption ==
    /\ OpenHour \in Nat /\ OpenHour < SaturdayClose /\ SaturdayClose <= WeekdayClose
    /\ OpenHour < SameDayCutoff /\ SameDayCutoff <= ProcessingCutoff
    /\ ProcessingCutoff <= WeekdayClose /\ CourierDays \in Nat \ {0}
    /\ Hours \subseteq 1 .. 23
    /\ {SameDayCutoff, ProcessingCutoff, SaturdayClose, WeekdayClose} \subseteq Hours
    /\ LastDay \in Nat /\ HolidayDays \subseteq 0 .. LastDay
    /\ MaxHolidays \in Nat /\ MaxBasket \in Nat

VARIABLES
    firstWeekday,  \* of the day 0; Sunday is 0
    official,      \* the official holidays outside Easter's
    easter,        \* those of Easter's cluster
    holidays,      \* all of them and their substitutes, worked out once
    now,           \* the instant
    basket,        \* the warehouses the lines on the page ship from
    computedAt,    \* when the availability on the page was read
    timer          \* when its re-read is due; 0: no timer

ScheduleVars == <<firstWeekday, official, easter, holidays, now, basket, computedAt, timer>>
calendar == <<firstWeekday, official, easter, holidays>>

At(day, hour) == 24 * day + hour
DayOf(instant) == instant \div 24
HourOf(instant) == instant % 24

(***************************************************************************)
(* The shop's calendar.                                                     *)
(***************************************************************************)
(* No run of closed days, or of taken ones and weekends, is longer: where   *)
(* to look for the next.                                                    *)
Reach == 6 * MaxHolidays + 3

weekdayOf(day) == (day + firstWeekday) % 7
isWeekend(day) == weekdayOf(day) \in {0, 6}

(* Mutant of FirstFree: a day taken already is taken again.                 *)
FirstWeekday(taken, day) == Min({d \in day + 1 .. day + Reach : ~isWeekend(d)})

FirstFree(taken, day) ==
    Min({d \in day + 1 .. day + Reach : ~isWeekend(d) /\ d \notin taken})

(* addBgSubstituteDays: a holiday on a weekend closes the next working day  *)
(* that is still open, in the order of the dates.                           *)
addSubstituteOf(day, taken) ==
    IF day \in official /\ isWeekend(day) THEN taken \union {FirstFree(taken, day)} ELSE taken

occupied[day \in 0 .. LastDay + 1] ==
    IF day = 0 THEN official \union easter ELSE addSubstituteOf(day - 1, occupied[day - 1])

isHoliday == occupied[LastDay + 1]

isShopOpenOn(day) == day \notin holidays /\ weekdayOf(day) # 0
closeHour(day) == IF weekdayOf(day) = 6 THEN SaturdayClose ELSE WeekdayClose

nextOpenDayOnOrAfter(day) == Min({d \in day .. day + Reach : isShopOpenOn(d)})

(* Open days are counted, up to the day they come to `count`.               *)
OpenDays(from, to) == {d \in from .. to : isShopOpenOn(d)}

addWorkingDays(day, count) ==
    IF count = 0 THEN day
    ELSE CHOOSE d \in day + 1 .. day + count * (Reach + 1) :
           isShopOpenOn(d) /\ Cardinality(OpenDays(day + 1, d)) = count

(***************************************************************************)
(* DeliveryScheduleService.                                                 *)
(***************************************************************************)
Warehouses == <<"CENTRAL", "REGIONAL_1", "REGIONAL_2", "ROMANIA", "POLAND">>

(* WAREHOUSE_META, by rank.                                                 *)
baseWorkDays == <<0, 0, 1, 2, 3>>
cutoffKind == <<"SHOP_CLOSE", "SAME_DAY", "PROCESSING", "PROCESSING", "PROCESSING">>

cutoffHour(w, day) ==
    CASE cutoffKind[w] = "SHOP_CLOSE" -> closeHour(day)
      [] cutoffKind[w] = "SAME_DAY" -> SameDayCutoff
      [] cutoffKind[w] = "PROCESSING" -> ProcessingCutoff

(* The next moment the shop is open.                                        *)
effectiveStart(instant) ==
    IF isShopOpenOn(DayOf(instant)) /\ HourOf(instant) < closeHour(DayOf(instant))
      THEN IF HourOf(instant) < OpenHour THEN At(DayOf(instant), OpenHour) ELSE instant
      ELSE At(nextOpenDayOnOrAfter(DayOf(instant) + 1), OpenHour)

(* Mutant of deliveryDate: the days after the dispatch are calendar days.   *)
calendarDays(w, start) ==
    (IF HourOf(start) < cutoffHour(w, DayOf(start)) THEN DayOf(start)
     ELSE nextOpenDayOnOrAfter(DayOf(start) + 1)) + baseWorkDays[w]

(* Another: the two sides of a warehouse's cut-off are swapped.             *)
swappedSides(w, start) ==
    addWorkingDays(
      IF w = 1 \/ HourOf(start) >= cutoffHour(w, DayOf(start)) THEN DayOf(start)
      ELSE nextOpenDayOnOrAfter(DayOf(start) + 1),
      baseWorkDays[w])

deliveryDate(w, start) ==
    addWorkingDays(
      IF HourOf(start) < cutoffHour(w, DayOf(start)) THEN DayOf(start)
      ELSE nextOpenDayOnOrAfter(DayOf(start) + 1),
      baseWorkDays[w])

Lowest(a, b) == IF a < b THEN a ELSE b

(* pickupProjection: within the hour, or noon of the day.                   *)
pickupOf(w, instant, start, day) ==
    IF w = 1 /\ day = DayOf(instant)
      THEN [at |-> At(day, Lowest(HourOf(start) + 1, closeHour(day))), granularity |-> "HOUR"]
      ELSE [at |-> At(day, 12), granularity |-> "DAY"]

projectWarehouse(w, instant) ==
    LET start == effectiveStart(instant)
        day == deliveryDate(w, start) IN
    [cutoffAt |-> At(DayOf(start), cutoffHour(w, DayOf(start))),
     pickup |-> pickupOf(w, instant, start, day),
     courier |-> At(addWorkingDays(day, CourierDays), 12)]

Projections(instant) ==
    [w \in DOMAIN Warehouses |-> projectWarehouse(w, instant)]

(***************************************************************************)
(* The page: what it holds was computed at `computedAt`.                    *)
(***************************************************************************)
Shown == Projections(computedAt)
collectCutoffAts(at) == LET shown == Projections(at) IN {shown[w].cutoffAt : w \in basket}

(* Mutant of combineDeliveryPromises: the latest cut-off binds.             *)
latestBinds(shown) ==
    [cutoffAt |-> Max({shown[w].cutoffAt : w \in basket}),
     fulfilledAt |-> Max({shown[w].pickup.at : w \in basket})]

(* combineDeliveryPromises: the earliest cut-off, and the slowest date.     *)
combineDeliveryPromises(shown) ==
    [cutoffAt |-> Min({shown[w].cutoffAt : w \in basket}),
     fulfilledAt |-> Max({shown[w].pickup.at : w \in basket})]

(* describeCutoffCountdown: today's, within SHOW_CUTOFF_WINDOW_MINUTES.     *)
ShowWindow == 3
isCountingDown(promise) ==
    /\ now < promise.cutoffAt /\ promise.cutoffAt <= now + ShowWindow
    /\ DayOf(promise.cutoffAt) = DayOf(now)

(* Mutant of isWarehouseSnapshotStale: a cut-off's passing is not noticed.  *)
onlyTheHour(shown) == shown.pickup.granularity = "HOUR" /\ shown.pickup.at <= now

(* Whether the chip says it is being renewed, instead of a date.            *)
isWarehouseSnapshotStale(shown) ==
    \/ shown.pickup.granularity = "HOUR" /\ shown.pickup.at <= now
    \/ shown.cutoffAt > computedAt /\ shown.cutoffAt <= now

NoTimer == 0

(* useCutoffRefresh: one timer, on the soonest cut-off ahead.               *)
Scheduled(cutoffAts) ==
    LET ahead == {c \in cutoffAts : c > now} IN
    IF ahead = {} \/ Min(ahead) - now >= 24 THEN NoTimer ELSE Min(ahead)

(* A read lands.  The effect runs again only when the cut-offs themselves   *)
(* have changed: a timer that has fired stays without a successor otherwise.*)
refetch ==
    /\ computedAt' = now
    /\ LET cutoffAts == collectCutoffAts(now) IN
       timer' = IF cutoffAts = collectCutoffAts(computedAt)
                  THEN (IF timer = now THEN NoTimer ELSE timer)
                  ELSE Scheduled(cutoffAts)

TimerFires ==
    /\ timer = now
    /\ refetch
    /\ UNCHANGED <<calendar, now, basket>>

(* The tab regains focus after the snapshot has aged.                       *)
refreshIfAged ==
    /\ computedAt < now
    /\ refetch
    /\ UNCHANGED <<calendar, now, basket>>

Instants == {At(d, h) : d \in 0 .. LastDay, h \in Hours}

(* The next hour at which something may happen; a timer due fires first.    *)
HourPasses ==
    /\ timer # now
    /\ \E later \in Instants : later > now
    /\ now' = Min({i \in Instants : i > now})
    /\ UNCHANGED <<calendar, basket, computedAt, timer>>

ScheduleInit ==
    /\ firstWeekday \in 0 .. 6
    /\ official \in SUBSET HolidayDays /\ easter \in SUBSET HolidayDays
    /\ Cardinality(official) + Cardinality(easter) <= MaxHolidays
    /\ official \intersect easter = {}
    /\ holidays = isHoliday
    /\ basket \in (SUBSET DOMAIN Warehouses) \ {{}} /\ Cardinality(basket) <= MaxBasket
    /\ now = Min(Instants) /\ computedAt = now
    /\ timer = Scheduled(collectCutoffAts(now))

ScheduleNext == TimerFires \/ refreshIfAged \/ HourPasses

ScheduleSpec == ScheduleInit /\ [][ScheduleNext]_ScheduleVars

(***************************************************************************)
(* Properties.                                                              *)
(***************************************************************************)

(* Every variable has its type, and a timer that is due has not been missed.*)
ScheduleTypeOK ==
    /\ firstWeekday \in 0 .. 6 /\ official \subseteq HolidayDays /\ easter \subseteq HolidayDays
    /\ holidays \subseteq Nat /\ now \in Instants /\ computedAt \in Instants /\ computedAt <= now
    /\ basket \subseteq DOMAIN Warehouses
    /\ timer = NoTimer \/ timer >= now

(* Labour Code art. 154(2), as working-calendar.ts quotes it: each official *)
(* holiday on a weekend closes a working day of its own, Easter's apart, so *)
(* no two of them and none on a working day share one.                      *)
SubstitutesAreDistinct ==
    Cardinality({d \in isHoliday : ~isWeekend(d)})
      = Cardinality({d \in official \union easter : ~isWeekend(d)})
        + Cardinality({d \in official : isWeekend(d)})

(* Whatever the hour, the weekday and the holidays, of two lines the one    *)
(* from the warehouse named as faster is not later to collect, the shop is  *)
(* open on every day promised, and a courier comes after the part could be  *)
(* collected.                                                               *)
FasterIsNotLater ==
    \A w \in basket :
      LET told == projectWarehouse(w, now) IN
      /\ isShopOpenOn(DayOf(told.pickup.at)) /\ isShopOpenOn(DayOf(told.courier))
      /\ DayOf(told.pickup.at) >= DayOf(now)
      /\ told.pickup.granularity = "HOUR" => told.pickup.at >= now
      /\ DayOf(told.pickup.at) < DayOf(told.courier)
      /\ \A v \in basket :
           v < w => DayOf(projectWarehouse(v, now).pickup.at) <= DayOf(told.pickup.at)

(* Ordering later never gets a part sooner.                                 *)
LaterIsNotSooner ==
    [][\A w \in basket :
         DayOf(Projections(now)[w].pickup.at) <= DayOf(Projections(now')[w].pickup.at)
      ]_ScheduleVars

(* The deadline of a whole basket (docs/DELIVERY-LOGIC.md, "Promising a     *)
(* whole basket"): while the page counts down to it, each line ordered now  *)
(* is there by the day the page promises, however long ago the page was     *)
(* computed.  A Saturday is excepted, where the cut-off of the slower       *)
(* warehouses is said to be hours after the shop, and so the day, closed.   *)
PromiseIsKept ==
    LET promise == combineDeliveryPromises(Shown) IN
    weekdayOf(DayOf(now)) # 6 /\ isCountingDown(promise)
      => \A w \in basket :
           DayOf(Projections(now)[w].pickup.at) <= DayOf(promise.fulfilledAt)

(* A date the chip does not mark as being renewed is the date a read would  *)
(* tell now, but for the same exception, and until the day ends: a page     *)
(* computed after a cut-off is never marked, however long it stays open.    *)
UnflaggedIsFresh ==
    LET shown == Shown IN
    \A w \in basket :
      DayOf(now) = DayOf(computedAt) /\ weekdayOf(DayOf(now)) # 6 /\ ~isWarehouseSnapshotStale(shown[w])
        => DayOf(shown[w].pickup.at) = DayOf(Projections(now)[w].pickup.at)

(* use-cutoff-refresh.ts: "Re-reads availability the moment an order        *)
(* cut-off passes."  Refuted: a timer is set when the cut-offs change, and  *)
(* the read at the first of a day's cut-offs names the same ones.           *)
PassedCutoffIsReread ==
    \A w \in basket : ~(computedAt < Shown[w].cutoffAt /\ Shown[w].cutoffAt < now)
==============================================================================
