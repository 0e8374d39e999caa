---------------------------- MODULE MCStorefront ----------------------------
(***************************************************************************)
(* What runs in the browser before an order: the search box, the filters of *)
(* the search page, the delivery dates it shows, and its copy of the cart.  *)
(* They share no state and are explored side by side: each behaviour is of  *)
(* one of them, and the others stay as they began.                          *)
(*                                                                          *)
(* Brands, types and kit codes are alike: of one article they are fixed.    *)
(***************************************************************************)
EXTENDS DeliverySchedule, SearchBar, SearchFilters, CartMirror
LOCAL INSTANCE FiniteSetsExt

CONSTANT MaxEvents   \* bound: what shopper, Clerk and other devices do together

VARIABLE part

NoBasket ==
    /\ firstWeekday = 6 /\ official = {} /\ easter = {} /\ holidays = {} /\ basket = {}
    /\ now = Min(Instants) /\ computedAt = now /\ timer = NoTimer

OneBrand == CHOOSE b \in Brands : TRUE
OneType == CHOOSE t \in Types : TRUE

IdleBox == scope = "generic" /\ isExact = FALSE

IdleFilters ==
    /\ catalogue = [a \in Listed |-> [brand |-> OneBrand, type |-> OneType, leaf |-> "pads",
                                      width |-> "200", kit |-> "S"]]
    /\ here = NewSearch

OneIsFixed ==
    LET a == CHOOSE w \in Listed : TRUE
    IN  catalogue[a].brand = OneBrand /\ catalogue[a].type = OneType /\ catalogue[a].kit = "S"

MirrorAlone ==
    /\ clerkUser = "guest" /\ mirror = EmptyMirror /\ token = 0
    /\ \A i \in DOMAIN carts : carts[i].owner = "none"

MCInit ==
    /\ part \in {"schedule", "box", "filters", "mirror"}
    /\ IF part = "schedule" THEN ScheduleInit ELSE NoBasket
    /\ IF part = "box" THEN SearchBarInit ELSE IdleBox /\ SearchBarInit
    /\ IF part = "filters" THEN SearchFiltersInit /\ OneIsFixed
       ELSE IdleFilters /\ SearchFiltersInit
    /\ MirrorInit /\ (part # "mirror" => MirrorAlone)

MCNext ==
    /\ \/ part = "schedule" /\ ScheduleNext
          /\ UNCHANGED <<SearchBarVars, FilterVars, MirrorVars>>
       \/ part = "box" /\ SearchBarNext
          /\ UNCHANGED <<ScheduleVars, FilterVars, MirrorVars>>
       \/ part = "filters" /\ SearchFiltersNext
          /\ UNCHANGED <<ScheduleVars, SearchBarVars, MirrorVars>>
       \/ /\ part = "mirror" /\ MirrorNext
          /\ clicks' + sessions' + reads' <= MaxEvents
          /\ UNCHANGED <<ScheduleVars, SearchBarVars, FilterVars>>
    /\ UNCHANGED part

MCSpec ==
    MCInit /\ [][MCNext]_<<ScheduleVars, SearchBarVars, FilterVars, MirrorVars, part>>

(* Every variable of every part has its type.                               *)
TypesOK == ScheduleTypeOK /\ SearchBarTypeOK /\ FiltersTypeOK /\ MirrorTypeOK
==============================================================================
