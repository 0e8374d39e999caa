------------------------------ MODULE Checkout ------------------------------
(***************************************************************************)
(* Checkout: the page that shows what an order costs and places it at that  *)
(* total (apps/web: hooks/use-place-order.ts, lib/checkout/), and the API   *)
(* that prices it (checkout.service.ts) and accepts it only as it was shown *)
(* (orders.service.ts).  One cart; between any two steps its lines may      *)
(* change on another device, a price may move, a line sell out and an       *)
(* office close.  Money is abstracted to what it is made of: the price of   *)
(* the goods and the delivery it includes.  Payment is on delivery, the     *)
(* only method the button accepts.                                          *)
(***************************************************************************)
EXTENDS Naturals, FiniteSets

CONSTANTS
    Destinations,  \* the offices and addresses on offer
    MaxMoves,      \* bound: what happens to the cart, its price and the offices
    MaxOutages     \* bound: calls and bot checks that fail

ASSUME CheckoutAssumption ==
    MaxMoves \in Nat /\ MaxOutages \in Nat /\ "pickup" \notin Destinations

VARIABLES
    shop,      \* the server: the cart's version, its price, whether every line
               \* can be ordered, the destinations served, whether the
               \* customer's details are complete
    order,     \* the order placed from the cart, as a set of at most one
    screen,    \* the page: the cart version and delivery chosen, whether the
               \* lines are orderable and the contact complete, as last read
    goods,     \* the totals last read, for summaries without a delivery, and
               \* the cart version they were asked for
    quote,     \* the quote of the destination and version on screen
    stale,     \* the reads a refusal asked for, not answered yet
    call,      \* the mutation, the request it was sent with, and the order the
               \* server priced for it
    late,      \* the orders priced for calls the page no longer waits for
    shown,     \* what the page showed at each click
    moves, outages

CheckoutVars == <<shop, order, screen, goods, quote, stale, call, late, shown, moves,
                  outages>>

DeliveryChoices == Destinations \union {"pickup"}
NoChoice == "none"

(* An order's money: the goods at a price, and the delivery it includes.    *)
Totals == [price : Nat, delivery : DeliveryChoices]
GoodsAlone(price) == [price |-> price, delivery |-> "pickup"]

OrderRequests == [version : Nat, total : Totals, delivery : DeliveryChoices]
NoRequest == [version |-> 0, total |-> GoodsAlone(0), delivery |-> "pickup"]

Reads == {"availability", "totals", "quote", "cart", "profile"}

(***************************************************************************)
(* The page.                                                                *)
(***************************************************************************)
NoGoods == [at |-> "none", asked |-> 0, version |-> 0, price |-> 0]
NoQuote == [at |-> "pending", version |-> 0, total |-> GoodsAlone(0)]

(* useDeliverySummary and summaryMoney: the quote's money for a courier,    *)
(* the goods' otherwise.                                                    *)
Money ==
    IF screen.choice \in Destinations /\ quote.at = "quoted"
      THEN [at |-> "read", version |-> quote.version, total |-> quote.total,
            isDeliveryIncluded |-> TRUE]
      ELSE [at |-> goods.at, version |-> goods.version, total |-> GoodsAlone(goods.price),
            isDeliveryIncluded |-> screen.choice = "pickup"]

(* The request the button would send, if it would send one.                 *)
placeOrderRequestOf ==
    IF /\ Money.at = "read" /\ Money.isDeliveryIncluded
       /\ Money.version = screen.version /\ screen.version # 0
       /\ screen.isContactComplete /\ screen.areLinesOrderable
       /\ screen.choice # NoChoice
      THEN {[version |-> Money.version, total |-> Money.total, delivery |-> screen.choice]}
      ELSE {}

isBusy == call.at \in {"preparing", "sent", "pricing", "answered", "placed"}

World == <<shop, order, late, moves>>

(* The query key holds the destination and the cart's version: another of   *)
(* either is another quote.                                                 *)
Choose(d) ==
    /\ call.at # "placed"
    /\ screen.choice # d
    /\ screen' = [screen EXCEPT !.choice = d]
    /\ quote' = NoQuote
    /\ UNCHANGED <<goods, stale, call, shown, outages>>

(* place: a guest's click solves the bot check first.                       *)
Place ==
    /\ ~isBusy
    /\ \E r \in placeOrderRequestOf :
         call' = [call EXCEPT !.at = IF call.isQuickOrder THEN "preparing" ELSE "sent",
                              !.sent = r]
    /\ shown' = shown \union
         {[version |-> screen.version, total |-> Money.total, delivery |-> screen.choice]}
    /\ UNCHANGED <<World, screen, goods, quote, stale, outages>>

BotCheckSolved ==
    /\ call.at = "preparing"
    /\ call' = [call EXCEPT !.at = "sent"]
    /\ UNCHANGED <<World, screen, goods, quote, stale, shown, outages>>

BotCheckFails ==
    /\ call.at = "preparing" /\ outages < MaxOutages /\ outages' = outages + 1
    /\ call' = [call EXCEPT !.at = "idle", !.sent = NoRequest]
    /\ UNCHANGED <<World, screen, goods, quote, stale, shown>>

(***************************************************************************)
(* OrdersService.                                                           *)
(***************************************************************************)
Total(d) == [price |-> shop.price, delivery |-> d]

(* Mutant of Refusal: the total the customer saw is not asked for.          *)
refusalAtAnyTotal(r) ==
    IF ~call.isQuickOrder /\ ~shop.hasDetails THEN "details-required"
    ELSE IF order # {} THEN "none"
    ELSE IF r.version # shop.version THEN "cart-stale"
    ELSE IF ~shop.sellable THEN "unavailable"
    ELSE IF r.delivery \notin shop.served \union {"pickup"} THEN "delivery"
    ELSE "none"

(* What placeFromCart refuses a request for, before anything is written: in *)
(* the order it asks, the first that applies.                               *)
Refusal(r) ==
    IF ~call.isQuickOrder /\ ~shop.hasDetails THEN "details-required"
    ELSE IF order # {} THEN "none"
    ELSE IF r.version # shop.version THEN "cart-stale"
    ELSE IF ~shop.sellable THEN "unavailable"
    ELSE IF r.delivery \notin shop.served \union {"pickup"} THEN "delivery"
    ELSE IF r.total # Total(r.delivery) THEN "price-changed"
    ELSE "none"

(* The order as the server makes it: the lines of the cart it read, at what *)
(* they cost now.  Of the request it takes the delivery alone.              *)
Priced(d) == [version |-> shop.version, total |-> Total(d), delivery |-> d]

(* placeFromCart reads the cart and prices its lines.  A cart already       *)
(* ordered is answered with its order, and nothing is priced.               *)
ServerPrices ==
    LET refusal == Refusal(call.sent) IN
    /\ call.at = "sent"
    /\ call' = IF refusal = "none" /\ order = {}
                 THEN [call EXCEPT !.at = "pricing", !.priced = Priced(call.sent.delivery)]
                 ELSE [call EXCEPT !.at = "answered", !.failure = refusal]
    /\ UNCHANGED <<World, screen, goods, quote, stale, shown, outages>>

(* Mutant of Placed: a cart already ordered is ordered again.               *)
placeAgain(o) ==
    IF o.version # shop.version THEN order ELSE order \union {o}

(* OrdersRepository.place: under the cart's lock, of the version priced.    *)
(* The first order stands.                                                  *)
Placed(o) ==
    IF order # {} \/ o.version # shop.version THEN order ELSE {o}

ServerPlaces ==
    /\ call.at = "pricing"
    /\ order' = Placed(call.priced)
    /\ call' = [call EXCEPT !.at = "answered", !.priced = NoRequest,
                            !.failure = IF order' = {} THEN "cart-stale" ELSE "none"]
    /\ UNCHANGED <<shop, late, moves, screen, goods, quote, stale, shown, outages>>

(* The connection is gone; the server goes on with the order it priced.     *)
ServerPlacesLate ==
    /\ \E o \in late : order' = Placed(o) /\ late' = late \ {o}
    /\ UNCHANGED <<shop, moves, screen, goods, quote, stale, call, shown, outages>>

(* What only another attempt answers: an outage, a lost answer, a bot check *)
(* the API did not accept, a rate limit.                                    *)
CallFails ==
    /\ call.at \in {"sent", "pricing", "answered"} /\ outages < MaxOutages
    /\ outages' = outages + 1
    /\ call' = [call EXCEPT !.at = "answered", !.priced = NoRequest, !.failure = "retry"]
    /\ late' = IF call.at = "pricing" THEN late \union {call.priced} ELSE late
    /\ UNCHANGED <<shop, order, moves, screen, goods, quote, stale, shown>>

(* Mutant of RECOVERY_QUERY_KEYS: a changed price re-reads the stock alone. *)
recoverStockOnly(kind) ==
    CASE kind \in {"price-changed", "unavailable"} -> {"availability"}
      [] kind = "cart-stale" -> {"cart", "totals", "quote"}
      [] kind = "details-required" -> {"profile"}
      [] kind = "delivery" -> {"quote"}
      [] OTHER -> {}

RECOVERY_QUERY_KEYS(kind) ==
    CASE kind \in {"price-changed", "unavailable"} -> {"availability", "totals", "quote"}
      [] kind = "cart-stale" -> {"cart", "totals", "quote"}
      [] kind = "details-required" -> {"profile"}
      [] kind = "delivery" -> {"quote"}
      [] OTHER -> {}

(* onSuccess leaves for the order's page and forgets the cart; onError      *)
(* re-reads what the refusal names, which is all the notice of it changes.  *)
AnswerLands ==
    /\ call.at = "answered"
    /\ IF call.failure = "none"
         THEN /\ call' = [call EXCEPT !.at = "placed"]
              /\ stale' = stale \union {"cart"}
         ELSE /\ call' = [call EXCEPT !.at = "idle", !.sent = NoRequest, !.failure = "none"]
              /\ stale' = stale \union RECOVERY_QUERY_KEYS(call.failure)
    /\ UNCHANGED <<World, screen, goods, quote, shown, outages>>

(***************************************************************************)
(* The reads.  Each is made of what the server holds now, and kept under    *)
(* the key on screen: the cart's version, the destination.                  *)
(***************************************************************************)
Answered(read) == stale' = stale \ {read}

ReadQuiet == UNCHANGED <<World, call, shown, outages>>

(* CheckoutService.totals answers for the cart as it is, whatever version   *)
(* it was asked for.                                                        *)
TotalsRead ==
    /\ screen.version # 0
    /\ goods' = [at |-> "read", asked |-> screen.version, version |-> shop.version,
                 price |-> shop.price]
    /\ Answered("totals") /\ ReadQuiet /\ UNCHANGED <<screen, quote>>

(* CheckoutService.quote.  A line that sold out fails a quote paid on       *)
(* delivery.                                                                *)
QuoteRead ==
    /\ screen.version # 0 /\ screen.choice \in Destinations
    /\ quote' = [at |-> IF ~shop.sellable THEN "failed"
                        ELSE IF screen.choice \in shop.served THEN "quoted" ELSE "unusable",
                 version |-> shop.version,
                 total |-> Total(screen.choice)]
    /\ Answered("quote") /\ ReadQuiet /\ UNCHANGED <<screen, goods>>

AvailabilityRead ==
    /\ screen' = [screen EXCEPT !.areLinesOrderable = shop.sellable]
    /\ Answered("availability") /\ ReadQuiet /\ UNCHANGED <<goods, quote>>

ProfileRead ==
    /\ ~call.isQuickOrder
    /\ screen' = [screen EXCEPT !.isContactComplete = shop.hasDetails]
    /\ Answered("profile") /\ ReadQuiet /\ UNCHANGED <<goods, quote>>

(* Another version of the cart is another quote; it is another availability *)
(* when it holds other articles, and the same when only quantities changed. *)
ShowCart(version) ==
    IF version = screen.version THEN UNCHANGED <<screen, quote>>
    ELSE /\ quote' = NoQuote
         /\ \E isOrderable \in {screen.areLinesOrderable, shop.sellable} :
              screen' = [screen EXCEPT !.version = version,
                                       !.areLinesOrderable = isOrderable]

(* An ordered cart is no cart any more, and a page without one orders none. *)
CartRead ==
    /\ ShowCart(IF order = {} THEN shop.version ELSE 0)
    /\ Answered("cart") /\ ReadQuiet /\ UNCHANGED goods

(* What the page asks for by itself: a key it never read, or one a refusal  *)
(* invalidated.  No refusal, no reading of the cart again, nor of the       *)
(* stock: a total of another version than the cart on screen asks for       *)
(* nothing.                                                                 *)
ReadTotals == ("totals" \in stale \/ goods.asked # screen.version) /\ TotalsRead
ReadQuote == ("quote" \in stale \/ quote.at = "pending") /\ QuoteRead
ReadAvailability == "availability" \in stale /\ AvailabilityRead
ReadProfile == "profile" \in stale /\ ProfileRead
ReadCart == "cart" \in stale /\ CartRead

CheckoutReads == ReadTotals \/ ReadQuote \/ ReadAvailability \/ ReadProfile \/ ReadCart

(* And what it reads again when somebody looks at the window again, or it   *)
(* is back online, once an answer has aged, or at a cut-off: never, maybe.  *)
LookAgain == TotalsRead \/ QuoteRead \/ AvailabilityRead \/ ProfileRead \/ CartRead

(***************************************************************************)
(* The customer answers what the page says, and the world moves.            *)
(***************************************************************************)
(* The write is answered with the whole cart, which the page takes over.    *)
DropLine ==
    /\ ~screen.areLinesOrderable /\ order = {}
    /\ shop' = [shop EXCEPT !.version = @ + 1, !.sellable = TRUE]
    /\ screen' = [screen EXCEPT !.version = shop.version + 1, !.areLinesOrderable = TRUE]
    /\ quote' = NoQuote
    /\ UNCHANGED <<order, late, moves, goods, stale, call, shown, outages>>

CompleteProfile ==
    /\ ~screen.isContactComplete /\ ~call.isQuickOrder
    /\ shop' = [shop EXCEPT !.hasDetails = TRUE]
    /\ screen' = [screen EXCEPT !.isContactComplete = TRUE]
    /\ UNCHANGED <<order, late, moves, goods, quote, stale, call, shown, outages>>

ChooseAnother ==
    /\ screen.choice = NoChoice \/ quote.at = "unusable"
    /\ \E d \in shop.served \union {"pickup"} : Choose(d)
    /\ UNCHANGED World

ChangeMind ==
    /\ moves < MaxMoves /\ moves' = moves + 1
    /\ \E d \in DeliveryChoices : Choose(d)
    /\ UNCHANGED <<shop, order, late>>

WorldMoves ==
    /\ moves < MaxMoves /\ moves' = moves + 1
    /\ \/ order = {} /\ shop' = [shop EXCEPT !.version = @ + 1]
       \/ shop' = [shop EXCEPT !.price = @ + 1]
       \/ shop.sellable /\ shop' = [shop EXCEPT !.sellable = FALSE]
       \/ shop.hasDetails /\ shop' = [shop EXCEPT !.hasDetails = FALSE]
       \/ \E d \in shop.served : shop' = [shop EXCEPT !.served = @ \ {d}]
    /\ UNCHANGED <<order, late, screen, goods, quote, stale, call, shown, outages>>

CheckoutInit ==
    /\ shop = [version |-> 1, price |-> 1, sellable |-> TRUE, served |-> Destinations,
               hasDetails |-> TRUE]
    /\ order = {}
    /\ screen = [version |-> 1, choice |-> NoChoice, areLinesOrderable |-> TRUE,
                 isContactComplete |-> TRUE]
    /\ goods = NoGoods /\ quote = NoQuote /\ stale = {} /\ shown = {} /\ late = {}
    /\ \E isQuickOrder \in BOOLEAN :
         call = [at |-> "idle", sent |-> NoRequest, priced |-> NoRequest,
                 failure |-> "none", isQuickOrder |-> isQuickOrder]
    /\ moves = 0 /\ outages = 0

Calls == Place \/ BotCheckSolved \/ ServerPrices \/ ServerPlaces \/ AnswerLands

CheckoutNext ==
    \/ Calls \/ BotCheckFails \/ CallFails \/ ServerPlacesLate \/ CheckoutReads \/ LookAgain
    \/ DropLine \/ CompleteProfile \/ ChooseAnother
    \/ ChangeMind \/ WorldMoves

(* Calls, and the reads the page asks for, are answered; the customer       *)
(* answers what the page says and clicks again.  Nobody has to look at the  *)
(* window again.                                                            *)
CheckoutFairness ==
    /\ WF_CheckoutVars(ReadTotals) /\ WF_CheckoutVars(ReadQuote)
    /\ WF_CheckoutVars(ReadAvailability) /\ WF_CheckoutVars(ReadProfile)
    /\ WF_CheckoutVars(ReadCart)
    /\ SF_CheckoutVars(Place)
    /\ WF_CheckoutVars(BotCheckSolved) /\ WF_CheckoutVars(ServerPrices)
    /\ WF_CheckoutVars(ServerPlaces) /\ WF_CheckoutVars(AnswerLands)
    /\ SF_CheckoutVars(DropLine) /\ SF_CheckoutVars(CompleteProfile)
    /\ SF_CheckoutVars(ChooseAnother)

CheckoutSpec == CheckoutInit /\ [][CheckoutNext]_CheckoutVars

CheckoutFairSpec == CheckoutSpec /\ CheckoutFairness

(***************************************************************************)
(* Properties.                                                              *)
(***************************************************************************)

(* Every variable has its type.                                             *)
CheckoutTypeOK ==
    /\ shop \in [version : Nat, price : Nat, sellable : BOOLEAN,
                 served : SUBSET Destinations, hasDetails : BOOLEAN]
    /\ order \in SUBSET OrderRequests /\ Cardinality(order) <= 1
    /\ screen \in [version : Nat, choice : DeliveryChoices \union {NoChoice},
                   areLinesOrderable : BOOLEAN, isContactComplete : BOOLEAN]
    /\ goods \in [at : {"none", "read"}, asked : Nat, version : Nat, price : Nat]
    /\ quote \in [at : {"pending", "quoted", "unusable", "failed"}, version : Nat,
                  total : Totals]
    /\ stale \subseteq Reads
    /\ call \in [at : {"idle", "preparing", "sent", "pricing", "answered", "placed"},
                 sent : OrderRequests, priced : OrderRequests, isQuickOrder : BOOLEAN,
                 failure : {"none", "retry", "cart-stale", "unavailable", "delivery",
                            "price-changed", "details-required"}]
    /\ shown \subseteq OrderRequests /\ late \subseteq OrderRequests
    /\ moves \in 0 .. MaxMoves /\ outages \in 0 .. MaxOutages

(* An order is of the lines, at the total and with the delivery that were   *)
(* on the page together when the customer clicked.  The server writes the   *)
(* lines it read, at the total it made of them: what it checks of the       *)
(* request is all that keeps out lines another device wrote since, and a    *)
(* price that moved.                                                        *)
OrderedAsShown == order \subseteq shown

(* The page has no order to send, no refusal to act on and nothing left to  *)
(* read: its total is of a newer cart than the lines it shows               *)
(* (place-order.ts:77), or its quote was refused for a line it shows as     *)
(* orderable.                                                               *)
IsLeftBehind ==
    /\ ~isBusy /\ {"cart", "availability"} \intersect stale = {}
    /\ \/ Money.at = "read" /\ Money.isDeliveryIncluded /\ Money.version > screen.version
       \/ quote.at = "failed" /\ screen.areLinesOrderable

(* Every refusal names something the page then re-reads or the customer can *)
(* change: whatever moved meanwhile, an order clicked again and again is    *)
(* placed once the world stands still, or the page is left behind without a *)
(* refusal until somebody looks at its window again.                        *)
GoesThrough == <>(order # {}) \/ <>[]IsLeftBehind
==============================================================================
