--------------------------- MODULE CheckoutProofs ---------------------------
(***************************************************************************)
(* Proofs about Checkout, for any destinations, any number of moves of the  *)
(* cart, its price, its stock and the offices, and any number of calls that *)
(* fail: an order is of what the page showed at a click.                    *)
(*                                                                          *)
(* And about Offers, for any rows of stock, in any number and of any price: *)
(* what a part costs, whether the page and an order agree on what can be    *)
(* bought, and the warehouse a line is promised from.                       *)
(*                                                                          *)
(* And about DeliverySchedule, for any opening hours and cut-offs, any days *)
(* and any holidays: when a part is there, and what a page may say of it.   *)
(***************************************************************************)
EXTENDS Checkout, Offers, DeliverySchedule, FiniteSetTheorems, SequenceTheorems, WellFoundedInduction, TLAPS

-----------------------------------------------------------------------------
(* Checkout.                                                                *)

Shop == [version : Nat, price : Nat, sellable : BOOLEAN,
         served : SUBSET Destinations, hasDetails : BOOLEAN]
Screen == [version : Nat, choice : DeliveryChoices \union {NoChoice},
           areLinesOrderable : BOOLEAN, isContactComplete : BOOLEAN]
Goods == [at : {"none", "read"}, asked : Nat, version : Nat, price : Nat]
Quotes == [at : {"pending", "quoted", "unusable", "failed"}, version : Nat, total : Totals]
OrderCalls ==
    [at : {"idle", "preparing", "sent", "pricing", "answered", "placed"},
     sent : OrderRequests, priced : OrderRequests, isQuickOrder : BOOLEAN,
     failure : {"none", "retry", "cart-stale", "unavailable", "delivery",
                "price-changed", "details-required"}]

(* A request on its way to the server is one the page showed at a click.    *)
SentAsShown == call.at \in {"preparing", "sent"} => call.sent \in shown

(* So is an order the server priced, for the page still there or for one    *)
(* that is not: of another version, or at another total, it was refused.    *)
PricedAsShown ==
    /\ call.at = "pricing" => call.priced \in shown
    /\ late \subseteq shown

(* The inductive invariant, by what a step may leave alone: the server's    *)
(* side, what the page has read, and the call between them.                 *)
ServerOK ==
    /\ shop \in Shop /\ order \in SUBSET OrderRequests /\ Cardinality(order) <= 1
    /\ moves \in 0 .. MaxMoves
PageOK == screen \in Screen /\ goods \in Goods /\ quote \in Quotes /\ stale \subseteq Reads
CallOK ==
    /\ call \in OrderCalls /\ shown \subseteq OrderRequests /\ outages \in 0 .. MaxOutages
    /\ SentAsShown /\ PricedAsShown /\ OrderedAsShown

CheckoutInv == ServerOK /\ PageOK /\ CallOK

-----------------------------------------------------------------------------
(* What the operators return.                                               *)
LEMMA MoneyType ==
    ASSUME PageOK
    PROVE  /\ Money.at = "read" => Money.version \in Nat
           /\ Money.total \in Totals
<1>1. "pickup" \in DeliveryChoices
    BY DEF DeliveryChoices
<1> QED BY <1>1 DEF PageOK, Money, Goods, Quotes, GoodsAlone, Totals

(* What the button would send is what is on the page: its lines' version,   *)
(* its total and its delivery.                                              *)
LEMMA RequestIsOnScreen ==
    ASSUME PageOK, NEW r \in placeOrderRequestOf
    PROVE  /\ r \in OrderRequests
           /\ r = [version |-> screen.version, total |-> Money.total,
                   delivery |-> screen.choice]
<1>1. /\ Money.at = "read" /\ Money.version = screen.version /\ screen.choice # NoChoice
      /\ r = [version |-> Money.version, total |-> Money.total, delivery |-> screen.choice]
    BY DEF placeOrderRequestOf
<1>2. screen.version \in Nat /\ screen.choice \in DeliveryChoices
    BY <1>1 DEF PageOK, Screen
<1> QED BY <1>1, <1>2, MoneyType DEF OrderRequests

LEMMA TotalType ==
    ASSUME ServerOK, NEW d \in DeliveryChoices
    PROVE  Total(d) \in Totals
BY DEF ServerOK, Shop, Total, Totals

LEMMA RefusalType ==
    ASSUME NEW r
    PROVE  Refusal(r) \in {"none", "cart-stale", "unavailable", "delivery", "price-changed",
                           "details-required"}
BY DEF Refusal

LEMMA RecoveryType == ASSUME NEW kind PROVE RECOVERY_QUERY_KEYS(kind) \subseteq Reads
BY DEF RECOVERY_QUERY_KEYS, Reads

LEMMA NoQuoteType == NoQuote \in Quotes /\ NoGoods \in Goods /\ NoRequest \in OrderRequests
BY DEF NoQuote, NoGoods, NoRequest, Quotes, Goods, OrderRequests, GoodsAlone, Totals,
       DeliveryChoices

LEMMA InitHolds == CheckoutInit => CheckoutInv
<1> SUFFICES ASSUME CheckoutInit PROVE ServerOK /\ PageOK /\ CallOK
    BY DEF CheckoutInv
<1>1. ServerOK
    BY FS_EmptySet, CheckoutAssumption DEF CheckoutInit, ServerOK, Shop
<1>2. PageOK
    BY NoQuoteType DEF CheckoutInit, PageOK, Screen
<1>3. CallOK
    BY NoQuoteType, CheckoutAssumption DEF CheckoutInit, CallOK, OrderCalls, SentAsShown,
         PricedAsShown, OrderedAsShown
<1> QED BY <1>1, <1>2, <1>3

-----------------------------------------------------------------------------
(* The page.                                                                *)
LEMMA ChooseKeeps ==
    ASSUME CheckoutInv, NEW d \in DeliveryChoices, Choose(d), UNCHANGED <<shop, order, late>>,
           moves' \in 0 .. MaxMoves
    PROVE  CheckoutInv'
<1> USE DEF CheckoutInv
<1>1. /\ screen' = [screen EXCEPT !.choice = d] /\ quote' = NoQuote
      /\ UNCHANGED <<goods, stale, call, shown, outages>>
    BY DEF Choose
<1>2. PageOK'
    BY <1>1, NoQuoteType DEF PageOK, Screen
<1>3. ServerOK' /\ CallOK'
    BY <1>1 DEF ServerOK, CallOK, SentAsShown, PricedAsShown, OrderedAsShown
<1> QED BY <1>2, <1>3

LEMMA PlaceKeeps ==
    ASSUME CheckoutInv, Place
    PROVE  CheckoutInv'
<1> USE DEF CheckoutInv
<1>1. PICK r \in placeOrderRequestOf :
        call' = [call EXCEPT !.at = IF call.isQuickOrder THEN "preparing" ELSE "sent",
                             !.sent = r]
    BY DEF Place
<1>2. /\ shown' = shown \union
           {[version |-> screen.version, total |-> Money.total, delivery |-> screen.choice]}
      /\ UNCHANGED <<shop, order, late, moves, screen, goods, quote, stale, outages>>
    BY DEF Place, World
<1>3. r \in OrderRequests /\ shown' = shown \union {r}
    BY <1>2, RequestIsOnScreen
<1>4. call' \in OrderCalls /\ call'.sent = r /\ call'.at \in {"preparing", "sent"}
    BY <1>1, <1>3 DEF CallOK, OrderCalls
<1>5. SentAsShown' /\ PricedAsShown' /\ OrderedAsShown'
    BY <1>2, <1>3, <1>4 DEF CallOK, SentAsShown, PricedAsShown, OrderedAsShown
<1>6. CallOK'
    BY <1>2, <1>3, <1>4, <1>5 DEF CallOK
<1>7. ServerOK' /\ PageOK'
    BY <1>2 DEF ServerOK, PageOK
<1> QED BY <1>6, <1>7

(* A step of the call that sends no other request, prices none and writes   *)
(* no order.                                                                *)
LEMMA CallGoesOn ==
    ASSUME CheckoutInv, call' \in OrderCalls,
           outages' \in 0 .. MaxOutages, stale' \subseteq Reads,
           call'.at \in {"preparing", "sent"} =>
             call.at \in {"preparing", "sent"} /\ call'.sent = call.sent,
           call'.at = "pricing" => call'.priced \in shown,
           late' \subseteq shown,
           UNCHANGED <<shop, order, moves, screen, goods, quote, shown>>
    PROVE  CheckoutInv'
<1> USE DEF CheckoutInv
<1>1. CallOK'
    BY DEF CallOK, SentAsShown, PricedAsShown, OrderedAsShown
<1>2. ServerOK' /\ PageOK'
    BY DEF ServerOK, PageOK
<1> QED BY <1>1, <1>2

(* What the server makes of a request it does not refuse is that request:   *)
(* the version and the total are the ones it was sent with.                 *)
LEMMA PricedIsSent ==
    ASSUME CheckoutInv, call.at = "sent", Refusal(call.sent) = "none", order = {}
    PROVE  Priced(call.sent.delivery) = call.sent
<1>1. call.sent.version = shop.version /\ call.sent.total = Total(call.sent.delivery)
    BY DEF Refusal
<1>2. call.sent \in OrderRequests
    BY DEF CheckoutInv, CallOK, OrderCalls
<1> QED BY <1>1, <1>2 DEF Priced, OrderRequests

LEMMA CallSteps ==
    ASSUME CheckoutInv,
           BotCheckSolved \/ BotCheckFails \/ ServerPrices \/ CallFails \/ AnswerLands
    PROVE  CheckoutInv'
<1> USE DEF CheckoutInv, World
<1>1. /\ call \in OrderCalls /\ outages \in 0 .. MaxOutages /\ stale \subseteq Reads
      /\ late \subseteq shown /\ NoRequest \in OrderRequests
    BY NoQuoteType DEF CallOK, PageOK, PricedAsShown
<1>2. CASE BotCheckSolved
  <2>1. call' \in OrderCalls /\ call'.sent = call.sent /\ call'.at = "sent"
    BY <1>1, <1>2 DEF BotCheckSolved, OrderCalls
  <2> QED BY <1>1, <1>2, <2>1, CallGoesOn DEF BotCheckSolved
<1>3. CASE BotCheckFails
  <2>1. call' \in OrderCalls /\ call'.at = "idle"
    BY <1>1, <1>3 DEF BotCheckFails, OrderCalls
  <2>2. outages' \in 0 .. MaxOutages
    BY <1>1, <1>3, CheckoutAssumption DEF BotCheckFails
  <2> QED BY <1>1, <1>3, <2>1, <2>2, CallGoesOn DEF BotCheckFails
<1>4. CASE ServerPrices
  <2>1. CASE Refusal(call.sent) = "none" /\ order = {}
    <3>1. call' = [call EXCEPT !.at = "pricing", !.priced = call.sent]
        BY <1>4, <2>1, PricedIsSent DEF ServerPrices
    <3>2. call' \in OrderCalls /\ call'.at = "pricing" /\ call'.priced \in shown
        BY <1>1, <1>4, <3>1 DEF ServerPrices, OrderCalls, CallOK, SentAsShown
    <3> QED BY <1>1, <1>4, <3>2, CallGoesOn DEF ServerPrices
  <2>2. CASE ~(Refusal(call.sent) = "none" /\ order = {})
    <3>1. call' = [call EXCEPT !.at = "answered", !.failure = Refusal(call.sent)]
        BY <1>4, <2>2 DEF ServerPrices
    <3>2. call' \in OrderCalls /\ call'.at = "answered"
        BY <1>1, <3>1, RefusalType DEF OrderCalls
    <3> QED BY <1>1, <1>4, <3>2, CallGoesOn DEF ServerPrices
  <2> QED BY <2>1, <2>2
<1>5. CASE CallFails
  <2>1. call' \in OrderCalls /\ call'.at = "answered"
    BY <1>1, <1>5 DEF CallFails, OrderCalls
  <2>2. outages' \in 0 .. MaxOutages
    BY <1>1, <1>5, CheckoutAssumption DEF CallFails
  <2>3. late' \subseteq shown
    BY <1>1, <1>5 DEF CallFails, CallOK, PricedAsShown
  <2> QED BY <1>1, <1>5, <2>1, <2>2, <2>3, CallGoesOn DEF CallFails
<1>6. CASE AnswerLands
  <2>1. call' \in OrderCalls /\ call'.at \in {"placed", "idle"}
    BY <1>1, <1>6 DEF AnswerLands, OrderCalls
  <2>2. stale' \subseteq Reads
    BY <1>1, <1>6, RecoveryType DEF AnswerLands, Reads
  <2> QED BY <1>1, <1>6, <2>1, <2>2, CallGoesOn DEF AnswerLands
<1> QED BY <1>2, <1>3, <1>4, <1>5, <1>6

(* The order, when one is written, is one the server priced as shown.       *)
LEMMA PlacesKeeps ==
    ASSUME CheckoutInv, ServerPlaces \/ ServerPlacesLate
    PROVE  CheckoutInv'
<1> USE DEF CheckoutInv
<1>1. PICK o \in shown : order' = Placed(o)
    BY DEF ServerPlaces, ServerPlacesLate, CallOK, PricedAsShown
<1>2. /\ UNCHANGED <<shop, moves, screen, goods, quote, stale, shown, outages>>
      /\ late' \subseteq late
    BY DEF ServerPlaces, ServerPlacesLate
<1>3. o \in OrderRequests /\ order' \in {order, {o}}
    BY <1>1 DEF CallOK, Placed
<1>4. ServerOK'
    BY <1>2, <1>3, FS_Singleton DEF ServerOK
<1>5. call' \in OrderCalls /\ call'.at \in {"answered", call.at}
      /\ (call'.at = call.at => call' = call \/ call'.at = "answered")
  <2>1. CASE ServerPlaces
    <3>1. call' = [call EXCEPT !.at = "answered", !.priced = NoRequest,
                     !.failure = IF order' = {} THEN "cart-stale" ELSE "none"]
        BY <2>1 DEF ServerPlaces
    <3> QED BY <3>1, NoQuoteType DEF CallOK, OrderCalls
  <2>2. CASE ServerPlacesLate
    BY <2>2 DEF ServerPlacesLate, CallOK
  <2> QED BY <2>1, <2>2
<1>6. CallOK'
    BY <1>1, <1>2, <1>3, <1>5 DEF CallOK, SentAsShown, PricedAsShown, OrderedAsShown
<1>7. PageOK'
    BY <1>2 DEF PageOK
<1> QED BY <1>4, <1>6, <1>7

(* What is read, and what the customer answers, changes the page alone.     *)
LEMMA ReadsKeep ==
    ASSUME CheckoutInv, CheckoutReads \/ LookAgain
    PROVE  CheckoutInv'
<1> USE DEF CheckoutInv
<1>0. TotalsRead \/ QuoteRead \/ AvailabilityRead \/ ProfileRead \/ CartRead
    BY DEF CheckoutReads, LookAgain, ReadTotals, ReadQuote, ReadAvailability, ReadProfile,
           ReadCart
<1>1. /\ UNCHANGED <<shop, order, late, moves, call, shown, outages>>
      /\ \E read \in Reads : stale' = stale \ {read}
    BY <1>0 DEF TotalsRead, QuoteRead, AvailabilityRead, ProfileRead, CartRead,
         Answered, ReadQuiet, World, Reads
<1>2. shop \in Shop /\ screen \in Screen /\ goods \in Goods /\ quote \in Quotes
    BY DEF ServerOK, PageOK
<1>3. goods' \in Goods
    BY <1>0, <1>2 DEF TotalsRead, QuoteRead, AvailabilityRead, ProfileRead, CartRead,
         Shop, Screen, Goods
<1>4. quote' \in Quotes
  <2>1. CASE QuoteRead
    <3>1. Total(screen.choice) \in Totals
        BY <2>1, TotalType DEF QuoteRead, DeliveryChoices
    <3> QED BY <2>1, <3>1, <1>2 DEF QuoteRead, Quotes, Shop
  <2> QED BY <2>1, <1>0, <1>2, NoQuoteType DEF TotalsRead, AvailabilityRead, ProfileRead,
            CartRead, ShowCart
<1>5. screen' \in Screen
  <2>1. CASE CartRead
    <3> DEFINE version == IF order = {} THEN shop.version ELSE 0
    <3>1. version \in Nat
        BY <1>2 DEF Shop
    <3>2. ShowCart(version)
        BY <2>1 DEF CartRead
    <3> HIDE DEF version
    <3> QED BY <3>1, <3>2, <1>2 DEF ShowCart, Screen, Shop
  <2> QED BY <2>1, <1>0, <1>2 DEF TotalsRead, QuoteRead, AvailabilityRead, ProfileRead,
            Screen, Shop
<1>6. PageOK'
    BY <1>1, <1>3, <1>4, <1>5 DEF PageOK
<1>7. ServerOK' /\ CallOK'
    BY <1>1 DEF ServerOK, CallOK, SentAsShown, PricedAsShown, OrderedAsShown
<1> QED BY <1>6, <1>7

LEMMA WorldKeeps ==
    ASSUME CheckoutInv, DropLine \/ CompleteProfile \/ WorldMoves
    PROVE  CheckoutInv'
<1> USE DEF CheckoutInv
<1>1. UNCHANGED <<order, late, goods, stale, call, shown, outages>>
    BY DEF DropLine, CompleteProfile, WorldMoves
<1>2. shop \in Shop /\ screen \in Screen /\ quote \in Quotes
    BY DEF ServerOK, PageOK
<1>3. shop' \in Shop
  <2>1. shop.version + 1 \in Nat /\ shop.price + 1 \in Nat
      BY <1>2 DEF Shop
  <2>2. CASE DropLine
      BY <2>1, <2>2, <1>2 DEF DropLine, Shop
  <2>3. CASE CompleteProfile
      BY <2>3, <1>2 DEF CompleteProfile, Shop
  <2>4. CASE WorldMoves
    <3>1. [shop EXCEPT !.version = @ + 1] \in Shop
        BY <2>1, <1>2 DEF Shop
    <3>2. [shop EXCEPT !.price = @ + 1] \in Shop
        BY <2>1, <1>2 DEF Shop
    <3>3. [shop EXCEPT !.sellable = FALSE] \in Shop
        BY <1>2 DEF Shop
    <3>4. [shop EXCEPT !.hasDetails = FALSE] \in Shop
        BY <1>2 DEF Shop
    <3>5. \A d : [shop EXCEPT !.served = @ \ {d}] \in Shop
        BY <1>2 DEF Shop
    <3> QED BY <2>4, <3>1, <3>2, <3>3, <3>4, <3>5 DEF WorldMoves
  <2> QED BY <2>2, <2>3, <2>4
<1>4. screen' \in Screen /\ quote' \in Quotes
  <2>1. shop.version + 1 \in Nat
      BY <1>2 DEF Shop
  <2>2. CASE DropLine
      BY <2>1, <2>2, <1>2, NoQuoteType DEF DropLine, Screen
  <2>3. CASE CompleteProfile
      BY <2>3, <1>2 DEF CompleteProfile, Screen
  <2>4. CASE WorldMoves
      BY <2>4, <1>2 DEF WorldMoves
  <2> QED BY <2>2, <2>3, <2>4
<1>5. moves' \in 0 .. MaxMoves
    BY CheckoutAssumption DEF DropLine, CompleteProfile, WorldMoves, ServerOK
<1>6. ServerOK' /\ PageOK'
    BY <1>1, <1>3, <1>4, <1>5 DEF ServerOK, PageOK
<1>7. CallOK'
    BY <1>1 DEF CallOK, SentAsShown, PricedAsShown, OrderedAsShown
<1> QED BY <1>6, <1>7

-----------------------------------------------------------------------------
(* Every step keeps the invariant.                                          *)
LEMMA StepHolds ==
    ASSUME CheckoutInv, [CheckoutNext]_CheckoutVars
    PROVE  CheckoutInv'
<1>1. CASE UNCHANGED CheckoutVars
    BY <1>1 DEF CheckoutInv, CheckoutVars, ServerOK, PageOK, CallOK, SentAsShown,
           PricedAsShown, OrderedAsShown
<1>2. CASE ChooseAnother
  <2>1. shop.served \subseteq Destinations /\ moves \in 0 .. MaxMoves
    BY DEF CheckoutInv, ServerOK, Shop
  <2> QED BY <1>2, <2>1, ChooseKeeps DEF ChooseAnother, World, DeliveryChoices
<1>3. CASE ChangeMind
  <2>1. moves' \in 0 .. MaxMoves
    BY <1>3, CheckoutAssumption DEF ChangeMind, CheckoutInv, ServerOK
  <2> QED BY <1>3, <2>1, ChooseKeeps DEF ChangeMind
<1> QED BY <1>1, <1>2, <1>3, PlaceKeeps, CallSteps, PlacesKeeps, ReadsKeep, WorldKeeps
        DEF CheckoutNext, Calls

THEOREM CheckoutInvariant == CheckoutSpec => []CheckoutInv
BY InitHolds, StepHolds, PTL DEF CheckoutSpec

(* Every variable keeps its type, and a cart is ordered at most once.       *)
THEOREM CheckoutTypeCorrect == CheckoutSpec => []CheckoutTypeOK
<1>1. CheckoutInv => CheckoutTypeOK
    BY DEF CheckoutInv, ServerOK, PageOK, CallOK, PricedAsShown, Shop, Screen, Goods, Quotes,
           OrderCalls, CheckoutTypeOK
<1> QED BY <1>1, CheckoutInvariant, PTL

(* placeOrderRequestOf and OrdersService: whatever moves between two steps, *)
(* the lines the server read, at the total it made of them, are the cart    *)
(* version, the total and the delivery that were on the page together at a  *)
(* click.                                                                   *)
THEOREM OrderIsAsShown == CheckoutSpec => []OrderedAsShown
<1>1. CheckoutInv => OrderedAsShown
    BY DEF CheckoutInv, CallOK
<1> QED BY <1>1, CheckoutInvariant, PTL

-----------------------------------------------------------------------------
(* Offers.                                                                  *)

(* A set of naturals has a least one.                                       *)
LEMMA LeastOf ==
    ASSUME NEW S, S \subseteq Nat, S # {}
    PROVE  Min(S) \in S /\ \A n \in S : Min(S) <= n
<1> DEFINE R == OpToRel(<, Nat)
<1>1. IsWellFoundedOn(R, Nat)
    BY NatLessThanWellFounded
<1>2. \A x, y \in Nat : x < y => <<x, y>> \in R
    BY DEF OpToRel
<1> HIDE DEF R
<1>3. PICK x \in S : \A y \in S : ~ (<<y, x>> \in R)
    BY <1>1, WFMin
<1>4. ASSUME NEW y \in S PROVE x <= y
  <2>1. x \in Nat /\ y \in Nat
    OBVIOUS
  <2>2. ~(y < x)
    BY <1>2, <1>3, <2>1
  <2> QED BY <2>1, <2>2
<1> QED BY <1>4 DEF Min

(* The pieces that Pieces counts.                                           *)
Counted(held) == UNION {{n} \X (1 .. held[n]) : n \in DOMAIN held}

Quantities(held) == IsFiniteSet(DOMAIN held) /\ \A n \in DOMAIN held : held[n] \in Int

(* A piece is its row and its place among the row's.                        *)
LEMMA CountedPairs ==
    ASSUME NEW held
    PROVE  \A p : p \in Counted(held) <=>
                    \E n \in DOMAIN held : \E k \in 1 .. held[n] : p = <<n, k>>
BY DEF Counted

LEMMA CountedFinite ==
    ASSUME NEW held, Quantities(held)
    PROVE  IsFiniteSet(Counted(held)) /\ Pieces(held) = Cardinality(Counted(held))
<1> DEFINE T == {{n} \X (1 .. held[n]) : n \in DOMAIN held}
           f == [n \in DOMAIN held |-> {n} \X (1 .. held[n])]
<1>1. f \in Surjection(DOMAIN held, T)
    BY DEF Surjection
<1>2. ASSUME NEW n \in DOMAIN held PROVE IsFiniteSet({n} \X (1 .. held[n]))
  <2>1. IsFiniteSet({n})
    BY FS_Singleton
  <2>2. 1 \in Int /\ held[n] \in Int
    BY DEF Quantities
  <2>3. IsFiniteSet(1 .. held[n])
    BY <2>2, FS_Interval
  <2> QED BY <2>1, <2>3, FS_Product
<1>3. \A C \in T : IsFiniteSet(C)
    BY <1>2
<1>4. IsFiniteSet(DOMAIN held)
    BY DEF Quantities
<1>5. Counted(held) = UNION T
    BY DEF Counted
<1> HIDE DEF T, f
<1>6. IsFiniteSet(T)
    BY <1>1, <1>4, FS_Surjection
<1>7. IsFiniteSet(UNION T)
    BY <1>3, <1>6, FS_UNION
<1> QED BY <1>5, <1>7 DEF Counted, Pieces

LEMMA PiecesNat ==
    ASSUME NEW held, Quantities(held)
    PROVE  /\ Pieces(held) \in Nat
           /\ Pieces(held) = 0 <=> \A n \in DOMAIN held : held[n] <= 0
<1>1. /\ IsFiniteSet(Counted(held)) /\ Pieces(held) = Cardinality(Counted(held))
    BY CountedFinite
<1>2. Pieces(held) \in Nat
    BY <1>1, FS_CardinalityType
<1>3. Pieces(held) = 0 <=> Counted(held) = {}
    BY <1>1, FS_EmptySet
<1>4. ASSUME Counted(held) = {}, NEW n \in DOMAIN held PROVE held[n] <= 0
  <2>1. held[n] \in Int
    BY DEF Quantities
  <2>2. 1 .. held[n] = {}
    BY <1>4, CountedPairs
  <2> QED BY <2>1, <2>2
<1>5. ASSUME \A n \in DOMAIN held : held[n] <= 0 PROVE Counted(held) = {}
  <2>1. ASSUME NEW p \in Counted(held) PROVE FALSE
    <3>1. PICK n \in DOMAIN held : \E k \in 1 .. held[n] : p = <<n, k>>
        BY CountedPairs
    <3>2. held[n] \in Int /\ held[n] <= 0
        BY <1>5 DEF Quantities
    <3> QED BY <3>1, <3>2
  <2> QED BY <2>1
<1> QED BY <1>2, <1>3, <1>4, <1>5

(* Rows apart are counted apart.                                            *)
LEMMA PiecesApart ==
    ASSUME NEW held, NEW a, NEW b, Quantities(held),
           DOMAIN held = DOMAIN a \union DOMAIN b, DOMAIN a \intersect DOMAIN b = {},
           \A n \in DOMAIN a : a[n] = held[n], \A n \in DOMAIN b : b[n] = held[n]
    PROVE  /\ Quantities(a) /\ Quantities(b)
           /\ Pieces(held) = Pieces(a) + Pieces(b)
<1>1. Quantities(a) /\ Quantities(b)
  <2>1. IsFiniteSet(DOMAIN a) /\ IsFiniteSet(DOMAIN b)
    BY FS_Subset DEF Quantities
  <2> QED BY <2>1 DEF Quantities
<1>2. Counted(held) = Counted(a) \union Counted(b)
  <2>1. ASSUME NEW p \in Counted(held) PROVE p \in Counted(a) \union Counted(b)
    <3>1. PICK n \in DOMAIN held : \E k \in 1 .. held[n] : p = <<n, k>>
        BY CountedPairs
    <3>2. CASE n \in DOMAIN a
        BY <3>1, <3>2, CountedPairs
    <3>3. CASE n \in DOMAIN b
        BY <3>1, <3>3, CountedPairs
    <3> QED BY <3>2, <3>3
  <2>2. ASSUME NEW p \in Counted(a) PROVE p \in Counted(held)
    <3>1. PICK n \in DOMAIN a : \E k \in 1 .. a[n] : p = <<n, k>>
        BY CountedPairs
    <3> QED BY <3>1, CountedPairs
  <2>3. ASSUME NEW p \in Counted(b) PROVE p \in Counted(held)
    <3>1. PICK n \in DOMAIN b : \E k \in 1 .. b[n] : p = <<n, k>>
        BY CountedPairs
    <3> QED BY <3>1, CountedPairs
  <2> QED BY <2>1, <2>2, <2>3
<1>3. Counted(a) \intersect Counted(b) = {}
  <2>1. ASSUME NEW p \in Counted(a), p \in Counted(b) PROVE FALSE
    <3>1. PICK n \in DOMAIN a : \E k \in 1 .. a[n] : p = <<n, k>>
        BY CountedPairs
    <3>2. PICK m \in DOMAIN b : \E k \in 1 .. b[m] : p = <<m, k>>
        BY <2>1, CountedPairs
    <3> QED BY <3>1, <3>2
  <2> QED BY <2>1
<1>4. /\ IsFiniteSet(Counted(a)) /\ Pieces(a) = Cardinality(Counted(a))
      /\ IsFiniteSet(Counted(b)) /\ Pieces(b) = Cardinality(Counted(b))
      /\ Pieces(held) = Cardinality(Counted(held))
    BY <1>1, CountedFinite
<1>5. Cardinality(Counted(a) \union Counted(b))
        = Cardinality(Counted(a)) + Cardinality(Counted(b)) - Cardinality({})
    BY <1>3, <1>4, FS_Union
<1>6. Cardinality({}) = 0 /\ Pieces(a) \in Nat /\ Pieces(b) \in Nat
    BY <1>1, FS_EmptySet, PiecesNat
<1> QED BY <1>1, <1>2, <1>4, <1>5, <1>6

LEMMA PiecesOfOne ==
    ASSUME NEW held, NEW n, DOMAIN held = {n}, held[n] \in Nat
    PROVE  Pieces(held) = held[n]
<1>1. Counted(held) = {n} \X (1 .. held[n])
    BY DEF Counted
<1>2. IsFiniteSet({n}) /\ Cardinality({n}) = 1
    BY FS_Singleton
<1>3. 1 \in Int /\ held[n] \in Int
    OBVIOUS
<1>4. /\ IsFiniteSet(1 .. held[n])
      /\ Cardinality(1 .. held[n]) = IF 1 > held[n] THEN 0 ELSE held[n] - 1 + 1
    BY <1>3, FS_Interval
<1>5. Cardinality({n} \X (1 .. held[n])) = 1 * Cardinality(1 .. held[n])
    BY <1>2, <1>4, FS_Product
<1>6. Pieces(held) = Cardinality(Counted(held))
    BY DEF Pieces, Counted
<1> HIDE DEF Counted
<1> QED BY <1>1, <1>4, <1>5, <1>6

LEMMA PiecesOfNone ==
    ASSUME NEW held, DOMAIN held = {}
    PROVE  Pieces(held) = 0
<1>1. Counted(held) = {}
    BY DEF Counted
<1> QED BY <1>1, FS_EmptySet DEF Pieces, Counted

-----------------------------------------------------------------------------
(* The rows are rows, and at least one piece is wanted: what is made of     *)
(* them is a function of these, so no more is needed of a step.             *)
OffersInv ==
    /\ ownRows \in Seq(OwnRows) /\ supplierRows \in Seq(SupplierRows)
    /\ madeCutoff \in BOOLEAN /\ wanted \in 1 .. MaxWanted

(* What we hold, and our price.                                             *)
LEMMA OwnStock ==
    ASSUME OffersInv
    PROVE  toOwnOffer.quantity \in Nat /\ toOwnOffer.price \in Nat
<1>1. CASE ownRows = <<>>
    BY <1>1 DEF toOwnOffer, NoOffer
<1>2. CASE ownRows # <<>>
  <2> DEFINE held == [n \in DOMAIN ownRows |-> ownRows[n].quantity]
             prices == {ownRows[n].price : n \in DOMAIN ownRows}
  <2>1. ownRows \in Seq(OwnRows)
    BY DEF OffersInv
  <2>2. Len(ownRows) \in Nat /\ DOMAIN ownRows = 1 .. Len(ownRows) /\ Len(ownRows) # 0
    BY <1>2, <2>1, EmptySeq, LenProperties
  <2>3. \A n \in DOMAIN ownRows : ownRows[n] \in OwnRows
    BY <2>1, <2>2, ElementOfSeq
  <2>4. IsFiniteSet(1 .. Len(ownRows))
    BY <2>2, FS_Interval
  <2>5. Quantities(held)
    BY <2>2, <2>3, <2>4, OffersAssumption DEF Quantities, OwnRows
  <2>6. Pieces(held) \in Nat
    BY <2>5, PiecesNat
  <2>7. prices \subseteq Nat
    BY <2>3, OffersAssumption DEF OwnRows
  <2>8. ownRows[1].price \in prices
    BY <2>2
  <2>9. Min(prices) \in Nat
    BY <2>7, <2>8, LeastOf
  <2> QED BY <1>2, <2>6, <2>9 DEF toOwnOffer
<1> QED BY <1>1, <1>2

(* A row in stock is of a known warehouse, quantity and prices.             *)
LEMMA RowsInStock ==
    ASSUME OffersInv
    PROVE  /\ InStock \subseteq Nat /\ IsFiniteSet(InStock)
           /\ \A n \in InStock :
                /\ supplierRows[n].rule \in 1 .. 5
                /\ supplierRows[n].quantity \in Nat \ {0}
                /\ supplierRows[n].buy \in Nat /\ supplierRows[n].sell \in Nat
<1>1. supplierRows \in Seq(SupplierRows)
    BY DEF OffersInv
<1>2. Len(supplierRows) \in Nat /\ DOMAIN supplierRows = 1 .. Len(supplierRows)
    BY <1>1, LenProperties
<1>3. InStock \subseteq 1 .. Len(supplierRows)
    BY <1>2 DEF InStock, toSupplierOffers
<1>4. IsFiniteSet(1 .. Len(supplierRows))
    BY <1>2, FS_Interval
<1>5. IsFiniteSet(InStock)
    BY <1>3, <1>4, FS_Subset
<1>6. ASSUME NEW n \in InStock
      PROVE  /\ supplierRows[n].rule \in 1 .. 5
             /\ supplierRows[n].quantity \in Nat \ {0}
             /\ supplierRows[n].buy \in Nat /\ supplierRows[n].sell \in Nat
  <2>1. supplierRows[n] \in SupplierRows
    BY <1>1, <1>2, <1>3, ElementOfSeq
  <2>2. supplierRows[n].rule # Unknown /\ supplierRows[n].quantity > 0
    BY DEF InStock, toSupplierOffers
  <2>3. /\ supplierRows[n].rule \in Rules \union {Unknown}
        /\ supplierRows[n].quantity \in MissingQuantity .. MaxStock
        /\ supplierRows[n].buy \in Prices /\ supplierRows[n].sell \in Prices
    BY <2>1 DEF SupplierRows
  <2>4. supplierRows[n].quantity \in Int
    BY <2>3, OffersAssumption DEF MissingQuantity
  <2>5. supplierRows[n].rule \in 1 .. 5
    BY <2>2, <2>3, OffersAssumption
  <2>6. supplierRows[n].quantity \in Nat \ {0}
    BY <2>2, <2>4
  <2>7. supplierRows[n].buy \in Nat /\ supplierRows[n].sell \in Nat
    BY <2>3, OffersAssumption
  <2> QED BY <2>5, <2>6, <2>7
<1> QED BY <1>2, <1>3, <1>5, <1>6

Rank(n) == resolveDeliveryRule(supplierRows[n].rule)

LEMMA RankNat ==
    ASSUME OffersInv, NEW n \in InStock
    PROVE  Rank(n) \in Nat
BY RowsInStock DEF Rank, resolveDeliveryRule, SameDay

(* Some row in stock is the one none is preferred to, and it is taken.      *)
Sourced ==
    InStock # {} =>
      \E s \in InStock :
        /\ sourcedSupplier = supplierRows[s]
        /\ \A k \in InStock : ~isPreferredSupplier(supplierRows[k], supplierRows[s])

LEMMA SourcedExists == OffersInv => Sourced
<1> SUFFICES ASSUME OffersInv, InStock # {} PROVE Sourced
    BY DEF Sourced
<1> DEFINE ranks == {Rank(n) : n \in InStock}
           fastest == {n \in InStock : Rank(n) = Min(ranks)}
           buys == {supplierRows[n].buy : n \in fastest}
           cheapest == {n \in fastest : supplierRows[n].buy = Min(buys)}
           sells == {supplierRows[n].sell : n \in cheapest}
           best == {n \in InStock :
             \A k \in InStock : ~isPreferredSupplier(supplierRows[k], supplierRows[n])}
<1>1. /\ InStock \subseteq Nat
      /\ \A n \in InStock : Rank(n) \in Nat /\ supplierRows[n].buy \in Nat
                            /\ supplierRows[n].sell \in Nat
    BY RowsInStock, RankNat
<1>2. ranks \subseteq Nat /\ ranks # {}
    BY <1>1
<1>3. Min(ranks) \in ranks /\ \A r \in ranks : Min(ranks) <= r
    BY <1>2, LeastOf
<1>4. buys \subseteq Nat /\ buys # {}
    BY <1>1, <1>3
<1>5. Min(buys) \in buys /\ \A b \in buys : Min(buys) <= b
    BY <1>4, LeastOf
<1>6. sells \subseteq Nat /\ sells # {}
    BY <1>1, <1>5
<1>7. Min(sells) \in sells /\ \A b \in sells : Min(sells) <= b
    BY <1>6, LeastOf
<1>8. PICK s \in cheapest : supplierRows[s].sell = Min(sells)
    BY <1>7
<1>9. ASSUME NEW k \in InStock
      PROVE  ~isPreferredSupplier(supplierRows[k], supplierRows[s])
  <2>1. /\ s \in InStock /\ Rank(s) = Min(ranks) /\ Rank(s) <= Rank(k)
        /\ Rank(k) = Rank(s) => k \in fastest
    BY <1>3, <1>8
  <2>2. Rank(k) = Rank(s) =>
          /\ supplierRows[s].buy <= supplierRows[k].buy
          /\ supplierRows[k].buy = supplierRows[s].buy =>
               supplierRows[s].sell <= supplierRows[k].sell
    BY <1>5, <1>7, <1>8, <2>1
  <2>3. /\ Rank(s) \in Nat /\ supplierRows[s].buy \in Nat /\ supplierRows[s].sell \in Nat
        /\ Rank(k) \in Nat /\ supplierRows[k].buy \in Nat /\ supplierRows[k].sell \in Nat
    BY <1>1, <2>1
  <2> HIDE DEF ranks, fastest, buys, cheapest, sells
  <2> QED BY <2>1, <2>2, <2>3 DEF isPreferredSupplier, bySourcingPreference, Rank
<1>10. s \in best
    BY <1>8, <1>9
<1>11. Min(best) \in best
    BY <1>1, <1>10, LeastOf
<1>12. sourcedSupplier = supplierRows[Min(best)]
    BY DEF sourcedSupplier
<1> QED BY <1>11, <1>12 DEF Sourced

(* What the rows of some warehouses hold can be counted, and so can each    *)
(* warehouse's and what is offered of all.                                  *)
LEMMA LinesInStock ==
    ASSUME OffersInv, NEW warehouses
    PROVE  /\ Quantities(InStockOf(warehouses))
           /\ \A n \in DOMAIN InStockOf(warehouses) :
                n \in InStock /\ InStockOf(warehouses)[n] = supplierRows[n].quantity
<1>1. DOMAIN InStockOf(warehouses) \subseteq InStock
    BY DEF InStockOf
<1>2. IsFiniteSet(DOMAIN InStockOf(warehouses))
    BY <1>1, RowsInStock, FS_Subset
<1>3. \A n \in DOMAIN InStockOf(warehouses) :
        InStockOf(warehouses)[n] = supplierRows[n].quantity
    BY DEF InStockOf
<1> QED BY <1>1, <1>2, <1>3, RowsInStock DEF Quantities

LEMMA WarehouseHolds ==
    ASSUME OffersInv, NEW w
    PROVE  QuantityIn(w) \in Nat
BY LinesInStock, PiecesNat, OwnStock DEF QuantityIn

LEMMA AvailabilityHolds ==
    ASSUME OffersInv
    PROVE  /\ Quantities(buildWarehouseAvailability)
           /\ DOMAIN buildWarehouseAvailability \subseteq 1 .. 5
           /\ \A w \in DOMAIN buildWarehouseAvailability :
                buildWarehouseAvailability[w] = QuantityIn(w) /\ QuantityIn(w) > 0
           /\ \A w \in 1 .. 5 : QuantityIn(w) > 0 => w \in DOMAIN buildWarehouseAvailability
<1>1. /\ DOMAIN buildWarehouseAvailability \subseteq 1 .. 5
      /\ \A w \in DOMAIN buildWarehouseAvailability :
           buildWarehouseAvailability[w] = QuantityIn(w) /\ QuantityIn(w) > 0
      /\ \A w \in 1 .. 5 : QuantityIn(w) > 0 => w \in DOMAIN buildWarehouseAvailability
    BY DEF buildWarehouseAvailability, WarehousesFastestFirst
<1>2. IsFiniteSet(1 .. 5)
  <2>1. 1 \in Int /\ 5 \in Int
    OBVIOUS
  <2> QED BY <2>1, FS_Interval
<1>3. IsFiniteSet(DOMAIN buildWarehouseAvailability)
    BY <1>1, <1>2, FS_Subset
<1>4. \A w \in DOMAIN buildWarehouseAvailability : buildWarehouseAvailability[w] \in Int
    BY <1>1, WarehouseHolds
<1> QED BY <1>1, <1>3, <1>4 DEF Quantities

(* What can be bought is on a page with a warehouse that holds it.          *)
LEMMA AvailableIsStocked ==
    ASSUME OffersInv
    PROVE  Stock \in Nat /\ (selectBestOffer.available => Stock > 0)
<1>1. /\ Stock \in Nat
      /\ Stock = 0 <=> \A w \in DOMAIN buildWarehouseAvailability :
                         buildWarehouseAvailability[w] <= 0
    BY AvailabilityHolds, PiecesNat DEF Stock
<1>2. ASSUME selectBestOffer.available PROVE \E w \in 1 .. 5 : QuantityIn(w) > 0
  <2>1. toOwnOffer.quantity # 0 \/ InStock # {}
    BY <1>2 DEF selectBestOffer
  <2>2. CASE toOwnOffer.quantity # 0
    <3>1. QuantityIn(1) = Pieces(InStockOf({1})) + toOwnOffer.quantity
        BY DEF QuantityIn, warehouseForOwnStock
    <3>2. Pieces(InStockOf({1})) \in Nat
        BY LinesInStock, PiecesNat
    <3>3. QuantityIn(1) > 0
        BY <2>2, <3>1, <3>2, OwnStock
    <3> QED BY <3>3
  <2>3. CASE InStock # {}
    <3>1. PICK n \in InStock : TRUE
        BY <2>3
    <3> DEFINE w == supplierRows[n].rule
    <3>2. w \in 1 .. 5 /\ supplierRows[n].quantity \in Nat \ {0}
        BY RowsInStock
    <3>3. n \in DOMAIN InStockOf({w}) /\ InStockOf({w})[n] = supplierRows[n].quantity
        BY DEF InStockOf, warehouseForRule
    <3>4. Pieces(InStockOf({w})) \in Nat /\ Pieces(InStockOf({w})) # 0
        BY <3>2, <3>3, LinesInStock, PiecesNat
    <3>5. QuantityIn(w) > 0
        BY <3>4, OwnStock DEF QuantityIn
    <3> QED BY <3>2, <3>5
  <2> QED BY <2>1, <2>2, <2>3
<1>3. ASSUME selectBestOffer.available PROVE Stock > 0
  <2>1. PICK w \in 1 .. 5 : QuantityIn(w) > 0
    BY <1>2, <1>3
  <2>2. w \in DOMAIN buildWarehouseAvailability /\ ~(buildWarehouseAvailability[w] <= 0)
    BY <2>1, AvailabilityHolds, WarehouseHolds
  <2> QED BY <1>1, <2>2
<1> QED BY <1>1, <1>3

(* What is available has a price.                                           *)
LEMMA OfferPrice ==
    ASSUME OffersInv, selectBestOffer.available
    PROVE  selectBestOffer.price \in Nat
<1>1. toOwnOffer.quantity # 0 \/ InStock # {}
    BY DEF selectBestOffer
<1>2. ~CarriesOwn => InStock # {}
    BY <1>1 DEF CarriesOwn, toOwnOffer, NoOffer
<1>3. InStock # {} => sourcedSupplier.sell \in Nat
    BY SourcedExists, RowsInStock DEF Sourced
<1>4. selectBestOffer.price = IF ~CarriesOwn THEN sourcedSupplier.sell
                    ELSE IF InStock # {} /\ toOwnOffer.price < sourcedSupplier.sell
                      THEN sourcedSupplier.sell
                      ELSE toOwnOffer.price
    BY <1>1 DEF selectBestOffer
<1> QED BY <1>2, <1>3, <1>4, OwnStock

(* What the invariant says of the properties.                               *)
LEMMA BlocksWhatIsRefused == OffersInv => PageBlocksWhatIsRefused
<1> SUFFICES ASSUME OffersInv PROVE PageBlocksWhatIsRefused
    OBVIOUS
<1>1. wanted \in Nat \ {0}
    BY OffersAssumption DEF OffersInv
<1>2. CASE ~selectBestOffer.available
    BY <1>2 DEF PageBlocksWhatIsRefused, lineIssueOf, orderableUnitPrice, availableQuantityOf,
                CannotSay, NoPrice
<1>3. CASE selectBestOffer.available
  <2>1. Stock \in Nat /\ Stock > 0 /\ selectBestOffer.price \in Nat
    BY <1>3, AvailableIsStocked, OfferPrice
  <2>2. availableQuantityOf = Stock
    BY <1>3, <2>1 DEF availableQuantityOf
  <2>3. lineIssueOf = IF Stock < wanted THEN "insufficient-stock" ELSE "none"
    BY <2>1, <2>2 DEF lineIssueOf, CannotSay
  <2>4. orderableUnitPrice = IF Stock < wanted THEN NoPrice ELSE selectBestOffer.price
    BY <1>3 DEF orderableUnitPrice
  <2>5. selectBestOffer.price # NoPrice
    BY <2>1 DEF NoPrice
  <2>6. CASE Stock < wanted
    BY <2>3, <2>4, <2>6 DEF PageBlocksWhatIsRefused
  <2>7. CASE ~(Stock < wanted)
    BY <2>3, <2>4, <2>5, <2>7 DEF PageBlocksWhatIsRefused
  <2> QED BY <2>6, <2>7
<1> QED BY <1>2, <1>3

LEMMA UndercutsNone == OffersInv => NeverUndercuts
<1> SUFFICES ASSUME OffersInv, selectBestOffer.available PROVE NeverUndercuts
    BY DEF NeverUndercuts
<1>1. toOwnOffer.quantity # 0 \/ InStock # {}
    BY DEF selectBestOffer
<1>2. selectBestOffer.price = IF ~CarriesOwn THEN sourcedSupplier.sell
                    ELSE IF InStock # {} /\ toOwnOffer.price < sourcedSupplier.sell
                      THEN sourcedSupplier.sell
                      ELSE toOwnOffer.price
    BY <1>1 DEF selectBestOffer
<1>3. InStock # {} => sourcedSupplier.sell \in Nat
    BY SourcedExists, RowsInStock DEF Sourced
<1>4. CarriesOwn => selectBestOffer.price >= toOwnOffer.price
    BY <1>2, <1>3, OwnStock
<1>5. ASSUME InStock # {}
      PROVE LET rank == Min({resolveDeliveryRule(supplierRows[n].rule) : n \in InStock}) IN
           selectBestOffer.price >=
             Min({supplierRows[n].sell : n \in {k \in InStock :
                    resolveDeliveryRule(supplierRows[k].rule) = rank}})
  <2> DEFINE ranks == {resolveDeliveryRule(supplierRows[n].rule) : n \in InStock}
             sells == {supplierRows[n].sell : n \in {k \in InStock :
                         resolveDeliveryRule(supplierRows[k].rule) = Min(ranks)}}
  <2>1. PICK s \in InStock :
          /\ sourcedSupplier = supplierRows[s]
          /\ \A k \in InStock : ~isPreferredSupplier(supplierRows[k], supplierRows[s])
    BY <1>5, SourcedExists DEF Sourced
  <2>2. /\ \A n \in InStock : resolveDeliveryRule(supplierRows[n].rule) \in Nat
        /\ \A n \in InStock : supplierRows[n].sell \in Nat
    BY RowsInStock, RankNat DEF Rank
  <2>3. ranks \subseteq Nat /\ ranks # {}
    BY <1>5, <2>2
  <2>4. Min(ranks) \in ranks /\ \A r \in ranks : Min(ranks) <= r
    BY <2>3, LeastOf
  <2>5. resolveDeliveryRule(supplierRows[s].rule) = Min(ranks)
    <3>1. PICK k \in InStock : resolveDeliveryRule(supplierRows[k].rule) = Min(ranks)
        BY <2>4
    <3>2. ~(resolveDeliveryRule(supplierRows[k].rule) < resolveDeliveryRule(supplierRows[s].rule))
        BY <2>1 DEF isPreferredSupplier
    <3>3. Min(ranks) <= resolveDeliveryRule(supplierRows[s].rule)
        BY <2>4
    <3> HIDE DEF ranks
    <3> QED BY <2>2, <3>1, <3>2, <3>3
  <2>6. supplierRows[s].sell \in sells
    BY <2>5
  <2>7. sells \subseteq Nat
    BY <2>2
  <2>8. Min(sells) \in Nat /\ Min(sells) <= supplierRows[s].sell
    BY <2>6, <2>7, LeastOf
  <2>9. selectBestOffer.price >= sourcedSupplier.sell
    BY <1>2, <1>3, <1>5, OwnStock
  <2>10. selectBestOffer.price \in Nat /\ supplierRows[s].sell \in Nat
    BY <2>2, OfferPrice
  <2>11. selectBestOffer.price >= Min(sells)
    <3> HIDE DEF sells
    <3> QED BY <2>1, <2>8, <2>9, <2>10
  <2> QED BY <2>11
<1> QED BY <1>4, <1>5 DEF NeverUndercuts

(* The warehouses up to one hold what those before it hold, and its own.    *)
LEMMA OneWarehouseMore ==
    ASSUME OffersInv, NEW w \in 1 .. 5
    PROVE  /\ HeldWithin(w) = HeldWithin(w - 1) + QuantityIn(w)
           /\ Pieces(AsFast(buildWarehouseAvailability, w))
                = Pieces(AsFast(buildWarehouseAvailability, w - 1)) + QuantityIn(w)
<1> DEFINE held == InStockOf(1 .. w)
           fast == InStockOf(1 .. w - 1)
           own == InStockOf({w})
           all == AsFast(buildWarehouseAvailability, w)
           before == AsFast(buildWarehouseAvailability, w - 1)
           its == [v \in {u \in DOMAIN buildWarehouseAvailability : u = w}
                     |-> buildWarehouseAvailability[v]]
<1>1. Pieces(held) = Pieces(fast) + Pieces(own)
  <2>1. Quantities(held)
    BY LinesInStock
  <2>2. 1 .. w = (1 .. w - 1) \union {w} /\ w \notin 1 .. w - 1
    OBVIOUS
  <2>3. DOMAIN held = DOMAIN fast \union DOMAIN own /\ DOMAIN fast \intersect DOMAIN own = {}
    BY <2>2 DEF InStockOf
  <2>4. /\ \A n \in DOMAIN fast : fast[n] = held[n]
        /\ \A n \in DOMAIN own : own[n] = held[n]
    BY <2>3, LinesInStock
  <2> HIDE DEF held, fast, own
  <2> QED BY <2>1, <2>3, <2>4, PiecesApart
<1>2. Pieces(fast) \in Nat /\ Pieces(own) \in Nat /\ toOwnOffer.quantity \in Nat
    BY LinesInStock, PiecesNat, OwnStock
<1>3. HeldWithin(w) = HeldWithin(w - 1) + QuantityIn(w)
  <2>1. /\ HeldWithin(w) = Pieces(held) + toOwnOffer.quantity
        /\ HeldWithin(w - 1) = Pieces(fast) + (IF w = 1 THEN 0 ELSE toOwnOffer.quantity)
        /\ QuantityIn(w) = Pieces(own) + (IF w = 1 THEN toOwnOffer.quantity ELSE 0)
    BY DEF HeldWithin, QuantityIn, warehouseForOwnStock
  <2> HIDE DEF held, fast, own
  <2> QED BY <1>1, <1>2, <2>1
<1>4. Quantities(all)
  <2>1. DOMAIN all \subseteq DOMAIN buildWarehouseAvailability
    BY DEF AsFast
  <2>2. \A v \in DOMAIN all : all[v] = buildWarehouseAvailability[v]
    BY DEF AsFast
  <2>3. IsFiniteSet(DOMAIN all)
    BY <2>1, AvailabilityHolds, FS_Subset DEF Quantities
  <2> QED BY <2>1, <2>2, <2>3, AvailabilityHolds DEF Quantities
<1>5. Pieces(all) = Pieces(before) + Pieces(its)
  <2>1. \A v \in DOMAIN buildWarehouseAvailability : v <= w <=> v <= w - 1 \/ v = w
    BY AvailabilityHolds
  <2>2. \A v \in DOMAIN buildWarehouseAvailability : ~(v <= w - 1 /\ v = w)
    BY AvailabilityHolds
  <2>3. DOMAIN all = DOMAIN before \union DOMAIN its /\ DOMAIN before \intersect DOMAIN its = {}
    BY <2>1, <2>2 DEF AsFast
  <2>4. /\ \A v \in DOMAIN before : before[v] = all[v]
        /\ \A v \in DOMAIN its : its[v] = all[v]
    BY <2>3 DEF AsFast
  <2> HIDE DEF all, before, its
  <2> QED BY <1>4, <2>3, <2>4, PiecesApart
<1>6. Pieces(its) = QuantityIn(w)
  <2>1. CASE QuantityIn(w) > 0
    <3>1. w \in DOMAIN buildWarehouseAvailability /\ buildWarehouseAvailability[w] = QuantityIn(w)
        BY <2>1, AvailabilityHolds
    <3>2. DOMAIN its = {w} /\ its[w] = QuantityIn(w)
        BY <3>1
    <3> HIDE DEF its
    <3> QED BY <3>2, WarehouseHolds, PiecesOfOne
  <2>2. CASE ~(QuantityIn(w) > 0)
    <3>1. w \notin DOMAIN buildWarehouseAvailability
        BY <2>2, AvailabilityHolds
    <3>2. DOMAIN its = {}
        BY <3>1
    <3>3. Pieces(its) = 0
        BY <3>2, PiecesOfNone
    <3> QED BY <2>2, <3>3, WarehouseHolds
  <2> QED BY <2>1, <2>2
<1> QED BY <1>3, <1>5, <1>6

(* The quantities of the warehouses up to one add up to the rows' of them.  *)
LEMMA AddedUp ==
    ASSUME OffersInv
    PROVE  /\ \A w \in 0 .. 5 : /\ HeldWithin(w) \in Nat
                                /\ Pieces(AsFast(buildWarehouseAvailability, w)) = HeldWithin(w)
           /\ Stock = HeldWithin(5)
           /\ HeldWithin(0) = 0
<1> DEFINE P(w) == Pieces(AsFast(buildWarehouseAvailability, w))
           H(w) == HeldWithin(w)
<1>1. H(0) = 0
  <2>1. DOMAIN InStockOf(1 .. 0) = {}
    BY DEF InStockOf
  <2>2. Pieces(InStockOf(1 .. 0)) = 0
    BY <2>1, PiecesOfNone
  <2> QED BY <2>2 DEF HeldWithin, warehouseForOwnStock
<1>2. P(0) = 0
  <2>1. DOMAIN AsFast(buildWarehouseAvailability, 0) = {}
    BY AvailabilityHolds DEF AsFast
  <2> QED BY <2>1, PiecesOfNone
<1>3. \A w \in 1 .. 5 : /\ H(w) = H(w - 1) + QuantityIn(w) /\ P(w) = P(w - 1) + QuantityIn(w)
                        /\ QuantityIn(w) \in Nat
    BY OneWarehouseMore, WarehouseHolds
<1>4. P(5) = Stock
  <2>1. AsFast(buildWarehouseAvailability, 5) = buildWarehouseAvailability
    <3>1. {u \in DOMAIN buildWarehouseAvailability : u <= 5} = DOMAIN buildWarehouseAvailability
        BY AvailabilityHolds
    <3>2. buildWarehouseAvailability =
            [v \in DOMAIN buildWarehouseAvailability |-> buildWarehouseAvailability[v]]
        BY DEF buildWarehouseAvailability
    <3> QED BY <3>1, <3>2 DEF AsFast
  <2> QED BY <2>1 DEF Stock
<1> HIDE DEF P, H
<1>5. H(1) = P(1) /\ H(1) \in Nat
    BY <1>1, <1>2, <1>3
<1>6. H(2) = P(2) /\ H(2) \in Nat
    BY <1>3, <1>5
<1>7. H(3) = P(3) /\ H(3) \in Nat
    BY <1>3, <1>6
<1>8. H(4) = P(4) /\ H(4) \in Nat
    BY <1>3, <1>7
<1>9. H(5) = P(5) /\ H(5) \in Nat
    BY <1>3, <1>8
<1>10. \A w \in 0 .. 5 : H(w) \in Nat /\ P(w) = H(w)
    BY <1>1, <1>2, <1>5, <1>6, <1>7, <1>8, <1>9
<1> QED BY <1>1, <1>4, <1>9, <1>10 DEF P, H

LEMMA ReachesTheSlowest == OffersInv => SlowestReached
<1> SUFFICES ASSUME OffersInv, Stock >= wanted PROVE
      LET slowest == selectWarehouseForQuantity(buildWarehouseAvailability, wanted) IN
      HeldWithin(slowest) >= wanted /\ HeldWithin(slowest - 1) < wanted
    BY DEF SlowestReached
<1> DEFINE enough == {w \in 0 .. 5 : HeldWithin(w) >= wanted}
           first == Min(enough)
           reached == {w \in DOMAIN buildWarehouseAvailability :
                         Pieces(AsFast(buildWarehouseAvailability, w)) >= wanted}
<1>1. wanted \in Nat \ {0}
    BY OffersAssumption DEF OffersInv
<1>2. 5 \in enough
    BY AddedUp
<1>3. first \in enough /\ \A w \in enough : first <= w
    BY <1>2, LeastOf
<1>4. first \in 1 .. 5 /\ HeldWithin(first) >= wanted /\ HeldWithin(first - 1) < wanted
  <2>1. 0 \notin enough
    BY <1>1, AddedUp
  <2>2. first \in 1 .. 5
    BY <1>3, <2>1
  <2>3. first - 1 \notin enough /\ first - 1 \in 0 .. 5
    BY <1>3, <2>2
  <2>4. HeldWithin(first - 1) \in Nat /\ ~(HeldWithin(first - 1) >= wanted)
    BY <2>3, AddedUp
  <2> HIDE DEF first
  <2> QED BY <1>1, <1>3, <2>2, <2>4
<1>5. first \in DOMAIN buildWarehouseAvailability
  <2>1. /\ HeldWithin(first) \in Nat /\ HeldWithin(first - 1) \in Nat
        /\ QuantityIn(first) \in Nat
        /\ HeldWithin(first) = HeldWithin(first - 1) + QuantityIn(first)
    <3>1. first - 1 \in 0 .. 5 /\ first \in 0 .. 5
        BY <1>4
    <3> HIDE DEF first
    <3> QED BY <1>4, <3>1, AddedUp, OneWarehouseMore, WarehouseHolds
  <2>2. QuantityIn(first) > 0
    <3> HIDE DEF first
    <3> QED BY <1>1, <1>4, <2>1
  <2> HIDE DEF first
  <2> QED BY <1>4, <2>2, AvailabilityHolds
<1>6. first \in reached
  <2>1. Pieces(AsFast(buildWarehouseAvailability, first)) = HeldWithin(first)
    <3> HIDE DEF first
    <3> QED BY <1>4, AddedUp
  <2> QED BY <1>4, <1>5, <2>1
<1>7. reached \subseteq enough
  <2>1. ASSUME NEW w \in reached PROVE w \in enough
    <3>1. w \in 1 .. 5
        BY AvailabilityHolds
    <3> QED BY <3>1, AddedUp
  <2> QED BY <2>1
<1>8. Min(reached) \in reached /\ \A w \in reached : Min(reached) <= w
    BY <1>6, <1>7, LeastOf
<1>9. Min(reached) = first
  <2>1. Min(reached) \in enough /\ first \in Nat /\ Min(reached) \in Nat
    BY <1>3, <1>7, <1>8
  <2> HIDE DEF reached, enough
  <2> QED BY <1>3, <1>6, <1>8, <2>1
<1>10. selectWarehouseForQuantity(buildWarehouseAvailability, wanted) = first
    BY <1>6, <1>9 DEF selectWarehouseForQuantity
<1> QED BY <1>4, <1>10

-----------------------------------------------------------------------------
LEMMA OffersInitHolds == OffersInit => OffersInv
<1> SUFFICES ASSUME OffersInit PROVE OffersInv
    OBVIOUS
<1>1. ASSUME NEW R, NEW rows \in UpTo(MaxRows, R) PROVE rows \in Seq(R)
  <2>1. PICK n \in 0 .. MaxRows : rows \in [1 .. n -> R]
    BY DEF UpTo
  <2>2. n \in Nat
    BY OffersAssumption
  <2> QED BY <2>1, <2>2, SeqDef
<1>2. 1 \in 1 .. MaxWanted
    BY OffersAssumption
<1> QED BY <1>1, <1>2 DEF OffersInit, OffersInv

(* The row that follows takes a row's place, and the row its.               *)
LEMMA ReorderSwaps ==
    ASSUME OffersInv, RowsReorder
    PROVE  \E swap \in [DOMAIN supplierRows -> DOMAIN supplierRows] :
             /\ DOMAIN supplierRows' = DOMAIN supplierRows
             /\ \A k \in DOMAIN supplierRows : swap[swap[k]] = k
             /\ \A k \in DOMAIN supplierRows : supplierRows'[k] = supplierRows[swap[k]]
<1>1. PICK n \in 1 .. Len(supplierRows) - 1 :
        supplierRows' = [supplierRows EXCEPT ![n] = supplierRows[n + 1],
                                             ![n + 1] = supplierRows[n]]
    BY DEF RowsReorder
<1>2. /\ supplierRows \in Seq(SupplierRows) /\ Len(supplierRows) \in Nat
      /\ DOMAIN supplierRows = 1 .. Len(supplierRows)
    BY LenProperties DEF OffersInv
<1> DEFINE swap == [k \in DOMAIN supplierRows |->
                      IF k = n THEN n + 1 ELSE IF k = n + 1 THEN n ELSE k]
<1>3. n \in DOMAIN supplierRows /\ n + 1 \in DOMAIN supplierRows /\ n # n + 1
    BY <1>2
<1>4. swap \in [DOMAIN supplierRows -> DOMAIN supplierRows]
    BY <1>3
<1>5. \A k \in DOMAIN supplierRows : swap[swap[k]] = k
    BY <1>3
<1>6. DOMAIN supplierRows' = DOMAIN supplierRows
    BY <1>1
<1>7. \A k \in DOMAIN supplierRows : supplierRows'[k] = supplierRows[swap[k]]
    BY <1>1, <1>2, <1>3
<1> HIDE DEF swap
<1> QED BY <1>4, <1>5, <1>6, <1>7

LEMMA OffersStepHolds == OffersInv /\ [OffersNext]_OffersVars => OffersInv'
<1> SUFFICES ASSUME OffersInv, [OffersNext]_OffersVars PROVE OffersInv'
    OBVIOUS
<1>0. /\ supplierRows \in Seq(SupplierRows) /\ Len(supplierRows) \in Nat
      /\ DOMAIN supplierRows = 1 .. Len(supplierRows)
      /\ \A k \in DOMAIN supplierRows : supplierRows[k] \in SupplierRows
    BY LenProperties, ElementOfSeq DEF OffersInv
<1>1. CASE RowsReorder
  <2>1. PICK n \in 1 .. Len(supplierRows) - 1 :
          supplierRows' = [supplierRows EXCEPT ![n] = supplierRows[n + 1],
                                               ![n + 1] = supplierRows[n]]
    BY <1>1 DEF RowsReorder
  <2>2. n \in DOMAIN supplierRows /\ n + 1 \in DOMAIN supplierRows
    BY <1>0
  <2>3. supplierRows' \in Seq(SupplierRows)
    BY <1>0, <2>1, <2>2, ExceptSeq
  <2> QED BY <1>1, <2>3 DEF RowsReorder, OffersInv
<1>2. CASE CutoffPasses
    BY <1>2 DEF CutoffPasses, OffersInv
<1>3. CASE WantsOneMore
    BY <1>3, OffersAssumption DEF WantsOneMore, OffersInv
<1>4. ASSUME NEW n \in DOMAIN supplierRows, OneSells(n) PROVE OffersInv'
  <2> DEFINE sold == [supplierRows[n] EXCEPT !.quantity = @ - 1]
  <2>1. supplierRows' = [supplierRows EXCEPT ![n] = sold]
    BY <1>4 DEF OneSells
  <2>2. /\ supplierRows[n] \in SupplierRows
        /\ supplierRows[n].quantity \in MissingQuantity .. MaxStock
        /\ supplierRows[n].quantity > 0
    BY <1>0, <1>4 DEF OneSells, SupplierRows
  <2>3. supplierRows[n].quantity - 1 \in MissingQuantity .. MaxStock
    BY <2>2, OffersAssumption DEF MissingQuantity
  <2>4. sold \in SupplierRows
    BY <2>2, <2>3 DEF SupplierRows
  <2>5. supplierRows' \in Seq(SupplierRows)
    BY <1>0, <2>1, <2>4, ExceptSeq
  <2> QED BY <1>4, <2>5 DEF OneSells, OffersInv
<1>5. CASE UNCHANGED OffersVars
    BY <1>5 DEF OffersVars, OffersInv
<1> QED BY <1>1, <1>2, <1>3, <1>4, <1>5 DEF OffersNext

(* The two rows none is preferred to, before and after, agree in every key, *)
(* the sell price among them.                                               *)
LEMMA ReorderKeepsTheOffer ==
    ASSUME OffersInv, OffersInv', RowsReorder
    PROVE  selectBestOffer' = selectBestOffer
<1>1. ownRows' = ownRows /\ madeCutoff' = madeCutoff
    BY DEF RowsReorder
<1>2. toOwnOffer' = toOwnOffer /\ CarriesOwn' = CarriesOwn
    BY <1>1 DEF toOwnOffer, CarriesOwn
<1>3. PICK swap \in [DOMAIN supplierRows -> DOMAIN supplierRows] :
             /\ DOMAIN supplierRows' = DOMAIN supplierRows
             /\ \A k \in DOMAIN supplierRows : swap[swap[k]] = k
             /\ \A k \in DOMAIN supplierRows : supplierRows'[k] = supplierRows[swap[k]]
    BY ReorderSwaps
<1>4. /\ InStock \subseteq DOMAIN supplierRows /\ InStock' \subseteq DOMAIN supplierRows
      /\ \A k \in DOMAIN supplierRows : k \in InStock' <=> swap[k] \in InStock
    BY <1>3 DEF InStock, toSupplierOffers
<1>5. InStock' = {} <=> InStock = {}
    BY <1>3, <1>4
<1>6. ASSUME InStock # {} PROVE sourcedSupplier'.sell = sourcedSupplier.sell
  <2>1. PICK s \in InStock :
          /\ sourcedSupplier = supplierRows[s]
          /\ \A k \in InStock : ~isPreferredSupplier(supplierRows[k], supplierRows[s])
    BY <1>6, SourcedExists DEF Sourced
  <2>2. (OffersInv => Sourced)'
    BY SourcedExists, PTL
  <2>3. PICK t \in InStock' :
          /\ sourcedSupplier' = supplierRows'[t]
          /\ \A k \in InStock' : ~(isPreferredSupplier(supplierRows[k], supplierRows[t]))'
    BY <1>5, <1>6, <2>2 DEF Sourced
  <2> DEFINE u == swap[t]
  <2>4. u \in InStock /\ sourcedSupplier' = supplierRows[u]
    BY <1>3, <1>4, <2>3
  <2>5. swap[s] \in InStock' /\ supplierRows'[swap[s]] = supplierRows[s]
    BY <1>3, <1>4
  <2>6. ~isPreferredSupplier(supplierRows[u], supplierRows[s])
    BY <2>1, <2>4
  <2>7. ~isPreferredSupplier(supplierRows[s], supplierRows[u])
    <3>1. ~(isPreferredSupplier(supplierRows[swap[s]], supplierRows[t]))'
        BY <2>3, <2>5
    <3>2. supplierRows'[t] = supplierRows[u]
        BY <1>3, <1>4
    <3> QED BY <1>1, <2>5, <3>1, <3>2
            DEF isPreferredSupplier, bySourcingPreference, resolveDeliveryRule
  <2>8. /\ Rank(s) \in Nat /\ supplierRows[s].buy \in Nat /\ supplierRows[s].sell \in Nat
        /\ Rank(u) \in Nat /\ supplierRows[u].buy \in Nat /\ supplierRows[u].sell \in Nat
    BY <2>4, RowsInStock, RankNat
  <2> HIDE DEF u
  <2>9. supplierRows[s].sell = supplierRows[u].sell
    BY <2>6, <2>7, <2>8 DEF isPreferredSupplier, bySourcingPreference, Rank
  <2> QED BY <2>1, <2>4, <2>9
<1>7. CASE InStock = {}
    BY <1>2, <1>5, <1>7 DEF selectBestOffer, CarriesOwn, toOwnOffer, NoOffer
<1>8. CASE InStock # {}
    BY <1>2, <1>5, <1>6, <1>8 DEF selectBestOffer
<1> QED BY <1>7, <1>8

THEOREM OffersInvariant == OffersSpec => []OffersInv
BY OffersInitHolds, OffersStepHolds, PTL DEF OffersSpec

(* InventoryService and cart-totals.ts: from one read of the stock, and     *)
(* whatever the rows, the page blocks exactly the lines an order would be   *)
(* refused for (orderable-price.ts).                                        *)
THEOREM BlockedIsRefused == OffersSpec => []PageBlocksWhatIsRefused
BY OffersInvariant, BlocksWhatIsRefused, PTL

(* selectBestOffer: no price is below our own, nor below the lowest of the  *)
(* suppliers that hold the part fastest.                                    *)
THEOREM NoneIsUndercut == OffersSpec => []NeverUndercuts
BY OffersInvariant, UndercutsNone, PTL

(* selectWarehouseForQuantity: of the rows in stock, those of the faster    *)
(* warehouses fall short of the quantity, and with the one selected they do *)
(* not.                                                                     *)
THEOREM PromisedFromTheSlowest == OffersSpec => []SlowestReached
BY OffersInvariant, ReachesTheSlowest, PTL

(* bySourcingPreference: the order in which the database returns the rows   *)
(* tells nothing of the offer.                                              *)
THEOREM OrderOfRowsIsIgnored == OffersSpec => PriceIgnoresRowOrder
<1>1. OffersInv /\ OffersInv' /\ [OffersNext]_OffersVars
        => [RowsReorder => selectBestOffer' = selectBestOffer]_OffersVars
    BY ReorderKeepsTheOffer
<1> QED BY <1>1, OffersInvariant, PTL DEF OffersSpec, PriceIgnoresRowOrder

-----------------------------------------------------------------------------
(* DeliverySchedule: the shop's calendar.                                   *)

LEMMA ScheduleNumbers ==
    /\ OpenHour \in Nat /\ SaturdayClose \in 1 .. 23 /\ WeekdayClose \in 1 .. 23
    /\ SameDayCutoff \in 1 .. 23 /\ ProcessingCutoff \in 1 .. 23
    /\ CourierDays \in Nat /\ CourierDays > 0
    /\ MaxHolidays \in Nat /\ LastDay \in Nat /\ Reach \in Nat /\ Reach = 6 * MaxHolidays + 3
<1>1. \A h \in {SameDayCutoff, ProcessingCutoff, SaturdayClose, WeekdayClose} : h \in 1 .. 23
    BY ScheduleAssumption
<1>2. CourierDays \in Nat /\ CourierDays > 0
    BY ScheduleAssumption
<1> QED
    BY <1>1, <1>2, ScheduleAssumption DEF Reach

LEMMA WeekdaysFollow ==
    ASSUME firstWeekday \in 0 .. 6, NEW day \in Nat
    PROVE  /\ weekdayOf(day) \in 0 .. 6
           /\ weekdayOf(day + 1) = IF weekdayOf(day) = 6 THEN 0 ELSE weekdayOf(day) + 1
<1>1. day + firstWeekday \in Nat /\ (day + 1) + firstWeekday = (day + firstWeekday) + 1
    OBVIOUS
<1>2. \A n \in Nat : n % 7 \in 0 .. 6 /\ (n + 1) % 7 = IF n % 7 = 6 THEN 0 ELSE (n % 7) + 1
    OBVIOUS
<1> QED
    BY <1>1, <1>2 DEF weekdayOf

(* What is said of the shop's calendar.                                     *)
CalendarOK ==
    /\ firstWeekday \in 0 .. 6
    /\ IsFiniteSet(holidays) /\ holidays \subseteq Nat
    /\ Cardinality(holidays) <= 2 * MaxHolidays

(* Of more places than there are days taken, one is not taken.              *)
LEMMA OneIsFree ==
    ASSUME NEW taken, IsFiniteSet(taken), Cardinality(taken) <= 2 * MaxHolidays,
           NEW f \in [0 .. 2 * MaxHolidays -> Nat],
           \A i, j \in 0 .. 2 * MaxHolidays : i # j => f[i] # f[j]
    PROVE  \E i \in 0 .. 2 * MaxHolidays : f[i] \notin taken
<1> DEFINE N == 2 * MaxHolidays
<1>1. N \in Nat /\ 0 \in Int /\ N \in Int
    BY ScheduleNumbers
<1> HIDE DEF N
<1>2. IsFiniteSet(0 .. N) /\ Cardinality(0 .. N) = N + 1
    BY <1>1, FS_Interval
<1>3. Cardinality(taken) \in Nat
    BY FS_CardinalityType
<1>4. Cardinality(taken) < Cardinality(0 .. N)
    BY <1>1, <1>2, <1>3 DEF N
<1>5. ASSUME f \in [0 .. N -> taken] PROVE FALSE
  <2>1. \E i, j \in 0 .. N : i # j /\ f[i] = f[j]
    BY <1>2, <1>4, <1>5, FS_PigeonHole
  <2> QED
    BY <2>1 DEF N
<1> QED
    BY <1>5 DEF N

LEMMA OpenDayExists ==
    ASSUME CalendarOK, NEW day \in Nat
    PROVE  \E d \in day .. day + Reach : d \in Nat /\ isShopOpenOn(d)
<1> DEFINE f == [i \in 0 .. 2 * MaxHolidays |->
                   IF weekdayOf(day + 2 * i) = 0 THEN day + 2 * i + 1 ELSE day + 2 * i]
<1>1. ASSUME NEW i \in 0 .. 2 * MaxHolidays
      PROVE  /\ i \in Nat /\ f[i] \in Nat /\ weekdayOf(f[i]) # 0
             /\ day + 2 * i <= f[i] /\ f[i] <= day + 2 * i + 1 /\ f[i] <= day + Reach
  <2>1. i \in Nat /\ i <= 2 * MaxHolidays /\ day + 2 * i \in Nat
    BY ScheduleNumbers
  <2>2. weekdayOf(day + 2 * i) = 0 => weekdayOf((day + 2 * i) + 1) = 1
    BY <2>1, WeekdaysFollow DEF CalendarOK
  <2> QED
    BY <2>1, <2>2, ScheduleNumbers
<1>2. f \in [0 .. 2 * MaxHolidays -> Nat]
    BY <1>1
<1>3. \A i, j \in 0 .. 2 * MaxHolidays : i # j => f[i] # f[j]
  <2> SUFFICES ASSUME NEW i \in 0 .. 2 * MaxHolidays, NEW j \in 0 .. 2 * MaxHolidays, i # j
               PROVE  f[i] # f[j]
    OBVIOUS
  <2> QED
    BY <1>1
<1> HIDE DEF f
<1>4. PICK i \in 0 .. 2 * MaxHolidays : f[i] \notin holidays
    BY <1>2, <1>3, OneIsFree DEF CalendarOK
<1>5. f[i] \in day .. day + Reach /\ f[i] \in Nat
    BY <1>1, ScheduleNumbers
<1> QED
    BY <1>1, <1>4, <1>5 DEF isShopOpenOn

LEMMA FreeWeekdayExists ==
    ASSUME firstWeekday \in 0 .. 6, NEW day \in Nat,
           NEW taken, IsFiniteSet(taken), Cardinality(taken) <= 2 * MaxHolidays
    PROVE  \E d \in day + 1 .. day + Reach : ~isWeekend(d) /\ d \notin taken
<1> DEFINE g(d) == IF ~isWeekend(d) THEN d ELSE IF ~isWeekend(d + 1) THEN d + 1 ELSE d + 2
           f == [i \in 0 .. 2 * MaxHolidays |-> g(day + 1 + 3 * i)]
<1>1. ASSUME NEW d \in Nat
      PROVE  g(d) \in Nat /\ d <= g(d) /\ g(d) <= d + 2 /\ ~isWeekend(g(d))
  <2>1. weekdayOf(d) \in 0 .. 6
        /\ weekdayOf(d + 1) = IF weekdayOf(d) = 6 THEN 0 ELSE weekdayOf(d) + 1
    BY WeekdaysFollow
  <2>2. weekdayOf((d + 1) + 1) = IF weekdayOf(d + 1) = 6 THEN 0 ELSE weekdayOf(d + 1) + 1
    BY WeekdaysFollow
  <2>3. (d + 1) + 1 = d + 2
    OBVIOUS
  <2>4. weekdayOf(d) \notin {0, 6} \/ weekdayOf(d + 1) \notin {0, 6}
        \/ weekdayOf(d + 2) \notin {0, 6}
    BY <2>1, <2>2, <2>3
  <2> QED
    BY <2>4 DEF isWeekend
<1> HIDE DEF g
<1>2. ASSUME NEW i \in 0 .. 2 * MaxHolidays
      PROVE  /\ i \in Nat /\ f[i] \in Nat /\ ~isWeekend(f[i])
             /\ day + 1 + 3 * i <= f[i] /\ f[i] <= day + 3 + 3 * i /\ f[i] <= day + Reach
  <2>1. i \in Nat /\ i <= 2 * MaxHolidays /\ day + 1 + 3 * i \in Nat
    BY ScheduleNumbers
  <2>2. f[i] = g(day + 1 + 3 * i)
    OBVIOUS
  <2>3. /\ g(day + 1 + 3 * i) \in Nat /\ ~isWeekend(g(day + 1 + 3 * i))
        /\ day + 1 + 3 * i <= g(day + 1 + 3 * i) /\ g(day + 1 + 3 * i) <= (day + 1 + 3 * i) + 2
    BY <1>1, <2>1
  <2> HIDE DEF f
  <2> QED
    BY <2>1, <2>2, <2>3, ScheduleNumbers
<1>3. f \in [0 .. 2 * MaxHolidays -> Nat]
    BY <1>2
<1> HIDE DEF f
<1>4. \A i, j \in 0 .. 2 * MaxHolidays : i # j => f[i] # f[j]
  <2> SUFFICES ASSUME NEW i \in 0 .. 2 * MaxHolidays, NEW j \in 0 .. 2 * MaxHolidays, i # j
               PROVE  f[i] # f[j]
    OBVIOUS
  <2>1. i < j \/ j < i
    BY <1>2
  <2> QED
    BY <1>2, <2>1
<1>5. PICK i \in 0 .. 2 * MaxHolidays : f[i] \notin taken
    BY <1>3, <1>4, OneIsFree
<1>6. f[i] \in day + 1 .. day + Reach
    BY <1>2, ScheduleNumbers
<1> QED
    BY <1>2, <1>5, <1>6

LEMMA NextOpenDay ==
    ASSUME CalendarOK, NEW day \in Nat
    PROVE  /\ nextOpenDayOnOrAfter(day) \in Nat /\ day <= nextOpenDayOnOrAfter(day)
           /\ nextOpenDayOnOrAfter(day) <= day + Reach
           /\ isShopOpenOn(nextOpenDayOnOrAfter(day))
           /\ \A d \in Nat : day <= d /\ isShopOpenOn(d) => nextOpenDayOnOrAfter(day) <= d
<1> DEFINE S == {d \in day .. day + Reach : isShopOpenOn(d)}
<1>1. S \subseteq Nat /\ S # {}
    BY OpenDayExists, ScheduleNumbers
<1>2. Min(S) \in S /\ \A n \in S : Min(S) <= n
  <2> HIDE DEF S
  <2> QED
    BY <1>1, LeastOf
<1>3. nextOpenDayOnOrAfter(day) = Min(S)
    BY DEF nextOpenDayOnOrAfter
<1>4. ASSUME NEW d \in Nat, day <= d, isShopOpenOn(d) PROVE Min(S) <= d
  <2>1. CASE d <= day + Reach
    <3>1. d \in S
        BY <1>4, <2>1, ScheduleNumbers
    <3> QED
        BY <1>2, <3>1
  <2>2. CASE d > day + Reach
    <3>1. Min(S) \in day .. day + Reach
        BY <1>2
    <3> QED
        BY <2>2, <3>1, ScheduleNumbers
  <2> QED
    BY <2>1, <2>2, ScheduleNumbers
<1> QED
    BY <1>1, <1>2, <1>3, <1>4, ScheduleNumbers

LEMMA OpenDaysFinite ==
    ASSUME NEW from \in Nat, NEW to \in Nat
    PROVE  IsFiniteSet(OpenDays(from, to)) /\ Cardinality(OpenDays(from, to)) \in Nat
<1>1. from \in Int /\ to \in Int
    OBVIOUS
<1>2. IsFiniteSet(from .. to)
    BY <1>1, FS_Interval
<1>3. OpenDays(from, to) \in SUBSET (from .. to)
    BY DEF OpenDays
<1>4. IsFiniteSet(OpenDays(from, to))
    BY <1>2, <1>3, FS_Subset
<1> QED
    BY <1>4, FS_CardinalityType

(* The first open day from a day on is one more.                            *)
LEMMA OneDayMore ==
    ASSUME CalendarOK, NEW from \in Nat, NEW to \in Nat, from <= to + 1
    PROVE  Cardinality(OpenDays(from, nextOpenDayOnOrAfter(to + 1)))
             = Cardinality(OpenDays(from, to)) + 1
<1> DEFINE d == nextOpenDayOnOrAfter(to + 1)
<1>1. /\ d \in Nat /\ to + 1 <= d /\ isShopOpenOn(d)
      /\ \A e \in Nat : to + 1 <= e /\ isShopOpenOn(e) => d <= e
    BY NextOpenDay
<1> HIDE DEF d
<1>2. OpenDays(from, d) = OpenDays(from, to) \union {d}
  <2>1. ASSUME NEW e \in OpenDays(from, d) PROVE e \in OpenDays(from, to) \union {d}
    <3>1. e \in Nat /\ from <= e /\ e <= d /\ isShopOpenOn(e)
        BY <1>1, <2>1 DEF OpenDays
    <3>2. e <= to \/ e = d
        BY <1>1, <3>1
    <3> QED
        BY <3>1, <3>2 DEF OpenDays
  <2>2. ASSUME NEW e \in OpenDays(from, to) \union {d} PROVE e \in OpenDays(from, d)
      BY <1>1 DEF OpenDays
  <2> QED
    BY <2>1, <2>2
<1>3. d \notin OpenDays(from, to)
    BY <1>1 DEF OpenDays
<1>4. IsFiniteSet(OpenDays(from, to))
    BY OpenDaysFinite
<1> QED
    BY <1>2, <1>3, <1>4, FS_AddElement DEF d

LEMMA WorkingDayExists ==
    ASSUME CalendarOK, NEW day \in Nat, NEW count \in Nat, count > 0
    PROVE  \E d \in day + 1 .. day + count * (Reach + 1) :
             isShopOpenOn(d) /\ Cardinality(OpenDays(day + 1, d)) = count
<1> DEFINE Found(n) == \E d \in day + 1 .. day + n * (Reach + 1) :
                         isShopOpenOn(d) /\ Cardinality(OpenDays(day + 1, d)) = n
           Bad == {n \in Nat : n > 0 /\ ~ Found(n)}
<1>1. Found(1)
  <2> DEFINE d == nextOpenDayOnOrAfter(day + 1)
  <2>1. d \in Nat /\ day + 1 <= d /\ d <= day + 1 + Reach /\ isShopOpenOn(d)
    BY NextOpenDay
  <2>2. Cardinality(OpenDays(day + 1, d)) = Cardinality(OpenDays(day + 1, day)) + 1
    BY OneDayMore
  <2>3. OpenDays(day + 1, day) = {}
    BY DEF OpenDays
  <2>4. Cardinality(OpenDays(day + 1, d)) = 1
    BY <2>2, <2>3, FS_EmptySet
  <2> HIDE DEF d
  <2>5. d \in day + 1 .. day + 1 * (Reach + 1)
    BY <2>1, ScheduleNumbers
  <2> QED
    BY <2>1, <2>4, <2>5
<1>2. ASSUME NEW n \in Nat, n > 0, Found(n) PROVE Found(n + 1)
  <2>1. PICK e \in day + 1 .. day + n * (Reach + 1) :
          isShopOpenOn(e) /\ Cardinality(OpenDays(day + 1, e)) = n
    BY <1>2
  <2>2. n * (Reach + 1) \in Nat /\ (n + 1) * (Reach + 1) = n * (Reach + 1) + (Reach + 1)
    BY ScheduleNumbers
  <2>3. e \in Nat /\ day + 1 <= e /\ e <= day + n * (Reach + 1)
    BY <2>1, <2>2
  <2> DEFINE d == nextOpenDayOnOrAfter(e + 1)
  <2>4. d \in Nat /\ e + 1 <= d /\ d <= e + 1 + Reach /\ isShopOpenOn(d)
    BY <2>3, NextOpenDay
  <2>5. Cardinality(OpenDays(day + 1, d)) = n + 1
    BY <2>1, <2>3, OneDayMore
  <2> HIDE DEF d
  <2>6. d \in day + 1 .. day + (n + 1) * (Reach + 1)
    BY <2>2, <2>3, <2>4, ScheduleNumbers
  <2> QED
    BY <2>4, <2>5, <2>6
<1> HIDE DEF Found
<1>3. ASSUME Bad # {} PROVE FALSE
  <2>1. Bad \subseteq Nat
    OBVIOUS
  <2>2. Min(Bad) \in Bad /\ \A n \in Bad : Min(Bad) <= n
    BY <1>3, <2>1, LeastOf
  <2> DEFINE m == Min(Bad)
  <2>3. m \in Nat /\ m > 0 /\ ~ Found(m)
    BY <2>2
  <2>4. m # 1
    BY <1>1, <2>3
  <2>5. m - 1 \in Nat /\ m - 1 > 0 /\ (m - 1) + 1 = m
    BY <2>3, <2>4
  <2>6. m - 1 \notin Bad
    BY <2>2, <2>5
  <2>7. Found(m - 1)
    BY <2>5, <2>6
  <2> QED
    BY <1>2, <2>3, <2>5, <2>7
<1>4. Found(count)
    BY <1>3
<1> QED
    BY <1>4 DEF Found

LEMMA WorkingDays ==
    ASSUME CalendarOK, NEW day \in Nat, NEW count \in Nat
    PROVE  /\ addWorkingDays(day, count) \in Nat
           /\ count = 0 => addWorkingDays(day, count) = day
           /\ count > 0 =>
                /\ day < addWorkingDays(day, count) /\ isShopOpenOn(addWorkingDays(day, count))
                /\ Cardinality(OpenDays(day + 1, addWorkingDays(day, count))) = count
<1>1. CASE count = 0
    BY <1>1 DEF addWorkingDays
<1>2. CASE count > 0
  <2> DEFINE d == addWorkingDays(day, count)
  <2>1. \E e \in day + 1 .. day + count * (Reach + 1) :
          isShopOpenOn(e) /\ Cardinality(OpenDays(day + 1, e)) = count
    BY <1>2, WorkingDayExists
  <2>2. /\ d \in day + 1 .. day + count * (Reach + 1)
        /\ isShopOpenOn(d) /\ Cardinality(OpenDays(day + 1, d)) = count
    BY <1>2, <2>1 DEF addWorkingDays
  <2>3. count * (Reach + 1) \in Nat
    BY ScheduleNumbers
  <2>4. d \in Nat /\ day < d
    <3> HIDE DEF d
    <3> QED
        BY <2>2, <2>3
  <2> QED
    BY <1>2, <2>2, <2>4
<1> QED
    BY <1>1, <1>2

(* Later and further is not sooner.                                         *)
LEMMA WorkingDaysInOrder ==
    ASSUME CalendarOK, NEW a \in Nat, NEW b \in Nat, a <= b,
           NEW m \in Nat, NEW n \in Nat, m <= n
    PROVE  addWorkingDays(a, m) <= addWorkingDays(b, n)
<1> DEFINE A == addWorkingDays(a, m)
           B == addWorkingDays(b, n)
<1>1. A \in Nat /\ B \in Nat /\ b <= B
  <2>1. A \in Nat /\ B \in Nat /\ (n = 0 => B = b) /\ (n > 0 => b < B)
    BY WorkingDays
  <2> HIDE DEF A, B
  <2>2. n = 0 \/ n > 0
    OBVIOUS
  <2> QED
    BY <2>1, <2>2
<1>2. CASE m = 0
    BY <1>1, <1>2, WorkingDays
<1>3. CASE m > 0
  <2>1. isShopOpenOn(A) /\ a < A /\ Cardinality(OpenDays(a + 1, A)) = m
    BY <1>3, WorkingDays
  <2>2. b < B /\ Cardinality(OpenDays(b + 1, B)) = n
    BY <1>3, WorkingDays
  <2> HIDE DEF A, B
  <2>3. ASSUME B < A PROVE FALSE
    <3>1. A \in OpenDays(a + 1, A) /\ A \notin OpenDays(b + 1, B)
        BY <1>1, <2>1, <2>3 DEF OpenDays
    <3>2. OpenDays(b + 1, B) \in SUBSET (OpenDays(a + 1, A) \ {A})
        BY <1>1, <2>3 DEF OpenDays
    <3>3. IsFiniteSet(OpenDays(a + 1, A))
        BY <1>1, OpenDaysFinite
    <3>4. IsFiniteSet(OpenDays(a + 1, A) \ {A})
          /\ Cardinality(OpenDays(a + 1, A) \ {A}) = m - 1
        BY <2>1, <3>1, <3>3, FS_RemoveElement
    <3>5. n <= m - 1
        BY <2>2, <3>2, <3>4, FS_Subset
    <3> QED
        BY <3>5
  <2> QED
    BY <1>1, <2>3 DEF A, B
<1> QED
    BY <1>2, <1>3 DEF A, B

(* The recursive function is one: no day is the first to have no value.     *)
LEMMA OccupiedSteps ==
    occupied = [day \in 0 .. LastDay + 1 |->
                  IF day = 0 THEN official \union easter
                  ELSE addSubstituteOf(day - 1, occupied[day - 1])]
<1> DEFINE Steps(n, f) ==
             f = [day \in 0 .. n |-> IF day = 0 THEN official \union easter
                                     ELSE addSubstituteOf(day - 1, f[day - 1])]
           Bad == {n \in Nat : ~ \E f : Steps(n, f)}
<1>1. \E f : Steps(0, f)
  <2> DEFINE f == [day \in 0 .. 0 |-> official \union easter]
  <2>1. f = [day \in 0 .. 0 |-> IF day = 0 THEN official \union easter
                                ELSE addSubstituteOf(day - 1, f[day - 1])]
    <3>1. \A day \in 0 .. 0 : day = 0
        OBVIOUS
    <3> QED
        BY <3>1
  <2> QED
    BY <2>1
<1>2. ASSUME NEW n \in Nat, NEW f, Steps(n, f) PROVE \E g : Steps(n + 1, g)
  <2> DEFINE g == [day \in 0 .. n + 1 |->
                     IF day = n + 1 THEN addSubstituteOf(n, f[n]) ELSE f[day]]
             h == [day \in 0 .. n + 1 |-> IF day = 0 THEN official \union easter
                                          ELSE addSubstituteOf(day - 1, g[day - 1])]
  <2>1. ASSUME NEW day \in 0 .. n + 1 PROVE g[day] = h[day]
    <3>1. CASE day = n + 1
      <4>1. g[day] = addSubstituteOf(n, f[n])
        BY <3>1
      <4>2. day - 1 = n /\ day # 0 /\ n \in 0 .. n + 1 /\ n # n + 1
        BY <3>1
      <4>3. g[day - 1] = f[n]
        BY <4>2
      <4>4. h[day] = addSubstituteOf(day - 1, g[day - 1])
        BY <4>2
      <4> QED
        BY <4>1, <4>2, <4>3, <4>4
    <3>2. CASE day = 0
      <4>1. 0 \in 0 .. n /\ 0 # n + 1
        OBVIOUS
      <4>2. f[0] = official \union easter
        BY <1>2, <4>1
      <4> QED
        BY <3>2, <4>1, <4>2
    <3>3. CASE day # 0 /\ day # n + 1
      <4>1. day \in 0 .. n /\ day - 1 \in 0 .. n + 1 /\ day - 1 # n + 1
        BY <3>3
      <4>2. f[day] = addSubstituteOf(day - 1, f[day - 1])
        BY <1>2, <3>3, <4>1
      <4>3. g[day] = f[day] /\ g[day - 1] = f[day - 1]
        BY <3>3, <4>1
      <4>4. h[day] = addSubstituteOf(day - 1, g[day - 1])
        BY <3>3
      <4> QED
        BY <4>2, <4>3, <4>4
    <3> QED
        BY <3>1, <3>2, <3>3
  <2>2. g = h
    <3> HIDE DEF Steps
    <3>1. g = [day \in 0 .. n + 1 |-> g[day]] /\ h = [day \in 0 .. n + 1 |-> h[day]]
        OBVIOUS
    <3> QED
        BY <2>1, <3>1
  <2>3. Steps(n + 1, g)
    BY <2>2
  <2> QED
    BY <2>3
<1> HIDE DEF Steps
<1>3. ASSUME Bad # {} PROVE FALSE
  <2>1. Bad \subseteq Nat
    OBVIOUS
  <2> DEFINE m == Min(Bad)
  <2>2. m \in Bad /\ \A n \in Bad : m <= n
    BY <1>3, <2>1, LeastOf
  <2>3. m \in Nat /\ m # 0
    BY <1>1, <2>2
  <2> HIDE DEF m
  <2>4. m - 1 \in Nat /\ (m - 1) + 1 = m /\ ~ (m <= m - 1)
    BY <2>3
  <2>5. \E f : Steps(m - 1, f)
    BY <2>2, <2>4
  <2>6. \E f : Steps((m - 1) + 1, f)
    BY <1>2, <2>4, <2>5
  <2> QED
    BY <2>2, <2>4, <2>6
<1>4. LastDay + 1 \in Nat
    BY ScheduleNumbers
<1>5. \E f : Steps(LastDay + 1, f)
    BY <1>3, <1>4
<1>6. occupied = CHOOSE f : Steps(LastDay + 1, f)
    BY DEF occupied, Steps
<1>7. Steps(LastDay + 1, occupied)
    BY <1>5, <1>6
<1> QED
    BY <1>7 DEF Steps

(* The official holidays on the weekends before a day.                      *)
WeekendsBefore(n) == {o \in official : isWeekend(o) /\ o < n}

HolidaysOK ==
    /\ firstWeekday \in 0 .. 6
    /\ official \subseteq 0 .. LastDay /\ easter \subseteq 0 .. LastDay
    /\ Cardinality(official) + Cardinality(easter) <= MaxHolidays

SubstitutesCounted(n) ==
    /\ IsFiniteSet(occupied[n]) /\ occupied[n] \subseteq Nat
    /\ Cardinality(occupied[n])
         <= Cardinality(official \union easter) + Cardinality(WeekendsBefore(n))
    /\ Cardinality({d \in occupied[n] : ~isWeekend(d)})
         = Cardinality({d \in official \union easter : ~isWeekend(d)})
           + Cardinality(WeekendsBefore(n))

LEMMA HolidaysFinite ==
    ASSUME HolidaysOK
    PROVE  /\ IsFiniteSet(official) /\ IsFiniteSet(easter) /\ IsFiniteSet(official \union easter)
           /\ Cardinality(official \union easter) \in Nat
           /\ Cardinality(official \union easter) <= MaxHolidays
           /\ \A n : /\ IsFiniteSet(WeekendsBefore(n)) /\ Cardinality(WeekendsBefore(n)) \in Nat
                     /\ Cardinality(WeekendsBefore(n)) <= MaxHolidays
<1>1. 0 \in Int /\ LastDay \in Int
    BY ScheduleNumbers
<1>2. IsFiniteSet(0 .. LastDay)
    BY <1>1, FS_Interval
<1>3. IsFiniteSet(official) /\ IsFiniteSet(easter)
    BY <1>2, FS_Subset DEF HolidaysOK
<1>4. Cardinality(official) \in Nat /\ Cardinality(easter) \in Nat
    BY <1>3, FS_CardinalityType
<1>5. /\ IsFiniteSet(official \union easter)
      /\ Cardinality(official \union easter)
           = Cardinality(official) + Cardinality(easter) - Cardinality(official \intersect easter)
    BY <1>3, FS_Union
<1>6. Cardinality(official \union easter) \in Nat
    BY <1>5, FS_CardinalityType
<1>7. IsFiniteSet(official \intersect easter)
    BY <1>3, FS_Intersection
<1>8. Cardinality(official \intersect easter) \in Nat
    BY <1>7, FS_CardinalityType
<1>9. Cardinality(official \union easter) <= MaxHolidays
    BY <1>4, <1>5, <1>6, <1>8, ScheduleNumbers DEF HolidaysOK
<1>10. ASSUME NEW n
       PROVE  /\ IsFiniteSet(WeekendsBefore(n)) /\ Cardinality(WeekendsBefore(n)) \in Nat
              /\ Cardinality(WeekendsBefore(n)) <= MaxHolidays
  <2>1. WeekendsBefore(n) \in SUBSET official
    BY DEF WeekendsBefore
  <2>2. IsFiniteSet(WeekendsBefore(n)) /\ Cardinality(WeekendsBefore(n)) <= Cardinality(official)
    BY <1>3, <2>1, FS_Subset
  <2>3. Cardinality(WeekendsBefore(n)) \in Nat
    BY <2>2, FS_CardinalityType
  <2> QED
    BY <1>4, <2>2, <2>3, ScheduleNumbers DEF HolidaysOK
<1> QED
    BY <1>3, <1>5, <1>6, <1>9, <1>10

LEMMA CountedAtFirst == HolidaysOK => SubstitutesCounted(0)
<1> SUFFICES ASSUME HolidaysOK PROVE SubstitutesCounted(0)
    OBVIOUS
<1>1. 0 \in 0 .. LastDay + 1
    BY ScheduleNumbers
<1>2. occupied[0] = official \union easter
    BY <1>1, OccupiedSteps
<1>3. WeekendsBefore(0) = {}
  <2>1. \A o \in official : ~ (o < 0)
    BY DEF HolidaysOK
  <2> QED
    BY <2>1 DEF WeekendsBefore
<1>4. Cardinality(WeekendsBefore(0)) = 0
    BY <1>3, FS_EmptySet
<1>5. {d \in official \union easter : ~isWeekend(d)} \in SUBSET (official \union easter)
    OBVIOUS
<1>6. IsFiniteSet({d \in official \union easter : ~isWeekend(d)})
    BY <1>5, HolidaysFinite, FS_Subset
<1>7. Cardinality({d \in official \union easter : ~isWeekend(d)}) \in Nat
    BY <1>6, FS_CardinalityType
<1>8. IsFiniteSet(official \union easter) /\ Cardinality(official \union easter) \in Nat
    BY HolidaysFinite
<1>9. official \union easter \subseteq Nat
    BY DEF HolidaysOK
<1> QED
    BY <1>2, <1>4, <1>7, <1>8, <1>9 DEF SubstitutesCounted

LEMMA FirstFreeDay ==
    ASSUME firstWeekday \in 0 .. 6, NEW day \in Nat,
           NEW taken, IsFiniteSet(taken), Cardinality(taken) <= 2 * MaxHolidays
    PROVE  /\ FirstFree(taken, day) \in Nat /\ day < FirstFree(taken, day)
           /\ ~isWeekend(FirstFree(taken, day)) /\ FirstFree(taken, day) \notin taken
<1> DEFINE S == {d \in day + 1 .. day + Reach : ~isWeekend(d) /\ d \notin taken}
<1>1. S \subseteq Nat /\ S # {} /\ \A d \in S : day < d
  <2>1. \A d \in day + 1 .. day + Reach : d \in Nat /\ day < d
    BY ScheduleNumbers
  <2>2. S # {}
    BY FreeWeekdayExists
  <2> QED
    BY <2>1, <2>2
<1>2. \A d \in S : ~isWeekend(d) /\ d \notin taken
    OBVIOUS
<1>3. FirstFree(taken, day) = Min(S)
    BY DEF FirstFree
<1> HIDE DEF S
<1>4. Min(S) \in S
    BY <1>1, LeastOf
<1> QED
    BY <1>1, <1>2, <1>3, <1>4

LEMMA CountedOneMore ==
    ASSUME HolidaysOK, NEW n \in 0 .. LastDay, SubstitutesCounted(n)
    PROVE  SubstitutesCounted(n + 1)
<1> DEFINE taken == occupied[n]
           free == FirstFree(taken, n)
           Weekdays(S) == {d \in S : ~isWeekend(d)}
<1>1. n \in Nat /\ n + 1 \in 0 .. LastDay + 1 /\ n + 1 # 0 /\ (n + 1) - 1 = n
    BY ScheduleNumbers
<1>2. occupied[n + 1] = addSubstituteOf(n, taken)
    BY <1>1, OccupiedSteps
<1>3. /\ IsFiniteSet(WeekendsBefore(n)) /\ Cardinality(WeekendsBefore(n)) \in Nat
      /\ Cardinality(WeekendsBefore(n)) <= MaxHolidays
      /\ Cardinality(official \union easter) \in Nat
      /\ Cardinality(official \union easter) <= MaxHolidays
    BY HolidaysFinite
<1>4. /\ IsFiniteSet(taken) /\ taken \subseteq Nat
      /\ Cardinality(taken)
           <= Cardinality(official \union easter) + Cardinality(WeekendsBefore(n))
      /\ Cardinality(Weekdays(taken))
           = Cardinality(Weekdays(official \union easter)) + Cardinality(WeekendsBefore(n))
    BY DEF SubstitutesCounted
<1>5. Cardinality(taken) \in Nat
    BY <1>4, FS_CardinalityType
<1>6. Cardinality(taken) <= 2 * MaxHolidays
    BY <1>3, <1>4, <1>5, ScheduleNumbers
<1>7. \A o \in official : o \in Nat
    BY DEF HolidaysOK
<1>8. CASE n \in official /\ isWeekend(n)
  <2>1. free \in Nat /\ ~isWeekend(free) /\ free \notin taken
    BY <1>1, <1>4, <1>6, FirstFreeDay DEF HolidaysOK
  <2> HIDE DEF free
  <2>2. occupied[n + 1] = taken \union {free}
    BY <1>2, <1>8 DEF addSubstituteOf, free
  <2>3. Weekdays(taken \union {free}) = Weekdays(taken) \union {free} /\ free \notin Weekdays(taken)
    BY <2>1
  <2>4. WeekendsBefore(n + 1) = WeekendsBefore(n) \union {n} /\ n \notin WeekendsBefore(n)
    <3>1. ~ (n < n) /\ \A o \in official : (o < n + 1) = (o < n \/ o = n)
        BY <1>1, <1>7
    <3> QED
        BY <1>8, <3>1 DEF WeekendsBefore
  <2>5. IsFiniteSet(taken \union {free}) /\ Cardinality(taken \union {free}) = Cardinality(taken) + 1
    BY <1>4, <2>1, FS_AddElement
  <2>6. Cardinality(WeekendsBefore(n + 1)) = Cardinality(WeekendsBefore(n)) + 1
    BY <1>3, <2>4, FS_AddElement
  <2>7. Weekdays(taken) \in SUBSET taken /\ Weekdays(official \union easter) \in SUBSET (official \union easter)
    OBVIOUS
  <2>8. IsFiniteSet(Weekdays(taken)) /\ IsFiniteSet(Weekdays(official \union easter))
    BY <1>4, <2>7, HolidaysFinite, FS_Subset
  <2>9. /\ Cardinality(Weekdays(taken)) \in Nat
        /\ Cardinality(Weekdays(official \union easter)) \in Nat
    BY <2>8, FS_CardinalityType
  <2>10. Weekdays(occupied[n + 1]) = Weekdays(taken) \union {free}
    BY <2>2, <2>3
  <2> HIDE DEF Weekdays, taken
  <2>11. Cardinality(Weekdays(taken) \union {free}) = Cardinality(Weekdays(taken)) + 1
    BY <2>3, <2>8, FS_AddElement
  <2>12. Cardinality(Weekdays(occupied[n + 1]))
           = Cardinality(Weekdays(official \union easter)) + Cardinality(WeekendsBefore(n + 1))
    BY <1>3, <1>4, <2>6, <2>9, <2>10, <2>11
  <2>13. Cardinality(occupied[n + 1])
           <= Cardinality(official \union easter) + Cardinality(WeekendsBefore(n + 1))
    BY <1>3, <1>4, <1>5, <2>2, <2>5, <2>6
  <2>14. IsFiniteSet(occupied[n + 1]) /\ occupied[n + 1] \subseteq Nat
    BY <1>4, <2>1, <2>2, <2>5
  <2> QED
    BY <2>12, <2>13, <2>14 DEF SubstitutesCounted, Weekdays
<1>9. CASE ~ (n \in official /\ isWeekend(n))
  <2>1. occupied[n + 1] = taken
    BY <1>2, <1>9 DEF addSubstituteOf
  <2>2. WeekendsBefore(n + 1) = WeekendsBefore(n)
    BY <1>1, <1>7, <1>9 DEF WeekendsBefore
  <2> QED
    BY <2>1, <2>2 DEF SubstitutesCounted
<1> QED
    BY <1>8, <1>9

LEMMA AllCounted ==
    ASSUME HolidaysOK
    PROVE  SubstitutesCounted(LastDay + 1)
<1> DEFINE Bad == {n \in 0 .. LastDay + 1 : ~ SubstitutesCounted(n)}
<1>1. ASSUME Bad # {} PROVE FALSE
  <2>1. Bad \subseteq Nat
    OBVIOUS
  <2> DEFINE m == Min(Bad)
  <2>2. m \in Bad /\ \A n \in Bad : m <= n
    BY <1>1, <2>1, LeastOf
  <2>3. m \in 0 .. LastDay + 1 /\ m # 0 /\ ~ SubstitutesCounted(m)
    BY <2>2, CountedAtFirst
  <2>4. m - 1 \in 0 .. LastDay /\ (m - 1) + 1 = m /\ m - 1 \in 0 .. LastDay + 1 /\ ~ (m <= m - 1)
    BY <2>3, ScheduleNumbers
  <2>5. SubstitutesCounted(m - 1)
    BY <2>2, <2>4
  <2>6. SubstitutesCounted(m)
    BY <2>4, <2>5, CountedOneMore
  <2> QED
    BY <2>3, <2>6
<1>2. LastDay + 1 \in 0 .. LastDay + 1
    BY ScheduleNumbers
<1> QED
    BY <1>1, <1>2

LEMMA HolidaysAreBounded ==
    ASSUME HolidaysOK
    PROVE  /\ IsFiniteSet(isHoliday) /\ isHoliday \subseteq Nat
           /\ Cardinality(isHoliday) <= 2 * MaxHolidays
<1>1. SubstitutesCounted(LastDay + 1)
    BY AllCounted
<1>2. IsFiniteSet(isHoliday) /\ isHoliday \subseteq Nat
    BY <1>1 DEF SubstitutesCounted, isHoliday
<1>3. Cardinality(isHoliday) \in Nat
    BY <1>2, FS_CardinalityType
<1>4. Cardinality(isHoliday)
        <= Cardinality(official \union easter) + Cardinality(WeekendsBefore(LastDay + 1))
    BY <1>1 DEF SubstitutesCounted, isHoliday
<1>5. /\ Cardinality(WeekendsBefore(LastDay + 1)) \in Nat
      /\ Cardinality(WeekendsBefore(LastDay + 1)) <= MaxHolidays
      /\ Cardinality(official \union easter) \in Nat
      /\ Cardinality(official \union easter) <= MaxHolidays
    BY HolidaysFinite
<1> QED
    BY <1>2, <1>3, <1>4, <1>5, ScheduleNumbers

LEMMA SubstitutesApart == HolidaysOK => SubstitutesAreDistinct
<1> SUFFICES ASSUME HolidaysOK PROVE SubstitutesAreDistinct
    OBVIOUS
<1>1. SubstitutesCounted(LastDay + 1)
    BY AllCounted
<1>2. WeekendsBefore(LastDay + 1) = {d \in official : isWeekend(d)}
  <2>1. \A o \in official : o < LastDay + 1
    BY ScheduleNumbers DEF HolidaysOK
  <2> QED
    BY <2>1 DEF WeekendsBefore
<1> QED
    BY <1>1, <1>2 DEF SubstitutesCounted, SubstitutesAreDistinct, isHoliday

LEMMA InstantParts ==
    /\ \A i \in Nat : /\ DayOf(i) \in Nat /\ HourOf(i) \in 0 .. 23
                      /\ i = 24 * DayOf(i) + HourOf(i)
    /\ \A d \in Nat, h \in 0 .. 23 :
         At(d, h) \in Nat /\ DayOf(At(d, h)) = d /\ HourOf(At(d, h)) = h
    /\ \A i, j \in Nat : i <= j => DayOf(i) <= DayOf(j)
    /\ \A i, j \in Nat : DayOf(i) = DayOf(j) => (i <= j <=> HourOf(i) <= HourOf(j))
<1>1. \A i \in Nat : /\ i \div 24 \in Nat /\ i % 24 \in 0 .. 23
                     /\ i = 24 * (i \div 24) + (i % 24)
    OBVIOUS
<1>2. \A d \in Nat, h \in 0 .. 23 :
        24 * d + h \in Nat /\ (24 * d + h) \div 24 = d /\ (24 * d + h) % 24 = h
    OBVIOUS
<1>3. \A i, j \in Nat : i <= j => i \div 24 <= j \div 24
    OBVIOUS
<1>4. \A i, j \in Nat : i \div 24 = j \div 24 => (i <= j <=> i % 24 <= j % 24)
    OBVIOUS
<1> QED
    BY <1>1, <1>2, <1>3, <1>4 DEF At, DayOf, HourOf

LEMMA AtParts ==
    ASSUME NEW d \in Nat, NEW h \in 0 .. 23
    PROVE  At(d, h) \in Nat /\ DayOf(At(d, h)) = d /\ HourOf(At(d, h)) = h
BY InstantParts

LEMMA WarehouseMeta ==
    /\ DOMAIN Warehouses = 1 .. 5
    /\ \A w \in 1 .. 5 : /\ baseWorkDays[w] \in 0 .. 3
                         /\ baseWorkDays[w] = IF w <= 2 THEN 0 ELSE w - 2
                         /\ cutoffKind[w] = IF w = 1 THEN "SHOP_CLOSE"
                                            ELSE IF w = 2 THEN "SAME_DAY" ELSE "PROCESSING"
<1>1. DOMAIN Warehouses = 1 .. 5
    BY DEF Warehouses
<1>2. \A w \in 1 .. 5 : w = 1 \/ w = 2 \/ w = 3 \/ w = 4 \/ w = 5
    OBVIOUS
<1>3. /\ baseWorkDays[1] = 0 /\ baseWorkDays[2] = 0 /\ baseWorkDays[3] = 1
      /\ baseWorkDays[4] = 2 /\ baseWorkDays[5] = 3
    BY DEF baseWorkDays
<1>4. /\ cutoffKind[1] = "SHOP_CLOSE" /\ cutoffKind[2] = "SAME_DAY" /\ cutoffKind[3] = "PROCESSING"
      /\ cutoffKind[4] = "PROCESSING" /\ cutoffKind[5] = "PROCESSING"
    BY DEF cutoffKind
<1> QED
    BY <1>1, <1>2, <1>3, <1>4

LEMMA Cutoffs ==
    ASSUME NEW w \in 1 .. 5, NEW day \in Nat
    PROVE  /\ closeHour(day) \in Hours /\ closeHour(day) \in 1 .. 23 /\ OpenHour < closeHour(day)
           /\ weekdayOf(day) # 6 => closeHour(day) = WeekdayClose
           /\ cutoffHour(w, day) = IF w = 1 THEN closeHour(day)
                                   ELSE IF w = 2 THEN SameDayCutoff ELSE ProcessingCutoff
           /\ cutoffHour(w, day) \in Hours /\ cutoffHour(w, day) \in 1 .. 23
           /\ OpenHour < cutoffHour(w, day)
           /\ cutoffHour(w, day) <= WeekdayClose
<1>1. /\ closeHour(day) \in {SaturdayClose, WeekdayClose}
      /\ weekdayOf(day) # 6 => closeHour(day) = WeekdayClose
    BY DEF closeHour
<1>2. cutoffHour(w, day) = IF w = 1 THEN closeHour(day)
                           ELSE IF w = 2 THEN SameDayCutoff ELSE ProcessingCutoff
    BY WarehouseMeta DEF cutoffHour
<1>3. {SameDayCutoff, ProcessingCutoff, SaturdayClose, WeekdayClose} \subseteq Hours
    BY ScheduleAssumption
<1>4. closeHour(day) \in Hours /\ cutoffHour(w, day) \in Hours
    BY <1>1, <1>2, <1>3
<1>5. /\ OpenHour < SaturdayClose /\ SaturdayClose <= WeekdayClose
      /\ OpenHour < SameDayCutoff /\ SameDayCutoff <= ProcessingCutoff
      /\ ProcessingCutoff <= WeekdayClose
    BY ScheduleAssumption
<1>6. closeHour(day) \in 1 .. 23 /\ OpenHour < closeHour(day) /\ closeHour(day) <= WeekdayClose
    BY <1>1, <1>5, ScheduleNumbers
<1> QED
    BY <1>1, <1>2, <1>4, <1>5, <1>6, ScheduleNumbers

(* When the shop is open next: within the hours of an open day, on the day  *)
(* itself or on the first open one after it.                                *)
LEMMA StartIsOpen ==
    ASSUME CalendarOK, NEW i \in Nat
    PROVE  LET s == effectiveStart(i) IN
           /\ s \in Nat /\ DayOf(s) \in Nat /\ HourOf(s) \in 0 .. 23 /\ isShopOpenOn(DayOf(s))
           /\ OpenHour <= HourOf(s) /\ HourOf(s) < closeHour(DayOf(s))
           /\ IF isShopOpenOn(DayOf(i)) /\ HourOf(i) < closeHour(DayOf(i))
                THEN /\ DayOf(s) = DayOf(i)
                     /\ HourOf(s) = IF HourOf(i) < OpenHour THEN OpenHour ELSE HourOf(i)
                ELSE /\ DayOf(s) = nextOpenDayOnOrAfter(DayOf(i) + 1) /\ DayOf(i) < DayOf(s)
                     /\ HourOf(s) = OpenHour
<1> DEFINE day == DayOf(i)
           next == nextOpenDayOnOrAfter(day + 1)
<1>1. day \in Nat /\ HourOf(i) \in 0 .. 23
    BY InstantParts
<1>2. next \in Nat /\ day + 1 <= next /\ isShopOpenOn(next)
    BY <1>1, NextOpenDay
<1>3. OpenHour < closeHour(day) /\ closeHour(day) \in 1 .. 23
    BY <1>1, Cutoffs, ScheduleNumbers
<1>4. OpenHour < closeHour(next) /\ closeHour(next) \in 1 .. 23
    BY <1>2, Cutoffs
<1>5. OpenHour \in 0 .. 23
    BY <1>3, ScheduleNumbers
<1>6. /\ At(day, OpenHour) \in Nat /\ DayOf(At(day, OpenHour)) = day
      /\ HourOf(At(day, OpenHour)) = OpenHour
      /\ At(next, OpenHour) \in Nat /\ DayOf(At(next, OpenHour)) = next
      /\ HourOf(At(next, OpenHour)) = OpenHour
    BY <1>1, <1>2, <1>5, InstantParts
<1>7. CASE isShopOpenOn(day) /\ HourOf(i) < closeHour(day) /\ HourOf(i) < OpenHour
  <2>1. effectiveStart(i) = At(day, OpenHour)
    BY <1>7 DEF effectiveStart
  <2> QED
    BY <1>1, <1>3, <1>5, <1>6, <1>7, <2>1
<1>8. CASE isShopOpenOn(day) /\ HourOf(i) < closeHour(day) /\ ~ (HourOf(i) < OpenHour)
  <2>1. effectiveStart(i) = i
    BY <1>8 DEF effectiveStart
  <2> QED
    BY <1>1, <1>3, <1>5, <1>8, <2>1
<1>9. CASE ~ (isShopOpenOn(day) /\ HourOf(i) < closeHour(day))
  <2>1. effectiveStart(i) = At(next, OpenHour)
    BY <1>9 DEF effectiveStart
  <2> QED
    BY <1>1, <1>2, <1>4, <1>5, <1>6, <1>9, <2>1
<1> QED
    BY <1>7, <1>8, <1>9

LEMMA StartsInOrder ==
    ASSUME CalendarOK, NEW i \in Nat, NEW j \in Nat, i <= j
    PROVE  LET s == effectiveStart(i)
               t == effectiveStart(j) IN
           /\ DayOf(s) <= DayOf(t)
           /\ DayOf(s) = DayOf(t) => HourOf(s) <= HourOf(t)
<1> DEFINE s == effectiveStart(i)
           t == effectiveStart(j)
           isToday(k) == isShopOpenOn(DayOf(k)) /\ HourOf(k) < closeHour(DayOf(k))
<1>1. /\ DayOf(s) \in Nat /\ HourOf(s) \in 0 .. 23
      /\ IF isToday(i)
           THEN /\ DayOf(s) = DayOf(i)
                /\ HourOf(s) = IF HourOf(i) < OpenHour THEN OpenHour ELSE HourOf(i)
           ELSE /\ DayOf(s) = nextOpenDayOnOrAfter(DayOf(i) + 1) /\ DayOf(i) < DayOf(s)
                /\ HourOf(s) = OpenHour
    BY StartIsOpen
<1>2. /\ DayOf(t) \in Nat /\ HourOf(t) \in 0 .. 23 /\ isShopOpenOn(DayOf(t)) /\ OpenHour <= HourOf(t)
      /\ IF isToday(j)
           THEN /\ DayOf(t) = DayOf(j)
                /\ HourOf(t) = IF HourOf(j) < OpenHour THEN OpenHour ELSE HourOf(j)
           ELSE /\ DayOf(t) = nextOpenDayOnOrAfter(DayOf(j) + 1) /\ DayOf(j) < DayOf(t)
                /\ HourOf(t) = OpenHour
    BY StartIsOpen
<1>3. /\ DayOf(i) \in Nat /\ DayOf(j) \in Nat /\ DayOf(i) <= DayOf(j)
      /\ HourOf(i) \in 0 .. 23 /\ HourOf(j) \in 0 .. 23
      /\ DayOf(i) = DayOf(j) => HourOf(i) <= HourOf(j)
    BY InstantParts
<1>4. ASSUME DayOf(i) < DayOf(t) PROVE nextOpenDayOnOrAfter(DayOf(i) + 1) <= DayOf(t)
  <2>1. DayOf(i) + 1 \in Nat /\ DayOf(i) + 1 <= DayOf(t)
    BY <1>2, <1>3, <1>4
  <2> QED
    BY <1>2, <2>1, NextOpenDay
<1>5. isToday(j) /\ DayOf(i) = DayOf(j) => isToday(i)
  <2> HAVE isToday(j) /\ DayOf(i) = DayOf(j)
  <2>1. closeHour(DayOf(j)) \in 1 .. 23 /\ closeHour(DayOf(i)) = closeHour(DayOf(j))
    BY <1>3, Cutoffs
  <2> QED
    BY <1>3, <2>1
<1> HIDE DEF s, t, isToday
<1>6. CASE isToday(i)
    BY <1>1, <1>2, <1>3, <1>6, ScheduleNumbers DEF s, t
<1>7. CASE ~ isToday(i)
  <2>1. DayOf(i) < DayOf(t)
    BY <1>2, <1>3, <1>5, <1>7
  <2> QED
    BY <1>1, <1>2, <1>4, <1>7, <2>1 DEF s, t
<1> QED
    BY <1>6, <1>7

(* The day a warehouse sends a part off.                                    *)
Dispatch(w, start) ==
    IF HourOf(start) < cutoffHour(w, DayOf(start)) THEN DayOf(start)
    ELSE nextOpenDayOnOrAfter(DayOf(start) + 1)

IsStart(s) == /\ s \in Nat /\ DayOf(s) \in Nat /\ HourOf(s) \in 0 .. 23
              /\ isShopOpenOn(DayOf(s)) /\ HourOf(s) < closeHour(DayOf(s))

LEMMA DispatchDay ==
    ASSUME CalendarOK, NEW w \in 1 .. 5, NEW s, IsStart(s)
    PROVE  /\ Dispatch(w, s) \in Nat /\ DayOf(s) <= Dispatch(w, s) /\ isShopOpenOn(Dispatch(w, s))
           /\ \A d \in Nat : DayOf(s) < d /\ isShopOpenOn(d) => Dispatch(w, s) <= d
           /\ deliveryDate(w, s) = addWorkingDays(Dispatch(w, s), baseWorkDays[w])
           /\ w = 1 => deliveryDate(w, s) = DayOf(s)
<1>1. DayOf(s) + 1 \in Nat /\ DayOf(s) \in Nat
    BY DEF IsStart
<1>2. /\ nextOpenDayOnOrAfter(DayOf(s) + 1) \in Nat /\ DayOf(s) + 1 <= nextOpenDayOnOrAfter(DayOf(s) + 1)
      /\ isShopOpenOn(nextOpenDayOnOrAfter(DayOf(s) + 1))
      /\ \A d \in Nat : DayOf(s) + 1 <= d /\ isShopOpenOn(d)
                          => nextOpenDayOnOrAfter(DayOf(s) + 1) <= d
    BY <1>1, NextOpenDay
<1>3. deliveryDate(w, s) = addWorkingDays(Dispatch(w, s), baseWorkDays[w])
    BY DEF deliveryDate, Dispatch
<1>4. w = 1 => deliveryDate(w, s) = DayOf(s)
  <2> HAVE w = 1
  <2>1. Dispatch(w, s) = DayOf(s)
    BY <1>1, Cutoffs DEF Dispatch, IsStart
  <2>2. baseWorkDays[w] = 0
    BY WarehouseMeta
  <2> QED
    BY <1>3, <2>1, <2>2 DEF addWorkingDays
<1>5. /\ Dispatch(w, s) \in Nat /\ DayOf(s) <= Dispatch(w, s) /\ isShopOpenOn(Dispatch(w, s))
    BY <1>1, <1>2 DEF Dispatch, IsStart
<1>6. ASSUME NEW d \in Nat, DayOf(s) < d, isShopOpenOn(d) PROVE Dispatch(w, s) <= d
    BY <1>1, <1>2, <1>6 DEF Dispatch
<1> QED
    BY <1>3, <1>4, <1>5, <1>6

LEMMA DeliveryDay ==
    ASSUME CalendarOK, NEW w \in 1 .. 5, NEW s, IsStart(s)
    PROVE  /\ deliveryDate(w, s) \in Nat /\ DayOf(s) <= deliveryDate(w, s)
           /\ isShopOpenOn(deliveryDate(w, s))
<1>1. /\ Dispatch(w, s) \in Nat /\ DayOf(s) <= Dispatch(w, s) /\ isShopOpenOn(Dispatch(w, s))
      /\ deliveryDate(w, s) = addWorkingDays(Dispatch(w, s), baseWorkDays[w])
    BY DispatchDay
<1>2. baseWorkDays[w] \in Nat
    BY WarehouseMeta
<1> DEFINE d == addWorkingDays(Dispatch(w, s), baseWorkDays[w])
<1>3. /\ d \in Nat
      /\ baseWorkDays[w] = 0 => d = Dispatch(w, s)
      /\ baseWorkDays[w] > 0 => Dispatch(w, s) < d /\ isShopOpenOn(d)
    BY <1>1, <1>2, WorkingDays
<1> HIDE DEF d
<1>4. baseWorkDays[w] = 0 \/ baseWorkDays[w] > 0
    BY <1>2
<1>5. DayOf(s) \in Nat
    BY DEF IsStart
<1>6. d \in Nat /\ DayOf(s) <= d /\ isShopOpenOn(d)
    BY <1>1, <1>3, <1>4, <1>5
<1> QED
    BY <1>1, <1>6 DEF d

(* A later start is not a sooner delivery.                                  *)
LEMMA DeliveriesInOrder ==
    ASSUME CalendarOK, NEW w \in 1 .. 5, NEW s, IsStart(s), NEW t, IsStart(t),
           DayOf(s) <= DayOf(t), DayOf(s) = DayOf(t) => HourOf(s) <= HourOf(t)
    PROVE  deliveryDate(w, s) <= deliveryDate(w, t)
<1>1. /\ Dispatch(w, s) \in Nat
      /\ \A d \in Nat : DayOf(s) < d /\ isShopOpenOn(d) => Dispatch(w, s) <= d
      /\ deliveryDate(w, s) = addWorkingDays(Dispatch(w, s), baseWorkDays[w])
    BY DispatchDay
<1>2. /\ Dispatch(w, t) \in Nat /\ DayOf(t) <= Dispatch(w, t) /\ isShopOpenOn(Dispatch(w, t))
      /\ deliveryDate(w, t) = addWorkingDays(Dispatch(w, t), baseWorkDays[w])
    BY DispatchDay
<1>3. Dispatch(w, s) <= Dispatch(w, t)
  <2>1. /\ DayOf(s) \in Nat /\ DayOf(t) \in Nat /\ HourOf(s) \in 0 .. 23 /\ HourOf(t) \in 0 .. 23
    BY DEF IsStart
  <2>2. CASE DayOf(s) < Dispatch(w, t)
    BY <1>1, <1>2, <2>2
  <2>3. CASE Dispatch(w, t) <= DayOf(s)
    <3>1. DayOf(s) = DayOf(t) /\ Dispatch(w, t) = DayOf(t)
        BY <1>2, <2>1, <2>3
    <3>2. nextOpenDayOnOrAfter(DayOf(t) + 1) # DayOf(t)
      <4>1. DayOf(t) + 1 \in Nat
        BY <2>1
      <4>2. DayOf(t) + 1 <= nextOpenDayOnOrAfter(DayOf(t) + 1)
            /\ nextOpenDayOnOrAfter(DayOf(t) + 1) \in Nat
        BY <4>1, NextOpenDay
      <4> QED
        BY <2>1, <4>2
    <3>3. HourOf(t) < cutoffHour(w, DayOf(t))
        BY <3>1, <3>2 DEF Dispatch
    <3>4. cutoffHour(w, DayOf(t)) \in 1 .. 23
        BY <2>1, Cutoffs
    <3>5. HourOf(s) < cutoffHour(w, DayOf(s))
        BY <2>1, <3>1, <3>3, <3>4
    <3> QED
        BY <2>1, <3>1, <3>5 DEF Dispatch
  <2> QED
    BY <1>2, <2>1, <2>2, <2>3
<1>4. baseWorkDays[w] \in Nat
    BY WarehouseMeta
<1>5. addWorkingDays(Dispatch(w, s), baseWorkDays[w]) <= addWorkingDays(Dispatch(w, t), baseWorkDays[w])
    BY <1>1, <1>2, <1>3, <1>4, WorkingDaysInOrder
<1> QED
    BY <1>1, <1>2, <1>5

(* A faster warehouse is not a later delivery.                              *)
LEMMA WarehousesInOrder ==
    ASSUME CalendarOK, NEW v \in 1 .. 5, NEW w \in 1 .. 5, v < w, NEW s, IsStart(s)
    PROVE  deliveryDate(v, s) <= deliveryDate(w, s)
<1>1. /\ Dispatch(v, s) \in Nat
      /\ \A d \in Nat : DayOf(s) < d /\ isShopOpenOn(d) => Dispatch(v, s) <= d
      /\ deliveryDate(v, s) = addWorkingDays(Dispatch(v, s), baseWorkDays[v])
      /\ v = 1 => deliveryDate(v, s) = DayOf(s)
    BY DispatchDay
<1>2. /\ Dispatch(w, s) \in Nat /\ DayOf(s) <= Dispatch(w, s)
      /\ deliveryDate(w, s) = addWorkingDays(Dispatch(w, s), baseWorkDays[w])
    BY DispatchDay
<1>3. DayOf(s) <= deliveryDate(w, s) /\ deliveryDate(w, s) \in Nat
    BY DeliveryDay
<1>4. DayOf(s) \in Nat
    BY DEF IsStart
<1>5. CASE v = 1
    BY <1>1, <1>3, <1>5
<1>6. CASE v = 2
  <2>1. baseWorkDays[v] = 0 /\ baseWorkDays[w] \in Nat /\ 1 <= baseWorkDays[w]
    BY <1>6, WarehouseMeta
  <2>2. deliveryDate(v, s) = Dispatch(v, s)
    BY <1>1, <2>1 DEF addWorkingDays
  <2> DEFINE d == addWorkingDays(Dispatch(w, s), baseWorkDays[w])
  <2>3. d \in Nat /\ Dispatch(w, s) < d /\ isShopOpenOn(d)
    BY <1>2, <2>1, WorkingDays
  <2> HIDE DEF d
  <2>4. DayOf(s) < d
    BY <1>2, <1>4, <2>3
  <2>5. Dispatch(v, s) <= d
    BY <1>1, <2>3, <2>4
  <2> QED
    BY <1>2, <2>2, <2>5 DEF d
<1>7. CASE v > 2
  <2>1. cutoffHour(v, DayOf(s)) = cutoffHour(w, DayOf(s))
    BY <1>4, <1>7, Cutoffs
  <2>2. Dispatch(v, s) = Dispatch(w, s)
    BY <2>1 DEF Dispatch
  <2>3. baseWorkDays[v] \in Nat /\ baseWorkDays[w] \in Nat /\ baseWorkDays[v] <= baseWorkDays[w]
    BY <1>7, WarehouseMeta
  <2>4. addWorkingDays(Dispatch(v, s), baseWorkDays[v]) <= addWorkingDays(Dispatch(w, s), baseWorkDays[w])
    BY <1>2, <2>2, <2>3, WorkingDaysInOrder
  <2> QED
    BY <1>1, <1>2, <2>4
<1> QED
    BY <1>5, <1>6, <1>7

(* What is told at an instant.                                              *)
LEMMA Told ==
    ASSUME CalendarOK, NEW w \in 1 .. 5, NEW i \in Nat
    PROVE  LET s == effectiveStart(i)
               day == deliveryDate(w, s)
               told == projectWarehouse(w, i) IN
           /\ IsStart(s) /\ i <= s /\ DayOf(i) <= DayOf(s)
           /\ day \in Nat /\ DayOf(s) <= day /\ isShopOpenOn(day)
           /\ told.cutoffAt = At(DayOf(s), cutoffHour(w, DayOf(s)))
           /\ told.cutoffAt \in Nat /\ DayOf(told.cutoffAt) = DayOf(s)
           /\ HourOf(told.cutoffAt) = cutoffHour(w, DayOf(s))
           /\ told.pickup.at \in Nat /\ DayOf(told.pickup.at) = day
           /\ (told.pickup.granularity = "HOUR") = (w = 1 /\ day = DayOf(i))
           /\ told.pickup.granularity = "HOUR" =>
                told.pickup.at = At(day, Lowest(HourOf(s) + 1, closeHour(day)))
           /\ DayOf(told.courier) = addWorkingDays(day, CourierDays)
<1> DEFINE s == effectiveStart(i)
           day == deliveryDate(w, s)
           told == projectWarehouse(w, i)
<1>1. /\ s \in Nat /\ DayOf(s) \in Nat /\ HourOf(s) \in 0 .. 23 /\ isShopOpenOn(DayOf(s))
      /\ HourOf(s) < closeHour(DayOf(s))
      /\ \/ DayOf(s) = DayOf(i) /\ HourOf(i) <= HourOf(s)
         \/ DayOf(i) < DayOf(s)
  <2>1. HourOf(i) \in 0 .. 23 /\ OpenHour \in Nat
    BY InstantParts, ScheduleNumbers
  <2> QED
    BY <2>1, StartIsOpen
<1>2. IsStart(s)
    BY <1>1 DEF IsStart
<1>3. DayOf(i) \in Nat /\ HourOf(i) \in 0 .. 23
    BY InstantParts
<1> HIDE DEF s
<1>4. i <= s /\ DayOf(i) <= DayOf(s)
  <2>1. CASE DayOf(s) = DayOf(i) /\ HourOf(i) <= HourOf(s)
    BY <1>1, <1>3, <2>1, InstantParts
  <2>2. CASE DayOf(i) < DayOf(s)
    <3>1. ~ (s <= i)
        BY <1>1, <1>3, <2>2, InstantParts
    <3> QED
        BY <1>1, <1>3, <2>2, <3>1
  <2> QED
    BY <1>1, <2>1, <2>2
<1>5. day \in Nat /\ DayOf(s) <= day /\ isShopOpenOn(day)
    BY <1>2, DeliveryDay
<1>6. cutoffHour(w, DayOf(s)) \in 1 .. 23 /\ closeHour(day) \in 1 .. 23
    BY <1>1, <1>5, Cutoffs
<1>7. /\ told.cutoffAt = At(DayOf(s), cutoffHour(w, DayOf(s)))
      /\ told.pickup = pickupOf(w, i, s, day)
      /\ told.courier = At(addWorkingDays(day, CourierDays), 12)
    BY DEF projectWarehouse, s
<1> HIDE DEF day, told
<1>8. /\ told.cutoffAt \in Nat /\ DayOf(told.cutoffAt) = DayOf(s)
      /\ HourOf(told.cutoffAt) = cutoffHour(w, DayOf(s))
  <2>1. cutoffHour(w, DayOf(s)) \in 0 .. 23
    BY <1>6
  <2> QED
    BY <1>1, <1>7, <2>1, AtParts
<1>9. /\ (told.pickup.granularity = "HOUR") = (w = 1 /\ day = DayOf(i))
      /\ told.pickup.at = IF w = 1 /\ day = DayOf(i)
                            THEN At(day, Lowest(HourOf(s) + 1, closeHour(day)))
                            ELSE At(day, 12)
    BY <1>7 DEF pickupOf
<1>10. Lowest(HourOf(s) + 1, closeHour(day)) \in 0 .. 23 /\ 12 \in 0 .. 23
    BY <1>1, <1>6 DEF Lowest
<1>11. told.pickup.at \in Nat /\ DayOf(told.pickup.at) = day
  <2>1. PICK h \in 0 .. 23 : told.pickup.at = At(day, h)
    BY <1>9, <1>10
  <2> QED
    BY <1>5, <2>1, AtParts
<1>12. CourierDays \in Nat
    BY ScheduleNumbers
<1>13. addWorkingDays(day, CourierDays) \in Nat
    BY <1>5, <1>12, WorkingDays
<1>14. DayOf(told.courier) = addWorkingDays(day, CourierDays)
    BY <1>7, <1>10, <1>13, InstantParts
<1> QED
    BY <1>2, <1>4, <1>5, <1>7, <1>8, <1>9, <1>11, <1>14 DEF day, told, s

LEMMA ToldByProjections ==
    ASSUME NEW w \in 1 .. 5, NEW i
    PROVE  Projections(i)[w] = projectWarehouse(w, i)
BY WarehouseMeta DEF Projections

-----------------------------------------------------------------------------
(* The invariant: the calendar as it was worked out, the clock, and a timer *)
(* on a cut-off that has not passed.                                        *)
Moments == {At(d, h) : d \in Nat, h \in Hours}

BasketOK == basket \subseteq 1 .. 5 /\ basket # {}
ClockOK == now \in Instants /\ computedAt \in Instants /\ computedAt <= now
TimerOK == timer = NoTimer \/ (timer \in Moments /\ timer >= now)
YearOK ==
    /\ firstWeekday \in 0 .. 6 /\ official \subseteq HolidayDays /\ easter \subseteq HolidayDays
    /\ Cardinality(official) + Cardinality(easter) <= MaxHolidays

ScheduleInv == YearOK /\ CalendarOK /\ BasketOK /\ ClockOK /\ TimerOK

LEMMA InstantFacts ==
    /\ \A i \in Instants : i \in Nat /\ i > 0 /\ DayOf(i) \in 0 .. LastDay /\ HourOf(i) \in Hours
    /\ \A i \in Moments : i \in Nat /\ i > 0 /\ (i \in Instants \/ \A j \in Instants : j < i)
    /\ Instants # {}
<1>1. Hours \subseteq 1 .. 23 /\ SameDayCutoff \in Hours /\ LastDay \in Nat
    BY ScheduleAssumption
<1>2. ASSUME NEW d \in Nat, NEW h \in Hours
      PROVE  At(d, h) \in Nat /\ At(d, h) > 0 /\ DayOf(At(d, h)) = d /\ HourOf(At(d, h)) = h
  <2>1. h \in 1 .. 23 /\ h \in 0 .. 23
    BY <1>1
  <2>2. At(d, h) > 0
    BY <2>1 DEF At
  <2> QED
    BY <2>1, <2>2, AtParts
<1>3. ASSUME NEW i \in Instants
      PROVE  i \in Nat /\ i > 0 /\ DayOf(i) \in 0 .. LastDay /\ HourOf(i) \in Hours
  <2>1. PICK d \in 0 .. LastDay, h \in Hours : i = At(d, h)
    BY DEF Instants
  <2>2. d \in Nat
    BY <1>1
  <2> QED
    BY <1>2, <2>1, <2>2
<1>4. ASSUME NEW i \in Moments
      PROVE  i \in Nat /\ i > 0 /\ (i \in Instants \/ \A j \in Instants : j < i)
  <2>1. PICK d \in Nat, h \in Hours : i = At(d, h)
    BY DEF Moments
  <2>2. i \in Nat /\ i > 0 /\ DayOf(i) = d
    BY <1>2, <2>1
  <2>3. CASE d <= LastDay
    <3>1. d \in 0 .. LastDay
        BY <1>1, <2>3
    <3> QED
        BY <2>1, <2>2, <3>1 DEF Instants
  <2>4. CASE d > LastDay
    <3>1. ASSUME NEW j \in Instants PROVE j < i
      <4>1. j \in Nat /\ DayOf(j) \in 0 .. LastDay
        BY <1>3
      <4>2. ~ (i <= j)
        BY <1>1, <2>2, <2>4, <4>1, InstantParts
      <4> QED
        BY <2>2, <4>1, <4>2
    <3> QED
        BY <2>2, <3>1
  <2> QED
    BY <1>1, <2>3, <2>4
<1>5. At(0, SameDayCutoff) \in Instants
    BY <1>1 DEF Instants
<1> QED
    BY <1>3, <1>4, <1>5

LEMMA CutoffsAreMoments ==
    ASSUME CalendarOK, BasketOK, NEW i \in Nat
    PROVE  collectCutoffAts(i) \subseteq Moments
<1> SUFFICES ASSUME NEW w \in basket PROVE Projections(i)[w].cutoffAt \in Moments
    BY DEF collectCutoffAts
<1>1. w \in 1 .. 5
    BY DEF BasketOK
<1>2. /\ projectWarehouse(w, i).cutoffAt
           = At(DayOf(effectiveStart(i)), cutoffHour(w, DayOf(effectiveStart(i))))
      /\ IsStart(effectiveStart(i))
    BY <1>1, Told
<1>3. DayOf(effectiveStart(i)) \in Nat
    BY <1>2 DEF IsStart
<1>4. cutoffHour(w, DayOf(effectiveStart(i))) \in Hours
    BY <1>1, <1>3, Cutoffs
<1> QED
    BY <1>1, <1>2, <1>3, <1>4, ToldByProjections DEF Moments

LEMMA ScheduledAhead ==
    ASSUME NEW cutoffAts, cutoffAts \subseteq Moments
    PROVE  \/ Scheduled(cutoffAts) = NoTimer
           \/ Scheduled(cutoffAts) \in Moments /\ Scheduled(cutoffAts) > now
<1> DEFINE ahead == {c \in cutoffAts : c > now}
<1>1. CASE ahead = {} \/ Min(ahead) - now >= 24
    BY <1>1 DEF Scheduled
<1>2. CASE ~ (ahead = {} \/ Min(ahead) - now >= 24)
  <2>1. ahead \subseteq Nat /\ ahead # {}
    BY <1>2, InstantFacts
  <2>2. Min(ahead) \in ahead
    <3> HIDE DEF ahead
    <3> QED
        BY <2>1, LeastOf
  <2>3. Scheduled(cutoffAts) = Min(ahead)
    BY <1>2 DEF Scheduled
  <2> QED
    BY <2>2, <2>3
<1> QED
    BY <1>1, <1>2

LEMMA YearIsOK == YearOK => HolidaysOK
BY ScheduleAssumption DEF YearOK, HolidaysOK

LEMMA ScheduleInitHolds == ScheduleInit => ScheduleInv
<1> SUFFICES ASSUME ScheduleInit PROVE ScheduleInv
    OBVIOUS
<1>1. YearOK
    BY DEF ScheduleInit, YearOK
<1>2. HolidaysOK
    BY <1>1, YearIsOK
<1>3. CalendarOK
  <2>1. holidays = isHoliday
    BY DEF ScheduleInit
  <2> QED
    BY <1>2, <2>1, HolidaysAreBounded DEF CalendarOK, HolidaysOK
<1>4. BasketOK
    BY WarehouseMeta DEF ScheduleInit, BasketOK
<1>5. ClockOK
  <2>1. Instants \subseteq Nat
    BY InstantFacts
  <2>2. Min(Instants) \in Instants
    BY <2>1, InstantFacts, LeastOf
  <2>3. Min(Instants) \in Nat
    BY <2>1, <2>2
  <2> QED
    BY <2>2, <2>3 DEF ScheduleInit, ClockOK
<1>6. TimerOK
  <2>1. now \in Nat
    BY <1>5, InstantFacts DEF ClockOK
  <2>2. collectCutoffAts(now) \subseteq Moments
    BY <1>3, <1>4, <2>1, CutoffsAreMoments
  <2>3. timer = Scheduled(collectCutoffAts(now))
    BY DEF ScheduleInit
  <2>4. timer = NoTimer \/ (timer \in Moments /\ timer > now)
    BY <2>2, <2>3, ScheduledAhead
  <2> QED
    BY <2>1, <2>4, InstantFacts DEF TimerOK
<1> QED
    BY <1>1, <1>3, <1>4, <1>5, <1>6 DEF ScheduleInv

LEMMA CalendarStays ==
    ASSUME YearOK, CalendarOK, UNCHANGED calendar
    PROVE  YearOK' /\ CalendarOK'
BY DEF YearOK, CalendarOK, calendar

LEMMA RefetchHolds ==
    ASSUME ScheduleInv, refetch, UNCHANGED <<calendar, now, basket>>
    PROVE  ScheduleInv'
<1> USE DEF ScheduleInv
<1>1. YearOK' /\ CalendarOK'
    BY CalendarStays
<1>2. BasketOK' /\ ClockOK'
  <2>1. computedAt' = now /\ now' = now /\ basket' = basket /\ now \in Nat
    BY InstantFacts DEF refetch, ClockOK
  <2> QED
    BY <2>1 DEF BasketOK, ClockOK, Instants
<1>3. TimerOK'
  <2>1. now \in Nat /\ now' = now
    BY InstantFacts DEF ClockOK
  <2>2. collectCutoffAts(now) \subseteq Moments
    BY <2>1, CutoffsAreMoments
  <2>3. \/ timer' = NoTimer \/ timer' = timer
        \/ timer' = Scheduled(collectCutoffAts(now))
    BY DEF refetch
  <2>4. \/ timer' = NoTimer \/ timer' = timer
        \/ timer' \in Moments /\ timer' > now
    BY <2>2, <2>3, ScheduledAhead
  <2>5. \/ timer' = NoTimer
        \/ timer' \in Moments /\ timer' >= now
    BY <2>1, <2>4, InstantFacts DEF TimerOK
  <2> QED
    BY <2>1, <2>5 DEF TimerOK, NoTimer, Moments, At
<1> QED
    BY <1>1, <1>2, <1>3

LEMMA HourHolds ==
    ASSUME ScheduleInv, HourPasses
    PROVE  ScheduleInv' /\ now <= now'
<1> USE DEF ScheduleInv
<1>1. YearOK' /\ CalendarOK'
    BY CalendarStays DEF HourPasses
<1> DEFINE S == {i \in Instants : i > now}
<1>2. /\ S \subseteq Nat /\ S # {}
    BY InstantFacts DEF HourPasses
<1>3. now' = Min(S)
    BY DEF HourPasses
<1>4. now' \in S /\ \A i \in S : now' <= i
  <2> HIDE DEF S
  <2> QED
    BY <1>2, <1>3, LeastOf
<1>5. now' \in Instants /\ now' > now /\ now' \in Nat /\ now \in Nat
    BY <1>4, InstantFacts DEF ClockOK
<1>6. BasketOK' /\ ClockOK'
  <2>1. computedAt \in Nat
    BY InstantFacts DEF ClockOK
  <2>2. computedAt' = computedAt /\ basket' = basket
    BY DEF HourPasses
  <2> QED
    BY <1>5, <2>1, <2>2 DEF BasketOK, ClockOK, Instants
<1>7. TimerOK'
  <2>1. timer' = timer /\ timer # now
    BY DEF HourPasses
  <2>2. CASE timer = NoTimer
    BY <2>1, <2>2 DEF TimerOK, NoTimer
  <2>3. CASE timer \in Moments /\ timer >= now
    <3>1. timer \in Nat /\ timer > now
        BY <1>5, <2>1, <2>3, InstantFacts
    <3>2. CASE timer \in Instants
        BY <1>4, <1>5, <2>1, <2>3, <3>1, <3>2 DEF TimerOK, Moments, At
    <3>3. CASE \A j \in Instants : j < timer
      <4>1. timer >= now'
        BY <1>5, <3>1, <3>3
      <4> QED
        BY <2>1, <2>3, <4>1 DEF TimerOK, Moments, At
    <3> QED
        BY <2>3, <3>2, <3>3, InstantFacts
  <2> QED
    BY <2>2, <2>3 DEF TimerOK
<1> QED
    BY <1>1, <1>5, <1>6, <1>7

LEMMA ScheduleStepHolds == ScheduleInv /\ [ScheduleNext]_ScheduleVars => ScheduleInv' /\ now <= now'
<1> SUFFICES ASSUME ScheduleInv, [ScheduleNext]_ScheduleVars PROVE ScheduleInv' /\ now <= now'
    OBVIOUS
<1>1. now \in Nat
    BY InstantFacts DEF ScheduleInv, ClockOK
<1>2. CASE TimerFires \/ refreshIfAged
  <2>1. refetch /\ UNCHANGED <<calendar, now, basket>>
    BY <1>2 DEF TimerFires, refreshIfAged
  <2> QED
    BY <1>1, <2>1, RefetchHolds
<1>3. CASE HourPasses
    BY <1>3, HourHolds
<1>4. CASE UNCHANGED ScheduleVars
  <2>1. UNCHANGED <<firstWeekday, official, easter, holidays, now, basket, computedAt, timer>>
    BY <1>4 DEF ScheduleVars
  <2> QED
    BY <1>1, <2>1 DEF ScheduleInv, YearOK, CalendarOK, BasketOK, ClockOK, TimerOK, Instants,
                       Moments, At, NoTimer
<1> QED
    BY <1>2, <1>3, <1>4 DEF ScheduleNext

-----------------------------------------------------------------------------
(* What each property says follows from the invariant.                      *)

LEMMA IsFaster == ScheduleInv => FasterIsNotLater
<1> SUFFICES ASSUME ScheduleInv, NEW w \in basket
             PROVE  LET told == projectWarehouse(w, now) IN
                    /\ isShopOpenOn(DayOf(told.pickup.at)) /\ isShopOpenOn(DayOf(told.courier))
                    /\ DayOf(told.pickup.at) >= DayOf(now)
                    /\ told.pickup.granularity = "HOUR" => told.pickup.at >= now
                    /\ DayOf(told.pickup.at) < DayOf(told.courier)
                    /\ \A v \in basket :
                         v < w => DayOf(projectWarehouse(v, now).pickup.at) <= DayOf(told.pickup.at)
    BY DEF FasterIsNotLater
<1> DEFINE s == effectiveStart(now)
           day == deliveryDate(w, s)
           told == projectWarehouse(w, now)
<1>1. now \in Nat /\ CalendarOK /\ w \in 1 .. 5 /\ basket \subseteq 1 .. 5
    BY InstantFacts DEF ScheduleInv, ClockOK, BasketOK
<1>2. /\ IsStart(s) /\ now <= s /\ DayOf(now) <= DayOf(s)
      /\ day \in Nat /\ DayOf(s) <= day /\ isShopOpenOn(day)
      /\ told.pickup.at \in Nat /\ DayOf(told.pickup.at) = day
      /\ (told.pickup.granularity = "HOUR") = (w = 1 /\ day = DayOf(now))
      /\ told.pickup.granularity = "HOUR" =>
           told.pickup.at = At(day, Lowest(HourOf(s) + 1, closeHour(day)))
      /\ DayOf(told.courier) = addWorkingDays(day, CourierDays)
    BY <1>1, Told
<1> HIDE DEF s, day, told
<1>3. s \in Nat /\ DayOf(s) \in Nat /\ HourOf(s) \in 0 .. 23 /\ DayOf(now) \in Nat
      /\ HourOf(now) \in 0 .. 23
    BY <1>1, <1>2, InstantParts DEF IsStart
<1>4. CourierDays \in Nat /\ CourierDays > 0
    BY ScheduleNumbers
<1>5. /\ addWorkingDays(day, CourierDays) \in Nat /\ day < addWorkingDays(day, CourierDays)
      /\ isShopOpenOn(addWorkingDays(day, CourierDays))
    BY <1>1, <1>2, <1>4, WorkingDays
<1>6. ASSUME told.pickup.granularity = "HOUR" PROVE told.pickup.at >= now
  <2>1. day = DayOf(now) /\ DayOf(s) = DayOf(now)
    BY <1>2, <1>3, <1>6
  <2>2. HourOf(now) <= HourOf(s)
    BY <1>1, <1>2, <1>3, <2>1, InstantParts
  <2>3. HourOf(s) < closeHour(day) /\ closeHour(day) \in 1 .. 23
    BY <1>1, <1>2, <1>3, <2>1, Cutoffs DEF IsStart
  <2> DEFINE h == Lowest(HourOf(s) + 1, closeHour(day))
  <2>4. h \in 0 .. 23 /\ HourOf(now) <= h
    BY <1>3, <2>2, <2>3 DEF Lowest
  <2> HIDE DEF h
  <2>5. told.pickup.at = At(day, h)
    BY <1>2, <1>6 DEF h
  <2>6. HourOf(told.pickup.at) = h
    <3>1. day \in Nat /\ h \in 0 .. 23
        BY <1>2, <2>4
    <3>2. HourOf(At(day, h)) = h
        BY <3>1, AtParts
    <3> QED
        BY <2>5, <3>2
  <2>7. now <= told.pickup.at
    BY <1>1, <1>2, <2>1, <2>4, <2>6, InstantParts
  <2> QED
    BY <1>1, <1>2, <2>7
<1>7. ASSUME NEW v \in basket, v < w
      PROVE  DayOf(projectWarehouse(v, now).pickup.at) <= day
  <2>1. v \in 1 .. 5
    BY <1>1
  <2>2. DayOf(projectWarehouse(v, now).pickup.at) = deliveryDate(v, s)
    BY <1>1, <2>1, Told DEF s
  <2>3. deliveryDate(v, s) <= deliveryDate(w, s)
    BY <1>1, <1>2, <1>7, <2>1, WarehousesInOrder
  <2> QED
    BY <2>2, <2>3 DEF day
<1>8. DayOf(told.pickup.at) >= DayOf(now) /\ DayOf(told.pickup.at) < DayOf(told.courier)
    BY <1>2, <1>3, <1>5
<1> QED
    BY <1>2, <1>5, <1>6, <1>7, <1>8 DEF told

LEMMA IsNotSooner ==
    ASSUME ScheduleInv, NEW later \in Nat, now <= later, NEW w \in basket
    PROVE  DayOf(Projections(now)[w].pickup.at) <= DayOf(Projections(later)[w].pickup.at)
<1>1. now \in Nat /\ CalendarOK /\ w \in 1 .. 5
    BY InstantFacts DEF ScheduleInv, ClockOK, BasketOK
<1>2. /\ Projections(now)[w] = projectWarehouse(w, now)
      /\ Projections(later)[w] = projectWarehouse(w, later)
    BY <1>1, ToldByProjections
<1>3. /\ IsStart(effectiveStart(now))
      /\ DayOf(projectWarehouse(w, now).pickup.at) = deliveryDate(w, effectiveStart(now))
    BY <1>1, Told
<1>4. /\ IsStart(effectiveStart(later))
      /\ DayOf(projectWarehouse(w, later).pickup.at) = deliveryDate(w, effectiveStart(later))
    BY <1>1, Told
<1>5. /\ DayOf(effectiveStart(now)) <= DayOf(effectiveStart(later))
      /\ DayOf(effectiveStart(now)) = DayOf(effectiveStart(later))
           => HourOf(effectiveStart(now)) <= HourOf(effectiveStart(later))
    BY <1>1, StartsInOrder
<1>6. deliveryDate(w, effectiveStart(now)) <= deliveryDate(w, effectiveStart(later))
    BY <1>1, <1>3, <1>4, <1>5, DeliveriesInOrder
<1> QED
    BY <1>2, <1>3, <1>4, <1>6

LEMMA GreatestOf ==
    ASSUME NEW S, S \subseteq Nat, S # {}, NEW bound \in Nat, \A n \in S : n <= bound
    PROVE  Max(S) \in S /\ \A n \in S : n <= Max(S)
<1> DEFINE Above == {m \in Nat : \A n \in S : n <= m}
           least == Min(Above)
<1>1. Above \subseteq Nat /\ Above # {}
    OBVIOUS
<1>2. least \in Above /\ \A m \in Above : least <= m
  <2> HIDE DEF Above
  <2> QED
    BY <1>1, LeastOf
<1>3. least \in Nat /\ \A n \in S : n <= least
    BY <1>2
<1>4. least \in S
  <2>1. PICK n \in S : n \in Nat
    OBVIOUS
  <2>2. ASSUME least \notin S PROVE FALSE
    <3>1. \A k \in S : k \in Nat /\ k <= least /\ k # least
        BY <1>3, <2>2
    <3> HIDE DEF least, Above
    <3>2. \A k \in S : k <= least - 1
        BY <1>3, <3>1
    <3>3. least - 1 \in Nat
        BY <1>3, <2>1, <3>1
    <3>4. least - 1 \in Above
        BY <3>2, <3>3 DEF Above
    <3> QED
        BY <1>2, <1>3, <3>3, <3>4
  <2> QED
    BY <2>2
<1>5. \A n \in S : least >= n
    BY <1>3
<1>6. \E m \in S : \A n \in S : m >= n
    BY <1>4, <1>5
<1>7. Max(S) \in S /\ \A n \in S : Max(S) >= n
    BY <1>6 DEF Max
<1>8. \A n \in S : n \in Nat /\ Max(S) \in Nat
    BY <1>7
<1> QED
    BY <1>7, <1>8

(* The promise of a basket binds every line of it.                          *)
LEMMA PromiseOfTheBasket ==
    ASSUME ScheduleInv, NEW w \in basket
    PROVE  LET promise == combineDeliveryPromises(Shown) IN
           /\ promise.cutoffAt \in Nat /\ promise.cutoffAt <= Shown[w].cutoffAt
           /\ \E v \in basket : promise.cutoffAt = Shown[v].cutoffAt
           /\ promise.fulfilledAt \in Nat /\ Shown[w].pickup.at <= promise.fulfilledAt
<1> DEFINE promise == combineDeliveryPromises(Shown)
           cutoffAts == {Shown[v].cutoffAt : v \in basket}
           pickups == {Shown[v].pickup.at : v \in basket}
           p(v) == Shown[v].pickup.at
           bound == p(1) + p(2) + p(3) + p(4) + p(5)
<1>1. computedAt \in Nat /\ CalendarOK /\ basket \subseteq 1 .. 5
    BY InstantFacts DEF ScheduleInv, ClockOK, BasketOK
<1>2. ASSUME NEW v \in 1 .. 5 PROVE Shown[v].cutoffAt \in Nat /\ Shown[v].pickup.at \in Nat
  <2>1. Shown[v] = projectWarehouse(v, computedAt)
    BY ToldByProjections DEF Shown
  <2>2. /\ projectWarehouse(v, computedAt).cutoffAt \in Nat
        /\ projectWarehouse(v, computedAt).pickup.at \in Nat
    BY <1>1, Told
  <2> QED
    BY <2>1, <2>2
<1>3. promise.cutoffAt = Min(cutoffAts) /\ promise.fulfilledAt = Max(pickups)
    BY DEF combineDeliveryPromises
<1>4. cutoffAts \subseteq Nat /\ pickups \subseteq Nat
    BY <1>1, <1>2
<1>5. Shown[w].cutoffAt \in cutoffAts /\ Shown[w].pickup.at \in pickups
    OBVIOUS
<1>6. p(1) \in Nat /\ p(2) \in Nat /\ p(3) \in Nat /\ p(4) \in Nat /\ p(5) \in Nat
    BY <1>2
<1>7. ASSUME NEW n \in pickups PROVE n <= bound
  <2>1. PICK v \in 1 .. 5 : n = p(v)
    BY <1>1
  <2>2. n = p(1) \/ n = p(2) \/ n = p(3) \/ n = p(4) \/ n = p(5)
    BY <2>1
  <2> HIDE DEF p
  <2> QED
    BY <1>6, <2>2
<1>8. bound \in Nat
  <2> HIDE DEF p
  <2> QED
    BY <1>6
<1>9. \A c \in cutoffAts : \E v \in basket : c = Shown[v].cutoffAt
    OBVIOUS
<1> HIDE DEF promise, cutoffAts, pickups, bound
<1>10. Min(cutoffAts) \in cutoffAts /\ \A c \in cutoffAts : Min(cutoffAts) <= c
    BY <1>4, <1>5, LeastOf
<1>11. Max(pickups) \in pickups /\ \A n \in pickups : n <= Max(pickups)
    BY <1>4, <1>5, <1>7, <1>8, GreatestOf
<1> QED
    BY <1>3, <1>4, <1>5, <1>9, <1>10, <1>11 DEF promise

(* Whoever makes a cut-off of an open day is served from that day on.       *)
LEMMA ServedToday ==
    ASSUME CalendarOK, NEW w \in 1 .. 5, NEW i \in Nat,
           isShopOpenOn(DayOf(i)), weekdayOf(DayOf(i)) # 6, HourOf(i) < cutoffHour(w, DayOf(i))
    PROVE  /\ deliveryDate(w, effectiveStart(i)) = addWorkingDays(DayOf(i), baseWorkDays[w])
           /\ DayOf(effectiveStart(i)) = DayOf(i)
<1> DEFINE s == effectiveStart(i)
<1>1. DayOf(i) \in Nat /\ HourOf(i) \in 0 .. 23
    BY InstantParts
<1>2. /\ closeHour(DayOf(i)) = WeekdayClose /\ cutoffHour(w, DayOf(i)) <= WeekdayClose
      /\ cutoffHour(w, DayOf(i)) \in 1 .. 23 /\ OpenHour < cutoffHour(w, DayOf(i))
    BY <1>1, Cutoffs
<1>3. HourOf(i) < closeHour(DayOf(i))
    BY <1>1, <1>2, ScheduleNumbers
<1>4. /\ DayOf(s) = DayOf(i)
      /\ HourOf(s) = IF HourOf(i) < OpenHour THEN OpenHour ELSE HourOf(i)
    BY <1>3, StartIsOpen
<1> HIDE DEF s
<1>5. HourOf(s) < cutoffHour(w, DayOf(s))
    BY <1>2, <1>4
<1>6. deliveryDate(w, s) = addWorkingDays(DayOf(i), baseWorkDays[w])
    BY <1>4, <1>5 DEF deliveryDate
<1> QED
    BY <1>4, <1>6 DEF s

LEMMA KeepsItsPromise == ScheduleInv => PromiseIsKept
<1> DEFINE promise == combineDeliveryPromises(Shown)
<1> SUFFICES ASSUME ScheduleInv, weekdayOf(DayOf(now)) # 6, isCountingDown(promise), NEW w \in basket
             PROVE  DayOf(Projections(now)[w].pickup.at) <= DayOf(promise.fulfilledAt)
    BY DEF PromiseIsKept
<1> DEFINE c == computedAt
           s == effectiveStart(c)
<1>1. c \in Nat /\ now \in Nat /\ CalendarOK /\ w \in 1 .. 5 /\ basket \subseteq 1 .. 5
    BY InstantFacts DEF ScheduleInv, ClockOK, BasketOK
<1>2. ASSUME NEW v \in 1 .. 5
      PROVE  /\ IsStart(s) /\ Shown[v].cutoffAt \in Nat
             /\ DayOf(Shown[v].cutoffAt) = DayOf(s)
             /\ HourOf(Shown[v].cutoffAt) = cutoffHour(v, DayOf(s))
             /\ Shown[v].pickup.at \in Nat /\ DayOf(Shown[v].pickup.at) = deliveryDate(v, s)
  <2>1. Shown[v] = projectWarehouse(v, c)
    BY ToldByProjections DEF Shown
  <2> DEFINE snapshot == projectWarehouse(v, c)
  <2>2. /\ IsStart(s) /\ snapshot.cutoffAt \in Nat /\ DayOf(snapshot.cutoffAt) = DayOf(s)
        /\ HourOf(snapshot.cutoffAt) = cutoffHour(v, DayOf(s))
        /\ snapshot.pickup.at \in Nat /\ DayOf(snapshot.pickup.at) = deliveryDate(v, s)
    BY <1>1, Told
  <2> QED
    BY <2>1, <2>2
<1>3. /\ promise.cutoffAt \in Nat /\ promise.cutoffAt <= Shown[w].cutoffAt
      /\ \E v \in basket : promise.cutoffAt = Shown[v].cutoffAt
      /\ promise.fulfilledAt \in Nat /\ Shown[w].pickup.at <= promise.fulfilledAt
    BY PromiseOfTheBasket
<1>4. now < promise.cutoffAt /\ DayOf(promise.cutoffAt) = DayOf(now)
    BY DEF isCountingDown
<1> HIDE DEF promise, s
<1>5. DayOf(s) = DayOf(now)
    BY <1>1, <1>2, <1>3, <1>4
<1>6. IsStart(s) /\ isShopOpenOn(DayOf(now)) /\ DayOf(now) \in Nat /\ HourOf(now) \in 0 .. 23
    BY <1>1, <1>2, <1>5, InstantParts DEF IsStart
<1>7. HourOf(now) < cutoffHour(w, DayOf(now))
  <2> DEFINE cut == Shown[w].cutoffAt
  <2>1. cut \in Nat /\ DayOf(cut) = DayOf(now) /\ HourOf(cut) = cutoffHour(w, DayOf(now))
    BY <1>1, <1>2, <1>5
  <2>2. ~ (cut <= now)
    BY <1>1, <1>3, <1>4, <2>1
  <2>3. ~ (HourOf(cut) <= HourOf(now))
    BY <1>1, <2>1, <2>2, InstantParts
  <2>4. cutoffHour(w, DayOf(now)) \in 1 .. 23
    BY <1>1, <1>6, Cutoffs
  <2> QED
    BY <1>6, <2>1, <2>3, <2>4
<1>8. deliveryDate(w, effectiveStart(now)) = addWorkingDays(DayOf(now), baseWorkDays[w])
    BY <1>1, <1>6, <1>7, ServedToday
<1>9. /\ Dispatch(w, s) \in Nat /\ DayOf(now) <= Dispatch(w, s)
      /\ deliveryDate(w, s) = addWorkingDays(Dispatch(w, s), baseWorkDays[w])
    BY <1>1, <1>5, <1>6, DispatchDay
<1>10. baseWorkDays[w] \in Nat
    BY <1>1, WarehouseMeta
<1>11. deliveryDate(w, effectiveStart(now)) <= deliveryDate(w, s)
    BY <1>1, <1>6, <1>8, <1>9, <1>10, WorkingDaysInOrder
<1>12. DayOf(Projections(now)[w].pickup.at) = deliveryDate(w, effectiveStart(now))
  <2>1. Projections(now)[w] = projectWarehouse(w, now)
    BY <1>1, ToldByProjections
  <2>2. DayOf(projectWarehouse(w, now).pickup.at) = deliveryDate(w, effectiveStart(now))
    BY <1>1, Told
  <2> QED
    BY <2>1, <2>2
<1>13. /\ DayOf(Shown[w].pickup.at) <= DayOf(promise.fulfilledAt)
       /\ DayOf(promise.fulfilledAt) \in Nat
    BY <1>1, <1>2, <1>3, InstantParts
<1>14. DayOf(Shown[w].pickup.at) = deliveryDate(w, s)
    BY <1>1, <1>2
<1>15. deliveryDate(w, s) \in Nat /\ deliveryDate(w, effectiveStart(now)) \in Nat
  <2>1. IsStart(effectiveStart(now))
    BY <1>1, Told
  <2> QED
    BY <1>1, <1>6, <2>1, DeliveryDay
<1> QED
    BY <1>11, <1>12, <1>13, <1>14, <1>15 DEF promise

LEMMA IsFresh == ScheduleInv => UnflaggedIsFresh
<1> SUFFICES ASSUME ScheduleInv, NEW w \in basket, DayOf(now) = DayOf(computedAt),
                    weekdayOf(DayOf(now)) # 6, ~isWarehouseSnapshotStale(Shown[w])
             PROVE  DayOf(Shown[w].pickup.at) = DayOf(Projections(now)[w].pickup.at)
    BY DEF UnflaggedIsFresh
<1> DEFINE c == computedAt
           day == DayOf(now)
           s == effectiveStart(c)
           t == effectiveStart(now)
           snapshot == projectWarehouse(w, c)
<1>1. c \in Nat /\ now \in Nat /\ c <= now /\ CalendarOK /\ w \in 1 .. 5
    BY InstantFacts DEF ScheduleInv, ClockOK, BasketOK
<1>2. Shown[w] = snapshot /\ Projections(now)[w] = projectWarehouse(w, now)
    BY <1>1, ToldByProjections DEF Shown
<1>3. /\ IsStart(s) /\ DayOf(snapshot.pickup.at) = deliveryDate(w, s)
      /\ snapshot.cutoffAt \in Nat /\ DayOf(snapshot.cutoffAt) = DayOf(s)
      /\ HourOf(snapshot.cutoffAt) = cutoffHour(w, DayOf(s))
      /\ snapshot.pickup.at \in Nat
      /\ (snapshot.pickup.granularity = "HOUR") = (w = 1 /\ deliveryDate(w, s) = DayOf(c))
      /\ snapshot.pickup.granularity = "HOUR" =>
           snapshot.pickup.at
             = At(deliveryDate(w, s), Lowest(HourOf(s) + 1, closeHour(deliveryDate(w, s))))
    BY <1>1, Told
<1>4. /\ IsStart(t) /\ DayOf(projectWarehouse(w, now).pickup.at) = deliveryDate(w, t)
    BY <1>1, Told
<1>5. /\ day \in Nat /\ DayOf(c) = day /\ HourOf(c) \in 0 .. 23 /\ HourOf(now) \in 0 .. 23
      /\ HourOf(c) <= HourOf(now)
    BY <1>1, InstantParts
<1>6. /\ closeHour(day) = WeekdayClose /\ closeHour(day) \in 1 .. 23
      /\ cutoffHour(w, day) \in 1 .. 23 /\ cutoffHour(w, day) <= closeHour(day)
      /\ OpenHour < cutoffHour(w, day) /\ OpenHour < closeHour(day) /\ OpenHour \in Nat
    BY <1>1, <1>5, Cutoffs, ScheduleNumbers
<1>7. snapshot.pickup.granularity = "HOUR" => now < snapshot.pickup.at
    BY <1>1, <1>2, <1>3 DEF isWarehouseSnapshotStale
<1>8. c < snapshot.cutoffAt => now < snapshot.cutoffAt
    BY <1>1, <1>2, <1>3 DEF isWarehouseSnapshotStale
<1> SUFFICES deliveryDate(w, s) = deliveryDate(w, t)
    BY <1>2, <1>3, <1>4
<1> DEFINE isToday(k) == isShopOpenOn(DayOf(k)) /\ HourOf(k) < closeHour(DayOf(k))
           next == nextOpenDayOnOrAfter(day + 1)
<1>9. /\ IF isToday(c)
           THEN /\ DayOf(s) = day
                /\ HourOf(s) = IF HourOf(c) < OpenHour THEN OpenHour ELSE HourOf(c)
           ELSE s = At(next, OpenHour)
      /\ isToday(now) => /\ DayOf(t) = day
                         /\ HourOf(t) = IF HourOf(now) < OpenHour THEN OpenHour ELSE HourOf(now)
      /\ ~ isToday(now) => t = At(next, OpenHour)
    BY <1>1, <1>5, StartIsOpen DEF effectiveStart
<1>10. CASE ~ isToday(c)
  <2>1. ~ isToday(now)
    BY <1>5, <1>6, <1>10
  <2> QED
    BY <1>9, <1>10, <2>1
<1>11. CASE isToday(c)
  <2>1. DayOf(s) = day /\ isShopOpenOn(day)
    BY <1>5, <1>9, <1>11
  <2>2. CASE w = 1
    <3>1. deliveryDate(w, s) = day
        BY <1>1, <1>3, <2>1, <2>2, DispatchDay
    <3>2. snapshot.pickup.at = At(day, Lowest(HourOf(s) + 1, closeHour(day)))
        BY <1>3, <1>5, <2>2, <3>1
    <3> DEFINE h == Lowest(HourOf(s) + 1, closeHour(day))
    <3>3. h \in 0 .. 23 /\ h <= closeHour(day)
        BY <1>3, <1>6 DEF Lowest, IsStart
    <3> HIDE DEF h
    <3>4. DayOf(snapshot.pickup.at) = day /\ HourOf(snapshot.pickup.at) = h
      <4>1. DayOf(At(day, h)) = day /\ HourOf(At(day, h)) = h
        BY <1>5, <3>3, AtParts
      <4> QED
        BY <3>2, <4>1 DEF h
    <3>5. ~ (snapshot.pickup.at <= now)
        BY <1>1, <1>3, <1>5, <1>7, <2>2, <3>1
    <3>6. HourOf(now) < h
      <4>1. ~ (HourOf(snapshot.pickup.at) <= HourOf(now))
        BY <1>1, <1>3, <3>4, <3>5, InstantParts
      <4> QED
        BY <1>5, <3>3, <3>4, <4>1
    <3>7. HourOf(now) < closeHour(day)
        BY <1>5, <1>6, <3>3, <3>6
    <3>8. DayOf(t) = day
        BY <1>9, <2>1, <3>7
    <3>9. deliveryDate(w, t) = day
        BY <1>1, <1>4, <2>2, <3>8, DispatchDay
    <3> QED
        BY <3>1, <3>9
  <2>3. CASE HourOf(c) < cutoffHour(w, day)
    <3>1. ~ (snapshot.cutoffAt <= c)
      <4>1. ~ (HourOf(snapshot.cutoffAt) <= HourOf(c))
        BY <1>3, <1>5, <1>6, <2>1, <2>3
      <4> QED
        BY <1>1, <1>3, <1>5, <2>1, <4>1, InstantParts
    <3>2. ~ (snapshot.cutoffAt <= now)
        BY <1>1, <1>3, <1>8, <3>1
    <3>3. ~ (HourOf(snapshot.cutoffAt) <= HourOf(now))
        BY <1>1, <1>3, <2>1, <3>2, InstantParts
    <3>4. HourOf(now) < cutoffHour(w, day)
        BY <1>3, <1>5, <1>6, <2>1, <3>3
    <3>5. deliveryDate(w, t) = addWorkingDays(day, baseWorkDays[w])
        BY <1>1, <2>1, <3>4, ServedToday
    <3>6. deliveryDate(w, s) = addWorkingDays(day, baseWorkDays[w])
        BY <1>1, <1>5, <2>1, <2>3, ServedToday
    <3> QED
        BY <3>5, <3>6
  <2>4. CASE w # 1 /\ ~ (HourOf(c) < cutoffHour(w, day))
    <3>1. deliveryDate(w, s) = addWorkingDays(next, baseWorkDays[w])
      <4>1. ~ (HourOf(s) < cutoffHour(w, DayOf(s)))
        BY <1>5, <1>6, <1>9, <1>11, <2>1, <2>4
      <4> QED
        BY <2>1, <4>1 DEF deliveryDate
    <3>2. CASE isToday(now)
      <4>1. DayOf(t) = day /\ ~ (HourOf(t) < cutoffHour(w, DayOf(t)))
        BY <1>5, <1>6, <1>9, <2>4, <3>2
      <4>2. deliveryDate(w, t) = addWorkingDays(next, baseWorkDays[w])
        BY <4>1 DEF deliveryDate
      <4> QED
        BY <3>1, <4>2
    <3>3. CASE ~ isToday(now)
      <4>1. next \in Nat
        BY <1>1, <1>5, NextOpenDay
      <4>2. OpenHour \in 0 .. 23
        BY <1>6
      <4>3. DayOf(At(next, OpenHour)) = next /\ HourOf(At(next, OpenHour)) = OpenHour
        BY <4>1, <4>2, AtParts
      <4>4. OpenHour < cutoffHour(w, next)
        BY <1>1, <4>1, Cutoffs
      <4>5. deliveryDate(w, t) = addWorkingDays(next, baseWorkDays[w])
        BY <1>9, <3>3, <4>3, <4>4 DEF deliveryDate
      <4> QED
        BY <3>1, <4>5
    <3> QED
        BY <3>2, <3>3
  <2> QED
    BY <2>2, <2>3, <2>4
<1> QED
    BY <1>10, <1>11

LEMMA ScheduleTypes == ScheduleInv => ScheduleTypeOK
<1> SUFFICES ASSUME ScheduleInv PROVE ScheduleTypeOK
    OBVIOUS
<1>1. timer = NoTimer \/ timer >= now
    BY DEF ScheduleInv, TimerOK
<1> QED
    BY <1>1, WarehouseMeta DEF ScheduleInv, ScheduleTypeOK, YearOK, CalendarOK, BasketOK, ClockOK

-----------------------------------------------------------------------------
(* The theorems.                                                            *)

(* Whatever the holidays, the hours and the clock, the schedule's state     *)
(* stays as the invariant says.                                             *)
THEOREM ScheduleInvariant == ScheduleSpec => []ScheduleInv
<1>1. ScheduleInv /\ [ScheduleNext]_ScheduleVars => ScheduleInv'
    BY ScheduleStepHolds
<1> QED
    BY <1>1, ScheduleInitHolds, PTL DEF ScheduleSpec

(* Every variable of the schedule has its type, the holidays are finitely   *)
(* many days, and a timer that is due has not been missed                   *)
(* (use-cutoff-refresh.ts).                                                 *)
THEOREM ScheduleTypeCorrect == ScheduleSpec => []ScheduleTypeOK
BY ScheduleInvariant, ScheduleTypes, PTL

(* working-calendar.ts, addBgSubstituteDays: each official holiday on a     *)
(* weekend closes a working day of its own.                                 *)
THEOREM SubstitutesNeverShareADay == ScheduleSpec => []SubstitutesAreDistinct
<1>1. ScheduleInv => SubstitutesAreDistinct
    BY YearIsOK, SubstitutesApart DEF ScheduleInv
<1> QED
    BY <1>1, ScheduleInvariant, PTL

(* delivery-schedule.service.ts: at any instant and over any holidays, a    *)
(* faster warehouse is not later, promises fall on open days, and a courier *)
(* comes after the part could be collected.                                 *)
THEOREM FasterIsNeverLater == ScheduleSpec => []FasterIsNotLater
BY ScheduleInvariant, IsFaster, PTL

(* Nor does ordering later get a part sooner.                               *)
THEOREM LaterIsNeverSooner == ScheduleSpec => LaterIsNotSooner
<1>1. ASSUME ScheduleInv, [ScheduleNext]_ScheduleVars
      PROVE  [\A w \in basket :
                DayOf(Projections(now)[w].pickup.at) <= DayOf(Projections(now')[w].pickup.at)
             ]_ScheduleVars
  <2>1. now <= now' /\ now' \in Nat
    BY <1>1, ScheduleStepHolds, InstantFacts DEF ScheduleInv, ClockOK, Instants
  <2> QED
    BY <1>1, <2>1, IsNotSooner
<1> QED
    BY <1>1, ScheduleInvariant, PTL DEF ScheduleSpec, LaterIsNotSooner

(* availability.ts and cutoff-countdown: while the page counts down to a    *)
(* basket's cut-off, each line ordered is there by the day it promises.     *)
THEOREM PromisesAreKept == ScheduleSpec => []PromiseIsKept
BY ScheduleInvariant, KeepsItsPromise, PTL

(* availability.ts, isWarehouseSnapshotStale: on its day a date not marked  *)
(* as being renewed is the date a read would tell.                          *)
THEOREM UnflaggedDatesAreFresh == ScheduleSpec => []UnflaggedIsFresh
BY ScheduleInvariant, IsFresh, PTL
==============================================================================
