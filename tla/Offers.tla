------------------------------- MODULE Offers -------------------------------
(***************************************************************************)
(* One part's stock lines made into a price and an availability             *)
(* (apps/api/src/inventory/: inventory.service.ts, best-offer.ts,           *)
(* delivery.ts, delivery-speed.resolver.ts), what an order is placed at     *)
(* (orderable-price.ts), and what the cart says of a line of it             *)
(* (apps/web/src/lib/cart/cart-totals.ts, packages/shared/src/delivery.ts). *)
(* Prices include VAT; the figure without it is derived from them and left  *)
(* out, and so is what only names a row.                                    *)
(***************************************************************************)
EXTENDS Integers, Sequences, FiniteSetsExt

CONSTANTS
    Rules,        \* the delivery rules rows may have, by speed
    Prices,       \* in cents; a row without one reads as 0
    MaxStock,     \* bound: pieces in a row
    MaxRows,      \* bound: our own rows, and the suppliers'
    MaxWanted     \* bound: pieces on the cart's line

ASSUME OffersAssumption ==
    /\ Rules \subseteq 1 .. 5 /\ Prices \subseteq Nat
    /\ MaxStock \in Nat /\ MaxRows \in Nat /\ MaxWanted \in Nat \ {0}

VARIABLES
    ownRows, supplierRows,   \* as the database returns them
    madeCutoff,              \* whether it is before SAME_DAY_CUTOFF_HOUR
    wanted                   \* the quantity of the cart's line

OffersVars == <<ownRows, supplierRows, madeCutoff, wanted>>

(* lookupDeliveryRule finds nothing; availability is null.                  *)
Unknown == 0
MissingQuantity == -1

OwnRows == [quantity : 0 .. MaxStock, price : Prices]
SupplierRows == [rule : Rules \union {Unknown}, quantity : MissingQuantity .. MaxStock,
                 buy : Prices, sell : Prices]

(* The sum of some quantities, as the number of the pieces they count.      *)
Pieces(held) == Cardinality(UNION {{n} \X (1 .. held[n]) : n \in DOMAIN held})

(***************************************************************************)
(* delivery.ts and warehouse.ts.  A rule is its rank before the cut-off:    *)
(* WITHIN_HOUR, SAME_DAY_BEFORE_CUTOFF, NEXT_DAY, TWO and                   *)
(* THREE_BUSINESS_DAYS; and it names a warehouse, the fastest first.        *)
(***************************************************************************)
SameDay == 2
resolveDeliveryRule(rule) == IF rule = SameDay /\ ~madeCutoff THEN SameDay + 1 ELSE rule

warehouseForRule(rule) == rule
warehouseForOwnStock == 1
WarehousesFastestFirst == 1 .. 5

(***************************************************************************)
(* InventoryService.                                                        *)
(***************************************************************************)
NoOffer == [quantity |-> 0, price |-> 0]

(* Every own row counts, and the cheapest names the price.                  *)
toOwnOffer ==
    IF ownRows = <<>> THEN NoOffer
    ELSE [quantity |-> Pieces([n \in DOMAIN ownRows |-> ownRows[n].quantity]),
          price |-> Min({ownRows[n].price : n \in DOMAIN ownRows})]
CarriesOwn == ownRows # <<>>

(* Rows are told by their place.  Those of an unknown quantity or delivery  *)
(* are dropped, never guessed.                                              *)
toSupplierOffers ==
    {n \in DOMAIN supplierRows :
       supplierRows[n].quantity # MissingQuantity /\ supplierRows[n].rule # Unknown}

InStock == {n \in toSupplierOffers : supplierRows[n].quantity > 0}

InStockOf(warehouses) ==
    [n \in {m \in InStock : warehouseForRule(supplierRows[m].rule) \in warehouses}
       |-> supplierRows[n].quantity]

QuantityIn(w) ==
    Pieces(InStockOf({w})) + (IF w = warehouseForOwnStock THEN toOwnOffer.quantity ELSE 0)

(* The quantity by warehouse, of those that hold some.                      *)
buildWarehouseAvailability ==
    [w \in {v \in WarehousesFastestFirst : QuantityIn(v) > 0} |-> QuantityIn(w)]

(***************************************************************************)
(* best-offer.ts.                                                           *)
(***************************************************************************)
(* Mutant of bySourcingPreference: the buy price is the only key.           *)
byBuyPrice(a, b) == a.buy < b.buy

(* The lower buy price, then the lower sell price.                          *)
bySourcingPreference(a, b) == a.buy < b.buy \/ (a.buy = b.buy /\ a.sell < b.sell)

isPreferredSupplier(a, b) ==
    LET rankA == resolveDeliveryRule(a.rule)
        rankB == resolveDeliveryRule(b.rule) IN
    rankA < rankB \/ (rankA = rankB /\ bySourcingPreference(a, b))

(* The first of the rows none is preferred to: reduce and sort keep the     *)
(* earlier of two that compare equal.                                       *)
sourcedSupplier ==
    supplierRows[Min({n \in InStock :
      \A k \in InStock : ~isPreferredSupplier(supplierRows[k], supplierRows[n])})]

NoPrice == -1

(* Mutant of selectBestOffer: our price is never raised.                    *)
neverRaised ==
    IF toOwnOffer.quantity = 0 /\ InStock = {}
      THEN [available |-> FALSE, price |-> IF CarriesOwn THEN toOwnOffer.price ELSE NoPrice]
    ELSE [available |-> TRUE,
          price |-> IF CarriesOwn THEN toOwnOffer.price ELSE sourcedSupplier.sell]

(* Our price, raised to that of the supplier we would buy from; without our *)
(* own, that supplier's.  A part out of stock keeps our price.              *)
selectBestOffer ==
    IF toOwnOffer.quantity = 0 /\ InStock = {}
      THEN [available |-> FALSE, price |-> IF CarriesOwn THEN toOwnOffer.price ELSE NoPrice]
    ELSE [available |-> TRUE,
          price |-> IF ~CarriesOwn THEN sourcedSupplier.sell
                    ELSE IF InStock # {} /\ toOwnOffer.price < sourcedSupplier.sell
                      THEN sourcedSupplier.sell
                      ELSE toOwnOffer.price]

(***************************************************************************)
(* What is done with it: by the server for an order, by the page for a row. *)
(***************************************************************************)
Stock == Pieces(buildWarehouseAvailability)

(* The price a line is ordered at; NoPrice: it is refused.                  *)
orderableUnitPrice ==
    IF ~selectBestOffer.available \/ Stock < wanted THEN NoPrice ELSE selectBestOffer.price

(* Mutant of availableQuantityOf: only the fastest warehouse is counted.    *)
fastestHolds ==
    IF ~selectBestOffer.available THEN 0 
    ELSE QuantityIn(Min(DOMAIN buildWarehouseAvailability))

CannotSay == -1
availableQuantityOf ==
    IF ~selectBestOffer.available THEN 0 ELSE IF Stock > 0 THEN Stock ELSE CannotSay

lineIssueOf ==
    IF availableQuantityOf = CannotSay THEN "none"
    ELSE IF availableQuantityOf = 0 THEN "unavailable"
    ELSE IF availableQuantityOf < wanted THEN "insufficient-stock" ELSE "none"

AsFast(held, w) == [v \in {u \in DOMAIN held : u <= w} |-> held[v]]

(* Mutant of selectWarehouseForQuantity: the last piece is of the next one. *)
oneFurther(held, quantity) ==
    LET reached == {w \in DOMAIN held : Pieces(AsFast(held, w)) > quantity} IN
    IF reached = {} THEN Max(DOMAIN held) ELSE Min(reached)

(* The slowest warehouse a line has to reach: the quantities are added up,  *)
(* the fastest warehouse first.                                             *)
selectWarehouseForQuantity(held, quantity) ==
    LET reached == {w \in DOMAIN held : Pieces(AsFast(held, w)) >= quantity} IN
    IF reached = {} THEN Max(DOMAIN held) ELSE Min(reached)

(***************************************************************************)
(* The rows come in any order, and stock and the hour change.               *)
(***************************************************************************)
RowsReorder ==
    /\ \E n \in 1 .. Len(supplierRows) - 1 :
         supplierRows' = [supplierRows EXCEPT ![n] = supplierRows[n + 1],
                                              ![n + 1] = supplierRows[n]]
    /\ UNCHANGED <<ownRows, madeCutoff, wanted>>

CutoffPasses ==
    /\ madeCutoff /\ madeCutoff' = FALSE
    /\ UNCHANGED <<ownRows, supplierRows, wanted>>

WantsOneMore ==
    /\ wanted < MaxWanted /\ wanted' = wanted + 1
    /\ UNCHANGED <<ownRows, supplierRows, madeCutoff>>

OneSells(n) ==
    /\ supplierRows[n].quantity > 0
    /\ supplierRows' = [supplierRows EXCEPT ![n].quantity = @ - 1]
    /\ UNCHANGED <<ownRows, madeCutoff, wanted>>

UpTo(max, rows) == UNION {[1 .. n -> rows] : n \in 0 .. max}

OffersInit ==
    /\ ownRows \in UpTo(MaxRows, OwnRows)
    /\ supplierRows \in UpTo(MaxRows, SupplierRows)
    /\ madeCutoff = TRUE /\ wanted = 1

OffersNext ==
    \/ RowsReorder \/ CutoffPasses \/ WantsOneMore
    \/ \E n \in DOMAIN supplierRows : OneSells(n)

OffersSpec == OffersInit /\ [][OffersNext]_OffersVars

(***************************************************************************)
(* Properties.                                                              *)
(***************************************************************************)

(* The price does not depend on "whichever row the database happened to     *)
(* return first" (best-offer.ts).                                           *)
PriceIgnoresRowOrder ==
    [][RowsReorder => selectBestOffer' = selectBestOffer]_OffersVars

(* From one read, the page blocks exactly the lines an order would be       *)
(* refused for: neither is checkout offered for a line that cannot be       *)
(* placed, nor a line held back that could be.                              *)
PageBlocksWhatIsRefused == (lineIssueOf = "none") <=> (orderableUnitPrice # NoPrice)

(* The warehouse a line is promised from can be reached with stock: of the  *)
(* rows in stock, those of the faster ones together fall short of what is   *)
(* wanted, and with its own they do not.                                    *)
HeldWithin(w) ==
    Pieces(InStockOf(1 .. w)) + (IF warehouseForOwnStock <= w THEN toOwnOffer.quantity ELSE 0)

SlowestReached ==
    LET slowest == selectWarehouseForQuantity(buildWarehouseAvailability, wanted) IN
    Stock >= wanted => HeldWithin(slowest) >= wanted /\ HeldWithin(slowest - 1) < wanted

(* "We never undercut our suppliers" (best-offer.ts), as far as it goes:    *)
(* what is shown is no less than our own price, and no less than the lowest *)
(* sell price of the suppliers that hold the part fastest.                  *)
NeverUndercuts ==
    selectBestOffer.available =>
      /\ CarriesOwn => selectBestOffer.price >= toOwnOffer.price
      /\ InStock # {} =>
           LET rank == Min({resolveDeliveryRule(supplierRows[n].rule) : n \in InStock}) IN
           selectBestOffer.price >=
             Min({supplierRows[n].sell : n \in {k \in InStock :
                    resolveDeliveryRule(supplierRows[k].rule) = rank}})
==============================================================================
