----------------------------- MODULE CartOrders -----------------------------
(***************************************************************************)
(* Carts and the orders placed from them (apps/api/src/cart/,               *)
(* apps/api/src/orders/): one customer, who fills carts as a guest too,     *)
(* from any number of tabs.  A request reads outside any transaction and    *)
(* commits later, in one that locks a cart's row, so others commit in       *)
(* between.  A transaction is one step; one that throws changes nothing.    *)
(* A line is there or not and selected or not: its price, weight and        *)
(* quantity are left out.                                                   *)
(***************************************************************************)
EXTENDS Integers, FiniteSets

CONSTANTS
    Articles,      \* the parts a line may be of
    CartRequests,  \* the requests in flight at once
    MaxLines,      \* MAX_CART_LINES
    MaxCarts,      \* bound: carts ever created
    MaxVersion     \* bound: the version a cart is written at, orders of it aside

ASSUME CartOrdersAssumption ==
    MaxLines \in Nat /\ MaxCarts \in Nat /\ MaxVersion \in Nat

Carts == 1 .. MaxCarts

(* No cart, token or order; a token is named after the cart it was minted   *)
(* for, an order after the cart it was placed from.                         *)
None == 0

(* A row of "Cart" with its lines.                                          *)
Rows == [id : 0 .. MaxCarts,
         status : {"NONE", "ACTIVE", "MERGED", "ORDERED"},
         token : 0 .. MaxCarts, releasedToken : 0 .. MaxCarts,
         ofCustomer : BOOLEAN,                \* customerId is set
         version : 0 .. MaxVersion + 2,
         items : SUBSET Articles, selected : SUBSET Articles,
         mergedInto : 0 .. MaxCarts, orderId : 0 .. MaxCarts]

NoCart == [id |-> None, status |-> "NONE", token |-> None, releasedToken |-> None,
           ofCustomer |-> FALSE, version |-> 0, items |-> {}, selected |-> {},
           mergedInto |-> None, orderId |-> None]

(* A cart not read yet.                                                     *)
Unread == [NoCart EXCEPT !.status = "MERGED"]

Idle == [at |-> "idle", asCustomer |-> FALSE, guest |-> NoCart, account |-> NoCart]

VARIABLES
    cart,          \* the "Cart" table; a row not there has the status "NONE"
    created,       \* how many carts were ever created
    orders,        \* the items of the order placed from each cart
    cartRequest,   \* what each request is at, and the rows it has read
    browserToken   \* the guest token in localStorage

cartsVars == <<cart, created, orders, cartRequest, browserToken>>

(***************************************************************************)
(* CartRepository                                                           *)
(***************************************************************************)
Active == {c \in Carts : cart[c].status = "ACTIVE"}

TheRow(cs) == IF cs = {} THEN NoCart ELSE cart[CHOOSE c \in cs : TRUE]

findActiveByToken(t) == TheRow({c \in Active : t # None /\ cart[c].token = t})

findActiveByCustomer == TheRow({c \in Active : cart[c].ofCustomer})

(* A new row; a customer may hold only one active cart (unique index).      *)
NewCart(ofCustomer, token, items) ==
    [NoCart EXCEPT !.id = created + 1, !.status = "ACTIVE", !.token = token,
                   !.ofCustomer = ofCustomer, !.items = items]

(* What each transaction asks of the row it locks.                          *)
Writable(c) == cart[c].status = "ACTIVE" /\ cart[c].version <= MaxVersion

Become(r, at) == cartRequest' = [cartRequest EXCEPT ![r].at = at]

(* The answer may not reach the browser.                                    *)
HttpAnswer(r, newToken) ==
    /\ cartRequest' = [cartRequest EXCEPT ![r] = Idle]
    /\ browserToken' \in {browserToken, newToken}

(***************************************************************************)
(* CartService: a line edit, by a guest or the customer.                    *)
(***************************************************************************)
StartWrite(r, asCustomer) ==
    /\ cartRequest[r].at = "idle"
    /\ cartRequest' = [cartRequest EXCEPT ![r] =
         [Idle EXCEPT !.at = "writing", !.asCustomer = asCustomer,
                      !.guest = IF asCustomer THEN findActiveByCustomer
                                ELSE findActiveByToken(browserToken)]]
    /\ UNCHANGED <<cart, created, orders, browserToken>>

(* The first add creates the cart, in a transaction of its own.             *)
createCart(r) ==
    LET new == NewCart(cartRequest[r].asCustomer,
                       IF cartRequest[r].asCustomer THEN None ELSE created + 1, {}) IN
    /\ cartRequest[r].at = "writing" /\ cartRequest[r].guest = NoCart
    /\ created < MaxCarts
    /\ cartRequest[r].asCustomer => findActiveByCustomer = NoCart
    /\ created' = created + 1
    /\ cart' = [cart EXCEPT ![new.id] = new]
    /\ cartRequest' = [cartRequest EXCEPT ![r].at = "adding", ![r].guest = new]
    /\ UNCHANGED <<orders, browserToken>>

(* Mutants of mutate: a closed cart is written, the version stays.          *)
mutateClosed(c, items, selected) ==
    /\ cart[c].version <= MaxVersion
    /\ cart' = [cart EXCEPT ![c].items = items, ![c].selected = selected,
                            ![c].version = @ + 1]
    /\ UNCHANGED <<created, orders>>
mutateQuietly(c, items, selected) ==
    /\ Writable(c)
    /\ cart' = [cart EXCEPT ![c].items = items, ![c].selected = selected]
    /\ UNCHANGED <<created, orders>>

mutate(c, items, selected) ==
    /\ Writable(c)
    /\ cart' = [cart EXCEPT ![c].items = items, ![c].selected = selected,
                            ![c].version = @ + 1]
    /\ UNCHANGED <<created, orders>>

(* The cart a request writes, by the id it read.                            *)
Written(r) == cartRequest[r].guest.id

(* Mutant of HasRoom: the lines are counted in the cart read, before it is  *)
(* locked.                                                                  *)
HasRoomAsRead(r, a) ==
    \/ a \in cartRequest[r].guest.items
    \/ Cardinality(cartRequest[r].guest.items) < MaxLines

(* assertRoomForLine, under the lock.                                       *)
HasRoom(r, a) ==
    LET items == cart[Written(r)].items IN
    a \in items \/ Cardinality(items) < MaxLines

addLine(r, a) ==
    LET c == Written(r) IN
    /\ cartRequest[r].at \in {"writing", "adding"} /\ c # None
    /\ HasRoom(r, a)
    /\ mutate(c, cart[c].items \union {a}, cart[c].selected \union {a})
    /\ HttpAnswer(r, IF cartRequest[r].at = "adding" /\ ~cartRequest[r].asCustomer
                   THEN cartRequest[r].guest.token ELSE browserToken)

Edit(r, items, selected) ==
    /\ cartRequest[r].at = "writing"
    /\ mutate(Written(r), items, selected)
    /\ HttpAnswer(r, browserToken)

updateLine(r, a) ==
    /\ Written(r) # None
    /\ a \in cartRequest[r].guest.items \intersect cart[Written(r)].items
    /\ \E selected \in {cart[Written(r)].selected \union {a},
                        cart[Written(r)].selected \ {a}} :
         Edit(r, cart[Written(r)].items, selected)

removeLine(r, a) ==
    /\ Written(r) # None
    /\ Edit(r, cart[Written(r)].items \ {a}, cart[Written(r)].selected \ {a})

setAllSelected(r) ==
    /\ Written(r) # None
    /\ \E selected \in {cart[Written(r)].items, {}} :
         Edit(r, cart[Written(r)].items, selected)

clear(r) == Written(r) # None /\ Edit(r, {}, {})

(***************************************************************************)
(* OrdersService: an order or a quick order, of a cart named by its id.     *)
(***************************************************************************)
OwnedBy(c, asCustomer) ==
    IF asCustomer THEN cart[c].ofCustomer
    ELSE browserToken # None /\ browserToken \in {cart[c].token, cart[c].releasedToken}

(* An ordered cart is answered with its order, and one that is not the      *)
(* version the page showed is refused: neither changes anything.            *)
StartPlace(r, c, asCustomer) ==
    /\ cartRequest[r].at = "idle"
    /\ OwnedBy(c, asCustomer)
    /\ cart[c].orderId = None /\ cart[c].status = "ACTIVE" /\ cart[c].selected # {}
    /\ cartRequest' = [cartRequest EXCEPT ![r] =
         [Idle EXCEPT !.at = "placing", !.asCustomer = asCustomer, !.guest = cart[c]]]
    /\ UNCHANGED <<cart, created, orders, browserToken>>

(* Mutant of SameVersion: the cart locked is taken for the one priced.      *)
AnyVersion(read) == TRUE

SameVersion(read) == cart[read.id].version = read.version

(* closeForOrder: the cart is the record of what was bought; what was left  *)
(* unselected, and a guest's token, move to a new cart.                     *)
Closed(c, left) ==
    [cart[c] EXCEPT !.status = "ORDERED", !.orderId = c, !.version = @ + 1,
                    !.items = @ \ left, !.token = None,
                    !.releasedToken = IF cart[c].token # None THEN cart[c].token ELSE @]

place(r) ==
    LET read == cartRequest[r].guest
        c == read.id
        left == cart[c].items \ cart[c].selected
        next == NewCart(cartRequest[r].asCustomer, cart[c].token, left) IN
    /\ cartRequest[r].at = "placing"
    /\ cart[c].orderId = None /\ cart[c].status = "ACTIVE" /\ SameVersion(read)
    /\ orders' = [orders EXCEPT ![c] = read.selected]
    /\ IF left = {}
         THEN /\ cart' = [cart EXCEPT ![c] = Closed(c, {})]
              /\ UNCHANGED created
         ELSE /\ created < MaxCarts /\ created' = created + 1
              /\ cart' = [cart EXCEPT ![c] = Closed(c, left), ![next.id] = next]
    /\ HttpAnswer(r, browserToken)

(***************************************************************************)
(* CartService.adopt, at sign-in: two reads, in any order, then a commit.   *)
(***************************************************************************)
StartAdopt(r) ==
    /\ cartRequest[r].at = "idle" /\ browserToken # None
    /\ cartRequest' = [cartRequest EXCEPT ![r] =
         [at |-> "adopting", asCustomer |-> TRUE,
          guest |-> [Unread EXCEPT !.token = browserToken], account |-> Unread]]
    /\ UNCHANGED <<cart, created, orders, browserToken>>

IsUnread(row) == row.status = "MERGED"

ReadGuest(r) ==
    /\ cartRequest[r].at = "adopting" /\ IsUnread(cartRequest[r].guest)
    /\ cartRequest' = [cartRequest EXCEPT ![r].guest = findActiveByToken(@.token)]
    /\ UNCHANGED <<cart, created, orders, browserToken>>

ReadAccount(r) ==
    /\ cartRequest[r].at = "adopting" /\ IsUnread(cartRequest[r].account)
    /\ cartRequest' = [cartRequest EXCEPT ![r].account = findActiveByCustomer]
    /\ UNCHANGED <<cart, created, orders, browserToken>>

Adopting(r) ==
    /\ cartRequest[r].at = "adopting"
    /\ ~IsUnread(cartRequest[r].guest) /\ ~IsUnread(cartRequest[r].account)

NothingToAdopt(r) ==
    /\ Adopting(r) /\ cartRequest[r].guest = NoCart
    /\ HttpAnswer(r, None)
    /\ UNCHANGED <<cart, created, orders>>

(* Mutant of claimForCustomer: the version stays.                           *)
claimQuietly(r) ==
    LET c == cartRequest[r].guest.id IN
    /\ Adopting(r) /\ c # None /\ cartRequest[r].account = NoCart
    /\ cart[c].status # "NONE"
    /\ cart[c].status = "ACTIVE" => findActiveByCustomer.id \in {None, c}
    /\ cart' = [cart EXCEPT ![c].ofCustomer = TRUE, ![c].token = None]
    /\ HttpAnswer(r, None)
    /\ UNCHANGED <<created, orders>>

claimForCustomer(r) ==
    LET c == cartRequest[r].guest.id IN
    /\ Adopting(r) /\ c # None /\ cartRequest[r].account = NoCart
    /\ cart[c].status # "NONE" /\ cart[c].version <= MaxVersion
    /\ cart[c].status = "ACTIVE" => findActiveByCustomer.id \in {None, c}
    /\ cart' = [cart EXCEPT ![c].ofCustomer = TRUE, ![c].token = None,
                            ![c].version = @ + 1]
    /\ HttpAnswer(r, None)
    /\ UNCHANGED <<created, orders>>

(* mergeCartLines: the account's lines, then as many of the guest's as fit. *)
mergeCartLines(account, guest) ==
    LET new == guest.items \ account.items
        room == MaxLines - Cardinality(account.items)
    IN  {account.items \union kept :
            kept \in {k \in SUBSET new : \/ k = new /\ Cardinality(k) <= room
                                        \/ Cardinality(k) = room}}

(* The target is locked and checked, the source only written; they may be   *)
(* one row.                                                                 *)
mergeInto(r) ==
    LET source == cartRequest[r].guest
        target == cartRequest[r].account IN
    /\ Adopting(r) /\ source # NoCart /\ target # NoCart
    /\ Writable(target.id) /\ SameVersion(target)
    /\ cart[source.id].status # "NONE"
    /\ \E lines \in mergeCartLines(target, source) :
         LET merged == [cart EXCEPT
               ![target.id].items = lines,
               ![target.id].selected = (target.selected \union source.selected)
                                         \intersect lines,
               ![target.id].version = @ + 1] IN
         cart' = [merged EXCEPT ![source.id].status = "MERGED",
                                ![source.id].token = None,
                                ![source.id].mergedInto = target.id]
    /\ HttpAnswer(r, None)
    /\ UNCHANGED <<created, orders>>

(***************************************************************************)
(* A request that is refused, fails, dies or has nothing to write; and the  *)
(* sweep of guest carts nobody came back to.                                *)
(***************************************************************************)
CartRequestEnds(r) ==
    /\ cartRequest[r].at # "idle"
    /\ cartRequest' = [cartRequest EXCEPT ![r] = Idle]
    /\ UNCHANGED <<cart, created, orders, browserToken>>

deleteExpiredGuestCarts(c) ==
    /\ c \in Active /\ ~cart[c].ofCustomer /\ cart[c].orderId = None
    /\ cart' = [cart EXCEPT ![c] = [NoCart EXCEPT !.id = c]]
    /\ UNCHANGED <<created, orders, cartRequest, browserToken>>

CartsInit ==
    /\ cart = [c \in Carts |-> [NoCart EXCEPT !.id = c]]
    /\ created = 0
    /\ orders = [c \in Carts |-> {}]
    /\ cartRequest = [r \in CartRequests |-> Idle]
    /\ browserToken = None

CartsNext ==
    \/ \E r \in CartRequests :
         \/ \E asCustomer \in BOOLEAN :
              \/ StartWrite(r, asCustomer)
              \/ \E c \in Carts : StartPlace(r, c, asCustomer)
         \/ createCart(r) \/ setAllSelected(r) \/ clear(r)
         \/ \E a \in Articles : addLine(r, a) \/ updateLine(r, a) \/ removeLine(r, a)
         \/ place(r)
         \/ StartAdopt(r) \/ ReadGuest(r) \/ ReadAccount(r)
         \/ NothingToAdopt(r) \/ claimForCustomer(r) \/ mergeInto(r)
         \/ CartRequestEnds(r)
    \/ \E c \in Carts : deleteExpiredGuestCarts(c)

CartsSpec == CartsInit /\ [][CartsNext]_cartsVars

(***************************************************************************)
(* Properties.                                                              *)
(***************************************************************************)

(* Every variable has its type, and only lines of a cart are selected in it.*)
CartsTypeOK ==
    /\ cart \in [Carts -> Rows]
    /\ \A c \in Carts : cart[c].selected \subseteq cart[c].items
    /\ created \in 0 .. MaxCarts
    /\ orders \in [Carts -> SUBSET Articles]
    /\ cartRequest \in [CartRequests ->
         [at : {"idle", "writing", "adding", "placing", "adopting"},
          asCustomer : BOOLEAN, guest : Rows, account : Rows]]
    /\ browserToken \in 0 .. MaxCarts

(* What was bought is what was priced, for good: an order's items are the   *)
(* lines of the cart that records it, and an edit that raced the order, or  *)
(* came after it, changed neither.                                          *)
OrderIsAsPriced ==
    \A c \in Carts :
        orders[c] # {} <=> /\ cart[c].orderId = c
                           /\ cart[c].items = orders[c]

(* No cart outgrows the one batch it is priced by, whatever adds, merges    *)
(* and orders of it race.                                                   *)
LinesWithinLimit == \A c \in Carts : Cardinality(cart[c].items) <= MaxLines

(* An active cart belongs to a guest or to a customer, never to both, and   *)
(* never to nobody: a quick order that races the sign-in does not leave its *)
(* unselected lines in a cart no one can reach.                             *)
OneOwner == \A c \in Active : (cart[c].token # None) # cart[c].ofCustomer

(* "A cart whose contents moved without its version moving would let        *)
(* checkout commit a price it never quoted" (cart.repository.ts).           *)
VersionMovesWithContents ==
    [][\A c \in Carts :
         /\ cart[c].status # "NONE" /\ cart'[c].status # "NONE"
         /\ <<cart[c].items, cart[c].selected>> # <<cart'[c].items, cart'[c].selected>>
         => cart'[c].version > cart[c].version]_cartsVars

(* docs/ORDERS.md: "Every cart write (a line edit, a sign-in merge) takes   *)
(* the same row lock ... and refuses a cart that is no longer ACTIVE."      *)
(* Refuted: a sign-in that read the guest's cart before a quick order of it *)
(* hands the ordered cart to the customer, or turns it into a merged one.   *)
OrderedIsFinal ==
    [][\A c \in Carts : cart[c].status = "ORDERED" => cart'[c] = cart[c]]_cartsVars

(* docs/CART.md: "A union, because an addition must never be lost".         *)
(* Refuted: a line added to the guest's cart after the merge read it.       *)
MergeKeepsLines ==
    [][\A c \in Active : \A t \in Carts \ {c} :
         /\ cart'[c].mergedInto = t
         /\ Cardinality(cart'[t].items) < MaxLines
         => cart[c].items \subseteq cart'[t].items]_cartsVars

(* docs/CART.md: "The guest cart becomes MERGED and points at where its     *)
(* lines went."  Refuted: two sign-ins at once, one claiming the cart       *)
(* between the other's two reads, merge it into itself.                     *)
MergedElsewhere == \A c \in Carts : cart[c].mergedInto # c

(***************************************************************************)
(* What a customer is promised of the carts.  A cart whose order is written *)
(* stays ordered, whatever a late sign-in writes to its row.                *)
(***************************************************************************)
states ==
    [c \in Carts |->
       IF cart[c].orderId # None THEN "ordered"
       ELSE IF cart[c].status = "ACTIVE" THEN "open"
       ELSE IF c > created THEN "unborn" ELSE "gone"]

owners ==
    [c \in Carts |->
       IF states[c] # "open" THEN "nobody"
       ELSE IF cart[c].ofCustomer THEN "account" ELSE "guest"]

Kept(c, content) == IF states[c] \in {"open", "ordered"} THEN content ELSE {}

keptLines == [c \in Carts |-> Kept(c, cart[c].items)]

keptSelected == [c \in Carts |-> Kept(c, cart[c].selected)]

(* Every step, read from a row some queries ago or not, is one taken of the *)
(* carts as they are: what is ordered is what is chosen at that moment, the *)
(* rest stays with its owner, and a merge loses no line of the account's.   *)
Promise == INSTANCE Purchases WITH
    state <- states, owner <- owners,
    lines <- keptLines, chosen <- keptSelected, bought <- orders
KeepsPurchases == Promise!Spec
==============================================================================
