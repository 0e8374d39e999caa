-------------------------- MODULE CartOrdersProofs --------------------------
(***************************************************************************)
(* Proofs about CartOrders, for any articles, any number of requests and    *)
(* carts and any limits: what was ordered is what was priced, every active  *)
(* cart has one owner, no cart outgrows its limit, a cart's version moves   *)
(* with its contents, and, at the end, the carts keep their promise         *)
(* (Purchases), of which one is that a customer has one cart at a time.     *)
(***************************************************************************)
EXTENDS CartOrders, FiniteSetTheorems, TLAPS

(* As many lines as a cart may hold.                                        *)
Fits(items) == IsFiniteSet(items) /\ Cardinality(items) <= MaxLines

(* What holds of a cart's row and of the items of its order: a cart nobody  *)
(* created yet (of n created) is not there, an active one has one owner, no *)
(* order, no released token and room to be versioned, and one that records  *)
(* an order, its own, holds what was ordered.                               *)
CartOK(c, row, order, n) ==
    /\ row.id = c /\ row.selected \subseteq row.items /\ Fits(row.items)
    /\ row.orderId \in {None, c} /\ (row.status = "NONE" => row.orderId = None)
    /\ c > n => row.status = "NONE" /\ order = {}
    /\ row.status = "ACTIVE" =>
         /\ row.orderId = None /\ row.releasedToken = None
         /\ row.version <= MaxVersion + 1
         /\ row.ofCustomer <=> row.token = None
    /\ order # {} <=> row.orderId = c /\ row.items = order

TablesOK ==
    /\ cart \in [Carts -> Rows] /\ created \in 0 .. MaxCarts
    /\ orders \in [Carts -> SUBSET Articles]
    /\ \A c \in Carts : CartOK(c, cart[c], orders[c], created)

(* The rows a request may have read: each is of a cart created by then, and *)
(* is that cart still if it is active and its version has not moved.        *)
ReadRows ==
    {row \in Rows :
       /\ row.id <= created /\ Fits(row.items)
       /\ row.id = None => row = NoCart \/ IsUnread(row)
       /\ row.id # None /\ cart[row.id].status = "ACTIVE" =>
            /\ row.version <= cart[row.id].version
            /\ row.version = cart[row.id].version => row = cart[row.id]}

(* What a request may be at; one that places an order read a cart of the    *)
(* one who places it, with lines selected.                                  *)
RequestStates ==
    {q \in [at : {"idle", "writing", "adding", "placing", "adopting"},
            asCustomer : BOOLEAN, guest : ReadRows, account : ReadRows] :
       q.at = "placing" => /\ q.guest.id # None /\ q.guest.selected # {}
                           /\ q.guest.ofCustomer = q.asCustomer}

RequestsOK ==
    cartRequest \in [CartRequests -> RequestStates] /\ browserToken \in 0 .. MaxCarts

(* The inductive invariant.                                                 *)
CartsInv == TablesOK /\ RequestsOK

-----------------------------------------------------------------------------
(* What a step does to a cart that was there: nothing, or it closes it, or  *)
(* it moves its version.                                                    *)
RowStep ==
    \A c \in Carts :
      \/ cart'[c] = cart[c]
      \/ cart'[c].status # "ACTIVE"
      \/ cart[c].status = "ACTIVE" /\ cart'[c].version > cart[c].version
      \/ c > created

LEMMA EmptyFits == Fits({})
BY CartOrdersAssumption, FS_EmptySet DEF Fits

LEMMA SubsetFits ==
    ASSUME NEW S, Fits(S), NEW T \in SUBSET S
    PROVE  Fits(T)
<1>1. IsFiniteSet(T) /\ Cardinality(T) <= Cardinality(S)
    BY FS_Subset DEF Fits
<1>2. Cardinality(T) \in Nat /\ Cardinality(S) \in Nat
    BY <1>1, FS_CardinalityType DEF Fits
<1> QED BY <1>1, <1>2, CartOrdersAssumption DEF Fits

(* The row of no cart, and the rows made from it.                           *)
LEMMA NoCartIsRow ==
    /\ NoCart \in Rows
    /\ NoCart.id = None /\ NoCart.status = "NONE" /\ NoCart.token = None
    /\ NoCart.releasedToken = None /\ NoCart.ofCustomer = FALSE /\ NoCart.version = 0
    /\ NoCart.items = {} /\ NoCart.selected = {} /\ NoCart.orderId = None
BY CartOrdersAssumption DEF NoCart, Rows, None

LEMMA UnreadIsRow ==
    /\ Unread \in Rows /\ IsUnread(Unread)
    /\ Unread.id = None /\ Unread.items = {} /\ Unread.status = "MERGED"
BY NoCartIsRow DEF Unread, Rows, IsUnread

LEMMA NewCartIsRow ==
    ASSUME NEW ofCustomer \in BOOLEAN, NEW token \in 0 .. MaxCarts,
           NEW items \in SUBSET Articles, created + 1 \in 0 .. MaxCarts
    PROVE  LET new == NewCart(ofCustomer, token, items) IN
           /\ new \in Rows
           /\ new.id = created + 1 /\ new.status = "ACTIVE" /\ new.token = token
           /\ new.releasedToken = None /\ new.ofCustomer = ofCustomer
           /\ new.version = 0 /\ new.items = items /\ new.selected = {}
           /\ new.orderId = None
BY NoCartIsRow DEF NewCart, Rows

LEMMA NoCartIsRead == ASSUME TablesOK PROVE NoCart \in ReadRows
<1>1. NoCart.id <= created
    BY NoCartIsRow DEF TablesOK, None
<1>2. Fits(NoCart.items)
    BY NoCartIsRow, EmptyFits
<1> QED BY <1>1, <1>2, NoCartIsRow DEF ReadRows

(* A row read now.                                                          *)
LEMMA RowIsRead ==
    ASSUME TablesOK, NEW cs \in SUBSET Active
    PROVE  TheRow(cs) \in ReadRows
<1>1. CASE cs = {}
    BY <1>1, NoCartIsRead DEF TheRow
<1>2. CASE cs # {}
    <2>1. PICK c \in cs : TheRow(cs) = cart[c]
        BY <1>2 DEF TheRow
    <2>2. c \in Carts /\ cart[c].id = c /\ cart[c].status = "ACTIVE" /\ c # None
        BY DEF Active, TablesOK, CartOK, Carts, None
    <2>3. cart[c] \in Rows /\ created \in 0 .. MaxCarts /\ Fits(cart[c].items) /\ c <= created
        BY <2>2 DEF TablesOK, CartOK, Carts
    <2>4. cart[c].version \in Int
        BY <2>3 DEF Rows
    <2> QED BY <2>1, <2>2, <2>3, <2>4 DEF ReadRows
<1> QED BY <1>1, <1>2

(* What was read stays so, whatever becomes of the carts.                   *)
LEMMA ReadStays ==
    ASSUME TablesOK, RowStep, TablesOK', created' >= created, NEW row \in ReadRows
    PROVE  row \in ReadRows'
<1>1. row.id <= created'
    BY DEF ReadRows, TablesOK, Rows
<1>2. ASSUME row.id # None, cart'[row.id].status = "ACTIVE"
      PROVE  /\ row.version <= cart'[row.id].version
             /\ row.version = cart'[row.id].version => row = cart'[row.id]
    <2> DEFINE c == row.id
    <2>1. c \in Carts /\ ~(c > created)
        BY <1>2 DEF ReadRows, TablesOK, Rows, Carts, None
    <2>2. /\ row.version \in Int /\ cart[c].version \in Int /\ cart'[c].version \in Int
        BY <2>1 DEF ReadRows, TablesOK, Rows
    <2> QED BY <1>2, <2>1, <2>2 DEF RowStep, ReadRows
<1> QED BY <1>1, <1>2 DEF ReadRows

-----------------------------------------------------------------------------
(* VersionMovesWithContents, of one step.                                   *)
VersionStep ==
    \A c \in Carts :
         /\ cart[c].status # "NONE" /\ cart'[c].status # "NONE"
         /\ <<cart[c].items, cart[c].selected>> # <<cart'[c].items, cart'[c].selected>>
         => cart'[c].version > cart[c].version

(* What every step does to the tables.                                      *)
TablesStep == TablesOK' /\ RowStep /\ VersionStep /\ created' >= created

LEMMA TablesStay ==
    ASSUME CartsInv, UNCHANGED <<cart, created, orders>>
    PROVE  TablesStep
BY DEF CartsInv, TablesStep, TablesOK, RowStep, VersionStep

(* A row left alone stays right, however many carts are created.            *)
LEMMA OthersStay ==
    ASSUME TablesOK, NEW n \in 0 .. MaxCarts, n >= created, NEW c \in Carts
    PROVE  CartOK(c, cart[c], orders[c], n)
BY DEF TablesOK, CartOK, Carts

(* A request moves on, and what it holds now may have been read.            *)
LEMMA RequestMoves ==
    ASSUME CartsInv, TablesStep, NEW r \in CartRequests, browserToken' \in 0 .. MaxCarts,
           NEW q \in RequestStates',
           cartRequest' = [cartRequest EXCEPT ![r] = q]
    PROVE  CartsInv'
<1>1. \A row \in ReadRows : row \in ReadRows'
    BY ReadStays DEF CartsInv, TablesStep
<1>2. \A p \in RequestStates : p \in RequestStates'
    BY <1>1 DEF RequestStates
<1>3. RequestsOK'
    BY <1>2 DEF CartsInv, RequestsOK
<1> QED BY <1>3 DEF CartsInv, TablesStep

(* An answered request holds nothing.                                       *)
LEMMA RequestAnswered ==
    ASSUME CartsInv, TablesStep, NEW r \in CartRequests, NEW t \in 0 .. MaxCarts,
           HttpAnswer(r, t)
    PROVE  CartsInv'
<1>1. NoCart \in ReadRows'
    BY NoCartIsRead, ReadStays DEF CartsInv, TablesStep
<1>2. Idle \in RequestStates'
    BY <1>1 DEF Idle, RequestStates
<1>3. browserToken' \in 0 .. MaxCarts
    BY DEF HttpAnswer, CartsInv, RequestsOK
<1> QED BY <1>2, <1>3, RequestMoves DEF HttpAnswer

-----------------------------------------------------------------------------
(* Line edits: the row written, and what it leaves of the tables.           *)
Edited(c, items, selected) ==
    /\ cart[c].status = "ACTIVE" /\ cart[c].version \in 0 .. MaxVersion
    /\ created' = created /\ orders' = orders
    /\ cart' \in [Carts -> Rows]
    /\ cart'[c].id = cart[c].id /\ cart'[c].status = "ACTIVE"
    /\ cart'[c].token = cart[c].token /\ cart'[c].releasedToken = cart[c].releasedToken
    /\ cart'[c].ofCustomer = cart[c].ofCustomer /\ cart'[c].orderId = cart[c].orderId
    /\ cart'[c].items = items /\ cart'[c].selected = selected
    /\ cart'[c].version = cart[c].version + 1
    /\ \A d \in Carts \ {c} : cart'[d] = cart[d]

LEMMA mutateRows ==
    ASSUME CartsInv, NEW c \in Carts, NEW items \in SUBSET Articles,
           NEW selected \in SUBSET items, mutate(c, items, selected)
    PROVE  Edited(c, items, selected)
<1> DEFINE old == cart[c]
           bumped == cart[c].version + 1
           row == [old EXCEPT !.items = items, !.selected = selected, !.version = bumped]
<1>1. /\ old \in Rows /\ old.version \in 0 .. MaxVersion /\ old.status = "ACTIVE"
      /\ bumped \in 0 .. MaxVersion + 2 /\ selected \in SUBSET Articles
    BY CartOrdersAssumption DEF CartsInv, TablesOK, mutate, Writable, Rows
<1>2. /\ cart' = [cart EXCEPT ![c] = row] /\ created' = created /\ orders' = orders
    BY DEF mutate
<1> HIDE DEF old, bumped
<1>3. row \in Rows
    BY <1>1 DEF Rows
<1>4. /\ row.id = old.id /\ row.status = old.status /\ row.token = old.token
      /\ row.releasedToken = old.releasedToken
      /\ row.ofCustomer = old.ofCustomer /\ row.orderId = old.orderId
      /\ row.items = items /\ row.selected = selected
      /\ row.version = bumped
    BY <1>1 DEF Rows
<1> HIDE DEF row
<1>5. /\ cart' \in [Carts -> Rows] /\ cart'[c] = row
      /\ \A d \in Carts \ {c} : cart'[d] = cart[d]
    BY <1>2, <1>3 DEF CartsInv, TablesOK
<1> QED BY <1>1, <1>2, <1>4, <1>5 DEF Edited, old, bumped

LEMMA mutateStep ==
    ASSUME CartsInv, NEW c \in Carts, NEW items \in SUBSET Articles,
           NEW selected \in SUBSET items, Fits(items), mutate(c, items, selected)
    PROVE  TablesStep
<1>1. Edited(c, items, selected)
    BY mutateRows
<1>2. CartOK(c, cart[c], orders[c], created)
    BY DEF CartsInv, TablesOK
<1>3. CartOK(c, cart'[c], orders[c], created)
    BY <1>1, <1>2, CartOrdersAssumption DEF CartOK, Edited, Carts, None
<1>4. TablesOK'
    BY <1>1, <1>3 DEF CartsInv, TablesOK, Edited
<1>5. RowStep /\ VersionStep /\ created' >= created
    BY <1>1 DEF RowStep, VersionStep, Edited, CartsInv, TablesOK
<1> QED BY <1>4, <1>5 DEF TablesStep

(* A new cart is one nobody had created.                                    *)
LEMMA createCartStep ==
    ASSUME CartsInv, NEW r \in CartRequests, createCart(r)
    PROVE  TablesStep /\ CartsInv'
<1> DEFINE asCustomer == cartRequest[r].asCustomer
           token == IF asCustomer THEN None ELSE created + 1
           new == NewCart(asCustomer, token, {})
           q == [cartRequest[r] EXCEPT !.at = "adding", !.guest = new]
<1>1. /\ cartRequest[r] \in RequestStates /\ asCustomer \in BOOLEAN
      /\ created \in 0 .. MaxCarts /\ created + 1 \in Carts /\ token \in 0 .. MaxCarts
    <2>1. cartRequest[r] \in RequestStates /\ asCustomer \in BOOLEAN
        BY DEF CartsInv, RequestsOK, RequestStates
    <2>2. created \in 0 .. MaxCarts /\ created < MaxCarts
        BY DEF CartsInv, TablesOK, createCart
    <2>3. created + 1 \in Carts /\ token \in 0 .. MaxCarts
        BY <2>2, CartOrdersAssumption DEF Carts, None
    <2> QED BY <2>1, <2>2, <2>3
<1>2. /\ new \in Rows /\ new.id = created + 1 /\ new.status = "ACTIVE"
      /\ new.token = token /\ new.releasedToken = None /\ new.ofCustomer = asCustomer
      /\ new.version = 0 /\ new.items = {} /\ new.selected = {} /\ new.orderId = None
    BY <1>1, NewCartIsRow DEF Carts
<1>3. /\ cart' = [cart EXCEPT ![new.id] = new]
      /\ created' = created + 1 /\ orders' = orders /\ browserToken' = browserToken
      /\ cartRequest' = [cartRequest EXCEPT ![r].at = "adding", ![r].guest = new]
    BY DEF createCart
<1> HIDE DEF new
<1>4. CartOK(created + 1, new, orders[created + 1], created + 1)
    <2>1. CartOK(created + 1, cart[created + 1], orders[created + 1], created)
        BY <1>1 DEF CartsInv, TablesOK
    <2> QED BY <1>1, <1>2, <2>1, EmptyFits, CartOrdersAssumption DEF CartOK, Carts, None
<1>5. TablesOK'
    BY <1>1, <1>2, <1>3, <1>4, OthersStay DEF CartsInv, TablesOK, Carts
<1>6. TablesStep
    <2>1. \A c \in Carts : c # created + 1 => cart'[c] = cart[c]
        BY <1>2, <1>3 DEF CartsInv, TablesOK
    <2>2. cart[created + 1].status = "NONE"
        BY <1>1 DEF CartsInv, TablesOK, CartOK
    <2> QED BY <1>1, <1>3, <1>5, <2>1, <2>2 DEF TablesStep, RowStep, VersionStep, Carts
<1>7. new \in ReadRows'
    <2>1. cart'[new.id] = new /\ new.id <= created' /\ new.id # None
        BY <1>1, <1>2, <1>3 DEF CartsInv, TablesOK, None
    <2>2. Fits(new.items)
        BY <1>2, EmptyFits
    <2> QED BY <1>2, <2>1, <2>2 DEF ReadRows
<1>8. q \in RequestStates'
    BY <1>1, <1>6, <1>7, ReadStays DEF RequestStates, CartsInv, TablesStep
<1>9. cartRequest' = [cartRequest EXCEPT ![r] = q]
    BY <1>3 DEF CartsInv, RequestsOK
<1> QED BY <1>3, <1>6, <1>8, <1>9, RequestMoves DEF CartsInv, RequestsOK

(* One line more, where there is room for it.                               *)
LEMMA AddedFits ==
    ASSUME NEW items, NEW a, Fits(items), a \in items \/ Cardinality(items) < MaxLines
    PROVE  Fits(items \union {a})
<1>1. /\ IsFiniteSet(items \union {a})
      /\ Cardinality(items \union {a}) = IF a \in items THEN Cardinality(items)
                                         ELSE Cardinality(items) + 1
    BY FS_AddElement DEF Fits
<1>2. Cardinality(items) \in Nat
    BY FS_CardinalityType DEF Fits
<1> QED BY <1>1, <1>2, CartOrdersAssumption DEF Fits

(* The cart a request writes, and what it may hold.                         *)
LEMMA WrittenIsCart ==
    ASSUME CartsInv, NEW r \in CartRequests, Written(r) # None
    PROVE  LET c == Written(r) IN
           /\ c \in Carts /\ cart[c] \in Rows
           /\ cart[c].selected \subseteq cart[c].items /\ Fits(cart[c].items)
           /\ cart[c].items \subseteq Articles
<1>1. cartRequest[r].guest \in Rows
    BY DEF CartsInv, RequestsOK, RequestStates, ReadRows
<1>2. Written(r) \in Carts
    BY <1>1 DEF Written, Rows, Carts, None
<1>3. /\ cart[Written(r)] \in Rows
      /\ CartOK(Written(r), cart[Written(r)], orders[Written(r)], created)
    BY <1>2 DEF CartsInv, TablesOK
<1> QED BY <1>2, <1>3 DEF CartOK, Rows

LEMMA addLineStep ==
    ASSUME CartsInv, NEW r \in CartRequests, NEW a \in Articles, addLine(r, a)
    PROVE  TablesStep /\ CartsInv'
<1> DEFINE c == Written(r)
           items == cart[c].items \union {a}
           selected == cart[c].selected \union {a}
           t == IF cartRequest[r].at = "adding" /\ ~cartRequest[r].asCustomer
                  THEN cartRequest[r].guest.token ELSE browserToken
<1>1. c # None /\ HasRoom(r, a) /\ mutate(c, items, selected) /\ HttpAnswer(r, t)
    BY DEF addLine
<1>2. /\ c \in Carts /\ cart[c].selected \subseteq cart[c].items /\ Fits(cart[c].items)
      /\ cart[c].items \subseteq Articles
    BY <1>1, WrittenIsCart
<1>3. Fits(items)
    BY <1>1, <1>2, AddedFits DEF HasRoom
<1>4. items \in SUBSET Articles /\ selected \in SUBSET items
    BY <1>2
<1>5. t \in 0 .. MaxCarts
    BY DEF CartsInv, RequestsOK, RequestStates, ReadRows, Rows
<1> HIDE DEF c, items, selected, t
<1>6. TablesStep
    BY <1>1, <1>2, <1>3, <1>4, mutateStep
<1> QED BY <1>1, <1>5, <1>6, RequestAnswered

LEMMA EditStep ==
    ASSUME CartsInv, NEW r \in CartRequests, Written(r) # None,
           NEW items \in SUBSET cart[Written(r)].items, NEW selected \in SUBSET items,
           Edit(r, items, selected)
    PROVE  TablesStep /\ CartsInv'
<1> DEFINE c == Written(r)
<1>1. c \in Carts /\ Fits(cart[c].items) /\ cart[c].items \subseteq Articles
    BY WrittenIsCart
<1>2. mutate(c, items, selected) /\ HttpAnswer(r, browserToken)
    BY DEF Edit
<1>3. Fits(items) /\ items \in SUBSET Articles
    BY <1>1, SubsetFits
<1>4. TablesStep
    BY <1>1, <1>2, <1>3, mutateStep
<1> QED BY <1>2, <1>4, RequestAnswered DEF CartsInv, RequestsOK

LEMMA EditsStep ==
    ASSUME CartsInv, NEW r \in CartRequests,
           \/ setAllSelected(r) \/ clear(r)
           \/ \E a \in Articles : updateLine(r, a) \/ removeLine(r, a)
    PROVE  TablesStep /\ CartsInv'
<1> DEFINE items == cart[Written(r)].items
           selected == cart[Written(r)].selected
<1>1. Written(r) # None /\ selected \subseteq items
    BY WrittenIsCart DEF setAllSelected, clear, updateLine, removeLine
<1>2. CASE setAllSelected(r)
    <2>1. PICK s \in {items, {}} : Edit(r, items, s)
        BY <1>2 DEF setAllSelected
    <2> QED BY <1>1, <2>1, EditStep
<1>3. CASE clear(r)
    BY <1>1, <1>3, EditStep DEF clear
<1>4. ASSUME NEW a \in Articles, updateLine(r, a) PROVE TablesStep /\ CartsInv'
    <2>1. PICK s \in {selected \union {a}, selected \ {a}} : Edit(r, items, s)
        BY <1>4 DEF updateLine
    <2>2. a \in items
        BY <1>4 DEF updateLine
    <2>3. s \in SUBSET items
        BY <1>1, <2>2
    <2> QED BY <1>1, <2>1, <2>3, EditStep
<1>5. ASSUME NEW a \in Articles, removeLine(r, a) PROVE TablesStep /\ CartsInv'
    <2>1. Edit(r, items \ {a}, selected \ {a})
        BY <1>5 DEF removeLine
    <2>2. items \ {a} \in SUBSET items /\ selected \ {a} \in SUBSET (items \ {a})
        BY <1>1
    <2> QED BY <1>1, <2>1, <2>2, EditStep
<1> QED BY <1>2, <1>3, <1>4, <1>5
-----------------------------------------------------------------------------
(* Requests that only read, or end.                                         *)
LEMMA RequestStep ==
    ASSUME CartsInv, NEW r \in CartRequests, NEW asCustomer \in BOOLEAN,
           \/ StartWrite(r, asCustomer)
           \/ \E c \in Carts : StartPlace(r, c, asCustomer)
           \/ StartAdopt(r) \/ ReadGuest(r) \/ ReadAccount(r) \/ NothingToAdopt(r)
           \/ CartRequestEnds(r)
    PROVE  TablesStep /\ CartsInv'
<1>1. UNCHANGED <<cart, created, orders>>
    BY DEF StartWrite, StartPlace, StartAdopt, ReadGuest, ReadAccount, NothingToAdopt,
           CartRequestEnds
<1>2. TablesStep
    BY <1>1, TablesStay
<1>3. \A row \in ReadRows : row \in ReadRows'
    BY <1>2, ReadStays DEF CartsInv, TablesStep
<1>4. /\ TablesOK /\ browserToken \in 0 .. MaxCarts
      /\ cartRequest \in [CartRequests -> RequestStates] /\ cartRequest[r] \in RequestStates
    BY DEF CartsInv, RequestsOK
<1>5. NoCart \in ReadRows /\ findActiveByCustomer \in ReadRows
      /\ \A t : findActiveByToken(t) \in ReadRows
    <2>1. \A t : {c \in Active : t # None /\ cart[c].token = t} \in SUBSET Active
        OBVIOUS
    <2> QED BY <1>4, <2>1, NoCartIsRead, RowIsRead DEF findActiveByCustomer, findActiveByToken
<1>6. CASE StartWrite(r, asCustomer)
    <2> DEFINE found == IF asCustomer THEN findActiveByCustomer
                        ELSE findActiveByToken(browserToken)
               q == [Idle EXCEPT !.at = "writing", !.asCustomer = asCustomer, !.guest = found]
    <2>1. found \in ReadRows
        BY <1>5
    <2> HIDE DEF found
    <2>2. Idle \in RequestStates
        BY <1>5 DEF Idle, RequestStates
    <2>3. q \in RequestStates'
        BY <1>3, <2>1, <2>2 DEF RequestStates
    <2>4. cartRequest' = [cartRequest EXCEPT ![r] = q] /\ browserToken' \in 0 .. MaxCarts
        BY <1>4, <1>6 DEF StartWrite, found
    <2> QED BY <1>2, <2>3, <2>4, RequestMoves
<1>7. ASSUME NEW c \in Carts, StartPlace(r, c, asCustomer)
      PROVE  CartsInv'
    <2> DEFINE q == [Idle EXCEPT !.at = "placing", !.asCustomer = asCustomer,
                                 !.guest = cart[c]]
    <2>1. cart[c].status = "ACTIVE" /\ cart[c].selected # {} /\ OwnedBy(c, asCustomer)
        BY <1>7 DEF StartPlace
    <2>2. cart[c] \in Rows /\ CartOK(c, cart[c], orders[c], created)
        BY <1>4 DEF TablesOK
    <2>3. c # None /\ cart[c].id = c
        BY <2>2 DEF CartOK, Carts, None
    <2>4. cart[c].ofCustomer = asCustomer
        <3>1. CASE asCustomer
            BY <2>1, <2>2, <3>1 DEF OwnedBy, Rows
        <3>2. CASE ~asCustomer
            <4>1. browserToken # None /\ browserToken \in {cart[c].token, cart[c].releasedToken}
                BY <2>1, <3>2 DEF OwnedBy
            <4>2. cart[c].releasedToken = None /\ (cart[c].ofCustomer <=> cart[c].token = None)
                BY <2>1, <2>2 DEF CartOK
            <4>3. ~cart[c].ofCustomer
                BY <4>1, <4>2
            <4> QED BY <2>2, <3>2, <4>3 DEF Rows
        <3> QED BY <3>1, <3>2
    <2>5. cart[c] \in ReadRows
        <3>1. TheRow({c}) = cart[c] /\ {c} \in SUBSET Active
            BY <2>1 DEF TheRow, Active
        <3> QED BY <1>4, <3>1, RowIsRead
    <2>6. Idle \in RequestStates
        BY <1>5 DEF Idle, RequestStates
    <2>7. q \in RequestStates'
        BY <1>3, <2>1, <2>3, <2>4, <2>5, <2>6 DEF RequestStates
    <2>8. cartRequest' = [cartRequest EXCEPT ![r] = q] /\ browserToken' \in 0 .. MaxCarts
        BY <1>4, <1>7 DEF StartPlace
    <2> QED BY <1>2, <2>7, <2>8, RequestMoves
<1>8. CASE StartAdopt(r)
    <2> DEFINE unread == [Unread EXCEPT !.token = browserToken]
               q == [at |-> "adopting", asCustomer |-> TRUE, guest |-> unread,
                     account |-> Unread]
    <2>1. \A t \in 0 .. MaxCarts : [Unread EXCEPT !.token = t] \in ReadRows
        <3> SUFFICES ASSUME NEW t \in 0 .. MaxCarts
                     PROVE  [Unread EXCEPT !.token = t] \in ReadRows
            OBVIOUS
        <3> DEFINE row == [Unread EXCEPT !.token = t]
        <3>1. /\ row \in Rows /\ row.id = None /\ row.items = {} /\ row.status = "MERGED"
            BY UnreadIsRow DEF Rows
        <3>2. created \in 0 .. MaxCarts
            BY <1>4 DEF TablesOK
        <3> HIDE DEF row
        <3>3. row \in ReadRows
            BY <3>1, <3>2, EmptyFits DEF ReadRows, IsUnread, None
        <3> QED BY <3>3 DEF row
    <2>2. Unread \in ReadRows
        <3>1. created \in 0 .. MaxCarts
            BY <1>4 DEF TablesOK
        <3> QED BY <3>1, UnreadIsRow, EmptyFits DEF ReadRows, None
    <2>3. unread \in ReadRows
        BY <1>4, <2>1
    <2> HIDE DEF unread
    <2>4. q \in RequestStates'
        BY <1>3, <2>2, <2>3 DEF RequestStates
    <2>5. cartRequest' = [cartRequest EXCEPT ![r] = q] /\ browserToken' \in 0 .. MaxCarts
        BY <1>4, <1>8 DEF StartAdopt, unread
    <2> QED BY <1>2, <2>4, <2>5, RequestMoves
<1>9. CASE ReadGuest(r)
    <2> DEFINE found == findActiveByToken(cartRequest[r].guest.token)
               q == [cartRequest[r] EXCEPT !.guest = found]
    <2>1. found \in ReadRows /\ cartRequest[r].at = "adopting"
        BY <1>5, <1>9 DEF ReadGuest
    <2> HIDE DEF found
    <2>2. q \in RequestStates'
        BY <1>3, <1>4, <2>1 DEF RequestStates
    <2>3. cartRequest' = [cartRequest EXCEPT ![r] = q] /\ browserToken' \in 0 .. MaxCarts
        BY <1>4, <1>9 DEF ReadGuest, found
    <2> QED BY <1>2, <2>2, <2>3, RequestMoves
<1>10. CASE ReadAccount(r)
    <2> DEFINE q == [cartRequest[r] EXCEPT !.account = findActiveByCustomer]
    <2>1. cartRequest[r].at = "adopting"
        BY <1>10 DEF ReadAccount
    <2>2. q \in RequestStates'
        BY <1>3, <1>4, <1>5, <2>1 DEF RequestStates
    <2>3. cartRequest' = [cartRequest EXCEPT ![r] = q] /\ browserToken' \in 0 .. MaxCarts
        BY <1>4, <1>10 DEF ReadAccount
    <2> QED BY <1>2, <2>2, <2>3, RequestMoves
<1>11. CASE NothingToAdopt(r)
    <2>1. None \in 0 .. MaxCarts
        BY CartOrdersAssumption DEF None
    <2> QED BY <1>2, <1>11, <2>1, RequestAnswered DEF NothingToAdopt
<1>12. CASE CartRequestEnds(r)
    <2>1. HttpAnswer(r, browserToken)
        BY <1>12 DEF CartRequestEnds, HttpAnswer
    <2> QED BY <1>2, <1>4, <2>1, RequestAnswered
<1> QED BY <1>2, <1>6, <1>7, <1>8, <1>9, <1>10, <1>11, <1>12

-----------------------------------------------------------------------------
(* Steps that change rows, all to rows that are right.                      *)
RowMay(c, row) ==
    /\ \/ row.status # "ACTIVE" \/ c > created
       \/ cart[c].status = "ACTIVE" /\ row.version > cart[c].version
    /\ \/ cart[c].status = "NONE" \/ row.status = "NONE"
       \/ row.items = cart[c].items /\ row.selected = cart[c].selected
       \/ row.version > cart[c].version

LEMMA RowsChange ==
    ASSUME CartsInv, cart' \in [Carts -> Rows], orders' \in [Carts -> SUBSET Articles],
           created' \in 0 .. MaxCarts, created' >= created,
           \A c \in Carts :
             \/ cart'[c] = cart[c] /\ orders'[c] = orders[c]
             \/ CartOK(c, cart'[c], orders'[c], created') /\ RowMay(c, cart'[c])
    PROVE  TablesStep
<1>1. TablesOK'
    <2> SUFFICES ASSUME NEW c \in Carts PROVE CartOK(c, cart'[c], orders'[c], created')
        BY DEF TablesOK
    <2> QED BY OthersStay DEF CartsInv
<1>2. RowStep
    BY DEF RowStep, RowMay
<1>3. VersionStep
    <2> SUFFICES ASSUME NEW c \in Carts,
                        cart[c].status # "NONE", cart'[c].status # "NONE",
                        <<cart[c].items, cart[c].selected>>
                          # <<cart'[c].items, cart'[c].selected>>
                 PROVE  cart'[c].version > cart[c].version
        BY DEF VersionStep
    <2> QED BY DEF RowMay
<1> QED BY <1>1, <1>2, <1>3 DEF TablesStep

(* A request's row, once the cart is locked: what was read is what is there.*)
LEMMA SameVersionIsSame ==
    ASSUME CartsInv, NEW read \in ReadRows, read.id # None,
           cart[read.id].status = "ACTIVE", SameVersion(read)
    PROVE  /\ read.id \in Carts /\ read = cart[read.id]
           /\ CartOK(read.id, read, orders[read.id], created)
<1>1. read.id \in Carts
    BY DEF ReadRows, Rows, Carts, None
<1>2. read = cart[read.id]
    BY DEF ReadRows, SameVersion
<1> QED BY <1>1, <1>2 DEF CartsInv, TablesOK

(* An adopted cart is the customer's, whatever it has become since.         *)
Claimed(c) ==
    /\ c \in Carts /\ cart[c].status # "NONE" /\ cart[c].version <= MaxVersion
    /\ created' = created /\ orders' = orders
    /\ cart' \in [Carts -> Rows]
    /\ cart'[c].id = cart[c].id /\ cart'[c].status = cart[c].status
    /\ cart'[c].token = None /\ cart'[c].releasedToken = cart[c].releasedToken
    /\ cart'[c].ofCustomer = TRUE /\ cart'[c].orderId = cart[c].orderId
    /\ cart'[c].items = cart[c].items /\ cart'[c].selected = cart[c].selected
    /\ cart'[c].version = cart[c].version + 1
    /\ \A d \in Carts \ {c} : cart'[d] = cart[d]

LEMMA claimRows ==
    ASSUME CartsInv, NEW r \in CartRequests, claimForCustomer(r)
    PROVE  Claimed(cartRequest[r].guest.id)
<1> DEFINE c == cartRequest[r].guest.id
           old == cart[c]
           bumped == old.version + 1
           row == [old EXCEPT !.ofCustomer = TRUE, !.token = None, !.version = bumped]
<1>1. c \in Carts /\ old.status # "NONE" /\ old.version <= MaxVersion /\ old \in Rows
    <2>1. cartRequest[r].guest \in Rows
        BY DEF CartsInv, RequestsOK, RequestStates, ReadRows
    <2>2. c # None /\ old.status # "NONE" /\ old.version <= MaxVersion
        BY DEF claimForCustomer
    <2>3. c \in Carts
        BY <2>1, <2>2 DEF Rows, Carts, None
    <2> QED BY <2>2, <2>3 DEF CartsInv, TablesOK
<1>2. bumped \in 0 .. MaxVersion + 2 /\ None \in 0 .. MaxCarts
    BY <1>1, CartOrdersAssumption DEF Rows, None
<1>3. cart' = [cart EXCEPT ![c] = row] /\ created' = created /\ orders' = orders
    BY DEF claimForCustomer
<1> HIDE DEF old, bumped
<1>4. row \in Rows
    BY <1>1, <1>2 DEF Rows
<1>5. /\ row.id = old.id /\ row.status = old.status /\ row.token = None
      /\ row.releasedToken = old.releasedToken
      /\ row.ofCustomer = TRUE /\ row.orderId = old.orderId
      /\ row.items = old.items /\ row.selected = old.selected /\ row.version = bumped
    BY <1>1 DEF Rows
<1> HIDE DEF row, c
<1>6. /\ cart' \in [Carts -> Rows] /\ cart'[c] = row
      /\ \A d \in Carts \ {c} : cart'[d] = cart[d]
    BY <1>1, <1>3, <1>4 DEF CartsInv, TablesOK
<1>7. Claimed(c)
    BY <1>1, <1>3, <1>5, <1>6 DEF Claimed, old, bumped
<1> QED BY <1>7 DEF c

LEMMA claimStep ==
    ASSUME CartsInv, NEW r \in CartRequests, claimForCustomer(r)
    PROVE  TablesStep /\ CartsInv'
<1> DEFINE c == cartRequest[r].guest.id
<1>1. Claimed(c)
    BY claimRows
<1> HIDE DEF c
<1>2. /\ c \in Carts /\ CartOK(c, cart[c], orders[c], created) /\ cart[c].version \in Nat
    BY <1>1, CartOrdersAssumption DEF Claimed, CartsInv, TablesOK, Rows
<1>3. CartOK(c, cart'[c], orders[c], created)
    BY <1>1, <1>2, CartOrdersAssumption DEF CartOK, Claimed
<1>4. RowMay(c, cart'[c])
    BY <1>1, <1>2 DEF RowMay, Claimed
<1>5. TablesStep
    <2>1. /\ created' \in 0 .. MaxCarts /\ created' >= created
          /\ orders' \in [Carts -> SUBSET Articles]
        BY <1>1 DEF Claimed, CartsInv, TablesOK
    <2> QED BY <1>1, <1>3, <1>4, <2>1, RowsChange DEF Claimed
<1>6. None \in 0 .. MaxCarts
    BY CartOrdersAssumption DEF None
<1>7. HttpAnswer(r, None)
    BY DEF claimForCustomer
<1> QED BY <1>5, <1>6, <1>7, RequestAnswered

(* A swept cart is gone, with its lines.                                    *)
LEMMA sweepStep ==
    ASSUME CartsInv, NEW c \in Carts, deleteExpiredGuestCarts(c)
    PROVE  TablesStep /\ CartsInv'
<1> DEFINE row == [NoCart EXCEPT !.id = c]
<1>1. /\ cart[c].status = "ACTIVE" /\ cart[c].orderId = None
      /\ cart' = [cart EXCEPT ![c] = row]
      /\ UNCHANGED <<created, orders, cartRequest, browserToken>>
    BY DEF deleteExpiredGuestCarts, Active
<1>2. cart[c] \in Rows /\ CartOK(c, cart[c], orders[c], created) /\ c # None
    BY DEF CartsInv, TablesOK, Carts, None
<1>3. row \in Rows /\ row.id = c /\ row.status = "NONE" /\ row.items = {}
      /\ row.selected = {} /\ row.orderId = None
    BY NoCartIsRow DEF Rows, Carts
<1> HIDE DEF row
<1>4. CartOK(c, row, orders[c], created) /\ RowMay(c, row)
    <2>1. orders[c] = {}
        BY <1>1, <1>2 DEF CartOK
    <2>2. CartOK(c, row, orders[c], created)
        BY <1>2, <1>3, <2>1, EmptyFits DEF CartOK
    <2>3. RowMay(c, row)
        BY <1>3 DEF RowMay
    <2> QED BY <2>2, <2>3
<1>5. TablesStep
    <2>1. /\ cart' \in [Carts -> Rows] /\ cart'[c] = row
          /\ \A d \in Carts \ {c} : cart'[d] = cart[d]
        BY <1>1, <1>3 DEF CartsInv, TablesOK
    <2>2. /\ created' \in 0 .. MaxCarts /\ created' >= created
          /\ orders' \in [Carts -> SUBSET Articles]
        BY <1>1 DEF CartsInv, TablesOK
    <2> QED BY <1>1, <1>4, <2>1, <2>2, RowsChange
<1>6. RequestsOK'
    <2>1. \A row1 \in ReadRows : row1 \in ReadRows'
        BY <1>5, ReadStays DEF CartsInv, TablesStep
    <2>2. \A p \in RequestStates : p \in RequestStates'
        BY <2>1 DEF RequestStates
    <2> QED BY <1>1, <2>2 DEF CartsInv, RequestsOK
<1> QED BY <1>5, <1>6 DEF CartsInv, TablesStep

(* What an order of cart c does to the tables, of what is in them: c is the *)
(* record of what was selected, and what was not is in a cart of its own.   *)
Ordered(c) ==
    /\ cart[c].status = "ACTIVE" /\ cart[c].selected # {}
    /\ orders' = [orders EXCEPT ![c] = cart[c].selected]
    /\ cart' \in [Carts -> Rows]
    /\ cart'[c].id = c /\ cart'[c].status = "ORDERED" /\ cart'[c].orderId = c
    /\ cart'[c].items = cart[c].selected /\ cart'[c].selected = cart[c].selected
    /\ cart'[c].version = cart[c].version + 1

AllOrdered(c) ==
    /\ cart[c].selected = cart[c].items /\ created' = created
    /\ \A d \in Carts \ {c} : cart'[d] = cart[d]

RestInCart(c, n) ==
    /\ cart[c].selected # cart[c].items
    /\ n = created + 1 /\ created' = n /\ n \in Carts
    /\ cart'[n].id = n /\ cart'[n].status = "ACTIVE" /\ cart'[n].token = cart[c].token
    /\ cart'[n].releasedToken = None /\ cart'[n].ofCustomer = cart[c].ofCustomer
    /\ cart'[n].version = 0 /\ cart'[n].orderId = None
    /\ cart'[n].items = cart[c].items \ cart[c].selected /\ cart'[n].selected = {}
    /\ \A d \in Carts \ {c, n} : cart'[d] = cart[d]

(* The cart read is the one closed, since its version is.                   *)
LEMMA placeRows ==
    ASSUME CartsInv, NEW r \in CartRequests, place(r)
    PROVE  \E c \in Carts : Ordered(c) /\ (AllOrdered(c) \/ RestInCart(c, created + 1))
<1> DEFINE read == cartRequest[r].guest
           c == read.id
           asCustomer == cartRequest[r].asCustomer
           left == cart[c].items \ cart[c].selected
           closed == Closed(c, left)
           next == NewCart(asCustomer, cart[c].token, left)
<1>1. /\ read \in ReadRows /\ c # None /\ read.selected # {}
      /\ asCustomer \in BOOLEAN /\ read.ofCustomer = asCustomer
    BY DEF place, CartsInv, RequestsOK, RequestStates
<1>2. /\ cart[c].status = "ACTIVE" /\ cart[c].orderId = None /\ SameVersion(read)
    BY DEF place
<1>3. c \in Carts /\ read = cart[c] /\ CartOK(c, read, orders[c], created)
    BY <1>1, <1>2, SameVersionIsSame
<1>4. /\ orders' = [orders EXCEPT ![c] = read.selected]
      /\ \/ /\ left = {} /\ created' = created
            /\ cart' = [cart EXCEPT ![c] = Closed(c, {})]
         \/ /\ left # {} /\ created < MaxCarts /\ created' = created + 1
            /\ cart' = [cart EXCEPT ![c] = closed, ![next.id] = next]
    BY DEF place
<1>5. /\ read \in Rows /\ read.selected \subseteq read.items
      /\ read.version \in Nat /\ read.version + 1 \in 0 .. MaxVersion + 2
      /\ read.token \in 0 .. MaxCarts /\ c <= created /\ created \in 0 .. MaxCarts
    <2>1. read \in Rows /\ read.selected \subseteq read.items
        BY <1>1, <1>3 DEF ReadRows, CartOK
    <2>2. read.version \in Nat /\ read.version <= MaxVersion + 1 /\ read.token \in 0 .. MaxCarts
        BY <1>2, <1>3, <2>1, CartOrdersAssumption DEF CartOK, Rows
    <2>3. c <= created /\ created \in 0 .. MaxCarts
        BY <1>2, <1>3 DEF CartsInv, TablesOK, CartOK, Carts
    <2> QED BY <2>1, <2>2, <2>3, CartOrdersAssumption
<1>6. left = read.items \ read.selected /\ read.items \ left = read.selected
    BY <1>3, <1>5
<1> HIDE DEF left, asCustomer
<1>7. /\ closed \in Rows /\ closed.id = c /\ closed.status = "ORDERED"
      /\ closed.orderId = c /\ closed.items = read.selected
      /\ closed.selected = read.selected /\ closed.version = read.version + 1
    <2> DEFINE kept == read.items \ left
               bumped == read.version + 1
               released == IF read.token # None THEN read.token ELSE read.releasedToken
    <2>1. closed = [read EXCEPT !.status = "ORDERED", !.orderId = c, !.version = bumped,
                                !.items = kept, !.token = None, !.releasedToken = released]
        BY <1>3 DEF Closed
    <2>2. kept = read.selected /\ kept \in SUBSET Articles
        BY <1>5, <1>6 DEF Rows
    <2>3. released \in 0 .. MaxCarts /\ bumped \in 0 .. MaxVersion + 2
          /\ None \in 0 .. MaxCarts /\ c \in 0 .. MaxCarts
        BY <1>3, <1>5, CartOrdersAssumption DEF Rows, None, Carts
    <2> HIDE DEF kept, bumped, released, closed, read
    <2>4. closed \in Rows /\ closed.status = "ORDERED" /\ closed.orderId = c
          /\ closed.items = kept /\ closed.version = bumped
        BY <1>5, <2>1, <2>2, <2>3 DEF Rows
    <2>5. closed.id = read.id /\ closed.selected = read.selected
        BY <1>5, <2>1 DEF Rows
    <2> QED BY <2>2, <2>4, <2>5 DEF bumped
<1> HIDE DEF closed, next
<1>8. CASE left = {}
    <2>1. Closed(c, {}) = closed /\ created' = created /\ cart' = [cart EXCEPT ![c] = closed]
        BY <1>4, <1>8 DEF closed
    <2>2. /\ cart' \in [Carts -> Rows] /\ cart'[c] = closed
          /\ \A d \in Carts \ {c} : cart'[d] = cart[d]
        BY <1>3, <1>7, <2>1 DEF CartsInv, TablesOK
    <2>3. Ordered(c)
        BY <1>1, <1>2, <1>3, <1>4, <1>7, <2>2 DEF Ordered
    <2>4. AllOrdered(c)
        BY <1>3, <1>5, <1>6, <1>8, <2>1, <2>2 DEF AllOrdered
    <2> QED BY <1>3, <2>3, <2>4
<1>9. CASE left # {}
    <2>1. /\ created < MaxCarts /\ created' = created + 1
          /\ cart' = [cart EXCEPT ![c] = closed, ![next.id] = next]
        BY <1>4, <1>9
    <2>2. created + 1 \in 0 .. MaxCarts /\ created + 1 \in Carts /\ created + 1 # c
        BY <1>5, <2>1, CartOrdersAssumption DEF Carts
    <2>3. left \in SUBSET Articles
        BY <1>5, <1>6 DEF Rows
    <2>4. /\ next \in Rows /\ next.id = created + 1 /\ next.status = "ACTIVE"
          /\ next.token = read.token /\ next.releasedToken = None
          /\ next.ofCustomer = asCustomer /\ next.version = 0 /\ next.items = left
          /\ next.selected = {} /\ next.orderId = None
        BY <1>1, <1>3, <1>5, <2>2, <2>3, NewCartIsRow DEF next
    <2>5. /\ cart' \in [Carts -> Rows] /\ cart'[c] = closed /\ cart'[created + 1] = next
          /\ \A d \in Carts \ {c, created + 1} : cart'[d] = cart[d]
        BY <1>3, <1>5, <1>7, <2>1, <2>2, <2>4 DEF CartsInv, TablesOK
    <2>6. Ordered(c)
        BY <1>1, <1>2, <1>3, <1>4, <1>7, <2>5 DEF Ordered
    <2>7. RestInCart(c, created + 1)
        BY <1>1, <1>3, <1>5, <1>6, <1>9, <2>1, <2>2, <2>4, <2>5 DEF RestInCart
    <2> QED BY <1>3, <2>6, <2>7
<1> QED BY <1>8, <1>9

LEMMA placeStep ==
    ASSUME CartsInv, NEW r \in CartRequests, place(r)
    PROVE  TablesStep /\ CartsInv'
<1>1. PICK c \in Carts : Ordered(c) /\ (AllOrdered(c) \/ RestInCart(c, created + 1))
    BY placeRows
<1> DEFINE n == created + 1
           bought == cart[c].selected
<1>2. /\ cart[c] \in Rows /\ CartOK(c, cart[c], orders[c], created)
      /\ cart[c].version \in Nat /\ created \in 0 .. MaxCarts
    BY CartOrdersAssumption DEF CartsInv, TablesOK, Rows
<1>3. bought \subseteq cart[c].items /\ Fits(cart[c].items) /\ Fits(bought)
      /\ Fits(cart[c].items \ bought) /\ bought \in SUBSET Articles
    BY <1>2, SubsetFits DEF CartOK, Rows
<1>4. created' \in 0 .. MaxCarts /\ created' >= created /\ c <= created
    BY <1>1, <1>2, CartOrdersAssumption DEF Ordered, AllOrdered, RestInCart, CartOK, Carts
<1>5. CartOK(c, cart'[c], bought, created') /\ RowMay(c, cart'[c])
    <2>1. CartOK(c, cart'[c], bought, created')
        BY <1>1, <1>2, <1>3, <1>4 DEF Ordered, CartOK, Carts
    <2>2. RowMay(c, cart'[c])
        BY <1>1, <1>2 DEF Ordered, RowMay
    <2> QED BY <2>1, <2>2
<1>6. /\ orders' \in [Carts -> SUBSET Articles] /\ orders'[c] = bought
      /\ \A d \in Carts \ {c} : orders'[d] = orders[d]
    BY <1>1, <1>3 DEF Ordered, CartsInv, TablesOK
<1>7. CASE AllOrdered(c)
    <2>1. TablesStep
        BY <1>1, <1>4, <1>5, <1>6, <1>7, RowsChange DEF Ordered, AllOrdered
    <2> QED BY <2>1, RequestAnswered DEF place, CartsInv, RequestsOK
<1>8. CASE RestInCart(c, n)
    <2>1. orders[n] = {} /\ cart[n].status = "NONE" /\ n \in Carts
        BY <1>2, <1>8 DEF CartsInv, TablesOK, CartOK, RestInCart
    <2>2. CartOK(n, cart'[n], orders[n], created')
        <3>1. cart[c].ofCustomer <=> cart[c].token = None
            BY <1>1, <1>2 DEF CartOK, Ordered
        <3>2. n # None
            BY <1>2 DEF None
        <3> QED BY <1>2, <1>3, <1>8, <2>1, <3>1, <3>2, CartOrdersAssumption
                DEF CartOK, RestInCart
    <2>3. RowMay(n, cart'[n])
        BY <1>2, <2>1 DEF RowMay
    <2>4. n # c /\ \A d \in Carts \ {c, n} : cart'[d] = cart[d]
        BY <1>2, <1>4, <1>8 DEF RestInCart
    <2>5. cart' \in [Carts -> Rows]
        BY <1>1 DEF Ordered
    <2> HIDE DEF n
    <2>6. TablesStep
        BY <1>4, <1>5, <1>6, <2>1, <2>2, <2>3, <2>4, <2>5, RowsChange
    <2> QED BY <2>6, RequestAnswered DEF place, CartsInv, RequestsOK
<1> QED BY <1>1, <1>7, <1>8

(* The lines of a merge are of the two carts, and no more than fit.         *)
LEMMA MergedFits ==
    ASSUME NEW account, NEW guest, Fits(account.items), Fits(guest.items),
           NEW lines \in mergeCartLines(account, guest)
    PROVE  /\ Fits(lines) /\ account.items \subseteq lines
           /\ lines \subseteq account.items \union guest.items
<1> DEFINE new == guest.items \ account.items
           room == MaxLines - Cardinality(account.items)
<1>1. PICK kept \in SUBSET new : /\ lines = account.items \union kept
                                /\ Cardinality(kept) <= room
    <2>1. /\ Cardinality(account.items) \in Nat /\ room \in Int
        BY FS_CardinalityType, CartOrdersAssumption DEF Fits
    <2>2. PICK kept \in SUBSET new : /\ lines = account.items \union kept
                                    /\ \/ kept = new /\ Cardinality(kept) <= room
                                       \/ Cardinality(kept) = room
        BY DEF mergeCartLines
    <2> QED BY <2>1, <2>2
<1>2. Fits(kept)
    BY <1>1, SubsetFits
<1>3. account.items \intersect kept = {}
    BY <1>1
<1>4. /\ IsFiniteSet(account.items \union kept)
      /\ Cardinality(account.items \union kept)
           = Cardinality(account.items) + Cardinality(kept)
               - Cardinality(account.items \intersect kept)
    BY <1>2, FS_Union DEF Fits
<1>5. Cardinality(account.items \intersect kept) = 0
    BY <1>3, FS_EmptySet
<1>6. Cardinality(account.items) \in Nat /\ Cardinality(kept) \in Nat
    BY <1>2, FS_CardinalityType DEF Fits
<1>7. Fits(lines)
    BY <1>1, <1>4, <1>5, <1>6, CartOrdersAssumption DEF Fits
<1> QED BY <1>1, <1>7

(* What a merge of s into t, with these lines and this selection, does to   *)
(* the tables: t grows, and s is retired, whatever it is by now.            *)
Merged(s, t, lines, selected) ==
    /\ s \in Carts /\ t \in Carts
    /\ cart[t].status = "ACTIVE" /\ cart[t].version <= MaxVersion
    /\ cart[s].status # "NONE"
    /\ Fits(lines) /\ lines \in SUBSET Articles /\ cart[t].items \subseteq lines
    /\ selected \in SUBSET lines /\ cart[t].selected \subseteq selected
    /\ created' = created /\ orders' = orders
    /\ cart' \in [Carts -> Rows]
    /\ cart'[t].id = t /\ cart'[t].items = lines /\ cart'[t].selected = selected
    /\ cart'[t].version = cart[t].version + 1 /\ cart'[t].orderId = None
    /\ cart'[s].id = s /\ cart'[s].status = "MERGED"
    /\ s # t => /\ cart'[t].status = "ACTIVE" /\ cart'[t].token = cart[t].token
                /\ cart'[t].releasedToken = None
                /\ cart'[t].ofCustomer = cart[t].ofCustomer
                /\ cart'[s].items = cart[s].items /\ cart'[s].selected = cart[s].selected
                /\ cart'[s].orderId = cart[s].orderId
                /\ cart'[s].version = cart[s].version
    /\ \A d \in Carts \ {s, t} : cart'[d] = cart[d]

(* The target is the one read, the source may be any cart by now, the       *)
(* target too.                                                              *)
LEMMA mergeRows ==
    ASSUME CartsInv, NEW r \in CartRequests, mergeInto(r)
    PROVE  \E lines, selected :
             Merged(cartRequest[r].guest.id, cartRequest[r].account.id, lines, selected)
           /\ cartRequest[r].account = cart[cartRequest[r].account.id]
<1> DEFINE source == cartRequest[r].guest
           target == cartRequest[r].account
           s == source.id
           t == target.id
<1>1. /\ source \in ReadRows /\ target \in ReadRows /\ s # None /\ t # None
    <2>1. source \in ReadRows /\ target \in ReadRows
        BY DEF CartsInv, RequestsOK, RequestStates
    <2>2. source # NoCart /\ target # NoCart /\ ~IsUnread(source) /\ ~IsUnread(target)
        BY DEF mergeInto, Adopting
    <2> QED BY <2>1, <2>2 DEF ReadRows
<1>2. /\ t \in Carts /\ target = cart[t] /\ CartOK(t, target, orders[t], created)
      /\ target.status = "ACTIVE" /\ target.version <= MaxVersion
    BY <1>1, SameVersionIsSame DEF mergeInto, Writable
<1>3. /\ s \in Carts /\ cart[s] \in Rows /\ CartOK(s, cart[s], orders[s], created)
      /\ cart[s].status # "NONE"
    <2>1. s \in Carts
        BY <1>1 DEF ReadRows, Rows, Carts, None
    <2> QED BY <2>1 DEF CartsInv, TablesOK, mergeInto
<1>4. PICK lines \in mergeCartLines(target, source) :
        LET merged == [cart EXCEPT
               ![t].items = lines,
               ![t].selected = (target.selected \union source.selected) \intersect lines,
               ![t].version = @ + 1] IN
        cart' = [merged EXCEPT ![s].status = "MERGED", ![s].token = None,
                               ![s].mergedInto = t]
    BY DEF mergeInto
<1>5. created' = created /\ orders' = orders
    BY DEF mergeInto
<1> DEFINE selected == (target.selected \union source.selected) \intersect lines
           bumped == target.version + 1
           row == [target EXCEPT !.items = lines, !.selected = selected, !.version = bumped]
           before == IF s = t THEN row ELSE cart[s]
           retired == [before EXCEPT !.status = "MERGED", !.token = None, !.mergedInto = t]
<1>6. target \in Rows /\ target.selected \subseteq target.items
      /\ bumped \in 0 .. MaxVersion + 1
    BY <1>1, <1>2, CartOrdersAssumption DEF ReadRows, Rows, CartOK
<1>7. /\ Fits(lines) /\ lines \in SUBSET Articles /\ target.items \subseteq lines
      /\ selected \in SUBSET lines /\ target.selected \subseteq selected
    <2>1. Fits(target.items) /\ Fits(source.items)
        BY <1>1 DEF ReadRows
    <2>2. target.items \in SUBSET Articles /\ source.items \in SUBSET Articles
        BY <1>1 DEF ReadRows, Rows
    <2>3. Fits(lines) /\ target.items \subseteq lines
          /\ lines \subseteq target.items \union source.items
        BY <2>1, MergedFits
    <2>4. target.selected \subseteq lines
        BY <1>6, <2>3
    <2> QED BY <2>2, <2>3, <2>4
<1>8. /\ cart' \in [Carts -> Rows] =>
           /\ cart'[s] = retired
           /\ s # t => cart'[t] = row
           /\ \A d \in Carts \ {s, t} : cart'[d] = cart[d]
      /\ row \in Rows /\ retired \in Rows => cart' \in [Carts -> Rows]
    <2>1. cart' = [[cart EXCEPT ![t] = row] EXCEPT ![s] = retired]
        BY <1>2, <1>3, <1>4 DEF CartsInv, TablesOK
    <2> HIDE DEF row, retired
    <2> QED BY <1>2, <1>3, <2>1 DEF CartsInv, TablesOK
<1> HIDE DEF selected, bumped, source, target
<1>9. /\ row \in Rows /\ row.id = t /\ row.status = "ACTIVE" /\ row.orderId = None
      /\ row.releasedToken = None /\ row.version = bumped
      /\ row.items = lines /\ row.selected = selected
      /\ row.ofCustomer = target.ofCustomer /\ row.token = target.token
    <2>1. target.id = t /\ target.orderId = None /\ target.releasedToken = None
        BY <1>2 DEF CartOK
    <2>2. selected \in SUBSET Articles /\ bumped \in 0 .. MaxVersion + 2
        BY <1>6, <1>7, CartOrdersAssumption
    <2> HIDE DEF t
    <2>3. row \in Rows
        BY <1>6, <1>7, <2>2 DEF Rows
    <2>4. /\ row.id = target.id /\ row.status = target.status /\ row.token = target.token
          /\ row.releasedToken = target.releasedToken
          /\ row.ofCustomer = target.ofCustomer /\ row.orderId = target.orderId
          /\ row.items = lines /\ row.selected = selected /\ row.version = bumped
        BY <1>6 DEF Rows
    <2> QED BY <1>2, <2>1, <2>3, <2>4
<1> HIDE DEF row, s, t
<1>10. /\ before \in Rows /\ t \in 0 .. MaxCarts /\ None \in 0 .. MaxCarts
    BY <1>2, <1>3, <1>9, CartOrdersAssumption DEF Carts, None
<1> HIDE DEF before
<1>11. /\ retired \in Rows /\ retired.status = "MERGED"
       /\ retired.id = before.id /\ retired.items = before.items
       /\ retired.selected = before.selected /\ retired.orderId = before.orderId
       /\ retired.version = before.version
    BY <1>10 DEF Rows
<1> HIDE DEF retired
<1>12. /\ cart' \in [Carts -> Rows] /\ cart'[s] = retired
       /\ s # t => cart'[t] = row
       /\ \A d \in Carts \ {s, t} : cart'[d] = cart[d]
    BY <1>8, <1>9, <1>11
<1>13. Merged(s, t, lines, selected)
    <2>1. CASE s = t
        <3>1. before = row
            BY <2>1 DEF before
        <3> QED BY <1>2, <1>3, <1>5, <1>7, <1>9, <1>11, <1>12, <2>1, <3>1 DEF Merged, bumped
    <2>2. CASE s # t
        <3>1. before = cart[s] /\ cart[s].id = s
            BY <1>3, <2>2 DEF before, CartOK
        <3> QED BY <1>2, <1>3, <1>5, <1>7, <1>9, <1>11, <1>12, <2>2, <3>1 DEF Merged, bumped
    <2> QED BY <2>1, <2>2
<1> QED BY <1>2, <1>13 DEF s, t, source, target

LEMMA mergeStep ==
    ASSUME CartsInv, NEW r \in CartRequests, mergeInto(r)
    PROVE  TablesStep /\ CartsInv'
<1> DEFINE s == cartRequest[r].guest.id
           t == cartRequest[r].account.id
<1>1. PICK lines, selected : Merged(s, t, lines, selected)
    BY mergeRows
<1> HIDE DEF s, t
<1>2. /\ s \in Carts /\ CartOK(s, cart[s], orders[s], created) /\ cart[s].version \in Nat
      /\ t \in Carts /\ CartOK(t, cart[t], orders[t], created) /\ cart[t].version \in Nat
    BY <1>1, CartOrdersAssumption DEF Merged, CartsInv, TablesOK, Rows
<1>3. CartOK(t, cart'[t], orders[t], created) /\ RowMay(t, cart'[t])
    <2>1. orders[t] = {} /\ ~(t > created) /\ (cart[t].ofCustomer <=> cart[t].token = None)
        BY <1>1, <1>2 DEF CartOK, Carts, None, Merged
    <2>2. CartOK(t, cart'[t], orders[t], created)
        BY <1>1, <1>2, <2>1, CartOrdersAssumption DEF CartOK, Carts, None, Merged
    <2>3. RowMay(t, cart'[t])
        BY <1>1, <1>2 DEF RowMay, Merged
    <2> QED BY <2>2, <2>3
<1>4. CartOK(s, cart'[s], orders[s], created) /\ RowMay(s, cart'[s])
    <2>1. CASE s = t
        BY <1>3, <2>1
    <2>2. CASE s # t
        BY <1>1, <1>2, <2>2 DEF CartOK, RowMay, Merged
    <2> QED BY <2>1, <2>2
<1>5. TablesStep
    <2>1. /\ created' \in 0 .. MaxCarts /\ created' >= created
          /\ orders' \in [Carts -> SUBSET Articles]
        BY <1>1 DEF Merged, CartsInv, TablesOK
    <2> QED BY <1>1, <1>3, <1>4, <2>1, RowsChange DEF Merged
<1>6. None \in 0 .. MaxCarts
    BY CartOrdersAssumption DEF None
<1>7. HttpAnswer(r, None)
    BY DEF mergeInto
<1> QED BY <1>5, <1>6, <1>7, RequestAnswered

-----------------------------------------------------------------------------
(* The invariant.                                                           *)
LEMMA CartsStart == CartsInit => CartsInv
<1> SUFFICES ASSUME CartsInit PROVE CartsInv
    OBVIOUS
<1> DEFINE Empty(c) == [NoCart EXCEPT !.id = c]
<1>1. \A c \in Carts : /\ Empty(c) \in Rows /\ Empty(c).id = c
                       /\ Empty(c).status = "NONE" /\ Empty(c).items = {}
                       /\ Empty(c).selected = {} /\ Empty(c).orderId = None
    BY NoCartIsRow DEF Rows, Carts
<1>2. cart = [c \in Carts |-> Empty(c)]
    BY DEF CartsInit
<1> HIDE DEF Empty
<1>3. TablesOK
    <2>1. /\ created = 0 /\ 0 \in 0 .. MaxCarts
          /\ orders \in [Carts -> SUBSET Articles] /\ \A c \in Carts : orders[c] = {}
        BY CartOrdersAssumption DEF CartsInit
    <2>2. cart \in [Carts -> Rows] /\ \A c \in Carts : cart[c] = Empty(c)
        BY <1>1, <1>2
    <2>3. \A c \in Carts : CartOK(c, cart[c], orders[c], created)
        <3> SUFFICES ASSUME NEW c \in Carts PROVE CartOK(c, cart[c], orders[c], created)
            OBVIOUS
        <3>1. /\ cart[c].id = c /\ cart[c].status = "NONE" /\ cart[c].items = {}
              /\ cart[c].selected = {} /\ cart[c].orderId = None /\ orders[c] = {}
            BY <1>1, <2>1, <2>2
        <3>2. c # None
            BY DEF Carts, None
        <3> QED BY <3>1, <3>2, EmptyFits DEF CartOK
    <2> QED BY <2>1, <2>2, <2>3 DEF TablesOK
<1>4. RequestsOK
    <2>1. Idle \in RequestStates
        BY <1>3, NoCartIsRead DEF Idle, RequestStates
    <2> QED BY <2>1, CartOrdersAssumption DEF CartsInit, RequestsOK, None
<1> QED BY <1>3, <1>4 DEF CartsInv

LEMMA CartsStep == CartsInv /\ CartsNext => TablesStep /\ CartsInv'
<1> SUFFICES ASSUME CartsInv, CartsNext PROVE TablesStep /\ CartsInv'
    OBVIOUS
<1>1. ASSUME NEW c \in Carts, deleteExpiredGuestCarts(c) PROVE TablesStep /\ CartsInv'
    BY <1>1, sweepStep
<1>2. ASSUME NEW r \in CartRequests, NEW asCustomer \in BOOLEAN,
             \/ StartWrite(r, asCustomer)
             \/ \E c \in Carts : StartPlace(r, c, asCustomer)
      PROVE  TablesStep /\ CartsInv'
    BY <1>2, RequestStep
<1>3. ASSUME NEW r \in CartRequests,
             \/ StartAdopt(r) \/ ReadGuest(r) \/ ReadAccount(r)
             \/ NothingToAdopt(r) \/ CartRequestEnds(r)
      PROVE  TablesStep /\ CartsInv'
    <2>1. TRUE \in BOOLEAN
        OBVIOUS
    <2> QED BY <1>3, <2>1, RequestStep
<1>4. ASSUME NEW r \in CartRequests, NEW a \in Articles, addLine(r, a)
      PROVE  TablesStep /\ CartsInv'
    BY <1>4, addLineStep
<1>5. ASSUME NEW r \in CartRequests,
             \/ setAllSelected(r) \/ clear(r)
             \/ \E a \in Articles : updateLine(r, a) \/ removeLine(r, a)
      PROVE  TablesStep /\ CartsInv'
    BY <1>5, EditsStep
<1>6. ASSUME NEW r \in CartRequests, createCart(r) PROVE TablesStep /\ CartsInv'
    BY <1>6, createCartStep
<1>7. ASSUME NEW r \in CartRequests, place(r) PROVE TablesStep /\ CartsInv'
    BY <1>7, placeStep
<1>8. ASSUME NEW r \in CartRequests, claimForCustomer(r) PROVE TablesStep /\ CartsInv'
    BY <1>8, claimStep
<1>9. ASSUME NEW r \in CartRequests, mergeInto(r) PROVE TablesStep /\ CartsInv'
    BY <1>9, mergeStep
<1> QED BY <1>1, <1>2, <1>3, <1>4, <1>5, <1>6, <1>7, <1>8, <1>9 DEF CartsNext

LEMMA CartsStutter == CartsInv /\ UNCHANGED cartsVars => CartsInv'
BY DEF CartsInv, TablesOK, RequestsOK, RequestStates, ReadRows, cartsVars

LEMMA CartsInvariant == CartsSpec => []CartsInv
<1>1. CartsInv /\ [CartsNext]_cartsVars => CartsInv'
    BY CartsStep, CartsStutter
<1> QED BY CartsStart, <1>1, PTL DEF CartsSpec

-----------------------------------------------------------------------------
(* The types: every row, order and request is what the table or the code    *)
(* that keeps it may hold, and only lines of a cart are selected in it.     *)
THEOREM CartsTypeCorrect == CartsSpec => []CartsTypeOK
<1>1. CartsInv => CartsTypeOK
    BY DEF CartsInv, TablesOK, CartOK, RequestsOK, RequestStates, ReadRows, CartsTypeOK
<1> QED BY <1>1, CartsInvariant, PTL

(* What was bought is what was priced, for good (placeOrderFromCart closes  *)
(* the cart only at the version it was priced at, and a closed cart is      *)
(* never written by an edit).                                               *)
THEOREM OrderedIsPriced == CartsSpec => []OrderIsAsPriced
<1>1. CartsInv => OrderIsAsPriced
    BY DEF CartsInv, TablesOK, CartOK, OrderIsAsPriced
<1> QED BY <1>1, CartsInvariant, PTL

(* An active cart is a guest's or the customer's, whatever orders and       *)
(* sign-ins race.                                                           *)
THEOREM CartHasOneOwner == CartsSpec => []OneOwner
<1>1. CartsInv => OneOwner
    <2> SUFFICES ASSUME CartsInv, NEW c \in Active
                 PROVE  (cart[c].token # None) # cart[c].ofCustomer
        BY DEF OneOwner
    <2>1. cart[c] \in Rows /\ CartOK(c, cart[c], orders[c], created) /\ cart[c].status = "ACTIVE"
        BY DEF CartsInv, TablesOK, Active
    <2>2. cart[c].ofCustomer \in BOOLEAN /\ (cart[c].ofCustomer <=> cart[c].token = None)
        BY <2>1 DEF CartOK, Rows
    <2> QED BY <2>2
<1> QED BY <1>1, CartsInvariant, PTL

(* No cart outgrows its limit, merges included.                             *)
THEOREM LinesAreLimited == CartsSpec => []LinesWithinLimit
<1>1. CartsInv => LinesWithinLimit
    BY DEF CartsInv, TablesOK, CartOK, Fits, LinesWithinLimit
<1> QED BY <1>1, CartsInvariant, PTL

(* A change of a cart's contents moves its version, which is what lets an   *)
(* order trust the version it was priced at.                                *)
THEOREM VersionMoves == CartsSpec => VersionMovesWithContents
<1>1. CartsInv /\ [CartsNext]_cartsVars => VersionStep \/ UNCHANGED cartsVars
    BY CartsStep DEF TablesStep
<1> QED BY <1>1, CartsInvariant, PTL DEF CartsSpec, VersionMovesWithContents, VersionStep
-----------------------------------------------------------------------------
(* The promise.  What it sees of the carts: functions, of each cart's row.  *)
LEMMA WhatIsSeen ==
    ASSUME NEW c \in Carts
    PROVE  /\ states[c] = IF cart[c].orderId # None THEN "ordered"
                          ELSE IF cart[c].status = "ACTIVE" THEN "open"
                          ELSE IF c > created THEN "unborn" ELSE "gone"
           /\ owners[c] = IF states[c] # "open" THEN "nobody"
                          ELSE IF cart[c].ofCustomer THEN "account" ELSE "guest"
           /\ keptLines[c] = IF states[c] \in {"open", "ordered"} THEN cart[c].items ELSE {}
           /\ keptSelected[c] =
                IF states[c] \in {"open", "ordered"} THEN cart[c].selected ELSE {}
BY DEF states, owners, keptLines, keptSelected, Kept

LEMMA WhatIsSeenNext ==
    ASSUME NEW c \in Carts
    PROVE  /\ states'[c] = IF cart'[c].orderId # None THEN "ordered"
                           ELSE IF cart'[c].status = "ACTIVE" THEN "open"
                           ELSE IF c > created' THEN "unborn" ELSE "gone"
           /\ owners'[c] = IF states'[c] # "open" THEN "nobody"
                           ELSE IF cart'[c].ofCustomer THEN "account" ELSE "guest"
           /\ keptLines'[c] =
                IF states'[c] \in {"open", "ordered"} THEN cart'[c].items ELSE {}
           /\ keptSelected'[c] =
                IF states'[c] \in {"open", "ordered"} THEN cart'[c].selected ELSE {}
BY DEF states, owners, keptLines, keptSelected, Kept

LEMMA SeenIsFunctions ==
    /\ states = [c \in Carts |-> states[c]] /\ states' = [c \in Carts |-> states'[c]]
    /\ owners = [c \in Carts |-> owners[c]] /\ owners' = [c \in Carts |-> owners'[c]]
    /\ keptLines = [c \in Carts |-> keptLines[c]]
    /\ keptLines' = [c \in Carts |-> keptLines'[c]]
    /\ keptSelected = [c \in Carts |-> keptSelected[c]]
    /\ keptSelected' = [c \in Carts |-> keptSelected'[c]]
BY DEF states, owners, keptLines, keptSelected

(* A function that differs at one place, and at two.                        *)
LEMMA ChangedAt ==
    ASSUME NEW D, NEW f, NEW g, f = [d \in D |-> f[d]], g = [d \in D |-> g[d]],
           NEW c \in D, \A d \in D \ {c} : g[d] = f[d]
    PROVE  g = [f EXCEPT ![c] = g[c]]
OBVIOUS

LEMMA ChangedAtTwo ==
    ASSUME NEW D, NEW f, NEW g, f = [d \in D |-> f[d]], g = [d \in D |-> g[d]],
           NEW c \in D, NEW e \in D, \A d \in D \ {c, e} : g[d] = f[d]
    PROVE  c # e => g = [f EXCEPT ![c] = g[c], ![e] = g[e]]
OBVIOUS

LEMMA ChangedNowhere ==
    ASSUME NEW D, NEW f, NEW g, f = [d \in D |-> f[d]], g = [d \in D |-> g[d]],
           \A d \in D : g[d] = f[d]
    PROVE  g = f
OBVIOUS

(* A row left alone is seen as it was.                                      *)
LEMMA SeenAsBefore ==
    ASSUME TablesOK, NEW c \in Carts, cart'[c] = cart[c],
           created' = created \/ (created' = created + 1 /\ c # created + 1)
    PROVE  /\ states'[c] = states[c] /\ owners'[c] = owners[c]
           /\ keptLines'[c] = keptLines[c] /\ keptSelected'[c] = keptSelected[c]
<1>1. c \in Int /\ created \in Int
    BY DEF TablesOK, Carts
<1>2. c > created' <=> c > created
    BY <1>1
<1>3. states'[c] = states[c]
    BY <1>2, WhatIsSeen, WhatIsSeenNext
<1> QED BY <1>3, WhatIsSeen, WhatIsSeenNext

(* Only one cart's row changed.                                             *)
LEMMA SeenChangedAt ==
    ASSUME TablesOK, created' = created, NEW c \in Carts,
           \A d \in Carts \ {c} : cart'[d] = cart[d]
    PROVE  /\ states' = [states EXCEPT ![c] = states'[c]]
           /\ owners' = [owners EXCEPT ![c] = owners'[c]]
           /\ keptLines' = [keptLines EXCEPT ![c] = keptLines'[c]]
           /\ keptSelected' = [keptSelected EXCEPT ![c] = keptSelected'[c]]
           /\ states'[c] = states[c] => states' = states
           /\ owners'[c] = owners[c] => owners' = owners
           /\ keptLines'[c] = keptLines[c] => keptLines' = keptLines
           /\ keptSelected'[c] = keptSelected[c] => keptSelected' = keptSelected
<1>1. \A d \in Carts \ {c} :
         /\ states'[d] = states[d] /\ owners'[d] = owners[d]
         /\ keptLines'[d] = keptLines[d] /\ keptSelected'[d] = keptSelected[d]
    BY SeenAsBefore
<1>2. /\ states' = [states EXCEPT ![c] = states'[c]]
      /\ owners' = [owners EXCEPT ![c] = owners'[c]]
      /\ keptLines' = [keptLines EXCEPT ![c] = keptLines'[c]]
      /\ keptSelected' = [keptSelected EXCEPT ![c] = keptSelected'[c]]
    BY <1>1, SeenIsFunctions, ChangedAt
<1>3. /\ states'[c] = states[c] => states' = states
      /\ owners'[c] = owners[c] => owners' = owners
      /\ keptLines'[c] = keptLines[c] => keptLines' = keptLines
      /\ keptSelected'[c] = keptSelected[c] => keptSelected' = keptSelected
    BY <1>1, SeenIsFunctions, ChangedNowhere
<1> QED BY <1>2, <1>3

(* The open carts are the active ones, and are seen as they are.            *)
LEMMA OpenIsActive ==
    ASSUME TablesOK
    PROVE  /\ Promise!Open = Active
           /\ \A c \in Active :
                /\ states[c] = "open" /\ keptLines[c] = cart[c].items
                /\ keptSelected[c] = cart[c].selected
                /\ owners[c] = IF cart[c].ofCustomer THEN "account" ELSE "guest"
<1>1. \A c \in Carts : states[c] = "open" <=> cart[c].status = "ACTIVE"
    BY WhatIsSeen DEF TablesOK, CartOK
<1> QED BY <1>1, WhatIsSeen DEF Promise!Open, Active

(* Each action as a step of the promise.  First the edits.                  *)
LEMMA EditIsChange ==
    ASSUME CartsInv, NEW c \in Carts, NEW items \in SUBSET Articles,
           NEW selected \in SUBSET items, mutate(c, items, selected)
    PROVE  /\ Promise!Change(c, items, selected)
           /\ keptLines[c] = cart[c].items /\ keptSelected[c] = cart[c].selected
<1>1. Edited(c, items, selected)
    BY mutateRows
<1>2. TablesOK /\ c \in Active /\ CartOK(c, cart[c], orders[c], created)
    BY <1>1 DEF CartsInv, TablesOK, Edited, Active
<1>3. /\ states[c] = "open" /\ c \in Promise!Open
      /\ keptLines[c] = cart[c].items /\ keptSelected[c] = cart[c].selected
      /\ owners[c] = IF cart[c].ofCustomer THEN "account" ELSE "guest"
    BY <1>2, OpenIsActive
<1>4. cart'[c].orderId = None /\ cart'[c].status = "ACTIVE"
      /\ cart'[c].ofCustomer = cart[c].ofCustomer
      /\ cart'[c].items = items /\ cart'[c].selected = selected
    BY <1>1, <1>2 DEF Edited, CartOK
<1>5. /\ states'[c] = states[c] /\ owners'[c] = owners[c]
      /\ keptLines'[c] = items /\ keptSelected'[c] = selected
    BY <1>3, <1>4, WhatIsSeenNext
<1>6. /\ states' = states /\ owners' = owners /\ orders' = orders
      /\ keptLines' = [keptLines EXCEPT ![c] = items]
      /\ keptSelected' = [keptSelected EXCEPT ![c] = selected]
    <2>1. created' = created /\ orders' = orders
          /\ \A d \in Carts \ {c} : cart'[d] = cart[d]
        BY <1>1 DEF Edited
    <2> QED BY <1>2, <1>5, <2>1, SeenChangedAt
<1> QED BY <1>3, <1>6 DEF Promise!Change

LEMMA AddIsPromised ==
    ASSUME CartsInv, NEW r \in CartRequests, NEW a \in Articles, addLine(r, a)
    PROVE  Promise!Next
<1> DEFINE c == Written(r)
           items == cart[c].items \union {a}
           selected == cart[c].selected \union {a}
<1>1. c # None /\ HasRoom(r, a) /\ mutate(c, items, selected)
    BY DEF addLine
<1>2. /\ c \in Carts /\ cart[c].selected \subseteq cart[c].items /\ Fits(cart[c].items)
      /\ cart[c].items \subseteq Articles
    BY <1>1, WrittenIsCart
<1>3. Fits(items)
    BY <1>1, <1>2, AddedFits DEF HasRoom
<1>4. items \in SUBSET Articles /\ selected \in SUBSET items
    BY <1>2
<1> HIDE DEF c
<1>5. /\ Promise!Change(c, items, selected)
      /\ keptLines[c] = cart[c].items /\ keptSelected[c] = cart[c].selected
    BY <1>1, <1>2, <1>4, EditIsChange
<1>6. Promise!Cardinality(items) <= MaxLines
    BY <1>3 DEF Fits, Cardinality, Promise!Cardinality
<1>7. Promise!Add(c, a)
    BY <1>5, <1>6 DEF Promise!Add
<1>8. c \in Promise!Open
    BY <1>2, <1>5 DEF Promise!Change, Promise!Open
<1> QED BY <1>7, <1>8 DEF Promise!Next

LEMMA EditIsPromised ==
    ASSUME CartsInv, NEW r \in CartRequests,
           \/ setAllSelected(r) \/ clear(r)
           \/ \E a \in Articles : updateLine(r, a) \/ removeLine(r, a)
    PROVE  Promise!Next
<1> DEFINE c == Written(r)
           items == cart[c].items
           selected == cart[c].selected
<1>1. /\ c # None /\ c \in Carts /\ selected \subseteq items /\ items \subseteq Articles
    BY WrittenIsCart DEF setAllSelected, clear, updateLine, removeLine
<1>2. ASSUME NEW choice \in SUBSET items, Edit(r, items, choice) PROVE Promise!Next
    <2>1. Promise!Change(c, items, choice) /\ keptLines[c] = items
        BY <1>1, <1>2, EditIsChange DEF Edit
    <2>2. Promise!Choose(c)
        BY <2>1 DEF Promise!Choose
    <2>3. c \in Promise!Open
        BY <1>1, <2>1 DEF Promise!Change, Promise!Open
    <2> QED BY <2>2, <2>3 DEF Promise!Next
<1>3. ASSUME NEW taken \in SUBSET items, Edit(r, items \ taken, selected \ taken)
      PROVE  Promise!Next
    <2>1. items \ taken \in SUBSET Articles /\ selected \ taken \in SUBSET (items \ taken)
        BY <1>1
    <2>2. /\ Promise!Change(c, items \ taken, selected \ taken)
          /\ keptLines[c] = items /\ keptSelected[c] = selected
        BY <1>1, <1>3, <2>1, EditIsChange DEF Edit
    <2>3. Promise!Remove(c)
        BY <2>2 DEF Promise!Remove
    <2>4. c \in Promise!Open
        BY <1>1, <2>2 DEF Promise!Change, Promise!Open
    <2> QED BY <2>3, <2>4 DEF Promise!Next
<1>4. CASE setAllSelected(r)
    <2>1. PICK choice \in {items, {}} : Edit(r, items, choice)
        BY <1>4 DEF setAllSelected
    <2> QED BY <1>2, <2>1
<1>5. CASE clear(r)
    <2>1. items \ items = {} /\ selected \ items = {}
        BY <1>1
    <2> QED BY <1>3, <1>5, <2>1 DEF clear
<1>6. ASSUME NEW a \in Articles, updateLine(r, a) PROVE Promise!Next
    <2>1. PICK choice \in {selected \union {a}, selected \ {a}} : Edit(r, items, choice)
        BY <1>6 DEF updateLine
    <2>2. a \in items
        BY <1>6 DEF updateLine
    <2> QED BY <1>1, <1>2, <2>1, <2>2
<1>7. ASSUME NEW a \in Articles, removeLine(r, a) PROVE Promise!Next
    <2>1. Edit(r, items \ {a}, selected \ {a})
        BY <1>7 DEF removeLine
    <2>2. items \ {a} = items \ (items \intersect {a})
          /\ selected \ {a} = selected \ (items \intersect {a})
        BY <1>1
    <2> QED BY <1>3, <2>1, <2>2
<1> QED BY <1>4, <1>5, <1>6, <1>7

(* The account's active cart, if it has one, is the one found.              *)
LEMMA AccountFound ==
    ASSUME TablesOK
    PROVE  \/ /\ findActiveByCustomer = NoCart
              /\ \A c \in Active : ~cart[c].ofCustomer
           \/ \E c \in Active : /\ cart[c].ofCustomer /\ cart[c].id = c
                                /\ findActiveByCustomer = cart[c]
<1> DEFINE cs == {c \in Active : cart[c].ofCustomer}
<1>1. findActiveByCustomer = TheRow(cs)
    BY DEF findActiveByCustomer
<1>2. CASE cs = {}
    BY <1>1, <1>2 DEF TheRow
<1>3. CASE cs # {}
    <2>1. PICK c \in cs : TheRow(cs) = cart[c]
        BY <1>3 DEF TheRow
    <2>2. cart[c].id = c
        BY DEF TablesOK, CartOK, Active
    <2> QED BY <1>1, <2>1, <2>2
<1> QED BY <1>2, <1>3

(* A cart created is opened, for an account only if it has none.            *)
LEMMA CreationIsPromised ==
    ASSUME CartsInv, NEW r \in CartRequests, createCart(r)
    PROVE  Promise!Next
<1> DEFINE asCustomer == cartRequest[r].asCustomer
           token == IF asCustomer THEN None ELSE created + 1
           new == NewCart(asCustomer, token, {})
           n == created + 1
           whose == IF asCustomer THEN "account" ELSE "guest"
<1>1. /\ TablesOK /\ asCustomer \in BOOLEAN /\ created \in 0 .. MaxCarts
      /\ n \in Carts /\ n \in 0 .. MaxCarts /\ token \in 0 .. MaxCarts
    <2>1. TablesOK /\ asCustomer \in BOOLEAN
        BY DEF CartsInv, RequestsOK, RequestStates
    <2>2. created \in 0 .. MaxCarts /\ created < MaxCarts
        BY DEF CartsInv, TablesOK, createCart
    <2>3. n \in Carts /\ n \in 0 .. MaxCarts /\ token \in 0 .. MaxCarts
        BY <2>2, CartOrdersAssumption DEF Carts, None
    <2> QED BY <2>1, <2>2, <2>3
<1>2. /\ new \in Rows /\ new.id = n /\ new.status = "ACTIVE" /\ new.ofCustomer = asCustomer
      /\ new.items = {} /\ new.selected = {} /\ new.orderId = None
    BY <1>1, NewCartIsRow
<1>3. /\ cart' = [cart EXCEPT ![new.id] = new] /\ created' = n /\ orders' = orders
      /\ asCustomer => findActiveByCustomer = NoCart
    BY DEF createCart
<1> HIDE DEF new
<1>4. cart'[n] = new /\ \A d \in Carts \ {n} : cart'[d] = cart[d]
    BY <1>1, <1>2, <1>3 DEF TablesOK
<1>5. cart[n].status = "NONE" /\ cart[n].orderId = None
    <2>1. CartOK(n, cart[n], orders[n], created)
        BY <1>1 DEF TablesOK
    <2> QED BY <1>1, <2>1 DEF CartOK
<1>6. states[n] = "unborn" /\ keptLines[n] = {} /\ keptSelected[n] = {}
    BY <1>1, <1>5, WhatIsSeen
<1>7. /\ states'[n] = "open" /\ owners'[n] = whose
      /\ keptLines'[n] = {} /\ keptSelected'[n] = {}
    BY <1>1, <1>2, <1>4, WhatIsSeenNext
<1>8. \A d \in Carts \ {n} :
         /\ states'[d] = states[d] /\ owners'[d] = owners[d]
         /\ keptLines'[d] = keptLines[d] /\ keptSelected'[d] = keptSelected[d]
    BY <1>1, <1>3, <1>4, SeenAsBefore
<1>9. /\ states' = [states EXCEPT ![n] = "open"]
      /\ owners' = [owners EXCEPT ![n] = whose]
    BY <1>1, <1>7, <1>8, SeenIsFunctions, ChangedAt
<1>10. keptLines' = keptLines /\ keptSelected' = keptSelected
    <2>1. \A d \in Carts :
             keptLines'[d] = keptLines[d] /\ keptSelected'[d] = keptSelected[d]
        BY <1>6, <1>7, <1>8
    <2> QED BY <2>1, SeenIsFunctions, ChangedNowhere
<1>11. asCustomer => Promise!NoAccountCart
    BY <1>1, <1>3, AccountFound, OpenIsActive, NoCartIsRow DEF Promise!NoAccountCart
<1>12. Promise!Start(n, whose)
    BY <1>3, <1>6, <1>9, <1>10, <1>11 DEF Promise!Start
<1> QED BY <1>1, <1>12 DEF Promise!Next

(* A swept cart is a guest's.                                               *)
LEMMA SweepIsPromised ==
    ASSUME CartsInv, NEW c \in Carts, deleteExpiredGuestCarts(c)
    PROVE  Promise!Next
<1> DEFINE row == [NoCart EXCEPT !.id = c]
<1>1. /\ TablesOK /\ c \in Active /\ ~cart[c].ofCustomer
      /\ cart' = [cart EXCEPT ![c] = row] /\ created' = created /\ orders' = orders
    BY DEF deleteExpiredGuestCarts, CartsInv
<1>2. row \in Rows /\ row.status = "NONE" /\ row.orderId = None
    BY NoCartIsRow DEF Rows, Carts
<1> HIDE DEF row
<1>3. cart'[c] = row /\ \A d \in Carts \ {c} : cart'[d] = cart[d]
    BY <1>1 DEF TablesOK
<1>4. c <= created
    BY <1>1 DEF TablesOK, CartOK, Active, Carts
<1>5. /\ states'[c] = "gone" /\ owners'[c] = "nobody"
      /\ keptLines'[c] = {} /\ keptSelected'[c] = {}
    <2>1. ~(c > created')
        BY <1>1, <1>4 DEF TablesOK, Carts
    <2> QED BY <1>2, <1>3, <2>1, WhatIsSeenNext
<1>6. c \in Promise!Open /\ states[c] = "open" /\ owners[c] = "guest"
    BY <1>1, OpenIsActive
<1>7. /\ states' = [states EXCEPT ![c] = "gone"] /\ owners' = [owners EXCEPT ![c] = "nobody"]
      /\ keptLines' = [keptLines EXCEPT ![c] = {}]
      /\ keptSelected' = [keptSelected EXCEPT ![c] = {}]
    BY <1>1, <1>3, <1>5, SeenChangedAt
<1>8. Promise!Sweep(c)
    BY <1>1, <1>6, <1>7 DEF Promise!Sweep, Promise!GiveUp
<1> QED BY <1>6, <1>8 DEF Promise!Next

(* A cart claimed is an open guest's, of a customer who has none; or one    *)
(* that is the customer's, or closed, already.                              *)
LEMMA ClaimIsPromised ==
    ASSUME CartsInv, NEW r \in CartRequests, claimForCustomer(r)
    PROVE  Promise!Next \/ UNCHANGED Promise!vars
<1> DEFINE c == cartRequest[r].guest.id
<1>1. Claimed(c) /\ (cart[c].status = "ACTIVE" => findActiveByCustomer.id \in {None, c})
    BY claimRows DEF claimForCustomer
<1> HIDE DEF c
<1>2. /\ TablesOK /\ c \in Carts /\ created' = created /\ orders' = orders
      /\ \A d \in Carts \ {c} : cart'[d] = cart[d]
      /\ cart'[c].status = cart[c].status /\ cart'[c].orderId = cart[c].orderId
      /\ cart'[c].items = cart[c].items /\ cart'[c].selected = cart[c].selected
      /\ cart'[c].ofCustomer = TRUE /\ cart[c].ofCustomer \in BOOLEAN
    BY <1>1 DEF CartsInv, TablesOK, Claimed, Rows
<1>3. /\ states'[c] = states[c]
      /\ keptLines'[c] = keptLines[c] /\ keptSelected'[c] = keptSelected[c]
      /\ owners'[c] = IF states[c] = "open" THEN "account" ELSE "nobody"
    BY <1>2, WhatIsSeen, WhatIsSeenNext
<1>4. states' = states /\ keptLines' = keptLines /\ keptSelected' = keptSelected
    BY <1>2, <1>3, SeenChangedAt
<1>5. CASE cart[c].status = "ACTIVE" /\ ~cart[c].ofCustomer
    <2>1. c \in Active /\ states[c] = "open" /\ owners[c] = "guest" /\ c \in Promise!Open
        BY <1>2, <1>5, OpenIsActive DEF Active
    <2>2. \A d \in Active : ~cart[d].ofCustomer
        <3> SUFFICES ASSUME NEW d \in Active, cart[d].ofCustomer, cart[d].id = d,
                            findActiveByCustomer = cart[d]
                     PROVE  FALSE
            BY <1>2, AccountFound
        <3>1. d = c
            BY <1>1, <1>5 DEF Active, Carts, None
        <3> QED BY <1>5, <3>1
    <2>3. Promise!NoAccountCart
        BY <1>2, <2>2, OpenIsActive DEF Promise!NoAccountCart
    <2>4. owners' = [owners EXCEPT ![c] = "account"]
        BY <1>2, <1>3, <2>1, SeenChangedAt
    <2>5. Promise!Claim(c)
        BY <1>2, <1>4, <2>1, <2>3, <2>4 DEF Promise!Claim
    <2> QED BY <2>1, <2>5 DEF Promise!Next
<1>6. CASE ~(cart[c].status = "ACTIVE" /\ ~cart[c].ofCustomer)
    <2>1. states[c] = "open" => cart[c].status = "ACTIVE"
        BY <1>2, WhatIsSeen
    <2>2. owners'[c] = owners[c]
        BY <1>2, <1>3, <1>6, <2>1, WhatIsSeen
    <2>3. owners' = owners
        BY <1>2, <2>2, SeenChangedAt
    <2> QED BY <1>2, <1>4, <2>3 DEF Promise!vars
<1> QED BY <1>5, <1>6

(* An order takes what is chosen, and leaves the rest.                      *)
LEMMA PlaceIsPromised ==
    ASSUME CartsInv, NEW r \in CartRequests, place(r)
    PROVE  Promise!Next
<1>1. PICK c \in Carts : Ordered(c) /\ (AllOrdered(c) \/ RestInCart(c, created + 1))
    BY placeRows
<1> DEFINE n == created + 1
           bought == cart[c].selected
<1>2. TablesOK /\ c \in Active /\ bought # {} /\ created \in Nat
      /\ orders' = [orders EXCEPT ![c] = bought]
    BY <1>1, CartOrdersAssumption DEF Ordered, CartsInv, TablesOK, Active
<1>3. /\ states[c] = "open" /\ c \in Promise!Open
      /\ keptLines[c] = cart[c].items /\ keptSelected[c] = bought
      /\ owners[c] = IF cart[c].ofCustomer THEN "account" ELSE "guest"
    BY <1>2, OpenIsActive
<1>4. /\ states'[c] = "ordered" /\ owners'[c] = "nobody"
      /\ keptLines'[c] = bought /\ keptSelected'[c] = bought
    <2>1. c # None
        BY DEF Carts, None
    <2> QED BY <1>1, <2>1, WhatIsSeenNext DEF Ordered
<1>5. CASE AllOrdered(c)
    <2>1. /\ bought = cart[c].items /\ created' = created
          /\ \A d \in Carts \ {c} : cart'[d] = cart[d]
        BY <1>5 DEF AllOrdered
    <2>2. /\ states' = [states EXCEPT ![c] = "ordered"]
          /\ owners' = [owners EXCEPT ![c] = "nobody"]
          /\ keptLines' = keptLines /\ keptSelected' = keptSelected
        BY <1>2, <1>3, <1>4, <2>1, SeenChangedAt
    <2>3. Promise!BuyAll(c)
        BY <1>2, <1>3, <2>1, <2>2 DEF Promise!BuyAll
    <2> QED BY <1>3, <2>3 DEF Promise!Next
<1>6. CASE RestInCart(c, n)
    <2>1. /\ bought # cart[c].items /\ n \in Carts /\ created' = n
          /\ \A d \in Carts \ {c, n} : cart'[d] = cart[d]
          /\ cart'[n].status = "ACTIVE" /\ cart'[n].orderId = None
          /\ cart'[n].ofCustomer = cart[c].ofCustomer
          /\ cart'[n].items = cart[c].items \ bought /\ cart'[n].selected = {}
        BY <1>6 DEF RestInCart
    <2>2. cart[n].status = "NONE" /\ cart[n].orderId = None /\ c # n
        <3>1. CartOK(n, cart[n], orders[n], created) /\ n > created
            BY <1>2, <2>1 DEF TablesOK
        <3> QED BY <1>2, <3>1 DEF CartOK, Active
    <2>3. states[n] = "unborn" /\ keptSelected[n] = {}
        BY <1>2, <2>1, <2>2, WhatIsSeen
    <2>4. /\ states'[n] = "open" /\ owners'[n] = owners[c]
          /\ keptLines'[n] = cart[c].items \ bought /\ keptSelected'[n] = {}
        BY <1>3, <2>1, WhatIsSeenNext
    <2> HIDE DEF n, bought
    <2>5. \A d \in Carts \ {c, n} :
             /\ states'[d] = states[d] /\ owners'[d] = owners[d]
             /\ keptLines'[d] = keptLines[d] /\ keptSelected'[d] = keptSelected[d]
        BY <1>2, <2>1, SeenAsBefore DEF n
    <2>6. /\ states' = [states EXCEPT ![c] = "ordered", ![n] = "open"]
          /\ owners' = [owners EXCEPT ![c] = "nobody", ![n] = owners[c]]
          /\ keptLines' = [keptLines EXCEPT ![c] = bought, ![n] = cart[c].items \ bought]
        BY <1>4, <2>1, <2>2, <2>4, <2>5, SeenIsFunctions, ChangedAtTwo
    <2>7. keptSelected' = keptSelected
        <3>1. \A d \in Carts : keptSelected'[d] = keptSelected[d]
            BY <1>3, <1>4, <2>3, <2>4, <2>5
        <3> QED BY <3>1, SeenIsFunctions, ChangedNowhere
    <2>8. Promise!BuyChosen(c, n)
        BY <1>2, <1>3, <2>1, <2>3, <2>6, <2>7 DEF Promise!BuyChosen
    <2> QED BY <1>3, <2>1, <2>8 DEF Promise!Next
<1> QED BY <1>1, <1>5, <1>6

(* What a step needs to know of the customer's carts: there is one at a     *)
(* time (Promise!OneAccountCart), and what a sign-in read as one was one.   *)
AccountsWereRead ==
    \A r \in CartRequests :
        cartRequest[r].account.id # None => cartRequest[r].account.ofCustomer

AccountsOK == Promise!OneAccountCart /\ AccountsWereRead

(* A merge goes into the account's cart, and what it retires is a guest's,  *)
(* or closed already, or that very cart.                                    *)
LEMMA MergeIsPromised ==
    ASSUME CartsInv, AccountsOK, NEW r \in CartRequests, mergeInto(r)
    PROVE  Promise!Next
<1> DEFINE s == cartRequest[r].guest.id
           t == cartRequest[r].account.id
<1>1. PICK lines, selected : Merged(s, t, lines, selected)
    BY mergeRows
<1>2. cart[t].ofCustomer /\ t \in Active /\ s \in Carts
    <2>1. cartRequest[r].account = cart[t]
        BY mergeRows
    <2>2. t # None /\ t \in Active /\ s \in Carts
        BY <1>1 DEF Merged, Active, Carts, None
    <2> QED BY <2>1, <2>2 DEF AccountsOK, AccountsWereRead
<1> HIDE DEF s, t
<1>3. /\ TablesOK /\ t \in Carts /\ t \in Promise!Open /\ owners[t] = "account"
      /\ states[t] = "open"
      /\ keptLines[t] = cart[t].items /\ keptSelected[t] = cart[t].selected
    BY <1>2, OpenIsActive DEF CartsInv, Active
<1>4. /\ lines \in SUBSET Articles /\ selected \in SUBSET lines
      /\ cart[t].items \subseteq lines /\ cart[t].selected \subseteq selected
      /\ created' = created /\ orders' = orders
      /\ \A d \in Carts \ {s, t} : cart'[d] = cart[d]
    BY <1>1 DEF Merged
<1>5. Promise!Gathers(t, lines, selected)
    <2>1. Promise!Cardinality(lines) <= MaxLines
        BY <1>1 DEF Merged, Fits, Cardinality, Promise!Cardinality
    <2> QED BY <1>3, <1>4, <2>1 DEF Promise!Gathers
<1>6. CartOK(s, cart[s], orders[s], created) /\ CartOK(t, cart[t], orders[t], created)
    BY <1>2, <1>3 DEF TablesOK
<1>7. ~(s > created')
    <2>1. cart[s].status # "NONE"
        BY <1>1 DEF Merged
    <2> QED BY <1>4, <1>6, <2>1 DEF CartOK
<1>8. CASE s = t
    <2>1. cart'[t].status = "MERGED" /\ cart'[t].orderId = None
        BY <1>1, <1>8 DEF Merged
    <2>2. /\ states'[t] = "gone" /\ owners'[t] = "nobody"
          /\ keptLines'[t] = {} /\ keptSelected'[t] = {}
        BY <1>3, <1>7, <1>8, <2>1, WhatIsSeenNext
    <2>3. /\ states' = [states EXCEPT ![t] = "gone"]
          /\ owners' = [owners EXCEPT ![t] = "nobody"]
          /\ keptLines' = [keptLines EXCEPT ![t] = {}]
          /\ keptSelected' = [keptSelected EXCEPT ![t] = {}]
        BY <1>3, <1>4, <1>8, <2>2, SeenChangedAt
    <2>4. Promise!MergeIntoItself(t)
        BY <1>3, <1>4, <2>3 DEF Promise!MergeIntoItself, Promise!GiveUp
    <2> QED BY <1>3, <2>4 DEF Promise!Next
<1>9. CASE s # t
    <2>1. /\ cart'[t].status = "ACTIVE" /\ cart'[t].orderId = None
          /\ cart'[t].ofCustomer = cart[t].ofCustomer
          /\ cart'[t].items = lines /\ cart'[t].selected = selected
          /\ cart'[s].status = "MERGED" /\ cart'[s].orderId = cart[s].orderId
          /\ cart'[s].items = cart[s].items /\ cart'[s].selected = cart[s].selected
        BY <1>1, <1>9 DEF Merged
    <2>2. /\ states'[t] = "open" /\ owners'[t] = "account"
          /\ keptLines'[t] = lines /\ keptSelected'[t] = selected
        BY <1>2, <1>3, <2>1, WhatIsSeenNext
    <2>3. CASE s \in Active
        <3>1. s \in Promise!Open /\ states[s] = "open" /\ owners[s] = "guest"
            <4>1. /\ s \in Promise!Open /\ states[s] = "open"
                  /\ owners[s] = IF cart[s].ofCustomer THEN "account" ELSE "guest"
                BY <1>3, <2>3, OpenIsActive
            <4>2. owners[s] # "account"
                BY <1>3, <1>9, <4>1 DEF AccountsOK, Promise!OneAccountCart
            <4> QED BY <4>1, <4>2
        <3>2. /\ states'[s] = "gone" /\ owners'[s] = "nobody"
              /\ keptLines'[s] = {} /\ keptSelected'[s] = {}
            <4>1. cart[s].orderId = None
                BY <1>6, <2>3 DEF CartOK, Active
            <4> QED BY <1>2, <1>7, <2>1, <4>1, WhatIsSeenNext
        <3>3. \A d \in Carts \ {s, t} :
                 /\ states'[d] = states[d] /\ owners'[d] = owners[d]
                 /\ keptLines'[d] = keptLines[d] /\ keptSelected'[d] = keptSelected[d]
            BY <1>3, <1>4, SeenAsBefore
        <3>4. /\ \A d \in Carts \ {s} : states'[d] = states[d] /\ owners'[d] = owners[d]
            BY <1>3, <2>2, <3>3
        <3>5. /\ states' = [states EXCEPT ![s] = "gone"]
              /\ owners' = [owners EXCEPT ![s] = "nobody"]
            BY <1>2, <3>2, <3>4, SeenIsFunctions, ChangedAt
        <3>6. /\ keptLines' = [keptLines EXCEPT ![t] = lines, ![s] = {}]
              /\ keptSelected' = [keptSelected EXCEPT ![t] = selected, ![s] = {}]
            BY <1>2, <1>3, <1>9, <2>2, <3>2, <3>3, SeenIsFunctions, ChangedAtTwo
        <3>7. Promise!Merge(s, t)
            BY <1>3, <1>4, <1>5, <3>1, <3>5, <3>6 DEF Promise!Merge, Promise!GiveUp
        <3> QED BY <1>2, <1>3, <3>7 DEF Promise!Next
    <2>4. CASE s \notin Active
        <3>1. /\ states'[s] = states[s] /\ owners'[s] = owners[s]
              /\ keptLines'[s] = keptLines[s] /\ keptSelected'[s] = keptSelected[s]
            <4>1. cart[s].status # "ACTIVE" /\ ~(s > created)
                BY <1>2, <1>4, <1>7, <2>4 DEF Active
            <4>2. states'[s] = states[s] /\ states[s] # "open"
                BY <1>2, <1>7, <2>1, <4>1, WhatIsSeen, WhatIsSeenNext
            <4> QED BY <1>2, <2>1, <4>2, WhatIsSeen, WhatIsSeenNext
        <3>2. \A d \in Carts \ {t} :
                 /\ states'[d] = states[d] /\ owners'[d] = owners[d]
                 /\ keptLines'[d] = keptLines[d] /\ keptSelected'[d] = keptSelected[d]
            BY <1>3, <1>4, <3>1, SeenAsBefore
        <3>3. /\ \A d \in Carts : states'[d] = states[d] /\ owners'[d] = owners[d]
            BY <1>3, <2>2, <3>2
        <3>4. states' = states /\ owners' = owners
            BY <3>3, SeenIsFunctions, ChangedNowhere
        <3>5. /\ keptLines' = [keptLines EXCEPT ![t] = lines]
              /\ keptSelected' = [keptSelected EXCEPT ![t] = selected]
            BY <1>3, <2>2, <3>2, SeenIsFunctions, ChangedAt
        <3>6. Promise!TakeIn(t)
            BY <1>3, <1>4, <1>5, <3>4, <3>5 DEF Promise!TakeIn, Promise!Change
        <3> QED BY <1>3, <3>6 DEF Promise!Next
    <2> QED BY <2>3, <2>4
<1> QED BY <1>8, <1>9

(* A request that reads, or ends, does nothing that is seen.                *)
LEMMA ReadsAreUnseen ==
    ASSUME UNCHANGED <<cart, created, orders>>
    PROVE  UNCHANGED Promise!vars
BY DEF states, owners, keptLines, keptSelected, Kept, Promise!vars

(* Every step is one of the promise.                                        *)
LEMMA StepIsPromised ==
    ASSUME CartsInv, AccountsOK, [CartsNext]_cartsVars
    PROVE  Promise!Next \/ UNCHANGED Promise!vars
<1>1. ASSUME NEW c \in Carts, deleteExpiredGuestCarts(c) PROVE Promise!Next
    BY <1>1, SweepIsPromised
<1>2. ASSUME NEW r \in CartRequests, NEW asCustomer \in BOOLEAN,
             \/ StartWrite(r, asCustomer)
             \/ \E c \in Carts : StartPlace(r, c, asCustomer)
      PROVE  UNCHANGED Promise!vars
    BY <1>2, ReadsAreUnseen DEF StartWrite, StartPlace
<1>3. ASSUME NEW r \in CartRequests,
             \/ StartAdopt(r) \/ ReadGuest(r) \/ ReadAccount(r)
             \/ NothingToAdopt(r) \/ CartRequestEnds(r)
      PROVE  UNCHANGED Promise!vars
    BY <1>3, ReadsAreUnseen
       DEF StartAdopt, ReadGuest, ReadAccount, NothingToAdopt, CartRequestEnds
<1>4. ASSUME NEW r \in CartRequests, NEW a \in Articles, addLine(r, a) PROVE Promise!Next
    BY <1>4, AddIsPromised
<1>5. ASSUME NEW r \in CartRequests,
             \/ setAllSelected(r) \/ clear(r)
             \/ \E a \in Articles : updateLine(r, a) \/ removeLine(r, a)
      PROVE  Promise!Next
    BY <1>5, EditIsPromised
<1>6. ASSUME NEW r \in CartRequests, createCart(r) PROVE Promise!Next
    BY <1>6, CreationIsPromised
<1>7. ASSUME NEW r \in CartRequests, place(r) PROVE Promise!Next
    BY <1>7, PlaceIsPromised
<1>8. ASSUME NEW r \in CartRequests, claimForCustomer(r)
      PROVE  Promise!Next \/ UNCHANGED Promise!vars
    BY <1>8, ClaimIsPromised
<1>9. ASSUME NEW r \in CartRequests, mergeInto(r) PROVE Promise!Next
    BY <1>9, MergeIsPromised
<1>10. CASE UNCHANGED cartsVars
    BY <1>10, ReadsAreUnseen DEF cartsVars
<1> QED BY <1>1, <1>2, <1>3, <1>4, <1>5, <1>6, <1>7, <1>8, <1>9, <1>10 DEF CartsNext

(* One account cart at a time: the promise itself keeps that.               *)
LEMMA OneAccountIsKept ==
    ASSUME Promise!OneAccountCart, Promise!Next \/ UNCHANGED Promise!vars
    PROVE  Promise!OneAccountCart'
<1> USE DEF Promise!Open, Promise!OneAccountCart
<1> USE SeenIsFunctions
<1>1. ASSUME states' = states, owners' = owners PROVE Promise!OneAccountCart'
    BY <1>1
<1>2. CASE UNCHANGED Promise!vars
    BY <1>1, <1>2 DEF Promise!vars
<1>3. ASSUME NEW c \in Carts, NEW newLines, NEW newChosen,
             Promise!Change(c, newLines, newChosen)
      PROVE  Promise!OneAccountCart'
    BY <1>1, <1>3 DEF Promise!Change
<1>4. ASSUME NEW c \in Carts,
             \/ \E a \in Articles : Promise!Add(c, a)
             \/ Promise!Choose(c) \/ Promise!Remove(c) \/ Promise!TakeIn(c)
      PROVE  Promise!OneAccountCart'
    BY <1>3, <1>4 DEF Promise!Add, Promise!Choose, Promise!Remove, Promise!TakeIn
<1>5. ASSUME NEW c \in Carts, NEW whose \in {"guest", "account"}, Promise!Start(c, whose)
      PROVE  Promise!OneAccountCart'
    BY <1>5 DEF Promise!Start, Promise!NoAccountCart
<1>6. ASSUME NEW c \in Carts, Promise!Claim(c) PROVE Promise!OneAccountCart'
    BY <1>6 DEF Promise!Claim, Promise!NoAccountCart
<1>7. ASSUME NEW c \in Carts, NEW x \in {"ordered", "gone"},
             states' = [states EXCEPT ![c] = x], owners' = [owners EXCEPT ![c] = "nobody"]
      PROVE  Promise!OneAccountCart'
    BY <1>7
<1>8. ASSUME NEW c \in Carts,
             Promise!BuyAll(c) \/ Promise!Sweep(c) \/ Promise!MergeIntoItself(c)
      PROVE  Promise!OneAccountCart'
    BY <1>7, <1>8
       DEF Promise!BuyAll, Promise!Sweep, Promise!MergeIntoItself, Promise!GiveUp
<1>9. ASSUME NEW c \in Carts, NEW s \in Carts, Promise!Merge(s, c)
      PROVE  Promise!OneAccountCart'
    BY <1>7, <1>9 DEF Promise!Merge, Promise!GiveUp
<1>10. ASSUME NEW c \in Carts, NEW n \in Carts, Promise!BuyChosen(c, n)
       PROVE  Promise!OneAccountCart'
    <2>1. /\ c # n
          /\ states' = [states EXCEPT ![c] = "ordered", ![n] = "open"]
          /\ owners' = [owners EXCEPT ![c] = "nobody", ![n] = owners[c]]
          /\ states[c] = "open"
        BY <1>10 DEF Promise!BuyChosen
    <2>2. /\ owners'[n] = owners[c] /\ owners'[c] = "nobody"
          /\ \A d \in Carts \ {c, n} : owners'[d] = owners[d] /\ states'[d] = states[d]
        BY <2>1
    <2> QED BY <2>1, <2>2
<1> QED BY <1>2, <1>4, <1>5, <1>6, <1>8, <1>9, <1>10 DEF Promise!Next

(* What is read as the customer's cart is the customer's.                   *)
LEMMA AccountsStayRead ==
    ASSUME CartsInv, AccountsWereRead, [CartsNext]_cartsVars
    PROVE  AccountsWereRead'
<1>1. ASSUME NEW r \in CartRequests, NEW q,
             cartRequest' = [cartRequest EXCEPT ![r] = q],
             q.account.id = None \/ q.account = cartRequest[r].account
             \/ q.account.ofCustomer
      PROVE  AccountsWereRead'
    <2> SUFFICES ASSUME NEW p \in CartRequests, cartRequest'[p].account.id # None
                 PROVE  cartRequest'[p].account.ofCustomer
        BY DEF AccountsWereRead
    <2> QED BY <1>1 DEF AccountsWereRead, CartsInv, RequestsOK
<1>2. Idle.account.id = None /\ Unread.id = None
    BY NoCartIsRow, UnreadIsRow DEF Idle
<1>3. ASSUME NEW r \in CartRequests, NEW t, HttpAnswer(r, t) PROVE AccountsWereRead'
    BY <1>1, <1>2, <1>3 DEF HttpAnswer
<1>4. CASE UNCHANGED cartsVars
    BY <1>4 DEF cartsVars, AccountsWereRead
<1>5. ASSUME NEW c \in Carts, deleteExpiredGuestCarts(c) PROVE AccountsWereRead'
    BY <1>5 DEF deleteExpiredGuestCarts, AccountsWereRead
<1>6. ASSUME NEW r \in CartRequests, NEW asCustomer \in BOOLEAN,
             \/ StartWrite(r, asCustomer)
             \/ \E c \in Carts : StartPlace(r, c, asCustomer)
      PROVE  AccountsWereRead'
    <2>1. ASSUME StartWrite(r, asCustomer) PROVE AccountsWereRead'
        <3> DEFINE found == IF asCustomer THEN findActiveByCustomer
                            ELSE findActiveByToken(browserToken)
                   q == [Idle EXCEPT !.at = "writing", !.asCustomer = asCustomer,
                                     !.guest = found]
        <3>1. cartRequest' = [cartRequest EXCEPT ![r] = q]
            BY <2>1 DEF StartWrite
        <3>2. q.account = Idle.account
            BY DEF Idle
        <3> HIDE DEF q
        <3> QED BY <1>1, <1>2, <3>1, <3>2
    <2>2. ASSUME NEW c \in Carts, StartPlace(r, c, asCustomer) PROVE AccountsWereRead'
        <3> DEFINE q == [Idle EXCEPT !.at = "placing", !.asCustomer = asCustomer,
                                     !.guest = cart[c]]
        <3>1. cartRequest' = [cartRequest EXCEPT ![r] = q]
            BY <2>2 DEF StartPlace
        <3>2. q.account = Idle.account
            BY DEF Idle
        <3> HIDE DEF q
        <3> QED BY <1>1, <1>2, <3>1, <3>2
    <2> QED BY <1>6, <2>1, <2>2
<1>7. ASSUME NEW r \in CartRequests, StartAdopt(r) PROVE AccountsWereRead'
    <2> DEFINE q == [at |-> "adopting", asCustomer |-> TRUE,
                     guest |-> [Unread EXCEPT !.token = browserToken], account |-> Unread]
    <2>1. cartRequest' = [cartRequest EXCEPT ![r] = q] /\ q.account = Unread
        BY <1>7 DEF StartAdopt
    <2> HIDE DEF q
    <2> QED BY <1>1, <1>2, <2>1
<1>8. ASSUME NEW r \in CartRequests, ReadGuest(r) PROVE AccountsWereRead'
    BY <1>8 DEF ReadGuest, AccountsWereRead, CartsInv, RequestsOK, RequestStates
<1>9. ASSUME NEW r \in CartRequests, ReadAccount(r) PROVE AccountsWereRead'
    <2> DEFINE q == [cartRequest[r] EXCEPT !.account = findActiveByCustomer]
    <2>1. cartRequest' = [cartRequest EXCEPT ![r] = q]
        BY <1>9 DEF ReadAccount
    <2>2. q.account = findActiveByCustomer
        BY DEF CartsInv, RequestsOK, RequestStates
    <2>3. findActiveByCustomer.id = None \/ findActiveByCustomer.ofCustomer
        BY AccountFound, NoCartIsRow DEF CartsInv
    <2> HIDE DEF q
    <2> QED BY <1>1, <2>1, <2>2, <2>3
<1>10. ASSUME NEW r \in CartRequests, createCart(r) PROVE AccountsWereRead'
    BY <1>10 DEF createCart, AccountsWereRead, CartsInv, RequestsOK, RequestStates
<1>11. ASSUME NEW r \in CartRequests, CartRequestEnds(r) PROVE AccountsWereRead'
    BY <1>1, <1>2, <1>11 DEF CartRequestEnds
<1>12. ASSUME NEW r \in CartRequests,
              \/ setAllSelected(r) \/ clear(r) \/ place(r)
              \/ \E a \in Articles : addLine(r, a) \/ updateLine(r, a) \/ removeLine(r, a)
              \/ NothingToAdopt(r) \/ claimForCustomer(r) \/ mergeInto(r)
       PROVE  AccountsWereRead'
    <2>1. \E t : HttpAnswer(r, t)
        BY <1>12 DEF setAllSelected, clear, place, addLine, updateLine, removeLine, Edit,
                     NothingToAdopt, claimForCustomer, mergeInto
    <2> QED BY <1>3, <2>1
<1> QED BY <1>4, <1>5, <1>6, <1>7, <1>8, <1>9, <1>10, <1>11, <1>12 DEF CartsNext

LEMMA AccountsInvariant == CartsSpec => [](CartsInv /\ AccountsOK)
<1>1. CartsInit => AccountsOK
    <2> SUFFICES ASSUME CartsInit PROVE AccountsOK
        OBVIOUS
    <2>1. CartsInv /\ TablesOK
        BY CartsStart DEF CartsInv
    <2>2. \A c \in Carts : cart[c].status = "NONE"
        <3>1. \A c \in Carts : [NoCart EXCEPT !.id = c].status = "NONE"
            BY NoCartIsRow DEF Rows
        <3> QED BY <3>1 DEF CartsInit
    <2>3. Promise!OneAccountCart
        BY <2>1, <2>2, OpenIsActive DEF Promise!OneAccountCart, Active
    <2>4. AccountsWereRead
        BY NoCartIsRow DEF CartsInit, AccountsWereRead, Idle
    <2> QED BY <2>3, <2>4 DEF AccountsOK
<1>2. CartsInv /\ AccountsOK /\ [CartsNext]_cartsVars => AccountsOK'
    BY StepIsPromised, OneAccountIsKept, AccountsStayRead DEF AccountsOK
<1> QED BY <1>1, <1>2, CartsInvariant, PTL DEF CartsSpec

(* The carts start as the promise does.                                     *)
LEMMA StartIsPromised == CartsInit => Promise!Init
<1> SUFFICES ASSUME CartsInit PROVE Promise!Init
    OBVIOUS
<1>1. \A c \in Carts : /\ cart[c].status = "NONE" /\ cart[c].orderId = None
                       /\ cart[c].items = {} /\ cart[c].selected = {} /\ c > created
    <2> DEFINE Empty(c) == [NoCart EXCEPT !.id = c]
    <2>1. \A c \in Carts : /\ Empty(c).status = "NONE" /\ Empty(c).orderId = None
                           /\ Empty(c).items = {} /\ Empty(c).selected = {}
        BY NoCartIsRow DEF Rows
    <2>2. cart = [c \in Carts |-> Empty(c)] /\ created = 0
        BY DEF CartsInit
    <2>3. \A c \in Carts : c > 0
        BY CartOrdersAssumption DEF Carts
    <2> HIDE DEF Empty
    <2> QED BY <2>1, <2>2, <2>3
<1>2. \A c \in Carts : /\ states[c] = "unborn" /\ owners[c] = "nobody"
                       /\ keptLines[c] = {} /\ keptSelected[c] = {}
    BY <1>1, WhatIsSeen
<1>3. orders = [c \in Carts |-> {}]
    BY DEF CartsInit
<1> QED BY <1>2, <1>3, SeenIsFunctions DEF Promise!Init

(* A customer has one active cart, whatever tabs, sign-ins and orders race  *)
(* (the unique index on customerId, and what each write asks of it).        *)
THEOREM OneCartPerAccount == CartsSpec => []Promise!OneAccountCart
<1>1. AccountsOK => Promise!OneAccountCart
    BY DEF AccountsOK
<1> QED BY <1>1, AccountsInvariant, PTL

(* Every step of CartService, OrdersService and CartRepository, from rows   *)
(* read some queries ago, is one of the carts as they are then: an order    *)
(* takes just what is chosen, leaves the rest to the same owner, and is not *)
(* written to again; a merge loses no line of the account's.                *)
THEOREM PurchasesAreKept == CartsSpec => KeepsPurchases
<1>1. CartsInv /\ AccountsOK /\ [CartsNext]_cartsVars => [Promise!Next]_(Promise!vars)
    BY StepIsPromised
<1> QED BY <1>1, StartIsPromised, AccountsInvariant, PTL
    DEF CartsSpec, KeepsPurchases, Promise!Spec
=============================================================================
