----------------------------- MODULE CartMirror -----------------------------
(***************************************************************************)
(* The browser's copy of the cart (apps/web/src/hooks/use-cart.ts), its     *)
(* queue of writes, and the two hooks that bring it into line: with the     *)
(* server (use-cart-sync.ts) and with who is signed in                      *)
(* (use-session-sync.ts).  One tab; the server's carts are the little of    *)
(* CartService it sees.  JavaScript runs one callback at a time, so a step  *)
(* is what runs between two awaits.  A reload, which forgets the queue, is  *)
(* left out; so are what a line says of its part, and lastWriteError, what   *)
(* a banner says of a write that failed.                                    *)
(***************************************************************************)
EXTENDS Integers, SequencesExt

CONSTANTS
    Parts, Users,
    MaxQuantity,   \* MAX_CART_LINE_QUANTITY
    MirrorLines,   \* MAX_CART_LINES
    MaxCartId,     \* bound: carts on the server
    MaxClicks,     \* bound: what the shopper does
    MaxSignIns,    \* bound: how often Clerk answers who is signed in
    MaxReads       \* bound: background reads, and writes of other devices

ASSUME MirrorAssumption ==
    /\ MaxQuantity \in Nat \ {0} /\ MirrorLines \in Nat
    /\ MaxCartId \in Nat /\ MaxClicks \in Nat /\ MaxSignIns \in Nat
    /\ MaxReads \in Nat
    /\ Parts # {} /\ IsFiniteSet(Users)
    /\ Users \intersect {"guest", "loading", "none", "merged"} = {}

VARIABLES
    carts,       \* the server's: whose each cart is, its version and lines
    token,       \* the guest token in localStorage: the id of its cart, or 0
    clerkUser,   \* who Clerk says is signed in
    mirror,      \* the store: lines, cartId, version, ownerId
    generation,  \* bumped by reset
    queue,       \* `chain`: writes not yet answered, the first being sent
    head,        \* where the first of them is
    pending,     \* the debounced write of each line; a `ticket` of 0: none
    joins,       \* the runs of joinSession, the newest last
    read,        \* the background read
    \* What has happened, for the properties and the bounds.
    clicks,      \* how many; a write is named after its click
    sessions, reads,
    guessing,    \* a write failed and the cart could not be read again
    forgotten    \* the mirror was reset for a sign-out

MirrorVars == <<carts, token, clerkUser, mirror, generation, queue, head, pending,
                joins, read, clicks, sessions, reads, guessing, forgotten>>
server == <<carts, token>>
who == <<clerkUser, sessions, joins, forgotten>>
writes == <<generation, queue, head, pending>>
background == <<read, reads>>

NoLine == [quantity |-> 0, isSelected |-> FALSE]
LinesType == [Parts -> [quantity : 0 .. MaxQuantity, isSelected : BOOLEAN]]
NoLines == [a \in Parts |-> NoLine]
HeldIn(lines) == {a \in Parts : lines[a] # NoLine}

(* What a request is answered with, a CartDto; EMPTY_CART has no id.        *)
Dto(i) == [id |-> i, version |-> carts[i].version, lines |-> carts[i].lines]
EmptyCart == [id |-> 0, version |-> 0, lines |-> NoLines]
Dtos == [id : 0 .. MaxCartId, version : Nat, lines : LinesType]

Kinds == {"add", "quantity", "select", "selectAll", "remove", "clear"}
Writes == [kind : Kinds, article : Parts, quantity : 0 .. MaxQuantity,
           isSelected : BOOLEAN, ticket : 0 .. MaxClicks,
           queuedIn : Nat, by : Users \union {"guest"}]
NoWrite == [kind |-> "clear", article |-> CHOOSE a \in Parts : TRUE,
            quantity |-> 0, isSelected |-> FALSE, ticket |-> 0, queuedIn |-> 0,
            by |-> "guest"]

HeadIdle == [at |-> "waiting", visitor |-> "guest", token |-> 0, minted |-> 0,
             waited |-> FALSE,   \* for Clerk, before it was sent
             cart |-> EmptyCart]
NoJoin == [at |-> "ended", user |-> "guest", aborted |-> TRUE, waits |-> {},
           cart |-> EmptyCart]
NoRead == [at |-> "idle", cart |-> EmptyCart]

(***************************************************************************)
(* The server, as one tab sees it.                                          *)
(***************************************************************************)
CartOf(visitor, guestToken) ==
    LET found == {i \in DOMAIN carts :
                    IF visitor \in Users THEN carts[i].owner = visitor
                    ELSE i = guestToken /\ carts[i].owner = "guest"}
    IN  IF found = {} THEN 0 ELSE CHOOSE i \in found : TRUE

CartAnswer(i) == IF i = 0 THEN EmptyCart ELSE Dto(i)

Clamp(q) == IF q > MaxQuantity THEN MaxQuantity ELSE q

(* A write's effect on the lines, on the server as in the mirror.           *)
Edited(lines, w) ==
    LET a == w.article IN
    CASE w.kind = "add" ->
           [lines EXCEPT ![a] = [quantity |-> Clamp(@.quantity + w.quantity),
                                 isSelected |-> TRUE]]
      [] w.kind = "remove" -> [lines EXCEPT ![a] = NoLine]
      [] w.kind = "clear" -> NoLines
      [] w.kind = "selectAll" ->
           [b \in Parts |-> IF lines[b] = NoLine THEN NoLine
                               ELSE [lines[b] EXCEPT !.isSelected = w.isSelected]]
      [] w.kind = "quantity" /\ a \in HeldIn(lines) ->
           [lines EXCEPT ![a].quantity = w.quantity]
      [] w.kind = "select" /\ a \in HeldIn(lines) ->
           [lines EXCEPT ![a].isSelected = w.isSelected]
      [] OTHER -> lines

HasRoomFor(lines, a) == a \in HeldIn(lines) \/ Cardinality(HeldIn(lines)) < MirrorLines

(* CART_FULL and CART_ITEM_NOT_FOUND.                                       *)
Refused(lines, w) ==
    \/ w.kind = "add" /\ ~HasRoomFor(lines, w.article)
    \/ w.kind \in {"quantity", "select"} /\ w.article \notin HeldIn(lines)

NextId == CHOOSE i \in DOMAIN carts : carts[i].owner = "none"
CanMint == \E i \in DOMAIN carts : carts[i].owner = "none"

(* The mutating routes: only an add mints a cart.                           *)
Applied(i, w) ==
    [carts EXCEPT ![i].lines = Edited(@, w), ![i].version = @ + 1]

(* CartService.adopt, as one transaction.  What no longer fits is dropped.  *)
Merged(lines, guestLines) ==
    {merged \in [Parts -> {NoLine} \union {[quantity |-> q, isSelected |-> s] :
                     q \in 1 .. MaxQuantity, s \in BOOLEAN}] :
       /\ Cardinality(HeldIn(merged)) <= MirrorLines
       /\ HeldIn(lines) \subseteq HeldIn(merged)
       /\ \A a \in HeldIn(merged) :
            merged[a] = [quantity |-> Clamp(lines[a].quantity + guestLines[a].quantity),
                         isSelected |-> lines[a].isSelected \/ guestLines[a].isSelected]}

(***************************************************************************)
(* The store.                                                               *)
(***************************************************************************)
(* Mutant of IsOlder: an answer of the version held is not taken.           *)
IsOlderOrSame(dto) == dto.id = mirror.cartId /\ dto.version <= mirror.version

IsOlder(dto) == dto.id = mirror.cartId /\ dto.version < mirror.version

adoptServerCart(dto, ownerId) ==
    IF IsOlder(dto)
      THEN UNCHANGED <<mirror, guessing>>
      ELSE /\ mirror' = [lines |-> dto.lines, cartId |-> dto.id, version |-> dto.version,
                         ownerId |-> ownerId]
           /\ guessing' = FALSE

EmptyMirror == [lines |-> NoLines, cartId |-> 0, version |-> 0,
                ownerId |-> "guest"]

Pending == {a \in Parts : pending[a].ticket # 0}
hasPendingWrite == queue # <<>> \/ Pending # {}

(* A click: the mirror changes at once.  It is of whose mirror that is.     *)
Click(kind, a, q, s) ==
    [kind |-> kind, article |-> a, quantity |-> q, isSelected |-> s,
     ticket |-> clicks + 1, queuedIn |-> generation,
     by |-> mirror.ownerId]

Paint(w) ==
    /\ clicks < MaxClicks /\ clicks' = clicks + 1
    /\ mirror' = [mirror EXCEPT !.lines = Edited(@, w)]

(* write.send, after the pending write of the same line was cancelled.      *)
Send(w, cancelled) ==
    /\ queue' = Append(queue, w)
    /\ pending' = [a \in Parts |-> IF a \in cancelled THEN NoWrite ELSE pending[a]]
    /\ UNCHANGED <<server, who, generation, head, background, guessing>>

addLineToMirror(a) ==
    LET w == Click("add", a, 1, TRUE) IN
    /\ HasRoomFor(mirror.lines, a)
    /\ Paint(w) /\ Send(w, {})

(* sendAfterPause: a second change within 400 ms replaces the first, whose  *)
(* `settled` nobody will resolve.  The stepper and the bin are a row's.     *)
setQuantity(a, q) ==
    LET w == Click("quantity", a, q, FALSE) IN
    /\ a \in HeldIn(mirror.lines)
    /\ Paint(w)
    /\ pending' = [pending EXCEPT ![a] = w]
    /\ UNCHANGED <<server, who, generation, queue, head, background, guessing>>

toggleLineSelected(a) ==
    LET w == Click("select", a, 0, ~mirror.lines[a].isSelected) IN
    /\ a \in HeldIn(mirror.lines)
    /\ Paint(w) /\ Send(w, {})

setAllLinesSelected(s) ==
    LET w == Click("selectAll", NoWrite.article, 0, s) IN Paint(w) /\ Send(w, {})

removeLineFromMirror(a) ==
    LET w == Click("remove", a, 0, FALSE) IN
    /\ a \in HeldIn(mirror.lines)
    /\ Paint(w) /\ Send(w, {a})

clearMirror == LET w == Click("clear", NoWrite.article, 0, FALSE) IN Paint(w) /\ Send(w, {})

(***************************************************************************)
(* The queue.                                                               *)
(***************************************************************************)
(* Mutant of isStale: a reset is not noticed.                               *)
neverStale == FALSE

isStale == queue[1].queuedIn # generation

QuietWhile(v) == UNCHANGED <<clerkUser, sessions, forgotten, background, clicks,
                             generation, pending, v>>

(* The write leaves the queue, and its promise resolves for who awaits it.  *)
Done ==
    /\ queue' = Tail(queue) /\ head' = HeadIdle
    /\ joins' = [i \in DOMAIN joins |->
                   [joins[i] EXCEPT !.waits = @ \ {queue[1].ticket}]]

(* The timeout of sendAfterPause fires.  The write is queued, in the        *)
(* generation of that moment.                                               *)
DebounceEnds(a) ==
    /\ a \in Pending
    /\ queue' = Append(queue, [pending[a] EXCEPT !.queuedIn = generation])
    /\ pending' = [pending EXCEPT ![a] = NoWrite]
    /\ UNCHANGED <<server, who, mirror, generation, head, background,
                   clicks, guessing>>

SkipStale ==
    /\ queue # <<>> /\ head.at = "waiting" /\ isStale
    /\ Done
    /\ QuietWhile(<<server, mirror, guessing>>)

(* cartFetch reads the token, then the session, for which it waits while    *)
(* Clerk loads; after five seconds the visitor is a guest.                  *)
SendHead ==
    /\ queue # <<>> /\ head.at = "waiting" /\ ~isStale
    /\ head' = [HeadIdle EXCEPT !.at = IF clerkUser = "loading" THEN "authenticating" ELSE "sent",
                                !.visitor = clerkUser, !.token = token,
                                !.waited = (clerkUser = "loading")]
    /\ QuietWhile(<<server, mirror, guessing, queue, joins>>)

ClerkAnswers ==
    /\ head.at = "authenticating"
    /\ head' = [head EXCEPT !.at = "sent",
                            !.visitor = IF clerkUser = "loading" THEN "guest" ELSE clerkUser]
    /\ QuietWhile(<<server, mirror, guessing, queue, joins>>)

(* The server answers, or the answer is lost.                               *)
ServerWrites ==
    LET w == queue[1]
        i == CartOf(head.visitor, head.token) IN
    /\ head.at = "sent" /\ ~Refused(CartAnswer(i).lines, w)
    /\ IF i # 0
         THEN carts' = Applied(i, w)
         ELSE IF w.kind # "add" THEN UNCHANGED carts
         ELSE /\ CanMint
              /\ carts' = [carts EXCEPT ![NextId] =
                   [owner |-> head.visitor, version |-> 1, lines |-> Edited(NoLines, w)]]
    /\ \/ head' = [head EXCEPT !.at = "answered",
              !.minted = IF i = 0 /\ w.kind = "add" /\ head.visitor = "guest"
                           THEN NextId ELSE 0,
              !.cart = LET j == IF i = 0 /\ w.kind = "add" THEN NextId ELSE i IN
                       IF j = 0 THEN EmptyCart
                       ELSE [id |-> j, version |-> carts'[j].version,
                             lines |-> carts'[j].lines]]
       \/ head' = [head EXCEPT !.at = "failed"]
    /\ UNCHANGED token
    /\ QuietWhile(<<mirror, guessing, queue, joins>>)

WriteFails ==
    /\ head.at = "sent"
    /\ head' = [head EXCEPT !.at = "failed"]
    /\ QuietWhile(<<server, mirror, guessing, queue, joins>>)

(* The token of the answer is kept whatever has happened meanwhile.         *)
WriteLands ==
    /\ head.at = "answered"
    /\ token' = IF head.minted # 0 THEN head.minted ELSE token
    /\ IF isStale THEN UNCHANGED <<mirror, guessing>>
       ELSE adoptServerCart(head.cart, mirror.ownerId)
    /\ Done
    /\ QuietWhile(carts)

hasCartToRead == token # 0 \/ clerkUser \in Users

(* recover, up to its first await: the write's error, or a read of the cart.*)
RecoverStarts ==
    /\ head.at = "failed"
    /\ \/ isStale /\ Done /\ UNCHANGED <<mirror, guessing>>
       \/ /\ ~isStale /\ ~hasCartToRead
          /\ guessing' = TRUE /\ Done /\ UNCHANGED mirror
       \/ /\ ~isStale /\ hasCartToRead
          /\ head' = [head EXCEPT !.at = "rereading", !.visitor = clerkUser, !.token = token]
          /\ UNCHANGED <<mirror, guessing, queue, joins>>
    /\ QuietWhile(server)

ServerRereads ==
    /\ head.at = "rereading"
    /\ head' = [head EXCEPT !.at = "reread", !.cart = CartAnswer(CartOf(head.visitor, head.token))]
    /\ QuietWhile(<<server, mirror, guessing, queue, joins>>)

(* The answer is adopted without asking again whether the write is stale.   *)
RecoverLands ==
    /\ head.at = "reread"
    /\ adoptServerCart(head.cart, mirror.ownerId)
    /\ Done
    /\ QuietWhile(server)

RecoverFails ==
    /\ head.at = "rereading"
    /\ guessing' = TRUE /\ Done
    /\ QuietWhile(<<server, mirror>>)

QueueStep ==
    \/ SkipStale \/ SendHead \/ ClerkAnswers \/ ServerWrites \/ WriteFails
    \/ WriteLands \/ RecoverStarts \/ ServerRereads \/ RecoverLands \/ RecoverFails

(***************************************************************************)
(* useSessionSync.                                                          *)
(***************************************************************************)
Without(seq, i) == RemoveAt(seq, i)

(* reset, and the cached read with it.                                      *)
forgetSession ==
    /\ mirror' = EmptyMirror /\ guessing' = FALSE
    /\ generation' = generation + 1
    /\ pending' = [a \in Parts |-> NoWrite]
    /\ read' = NoRead

(* The effect: another answer of Clerk's aborts the join under way.         *)
SessionChanges(who2) ==
    LET aborted == [i \in DOMAIN joins |-> [joins[i] EXCEPT !.aborted = TRUE]] IN
    /\ sessions < MaxSignIns /\ sessions' = sessions + 1
    /\ who2 # clerkUser /\ clerkUser' = who2
    /\ IF mirror.ownerId # "guest" /\ mirror.ownerId # who2
         THEN forgetSession /\ forgotten' = (who2 = "guest")
         ELSE /\ forgotten' = (forgotten /\ who2 = "guest")
              /\ UNCHANGED <<mirror, guessing, generation, pending, read>>
    /\ joins' = IF who2 = "guest" THEN aborted
                ELSE Append(aborted, [NoJoin EXCEPT !.at = "filing", !.user = who2,
                                                    !.aborted = FALSE])
    /\ UNCHANGED <<server, queue, head, reads, clicks>>

Quiet == UNCHANGED <<writes, background, clicks, clerkUser, sessions, forgotten>>

JoinBecomes(i, at) == joins' = [joins EXCEPT ![i].at = at]
JoinEnds(i) == joins' = Without(joins, i)

Tickets(seq) == {seq[k].ticket : k \in DOMAIN seq}

(* whenSettled: the debounced writes, as often as there are any, then those *)
(* in the chain.                                                            *)
AwaitWrites(i) ==
    joins' = [joins EXCEPT ![i].at = IF Pending # {} THEN "pausing" ELSE "draining",
                           ![i].waits = IF Pending # {}
                                          THEN {pending[a].ticket : a \in Pending}
                                          ELSE Tickets(queue)]

(* ensureCustomer has answered; a profile that cannot be filed ends it.     *)
CustomerFiled(i) ==
    /\ joins[i].at = "filing"
    /\ \/ joins[i].aborted /\ JoinEnds(i)
       \/ ~joins[i].aborted /\ token # 0 /\ AwaitWrites(i)
       \/ /\ ~joins[i].aborted /\ token = 0
          /\ IF mirror.ownerId # joins[i].user THEN JoinBecomes(i, "loading") ELSE JoinEnds(i)
    /\ Quiet /\ UNCHANGED <<server, mirror, guessing>>

WritesSettled(i) ==
    /\ joins[i].at \in {"pausing", "draining"} /\ joins[i].waits = {}
    /\ IF joins[i].at = "pausing" THEN AwaitWrites(i) ELSE JoinBecomes(i, "adopting")
    /\ Quiet /\ UNCHANGED <<server, mirror, guessing>>

(* POST /cart/adopt, as whoever is signed in by then.                       *)
ServerAdopts(i) ==
    LET guest == CartOf("guest", token)
        account == CartOf(clerkUser, 0) IN
    /\ joins[i].at = "adopting" /\ clerkUser \in Users
    /\ \/ guest = 0 /\ UNCHANGED carts
       \/ /\ guest # 0 /\ account = 0
          /\ carts' = [carts EXCEPT ![guest].owner = clerkUser, ![guest].version = @ + 1]
       \/ /\ guest # 0 /\ account # 0
          /\ \E lines \in Merged(carts[account].lines, carts[guest].lines) :
               carts' = [carts EXCEPT ![guest].owner = "merged",
                                      ![account].lines = lines, ![account].version = @ + 1]
    /\ joins' = [joins EXCEPT ![i].at = "adopted",
         ![i].cart = LET j == IF account = 0 THEN guest ELSE account IN
                     IF j = 0 THEN EmptyCart
                     ELSE [id |-> j, version |-> carts'[j].version, lines |-> carts'[j].lines]]
    /\ Quiet /\ UNCHANGED <<token, mirror, guessing>>

(* Mutant of MergeLands: the merge is taken whoever is signed in now.       *)
MergeLandsAnyway(i) ==
    /\ joins[i].at = "adopted"
    /\ token' = 0
    /\ adoptServerCart(joins[i].cart, joins[i].user)
    /\ JoinEnds(i)
    /\ Quiet /\ UNCHANGED carts

(* adoptMergedCart, unless aborted; the token goes either way.              *)
MergeLands(i) ==
    /\ joins[i].at = "adopted"
    /\ token' = 0
    /\ IF joins[i].aborted THEN UNCHANGED <<mirror, guessing>>
       ELSE adoptServerCart(joins[i].cart, joins[i].user)
    /\ JoinEnds(i)
    /\ Quiet /\ UNCHANGED carts

ServerLoads(i) ==
    /\ joins[i].at = "loading"
    /\ joins' = [joins EXCEPT ![i].at = "loaded", ![i].cart = CartAnswer(CartOf(clerkUser, token))]
    /\ Quiet /\ UNCHANGED <<server, mirror, guessing>>

(* loadAccountCart.                                                         *)
AccountCartLands(i) ==
    /\ joins[i].at = "loaded"
    /\ IF joins[i].aborted THEN UNCHANGED <<mirror, guessing>>
       ELSE adoptServerCart(joins[i].cart, joins[i].user)
    /\ JoinEnds(i)
    /\ Quiet /\ UNCHANGED server

(* A call of it fails: the next load of the page tries again.               *)
JoinFails(i) ==
    /\ joins[i].at \in {"filing", "adopting", "loading"}
    /\ JoinEnds(i)
    /\ Quiet /\ UNCHANGED <<server, mirror, guessing>>

JoinStep(i) ==
    \/ CustomerFiled(i) \/ WritesSettled(i) \/ ServerAdopts(i) \/ MergeLands(i)
    \/ ServerLoads(i) \/ AccountCartLands(i)

(***************************************************************************)
(* useCartSync, and the account's other devices.                            *)
(***************************************************************************)
NoWriteChanges == UNCHANGED <<writes, who, clicks>>

BackgroundRead ==
    /\ reads < MaxReads /\ read.at = "idle" /\ clerkUser # "loading"
    /\ read' = [at |-> "answered", cart |-> CartAnswer(CartOf(clerkUser, token))]
    /\ reads' = reads + 1
    /\ NoWriteChanges /\ UNCHANGED <<server, mirror, guessing>>

isClaimPending == token # 0 /\ clerkUser \in Users

MayAdoptRead == ~hasPendingWrite /\ ~isClaimPending

ReadLands ==
    /\ read.at = "answered"
    /\ IF MayAdoptRead THEN adoptServerCart(read.cart, mirror.ownerId)
       ELSE UNCHANGED <<mirror, guessing>>
    /\ read' = NoRead
    /\ NoWriteChanges /\ UNCHANGED <<server, reads>>

ReadFails ==
    /\ read.at = "answered"
    /\ read' = NoRead
    /\ NoWriteChanges /\ UNCHANGED <<server, mirror, guessing, reads>>

OtherDevice(i, a) ==
    /\ reads < MaxReads /\ carts[i].owner \in Users
    /\ carts' = [carts EXCEPT ![i].version = @ + 1,
                              ![i].lines[a] = IF @ = NoLine
                                THEN [quantity |-> 1, isSelected |-> TRUE] ELSE NoLine]
    /\ Cardinality(HeldIn(carts'[i].lines)) <= MirrorLines
    /\ reads' = reads + 1
    /\ NoWriteChanges /\ UNCHANGED <<token, mirror, read, guessing>>

(***************************************************************************)
(* A page load: the mirror is what localStorage kept, of a guest or of an   *)
(* account, and Clerk may not have answered.  A cart there is holds a line. *)
(***************************************************************************)
AStoredLine == [NoLines EXCEPT ![CHOOSE a \in Parts : TRUE] =
                  [quantity |-> 1, isSelected |-> TRUE]]

Loaded(held) ==
    [i \in 1 .. MaxCartId |->
       IF i \in DOMAIN held
         THEN [owner |-> held[i], version |-> 1, lines |-> AStoredLine]
         ELSE [owner |-> "none", version |-> 0, lines |-> NoLines]]

MirrorInit ==
    /\ \E owners \in SUBSET (Users \union {"guest"}) :
         /\ Cardinality(owners) <= MaxCartId
         /\ carts = Loaded(SetToSeq(owners))
    /\ \E owner \in Users \union {"guest"} :
         /\ owner \in Users => CartOf(owner, 0) # 0
         /\ LET i == CHOOSE k \in 0 .. MaxCartId :
                       IF \E c \in DOMAIN carts : carts[c].owner = owner
                         THEN k # 0 /\ carts[k].owner = owner ELSE k = 0 IN
            /\ token = IF owner = "guest" THEN i ELSE 0
            /\ mirror = [lines |-> CartAnswer(i).lines, cartId |-> i,
                         version |-> CartAnswer(i).version, ownerId |-> owner]
            /\ clerkUser \in {"loading"} \union {s \in {owner} : s = "guest"}
    /\ sessions = 0 /\ joins = <<>> /\ forgotten = FALSE
    /\ generation = 0 /\ queue = <<>> /\ head = HeadIdle
    /\ pending = [a \in Parts |-> NoWrite]
    /\ read = NoRead /\ reads = 0 /\ clicks = 0 /\ guessing = FALSE

Shopper ==
    \/ \E a \in Parts :
         \/ addLineToMirror(a) \/ toggleLineSelected(a) \/ removeLineFromMirror(a)
         \/ \E q \in 1 .. MaxQuantity : setQuantity(a, q)
    \/ \E s \in BOOLEAN : setAllLinesSelected(s)
    \/ clearMirror

MirrorNext ==
    \/ Shopper
    \/ \E a \in Parts : DebounceEnds(a)
    \/ QueueStep
    \/ \E u \in Users \union {"guest"} : SessionChanges(u)
    \/ \E i \in DOMAIN joins : JoinStep(i) \/ JoinFails(i)
    \/ BackgroundRead \/ ReadLands \/ ReadFails
    \/ \E i \in DOMAIN carts, a \in Parts : OtherDevice(i, a)

MirrorSpec == MirrorInit /\ [][MirrorNext]_MirrorVars

(* Timers fire, the server answers or fails, and the callbacks run.         *)
MirrorFairness ==
    /\ \A a \in Parts : WF_MirrorVars(DebounceEnds(a))
    /\ WF_MirrorVars(QueueStep)
    /\ WF_MirrorVars(\E i \in DOMAIN joins : JoinStep(i))

MirrorFairSpec == MirrorSpec /\ MirrorFairness

(***************************************************************************)
(* Properties.                                                              *)
(***************************************************************************)

(* Every variable has its type.                                             *)
MirrorTypeOK ==
    /\ carts \in [1 .. MaxCartId -> [owner : Users \union {"none", "guest", "merged"},
                                     version : Nat, lines : LinesType]]
    /\ token \in 0 .. MaxCartId
    /\ clerkUser \in Users \union {"guest", "loading"}
    /\ mirror \in [lines : LinesType, cartId : 0 .. MaxCartId, version : Nat,
                   ownerId : Users \union {"guest"}]
    /\ generation \in Nat
    /\ queue \in Seq(Writes) /\ pending \in [Parts -> Writes]
    /\ head \in [at : {"waiting", "authenticating", "sent", "answered", "failed",
                       "rereading", "reread"},
                 visitor : Users \union {"guest", "loading"}, token : 0 .. MaxCartId,
                 minted : 0 .. MaxCartId, waited : BOOLEAN, cart : Dtos]
    /\ joins \in Seq([at : {"filing", "pausing", "draining", "adopting", "adopted",
                            "loading", "loaded"},
                      user : Users, aborted : BOOLEAN, waits : SUBSET (1 .. MaxClicks),
                      cart : Dtos])
    /\ read \in [at : {"idle", "answered"}, cart : Dtos]
    /\ clicks \in 0 .. MaxClicks
    /\ sessions \in 0 .. MaxSignIns /\ reads \in 0 .. MaxReads
    /\ guessing \in BOOLEAN /\ forgotten \in BOOLEAN

(* A cart is ordered by its version, so a mirror at rest that holds the     *)
(* server's version of a cart shows the server's lines of it: no            *)
(* optimistic line outlives the answers, whichever of the writes, the       *)
(* background read and the sign-in's reads lands last.  Only a write that   *)
(* failed while the cart could not be read again leaves a guess on screen.  *)
VersionTellsLines ==
    ~hasPendingWrite /\ ~guessing
      => \/ mirror.cartId = 0 /\ mirror.lines = NoLines
         \/ /\ mirror.cartId # 0
            /\ carts[mirror.cartId].version = mirror.version
               => mirror.lines = carts[mirror.cartId].lines

(* "A write made for the previous owner neither goes out nor lands"         *)
(* (use-cart.ts): a click on an account's mirror, the one a page load found *)
(* stored too, changes only that account's cart.  Not so of one write, the  *)
(* one at the head while Clerk still loads: isStale was asked before its    *)
(* request, which then waits for Clerk, so a reset no longer stops it and   *)
(* it goes out as whoever Clerk answers, or as a guest after five seconds.  *)
WrittenByItsOwner ==
    [][\A i \in DOMAIN carts :
         /\ head.at = "sent" /\ carts'[i] # carts[i] /\ head' # head
         /\ queue[1].by \in Users
         => \/ carts'[i].owner = queue[1].by
            \/ head.waited /\ head.visitor # queue[1].by]_MirrorVars

(* The mirror is never an account's other than the one signed in, however   *)
(* late the answers of an earlier session land.                             *)
MirrorIsOfTheSession ==
    clerkUser # "loading" => mirror.ownerId \in {"guest", clerkUser}

(* docs/CART.md: "A write still in flight is discarded when it answers, so  *)
(* the account's lines cannot come back on a device that no longer belongs  *)
(* to anyone."  Refuted: the cart a failed write re-reads is not discarded. *)
ForgottenStaysForgotten ==
    forgotten /\ mirror.cartId # 0 => carts[mirror.cartId].owner \notin Users

(* use-cart.ts: "Resolves once every queued write has been sent and         *)
(* answered."  Refuted: a debounced write that is replaced while a sign-in  *)
(* waits for it never settles.                                              *)
WhenSettledResolves ==
    \A i \in 1 .. MaxSignIns :
      (i \in DOMAIN joins /\ joins[i].at \in {"pausing", "draining"})
        ~> (i \notin DOMAIN joins \/ joins[i].at \notin {"pausing", "draining"})
==============================================================================
