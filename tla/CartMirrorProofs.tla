-------------------------- MODULE CartMirrorProofs --------------------------
(***************************************************************************)
(* Proofs about CartMirror, for any parts and accounts, any number of       *)
(* carts, clicks, sign-ins and reads: a write goes to its owner's cart      *)
(* unless it waited for Clerk and Clerk answered another, the mirror is of  *)
(* who is signed in, and at rest it shows the cart it names.                *)
(***************************************************************************)
EXTENDS CartMirror, FiniteSetTheorems, SequenceTheorems, TLAPS

Visitors == Users \union {"guest", "loading"}
Carts == [1 .. MaxCartId -> [owner : Users \union {"none", "guest", "merged"},
                             version : Nat, lines : LinesType]]
Mirrors == [lines : LinesType, cartId : 0 .. MaxCartId, version : Nat,
            ownerId : Users \union {"guest"}]
Heads == [at : {"waiting", "authenticating", "sent", "answered", "failed",
                "rereading", "reread"},
          visitor : Visitors, token : 0 .. MaxCartId, minted : 0 .. MaxCartId,
          waited : BOOLEAN, cart : Dtos]
Joins == [at : {"filing", "pausing", "draining", "adopting", "adopted", "loading", "loaded"},
          user : Users, aborted : BOOLEAN, waits : SUBSET (1 .. MaxClicks), cart : Dtos]

(* A version tells the lines: what is held of a cart is no later than the   *)
(* cart, and of its very version it is its lines.                           *)
Tells(now, id, version, lines) ==
    IF id = 0 THEN lines = NoLines
    ELSE now[id].version = version => lines = now[id].lines

NoLater(now, id, version) ==
    IF id = 0 THEN version = 0 ELSE version <= now[id].version

IsAnswerOf(now, dto) ==
    NoLater(now, dto.id, dto.version) /\ Tells(now, dto.id, dto.version, dto.lines)

Clean == Tells(carts, mirror.cartId, mirror.version, mirror.lines)

(* A join not aborted is of who is signed in.                               *)
JoinsOf(now, user) ==
    {j \in Joins : IsAnswerOf(now, j.cart) /\ (~j.aborted => j.user = user)}

(* The mirror a write of an account's was made on, while it is not stale,   *)
(* is its own, and who is signed in is that account or not known yet.       *)
OfSession(w, user, owner) ==
    w.by \in Users => user \in {w.by, "loading"} /\ owner = w.by

QueuedOf(current, user, owner) ==
    {w \in Writes : /\ w.ticket # 0 /\ w.queuedIn <= current
                    /\ w.queuedIn = current => OfSession(w, user, owner)}

PendingOf(user, owner) == {w \in Writes : OfSession(w, user, owner)}

(* Whatever the server does, a cart changes with its version.               *)
Grown(old, new) ==
    \A i \in 1 .. MaxCartId :
      /\ old[i].version <= new[i].version
      /\ new[i].version = old[i].version => new[i].lines = old[i].lines

ServerOK ==
    /\ carts \in Carts /\ token \in 0 .. MaxCartId
    /\ \A i \in 1 .. MaxCartId : carts[i].owner = "none" => carts[i].version = 0

SessionOK ==
    /\ clerkUser \in Visitors /\ sessions \in 0 .. MaxSignIns /\ forgotten \in BOOLEAN
    /\ joins \in Seq(JoinsOf(carts, clerkUser))

MirrorOK ==
    /\ mirror \in Mirrors /\ guessing \in BOOLEAN
    /\ NoLater(carts, mirror.cartId, mirror.version)
    /\ MirrorIsOfTheSession

WritesOK ==
    /\ generation \in Nat /\ clicks \in 0 .. MaxClicks
    /\ queue \in Seq(QueuedOf(generation, clerkUser, mirror.ownerId))
    /\ pending \in [Parts -> PendingOf(clerkUser, mirror.ownerId)]

(* What is sent for an account's click is sent as that account, unless it   *)
(* waited for Clerk.                                                        *)
HeadOK ==
    /\ head \in Heads /\ IsAnswerOf(carts, head.cart)
    /\ head.at # "waiting" => queue # <<>>
    /\ head.at = "authenticating" => head.waited
    /\ head.at = "sent" => head.visitor # "loading"
    /\ head.at = "sent" /\ queue[1].by \in Users
         => head.visitor = queue[1].by \/ head.waited

ReadOK ==
    /\ read \in [at : {"idle", "answered"}, cart : Dtos] /\ IsAnswerOf(carts, read.cart)
    /\ reads \in 0 .. MaxReads

(* What was painted ahead of the server is followed by a write, and the     *)
(* answer to the last one will be taken.                                    *)
GuessesAreFollowed ==
    \/ Clean \/ guessing \/ Pending # {}
    \/ /\ queue # <<>> /\ queue[Len(queue)].queuedIn = generation
       /\ Len(queue) = 1 /\ head.at \in {"answered", "reread"} => ~IsOlder(head.cart)

MirrorInv ==
    /\ ServerOK /\ SessionOK /\ MirrorOK /\ WritesOK /\ HeadOK /\ ReadOK
    /\ GuessesAreFollowed

-----------------------------------------------------------------------------
(* What the operators return.                                               *)
LEMMA SomePart == (CHOOSE a \in Parts : TRUE) \in Parts
BY MirrorAssumption

LEMMA Empties ==
    /\ NoLines \in LinesType /\ EmptyCart \in Dtos /\ HeadIdle \in Heads
    /\ NoWrite \in Writes /\ NoWrite.ticket = 0 /\ NoWrite.by \notin Users
    /\ EmptyMirror \in Mirrors
    /\ NoRead \in [at : {"idle", "answered"}, cart : Dtos]
    /\ \A now : IsAnswerOf(now, EmptyCart)
<1>1. 0 \in 0 .. MaxQuantity /\ 0 \in 0 .. MaxCartId /\ 0 \in 0 .. MaxClicks
    BY MirrorAssumption
<1>2. NoLines \in LinesType
    BY <1>1 DEF NoLines, NoLine, LinesType
<1>3. EmptyCart \in Dtos
    BY <1>1, <1>2 DEF EmptyCart, Dtos
<1>4. HeadIdle \in Heads
    BY <1>1, <1>3 DEF HeadIdle, Heads, Visitors
<1>5. NoWrite \in Writes /\ NoWrite.ticket = 0 /\ NoWrite.by \notin Users
    BY <1>1, SomePart, MirrorAssumption DEF NoWrite, Writes, Kinds
<1>6. EmptyMirror \in Mirrors
    BY <1>1, <1>2 DEF EmptyMirror, Mirrors
<1>7. NoRead \in [at : {"idle", "answered"}, cart : Dtos]
    BY <1>3 DEF NoRead
<1>8. \A now : IsAnswerOf(now, EmptyCart)
    BY DEF IsAnswerOf, NoLater, Tells, EmptyCart
<1> QED BY <1>2, <1>3, <1>4, <1>5, <1>6, <1>7, <1>8

LEMMA EditedType ==
    ASSUME NEW lines \in LinesType, NEW w \in Writes
    PROVE  Edited(lines, w) \in LinesType
<1> USE MirrorAssumption DEF LinesType
<1>1. /\ w.article \in Parts /\ w.quantity \in 0 .. MaxQuantity /\ w.isSelected \in BOOLEAN
      /\ w.kind \in Kinds
    BY DEF Writes
<1>2. CASE w.kind = "add"
  <2>1. lines[w.article].quantity + w.quantity \in Nat
      BY <1>1
  <2>2. Clamp(lines[w.article].quantity + w.quantity) \in 0 .. MaxQuantity
      BY <2>1 DEF Clamp
  <2>3. Edited(lines, w) =
          [lines EXCEPT ![w.article] =
             [quantity |-> Clamp(lines[w.article].quantity + w.quantity), isSelected |-> TRUE]]
      BY <1>1, <1>2 DEF Edited
  <2> QED BY <1>1, <2>2, <2>3
<1>3. CASE w.kind = "remove"
  <2>1. NoLine \in [quantity : 0 .. MaxQuantity, isSelected : BOOLEAN]
      BY DEF NoLine
  <2>2. Edited(lines, w) = [lines EXCEPT ![w.article] = NoLine]
      BY <1>3 DEF Edited
  <2> QED BY <1>1, <2>1, <2>2
<1>4. CASE w.kind = "clear"
    BY <1>4, Empties DEF Edited
<1>5. CASE w.kind = "selectAll"
  <2>1. \A b \in Parts : [lines[b] EXCEPT !.isSelected = w.isSelected]
                            \in [quantity : 0 .. MaxQuantity, isSelected : BOOLEAN]
      BY <1>1
  <2>2. NoLine \in [quantity : 0 .. MaxQuantity, isSelected : BOOLEAN]
      BY DEF NoLine
  <2> QED BY <1>5, <2>1, <2>2 DEF Edited
<1> USE DEF HeldIn
<1>6. CASE w.kind \in {"quantity", "select"} /\ lines[w.article] = NoLine
    BY <1>6 DEF Edited
<1>7. CASE w.kind = "quantity" /\ lines[w.article] # NoLine
  <2>1. [lines[w.article] EXCEPT !.quantity = w.quantity]
          \in [quantity : 0 .. MaxQuantity, isSelected : BOOLEAN]
      BY <1>1
  <2>2. Edited(lines, w) =
          [lines EXCEPT ![w.article] = [lines[w.article] EXCEPT !.quantity = w.quantity]]
      BY <1>1, <1>7 DEF Edited
  <2> QED BY <1>1, <2>1, <2>2
<1>8. CASE w.kind = "select" /\ lines[w.article] # NoLine
  <2>1. [lines[w.article] EXCEPT !.isSelected = w.isSelected]
          \in [quantity : 0 .. MaxQuantity, isSelected : BOOLEAN]
      BY <1>1
  <2>2. Edited(lines, w) =
          [lines EXCEPT ![w.article] = [lines[w.article] EXCEPT !.isSelected = w.isSelected]]
      BY <1>1, <1>8 DEF Edited
  <2> QED BY <1>1, <2>1, <2>2
<1> QED BY <1>1, <1>2, <1>3, <1>4, <1>5, <1>6, <1>7, <1>8 DEF Kinds

LEMMA CartOfType ==
    ASSUME carts \in Carts, NEW visitor, NEW guestToken
    PROVE  /\ CartOf(visitor, guestToken) \in 0 .. MaxCartId
           /\ CartOf(visitor, guestToken) # 0 /\ visitor \in Users
                => carts[CartOf(visitor, guestToken)].owner = visitor
           /\ CartOf(visitor, guestToken) # 0 /\ visitor \notin Users
                => carts[CartOf(visitor, guestToken)].owner = "guest"
<1> DEFINE found == {i \in DOMAIN carts :
                       IF visitor \in Users THEN carts[i].owner = visitor
                       ELSE i = guestToken /\ carts[i].owner = "guest"}
<1>1. found \subseteq 1 .. MaxCartId
    BY DEF Carts
<1>2. CASE found = {}
    BY <1>2, MirrorAssumption DEF CartOf
<1>3. CASE found # {}
  <2>1. CartOf(visitor, guestToken) = CHOOSE i \in found : TRUE
      BY <1>3 DEF CartOf
  <2>2. CartOf(visitor, guestToken) \in found
      BY <1>3, <2>1
  <2>3. 1 .. MaxCartId \subseteq 0 .. MaxCartId /\ 0 \notin 1 .. MaxCartId
      BY MirrorAssumption
  <2> QED BY <1>1, <2>2, <2>3
<1> QED BY <1>2, <1>3

(* What the server answers is true of the cart when it answers.             *)
LEMMA CartAnswerType ==
    ASSUME carts \in Carts, NEW i \in 0 .. MaxCartId
    PROVE  CartAnswer(i) \in Dtos /\ IsAnswerOf(carts, CartAnswer(i))
<1>1. CASE i = 0
    BY <1>1, Empties DEF CartAnswer
<1>2. CASE i # 0
  <2>1. i \in 1 .. MaxCartId
      BY <1>2, MirrorAssumption
  <2>2. carts[i].version \in Nat /\ carts[i].lines \in LinesType
      BY <2>1 DEF Carts
  <2> QED BY <1>2, <2>1, <2>2 DEF CartAnswer, Dto, Dtos, IsAnswerOf, NoLater, Tells
<1> QED BY <1>1, <1>2

LEMMA NextIdType ==
    ASSUME carts \in Carts, CanMint
    PROVE  NextId \in 1 .. MaxCartId /\ carts[NextId].owner = "none"
BY DEF CanMint, NextId, Carts

(* What was true of a cart stays true as it changes.                        *)
LEMMA AnswersStand ==
    ASSUME NEW old \in Carts, NEW new \in Carts, Grown(old, new),
           NEW id \in 0 .. MaxCartId, NEW version \in Nat, NEW lines,
           NoLater(old, id, version)
    PROVE  /\ NoLater(new, id, version)
           /\ Tells(old, id, version, lines) => Tells(new, id, version, lines)
<1>1. CASE id = 0
    BY <1>1 DEF NoLater, Tells
<1>2. CASE id # 0
  <2>1. id \in 1 .. MaxCartId
      BY <1>2, MirrorAssumption
  <2>2. old[id].version \in Nat /\ new[id].version \in Nat
      BY <2>1 DEF Carts
  <2>3. version <= old[id].version /\ old[id].version <= new[id].version
      BY <1>2, <2>1 DEF NoLater, Grown
  <2>4. new[id].version = version => old[id].version = version
      BY <2>2, <2>3
  <2> QED BY <1>2, <2>1, <2>2, <2>3, <2>4 DEF NoLater, Tells, Grown
<1> QED BY <1>1, <1>2

LEMMA GrownAnswer ==
    ASSUME NEW old \in Carts, NEW new \in Carts, Grown(old, new), NEW dto \in Dtos,
           IsAnswerOf(old, dto)
    PROVE  IsAnswerOf(new, dto)
<1>1. dto.id \in 0 .. MaxCartId /\ dto.version \in Nat
    BY DEF Dtos
<1> QED BY <1>1, AnswersStand DEF IsAnswerOf

LEMMA UnchangedGrows == ASSUME NEW old \in Carts PROVE Grown(old, old)
BY DEF Grown, Carts

-----------------------------------------------------------------------------
(* The parts of the invariant a step may leave alone.                       *)

(* Carts that grow leave what is known of them true.                        *)
LEMMA CartsGrow ==
    ASSUME MirrorInv, ServerOK', Grown(carts, carts')
    PROVE  /\ IsAnswerOf(carts', head.cart) /\ IsAnswerOf(carts', read.cart)
           /\ NoLater(carts', mirror.cartId, mirror.version)
           /\ Clean => Tells(carts', mirror.cartId, mirror.version, mirror.lines)
           /\ \A user : JoinsOf(carts, user) \subseteq JoinsOf(carts', user)
<1>1. carts \in Carts /\ carts' \in Carts
    BY DEF MirrorInv, ServerOK
<1>2. head.cart \in Dtos /\ IsAnswerOf(carts, head.cart)
    BY DEF MirrorInv, HeadOK, Heads
<1>3. read.cart \in Dtos /\ IsAnswerOf(carts, read.cart)
    BY DEF MirrorInv, ReadOK
<1>4. /\ mirror.cartId \in 0 .. MaxCartId /\ mirror.version \in Nat
      /\ NoLater(carts, mirror.cartId, mirror.version)
    BY DEF MirrorInv, MirrorOK, Mirrors
<1>5. ASSUME NEW user, NEW j \in JoinsOf(carts, user)
      PROVE  j \in JoinsOf(carts', user)
  <2>1. j.cart \in Dtos /\ IsAnswerOf(carts, j.cart)
      BY DEF JoinsOf, Joins
  <2>2. IsAnswerOf(carts', j.cart)
      BY <1>1, <2>1, GrownAnswer
  <2> QED BY <2>2 DEF JoinsOf
<1>6. IsAnswerOf(carts', head.cart) /\ IsAnswerOf(carts', read.cart)
    BY <1>1, <1>2, <1>3, GrownAnswer
<1>7. /\ NoLater(carts', mirror.cartId, mirror.version)
      /\ Clean => Tells(carts', mirror.cartId, mirror.version, mirror.lines)
    BY <1>1, <1>4, AnswersStand DEF Clean
<1> QED BY <1>5, <1>6, <1>7

(* A write is queued behind the others.                                     *)
LEMMA QueuedLast ==
    ASSUME NEW S, NEW seq \in Seq(S), NEW w \in S
    PROVE  /\ Append(seq, w) \in Seq(S) /\ Append(seq, w) # <<>>
           /\ Append(seq, w)[Len(Append(seq, w))] = w
           /\ seq # <<>> => Append(seq, w)[1] = seq[1]
           /\ Len(Append(seq, w)) = 1 => seq = <<>>
<1>1. Len(seq) \in Nat /\ (seq # <<>> => Len(seq) # 0)
    OBVIOUS
<1>2. /\ Append(seq, w) \in Seq(S) /\ Append(seq, w) # <<>>
      /\ Len(Append(seq, w)) = Len(seq) + 1
      /\ \A i \in 1 .. Len(seq) : Append(seq, w)[i] = seq[i]
      /\ Append(seq, w)[Len(seq) + 1] = w
    BY AppendProperties
<1>3. seq # <<>> => 1 \in 1 .. Len(seq)
    BY <1>1
<1> QED BY <1>1, <1>2, <1>3

LEMMA AppendKeeps ==
    ASSUME MirrorInv, NEW w \in QueuedOf(generation, clerkUser, mirror.ownerId),
           w.queuedIn = generation,
           queue' = Append(queue, w), UNCHANGED <<carts, head, generation>>
    PROVE  /\ queue' \in Seq(QueuedOf(generation, clerkUser, mirror.ownerId))
           /\ HeadOK' /\ GuessesAreFollowed'
<1> DEFINE S == QueuedOf(generation, clerkUser, mirror.ownerId)
<1>1. queue \in Seq(S)
    BY DEF MirrorInv, WritesOK
<1> HIDE DEF S
<1>2. w \in S
    BY DEF S
<1>3. /\ queue' \in Seq(S) /\ queue' # <<>> /\ queue'[Len(queue')] = w
      /\ queue # <<>> => queue'[1] = queue[1]
      /\ Len(queue') = 1 => queue = <<>>
    BY <1>1, <1>2, QueuedLast
<1>4. head.at # "waiting" => queue # <<>> /\ queue'[1] = queue[1]
    BY <1>3 DEF MirrorInv, HeadOK
<1>5. HeadOK'
    BY <1>3, <1>4 DEF MirrorInv, HeadOK
<1>6. Len(queue') = 1 => head.at = "waiting"
    BY <1>3, <1>4
<1>7. GuessesAreFollowed'
    BY <1>3, <1>6 DEF GuessesAreFollowed
<1> QED BY <1>3, <1>5, <1>7 DEF S

-----------------------------------------------------------------------------
(* The shopper.                                                             *)
LEMMA ClickType ==
    ASSUME MirrorInv, clicks < MaxClicks, NEW kind \in Kinds, NEW a \in Parts,
           NEW q \in 0 .. MaxQuantity, NEW s \in BOOLEAN
    PROVE  /\ Click(kind, a, q, s) \in QueuedOf(generation, clerkUser, mirror.ownerId)
           /\ Click(kind, a, q, s) \in PendingOf(clerkUser, mirror.ownerId)
           /\ Click(kind, a, q, s) \in Writes
           /\ Click(kind, a, q, s).queuedIn = generation
           /\ Click(kind, a, q, s).ticket # 0
<1> DEFINE w == Click(kind, a, q, s)
<1>1. /\ clicks + 1 \in 0 .. MaxClicks /\ clicks + 1 # 0 /\ generation \in Nat
      /\ generation <= generation
    BY MirrorAssumption DEF MirrorInv, WritesOK
<1>2. mirror.ownerId \in Users \union {"guest"}
    BY DEF MirrorInv, MirrorOK, Mirrors
<1>3. w \in Writes /\ w.queuedIn = generation /\ w.ticket = clicks + 1
    BY <1>1, <1>2 DEF Click, Writes
<1>4. w.by \in Users => clerkUser \in {w.by, "loading"} /\ mirror.ownerId = w.by
    BY MirrorAssumption DEF Click, MirrorInv, MirrorOK, MirrorIsOfTheSession
<1> HIDE DEF w
<1>5. /\ w \in QueuedOf(generation, clerkUser, mirror.ownerId)
      /\ w \in PendingOf(clerkUser, mirror.ownerId)
    BY <1>1, <1>3, <1>4 DEF QueuedOf, PendingOf, OfSession
<1> QED BY <1>1, <1>3, <1>5 DEF w

LEMMA PaintKeeps ==
    ASSUME MirrorInv, NEW w \in Writes, Paint(w), UNCHANGED <<carts, clerkUser, guessing>>
    PROVE  MirrorOK' /\ clicks' \in 0 .. MaxClicks /\ mirror'.ownerId = mirror.ownerId
<1>1. mirror \in Mirrors /\ mirror' = [mirror EXCEPT !.lines = Edited(mirror.lines, w)]
    BY DEF MirrorInv, MirrorOK, Paint
<1>2. Edited(mirror.lines, w) \in LinesType
    BY <1>1, EditedType DEF Mirrors
<1>3. /\ mirror' \in Mirrors /\ mirror'.ownerId = mirror.ownerId
      /\ mirror'.cartId = mirror.cartId /\ mirror'.version = mirror.version
    BY <1>1, <1>2 DEF Mirrors
<1>4. clicks' \in 0 .. MaxClicks
    BY MirrorAssumption DEF Paint, MirrorInv, WritesOK
<1> QED BY <1>3, <1>4 DEF MirrorInv, MirrorOK, MirrorIsOfTheSession

(* What did not look at the write, the mirror and the queue.                *)
LEMMA ElsewhereKeeps ==
    ASSUME MirrorInv, UNCHANGED <<server, who, background>>
    PROVE  ServerOK' /\ SessionOK' /\ ReadOK'
BY DEF MirrorInv, ServerOK, SessionOK, ReadOK, server, who, background

LEMMA SendKeeps ==
    ASSUME MirrorInv, NEW cancelled,
           NEW w \in QueuedOf(generation, clerkUser, mirror.ownerId),
           w.queuedIn = generation, Paint(w), Send(w, cancelled)
    PROVE  MirrorInv'
<1>1. /\ queue' = Append(queue, w)
      /\ pending' = [a \in Parts |-> IF a \in cancelled THEN NoWrite ELSE pending[a]]
      /\ UNCHANGED <<server, who, generation, head, background, guessing>>
      /\ UNCHANGED <<carts, clerkUser>>
    BY DEF Send, server, who
<1>2. w \in Writes
    BY DEF QueuedOf
<1>3. MirrorOK' /\ clicks' \in 0 .. MaxClicks /\ mirror'.ownerId = mirror.ownerId
    BY <1>1, <1>2, PaintKeeps
<1>4. /\ queue' \in Seq(QueuedOf(generation, clerkUser, mirror.ownerId))
      /\ HeadOK' /\ GuessesAreFollowed'
    BY <1>1, AppendKeeps
<1>5. NoWrite \in PendingOf(clerkUser, mirror.ownerId)
    BY Empties DEF PendingOf, OfSession
<1>6. pending' \in [Parts -> PendingOf(clerkUser, mirror.ownerId)]
    BY <1>1, <1>5 DEF MirrorInv, WritesOK
<1>7. WritesOK'
    BY <1>1, <1>3, <1>4, <1>6 DEF MirrorInv, WritesOK
<1> QED BY <1>1, <1>3, <1>4, <1>7, ElsewhereKeeps DEF MirrorInv

LEMMA SetQuantityKeeps ==
    ASSUME MirrorInv, NEW a \in Parts, NEW q \in 0 .. MaxQuantity, setQuantity(a, q)
    PROVE  MirrorInv'
<1> DEFINE w == Click("quantity", a, q, FALSE)
<1>1. /\ Paint(w) /\ pending' = [pending EXCEPT ![a] = w]
      /\ UNCHANGED <<server, who, generation, queue, head, background, guessing>>
      /\ UNCHANGED <<carts, clerkUser>>
    BY DEF setQuantity, server, who
<1>2. /\ w \in PendingOf(clerkUser, mirror.ownerId) /\ w \in Writes
      /\ w.queuedIn = generation /\ w.ticket # 0
    BY <1>1, ClickType DEF Paint, Kinds
<1> HIDE DEF w
<1>3. MirrorOK' /\ clicks' \in 0 .. MaxClicks /\ mirror'.ownerId = mirror.ownerId
    BY <1>1, <1>2, PaintKeeps
<1>4. pending \in [Parts -> PendingOf(clerkUser, mirror.ownerId)]
    BY DEF MirrorInv, WritesOK
<1>5. /\ pending' \in [Parts -> PendingOf(clerkUser, mirror.ownerId)]
      /\ pending'[a] = w
    BY <1>1, <1>2, <1>4
<1>6. WritesOK'
    BY <1>1, <1>3, <1>5 DEF MirrorInv, WritesOK
<1>7. HeadOK'
    BY <1>1 DEF MirrorInv, HeadOK
<1>8. a \in Pending'
    BY <1>2, <1>5 DEF Pending
<1>9. GuessesAreFollowed'
    BY <1>8 DEF GuessesAreFollowed
<1> QED BY <1>1, <1>3, <1>6, <1>7, <1>9, ElsewhereKeeps DEF MirrorInv

LEMMA ShopperKeeps ==
    ASSUME MirrorInv, Shopper
    PROVE  MirrorInv'
<1>1. ASSUME NEW kind \in Kinds, NEW a \in Parts, NEW q \in 0 .. MaxQuantity,
             NEW s \in BOOLEAN, NEW cancelled,
             Paint(Click(kind, a, q, s)), Send(Click(kind, a, q, s), cancelled)
      PROVE  MirrorInv'
  <2>1. clicks < MaxClicks
      BY <1>1 DEF Paint
  <2> QED BY <1>1, <2>1, ClickType, SendKeeps
<1>2. /\ 0 \in 0 .. MaxQuantity /\ 1 \in 0 .. MaxQuantity /\ NoWrite.article \in Parts
      /\ 1 .. MaxQuantity \subseteq 0 .. MaxQuantity
    BY MirrorAssumption, SomePart DEF NoWrite
<1>3. ASSUME NEW a \in Parts, addLineToMirror(a)
      PROVE  MirrorInv'
    BY <1>1, <1>2, <1>3 DEF addLineToMirror, Kinds
<1>4. ASSUME NEW a \in Parts, toggleLineSelected(a)
      PROVE  MirrorInv'
  <2>1. (~mirror.lines[a].isSelected) \in BOOLEAN
      BY DEF MirrorInv, MirrorOK, Mirrors, LinesType
  <2> QED BY <1>1, <1>2, <1>4, <2>1 DEF toggleLineSelected, Kinds
<1>5. ASSUME NEW a \in Parts, removeLineFromMirror(a)
      PROVE  MirrorInv'
    BY <1>1, <1>2, <1>5 DEF removeLineFromMirror, Kinds
<1>6. ASSUME NEW s \in BOOLEAN, setAllLinesSelected(s)
      PROVE  MirrorInv'
    BY <1>1, <1>2, <1>6 DEF setAllLinesSelected, Kinds
<1>7. ASSUME clearMirror
      PROVE  MirrorInv'
    BY <1>1, <1>2, <1>7 DEF clearMirror, Kinds
<1> QED BY <1>2, <1>3, <1>4, <1>5, <1>6, <1>7, SetQuantityKeeps DEF Shopper

LEMMA DebounceKeeps ==
    ASSUME MirrorInv, NEW a \in Parts, DebounceEnds(a)
    PROVE  MirrorInv'
<1> DEFINE w == [pending[a] EXCEPT !.queuedIn = generation]
<1>1. /\ queue' = Append(queue, w) /\ pending' = [pending EXCEPT ![a] = NoWrite]
      /\ pending[a].ticket # 0
      /\ UNCHANGED <<server, who, mirror, generation, head, background, clicks, guessing>>
      /\ UNCHANGED <<carts, clerkUser>>
    BY DEF DebounceEnds, Pending, server, who
<1>2. /\ pending \in [Parts -> PendingOf(clerkUser, mirror.ownerId)]
      /\ generation \in Nat /\ generation <= generation
    BY DEF MirrorInv, WritesOK
<1>3. pending[a] \in Writes /\ OfSession(pending[a], clerkUser, mirror.ownerId)
    BY <1>2 DEF PendingOf
<1>4. /\ w \in Writes /\ w.queuedIn = generation /\ w.ticket # 0
      /\ w.by = pending[a].by
    BY <1>1, <1>2, <1>3 DEF Writes
<1> HIDE DEF w
<1>5. w \in QueuedOf(generation, clerkUser, mirror.ownerId)
    BY <1>2, <1>3, <1>4 DEF QueuedOf, OfSession
<1>6. /\ queue' \in Seq(QueuedOf(generation, clerkUser, mirror.ownerId))
      /\ HeadOK' /\ GuessesAreFollowed'
    BY <1>1, <1>4, <1>5, AppendKeeps
<1>7. NoWrite \in PendingOf(clerkUser, mirror.ownerId)
    BY Empties DEF PendingOf, OfSession
<1>8. WritesOK'
    BY <1>1, <1>2, <1>6, <1>7 DEF MirrorInv, WritesOK
<1>9. MirrorOK'
    BY <1>1 DEF MirrorInv, MirrorOK, MirrorIsOfTheSession
<1> QED BY <1>1, <1>6, <1>8, <1>9, ElsewhereKeeps DEF MirrorInv

-----------------------------------------------------------------------------
(* An answer is taken, unless it is older than what the mirror holds.       *)
LEMMA AdoptKeeps ==
    ASSUME MirrorInv, NEW dto \in Dtos, IsAnswerOf(carts, dto),
           NEW owner \in Users \union {"guest"},
           clerkUser # "loading" => owner \in {"guest", clerkUser},
           adoptServerCart(dto, owner), UNCHANGED <<carts, clerkUser>>
    PROVE  /\ MirrorOK'
           /\ \/ IsOlder(dto) /\ UNCHANGED <<mirror, guessing>>
              \/ Clean' /\ mirror'.ownerId = owner
<1>1. CASE IsOlder(dto)
    BY <1>1 DEF adoptServerCart, MirrorInv, MirrorOK, MirrorIsOfTheSession
<1>2. CASE ~IsOlder(dto)
  <2>1. /\ mirror' = [lines |-> dto.lines, cartId |-> dto.id, version |-> dto.version,
                      ownerId |-> owner]
        /\ guessing' = FALSE
      BY <1>2 DEF adoptServerCart
  <2>2. mirror' \in Mirrors /\ guessing' \in BOOLEAN
      BY <2>1 DEF Dtos, Mirrors
  <2>3. MirrorOK' /\ Clean' /\ mirror'.ownerId = owner
      BY <2>1, <2>2 DEF MirrorOK, MirrorIsOfTheSession, IsAnswerOf, Clean
  <2> QED BY <2>3
<1> QED BY <1>1, <1>2

(* The owner of the mirror after an answer is taken for it.                 *)
LEMMA AdoptAsOwner ==
    ASSUME MirrorInv, NEW dto \in Dtos, IsAnswerOf(carts, dto),
           adoptServerCart(dto, mirror.ownerId), UNCHANGED <<carts, clerkUser>>
    PROVE  /\ MirrorOK' /\ mirror'.ownerId = mirror.ownerId
           /\ \/ IsOlder(dto) /\ UNCHANGED <<mirror, guessing>>
              \/ Clean'
<1>1. /\ mirror.ownerId \in Users \union {"guest"}
      /\ clerkUser # "loading" => mirror.ownerId \in {"guest", clerkUser}
    BY DEF MirrorInv, MirrorOK, Mirrors, MirrorIsOfTheSession
<1>2. /\ MirrorOK'
      /\ \/ IsOlder(dto) /\ UNCHANGED <<mirror, guessing>>
         \/ Clean' /\ mirror'.ownerId = mirror.ownerId
    BY <1>1, AdoptKeeps
<1> QED BY <1>2

LEMMA TailOfQueue ==
    ASSUME NEW S, NEW seq \in Seq(S), seq # <<>>
    PROVE  /\ Tail(seq) \in Seq(S) /\ seq[1] \in S
           /\ Len(seq) # 1 => /\ Tail(seq) # <<>>
                              /\ Tail(seq)[Len(Tail(seq))] = seq[Len(seq)]
<1>1. Len(seq) \in Nat /\ Len(seq) # 0
    OBVIOUS
<1>2. Tail(seq) \in Seq(S) /\ Len(Tail(seq)) = Len(seq) - 1
      /\ \A i \in 1 .. Len(Tail(seq)) : Tail(seq)[i] = seq[i + 1]
    BY HeadTailProperties
<1>3. seq[1] \in S
    BY <1>1
<1>4. ASSUME Len(seq) # 1
      PROVE  Tail(seq) # <<>> /\ Tail(seq)[Len(Tail(seq))] = seq[Len(seq)]
  <2>1. Len(Tail(seq)) # 0 /\ Len(Tail(seq)) \in 1 .. Len(Tail(seq))
      BY <1>1, <1>2, <1>4
  <2>2. Tail(seq)[Len(Tail(seq))] = seq[Len(Tail(seq)) + 1]
      BY <1>2, <2>1
  <2>3. Len(Tail(seq)) + 1 = Len(seq)
      BY <1>1, <1>2
  <2>4. Tail(seq)[Len(Tail(seq))] = seq[Len(seq)]
      BY ONLY <2>2, <2>3
  <2>5. Tail(seq) # <<>>
      BY <1>2, <2>1, EmptySeq
  <2> QED BY <2>4, <2>5
<1> QED BY <1>2, <1>3, <1>4

(* A settled write is awaited no more.                                      *)
LEMMA DoneJoins ==
    ASSUME MirrorInv, Done
    PROVE  joins' \in Seq(JoinsOf(carts, clerkUser))
<1> DEFINE S == JoinsOf(carts, clerkUser)
<1>1. joins \in Seq(S)
    BY DEF MirrorInv, SessionOK
<1>2. ASSUME NEW j \in S, NEW x
      PROVE  [j EXCEPT !.waits = @ \ {x}] \in S
    BY DEF JoinsOf, Joins
<1> HIDE DEF S
<1>3. Len(joins) \in Nat /\ DOMAIN joins = 1 .. Len(joins) /\ \A i \in DOMAIN joins : joins[i] \in S
    BY <1>1
<1>4. joins' = [i \in 1 .. Len(joins) |-> [joins[i] EXCEPT !.waits = @ \ {queue[1].ticket}]]
    BY <1>3 DEF Done
<1>5. joins' \in [1 .. Len(joins) -> S]
    BY <1>2, <1>3, <1>4
<1>6. joins' \in Seq(S)
    BY <1>3, <1>5, SeqDef
<1> QED BY <1>6 DEF S

(* A write leaves the queue.  If what was painted ahead of the server rests *)
(* on it alone, its answer is on screen, or nothing could be read.          *)
LEMMA DoneKeeps ==
    ASSUME MirrorInv, queue # <<>>, Done, ServerOK', UNCHANGED <<carts>>,
           UNCHANGED <<clerkUser, sessions, forgotten, background, clicks, generation, pending>>,
           MirrorOK', mirror'.ownerId = mirror.ownerId,
           \/ Clean' \/ guessing'
           \/ /\ UNCHANGED <<mirror, guessing>>
              /\ \/ isStale
                 \/ head.at \in {"answered", "reread"} /\ IsOlder(head.cart)
    PROVE  MirrorInv'
<1>1. queue' = Tail(queue) /\ head' = HeadIdle
    BY DEF Done
<1>2. queue \in Seq(QueuedOf(generation, clerkUser, mirror.ownerId))
    BY DEF MirrorInv, WritesOK
<1>3. /\ queue' \in Seq(QueuedOf(generation, clerkUser, mirror.ownerId))
      /\ Len(queue) # 1 => queue' # <<>> /\ queue'[Len(queue')] = queue[Len(queue)]
    BY <1>1, <1>2, TailOfQueue
<1>4. WritesOK'
    BY <1>3 DEF MirrorInv, WritesOK
<1>5. SessionOK'
    BY DoneJoins DEF MirrorInv, SessionOK
<1>6. HeadOK'
    BY <1>1, Empties DEF HeadOK, HeadIdle
<1>7. ReadOK'
    BY DEF MirrorInv, ReadOK, background
<1>8. GuessesAreFollowed'
  <2>1. CASE Clean' \/ guessing'
      BY <2>1 DEF GuessesAreFollowed
  <2>2. CASE /\ UNCHANGED <<mirror, guessing>>
             /\ \/ isStale
                \/ head.at \in {"answered", "reread"} /\ IsOlder(head.cart)
    <3>1. CASE Clean \/ guessing \/ Pending # {}
        BY <2>2, <3>1 DEF GuessesAreFollowed, Clean, Pending
    <3>2. CASE /\ queue # <<>> /\ queue[Len(queue)].queuedIn = generation
               /\ Len(queue) = 1 /\ head.at \in {"answered", "reread"} => ~IsOlder(head.cart)
      <4>1. Len(queue) # 1
          BY <2>2, <3>2 DEF isStale
      <4>2. head'.at = "waiting"
          BY <1>1 DEF HeadIdle
      <4> QED BY <1>3, <3>2, <4>1, <4>2 DEF GuessesAreFollowed
    <3> QED BY <3>1, <3>2 DEF MirrorInv, GuessesAreFollowed
  <2> QED BY <2>1, <2>2
<1> QED BY <1>4, <1>5, <1>6, <1>7, <1>8 DEF MirrorInv

(* The first write goes a step further, the cart perhaps with it.           *)
LEMMA HeadMovesKeeps ==
    ASSUME MirrorInv, ServerOK', Grown(carts, carts'), HeadOK',
           UNCHANGED <<queue, joins, mirror, guessing>>,
           UNCHANGED <<clerkUser, sessions, forgotten, background, clicks, generation, pending>>,
           head'.at \in {"answered", "reread"} => ~IsOlder(head'.cart)
    PROVE  MirrorInv'
<1>1. SessionOK'
  <2>1. JoinsOf(carts, clerkUser) \subseteq JoinsOf(carts', clerkUser)
      BY CartsGrow
  <2> QED BY <2>1, SeqMonotonic, ElementOfSeq DEF MirrorInv, SessionOK
<1>2. MirrorOK'
    BY CartsGrow DEF MirrorInv, MirrorOK, MirrorIsOfTheSession
<1>3. WritesOK'
    BY DEF MirrorInv, WritesOK
<1>4. ReadOK'
    BY CartsGrow DEF MirrorInv, ReadOK, background
<1>5. GuessesAreFollowed'
  <2>1. IsOlder(head.cart)' <=> IsOlder(head'.cart)
      BY DEF IsOlder
  <2>2. Pending' = Pending /\ (Clean => Clean')
      BY CartsGrow DEF Pending, Clean
  <2> QED BY <2>1, <2>2 DEF MirrorInv, GuessesAreFollowed
<1> QED BY <1>1, <1>2, <1>3, <1>4, <1>5 DEF MirrorInv

-----------------------------------------------------------------------------
(* The queue's steps.                                                       *)

LEMMA HeadIsTyped ==
    ASSUME MirrorInv
    PROVE  /\ head \in Heads /\ IsAnswerOf(carts, head.cart) /\ head.cart \in Dtos
           /\ carts \in Carts /\ token \in 0 .. MaxCartId /\ clerkUser \in Visitors
           /\ mirror \in Mirrors /\ generation \in Nat
BY DEF MirrorInv, HeadOK, Heads, ServerOK, SessionOK, MirrorOK, WritesOK

(* The first write is stale, or of who is signed in.                        *)
LEMMA FirstOfSession ==
    ASSUME MirrorInv, queue # <<>>
    PROVE  /\ queue[1] \in Writes /\ queue[1].ticket # 0
           /\ ~isStale => OfSession(queue[1], clerkUser, mirror.ownerId)
<1> DEFINE S == QueuedOf(generation, clerkUser, mirror.ownerId)
<1>1. queue \in Seq(S)
    BY DEF MirrorInv, WritesOK
<1> HIDE DEF S
<1>2. queue[1] \in S
    BY <1>1, TailOfQueue
<1> QED BY <1>2 DEF S, QueuedOf, isStale

LEMMA SkipStaleKeeps ==
    ASSUME MirrorInv, SkipStale
    PROVE  MirrorInv'
<1>1. /\ queue # <<>> /\ isStale /\ Done
      /\ UNCHANGED <<clerkUser, sessions, forgotten, background, clicks, generation, pending>>
      /\ UNCHANGED <<server, mirror, guessing>> /\ UNCHANGED <<carts>>
    BY DEF SkipStale, QuietWhile, server
<1>2. ServerOK' /\ MirrorOK'
    BY <1>1 DEF MirrorInv, ServerOK, MirrorOK, MirrorIsOfTheSession, server
<1> QED BY <1>1, <1>2, DoneKeeps

LEMMA SendHeadKeeps ==
    ASSUME MirrorInv, SendHead
    PROVE  MirrorInv'
<1>1. /\ queue # <<>> /\ ~isStale
      /\ head' = [HeadIdle EXCEPT
                    !.at = IF clerkUser = "loading" THEN "authenticating" ELSE "sent",
                    !.visitor = clerkUser, !.token = token,
                    !.waited = (clerkUser = "loading")]
      /\ UNCHANGED <<clerkUser, sessions, forgotten, background, clicks, generation, pending>>
      /\ UNCHANGED <<server, mirror, guessing, queue, joins>>
    BY DEF SendHead, QuietWhile
<1>2. ServerOK' /\ Grown(carts, carts')
    BY <1>1, UnchangedGrows DEF MirrorInv, ServerOK, server
<1>3. /\ HeadIdle \in Heads /\ clerkUser \in Visitors /\ token \in 0 .. MaxCartId
      /\ carts' = carts
    BY <1>1, Empties, HeadIsTyped DEF server
<1>4. /\ head' \in Heads /\ head'.cart = EmptyCart /\ head'.visitor = clerkUser
      /\ head'.at = IF clerkUser = "loading" THEN "authenticating" ELSE "sent"
      /\ clerkUser = "loading" => head'.waited
    BY <1>1, <1>3 DEF Heads, HeadIdle
<1>5. OfSession(queue[1], clerkUser, mirror.ownerId)
    BY <1>1, FirstOfSession
<1>6. HeadOK'
    BY <1>1, <1>4, <1>5, Empties, MirrorAssumption DEF HeadOK, OfSession
<1> QED BY <1>1, <1>2, <1>4, <1>6, HeadMovesKeeps

LEMMA ClerkAnswersKeeps ==
    ASSUME MirrorInv, ClerkAnswers
    PROVE  MirrorInv'
<1>1. /\ head.at = "authenticating"
      /\ head' = [head EXCEPT !.at = "sent",
                    !.visitor = IF clerkUser = "loading" THEN "guest" ELSE clerkUser]
      /\ UNCHANGED <<clerkUser, sessions, forgotten, background, clicks, generation, pending>>
      /\ UNCHANGED <<server, mirror, guessing, queue, joins>>
    BY DEF ClerkAnswers, QuietWhile
<1>2. ServerOK' /\ Grown(carts, carts') /\ carts' = carts
    BY <1>1, UnchangedGrows DEF MirrorInv, ServerOK, server
<1>3. head' \in Heads /\ head'.cart = head.cart /\ head'.at = "sent"
    BY <1>1, HeadIsTyped DEF Heads, Visitors
<1>4. HeadOK'
    BY <1>1, <1>2, <1>3 DEF MirrorInv, HeadOK
<1> QED BY <1>1, <1>2, <1>3, <1>4, HeadMovesKeeps

(* The answer to a request: as fresh as what the mirror holds.              *)
AnswerOf(now, j) ==
    IF j = 0 THEN EmptyCart ELSE [id |-> j, version |-> now[j].version, lines |-> now[j].lines]

LEMMA FreshAnswer ==
    ASSUME MirrorInv, NEW now \in Carts, Grown(carts, now), NEW j \in 0 .. MaxCartId
    PROVE  /\ AnswerOf(now, j) \in Dtos /\ IsAnswerOf(now, AnswerOf(now, j))
           /\ ~IsOlder(AnswerOf(now, j))
<1>1. /\ carts \in Carts /\ mirror.version \in Nat
      /\ NoLater(carts, mirror.cartId, mirror.version)
    BY DEF MirrorInv, ServerOK, MirrorOK, Mirrors
<1>2. CASE j = 0
    BY <1>1, <1>2, Empties DEF AnswerOf, EmptyCart, IsOlder, NoLater
<1>3. CASE j # 0
  <2>1. j \in 1 .. MaxCartId
      BY <1>3, MirrorAssumption
  <2>2. now[j].version \in Nat /\ now[j].lines \in LinesType /\ carts[j].version \in Nat
      BY <1>1, <2>1 DEF Carts
  <2>3. AnswerOf(now, j) = [id |-> j, version |-> now[j].version, lines |-> now[j].lines]
      BY <1>3 DEF AnswerOf
  <2>4. AnswerOf(now, j) \in Dtos /\ IsAnswerOf(now, AnswerOf(now, j))
      BY <1>3, <2>1, <2>2, <2>3 DEF Dtos, IsAnswerOf, NoLater, Tells
  <2>5. carts[j].version <= now[j].version
      BY <2>1 DEF Grown
  <2>6. ~IsOlder(AnswerOf(now, j))
      BY <1>1, <1>3, <2>2, <2>3, <2>5 DEF IsOlder, NoLater
  <2> QED BY <2>4, <2>6
<1> QED BY <1>2, <1>3

(* One cart changes, its version with it.                                   *)
LEMMA CartChanges ==
    ASSUME ServerOK, NEW j \in 1 .. MaxCartId,
           NEW c \in [owner : Users \union {"none", "guest", "merged"},
                      version : Nat, lines : LinesType],
           carts[j].version < c.version, c.owner # "none"
    PROVE  LET now == [carts EXCEPT ![j] = c] IN
           /\ now \in Carts /\ Grown(carts, now)
           /\ \A i \in 1 .. MaxCartId : now[i].owner = "none" => now[i].version = 0
<1> DEFINE now == [carts EXCEPT ![j] = c]
<1>1. carts \in Carts
    BY DEF ServerOK
<1>2. now \in Carts /\ now[j] = c /\ \A i \in 1 .. MaxCartId : i # j => now[i] = carts[i]
    BY <1>1 DEF Carts
<1> HIDE DEF now
<1>3. \A i \in 1 .. MaxCartId : carts[i].version \in Nat
    BY <1>1 DEF Carts
<1>4. Grown(carts, now)
    BY <1>2, <1>3 DEF Grown
<1>5. \A i \in 1 .. MaxCartId : now[i].owner = "none" => now[i].version = 0
    BY <1>2 DEF ServerOK
<1> QED BY <1>2, <1>4, <1>5 DEF now

LEMMA RecordWith ==
    ASSUME NEW O, NEW L, NEW r \in [owner : O, version : Nat, lines : L], NEW l \in L, NEW v \in Nat
    PROVE  [r EXCEPT !.lines = l, !.version = v] \in [owner : O, version : Nat, lines : L]
OBVIOUS

LEMMA AppliedCart ==
    ASSUME MirrorInv, NEW i \in 1 .. MaxCartId, NEW w \in Writes
    PROVE  LET c == [carts[i] EXCEPT !.lines = Edited(carts[i].lines, w),
                                     !.version = carts[i].version + 1] IN
           /\ Applied(i, w) = [carts EXCEPT ![i] = c]
           /\ c \in [owner : Users \union {"none", "guest", "merged"},
                     version : Nat, lines : LinesType]
           /\ carts[i].version < c.version /\ c.owner = carts[i].owner
<1> DEFINE c == [carts[i] EXCEPT !.lines = Edited(carts[i].lines, w),
                                 !.version = carts[i].version + 1]
<1>1. carts \in Carts
    BY DEF MirrorInv, ServerOK
<1>2. carts[i] \in [owner : Users \union {"none", "guest", "merged"},
                    version : Nat, lines : LinesType]
    BY <1>1 DEF Carts
<1>3. Edited(carts[i].lines, w) \in LinesType
    BY <1>2, EditedType
<1>4. Applied(i, w) = [carts EXCEPT ![i] = c]
    BY <1>1 DEF Applied, Carts
<1>5. c \in [owner : Users \union {"none", "guest", "merged"},
             version : Nat, lines : LinesType]
  <2>1. carts[i].version + 1 \in Nat
      BY <1>2
  <2> QED BY ONLY <1>2, <1>3, <2>1, RecordWith
<1>6. carts[i].version < c.version /\ c.owner = carts[i].owner
    BY <1>2
<1> QED BY <1>4, <1>5, <1>6

(* The write changes a cart and its version, or mints a cart; an account's  *)
(* changes the account's.                                                   *)
LEMMA ServerWritesGrows ==
    ASSUME MirrorInv, ServerWrites
    PROVE  /\ ServerOK' /\ Grown(carts, carts')
           /\ \A i \in 1 .. MaxCartId :
                carts'[i] # carts[i] /\ head.visitor \in Users
                  => carts'[i].owner = head.visitor
<1> DEFINE w == queue[1]
           i == CartOf(head.visitor, head.token)
<1>1. /\ carts \in Carts /\ head.at = "sent" /\ queue # <<>>
      /\ head.visitor \in Users \union {"guest"}
    BY HeadIsTyped DEF ServerWrites, MirrorInv, HeadOK, Heads, Visitors
<1>2. w \in Writes /\ UNCHANGED token /\ ServerOK
    BY <1>1, FirstOfSession DEF ServerWrites, MirrorInv
<1>3. /\ i \in 0 .. MaxCartId
      /\ i # 0 /\ head.visitor \in Users => carts[i].owner = head.visitor
      /\ i # 0 /\ head.visitor \notin Users => carts[i].owner = "guest"
    BY <1>1, CartOfType
<1>4. \/ i # 0 /\ carts' = Applied(i, w)
      \/ i = 0 /\ UNCHANGED carts
      \/ /\ i = 0 /\ CanMint
         /\ carts' = [carts EXCEPT ![NextId] =
              [owner |-> head.visitor, version |-> 1, lines |-> Edited(NoLines, w)]]
    BY DEF ServerWrites
<1> HIDE DEF w, i
<1>5. CASE i # 0 /\ carts' = Applied(i, w)
  <2> DEFINE c == [carts[i] EXCEPT !.lines = Edited(carts[i].lines, w),
                                   !.version = carts[i].version + 1]
  <2>1. i \in 1 .. MaxCartId /\ carts[i].owner # "none"
      BY <1>1, <1>3, <1>5, MirrorAssumption
  <2>2. /\ carts' = [carts EXCEPT ![i] = c]
        /\ c \in [owner : Users \union {"none", "guest", "merged"},
                  version : Nat, lines : LinesType]
        /\ carts[i].version < c.version /\ c.owner = carts[i].owner
      BY <1>2, <1>5, <2>1, AppliedCart
  <2> HIDE DEF c
  <2>3. /\ carts' \in Carts /\ Grown(carts, carts')
        /\ \A k \in 1 .. MaxCartId : carts'[k].owner = "none" => carts'[k].version = 0
      BY <1>2, <2>1, <2>2, CartChanges
  <2>4. \A k \in 1 .. MaxCartId : carts'[k] # carts[k] => k = i /\ carts'[k] = c
      BY <1>1, <2>2 DEF Carts
  <2> QED BY <1>2, <1>3, <1>5, <2>2, <2>3, <2>4 DEF ServerOK
<1>6. CASE i = 0 /\ UNCHANGED carts
    BY <1>1, <1>2, <1>6, UnchangedGrows DEF ServerOK
<1>7. CASE /\ i = 0 /\ CanMint
           /\ carts' = [carts EXCEPT ![NextId] =
                [owner |-> head.visitor, version |-> 1, lines |-> Edited(NoLines, w)]]
  <2> DEFINE c == [owner |-> head.visitor, version |-> 1, lines |-> Edited(NoLines, w)]
  <2>1. NextId \in 1 .. MaxCartId /\ carts[NextId].owner = "none"
      BY <1>1, <1>7, NextIdType
  <2>2. carts[NextId].version = 0
      BY <1>2, <2>1 DEF ServerOK
  <2>3. Edited(NoLines, w) \in LinesType
      BY <1>2, Empties, EditedType
  <2>4. /\ c \in [owner : Users \union {"none", "guest", "merged"},
                  version : Nat, lines : LinesType]
        /\ carts[NextId].version < c.version /\ c.owner # "none" /\ c.owner = head.visitor
      BY <1>1, <2>2, <2>3, MirrorAssumption
  <2>5. carts' = [carts EXCEPT ![NextId] = c]
      BY <1>7
  <2> HIDE DEF c
  <2>6. /\ carts' \in Carts /\ Grown(carts, carts')
        /\ \A k \in 1 .. MaxCartId : carts'[k].owner = "none" => carts'[k].version = 0
      BY <1>2, <2>1, <2>4, <2>5, CartChanges
  <2>7. \A k \in 1 .. MaxCartId : carts'[k] # carts[k] => carts'[k] = c
      BY <1>1, <2>1, <2>5 DEF Carts
  <2> QED BY <1>2, <2>4, <2>6, <2>7 DEF ServerOK
<1> QED BY <1>4, <1>5, <1>6, <1>7

LEMMA ServerWritesKeeps ==
    ASSUME MirrorInv, ServerWrites
    PROVE  MirrorInv'
<1> DEFINE w == queue[1]
           i == CartOf(head.visitor, head.token)
           mints == i = 0 /\ w.kind = "add"
           j == IF mints THEN NextId ELSE i
<1>1. ServerOK' /\ Grown(carts, carts') /\ carts' \in Carts
    BY ServerWritesGrows DEF ServerOK
<1>2. carts \in Carts /\ head \in Heads /\ IsAnswerOf(carts, head.cart) /\ head.at = "sent"
      /\ queue # <<>> /\ head.cart \in Dtos
    BY HeadIsTyped DEF ServerWrites, MirrorInv, HeadOK
<1>3. i \in 0 .. MaxCartId
    BY <1>2, CartOfType
<1>4. mints => NextId \in 1 .. MaxCartId
    BY <1>2, NextIdType DEF ServerWrites
<1>5. j \in 0 .. MaxCartId
    BY <1>3, <1>4, MirrorAssumption
<1>6. \/ head' = [head EXCEPT !.at = "answered",
                    !.minted = IF mints /\ head.visitor = "guest" THEN NextId ELSE 0,
                    !.cart = AnswerOf(carts', j)]
      \/ head' = [head EXCEPT !.at = "failed"]
    BY DEF ServerWrites, AnswerOf
<1>7. /\ UNCHANGED <<clerkUser, sessions, forgotten, background, clicks, generation, pending>>
      /\ UNCHANGED <<mirror, guessing, queue, joins>>
    BY DEF ServerWrites, QuietWhile
<1>8. (IF mints /\ head.visitor = "guest" THEN NextId ELSE 0) \in 0 .. MaxCartId
    BY <1>4, MirrorAssumption
<1> DEFINE minted == IF mints /\ head.visitor = "guest" THEN NextId ELSE 0
<1> HIDE DEF j, mints, minted
<1>9. /\ AnswerOf(carts', j) \in Dtos /\ IsAnswerOf(carts', AnswerOf(carts', j))
      /\ ~IsOlder(AnswerOf(carts', j))
    BY <1>1, <1>5, FreshAnswer
<1>10. IsAnswerOf(carts', head.cart)
    BY <1>1, CartsGrow
<1>11. /\ head' \in Heads /\ IsAnswerOf(carts', head'.cart)
       /\ \/ head'.at = "failed"
          \/ head'.at = "answered" /\ ~IsOlder(head'.cart)
  <2>1. CASE head' = [head EXCEPT !.at = "answered", !.minted = minted,
                                  !.cart = AnswerOf(carts', j)]
      BY <1>2, <1>8, <1>9, <2>1 DEF Heads, minted
  <2>2. CASE head' = [head EXCEPT !.at = "failed"]
      BY <1>2, <1>10, <2>2 DEF Heads
  <2> QED BY <1>6, <2>1, <2>2 DEF minted
<1>12. HeadOK'
    BY <1>2, <1>7, <1>11 DEF HeadOK
<1> QED BY <1>1, <1>7, <1>11, <1>12, HeadMovesKeeps

LEMMA WriteFailsKeeps ==
    ASSUME MirrorInv, WriteFails
    PROVE  MirrorInv'
<1>1. /\ head.at = "sent" /\ head' = [head EXCEPT !.at = "failed"]
      /\ UNCHANGED <<clerkUser, sessions, forgotten, background, clicks, generation, pending>>
      /\ UNCHANGED <<server, mirror, guessing, queue, joins>>
    BY DEF WriteFails, QuietWhile
<1>2. ServerOK' /\ Grown(carts, carts') /\ carts' = carts
    BY <1>1, UnchangedGrows DEF MirrorInv, ServerOK, server
<1>3. head' \in Heads /\ head'.cart = head.cart /\ head'.at = "failed"
    BY <1>1, HeadIsTyped DEF Heads
<1>4. HeadOK'
    BY <1>1, <1>2, <1>3 DEF MirrorInv, HeadOK
<1> QED BY <1>1, <1>2, <1>3, <1>4, HeadMovesKeeps

LEMMA WriteLandsKeeps ==
    ASSUME MirrorInv, WriteLands
    PROVE  MirrorInv'
<1>1. /\ head.at = "answered" /\ Done /\ queue # <<>>
      /\ token' = IF head.minted # 0 THEN head.minted ELSE token
      /\ UNCHANGED <<clerkUser, sessions, forgotten, background, clicks, generation, pending>>
      /\ UNCHANGED <<carts>>
    BY DEF WriteLands, QuietWhile, MirrorInv, HeadOK
<1>2. ServerOK'
    BY <1>1, HeadIsTyped DEF MirrorInv, ServerOK, Heads
<1>3. CASE isStale
  <2>1. UNCHANGED <<mirror, guessing>>
      BY <1>3 DEF WriteLands
  <2>2. MirrorOK'
      BY <1>1, <2>1 DEF MirrorInv, MirrorOK, MirrorIsOfTheSession
  <2> QED BY <1>1, <1>2, <1>3, <2>1, <2>2, DoneKeeps
<1>4. CASE ~isStale
  <2>1. adoptServerCart(head.cart, mirror.ownerId)
      BY <1>4 DEF WriteLands
  <2>2. /\ MirrorOK' /\ mirror'.ownerId = mirror.ownerId
        /\ \/ IsOlder(head.cart) /\ UNCHANGED <<mirror, guessing>>
           \/ Clean'
      BY <1>1, <2>1, HeadIsTyped, AdoptAsOwner
  <2> QED BY <1>1, <1>2, <2>2, DoneKeeps
<1> QED BY <1>3, <1>4

LEMMA RecoverStartsKeeps ==
    ASSUME MirrorInv, RecoverStarts
    PROVE  MirrorInv'
<1>1. /\ head.at = "failed" /\ queue # <<>>
      /\ UNCHANGED <<clerkUser, sessions, forgotten, background, clicks, generation, pending>>
      /\ UNCHANGED <<carts>> /\ UNCHANGED token
    BY DEF RecoverStarts, QuietWhile, MirrorInv, HeadOK, server
<1>2. ServerOK'
    BY <1>1 DEF MirrorInv, ServerOK
<1>3. UNCHANGED mirror
    BY DEF RecoverStarts
<1>4. guessing' \in BOOLEAN => MirrorOK'
    BY <1>1, <1>3 DEF MirrorInv, MirrorOK, MirrorIsOfTheSession
<1>5. CASE isStale /\ Done /\ UNCHANGED <<mirror, guessing>>
  <2>1. MirrorOK'
      BY <1>4, <1>5 DEF MirrorInv, MirrorOK
  <2> QED BY <1>1, <1>2, <1>5, <2>1, DoneKeeps
<1>6. CASE guessing' = TRUE /\ Done
  <2>1. MirrorOK'
      BY <1>4, <1>6
  <2> QED BY <1>1, <1>2, <1>3, <1>6, <2>1, DoneKeeps
<1>7. CASE /\ head' = [head EXCEPT !.at = "rereading", !.visitor = clerkUser, !.token = token]
           /\ UNCHANGED <<mirror, guessing, queue, joins>>
  <2>1. Grown(carts, carts') /\ carts' = carts
      BY <1>1, UnchangedGrows DEF MirrorInv, ServerOK
  <2>2. head' \in Heads /\ head'.cart = head.cart /\ head'.at = "rereading"
      BY <1>7, HeadIsTyped DEF Heads
  <2>3. HeadOK'
      BY <1>1, <1>7, <2>1, <2>2 DEF MirrorInv, HeadOK
  <2> QED BY <1>1, <1>2, <1>7, <2>1, <2>2, <2>3, HeadMovesKeeps
<1> QED BY <1>5, <1>6, <1>7 DEF RecoverStarts

LEMMA ServerRereadsKeeps ==
    ASSUME MirrorInv, ServerRereads
    PROVE  MirrorInv'
<1> DEFINE i == CartOf(head.visitor, head.token)
<1>1. /\ head.at = "rereading" /\ queue # <<>>
      /\ head' = [head EXCEPT !.at = "reread", !.cart = CartAnswer(i)]
      /\ UNCHANGED <<clerkUser, sessions, forgotten, background, clicks, generation, pending>>
      /\ UNCHANGED <<server, mirror, guessing, queue, joins>> /\ carts' = carts
    BY DEF ServerRereads, QuietWhile, MirrorInv, HeadOK, server
<1>2. ServerOK' /\ Grown(carts, carts') /\ carts \in Carts
    BY <1>1, UnchangedGrows DEF MirrorInv, ServerOK, server
<1>3. i \in 0 .. MaxCartId
    BY <1>2, CartOfType
<1> HIDE DEF i
<1>4. CartAnswer(i) = AnswerOf(carts, i)
    BY DEF CartAnswer, AnswerOf, Dto
<1>5. CartAnswer(i) \in Dtos /\ IsAnswerOf(carts, CartAnswer(i)) /\ ~IsOlder(CartAnswer(i))
    BY <1>2, <1>3, <1>4, FreshAnswer, UnchangedGrows
<1>6. head' \in Heads /\ head'.cart = CartAnswer(i) /\ head'.at = "reread"
    BY <1>1, <1>5, HeadIsTyped DEF Heads
<1>7. HeadOK'
    BY <1>1, <1>2, <1>5, <1>6 DEF MirrorInv, HeadOK
<1> QED BY <1>1, <1>2, <1>5, <1>6, <1>7, HeadMovesKeeps

LEMMA RecoverLandsKeeps ==
    ASSUME MirrorInv, RecoverLands
    PROVE  MirrorInv'
<1>1. /\ head.at = "reread" /\ Done /\ queue # <<>>
      /\ adoptServerCart(head.cart, mirror.ownerId)
      /\ UNCHANGED <<clerkUser, sessions, forgotten, background, clicks, generation, pending>>
      /\ UNCHANGED <<carts>> /\ UNCHANGED server
    BY DEF RecoverLands, QuietWhile, MirrorInv, HeadOK, server
<1>2. ServerOK'
    BY <1>1 DEF MirrorInv, ServerOK, server
<1>3. /\ MirrorOK' /\ mirror'.ownerId = mirror.ownerId
      /\ \/ IsOlder(head.cart) /\ UNCHANGED <<mirror, guessing>>
         \/ Clean'
    BY <1>1, HeadIsTyped, AdoptAsOwner
<1> QED BY <1>1, <1>2, <1>3, DoneKeeps

LEMMA RecoverFailsKeeps ==
    ASSUME MirrorInv, RecoverFails
    PROVE  MirrorInv'
<1>1. /\ head.at = "rereading" /\ guessing' = TRUE /\ Done /\ queue # <<>>
      /\ UNCHANGED <<clerkUser, sessions, forgotten, background, clicks, generation, pending>>
      /\ UNCHANGED <<carts>> /\ UNCHANGED <<server, mirror>>
    BY DEF RecoverFails, QuietWhile, MirrorInv, HeadOK, server
<1>2. ServerOK'
    BY <1>1 DEF MirrorInv, ServerOK, server
<1>3. MirrorOK'
    BY <1>1 DEF MirrorInv, MirrorOK, MirrorIsOfTheSession
<1> QED BY <1>1, <1>2, <1>3, DoneKeeps

LEMMA QueueStepKeeps ==
    ASSUME MirrorInv, QueueStep
    PROVE  MirrorInv'
BY SkipStaleKeeps, SendHeadKeeps, ClerkAnswersKeeps, ServerWritesKeeps, WriteFailsKeeps,
   WriteLandsKeeps, RecoverStartsKeeps, ServerRereadsKeeps, RecoverLandsKeeps,
   RecoverFailsKeeps DEF QueueStep

-----------------------------------------------------------------------------
(* Another answer of Clerk's.                                               *)
LEMMA AbortedType ==
    ASSUME MirrorInv, NEW who2 \in Users \union {"guest"}
    PROVE  [i \in DOMAIN joins |-> [joins[i] EXCEPT !.aborted = TRUE]]
             \in Seq(JoinsOf(carts, who2))
<1> DEFINE S == JoinsOf(carts, clerkUser)
           T == JoinsOf(carts, who2)
<1>1. joins \in Seq(S)
    BY DEF MirrorInv, SessionOK
<1>2. ASSUME NEW j \in S
      PROVE  [j EXCEPT !.aborted = TRUE] \in T
    BY DEF JoinsOf, Joins
<1> HIDE DEF S, T
<1>3. /\ Len(joins) \in Nat /\ DOMAIN joins = 1 .. Len(joins)
      /\ \A i \in DOMAIN joins : joins[i] \in S
    BY <1>1
<1>4. [i \in 1 .. Len(joins) |-> [joins[i] EXCEPT !.aborted = TRUE]] \in [1 .. Len(joins) -> T]
    BY <1>2, <1>3
<1>5. [i \in 1 .. Len(joins) |-> [joins[i] EXCEPT !.aborted = TRUE]] \in Seq(T)
    BY <1>3, <1>4, SeqDef
<1> QED BY <1>3, <1>5 DEF T

LEMMA JoinsFollow ==
    ASSUME MirrorInv, NEW who2 \in Users \union {"guest"}, SessionChanges(who2)
    PROVE  joins' \in Seq(JoinsOf(carts, who2))
<1> DEFINE aborted == [i \in DOMAIN joins |-> [joins[i] EXCEPT !.aborted = TRUE]]
           new == [NoJoin EXCEPT !.at = "filing", !.user = who2, !.aborted = FALSE]
           T == JoinsOf(carts, who2)
<1>1. aborted \in Seq(T)
    BY AbortedType
<1>2. joins' = IF who2 = "guest" THEN aborted ELSE Append(aborted, new)
    BY DEF SessionChanges
<1>3. who2 # "guest" => new \in T
    BY Empties DEF NoJoin, JoinsOf, Joins
<1> HIDE DEF T, new, aborted
<1>4. joins' \in Seq(T)
    BY <1>1, <1>2, <1>3, AppendProperties
<1> QED BY <1>4 DEF T

(* The queue after a reset is stale to the last write.                      *)
LEMMA ResetQueue ==
    ASSUME MirrorInv, NEW user, NEW owner
    PROVE  queue \in Seq(QueuedOf(generation + 1, user, owner))
<1>1. QueuedOf(generation, clerkUser, mirror.ownerId) \subseteq QueuedOf(generation + 1, user, owner)
  <2>1. generation \in Nat
      BY DEF MirrorInv, WritesOK
  <2>2. \A n \in Nat : n <= generation => n <= generation + 1 /\ n # generation + 1
      BY <2>1
  <2>3. \A w \in Writes : w.queuedIn \in Nat
      BY DEF Writes
  <2> QED BY <2>2, <2>3 DEF QueuedOf
<1> QED BY <1>1, SeqMonotonic, ElementOfSeq DEF MirrorInv, WritesOK

(* No write of an account's is left to a mirror that is kept.               *)
LEMMA KeptQueue ==
    ASSUME MirrorInv, NEW who2 \in Users \union {"guest"}, who2 # clerkUser,
           mirror.ownerId \in {"guest", who2}
    PROVE  /\ queue \in Seq(QueuedOf(generation, who2, mirror.ownerId))
           /\ pending \in [Parts -> PendingOf(who2, mirror.ownerId)]
<1>1. ASSUME NEW w, OfSession(w, clerkUser, mirror.ownerId)
      PROVE  OfSession(w, who2, mirror.ownerId)
    BY <1>1, MirrorAssumption DEF OfSession
<1>2. QueuedOf(generation, clerkUser, mirror.ownerId)
        \subseteq QueuedOf(generation, who2, mirror.ownerId)
    BY <1>1 DEF QueuedOf
<1>3. PendingOf(clerkUser, mirror.ownerId) \subseteq PendingOf(who2, mirror.ownerId)
    BY <1>1 DEF PendingOf
<1>4. pending \in [Parts -> PendingOf(who2, mirror.ownerId)]
    BY <1>3 DEF MirrorInv, WritesOK
<1> QED BY <1>2, <1>4, SeqMonotonic, ElementOfSeq DEF MirrorInv, WritesOK

LEMMA SessionChangesKeeps ==
    ASSUME MirrorInv, NEW who2 \in Users \union {"guest"}, SessionChanges(who2)
    PROVE  MirrorInv'
<1>1. /\ sessions' \in 0 .. MaxSignIns /\ clerkUser' = who2 /\ who2 # clerkUser
      /\ UNCHANGED <<server, queue, head, reads, clicks>> /\ UNCHANGED <<carts, token>>
    BY MirrorAssumption DEF SessionChanges, MirrorInv, SessionOK, server
<1>2. joins' \in Seq(JoinsOf(carts', clerkUser'))
    BY <1>1, JoinsFollow
<1>3. forgotten' \in BOOLEAN
    BY DEF SessionChanges, MirrorInv, SessionOK
<1>4. SessionOK' /\ ServerOK'
    BY <1>1, <1>2, <1>3 DEF SessionOK, Visitors, MirrorInv, ServerOK
<1>5. HeadOK'
    BY <1>1 DEF MirrorInv, HeadOK
<1>6. CASE forgetSession
  <2>1. /\ mirror' = EmptyMirror /\ guessing' = FALSE /\ generation' = generation + 1
        /\ pending' = [a \in Parts |-> NoWrite] /\ read' = NoRead
      BY <1>6 DEF forgetSession
  <2>2. MirrorOK' /\ Clean'
      BY <2>1, Empties DEF MirrorOK, EmptyMirror, NoLater, MirrorIsOfTheSession, Clean, Tells
  <2>3. NoWrite \in PendingOf(clerkUser', mirror'.ownerId)
      BY Empties DEF PendingOf, OfSession
  <2>4. WritesOK'
      BY <1>1, <2>1, <2>3, ResetQueue DEF WritesOK, MirrorInv
  <2>5. ReadOK'
      BY <1>1, <2>1, Empties DEF ReadOK, NoRead, MirrorInv
  <2> QED BY <1>4, <1>5, <2>2, <2>4, <2>5 DEF MirrorInv, GuessesAreFollowed
<1>7. CASE /\ mirror.ownerId \in {"guest", who2}
           /\ UNCHANGED <<mirror, guessing, generation, pending, read>>
  <2>1. MirrorOK'
      BY <1>1, <1>7 DEF MirrorInv, MirrorOK, MirrorIsOfTheSession
  <2>2. WritesOK'
      BY <1>1, <1>7, KeptQueue DEF WritesOK, MirrorInv
  <2>3. ReadOK'
      BY <1>1, <1>7 DEF MirrorInv, ReadOK
  <2>4. GuessesAreFollowed'
      BY <1>1, <1>7 DEF MirrorInv, GuessesAreFollowed, Clean, Pending, IsOlder
  <2> QED BY <1>4, <1>5, <2>1, <2>2, <2>3, <2>4 DEF MirrorInv
<1> QED BY <1>6, <1>7 DEF SessionChanges

-----------------------------------------------------------------------------
(* The runs of joinSession.                                                 *)
LEMMA RemovedFrom ==
    ASSUME NEW S, NEW seq \in Seq(S), NEW i \in DOMAIN seq
    PROVE  Without(seq, i) \in Seq(S)
<1>1. Len(seq) \in Nat /\ i \in 1 .. Len(seq)
    OBVIOUS
<1>2. SubSeq(seq, 1, i - 1) \in Seq(S) /\ SubSeq(seq, i + 1, Len(seq)) \in Seq(S)
  <2>1. \A k \in 1 .. i - 1 : seq[k] \in S
      BY <1>1
  <2>2. \A k \in i + 1 .. Len(seq) : seq[k] \in S
      BY <1>1
  <2> QED BY <1>1, <2>1, <2>2, SubSeqProperties
<1> QED BY <1>2, ConcatProperties DEF Without, RemoveAt

LEMMA ReplacedIn ==
    ASSUME NEW S, NEW T, S \subseteq T, NEW seq \in Seq(S), NEW i \in DOMAIN seq, NEW j \in T
    PROVE  [seq EXCEPT ![i] = j] \in Seq(T)
<1>1. Len(seq) \in Nat /\ seq \in [1 .. Len(seq) -> S] /\ i \in 1 .. Len(seq)
    OBVIOUS
<1>2. [seq EXCEPT ![i] = j] \in [1 .. Len(seq) -> T]
    BY <1>1
<1> QED BY <1>1, <1>2, SeqDef

(* A join goes a step further, the carts perhaps with it.                   *)
LEMMA JoinMovesKeeps ==
    ASSUME MirrorInv, ServerOK', Grown(carts, carts'), Quiet, UNCHANGED <<mirror, guessing>>,
           joins' \in Seq(JoinsOf(carts', clerkUser))
    PROVE  MirrorInv'
<1>1. /\ UNCHANGED <<generation, queue, head, pending>> /\ UNCHANGED <<read, reads>>
      /\ UNCHANGED <<clicks, clerkUser, sessions, forgotten>>
    BY DEF Quiet, writes, background
<1>2. SessionOK'
    BY <1>1 DEF MirrorInv, SessionOK
<1>3. MirrorOK'
    BY <1>1, CartsGrow DEF MirrorInv, MirrorOK, MirrorIsOfTheSession
<1>4. WritesOK'
    BY <1>1 DEF MirrorInv, WritesOK
<1>5. HeadOK'
    BY <1>1, CartsGrow DEF MirrorInv, HeadOK
<1>6. ReadOK'
    BY <1>1, CartsGrow DEF MirrorInv, ReadOK
<1>7. GuessesAreFollowed'
    BY <1>1, CartsGrow DEF MirrorInv, GuessesAreFollowed, Clean, Pending, IsOlder
<1> QED BY <1>2, <1>3, <1>4, <1>5, <1>6, <1>7 DEF MirrorInv

(* The answer of a join lands, for the one who is signed in.                *)
LEMMA JoinLandsKeeps ==
    ASSUME MirrorInv, NEW i \in DOMAIN joins, token' \in 0 .. MaxCartId, UNCHANGED <<carts>>,
           Quiet, JoinEnds(i),
           IF joins[i].aborted THEN UNCHANGED <<mirror, guessing>>
           ELSE adoptServerCart(joins[i].cart, joins[i].user)
    PROVE  MirrorInv'
<1> DEFINE S == JoinsOf(carts, clerkUser)
<1>1. joins \in Seq(S)
    BY DEF MirrorInv, SessionOK
<1>2. joins' \in Seq(S)
    BY <1>1, RemovedFrom DEF JoinEnds
<1>3. joins[i] \in S
    BY <1>1
<1>4. ServerOK' /\ Grown(carts, carts')
    BY UnchangedGrows DEF MirrorInv, ServerOK
<1>5. CASE joins[i].aborted
    BY <1>2, <1>4, <1>5, JoinMovesKeeps
<1>6. CASE ~joins[i].aborted
  <2>1. /\ joins[i].user = clerkUser /\ clerkUser \in Users /\ clerkUser # "loading"
        /\ joins[i].cart \in Dtos /\ IsAnswerOf(carts, joins[i].cart)
      BY <1>3, <1>6, MirrorAssumption DEF JoinsOf, Joins
  <2>2. /\ UNCHANGED <<generation, queue, head, pending>> /\ UNCHANGED <<read, reads>>
        /\ UNCHANGED <<clicks, clerkUser, sessions, forgotten>>
      BY DEF Quiet, writes, background
  <2>3. /\ MirrorOK'
        /\ \/ IsOlder(joins[i].cart) /\ UNCHANGED <<mirror, guessing>>
           \/ Clean' /\ mirror'.ownerId = clerkUser
      BY <1>6, <2>1, <2>2, AdoptKeeps
  <2>4. CASE UNCHANGED <<mirror, guessing>>
      BY <1>2, <1>4, <2>4, JoinMovesKeeps
  <2>5. CASE Clean' /\ mirror'.ownerId = clerkUser
    <3>1. ASSUME NEW w, OfSession(w, clerkUser, mirror.ownerId)
          PROVE  OfSession(w, clerkUser, mirror'.ownerId)
        BY <2>1, <2>5, <3>1 DEF OfSession
    <3>2. QueuedOf(generation, clerkUser, mirror.ownerId)
            \subseteq QueuedOf(generation, clerkUser, mirror'.ownerId)
        BY <3>1 DEF QueuedOf
    <3>3. PendingOf(clerkUser, mirror.ownerId) \subseteq PendingOf(clerkUser, mirror'.ownerId)
        BY <3>1 DEF PendingOf
    <3>4. queue \in Seq(QueuedOf(generation, clerkUser, mirror'.ownerId))
        BY <3>2, SeqMonotonic, ElementOfSeq DEF MirrorInv, WritesOK
    <3>5. pending \in [Parts -> PendingOf(clerkUser, mirror'.ownerId)]
        BY <3>3 DEF MirrorInv, WritesOK
    <3>6. WritesOK'
        BY <2>2, <3>4, <3>5 DEF MirrorInv, WritesOK
    <3>7. SessionOK' /\ HeadOK' /\ ReadOK'
        BY <1>2, <2>2 DEF MirrorInv, SessionOK, HeadOK, ReadOK
    <3> QED BY <1>4, <2>3, <2>5, <3>6, <3>7 DEF MirrorInv, GuessesAreFollowed
  <2> QED BY <2>3, <2>4, <2>5
<1> QED BY <1>5, <1>6

(* A join is at another point, with what it waits for or what was answered. *)
LEMMA JoinBecomesType ==
    ASSUME MirrorInv, NEW i \in DOMAIN joins, NEW at, NEW waits \in SUBSET (1 .. MaxClicks),
           at \in {"pausing", "draining", "adopting", "loading"}
    PROVE  /\ [joins EXCEPT ![i].at = at] \in Seq(JoinsOf(carts, clerkUser))
           /\ [joins EXCEPT ![i].at = at, ![i].waits = waits] \in Seq(JoinsOf(carts, clerkUser))
<1> DEFINE S == JoinsOf(carts, clerkUser)
           j == [joins[i] EXCEPT !.at = at]
           k == [joins[i] EXCEPT !.at = at, !.waits = waits]
<1>1. joins \in Seq(S) /\ joins[i] \in S
    BY DEF MirrorInv, SessionOK
<1>2. j \in S /\ k \in S
    BY <1>1 DEF JoinsOf, Joins
<1>3. /\ [joins EXCEPT ![i].at = at] = [joins EXCEPT ![i] = j]
      /\ [joins EXCEPT ![i].at = at, ![i].waits = waits] = [joins EXCEPT ![i] = k]
    BY <1>1
<1> HIDE DEF S, j, k
<1> QED BY <1>1, <1>2, <1>3, ReplacedIn DEF S

LEMMA AnsweredType ==
    ASSUME MirrorInv, NEW i \in DOMAIN joins, NEW at, at \in {"adopted", "loaded"},
           ServerOK', Grown(carts, carts'), NEW dto \in Dtos, IsAnswerOf(carts', dto)
    PROVE  [joins EXCEPT ![i].at = at, ![i].cart = dto] \in Seq(JoinsOf(carts', clerkUser))
<1> DEFINE S == JoinsOf(carts, clerkUser)
           T == JoinsOf(carts', clerkUser)
           j == [joins[i] EXCEPT !.at = at, !.cart = dto]
<1>1. joins \in Seq(S) /\ joins[i] \in S
    BY DEF MirrorInv, SessionOK
<1>2. S \subseteq T
    BY CartsGrow
<1>3. j \in T
    BY <1>1 DEF JoinsOf, Joins
<1>4. [joins EXCEPT ![i].at = at, ![i].cart = dto] = [joins EXCEPT ![i] = j]
    BY <1>1
<1> HIDE DEF S, T, j
<1> QED BY <1>1, <1>2, <1>3, <1>4, ReplacedIn DEF T

LEMMA AwaitedType ==
    ASSUME MirrorInv
    PROVE  /\ {pending[a].ticket : a \in Pending} \subseteq 1 .. MaxClicks
           /\ Tickets(queue) \subseteq 1 .. MaxClicks
<1>1. \A w \in Writes : w.ticket # 0 => w.ticket \in 1 .. MaxClicks
    BY MirrorAssumption DEF Writes
<1>2. {pending[a].ticket : a \in Pending} \subseteq 1 .. MaxClicks
    BY <1>1 DEF Pending, PendingOf, MirrorInv, WritesOK
<1> DEFINE S == QueuedOf(generation, clerkUser, mirror.ownerId)
<1>3. queue \in Seq(S) /\ \A w \in S : w.ticket \in 1 .. MaxClicks
    BY <1>1 DEF QueuedOf, MirrorInv, WritesOK
<1> HIDE DEF S
<1>4. \A k \in DOMAIN queue : queue[k] \in S
    BY <1>3
<1> QED BY <1>2, <1>3, <1>4 DEF Tickets

LEMMA AwaitWritesType ==
    ASSUME MirrorInv, NEW i \in DOMAIN joins, AwaitWrites(i)
    PROVE  joins' \in Seq(JoinsOf(carts, clerkUser))
<1> DEFINE at == IF Pending # {} THEN "pausing" ELSE "draining"
           waits == IF Pending # {} THEN {pending[a].ticket : a \in Pending} ELSE Tickets(queue)
<1>1. joins' = [joins EXCEPT ![i].at = at, ![i].waits = waits]
    BY DEF AwaitWrites
<1>2. waits \in SUBSET (1 .. MaxClicks) /\ at \in {"pausing", "draining", "adopting", "loading"}
    BY AwaitedType
<1> HIDE DEF at, waits
<1> QED BY <1>1, <1>2, JoinBecomesType

LEMMA JoinWaitsKeeps ==
    ASSUME MirrorInv, NEW i \in DOMAIN joins,
           CustomerFiled(i) \/ WritesSettled(i) \/ JoinFails(i)
    PROVE  MirrorInv'
<1>1. Quiet /\ UNCHANGED <<server, mirror, guessing>> /\ UNCHANGED carts
    BY DEF CustomerFiled, WritesSettled, JoinFails, server
<1>2. \/ JoinEnds(i) \/ AwaitWrites(i)
      \/ JoinBecomes(i, "loading") \/ JoinBecomes(i, "adopting")
    BY DEF CustomerFiled, WritesSettled, JoinFails
<1>3. ServerOK' /\ Grown(carts, carts')
    BY <1>1, UnchangedGrows DEF MirrorInv, ServerOK, server
<1> DEFINE S == JoinsOf(carts, clerkUser)
<1>4. joins \in Seq(S)
    BY DEF MirrorInv, SessionOK
<1>5. ASSUME JoinEnds(i)
      PROVE  joins' \in Seq(S)
    BY <1>4, <1>5, RemovedFrom DEF JoinEnds
<1>6. {} \in SUBSET (1 .. MaxClicks)
    OBVIOUS
<1>7. ASSUME JoinBecomes(i, "loading") \/ JoinBecomes(i, "adopting")
      PROVE  joins' \in Seq(S)
    BY <1>6, <1>7, JoinBecomesType DEF JoinBecomes
<1>8. joins' \in Seq(S)
    BY <1>2, <1>5, <1>7, AwaitWritesType
<1> QED BY <1>1, <1>3, <1>8, JoinMovesKeeps

LEMMA ServerLoadsKeeps ==
    ASSUME MirrorInv, NEW i \in DOMAIN joins, ServerLoads(i)
    PROVE  MirrorInv'
<1> DEFINE dto == CartAnswer(CartOf(clerkUser, token))
<1>1. /\ Quiet /\ UNCHANGED <<server, mirror, guessing>> /\ carts' = carts
      /\ joins' = [joins EXCEPT ![i].at = "loaded", ![i].cart = dto]
    BY DEF ServerLoads, server
<1>2. ServerOK' /\ Grown(carts, carts') /\ carts \in Carts
    BY <1>1, UnchangedGrows DEF MirrorInv, ServerOK, server
<1>3. dto \in Dtos /\ IsAnswerOf(carts', dto)
    BY <1>1, <1>2, CartOfType, CartAnswerType
<1> HIDE DEF dto
<1>4. joins' \in Seq(JoinsOf(carts', clerkUser))
    BY <1>1, <1>2, <1>3, AnsweredType
<1> QED BY <1>1, <1>2, <1>4, JoinMovesKeeps

(* A merge: the guest's cart is closed, the account's changes.              *)
LEMMA MergedType ==
    ASSUME NEW old \in LinesType, NEW guestLines, NEW lines \in Merged(old, guestLines)
    PROVE  lines \in LinesType
<1>1. 1 .. MaxQuantity \subseteq 0 .. MaxQuantity /\ 0 \in 0 .. MaxQuantity
    BY MirrorAssumption
<1>2. {NoLine} \union {[quantity |-> q, isSelected |-> s] : q \in 1 .. MaxQuantity, s \in BOOLEAN}
        \subseteq [quantity : 0 .. MaxQuantity, isSelected : BOOLEAN]
  <2>1. NoLine \in [quantity : 0 .. MaxQuantity, isSelected : BOOLEAN]
      BY <1>1 DEF NoLine
  <2>2. ASSUME NEW q \in 1 .. MaxQuantity, NEW s \in BOOLEAN
        PROVE  [quantity |-> q, isSelected |-> s]
                 \in [quantity : 0 .. MaxQuantity, isSelected : BOOLEAN]
      BY <1>1
  <2> QED BY ONLY <2>1, <2>2
<1>3. lines \in [Parts -> {NoLine} \union {[quantity |-> q, isSelected |-> s] :
                             q \in 1 .. MaxQuantity, s \in BOOLEAN}]
    BY DEF Merged
<1> QED BY <1>2, <1>3 DEF LinesType

LEMMA OwnedWith ==
    ASSUME NEW O, NEW L, NEW r \in [owner : O, version : Nat, lines : L], NEW o \in O, NEW v \in Nat
    PROVE  /\ [r EXCEPT !.owner = o] \in [owner : O, version : Nat, lines : L]
           /\ [r EXCEPT !.owner = o, !.version = v] \in [owner : O, version : Nat, lines : L]
OBVIOUS

LEMMA ServerAdoptsGrows ==
    ASSUME MirrorInv, NEW i \in DOMAIN joins, ServerAdopts(i)
    PROVE  ServerOK' /\ Grown(carts, carts')
<1> DEFINE Owners == Users \union {"none", "guest", "merged"}
           Cart == [owner : Owners, version : Nat, lines : LinesType]
           guest == CartOf("guest", token)
           account == CartOf(clerkUser, 0)
<1>1. carts \in Carts /\ ServerOK /\ clerkUser \in Users /\ UNCHANGED token
    BY DEF MirrorInv, ServerOK, ServerAdopts
<1>2. /\ guest # 0 => guest \in 1 .. MaxCartId /\ carts[guest].owner = "guest"
      /\ account # 0 => account \in 1 .. MaxCartId /\ carts[account].owner = clerkUser
  <2>1. guest \in 0 .. MaxCartId /\ account \in 0 .. MaxCartId
      BY <1>1, CartOfType
  <2>2. \A k \in 0 .. MaxCartId : k # 0 => k \in 1 .. MaxCartId
      BY MirrorAssumption
  <2>3. "guest" \notin Users
      BY MirrorAssumption
  <2> QED BY <1>1, <2>1, <2>2, <2>3, CartOfType
<1>3. \/ UNCHANGED carts
      \/ /\ guest # 0
         /\ carts' = [carts EXCEPT ![guest].owner = clerkUser, ![guest].version = @ + 1]
      \/ /\ guest # 0 /\ account # 0
         /\ \E lines \in Merged(carts[account].lines, carts[guest].lines) :
              carts' = [carts EXCEPT ![guest].owner = "merged",
                                     ![account].lines = lines, ![account].version = @ + 1]
    BY DEF ServerAdopts
<1> HIDE DEF guest, account
<1>4. \A k \in 1 .. MaxCartId : carts[k] \in Cart
    BY <1>1 DEF Carts
<1>5. CASE UNCHANGED carts
    BY <1>1, <1>5, UnchangedGrows DEF ServerOK
<1>6. CASE /\ guest # 0
           /\ carts' = [carts EXCEPT ![guest].owner = clerkUser, ![guest].version = @ + 1]
  <2> DEFINE c == [carts[guest] EXCEPT !.owner = clerkUser, !.version = carts[guest].version + 1]
  <2>1. guest \in 1 .. MaxCartId /\ carts[guest] \in Cart
      BY <1>2, <1>4, <1>6
  <2>2. carts[guest].version + 1 \in Nat /\ clerkUser \in Owners
      BY <1>1, <2>1
  <2>3. c \in Cart
    <3> HIDE DEF Owners
    <3> QED BY ONLY <2>1, <2>2, OwnedWith
  <2>4. carts[guest].version < c.version /\ c.owner = clerkUser
      BY <2>1
  <2>5. carts' = [carts EXCEPT ![guest] = c]
      BY <1>1, <1>6 DEF Carts
  <2> HIDE DEF c
  <2>6. /\ carts' \in Carts /\ Grown(carts, carts')
        /\ \A k \in 1 .. MaxCartId : carts'[k].owner = "none" => carts'[k].version = 0
      BY <1>1, <2>1, <2>3, <2>4, <2>5, CartChanges, MirrorAssumption
  <2> QED BY <1>1, <2>6 DEF ServerOK
<1>7. CASE /\ guest # 0 /\ account # 0
           /\ \E lines \in Merged(carts[account].lines, carts[guest].lines) :
                carts' = [carts EXCEPT ![guest].owner = "merged",
                                       ![account].lines = lines, ![account].version = @ + 1]
  <2>1. PICK lines \in Merged(carts[account].lines, carts[guest].lines) :
          carts' = [carts EXCEPT ![guest].owner = "merged",
                                 ![account].lines = lines, ![account].version = @ + 1]
      BY <1>7
  <2> DEFINE g == [carts[guest] EXCEPT !.owner = "merged"]
             c == [carts[account] EXCEPT !.lines = lines, !.version = carts[account].version + 1]
  <2>2. /\ guest \in 1 .. MaxCartId /\ carts[guest] \in Cart
        /\ account \in 1 .. MaxCartId /\ carts[account] \in Cart /\ guest # account
      BY <1>1, <1>2, <1>4, <1>7, MirrorAssumption
  <2>3. lines \in LinesType
      BY <2>2, MergedType
  <2>4. carts[account].version + 1 \in Nat /\ "merged" \in Owners
      BY <2>2
  <2>5. g \in Cart /\ c \in Cart
    <3> HIDE DEF Owners
    <3> QED BY ONLY <2>2, <2>3, <2>4, OwnedWith, RecordWith
  <2>6. /\ c.version = carts[account].version + 1 /\ c.owner = clerkUser
        /\ g.owner = "merged" /\ g.version = carts[guest].version
        /\ g.lines = carts[guest].lines
      BY <1>2, <1>7, <2>2
  <2>7. carts' = [[carts EXCEPT ![guest] = g] EXCEPT ![account] = c]
      BY <1>1, <2>1, <2>2 DEF Carts
  <2> HIDE DEF g, c
  <2>8. /\ carts' \in Carts /\ carts'[guest] = g /\ carts'[account] = c
        /\ \A k \in 1 .. MaxCartId : k # guest /\ k # account => carts'[k] = carts[k]
      BY <1>1, <2>2, <2>5, <2>7 DEF Carts
  <2>9. \A k \in 1 .. MaxCartId : carts[k].version \in Nat
      BY <1>4
  <2>10. Grown(carts, carts')
    <3>1. ASSUME NEW k \in 1 .. MaxCartId
          PROVE  /\ carts[k].version <= carts'[k].version
                 /\ carts'[k].version = carts[k].version => carts'[k].lines = carts[k].lines
      <4>1. CASE k = guest
          BY <2>6, <2>8, <2>9, <4>1
      <4>2. CASE k = account
        <5>1. carts[k].version \in Nat /\ carts'[k].version = carts[k].version + 1
            BY <2>6, <2>8, <2>9, <4>2
        <5> QED BY <5>1
      <4>3. CASE k # guest /\ k # account
          BY <2>8, <2>9, <4>3
      <4> QED BY <4>1, <4>2, <4>3
    <3> QED BY <3>1 DEF Grown
  <2>11. \A k \in 1 .. MaxCartId : carts'[k].owner = "none" => carts'[k].version = 0
      BY <1>1, <2>6, <2>8, MirrorAssumption DEF ServerOK
  <2> QED BY <1>1, <2>8, <2>10, <2>11 DEF ServerOK
<1> QED BY <1>3, <1>5, <1>6, <1>7

LEMMA ServerAdoptsKeeps ==
    ASSUME MirrorInv, NEW i \in DOMAIN joins, ServerAdopts(i)
    PROVE  MirrorInv'
<1> DEFINE guest == CartOf("guest", token)
           account == CartOf(clerkUser, 0)
           j == IF account = 0 THEN guest ELSE account
           dto == AnswerOf(carts', j)
<1>1. ServerOK' /\ Grown(carts, carts') /\ carts \in Carts /\ carts' \in Carts
    BY ServerAdoptsGrows DEF ServerOK, MirrorInv
<1>2. /\ Quiet /\ UNCHANGED <<mirror, guessing>>
      /\ joins' = [joins EXCEPT ![i].at = "adopted", ![i].cart = dto]
    BY DEF ServerAdopts, AnswerOf
<1>3. j \in 0 .. MaxCartId
    BY <1>1, CartOfType
<1> HIDE DEF j
<1>4. dto \in Dtos /\ IsAnswerOf(carts', dto)
    BY <1>1, <1>3, FreshAnswer
<1> HIDE DEF dto
<1>5. joins' \in Seq(JoinsOf(carts', clerkUser))
    BY <1>1, <1>2, <1>4, AnsweredType
<1> QED BY <1>1, <1>2, <1>5, JoinMovesKeeps

LEMMA JoinKeeps ==
    ASSUME MirrorInv, NEW i \in DOMAIN joins, JoinStep(i) \/ JoinFails(i)
    PROVE  MirrorInv'
<1>1. 0 \in 0 .. MaxCartId /\ token \in 0 .. MaxCartId
    BY MirrorAssumption DEF MirrorInv, ServerOK
<1>2. CASE MergeLands(i)
    BY <1>1, <1>2, JoinLandsKeeps DEF MergeLands
<1>3. CASE AccountCartLands(i)
    BY <1>1, <1>3, JoinLandsKeeps DEF AccountCartLands, server
<1> QED BY <1>2, <1>3, JoinWaitsKeeps, ServerAdoptsKeeps, ServerLoadsKeeps DEF JoinStep

-----------------------------------------------------------------------------
(* The background read, and the account's other devices.                    *)
LEMMA ReadKeeps ==
    ASSUME MirrorInv, BackgroundRead \/ ReadFails
    PROVE  MirrorInv'
<1>1. /\ NoWriteChanges /\ UNCHANGED <<server, mirror, guessing>> /\ UNCHANGED carts
      /\ UNCHANGED <<generation, queue, head, pending, clerkUser, joins, clicks>>
    BY DEF BackgroundRead, ReadFails, NoWriteChanges, server, writes, who
<1>2. ServerOK' /\ SessionOK' /\ MirrorOK' /\ WritesOK' /\ HeadOK'
    BY <1>1 DEF MirrorInv, ServerOK, SessionOK, MirrorOK, WritesOK, HeadOK,
                MirrorIsOfTheSession, NoWriteChanges, who, server
<1>3. GuessesAreFollowed'
    BY <1>1 DEF MirrorInv, GuessesAreFollowed, Clean, Pending, IsOlder
<1> DEFINE dto == CartAnswer(CartOf(clerkUser, token))
<1>4. dto \in Dtos /\ IsAnswerOf(carts, dto)
    BY CartOfType, CartAnswerType DEF MirrorInv, ServerOK
<1>5. CASE BackgroundRead
  <2>1. read' = [at |-> "answered", cart |-> dto] /\ reads' = reads + 1 /\ reads < MaxReads
      BY <1>5 DEF BackgroundRead
  <2> HIDE DEF dto
  <2>2. reads' \in 0 .. MaxReads
      BY <2>1, MirrorAssumption DEF MirrorInv, ReadOK
  <2>3. ReadOK'
      BY <1>1, <1>4, <2>1, <2>2 DEF ReadOK
  <2> QED BY <1>2, <1>3, <2>3 DEF MirrorInv
<1>6. CASE ReadFails
  <2>1. read' = NoRead /\ reads' = reads /\ NoRead.cart = EmptyCart
      BY <1>6 DEF ReadFails, NoRead
  <2>2. ReadOK'
      BY <2>1, Empties DEF MirrorInv, ReadOK
  <2> QED BY <1>2, <1>3, <2>2 DEF MirrorInv
<1> QED BY <1>5, <1>6

LEMMA ReadLandsKeeps ==
    ASSUME MirrorInv, ReadLands
    PROVE  MirrorInv'
<1>1. /\ NoWriteChanges /\ UNCHANGED server /\ UNCHANGED carts /\ UNCHANGED clerkUser
      /\ read' = NoRead /\ reads' = reads
      /\ UNCHANGED <<generation, queue, head, pending, joins, clicks>>
    BY DEF ReadLands, NoWriteChanges, server, writes, who
<1>2. read.cart \in Dtos /\ IsAnswerOf(carts, read.cart)
    BY DEF MirrorInv, ReadOK
<1>3. /\ MirrorOK' /\ mirror'.ownerId = mirror.ownerId
      /\ UNCHANGED <<mirror, guessing>> \/ Clean'
  <2>1. CASE MayAdoptRead
    <3>1. adoptServerCart(read.cart, mirror.ownerId)
        BY <2>1 DEF ReadLands
    <3> QED BY <1>1, <1>2, <3>1, AdoptAsOwner
  <2>2. CASE ~MayAdoptRead
    <3>1. UNCHANGED <<mirror, guessing>>
        BY <2>2 DEF ReadLands
    <3> QED BY <1>1, <3>1 DEF MirrorInv, MirrorOK, MirrorIsOfTheSession
  <2> QED BY <2>1, <2>2
<1>4. ServerOK' /\ SessionOK' /\ WritesOK' /\ HeadOK'
    BY <1>1, <1>3 DEF MirrorInv, ServerOK, SessionOK, WritesOK, HeadOK,
                      NoWriteChanges, who, server
<1>5. NoRead.cart = EmptyCart
    BY DEF NoRead
<1>6. ReadOK'
    BY <1>1, <1>5, Empties DEF MirrorInv, ReadOK
<1>7. GuessesAreFollowed'
  <2>1. CASE Clean'
      BY <2>1 DEF GuessesAreFollowed
  <2>2. CASE UNCHANGED <<mirror, guessing>>
      BY <1>1, <2>2 DEF MirrorInv, GuessesAreFollowed, Clean, Pending, IsOlder
  <2> QED BY <1>3, <2>1, <2>2
<1> QED BY <1>3, <1>4, <1>6, <1>7 DEF MirrorInv

LEMMA OtherDeviceKeeps ==
    ASSUME MirrorInv, NEW i \in DOMAIN carts, NEW a \in Parts, OtherDevice(i, a)
    PROVE  MirrorInv'
<1> DEFINE line == IF carts[i].lines[a] = NoLine
                     THEN [quantity |-> 1, isSelected |-> TRUE] ELSE NoLine
           lines == [carts[i].lines EXCEPT ![a] = line]
           c == [carts[i] EXCEPT !.lines = lines, !.version = carts[i].version + 1]
           Owners == Users \union {"none", "guest", "merged"}
           Cart == [owner : Owners, version : Nat, lines : LinesType]
<1>1. /\ NoWriteChanges /\ UNCHANGED <<token, mirror, read, guessing>>
      /\ UNCHANGED <<generation, queue, head, pending, clerkUser, joins, clicks, sessions, forgotten>>
      /\ reads < MaxReads /\ reads' = reads + 1 /\ carts[i].owner \in Users
    BY DEF OtherDevice, NoWriteChanges, writes, who
<1>2. carts \in Carts /\ ServerOK /\ i \in 1 .. MaxCartId
    BY DEF MirrorInv, ServerOK, Carts
<1>3. carts[i] \in Cart
    BY <1>2 DEF Carts
<1>4. line \in [quantity : 0 .. MaxQuantity, isSelected : BOOLEAN]
    BY MirrorAssumption DEF NoLine
<1>5. carts' = [carts EXCEPT ![i] = c]
    BY <1>2, <1>3 DEF OtherDevice, Carts, LinesType
<1> HIDE DEF line
<1>6. lines \in LinesType
    BY <1>3, <1>4 DEF LinesType
<1>7. carts[i].version + 1 \in Nat
    BY <1>3
<1>8. c \in Cart
  <2> HIDE DEF Owners, lines
  <2> QED BY ONLY <1>3, <1>6, <1>7, RecordWith
<1>9. carts[i].version < c.version /\ c.owner # "none"
    BY <1>1, <1>3, MirrorAssumption
<1> HIDE DEF c
<1>10. /\ carts' \in Carts /\ Grown(carts, carts')
       /\ \A k \in 1 .. MaxCartId : carts'[k].owner = "none" => carts'[k].version = 0
    BY <1>2, <1>5, <1>8, <1>9, CartChanges
<1>11. ServerOK'
    BY <1>1, <1>10 DEF MirrorInv, ServerOK
<1>12. SessionOK'
  <2>1. JoinsOf(carts, clerkUser) \subseteq JoinsOf(carts', clerkUser)
      BY <1>10, <1>11, CartsGrow
  <2>2. joins \in Seq(JoinsOf(carts', clerkUser))
      BY <2>1, SeqMonotonic, ElementOfSeq DEF MirrorInv, SessionOK
  <2> QED BY <1>1, <2>2 DEF MirrorInv, SessionOK
<1>13. MirrorOK' /\ WritesOK' /\ HeadOK'
    BY <1>1, <1>10, <1>11, CartsGrow DEF MirrorInv, MirrorOK, WritesOK, HeadOK, MirrorIsOfTheSession
<1>14. reads' \in 0 .. MaxReads
    BY <1>1, MirrorAssumption DEF MirrorInv, ReadOK
<1>15. ReadOK'
    BY <1>1, <1>10, <1>11, <1>14, CartsGrow DEF MirrorInv, ReadOK
<1>16. GuessesAreFollowed'
    BY <1>1, <1>10, <1>11, CartsGrow DEF MirrorInv, GuessesAreFollowed, Clean, Pending, IsOlder
<1> QED BY <1>11, <1>12, <1>13, <1>15, <1>16 DEF MirrorInv

-----------------------------------------------------------------------------
(* A page load.                                                             *)
LEMMA ASequence ==
    ASSUME NEW S, IsFiniteSet(S)
    PROVE  SetToSeq(S) \in [1 .. Cardinality(S) -> S] /\ Cardinality(S) \in Nat
<1>1. Cardinality(S) \in Nat /\ ExistsBijection(1 .. Cardinality(S), S)
    BY FS_CardinalityType
<1>2. \E f \in [1 .. Cardinality(S) -> S] : IsInjective(f)
    BY <1>1 DEF ExistsBijection, Bijection, Injection
<1> QED BY <1>1, <1>2 DEF SetToSeq

LEMMA LoadedType ==
    ASSUME NEW owners \in SUBSET (Users \union {"guest"})
    PROVE  /\ Loaded(SetToSeq(owners)) \in Carts
           /\ \A i \in 1 .. MaxCartId :
                Loaded(SetToSeq(owners))[i].owner = "none"
                  => Loaded(SetToSeq(owners))[i].version = 0
<1> DEFINE held == SetToSeq(owners)
           Owners == Users \union {"none", "guest", "merged"}
           Cart == [owner : Owners, version : Nat, lines : LinesType]
<1>1. IsFiniteSet(owners)
  <2>1. IsFiniteSet({"guest"})
      BY FS_Singleton
  <2>2. IsFiniteSet(Users \union {"guest"})
      BY <2>1, MirrorAssumption, FS_Union
  <2> QED BY <2>2, FS_Subset
<1>2. \A i \in DOMAIN held : held[i] \in Users \union {"guest"}
    BY <1>1, ASequence
<1>3. AStoredLine \in LinesType
  <2>1. [quantity |-> 1, isSelected |-> TRUE] \in [quantity : 0 .. MaxQuantity, isSelected : BOOLEAN]
      BY MirrorAssumption
  <2>2. NoLines \in LinesType
      BY Empties
  <2> QED BY <2>1, <2>2, SomePart DEF AStoredLine, LinesType
<1> HIDE DEF held
<1>4. ASSUME NEW i \in 1 .. MaxCartId
      PROVE  /\ Loaded(held)[i] \in Cart
             /\ Loaded(held)[i].owner = "none" => Loaded(held)[i].version = 0
  <2>1. CASE i \in DOMAIN held
      BY <1>2, <1>3, <2>1, MirrorAssumption DEF Loaded
  <2>2. CASE i \notin DOMAIN held
      BY <2>2, Empties DEF Loaded
  <2> QED BY <2>1, <2>2
<1>5. Loaded(held) \in [1 .. MaxCartId -> Cart]
  <2> HIDE DEF Cart
  <2>1. Loaded(held) = [i \in 1 .. MaxCartId |-> Loaded(held)[i]]
      BY DEF Loaded
  <2> QED BY ONLY <1>4, <2>1
<1> QED BY <1>4, <1>5 DEF Carts, held

LEMMA MirrorLoads ==
    ASSUME MirrorInit
    PROVE  MirrorInv
<1>1. PICK owners \in SUBSET (Users \union {"guest"}) : carts = Loaded(SetToSeq(owners))
    BY DEF MirrorInit
<1>2. /\ carts \in Carts
      /\ \A i \in 1 .. MaxCartId : carts[i].owner = "none" => carts[i].version = 0
    BY <1>1, LoadedType
<1> DEFINE IdOf(owner) == CHOOSE k \in 0 .. MaxCartId :
                            IF \E c \in DOMAIN carts : carts[c].owner = owner
                              THEN k # 0 /\ carts[k].owner = owner ELSE k = 0
<1>3. PICK owner \in Users \union {"guest"} :
        /\ token = IF owner = "guest" THEN IdOf(owner) ELSE 0
        /\ mirror = [lines |-> CartAnswer(IdOf(owner)).lines, cartId |-> IdOf(owner),
                     version |-> CartAnswer(IdOf(owner)).version, ownerId |-> owner]
        /\ clerkUser \in {"loading"} \union {s \in {owner} : s = "guest"}
    BY DEF MirrorInit
<1> DEFINE i == IdOf(owner)
<1>4. i \in 0 .. MaxCartId
  <2>1. \E k \in 0 .. MaxCartId : IF \E c \in DOMAIN carts : carts[c].owner = owner
                                    THEN k # 0 /\ carts[k].owner = owner ELSE k = 0
    <3>1. CASE \E c \in DOMAIN carts : carts[c].owner = owner
      <4>1. PICK c \in DOMAIN carts : carts[c].owner = owner
          BY <3>1
      <4>2. c \in 0 .. MaxCartId /\ c # 0
          BY <1>2, <4>1, MirrorAssumption DEF Carts
      <4> QED BY <3>1, <4>1, <4>2
    <3>2. CASE ~\E c \in DOMAIN carts : carts[c].owner = owner
      <4>1. 0 \in 0 .. MaxCartId
          BY MirrorAssumption
      <4> QED BY <3>2, <4>1
    <3> QED BY <3>1, <3>2
  <2> QED BY <2>1
<1>5. /\ token = (IF owner = "guest" THEN i ELSE 0)
      /\ mirror = [lines |-> CartAnswer(i).lines, cartId |-> i,
                   version |-> CartAnswer(i).version, ownerId |-> owner]
    BY <1>3
<1> HIDE DEF i, IdOf
<1>6. CartAnswer(i) \in Dtos /\ IsAnswerOf(carts, CartAnswer(i)) /\ CartAnswer(i).id = i
    BY <1>2, <1>4, CartAnswerType DEF CartAnswer, Dto, EmptyCart
<1>7. /\ sessions = 0 /\ joins = <<>> /\ forgotten = FALSE
      /\ generation = 0 /\ queue = <<>> /\ head = HeadIdle
      /\ pending = [a \in Parts |-> NoWrite]
      /\ read = NoRead /\ reads = 0 /\ clicks = 0 /\ guessing = FALSE
    BY DEF MirrorInit
<1>8. 0 \in 0 .. MaxCartId /\ 0 \in 0 .. MaxSignIns /\ 0 \in 0 .. MaxReads /\ 0 \in 0 .. MaxClicks
    BY MirrorAssumption
<1>9. ServerOK
    BY <1>2, <1>4, <1>5, <1>8 DEF ServerOK
<1>10. SessionOK
  <2>1. joins \in Seq(JoinsOf(carts, clerkUser))
      BY <1>7, EmptySeq
  <2>2. clerkUser \in Visitors
      BY <1>3 DEF Visitors
  <2> QED BY <1>7, <1>8, <2>1, <2>2 DEF SessionOK
<1>11. MirrorOK
  <2>1. mirror \in Mirrors
      BY <1>3, <1>4, <1>5, <1>6 DEF Mirrors, Dtos
  <2>2. NoLater(carts, mirror.cartId, mirror.version)
      BY <1>5, <1>6 DEF IsAnswerOf
  <2>3. MirrorIsOfTheSession
      BY <1>3, <1>5 DEF MirrorIsOfTheSession
  <2> QED BY <1>7, <2>1, <2>2, <2>3 DEF MirrorOK
<1>12. WritesOK
  <2>1. NoWrite \in PendingOf(clerkUser, mirror.ownerId)
      BY Empties DEF PendingOf, OfSession
  <2> QED BY <1>7, <1>8, <2>1 DEF WritesOK
<1>13. HeadOK
    BY <1>7, Empties DEF HeadOK, HeadIdle
<1>14. ReadOK
    BY <1>7, <1>8, Empties DEF ReadOK, NoRead
<1>15. GuessesAreFollowed
    BY <1>5, <1>6 DEF GuessesAreFollowed, Clean, IsAnswerOf
<1> QED BY <1>9, <1>10, <1>11, <1>12, <1>13, <1>14, <1>15 DEF MirrorInv

LEMMA MirrorStays ==
    ASSUME MirrorInv, UNCHANGED MirrorVars
    PROVE  MirrorInv'
<1>1. ServerOK' /\ SessionOK' /\ MirrorOK' /\ WritesOK'
    BY DEF MirrorVars, MirrorInv, ServerOK, SessionOK, MirrorOK, MirrorIsOfTheSession, WritesOK
<1>2. HeadOK' /\ ReadOK'
    BY DEF MirrorVars, MirrorInv, HeadOK, ReadOK
<1>3. GuessesAreFollowed'
    BY DEF MirrorVars, MirrorInv, GuessesAreFollowed, Clean, Pending, IsOlder
<1> QED BY <1>1, <1>2, <1>3 DEF MirrorInv

LEMMA MirrorSteps ==
    ASSUME MirrorInv, [MirrorNext]_MirrorVars
    PROVE  MirrorInv'
<1>1. CASE Shopper
    BY <1>1, ShopperKeeps
<1>2. CASE \E a \in Parts : DebounceEnds(a)
    BY <1>2, DebounceKeeps
<1>3. CASE QueueStep
    BY <1>3, QueueStepKeeps
<1>4. CASE \E u \in Users \union {"guest"} : SessionChanges(u)
    BY <1>4, SessionChangesKeeps
<1>5. CASE \E i \in DOMAIN joins : JoinStep(i) \/ JoinFails(i)
    BY <1>5, JoinKeeps
<1>6. CASE BackgroundRead \/ ReadLands \/ ReadFails
    BY <1>6, ReadKeeps, ReadLandsKeeps
<1>7. CASE \E i \in DOMAIN carts, a \in Parts : OtherDevice(i, a)
    BY <1>7, OtherDeviceKeeps
<1>8. CASE UNCHANGED MirrorVars
    BY <1>8, MirrorStays
<1> QED BY <1>1, <1>2, <1>3, <1>4, <1>5, <1>6, <1>7, <1>8 DEF MirrorNext

-----------------------------------------------------------------------------
(* The mirror (use-cart.ts), the sign-in's reads (use-session-sync.ts) and  *)
(* the server's carts keep the invariant, whatever order their answers land *)
(* in and whatever fails.                                                   *)
THEOREM MirrorInvariant == MirrorSpec => []MirrorInv
<1>1. MirrorInit => MirrorInv
    BY MirrorLoads
<1>2. MirrorInv /\ [MirrorNext]_MirrorVars => MirrorInv'
    BY MirrorSteps
<1> QED BY <1>1, <1>2, PTL DEF MirrorSpec

(* Every variable of use-cart.ts and use-session-sync.ts keeps its type: an *)
(* unfinished join is of an account and awaits writes that were queued.     *)
THEOREM MirrorTypeCorrect == MirrorSpec => []MirrorTypeOK
<1>1. MirrorInv => MirrorTypeOK
  <2> SUFFICES ASSUME MirrorInv PROVE MirrorTypeOK
      OBVIOUS
  <2>1. queue \in Seq(Writes) /\ pending \in [Parts -> Writes]
    <3>1. QueuedOf(generation, clerkUser, mirror.ownerId) \subseteq Writes
        BY DEF QueuedOf
    <3>2. PendingOf(clerkUser, mirror.ownerId) \subseteq Writes
        BY DEF PendingOf
    <3>3. queue \in Seq(Writes)
        BY <3>1, SeqMonotonic, ElementOfSeq DEF MirrorInv, WritesOK
    <3>4. pending \in [Parts -> Writes]
        BY <3>2 DEF MirrorInv, WritesOK
    <3> QED BY <3>3, <3>4
  <2>2. joins \in Seq(Joins)
    <3>1. JoinsOf(carts, clerkUser) \subseteq Joins
        BY DEF JoinsOf
    <3> QED BY <3>1, SeqMonotonic, ElementOfSeq DEF MirrorInv, SessionOK
  <2>3. carts \in Carts /\ token \in 0 .. MaxCartId
      BY DEF MirrorInv, ServerOK
  <2>4. /\ clerkUser \in Visitors /\ sessions \in 0 .. MaxSignIns /\ forgotten \in BOOLEAN
        /\ mirror \in Mirrors /\ guessing \in BOOLEAN
      BY DEF MirrorInv, SessionOK, MirrorOK
  <2>5. /\ generation \in Nat /\ clicks \in 0 .. MaxClicks /\ head \in Heads
        /\ read \in [at : {"idle", "answered"}, cart : Dtos] /\ reads \in 0 .. MaxReads
      BY DEF MirrorInv, WritesOK, HeadOK, ReadOK
  <2> QED BY <2>1, <2>2, <2>3, <2>4, <2>5
          DEF MirrorTypeOK, Carts, Visitors, Mirrors, Heads, Joins
<1> QED BY <1>1, MirrorInvariant, PTL

(* The mirror is a guest's or of the account signed in (joinSession and     *)
(* reset in use-session-sync.ts): an answer of an earlier session's, however*)
(* late, never puts its account's cart on this one's screen as its own.     *)
THEOREM MirrorIsTheSessions == MirrorSpec => []MirrorIsOfTheSession
<1>1. MirrorInv => MirrorIsOfTheSession
    BY DEF MirrorInv, MirrorOK
<1> QED BY <1>1, MirrorInvariant, PTL

(* At rest the mirror that holds the server's version of a cart shows the   *)
(* server's lines of it (adoptServerCart in use-cart.ts, which drops an     *)
(* answer older than the mirror): no optimistic line outlives the answers.  *)
THEOREM AtRestItShowsTheCart == MirrorSpec => []VersionTellsLines
<1>1. MirrorInv => VersionTellsLines
    BY DEF MirrorInv, GuessesAreFollowed, Clean, Tells, VersionTellsLines, hasPendingWrite
<1> QED BY <1>1, MirrorInvariant, PTL

(* While a write is out, only the server's answer to it moves it.           *)
LEMMA SentThenAnswered ==
    ASSUME MirrorInv, [MirrorNext]_MirrorVars, head.at = "sent", head' # head, carts' # carts
    PROVE  ServerWrites
<1>1. ~Shopper
    BY DEF Shopper, addLineToMirror, toggleLineSelected, removeLineFromMirror, setQuantity,
           setAllLinesSelected, clearMirror, Send
<1>2. ASSUME NEW a \in Parts, DebounceEnds(a)
      PROVE  FALSE
    BY <1>2 DEF DebounceEnds
<1>3. ASSUME NEW u \in Users \union {"guest"}, SessionChanges(u)
      PROVE  FALSE
    BY <1>3 DEF SessionChanges
<1>4. ASSUME NEW i \in DOMAIN joins, JoinStep(i) \/ JoinFails(i)
      PROVE  FALSE
  <2>1. Quiet
      BY <1>4 DEF JoinStep, JoinFails, CustomerFiled, WritesSettled, ServerAdopts, MergeLands,
                  ServerLoads, AccountCartLands
  <2> QED BY <2>1 DEF Quiet, writes
<1>5. ASSUME \/ BackgroundRead \/ ReadLands \/ ReadFails
             \/ \E i \in DOMAIN carts, a \in Parts : OtherDevice(i, a)
      PROVE  FALSE
  <2>1. NoWriteChanges
      BY <1>5 DEF BackgroundRead, ReadLands, ReadFails, OtherDevice
  <2> QED BY <2>1 DEF NoWriteChanges, writes
<1>6. ASSUME QueueStep
      PROVE  ServerWrites
  <2>1. ~WriteFails
      BY DEF WriteFails, QuietWhile, server
  <2> QED BY <1>6, <2>1 DEF QueueStep, SkipStale, SendHead, ClerkAnswers, WriteLands, RecoverStarts,
                            ServerRereads, RecoverLands, RecoverFails
<1> QED BY <1>1, <1>2, <1>3, <1>4, <1>5, <1>6 DEF MirrorNext, MirrorVars

(* A click on an account's mirror writes that account's cart and no other,  *)
(* unless it waited for Clerk past isStale and Clerk answered another       *)
(* (`run` in use-cart.ts, which skips a write queued before a reset, and    *)
(* the session's token, asked for only when the write is sent).             *)
THEOREM WritesGoToTheirOwner == MirrorSpec => WrittenByItsOwner
<1>1. ASSUME MirrorInv, [MirrorNext]_MirrorVars, NEW i \in DOMAIN carts,
             head.at = "sent", carts'[i] # carts[i], head' # head, queue[1].by \in Users
      PROVE  carts'[i].owner = queue[1].by \/ (head.waited /\ head.visitor # queue[1].by)
  <2>1. ServerWrites
      BY <1>1, SentThenAnswered
  <2>2. i \in 1 .. MaxCartId
      BY <1>1 DEF MirrorInv, ServerOK, Carts
  <2>3. head.visitor = queue[1].by \/ (head.waited /\ head.visitor # queue[1].by)
      BY <1>1 DEF MirrorInv, HeadOK
  <2>4. CASE head.visitor = queue[1].by
      BY <1>1, <2>1, <2>2, <2>4, ServerWritesGrows
  <2> QED BY <2>3, <2>4
<1>2. MirrorInv /\ [MirrorNext]_MirrorVars
        => [\A i \in DOMAIN carts :
              /\ head.at = "sent" /\ carts'[i] # carts[i] /\ head' # head
              /\ queue[1].by \in Users
              => \/ carts'[i].owner = queue[1].by
                 \/ head.waited /\ head.visitor # queue[1].by]_MirrorVars
    BY <1>1
<1> QED BY <1>2, MirrorInvariant, PTL DEF MirrorSpec, WrittenByItsOwner
=============================================================================
