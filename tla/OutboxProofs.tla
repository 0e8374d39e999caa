---------------------------- MODULE OutboxProofs ----------------------------
(***************************************************************************)
(* Proofs about Outbox, for any number of events, handlers and instances,   *)
(* any batch size and any limits: type correctness, the lease invariants    *)
(* and that the relay implements AtLeastOnce.                               *)
(***************************************************************************)
EXTENDS Outbox, TLAPS

(* The claim that stands for "none" is a claim like any other.              *)
LEMMA NoClaimIsClaim == NoClaim \in Claims
BY OutboxAssumption DEF NoClaim, Claims

(* What the claim of a row that has attempts left is made of.               *)
LEMMA ClaimOfIsClaim ==
    ASSUME TypeOK, NEW e \in Claimable
    PROVE  /\ ClaimOf(e) \in Claims
           /\ e \in Events
           /\ attempts[e] + 1 \in 0 .. MaxAttempts
BY OutboxAssumption DEF ClaimOf, Claims, Claimable, Due, TypeOK

(* Every step of the system keeps every variable in its type.               *)
LEMMA TypeStep == TypeOK /\ [Next]_vars => TypeOK'
<1> SUFFICES ASSUME TypeOK, [Next]_vars PROVE TypeOK'
    OBVIOUS
<1> USE OutboxAssumption, NoClaimIsClaim
<1>1. ASSUME NEW e \in Events, Append(e) PROVE TypeOK'
    BY <1>1 DEF TypeOK, Append, memory, outside
<1>2. ASSUME NEW e \in Events, TimePasses(e) PROVE TypeOK'
    BY <1>2 DEF TypeOK, TimePasses, memory, outside
<1>3. ASSUME NEW e \in Events, ResetAttempts(e) PROVE TypeOK'
    BY <1>3 DEF TypeOK, ResetAttempts, memory
<1>4. ASSUME NEW r \in Relays, NEW S \in SUBSET Claimable, claimDue(r, S)
      PROVE  TypeOK'
    <2>1. attempts' \in [Events -> 0 .. MaxAttempts]
        BY <1>4, ClaimOfIsClaim DEF claimDue, TypeOK
    <2>2. batch' \in [Relays -> SUBSET Claims]
        <3>1. {ClaimOf(e) : e \in S} \in SUBSET Claims
            BY ClaimOfIsClaim
        <3> QED BY <1>4, <3>1 DEF claimDue, TypeOK
    <2>3. at' \in [Relays -> {"idle", "batch", "handlers", "recording"}]
        BY <1>4 DEF claimDue, TypeOK, Goto
    <2>4. /\ isDue' \in [Events -> BOOLEAN]
          /\ claimToken' \in [Events -> Nat]
        BY <1>4 DEF claimDue, TypeOK
    <2> QED BY <1>4, <2>1, <2>2, <2>3, <2>4 DEF claimDue, TypeOK, outside
<1>5. ASSUME NEW r \in Relays, NEW c \in batch[r], deliver(r, c)
      PROVE  TypeOK'
    <2>1. c \in Claims
        BY <1>5 DEF TypeOK
    <2>2. Subscribers[c.event] \subseteq Handlers
        BY <2>1 DEF Claims
    <2> QED BY <1>5, <2>1, <2>2 DEF TypeOK, deliver, Goto, table, outside
<1>6. ASSUME NEW r \in Relays, finishBatch(r) PROVE TypeOK'
    BY <1>6 DEF TypeOK, finishBatch, Goto, table, outside
<1>7. ASSUME NEW r \in Relays, NEW h \in Handlers, HandlerSucceeds(r, h)
      PROVE  TypeOK'
    <2>1. current[r].event \in Events
        BY DEF TypeOK, Claims
    <2> QED BY <1>7, <2>1 DEF TypeOK, HandlerSucceeds, Goto, table
<1>8. ASSUME NEW r \in Relays, NEW h \in Handlers, HandlerFails(r, h)
      PROVE  TypeOK'
    <2>1. current[r].event \in Events
        BY DEF TypeOK, Claims
    <2> QED BY <1>8, <2>1 DEF TypeOK, HandlerFails, table
<1>9. ASSUME NEW r \in Relays, recordHandlerDone(r) \/ RecordFails(r)
      PROVE  TypeOK'
    <2>1. Recorded(r) \in [Events -> SUBSET Handlers]
        BY DEF TypeOK, Claims, Recorded
    <2> QED BY <1>9, <2>1
            DEF TypeOK, recordHandlerDone, RecordFails, Goto, outside
<1>10. ASSUME NEW r \in Relays, deleteDelivered(r) PROVE TypeOK'
    BY <1>10 DEF TypeOK, deleteDelivered, Leave, Goto, outside
<1>11. ASSUME NEW r \in Relays, scheduleRetry(r) PROVE TypeOK'
    <2>1. current[r].event \in Events
        BY DEF TypeOK, Claims
    <2> QED BY <1>11, <2>1 DEF TypeOK, scheduleRetry, Leave, Goto
<1>12. ASSUME NEW r \in Relays, LeaseLost(r) PROVE TypeOK'
    BY <1>12 DEF TypeOK, LeaseLost, Leave, Goto, table, outside
<1>13. ASSUME NEW r \in Relays, AbandonBatch(r) PROVE TypeOK'
    BY <1>13 DEF TypeOK, AbandonBatch, Leave, Goto, table, outside
<1>14. CASE UNCHANGED vars
    BY <1>14 DEF TypeOK, vars, table, memory, outside
<1> QED
    BY <1>1, <1>2, <1>3, <1>4, <1>5, <1>6, <1>7, <1>8, <1>9, <1>10, <1>11,
       <1>12, <1>13, <1>14 DEF Next, RelayStep

(* Every variable keeps its type; in particular no row is claimed more than *)
(* MaxAttempts times between two resets.                                    *)
THEOREM TypeCorrect == Spec => []TypeOK
<1>1. Init => TypeOK
    BY OutboxAssumption, NoClaimIsClaim DEF Init, TypeOK
<1> QED BY <1>1, TypeStep, PTL DEF Spec

(***************************************************************************)
(* The inductive invariant.  LeaseExclusive is not inductive: it rests on   *)
(* no claim having a token its row has not reached (so that the next token  *)
(* is new) and on every token being handed out once.  NoRepeatUnderLease    *)
(* rests on what a held claim remembers of completedHandlers.               *)
(***************************************************************************)

(* A claim is of a written row, with a token the row has had, and what it   *)
(* remembers as completed was delivered.                                    *)
RealClaim(c) ==
    /\ stored[c.event] # "unwritten"
    /\ c.token > 0 /\ c.token <= claimToken[c.event]
    /\ \A h \in c.completed : <<c.event, h>> \in delivered

ClaimsAreReal == \A r \in Relays : \A c \in Claimed(r) : RealClaim(c)

(* A token of a row belongs to one claim.                                   *)
TokensAreUnique ==
    \A r1, r2 \in Relays :
        \A c1 \in Claimed(r1), c2 \in Claimed(r2) :
            c1.event = c2.event /\ c1.token = c2.token => r1 = r2 /\ c1 = c2

(* A relay's own batch does not hold the claim it is delivering.            *)
CurrentLeftBatch ==
    \A r \in Relays : Delivering(r) => current[r] \notin batch[r]

(* A row's completedHandlers is what the holder of its lease was told, as   *)
(* long as it has not begun the delivery.                                   *)
BatchIsFresh ==
    \A r \in Relays : \A c \in batch[r] :
        heldBy(c) => completed[c.event] \subseteq c.completed

(* Where a delivery has got to.                                             *)
OnItsWay(r) ==
    LET e == current[r].event IN
    /\ todo[r] \subseteq Subscribers[e]
    /\ todo[r] \intersect doing[r] = {}
    /\ \A h \in doing[r] : <<e, h>> \in delivered
    /\ ~failed[r] =>
         /\ Subscribers[e] # {}
         /\ \A h \in Subscribers[e] \ todo[r] : <<e, h>> \in delivered

DeliveryInv == \A r \in Relays : Delivering(r) => OnItsWay(r)

(* A handler waits to be recorded only while the relay records it.          *)
DoingIsRecorded == \A r \in Relays : at[r] # "recording" => doing[r] = {}

(* A row is gone only after every subscriber ran.                           *)
DeletedWasDelivered ==
    \A e \in Events :
        stored[e] = "deleted" => \A h \in Subscribers[e] : <<e, h>> \in delivered

Inv == /\ TypeOK
       /\ ClaimsAreReal
       /\ TokensAreUnique
       /\ CurrentLeftBatch
       /\ BatchIsFresh
       /\ DeliveryInv
       /\ DoingIsRecorded
       /\ DeletedWasDelivered
       /\ CompletedWasDelivered
       /\ NoRepeatUnderLease

(* Every step but a claim: the database's, a person's and a relay's own.    *)
Other ==
    \/ \E e \in Events : Append(e) \/ TimePasses(e) \/ ResetAttempts(e)
    \/ \E r \in Relays : RelayStep(r) \/ AbandonBatch(r)
    \/ UNCHANGED vars

(* Next is a claim, or one of the other steps.                              *)
LEMMA NextCases ==
    [Next]_vars <=> \/ Other
                    \/ \E r \in Relays : \E S \in SUBSET Claimable : claimDue(r, S)
BY DEF Next, Other

(* What no step but a claim does: it hands out no token and no claim, and   *)
(* takes back no delivery.                                                  *)
HandsOutNothing ==
    /\ claimToken' = claimToken
    /\ delivered \subseteq delivered'
    /\ \A e \in Events : /\ stored[e] # "unwritten" => stored'[e] # "unwritten"
                         /\ stored[e] = "deleted" => stored'[e] = "deleted"
    /\ \A q \in Relays : /\ batch'[q] \subseteq batch[q]
                         /\ Claimed(q)' \subseteq Claimed(q)

(* The other steps hand out no claim.                                       *)
LEMMA OtherHandsOutNothing == TypeOK /\ Other => HandsOutNothing
<1> SUFFICES ASSUME TypeOK, Other PROVE HandsOutNothing
    OBVIOUS
<1> USE DEF HandsOutNothing, Claimed, Delivering, TypeOK
<1>1. ASSUME NEW e \in Events, Append(e) \/ TimePasses(e) \/ ResetAttempts(e)
      PROVE  HandsOutNothing
    BY <1>1 DEF Append, TimePasses, ResetAttempts, memory, outside
<1>2. ASSUME NEW r \in Relays, NEW c \in batch[r], deliver(r, c)
      PROVE  HandsOutNothing
    BY <1>2 DEF deliver, Goto, table, outside
<1>3. ASSUME NEW r \in Relays, NEW h \in Handlers,
             HandlerSucceeds(r, h) \/ HandlerFails(r, h)
      PROVE  HandsOutNothing
    BY <1>3 DEF HandlerSucceeds, HandlerFails, Goto, table
<1>4. ASSUME NEW r \in Relays, recordHandlerDone(r) \/ RecordFails(r)
      PROVE  HandsOutNothing
    BY <1>4 DEF recordHandlerDone, RecordFails, Goto, outside
<1>5. ASSUME NEW r \in Relays, deleteDelivered(r) \/ scheduleRetry(r)
      PROVE  HandsOutNothing
    BY <1>5 DEF deleteDelivered, scheduleRetry, Leave, Goto, outside
<1>6. ASSUME NEW r \in Relays, finishBatch(r) \/ LeaseLost(r) \/ AbandonBatch(r)
      PROVE  HandsOutNothing
    BY <1>6 DEF finishBatch, LeaseLost, AbandonBatch, Leave, Goto, table, outside
<1>7. CASE UNCHANGED vars
    BY <1>7 DEF vars, table, memory, outside
<1> QED
    BY <1>1, <1>2, <1>3, <1>4, <1>5, <1>6, <1>7 DEF Other, RelayStep

(* What a claim does: the claims of r become those of the rows in S, which  *)
(* are written, with a token above any their row had.                       *)
LEMMA ClaimFrame ==
    ASSUME Inv, NEW r \in Relays, NEW S \in SUBSET Claimable, claimDue(r, S)
    PROVE  /\ delivered' = delivered /\ stored' = stored /\ completed' = completed
           /\ at' = [at EXCEPT ![r] = "batch"]
           /\ Claimed(r)' = {ClaimOf(e) : e \in S}
           /\ batch'[r] = {ClaimOf(e) : e \in S}
           /\ \A q \in Relays \ {r} : /\ Claimed(q)' = Claimed(q)
                                      /\ batch'[q] = batch[q]
           /\ \A e \in S : /\ e \in Events /\ stored[e] = "stored"
                           /\ claimToken'[e] = claimToken[e] + 1
           /\ \A e \in Events : e \notin S => claimToken'[e] = claimToken[e]
BY DEF claimDue, Inv, TypeOK, Claimed, Delivering, Claimable, Due, Goto, outside

(* Every step keeps claims real: a claim is handed out with the token just  *)
(* written to its row.                                                      *)
LEMMA ClaimsAreRealStep == Inv /\ [Next]_vars => ClaimsAreReal'
<1> SUFFICES ASSUME Inv, [Next]_vars, NEW q \in Relays, NEW c \in Claimed(q)'
             PROVE  RealClaim(c)'
    BY DEF ClaimsAreReal
<1> USE DEF Inv, RealClaim
<1>1. CASE Other
    <2>1. c \in Claimed(q) /\ c \in Claims
        BY <1>1, OtherHandsOutNothing DEF HandsOutNothing, Claimed, TypeOK
    <2> QED BY <1>1, <2>1, OtherHandsOutNothing
            DEF HandsOutNothing, ClaimsAreReal, Claims
<1>2. ASSUME NEW r \in Relays, NEW S \in SUBSET Claimable, claimDue(r, S)
      PROVE  RealClaim(c)'
    <2>1. CASE q = r
        <3>1. PICK e \in S : c = ClaimOf(e)
            BY <1>2, <2>1, ClaimFrame
        <3> QED BY <1>2, <3>1, ClaimFrame
                DEF ClaimOf, CompletedWasDelivered, TypeOK
    <2>2. CASE q # r
        <3>1. c \in Claimed(q) /\ c \in Claims
            BY <1>2, <2>2, ClaimFrame DEF Claimed, TypeOK
        <3>2. claimToken'[c.event] >= claimToken[c.event]
            <4>1. c.event \in Events /\ claimToken \in [Events -> Nat]
                BY <3>1 DEF Claims, TypeOK
            <4>2. CASE c.event \in S
                BY <1>2, <4>1, <4>2, ClaimFrame
            <4>3. CASE c.event \notin S
                BY <1>2, <4>1, <4>3, ClaimFrame
            <4> QED BY <4>2, <4>3
        <3>3. /\ claimToken'[c.event] \in Nat /\ claimToken[c.event] \in Nat
              /\ c.token \in Nat
            BY <3>1, TypeStep DEF Claims, TypeOK
        <3> QED BY <1>2, <3>1, <3>2, <3>3, ClaimFrame DEF ClaimsAreReal
    <2> QED BY <2>1, <2>2
<1> QED BY <1>1, <1>2, NextCases

(* Every step keeps tokens unique: the one a claim writes is new to its row.*)
LEMMA TokensAreUniqueStep == Inv /\ [Next]_vars => TokensAreUnique'
<1> SUFFICES ASSUME Inv, [Next]_vars,
                    NEW q1 \in Relays, NEW q2 \in Relays,
                    NEW c1 \in Claimed(q1)', NEW c2 \in Claimed(q2)',
                    c1.event = c2.event, c1.token = c2.token
             PROVE  q1 = q2 /\ c1 = c2
    BY DEF TokensAreUnique
<1> USE DEF Inv
<1>1. CASE Other
    BY <1>1, OtherHandsOutNothing DEF HandsOutNothing, TokensAreUnique
<1>2. ASSUME NEW r \in Relays, NEW S \in SUBSET Claimable, claimDue(r, S)
      PROVE  q1 = q2 /\ c1 = c2
    <2>1. ASSUME NEW q \in Relays \ {r}, NEW c \in Claimed(q)', NEW e \in S,
                 c.event = e, c.token = ClaimOf(e).token
          PROVE  FALSE
        <3>1. c \in Claimed(q) /\ c \in Claims
            BY <1>2, <2>1, ClaimFrame DEF Claimed, TypeOK
        <3>2. c.token <= claimToken[e]
            BY <2>1, <3>1 DEF ClaimsAreReal, RealClaim
        <3> QED BY <1>2, <2>1, <3>1, <3>2, ClaimFrame DEF ClaimOf, TypeOK
    <2>2. CASE q1 = r /\ q2 = r
        BY <1>2, <2>2, ClaimFrame DEF ClaimOf
    <2>3. CASE q1 = r /\ q2 # r
        BY <1>2, <2>1, <2>3, ClaimFrame DEF ClaimOf
    <2>4. CASE q1 # r /\ q2 = r
        BY <1>2, <2>1, <2>4, ClaimFrame DEF ClaimOf
    <2>5. CASE q1 # r /\ q2 # r
        BY <1>2, <2>5, ClaimFrame DEF TokensAreUnique
    <2> QED BY <2>2, <2>3, <2>4, <2>5
<1> QED BY <1>1, <1>2, NextCases

(* Every step keeps the claim being delivered out of its batch.             *)
LEMMA CurrentLeftBatchStep == Inv /\ [Next]_vars => CurrentLeftBatch'
<1> SUFFICES ASSUME Inv, [Next]_vars, NEW q \in Relays, Delivering(q)'
             PROVE  current'[q] \notin batch'[q]
    BY DEF CurrentLeftBatch
<1> USE DEF Inv, TypeOK, Delivering, CurrentLeftBatch
<1>1. ASSUME NEW r \in Relays, NEW c \in batch[r], deliver(r, c)
      PROVE  current'[q] \notin batch'[q]
    BY <1>1 DEF deliver, Goto
<1>2. CASE current'[q] = current[q] /\ Delivering(q) /\ batch'[q] \subseteq batch[q]
    BY <1>2
<1>3. ASSUME Other, ~ \E r \in Relays : \E c \in batch[r] : deliver(r, c)
      PROVE  current'[q] = current[q] /\ Delivering(q) /\ batch'[q] \subseteq batch[q]
    <2> USE DEF Append, TimePasses, ResetAttempts, finishBatch, HandlerSucceeds,
                HandlerFails, recordHandlerDone, RecordFails, deleteDelivered,
                scheduleRetry, LeaseLost, AbandonBatch, Leave, Goto, memory, table
    <2>1. current'[q] = current[q] /\ Delivering(q)
        BY <1>3 DEF Other, RelayStep, Settling, vars
    <2> QED BY <1>3, <2>1, OtherHandsOutNothing DEF HandsOutNothing
<1>4. ASSUME NEW r \in Relays, NEW S \in SUBSET Claimable, claimDue(r, S)
      PROVE  current'[q] = current[q] /\ Delivering(q) /\ batch'[q] = batch[q]
    BY <1>4 DEF claimDue, Goto
<1> QED BY <1>1, <1>2, <1>3, <1>4, NextCases

(* A lease of this state that is held after a step is one held before it.   *)
LEMMA HeldWasHeld ==
    ASSUME Inv, [Next]_vars, NEW q \in Relays, NEW c \in Claimed(q), heldBy(c)'
    PROVE  heldBy(c)
<1> USE DEF Inv, heldBy
<1>1. /\ c \in Claims /\ c.event \in Events /\ c.token \in Nat
      /\ stored[c.event] # "unwritten" /\ c.token <= claimToken[c.event]
      /\ claimToken \in [Events -> Nat]
      /\ stored \in [Events -> {"unwritten", "stored", "deleted"}]
    BY DEF Claimed, Claims, TypeOK, ClaimsAreReal, RealClaim
<1>2. CASE Other
    BY <1>1, <1>2, OtherHandsOutNothing DEF HandsOutNothing
<1>3. ASSUME NEW r \in Relays, NEW S \in SUBSET Claimable, claimDue(r, S)
      PROVE  heldBy(c)
    <2>1. CASE c.event \in S
        <3>1. claimToken'[c.event] = claimToken[c.event] + 1
            BY <1>1, <1>3, <2>1, ClaimFrame
        <3> QED BY <1>1, <3>1
    <2>2. CASE c.event \notin S
        BY <1>1, <1>3, <2>2, ClaimFrame
    <2> QED BY <2>1, <2>2
<1> QED BY <1>2, <1>3, NextCases

(* A row learns of a finished handler only from the holder of its lease.    *)
LEMMA OnlyHoldersRecord ==
    ASSUME TypeOK, [Next]_vars
    PROVE  \/ completed' = completed
           \/ \E r \in Relays : /\ at[r] = "recording" /\ heldBy(current[r])
                                /\ completed' = Recorded(r)
                                /\ batch' = batch /\ current' = current
                                /\ todo' = todo
BY DEF Next, RelayStep, vars, table, Append, TimePasses, ResetAttempts, claimDue,
       deliver, finishBatch, HandlerSucceeds, HandlerFails, recordHandlerDone,
       RecordFails, deleteDelivered, scheduleRetry, LeaseLost, AbandonBatch

(* Every step keeps batches fresh: only the holder of a row's lease records *)
(* anything in it, and one with the claim still in its batch has not begun. *)
LEMMA BatchIsFreshStep == Inv /\ [Next]_vars => BatchIsFresh'
<1> SUFFICES ASSUME Inv, [Next]_vars, NEW q \in Relays, NEW c \in batch'[q],
                    heldBy(c)'
             PROVE  completed'[c.event] \subseteq c.completed
    BY DEF BatchIsFresh
<1> USE DEF Inv
<1>1. ASSUME c \in batch[q] PROVE completed'[c.event] \subseteq c.completed
    <2>1. c \in Claimed(q) /\ c \in Claims
        BY <1>1 DEF Claimed, TypeOK
    <2>2. heldBy(c) /\ completed[c.event] \subseteq c.completed
        BY <1>1, <2>1, HeldWasHeld DEF BatchIsFresh
    <2>3. ASSUME NEW r \in Relays, at[r] = "recording", heldBy(current[r]),
                 completed' = Recorded(r)
          PROVE  c.event # current[r].event
        <3>1. current[r] \in Claimed(r)
            BY <2>3 DEF Claimed, Delivering
        <3>2. c.event = current[r].event => q = r /\ c = current[r]
            BY <2>1, <2>2, <2>3, <3>1 DEF heldBy, TokensAreUnique
        <3> QED BY <1>1, <2>3, <3>2 DEF CurrentLeftBatch, Delivering
    <2>4. current[q] \in Claims
        BY DEF TypeOK
    <2> QED BY <2>1, <2>2, <2>3, OnlyHoldersRecord
            DEF Recorded, Claims, TypeOK
<1>2. CASE Other
    BY <1>1, <1>2, OtherHandsOutNothing DEF HandsOutNothing
<1>3. ASSUME NEW r \in Relays, NEW S \in SUBSET Claimable, claimDue(r, S)
      PROVE  completed'[c.event] \subseteq c.completed
    <2>1. CASE q = r
        BY <1>3, <2>1, ClaimFrame DEF ClaimOf
    <2>2. CASE q # r
        BY <1>1, <1>3, <2>2, ClaimFrame
    <2> QED BY <2>1, <2>2
<1> QED BY <1>2, <1>3, NextCases

(* Every step records only what was delivered.                              *)
LEMMA CompletedWasDeliveredStep ==
    Inv /\ [Next]_vars => CompletedWasDelivered'
<1> SUFFICES ASSUME Inv, [Next]_vars PROVE CompletedWasDelivered'
    OBVIOUS
<1> USE DEF Inv
<1>1. delivered \subseteq delivered'
    BY NextCases, ClaimFrame, OtherHandsOutNothing DEF HandsOutNothing
<1>2. CASE completed' = completed
    BY <1>1, <1>2 DEF CompletedWasDelivered
<1>3. ASSUME NEW r \in Relays, at[r] = "recording", completed' = Recorded(r)
      PROVE  CompletedWasDelivered'
    <2>1. \A h \in doing[r] : <<current[r].event, h>> \in delivered
        BY <1>3 DEF DeliveryInv, OnItsWay, Delivering
    <2> QED BY <1>1, <1>3, <2>1 DEF Recorded, TypeOK, CompletedWasDelivered
<1> QED BY <1>2, <1>3, OnlyHoldersRecord

(* Every step leaves a holder with nothing to run that its row records.     *)
LEMMA NoRepeatStep == Inv /\ [Next]_vars => NoRepeatUnderLease'
<1> SUFFICES ASSUME Inv, [Next]_vars, NEW q \in Relays,
                    Delivering(q)', heldBy(current[q])'
             PROVE  todo'[q] \intersect completed'[current'[q].event] = {}
    BY DEF NoRepeatUnderLease
<1> USE DEF Inv
<1>1. ASSUME NEW c \in batch[q], deliver(q, c)
      PROVE  todo'[q] \intersect completed'[current'[q].event] = {}
    <2>1. c \in Claimed(q) /\ current'[q] = c /\ completed' = completed
          /\ todo'[q] = Subscribers[c.event] \ c.completed
        BY <1>1 DEF deliver, Claimed, TypeOK, table
    <2>2. heldBy(c)
        BY <2>1, HeldWasHeld
    <2> QED BY <2>1, <2>2 DEF BatchIsFresh
<1>2. ASSUME Delivering(q), current'[q] = current[q], todo'[q] \subseteq todo[q]
      PROVE  todo'[q] \intersect completed'[current'[q].event] = {}
    <2>1. current[q] \in Claimed(q) /\ current[q] \in Claims
        BY <1>2 DEF Claimed, TypeOK
    <2>2. heldBy(current[q])
        BY <1>2, <2>1, HeldWasHeld
    <2>3. todo[q] \intersect completed[current[q].event] = {}
        BY <1>2, <2>2 DEF NoRepeatUnderLease
    <2>4. ASSUME NEW r \in Relays, at[r] = "recording", heldBy(current[r]),
                 completed' = Recorded(r), current[q].event = current[r].event
          PROVE  todo[q] \intersect doing[r] = {}
        <3>1. current[r] \in Claimed(r)
            BY <2>4 DEF Claimed, Delivering
        <3>2. q = r
            BY <2>1, <2>2, <2>4, <3>1 DEF heldBy, TokensAreUnique
        <3> QED BY <1>2, <3>2 DEF DeliveryInv, OnItsWay
    <2> QED BY <1>2, <2>1, <2>3, <2>4, OnlyHoldersRecord
            DEF Recorded, Claims, TypeOK
<1>3. CASE Other /\ ~ \E c \in batch[q] : deliver(q, c)
    <2> USE DEF Append, TimePasses, ResetAttempts, finishBatch, HandlerSucceeds,
                HandlerFails, recordHandlerDone, RecordFails, deleteDelivered,
                scheduleRetry, LeaseLost, AbandonBatch, Leave, Goto, memory,
                table, deliver, Delivering, TypeOK
    <2>1. Delivering(q) /\ current'[q] = current[q] /\ todo'[q] \subseteq todo[q]
        BY <1>3 DEF Other, RelayStep, vars
    <2> QED BY <1>2, <2>1
<1>4. ASSUME NEW r \in Relays, NEW S \in SUBSET Claimable, claimDue(r, S)
      PROVE  todo'[q] \intersect completed'[current'[q].event] = {}
    BY <1>2, <1>4 DEF claimDue, Goto, TypeOK, Delivering
<1> QED BY <1>1, <1>3, <1>4, NextCases

(* Every step keeps deliveries on their way.                                *)
LEMMA DeliveryInvStep == Inv /\ [Next]_vars => DeliveryInv'
<1> SUFFICES ASSUME Inv, [Next]_vars, NEW q \in Relays, Delivering(q)'
             PROVE  OnItsWay(q)'
    BY DEF DeliveryInv
<1> USE DEF Inv, TypeOK, Delivering, DeliveryInv, OnItsWay
<1>0. delivered \subseteq delivered'
    BY NextCases, ClaimFrame, OtherHandsOutNothing DEF HandsOutNothing
<1>1. ASSUME NEW c \in batch[q], deliver(q, c) PROVE OnItsWay(q)'
    <2>1. c \in Claimed(q)
        BY <1>1 DEF Claimed
    <2>2. \A h \in c.completed : <<c.event, h>> \in delivered
        BY <2>1 DEF ClaimsAreReal, RealClaim
    <2>3. /\ current'[q] = c /\ at'[q] = "handlers" /\ doing'[q] = doing[q]
          /\ todo'[q] = Subscribers[c.event] \ c.completed
          /\ failed'[q] = (Subscribers[c.event] = {})
        BY <1>1 DEF deliver, Goto
    <2>4. doing[q] = {}
        BY <1>1 DEF deliver, DoingIsRecorded
    <2> QED BY <1>0, <2>2, <2>3, <2>4
<1>2. ASSUME NEW h \in Handlers, HandlerSucceeds(q, h) PROVE OnItsWay(q)'
    <2>1. OnItsWay(q) /\ at[q] = "handlers"
        BY <1>2 DEF HandlerSucceeds
    <2>2. /\ delivered' = delivered \union {<<current[q].event, h>>}
          /\ todo'[q] = todo[q] \ {h} /\ doing'[q] = {h} /\ at'[q] = "recording"
          /\ current'[q] = current[q] /\ failed'[q] = failed[q]
        BY <1>2 DEF HandlerSucceeds, Goto
    <2> QED BY <2>1, <2>2
<1>3. ASSUME NEW h \in Handlers, HandlerFails(q, h) PROVE OnItsWay(q)'
    BY <1>0, <1>3 DEF HandlerFails
<1>4. ASSUME recordHandlerDone(q) \/ RecordFails(q) PROVE OnItsWay(q)'
    BY <1>0, <1>4 DEF recordHandlerDone, RecordFails, Goto
<1>5. ASSUME deleteDelivered(q) \/ scheduleRetry(q) \/ LeaseLost(q)
             \/ finishBatch(q) \/ AbandonBatch(q)
      PROVE  FALSE
    BY <1>5 DEF deleteDelivered, scheduleRetry, LeaseLost, finishBatch,
                AbandonBatch, Leave, Goto
<1>6. ASSUME NEW r \in Relays \ {q}, RelayStep(r) \/ AbandonBatch(r)
      PROVE  OnItsWay(q)'
    <2> USE DEF deliver, finishBatch, HandlerSucceeds, HandlerFails,
                recordHandlerDone, RecordFails, deleteDelivered, scheduleRetry,
                LeaseLost, AbandonBatch, Leave, Goto, table
    <2>1. /\ at'[q] = at[q] /\ current'[q] = current[q] /\ todo'[q] = todo[q]
          /\ doing'[q] = doing[q] /\ failed'[q] = failed[q]
        BY <1>6 DEF RelayStep
    <2> QED BY <1>0, <2>1
<1>7. ASSUME NEW e \in Events, Append(e) \/ TimePasses(e) \/ ResetAttempts(e)
      PROVE  OnItsWay(q)'
    BY <1>0, <1>7 DEF Append, TimePasses, ResetAttempts, memory
<1>8. ASSUME NEW r \in Relays, NEW S \in SUBSET Claimable, claimDue(r, S)
      PROVE  OnItsWay(q)'
    BY <1>0, <1>8 DEF claimDue, Goto
<1>9. CASE UNCHANGED vars
    BY <1>9 DEF vars, memory, outside
<1> QED
    BY <1>1, <1>2, <1>3, <1>4, <1>5, <1>6, <1>7, <1>8, <1>9 DEF Next, RelayStep

(* Every step but the record itself leaves no handler to be recorded.       *)
LEMMA DoingIsRecordedStep == Inv /\ [Next]_vars => DoingIsRecorded'
BY DEF Inv, TypeOK, DoingIsRecorded, Next, RelayStep, vars, memory, Append,
       TimePasses, ResetAttempts, claimDue, deliver, finishBatch,
       HandlerSucceeds, HandlerFails, recordHandlerDone, RecordFails,
       deleteDelivered, scheduleRetry, LeaseLost, AbandonBatch, Leave, Goto

(* What the deletion of a row has behind it.                                *)
LEMMA DeletionIsDue ==
    ASSUME Inv, NEW r \in Relays, deleteDelivered(r)
    PROVE  /\ current[r].event \in Events
           /\ Subscribers[current[r].event] # {}
           /\ \A h \in Subscribers[current[r].event] :
                <<current[r].event, h>> \in delivered
<1>1. current[r].event \in Events
    BY DEF Inv, TypeOK, Claims
<1> QED BY <1>1 DEF deleteDelivered, Settling, Inv, DeliveryInv, OnItsWay, Delivering

(* Rows change only by being appended or deleted.                           *)
LEMMA RowsFrame ==
    ASSUME [Next]_vars,
           ~ \E e \in Events : Append(e),
           ~ \E r \in Relays : deleteDelivered(r)
    PROVE  stored' = stored
BY DEF Next, RelayStep, vars, table, TimePasses, ResetAttempts, claimDue, deliver,
       finishBatch, HandlerSucceeds, HandlerFails, recordHandlerDone, RecordFails,
       scheduleRetry, LeaseLost, AbandonBatch

(* Every step deletes only what was delivered to each of its subscribers.   *)
LEMMA DeletedWasDeliveredStep == Inv /\ [Next]_vars => DeletedWasDelivered'
<1> SUFFICES ASSUME Inv, [Next]_vars, NEW e \in Events, stored'[e] = "deleted"
             PROVE  \A h \in Subscribers[e] : <<e, h>> \in delivered'
    BY DEF DeletedWasDelivered
<1> USE DEF Inv, TypeOK
<1>0. delivered \subseteq delivered'
    BY NextCases, ClaimFrame, OtherHandsOutNothing DEF HandsOutNothing
<1>1. CASE stored[e] = "deleted"
    BY <1>0, <1>1 DEF DeletedWasDelivered
<1>2. ASSUME NEW r \in Relays, deleteDelivered(r), stored[e] # "deleted"
      PROVE  \A h \in Subscribers[e] : <<e, h>> \in delivered'
    <2>1. e = current[r].event
        BY <1>2 DEF deleteDelivered
    <2> QED BY <1>0, <1>2, <2>1, DeletionIsDue
<1>3. ASSUME NEW a \in Events, Append(a) PROVE stored[e] = "deleted"
    BY <1>3 DEF Append
<1> QED BY <1>1, <1>2, <1>3, RowsFrame

(* The inductive invariant holds of every reachable state.                  *)
LEMMA InvInductive == Spec => []Inv
<1>1. Init => Inv
    <2> SUFFICES ASSUME Init PROVE Inv
        OBVIOUS
    <2>1. TypeOK
        BY OutboxAssumption, NoClaimIsClaim DEF Init, TypeOK
    <2>2. \A r \in Relays : ~Delivering(r) /\ batch[r] = {} /\ Claimed(r) = {}
        BY DEF Init, Delivering, Claimed
    <2>3. CompletedWasDelivered
        BY DEF Init, CompletedWasDelivered
    <2> QED BY <2>1, <2>2, <2>3
            DEF Inv, ClaimsAreReal, TokensAreUnique, CurrentLeftBatch,
                BatchIsFresh, DeliveryInv, NoRepeatUnderLease, DoingIsRecorded,
                DeletedWasDelivered, Init
<1>2. Inv /\ [Next]_vars => Inv'
    BY TypeStep, ClaimsAreRealStep, TokensAreUniqueStep, CurrentLeftBatchStep,
       BatchIsFreshStep, DeliveryInvStep, DoingIsRecordedStep,
       DeletedWasDeliveredStep, CompletedWasDeliveredStep, NoRepeatStep
       DEF Inv
<1> QED BY <1>1, <1>2, PTL DEF Spec

(* Two instances never both hold the lease of one event.                    *)
THEOREM LeasesAreExclusive == Spec => []LeaseExclusive
<1>1. Inv => LeaseExclusive
    BY DEF Inv, TokensAreUnique, LeaseExclusive, heldBy
<1> QED BY <1>1, InvInductive, PTL

(* Under a lease that still holds, a retry never repeats a handler whose    *)
(* completion the row already records.                                      *)
THEOREM RetriesRepeatNothing == Spec => []NoRepeatUnderLease
<1>1. Inv => NoRepeatUnderLease
    BY DEF Inv
<1> QED BY <1>1, InvInductive, PTL

(* completedHandlers never claims a send that did not go out.               *)
THEOREM CompletedIsTrue == Spec => []CompletedWasDelivered
<1>1. Inv => CompletedWasDelivered
    BY DEF Inv
<1> QED BY <1>1, InvInductive, PTL

(* The relay implements at-least-once delivery: whatever crashes, no row is *)
(* deleted before every subscriber of its event has run.                    *)
THEOREM RelayImplementsAtLeastOnce == Spec => DeliversAtLeastOnce
<1>1. Init => AtLeastOnceDelivery!Init
    BY DEF Init, AtLeastOnceDelivery!Init
<1>2. Inv /\ [Next]_vars => [AtLeastOnceDelivery!Next]_AtLeastOnceDelivery!vars
    <2> SUFFICES ASSUME Inv, [Next]_vars
                 PROVE  [AtLeastOnceDelivery!Next]_AtLeastOnceDelivery!vars
        OBVIOUS
    <2> USE DEF AtLeastOnceDelivery!Next, AtLeastOnceDelivery!vars
    <2>1. ASSUME NEW e \in Events, Append(e)
          PROVE  AtLeastOnceDelivery!Next
        BY <2>1 DEF Append, AtLeastOnceDelivery!Append, outside
    <2>2. ASSUME NEW r \in Relays, NEW h \in Handlers,
                 HandlerSucceeds(r, h) \/ HandlerFails(r, h)
          PROVE  \/ AtLeastOnceDelivery!Next
                 \/ UNCHANGED <<stored, delivered>>
        <3> DEFINE e == current[r].event
        <3>1. /\ stored' = stored
              /\ \/ delivered' = delivered
                 \/ delivered' = delivered \union {<<e, h>>}
            BY <2>2 DEF HandlerSucceeds, HandlerFails, table
        <3>2. Delivering(r) /\ h \in todo[r]
            BY <2>2 DEF HandlerSucceeds, HandlerFails, Delivering
        <3>3. e \in Events /\ h \in Subscribers[e]
            BY <3>2 DEF Inv, TypeOK, Claims, DeliveryInv, OnItsWay
        <3>4. stored[e] # "unwritten"
            BY <3>2 DEF Inv, ClaimsAreReal, RealClaim, Claimed
        <3>5. CASE stored[e] = "deleted"
            BY <3>1, <3>3, <3>5 DEF Inv, DeletedWasDelivered
        <3>6. CASE stored[e] = "stored"
            BY <3>1, <3>3, <3>6 DEF AtLeastOnceDelivery!Deliver
        <3> QED BY <3>3, <3>4, <3>5, <3>6 DEF Inv, TypeOK
    <2>3. ASSUME NEW r \in Relays, deleteDelivered(r)
          PROVE  AtLeastOnceDelivery!Next
        <3>1. AtLeastOnceDelivery!Forget(current[r].event)
            BY <2>3, DeletionIsDue
            DEF deleteDelivered, heldBy, outside, AtLeastOnceDelivery!Forget
        <3> QED BY <2>3, <3>1, DeletionIsDue
    <2>4. ASSUME ~ \E e \in Events : Append(e),
                 ~ \E r \in Relays : deleteDelivered(r),
                 ~ \E r \in Relays, h \in Handlers : \/ HandlerSucceeds(r, h)
                                                     \/ HandlerFails(r, h)
          PROVE  UNCHANGED <<stored, delivered>>
        <3>1. delivered' = delivered
            BY <2>4 DEF Next, RelayStep, vars, outside, TimePasses, ResetAttempts,
                        claimDue, deliver, finishBatch, recordHandlerDone,
                        RecordFails, scheduleRetry, LeaseLost, AbandonBatch
        <3> QED BY <2>4, <3>1, RowsFrame
    <2> QED BY <2>1, <2>2, <2>3, <2>4
<1> QED BY <1>1, <1>2, InvInductive, PTL
        DEF Spec, DeliversAtLeastOnce, AtLeastOnceDelivery!Spec
=============================================================================
