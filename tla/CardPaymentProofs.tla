-------------------------- MODULE CardPaymentProofs --------------------------
(***************************************************************************)
(* Proofs about CardPayment, for any number of requests, deliveries,        *)
(* attempts, sessions and repeated events: type correctness, that an order  *)
(* is announced exactly once and only when its whole total was paid, and    *)
(* that its customer is charged at most once, for a session on record.      *)
(*                                                                          *)
(* Then about PaidOrder, the payment with the outbox: each component runs   *)
(* in it as its own module specifies, so that all proved of either holds of *)
(* it, and together they implement CardOrder.                               *)
(***************************************************************************)
EXTENDS PaidOrder, TLAPS

(***************************************************************************)
(* The inductive invariant.                                                 *)
(***************************************************************************)
HasRow(a) == rowStatus[a] # "NONE"

(* The key of the attempt is spent on a session that was never paid: no     *)
(* session of the attempt can be paid any more, nor was one.                *)
Dead(a) == opened[a] > 0 /\ session[Newest(a)] \in {"failed", "closed"}

(* Asked for again, the key would answer a fresh session.                   *)
Reopened(a) == a \in reopens /\ session[Newest(a)] \in {"open", "approved"}

(* Sessions are opened in order, and a key reopens only past its expiry.    *)
SessionsAreOpened ==
    \A a \in Attempts : \A n \in 1 .. MaxSessions :
        session[<<a, n>>] = "none" <=> n > opened[a]

ReopensAreExpired ==
    \A a \in reopens : opened[a] \in 1 .. MaxSessions - 1 /\ Newest(a) \in expired

(* Money is taken only from a session the browser was given.                *)
ChargesAreShown ==
    \A t \in Transactions :
        taken[t] # "none" => session[t] \in {"approved", "paid"} /\ t \in shown

(* A row, and the browser, have the last session of their attempt.          *)
RowsAreLast ==
    \A a \in Attempts : HasRow(a) => opened[a] > 0 /\ rowTransaction[a] = Newest(a)

ShownAreOnRecord ==
    \A t \in shown : t \in Transactions /\ HasRow(t[1]) /\ t = Newest(t[1])

(* A key reopened under a row is never asked for: attemptToOpen refuses an  *)
(* ended session.                                                           *)
ReopenedIsLeft ==
    \A a \in Attempts :
        Reopened(a) /\ HasRow(a) => \A q \in Requests : request[q] = "idle"

(* What a request is about.                                                 *)
RequestsAsk ==
    \A q \in Requests : request[q] # "idle" => attempt[q] \in Attempts

RecordingIsLast ==
    \A q \in Requests :
        request[q] = "recording" =>
            /\ opened[attempt[q]] > 0
            /\ answered[q] = Newest(attempt[q])
            /\ ~Reopened(attempt[q])

MarkingIsDead == \A q \in Requests : request[q] = "marking" => Dead(attempt[q])

(* An attempt is opened only once every one before it is dead.              *)
EarlierAreDead ==
    \A a \in Attempts :
        HasRow(a) \/ (\E q \in Requests : request[q] # "idle" /\ attempt[q] = a)
            => \A b \in 1 .. a - 1 : Dead(b)

FailedIsDead == \A a \in Attempts : rowStatus[a] = "FAILED" => Dead(a)

(* Dominaite reports what became of a session, and never takes it back.     *)
StateOf(outcome) ==
    CASE outcome = "succeeded" -> "paid"
      [] outcome = "failed" -> "failed"
      [] OTHER -> "closed"

EventsAreTrue ==
    /\ \A e \in sent : session[e.transaction] = StateOf(e.outcome)
    /\ \A d \in Deliveries : \A e \in event[d] :
         session[e.transaction] = StateOf(e.outcome)

(* A delivery under way is of an attempt on record.                         *)
DeliveredIsOnRecord ==
    \A d \in Deliveries : \A e \in event[d] : RowOf(e.transaction) # {}

KeyInv == SessionsAreOpened /\ ReopensAreExpired /\ ChargesAreShown

SessionInv ==
    /\ RowsAreLast /\ ShownAreOnRecord /\ ReopenedIsLeft
    /\ RequestsAsk /\ RecordingIsLast /\ MarkingIsDead
    /\ EarlierAreDead /\ FailedIsDead /\ EventsAreTrue

Inv ==
    /\ TypeOK /\ KeyInv /\ SessionInv
    /\ DeliveredIsOnRecord /\ ProcessingIsPaid /\ AnnouncedOnce

(***************************************************************************)
(* Facts about keys and transactions.                                       *)
(***************************************************************************)

(* The last session of an opened key is a transaction.                      *)
LEMMA LastIsTransaction ==
    ASSUME TypeOK, NEW a \in Attempts, opened[a] > 0
    PROVE  Newest(a) \in Transactions
<1>1. opened[a] \in 0 .. MaxSessions
    BY DEF TypeOK
<1> QED BY <1>1, CardPaymentAssumption DEF Newest, Transactions

(* A key has opened so many sessions.                                       *)
LEMMA OpenedIsNat ==
    ASSUME TypeOK, NEW a \in Attempts
    PROVE  opened[a] \in Nat
<1>1. opened[a] \in 0 .. MaxSessions
    BY DEF TypeOK
<1> QED BY <1>1, CardPaymentAssumption

(* What a key is answered with is a transaction, within the bound.          *)
LEMMA AnswerIsTransaction ==
    ASSUME TypeOK, ReopensAreExpired, NEW a \in Attempts
    PROVE  /\ AnswerOf(a) \in Transactions
           /\ OpensNew(a) => opened[a] + 1 \in 1 .. MaxSessions
<1>0. opened[a] \in 0 .. MaxSessions
    BY DEF TypeOK
<1>1. CASE OpensNew(a)
    <2>1. opened[a] + 1 \in 1 .. MaxSessions
        BY <1>0, <1>1, CardPaymentAssumption DEF OpensNew, ReopensAreExpired
    <2> QED BY <1>1, <2>1 DEF AnswerOf, Transactions
<1>2. CASE ~OpensNew(a)
    <2>1. opened[a] > 0
        BY <1>0, <1>2, CardPaymentAssumption DEF OpensNew
    <2> QED BY <1>2, <2>1, LastIsTransaction DEF AnswerOf
<1> QED BY <1>1, <1>2

(* An event is of a transaction, and leads to one of a row's statuses.      *)
LEMMA EventIsTyped ==
    ASSUME NEW e \in Events
    PROVE  /\ e.transaction \in Transactions
           /\ e.outcome \in Outcomes
           /\ ATTEMPT_STATUS_BY_EVENT[e.outcome] \in RowStatuses
BY DEF Events, RowStatuses, Outcomes

(***************************************************************************)
(* Type correctness.  The bound on a key's sessions needs every reopened    *)
(* key to have a session left, and every request to ask for an attempt.     *)
(***************************************************************************)
RecordingIsTyped ==
    \A q \in Requests : request[q] = "recording" => answered[q] \in Transactions

TypeInv == TypeOK /\ ReopensAreExpired /\ RequestsAsk /\ RecordingIsTyped

(* What Dominaite answers keeps its own state typed.                        *)
LEMMA AnswersTyped ==
    ASSUME TypeOK, ReopensAreExpired, NEW a \in Attempts, Answers(a)
    PROVE  /\ opened' \in [Attempts -> 0 .. MaxSessions]
           /\ session' \in [Transactions ->
                            {"none", "open", "approved", "paid", "failed", "closed"}]
           /\ reopens' \subseteq Attempts
<1>1. CASE OpensNew(a)
    <2>1. opened[a] + 1 \in 0 .. MaxSessions
        BY <1>1, AnswerIsTransaction, CardPaymentAssumption
    <2> QED BY <1>1, <2>1 DEF Answers, TypeOK
<1>2. CASE ~OpensNew(a)
    BY <1>2 DEF Answers, TypeOK
<1> QED BY <1>1, <1>2

(* The locals of the requests, as TypeOK types them.                        *)
LocalsTyped ==
    /\ request \in [Requests ->
                      {"idle", "asking", "marking", "asking again", "recording"}]
    /\ attempt \in [Requests -> 0 .. MaxAttempts]
    /\ answered \in [Requests -> Transactions \union {NoTransaction}]

(* A request that ends keeps them typed.                                    *)
LEMMA EndRequestTyped ==
    ASSUME LocalsTyped, NEW q \in Requests, EndRequest(q)
    PROVE  LocalsTyped'
<1>1. 0 \in 0 .. MaxAttempts
    BY CardPaymentAssumption
<1> QED BY <1>1 DEF LocalsTyped, EndRequest, Goto

(* A delivery that ends keeps its locals typed.                             *)
LEMMA EndDeliveryTyped ==
    ASSUME TypeOK, NEW d \in Deliveries, EndDelivery(d)
    PROVE  /\ delivery' \in [Deliveries -> {"idle", "applying", "answering"}]
           /\ event' \in [Deliveries -> SUBSET Events]
           /\ seenStatus' \in [Deliveries -> OrderStatuses]
           /\ effect' \in [Deliveries -> {"applied", "unchanged", "duplicate"}]
BY DEF TypeOK, EndDelivery, OrderStatuses

(* A row given one of its statuses is still a row.                          *)
LEMMA SetRowTyped ==
    ASSUME TypeOK, NEW t, NEW status \in RowStatuses, SetRow(t, status)
    PROVE  rowStatus' \in [Attempts -> RowStatuses]
BY DEF TypeOK, SetRow

(* The end of a session, and what is reported of it, are typed.             *)
LEMMA EndTyped ==
    ASSUME TypeOK, NEW t \in Transactions, NEW outcome \in Outcomes,
           NEW state \in {"paid", "failed", "closed"}, End(t, state, outcome),
           UNCHANGED taken
    PROVE  TypeOK'
<1>1. [copy : 1 .. Copies, transaction : {t}, outcome : {outcome}] \subseteq Events
    BY DEF Events
<1>2. sent' \subseteq Events
    BY <1>1 DEF TypeOK, End
<1>3. session' \in [Transactions ->
                     {"none", "open", "approved", "paid", "failed", "closed"}]
    BY DEF TypeOK, End
<1> QED BY <1>2, <1>3 DEF TypeOK, End, order, rows, requests, deliveries

(* Every step of the system keeps every variable typed.                     *)
LEMMA TypeStep == TypeInv /\ [Next]_vars => TypeOK'
<1> SUFFICES ASSUME TypeOK, ReopensAreExpired, RequestsAsk, RecordingIsTyped,
                    [Next]_vars
             PROVE  TypeOK'
    BY DEF TypeInv
<1> USE CardPaymentAssumption
<1>1. ASSUME NEW q \in Requests, findPayableOrder(q) PROVE TypeOK'
    <2>1. attemptToOpen \subseteq 0 .. MaxAttempts
        BY DEF attemptToOpen, Attempts
    <2> QED BY <1>1, <2>1
            DEF TypeOK, findPayableOrder, Goto, order, rows, dominaite, deliveries
<1>2. ASSUME NEW q \in Requests, openSession(q) PROVE TypeOK'
    <2>1. attempt[q] \in Attempts
        BY <1>2 DEF openSession, Asking, RequestsAsk
    <2>2. AnswerOf(attempt[q]) \in Transactions
        BY <2>1, AnswerIsTransaction
    <2>3. /\ opened' \in [Attempts -> 0 .. MaxSessions]
          /\ session' \in [Transactions ->
                           {"none", "open", "approved", "paid", "failed", "closed"}]
          /\ reopens' \subseteq Attempts
        BY <1>2, <2>1, AnswersTyped DEF openSession
    <2>4. UNCHANGED <<expired, taken>>
        BY <1>2 DEF openSession, Answers
    <2> QED BY <1>2, <2>2, <2>3, <2>4
            DEF TypeOK, openSession, Goto, order, rows, deliveries
<1>3. ASSUME NEW q \in Requests, AnswerLost(q) PROVE TypeOK'
    <2>1. attempt[q] \in Attempts
        BY <1>3 DEF AnswerLost, Asking, RequestsAsk
    <2>2. /\ opened' \in [Attempts -> 0 .. MaxSessions]
          /\ session' \in [Transactions ->
                           {"none", "open", "approved", "paid", "failed", "closed"}]
          /\ reopens' \subseteq Attempts
        BY <1>3, <2>1, AnswersTyped DEF AnswerLost
    <2>3. UNCHANGED <<expired, taken>>
        BY <1>3 DEF AnswerLost, Answers
    <2>4. LocalsTyped'
        BY <1>3, EndRequestTyped DEF TypeOK, LocalsTyped, AnswerLost
    <2> QED BY <1>3, <2>2, <2>3, <2>4
            DEF TypeOK, LocalsTyped, AnswerLost, order, rows, deliveries
<1>4. ASSUME NEW q \in Requests, KeySpent(q) PROVE TypeOK'
    BY <1>4 DEF TypeOK, KeySpent, Goto, order, rows, dominaite, deliveries
<1>5. ASSUME NEW q \in Requests, markFailed(q) PROVE TypeOK'
    <2>1. rowStatus' \in [Attempts -> RowStatuses]
        BY <1>5 DEF TypeOK, markFailed, RowStatuses, ATTEMPT_STATUS_BY_EVENT, Outcomes
    <2>2. LocalsTyped'
        <3>1. CASE attemptAfter(attempt[q]) = {}
            BY <1>5, <3>1, EndRequestTyped DEF TypeOK, LocalsTyped, markFailed
        <3>2. CASE attemptAfter(attempt[q]) # {}
            <4>1. attempt[q] + 1 \in Attempts
                BY <3>2 DEF attemptAfter
            <4>2. attempt[q] \in Attempts
                BY <1>5 DEF markFailed, RequestsAsk
            <4>3. attempt[q] + 1 \in 0 .. MaxAttempts
                BY <4>1, <4>2 DEF Attempts
            <4> QED BY <1>5, <3>2, <4>3 DEF TypeOK, LocalsTyped, markFailed, Goto
        <3> QED BY <3>1, <3>2
    <2> QED BY <1>5, <2>1, <2>2
            DEF TypeOK, LocalsTyped, markFailed, order, dominaite, deliveries
<1>6. ASSUME NEW q \in Requests, recordOpened(q) PROVE TypeOK'
    <2>1. attempt[q] \in Attempts
        BY <1>6 DEF recordOpened, RequestsAsk
    <2>2. answered[q] \in Transactions
        BY <1>6 DEF recordOpened, RecordingIsTyped
    <2>3. rowStatus' \in [Attempts -> RowStatuses]
        <3>1. rowStatus \in [Attempts -> RowStatuses] /\ "OPEN" \in RowStatuses
            BY DEF TypeOK, RowStatuses
        <3> QED BY <1>6, <3>1 DEF recordOpened, rows
    <2>4. rowTransaction' \in [Attempts -> Transactions \union {NoTransaction}]
        BY <1>6, <2>2 DEF TypeOK, recordOpened, rows
    <2>5. shown' \subseteq Transactions
        BY <1>6, <2>2 DEF TypeOK, recordOpened
    <2>6. LocalsTyped'
        BY <1>6, EndRequestTyped DEF TypeOK, LocalsTyped, recordOpened
    <2> QED BY <1>6, <2>3, <2>4, <2>5, <2>6
            DEF TypeOK, LocalsTyped, recordOpened, order, dominaite, deliveries
<1>7. ASSUME NEW q \in Requests, RequestEnds(q) PROVE TypeOK'
    <2>1. LocalsTyped'
        BY <1>7, EndRequestTyped DEF TypeOK, LocalsTyped, RequestEnds
    <2> QED BY <1>7, <2>1
            DEF TypeOK, LocalsTyped, RequestEnds, order, rows, dominaite, deliveries
<1>8. ASSUME NEW d \in Deliveries, NEW e \in sent, findReportedAttempt(d, e)
      PROVE  TypeOK'
    BY <1>8 DEF TypeOK, findReportedAttempt, order, rows, dominaite, requests
<1>9. ASSUME NEW d \in Deliveries, NEW e \in event[d], LeaveUnpaid(d, e)
      PROVE  TypeOK'
    BY <1>9 DEF TypeOK, LeaveUnpaid, order, rows, dominaite, requests
<1>10. ASSUME NEW d \in Deliveries, NEW e \in event[d], confirmPaid(d, e)
       PROVE  TypeOK'
    <2>1. e \in Events
        BY DEF TypeOK
    <2>2. rowStatus' \in [Attempts -> RowStatuses]
        BY <1>10, SetRowTyped
        DEF TypeOK, confirmPaid, rows, RowStatuses, ATTEMPT_STATUS_BY_EVENT, Outcomes
    <2>3. orderStatus' \in OrderStatuses /\ announced' \in Nat
        <3>1. /\ orderStatus \in OrderStatuses /\ announced \in Nat
              /\ "PROCESSING" \in OrderStatuses
            BY DEF TypeOK, OrderStatuses
        <3> QED BY <1>10, <3>1 DEF confirmPaid, order
    <2>4. rowTransaction' = rowTransaction
        BY <1>10 DEF confirmPaid, rows
    <2>5. PICK result \in {"applied", "unchanged"} : onceForDelivery(d, e, result)
        BY <1>10 DEF confirmPaid
    <2> QED BY <2>1, <2>2, <2>3, <2>4, <2>5
            DEF TypeOK, onceForDelivery, dominaite, requests
<1>11. ASSUME NEW d \in Deliveries, NEW e \in event[d], closeAttempt(d, e)
       PROVE  TypeOK'
    <2>1. e \in Events
        BY DEF TypeOK
    <2>2. rowStatus' \in [Attempts -> RowStatuses]
        BY <1>11, <2>1, SetRowTyped, EventIsTyped DEF TypeOK, closeAttempt
    <2>3. UNCHANGED <<order, rowTransaction>>
        BY <1>11 DEF closeAttempt
    <2>4. PICK result \in {"applied", "unchanged"} : onceForDelivery(d, e, result)
        BY <1>11 DEF closeAttempt
    <2> QED BY <2>1, <2>2, <2>3, <2>4
            DEF TypeOK, onceForDelivery, order, dominaite, requests
<1>12. ASSUME NEW d \in Deliveries, NEW e \in event[d], Answer(d, e)
       PROVE  TypeOK'
    <2>1. e.transaction \in Transactions
        BY EventIsTyped DEF TypeOK
    <2>2. refundLogged' \subseteq Transactions
        BY <1>12, <2>1 DEF TypeOK, Answer
    <2>3. sent' \subseteq Events
        BY <1>12 DEF TypeOK, Answer
    <2>4. EndDelivery(d) /\ UNCHANGED <<order, rows, handled, dominaite, requests, crashes>>
        BY <1>12 DEF Answer
    <2> QED BY <2>2, <2>3, <2>4, EndDeliveryTyped
            DEF TypeOK, order, rows, dominaite, requests
<1>13. ASSUME NEW d \in Deliveries, DeliveryLost(d) PROVE TypeOK'
    <2>1. crashes' \in 0 .. MaxCrashes
        <3>1. crashes \in 0 .. MaxCrashes
            BY DEF TypeOK
        <3> QED BY <1>13, <3>1 DEF DeliveryLost
    <2>2. /\ EndDelivery(d)
          /\ UNCHANGED <<order, rows, handled, dominaite, sent, requests, refundLogged>>
        BY <1>13 DEF DeliveryLost
    <2> QED BY <2>1, <2>2, EndDeliveryTyped
            DEF TypeOK, order, rows, dominaite, requests
<1>14. ASSUME NEW e \in sent, DropUnknown(e) PROVE TypeOK'
    BY <1>14 DEF TypeOK, DropUnknown, order, rows, dominaite, requests, deliveries
<1>15. ASSUME NEW t \in Transactions, NEW amount \in {"whole", "other"},
              Pay(t, amount)
       PROVE  TypeOK'
    BY <1>15 DEF TypeOK, Pay, order, rows, requests, deliveries
<1>16. ASSUME NEW t \in Transactions, Expire(t) PROVE TypeOK'
    BY <1>16 DEF TypeOK, Expire, order, rows, requests, deliveries
<1>17. ASSUME NEW t \in Transactions, Decline(t) PROVE TypeOK'
    BY <1>17, EndTyped DEF Decline, Outcomes, ATTEMPT_STATUS_BY_EVENT
<1>18. ASSUME NEW t \in Transactions, Settle(t) PROVE TypeOK'
    BY <1>18, EndTyped DEF Settle, Outcomes, ATTEMPT_STATUS_BY_EVENT
<1>19. ASSUME NEW t \in Transactions, Close(t) PROVE TypeOK'
    BY <1>19, EndTyped DEF Close, Outcomes, ATTEMPT_STATUS_BY_EVENT
<1>20. ASSUME NEW a \in Attempts, Reopen(a) PROVE TypeOK'
    BY <1>20 DEF TypeOK, Reopen, order, rows, requests, deliveries
<1>21. CASE Cancel
    BY <1>21 DEF TypeOK, Cancel, OrderStatuses, rows, dominaite, requests, deliveries
<1>22. CASE UNCHANGED vars
    BY <1>22 DEF TypeOK, vars, order, rows, dominaite, requests, deliveries
<1> QED BY <1>1, <1>2, <1>3, <1>4, <1>5, <1>6, <1>7, <1>8, <1>9, <1>10, <1>11,
           <1>12, <1>13, <1>14, <1>15, <1>16, <1>17, <1>18, <1>19, <1>20, <1>21,
           <1>22 DEF Next, DeliveryStep

(***************************************************************************)
(* What one step may do to the keys, the sessions, the rows and the         *)
(* requests: the actions are taken one by one here, and only here.          *)
(***************************************************************************)

(* Dominaite answers a request, and nothing but its own state changes, and  *)
(* the request.                                                             *)
Opening(q) ==
    /\ Asking(q) /\ Answers(attempt[q])
    /\ UNCHANGED <<order, rows, handled, sent, shown, deliveries>>

(* A session is paid, expires or ends, or a key reopens.                    *)
SessionStep ==
    \/ \E t \in Transactions :
         \/ \E amount \in {"whole", "other"} : Pay(t, amount)
         \/ Expire(t) \/ Decline(t) \/ Settle(t) \/ Close(t)
    \/ \E a \in Attempts : Reopen(a)

(* Every step is one of these, or leaves Dominaite alone.                   *)
LEMMA StepKinds ==
    [Next]_vars => \/ \E q \in Requests : Opening(q)
                   \/ SessionStep
                   \/ UNCHANGED dominaite
<1> SUFFICES ASSUME [Next]_vars
             PROVE  \/ \E q \in Requests : Opening(q)
                    \/ SessionStep
                    \/ UNCHANGED dominaite
    OBVIOUS
<1>1. ASSUME NEW q \in Requests, openSession(q) \/ AnswerLost(q) PROVE Opening(q)
    BY <1>1 DEF openSession, AnswerLost, Opening
<1>2. ASSUME NEW q \in Requests,
             \/ findPayableOrder(q) \/ KeySpent(q) \/ markFailed(q)
             \/ recordOpened(q) \/ RequestEnds(q)
      PROVE  UNCHANGED dominaite
    BY <1>2 DEF findPayableOrder, KeySpent, markFailed, recordOpened, RequestEnds
<1>3. ASSUME NEW d \in Deliveries, DeliveryStep(d) PROVE UNCHANGED dominaite
    BY <1>3 DEF DeliveryStep, LeaveUnpaid, confirmPaid, closeAttempt, onceForDelivery,
                Answer
<1>4. ASSUME NEW d \in Deliveries, NEW e \in sent,
             findReportedAttempt(d, e)
      PROVE  UNCHANGED dominaite
    BY <1>4 DEF findReportedAttempt
<1>5. ASSUME NEW d \in Deliveries, DeliveryLost(d) PROVE UNCHANGED dominaite
    BY <1>5 DEF DeliveryLost
<1>6. ASSUME NEW e \in sent, DropUnknown(e) PROVE UNCHANGED dominaite
    BY <1>6 DEF DropUnknown
<1>7. CASE Cancel
    BY <1>7 DEF Cancel
<1>8. CASE UNCHANGED vars
    BY <1>8 DEF vars
<1> QED BY <1>1, <1>2, <1>3, <1>4, <1>5, <1>6, <1>7, <1>8 DEF Next, SessionStep

(* How a session's state moves.                                             *)
Moves(t) ==
    \/ session'[t] = session[t]
    \/ session[t] = "none" /\ session'[t] = "open"
    \/ session[t] = "open" /\ session'[t] \in {"approved", "failed", "closed"}
    \/ session[t] = "approved" /\ session'[t] = "paid"

(* How a key moves: it opens a session for a request, or stays.             *)
KeyOpens(a) ==
    /\ opened'[a] = opened[a] + 1 /\ a \notin reopens'
    /\ OpensNew(a)
    /\ \E q \in Requests : Asking(q) /\ attempt[q] = a

KeyStays(a) ==
    /\ opened'[a] = opened[a]
    /\ a \in reopens' => a \in reopens \/ Reopen(a)

DominaiteMoves ==
    /\ \A t \in Transactions : Moves(t)
    /\ \A a \in Attempts : KeyOpens(a) \/ KeyStays(a)
    /\ expired \subseteq expired'
    /\ SessionsAreOpened'

(* A step of a session opens none.                                          *)
NoneOpened ==
    /\ UNCHANGED opened
    /\ \A t \in Transactions :
           Moves(t) /\ (session'[t] = "none" <=> session[t] = "none")
    /\ expired \subseteq expired'

(* Each session moves along its life, and a key opens only for a request    *)
(* that asks for it.                                                        *)
LEMMA DominaiteStep ==
    ASSUME TypeInv, SessionsAreOpened, [Next]_vars
    PROVE  DominaiteMoves
<1> USE CardPaymentAssumption
<1>t. /\ opened \in [Attempts -> 0 .. MaxSessions]
      /\ session \in [Transactions ->
                        {"none", "open", "approved", "paid", "failed", "closed"}]
    BY DEF TypeInv, TypeOK
<1>1. ASSUME NEW q \in Requests, Opening(q), OpensNew(attempt[q])
      PROVE  DominaiteMoves
    <2> DEFINE k == attempt[q]
    <2>1. k \in Attempts
        BY <1>1 DEF Opening, Asking, TypeInv, RequestsAsk
    <2>2. /\ AnswerOf(k) = <<k, opened[k] + 1>>
          /\ AnswerOf(k) \in Transactions
          /\ opened[k] + 1 \in 1 .. MaxSessions
        BY <1>1, <2>1, AnswerIsTransaction DEF TypeInv, AnswerOf
    <2>3. session[AnswerOf(k)] = "none"
        BY <1>t, <2>1, <2>2 DEF SessionsAreOpened
    <2>4. /\ opened' = [opened EXCEPT ![k] = @ + 1]
          /\ session' = [session EXCEPT ![AnswerOf(k)] = "open"]
          /\ reopens' = reopens \ {k}
          /\ expired' = expired
        BY <1>1 DEF Opening, Answers
    <2>5. \A t \in Transactions : Moves(t)
        BY <1>t, <2>2, <2>3, <2>4 DEF Moves
    <2>6. \A a \in Attempts : KeyOpens(a) \/ KeyStays(a)
        BY <1>t, <1>1, <2>1, <2>4 DEF KeyOpens, KeyStays, Opening
    <2>7. SessionsAreOpened'
        <3> SUFFICES ASSUME NEW a \in Attempts, NEW n \in 1 .. MaxSessions
                     PROVE  session'[<<a, n>>] = "none" <=> n > opened'[a]
            BY DEF SessionsAreOpened
        <3>1. <<a, n>> \in Transactions
            BY DEF Transactions
        <3>2. session[<<a, n>>] = "none" <=> n > opened[a]
            BY DEF SessionsAreOpened
        <3>3. CASE a = k
            BY <1>t, <2>1, <2>2, <2>4, <3>1, <3>2, <3>3
        <3>4. CASE a # k
            BY <1>t, <2>1, <2>2, <2>4, <3>1, <3>2, <3>4
        <3> QED BY <3>3, <3>4
    <2> QED BY <2>4, <2>5, <2>6, <2>7 DEF DominaiteMoves
<1>2. ASSUME NEW q \in Requests, Opening(q), ~OpensNew(attempt[q])
      PROVE  UNCHANGED dominaite
    BY <1>2 DEF Opening, Answers, dominaite
<1>3. ASSUME UNCHANGED dominaite
      PROVE  DominaiteMoves
    BY <1>3 DEF DominaiteMoves, dominaite, Moves, KeyStays, SessionsAreOpened
<1>4. ASSUME SessionStep
      PROVE  DominaiteMoves
    <2>1. NoneOpened
        <3>1. ASSUME NEW t \in Transactions, NEW amount, Pay(t, amount) PROVE NoneOpened
            BY <1>t, <3>1 DEF NoneOpened, Pay, Moves
        <3>2. ASSUME NEW t \in Transactions, Expire(t) PROVE NoneOpened
            BY <1>t, <3>2 DEF NoneOpened, Expire, Moves
        <3>3. ASSUME NEW t \in Transactions, Decline(t) PROVE NoneOpened
            BY <1>t, <3>3 DEF NoneOpened, Decline, End, Moves
        <3>4. ASSUME NEW t \in Transactions, Settle(t) PROVE NoneOpened
            BY <1>t, <3>4 DEF NoneOpened, Settle, End, Moves
        <3>5. ASSUME NEW t \in Transactions, Close(t) PROVE NoneOpened
            BY <1>t, <3>5 DEF NoneOpened, Close, End, Moves
        <3>6. ASSUME NEW a \in Attempts, Reopen(a) PROVE NoneOpened
            BY <1>t, <3>6 DEF NoneOpened, Reopen, Moves
        <3> QED BY <1>4, <3>1, <3>2, <3>3, <3>4, <3>5, <3>6 DEF SessionStep
    <2>2. ASSUME NEW a \in Attempts PROVE KeyStays(a)
        BY <1>4, <2>1 DEF NoneOpened, SessionStep, KeyStays, Pay, Expire, Decline, Settle, Close,
                          End, Reopen
    <2>3. SessionsAreOpened'
        BY <2>1 DEF NoneOpened, SessionsAreOpened, Transactions
    <2> QED BY <2>1, <2>2, <2>3 DEF NoneOpened, DominaiteMoves
<1> QED BY <1>1, <1>2, <1>3, <1>4, StepKinds

(* How a row moves: it stays, is written by a request that recorded its     *)
(* session, is failed by one whose key was refused, or becomes what a       *)
(* delivery reports.                                                        *)
RowStays(a) == rowStatus'[a] = rowStatus[a] /\ rowTransaction'[a] = rowTransaction[a]

RowOpens(a) ==
    /\ ~HasRow(a) /\ rowStatus'[a] = "OPEN"
    /\ \E q \in Requests : /\ request[q] = "recording" /\ attempt[q] = a
                           /\ rowTransaction'[a] = answered[q]

RowFails(a) ==
    /\ rowStatus[a] = "OPEN" /\ rowStatus'[a] = "FAILED"
    /\ rowTransaction'[a] = rowTransaction[a]
    /\ \E q \in Requests : request[q] = "marking" /\ attempt[q] = a

RowReported(a) ==
    /\ rowTransaction'[a] = rowTransaction[a]
    /\ \E d \in Deliveries : \E e \in event[d] :
         /\ a \in RowOf(e.transaction)
         /\ \/ e.outcome = "succeeded" /\ rowStatus'[a] = "SUCCEEDED"
            \/ /\ e.outcome # "succeeded" /\ rowStatus[a] = "OPEN"
               /\ rowStatus'[a] = ATTEMPT_STATUS_BY_EVENT[e.outcome]

RowMoves(a) == RowStays(a) \/ RowOpens(a) \/ RowFails(a) \/ RowReported(a)

(* Every step moves every row so.                                           *)
LEMMA RowStep ==
    ASSUME TypeInv, [Next]_vars, NEW a \in Attempts
    PROVE  RowMoves(a)
<1>t. /\ rowStatus \in [Attempts -> RowStatuses]
      /\ rowTransaction \in [Attempts -> Transactions \union {NoTransaction}]
    BY DEF TypeInv, TypeOK
<1>1. ASSUME UNCHANGED rows PROVE RowMoves(a)
    BY <1>1 DEF rows, RowMoves, RowStays
<1>2. ASSUME NEW q \in Requests, markFailed(q) PROVE RowMoves(a)
    BY <1>t, <1>2 DEF markFailed, RowMoves, RowStays, RowFails
<1>3. ASSUME NEW q \in Requests, recordOpened(q) PROVE RowMoves(a)
    BY <1>t, <1>3 DEF recordOpened, rows, RowMoves, RowStays, RowOpens, HasRow
<1>4. ASSUME NEW d \in Deliveries, NEW e \in event[d], confirmPaid(d, e)
      PROVE  RowMoves(a)
    BY <1>t, <1>4 DEF confirmPaid, rows, SetRow, RowMoves, RowStays, RowReported
<1>5. ASSUME NEW d \in Deliveries, NEW e \in event[d], closeAttempt(d, e)
      PROVE  RowMoves(a)
    BY <1>t, <1>5 DEF closeAttempt, rows, SetRow, RowMoves, RowStays, RowReported
<1>6. ASSUME NEW q \in Requests,
             \/ findPayableOrder(q) \/ KeySpent(q) \/ openSession(q)
             \/ AnswerLost(q) \/ RequestEnds(q)
      PROVE  UNCHANGED rows
    BY <1>6 DEF findPayableOrder, KeySpent, openSession, AnswerLost, RequestEnds
<1>7. ASSUME NEW d \in Deliveries, NEW e, LeaveUnpaid(d, e) \/ Answer(d, e)
      PROVE  UNCHANGED rows
    BY <1>7 DEF LeaveUnpaid, Answer
<1>8. ASSUME NEW d \in Deliveries, NEW e \in sent, findReportedAttempt(d, e)
      PROVE  UNCHANGED rows
    BY <1>8 DEF findReportedAttempt
<1>9. ASSUME NEW d \in Deliveries, DeliveryLost(d) PROVE UNCHANGED rows
    BY <1>9 DEF DeliveryLost
<1>10. ASSUME NEW e \in sent, DropUnknown(e) PROVE UNCHANGED rows
    BY <1>10 DEF DropUnknown
<1>11. ASSUME NEW t \in Transactions, NEW amount, Pay(t, amount) PROVE UNCHANGED rows
    BY <1>11 DEF Pay
<1>12. ASSUME NEW t \in Transactions, Expire(t) \/ Decline(t) \/ Settle(t) \/ Close(t)
       PROVE  UNCHANGED rows
    BY <1>12 DEF Expire, Decline, Settle, Close, End
<1>13. ASSUME NEW k \in Attempts, Reopen(k) PROVE UNCHANGED rows
    BY <1>13 DEF Reopen
<1>14. CASE Cancel
    BY <1>1, <1>14 DEF Cancel
<1>15. CASE UNCHANGED vars
    BY <1>1, <1>15 DEF vars
<1> QED BY <1>1, <1>2, <1>3, <1>4, <1>5, <1>6, <1>7, <1>8, <1>9, <1>10, <1>11,
           <1>12, <1>13, <1>14, <1>15 DEF Next, DeliveryStep

(* How a request moves.                                                     *)
RequestStays(q) ==
    /\ request'[q] = request[q] /\ attempt'[q] = attempt[q]
    /\ answered'[q] = answered[q]

RequestStarts(q) ==
    /\ request[q] = "idle" /\ request'[q] = "asking" /\ attempt'[q] \in attemptToOpen
    /\ UNCHANGED <<rows, dominaite>>

RequestAnswered(q) ==
    /\ Asking(q) /\ request'[q] = "recording" /\ attempt'[q] = attempt[q]
    /\ Answers(attempt[q]) /\ answered'[q] = AnswerOf(attempt[q])

RequestRefused(q) ==
    /\ Asking(q) /\ request'[q] = "marking" /\ attempt'[q] = attempt[q]
    /\ SpentFailed(attempt[q])

RequestGoesOn(q) ==
    /\ request[q] = "marking" /\ request'[q] = "asking again"
    /\ attempt'[q] = attempt[q] + 1 /\ attempt'[q] \in Attempts

RequestMoves(q) ==
    \/ RequestStays(q) \/ request'[q] = "idle" \/ RequestStarts(q)
    \/ RequestAnswered(q) \/ RequestRefused(q) \/ RequestGoesOn(q)

(* Every step moves every request so.                                       *)
LEMMA RequestStep ==
    ASSUME TypeInv, [Next]_vars, NEW r \in Requests
    PROVE  RequestMoves(r)
<1>t. LocalsTyped
    BY DEF TypeInv, TypeOK, LocalsTyped
<1>1. ASSUME UNCHANGED requests PROVE RequestMoves(r)
    BY <1>1 DEF requests, RequestMoves, RequestStays
<1>2. ASSUME NEW q \in Requests, findPayableOrder(q) PROVE RequestMoves(r)
    <2>1. PICK a \in attemptToOpen : attempt' = [attempt EXCEPT ![q] = a]
        BY <1>2 DEF findPayableOrder
    <2> QED BY <1>t, <1>2, <2>1 DEF LocalsTyped, findPayableOrder, Goto, RequestMoves,
                                    RequestStays, RequestStarts
<1>3. ASSUME NEW q \in Requests, openSession(q) PROVE RequestMoves(r)
    BY <1>t, <1>3 DEF LocalsTyped, openSession, Goto, RequestMoves, RequestStays,
                      RequestAnswered
<1>4. ASSUME NEW q \in Requests, EndRequest(q) PROVE RequestMoves(r)
    BY <1>t, <1>4 DEF LocalsTyped, EndRequest, Goto, RequestMoves, RequestStays
<1>5. ASSUME NEW q \in Requests, KeySpent(q) PROVE RequestMoves(r)
    BY <1>t, <1>5 DEF LocalsTyped, KeySpent, Goto, RequestMoves, RequestStays,
                      RequestRefused, Asking
<1>6. ASSUME NEW q \in Requests, markFailed(q) PROVE RequestMoves(r)
    <2>1. CASE attemptAfter(attempt[q]) = {}
        BY <1>4, <1>6, <2>1 DEF markFailed
    <2>2. CASE attemptAfter(attempt[q]) # {}
        <3>1. attempt[q] + 1 \in Attempts
            BY <2>2 DEF attemptAfter
        <3> QED BY <1>t, <1>6, <2>2, <3>1 DEF LocalsTyped, markFailed, Goto,
                    RequestMoves, RequestStays, RequestGoesOn
    <2> QED BY <2>1, <2>2
<1>7. ASSUME NEW q \in Requests, AnswerLost(q) \/ recordOpened(q) \/ RequestEnds(q)
      PROVE  RequestMoves(r)
    BY <1>4, <1>7 DEF AnswerLost, recordOpened, RequestEnds
<1>8. ASSUME NEW d \in Deliveries, DeliveryStep(d) PROVE UNCHANGED requests
    BY <1>8 DEF DeliveryStep, LeaveUnpaid, confirmPaid, closeAttempt, onceForDelivery,
                Answer
<1>9. ASSUME NEW d \in Deliveries, NEW e \in sent, findReportedAttempt(d, e)
      PROVE  UNCHANGED requests
    BY <1>9 DEF findReportedAttempt
<1>10. ASSUME NEW d \in Deliveries, DeliveryLost(d) PROVE UNCHANGED requests
    BY <1>10 DEF DeliveryLost
<1>11. ASSUME NEW e \in sent, DropUnknown(e) PROVE UNCHANGED requests
    BY <1>11 DEF DropUnknown
<1>12. ASSUME SessionStep PROVE UNCHANGED requests
    BY <1>12 DEF SessionStep, Pay, Expire, Decline, Settle, Close, End, Reopen
<1>13. CASE Cancel
    BY <1>1, <1>13 DEF Cancel
<1>14. CASE UNCHANGED vars
    BY <1>1, <1>14 DEF vars
<1> QED BY <1>1, <1>2, <1>3, <1>5, <1>6, <1>7, <1>8, <1>9, <1>10, <1>11, <1>12,
           <1>13, <1>14 DEF Next, SessionStep

(* The browser gets a session only after its row is written, and what it    *)
(* got it keeps.                                                            *)
ShownMoves ==
    /\ shown \subseteq shown'
    /\ \A t \in shown' :
         \/ t \in shown
         \/ \E q \in Requests : /\ request[q] = "recording" /\ t = answered[q]
                                /\ rowStatus'[attempt[q]] # "NONE"

(* Money is taken only from an open session the browser has.                *)
MoneyMoves ==
    \A t \in Transactions :
        \/ taken'[t] = taken[t]
        \/ t \in shown /\ session[t] = "open" /\ session'[t] = "approved"

(* Only what became of a session is reported, and only what is reported of  *)
(* an attempt on record is delivered.                                       *)
EventsMove ==
    /\ \A e \in sent' : e \in sent \/ session'[e.transaction] = StateOf(e.outcome)
    /\ \A d \in Deliveries : \A e \in event'[d] :
         e \in event[d] \/ (e \in sent /\ RowOf(e.transaction) # {})

(* Every step shows, takes and reports so.                                  *)
LEMMA ShownStep ==
    ASSUME TypeInv, [Next]_vars
    PROVE  ShownMoves /\ MoneyMoves
<1>t. /\ rowStatus \in [Attempts -> RowStatuses]
      /\ session \in [Transactions ->
                        {"none", "open", "approved", "paid", "failed", "closed"}]
      /\ taken \in [Transactions -> {"none", "whole", "other"}]
    BY DEF TypeInv, TypeOK
<1> DEFINE Stay == UNCHANGED <<shown, taken>>
<1>1. ASSUME Stay PROVE ShownMoves /\ MoneyMoves
    BY <1>1 DEF ShownMoves, MoneyMoves
<1>2. ASSUME NEW q \in Requests, recordOpened(q) PROVE ShownMoves /\ MoneyMoves
    <2>1. attempt[q] \in Attempts
        BY <1>2 DEF recordOpened, TypeInv, RequestsAsk
    <2>2. rowStatus'[attempt[q]] # "NONE"
        BY <1>t, <1>2, <2>1 DEF recordOpened, rows
    <2> QED BY <1>2, <2>2 DEF recordOpened, dominaite, ShownMoves, MoneyMoves
<1>3. ASSUME NEW t \in Transactions, NEW amount, Pay(t, amount)
      PROVE  ShownMoves /\ MoneyMoves
    BY <1>t, <1>3 DEF Pay, requests, ShownMoves, MoneyMoves
<1>4. ASSUME NEW q \in Requests,
             \/ findPayableOrder(q) \/ KeySpent(q) \/ openSession(q) \/ AnswerLost(q)
             \/ markFailed(q) \/ RequestEnds(q)
      PROVE  Stay
    BY <1>4 DEF findPayableOrder, KeySpent, openSession, AnswerLost, Answers,
                markFailed, RequestEnds, dominaite
<1>5. ASSUME NEW d \in Deliveries, DeliveryStep(d) PROVE Stay
    BY <1>5 DEF DeliveryStep, LeaveUnpaid, confirmPaid, closeAttempt, onceForDelivery,
                Answer, dominaite, requests
<1>6. ASSUME NEW d \in Deliveries, NEW e \in sent, findReportedAttempt(d, e) PROVE Stay
    BY <1>6 DEF findReportedAttempt, dominaite, requests
<1>7. ASSUME NEW d \in Deliveries, DeliveryLost(d) PROVE Stay
    BY <1>7 DEF DeliveryLost, dominaite, requests
<1>8. ASSUME NEW e \in sent, DropUnknown(e) PROVE Stay
    BY <1>8 DEF DropUnknown, dominaite, requests
<1>9. ASSUME NEW t \in Transactions, Expire(t) \/ Decline(t) \/ Settle(t) \/ Close(t)
      PROVE  Stay
    BY <1>9 DEF Expire, Decline, Settle, Close, End, requests
<1>10. ASSUME NEW a \in Attempts, Reopen(a) PROVE Stay
    BY <1>10 DEF Reopen, requests
<1>11. ASSUME Cancel PROVE Stay
    BY <1>11 DEF Cancel, dominaite, requests
<1>12. ASSUME UNCHANGED vars PROVE Stay
    BY <1>12 DEF vars, dominaite, requests
<1> QED BY <1>1, <1>2, <1>3, <1>4, <1>5, <1>6, <1>7, <1>8, <1>9, <1>10, <1>11, <1>12
        DEF Next

(* Every step reports and delivers so.                                      *)
LEMMA EventStep ==
    ASSUME TypeInv, [Next]_vars
    PROVE  EventsMove
<1>t. /\ event \in [Deliveries -> SUBSET Events]
      /\ session \in [Transactions ->
                        {"none", "open", "approved", "paid", "failed", "closed"}]
    BY DEF TypeInv, TypeOK
<1> DEFINE Fewer == sent' \subseteq sent /\ UNCHANGED event
<1>1. ASSUME Fewer PROVE EventsMove
    BY <1>1 DEF EventsMove
<1>2. ASSUME NEW t \in Transactions, NEW state, NEW outcome, state = StateOf(outcome),
             End(t, state, outcome)
      PROVE  EventsMove
    BY <1>t, <1>2 DEF End, deliveries, EventsMove
<1>3. ASSUME NEW t \in Transactions, Decline(t) \/ Settle(t) \/ Close(t)
      PROVE  EventsMove
    BY <1>2, <1>3 DEF Decline, Settle, Close, StateOf
<1>4. ASSUME NEW d \in Deliveries, NEW e \in sent, findReportedAttempt(d, e)
      PROVE  EventsMove
    BY <1>t, <1>4 DEF findReportedAttempt, EventsMove
<1>5. ASSUME NEW d \in Deliveries, EndDelivery(d), sent' \subseteq sent
      PROVE  EventsMove
    BY <1>t, <1>5 DEF EndDelivery, EventsMove
<1>6. ASSUME NEW d \in Deliveries, NEW e, Answer(d, e) PROVE EventsMove
    BY <1>5, <1>6 DEF Answer
<1>7. ASSUME NEW d \in Deliveries, DeliveryLost(d) PROVE EventsMove
    BY <1>5, <1>7 DEF DeliveryLost
<1>8. ASSUME NEW d \in Deliveries, NEW e,
             LeaveUnpaid(d, e) \/ confirmPaid(d, e) \/ closeAttempt(d, e)
      PROVE  Fewer
    BY <1>8 DEF LeaveUnpaid, confirmPaid, closeAttempt, onceForDelivery
<1>9. ASSUME NEW q \in Requests,
             \/ findPayableOrder(q) \/ KeySpent(q) \/ openSession(q) \/ AnswerLost(q)
             \/ markFailed(q) \/ recordOpened(q) \/ RequestEnds(q)
      PROVE  Fewer
    BY <1>9 DEF findPayableOrder, KeySpent, openSession, AnswerLost, markFailed,
                recordOpened, RequestEnds, deliveries
<1>10. ASSUME NEW e \in sent, DropUnknown(e) PROVE Fewer
    BY <1>10 DEF DropUnknown, deliveries
<1>11. ASSUME NEW t \in Transactions, NEW amount, Pay(t, amount) \/ Expire(t)
       PROVE  Fewer
    BY <1>11 DEF Pay, Expire, deliveries
<1>12. ASSUME NEW a \in Attempts, Reopen(a) PROVE Fewer
    BY <1>12 DEF Reopen, deliveries
<1>13. ASSUME Cancel PROVE Fewer
    BY <1>13 DEF Cancel, deliveries
<1>14. ASSUME UNCHANGED vars PROVE Fewer
    BY <1>14 DEF vars, deliveries
<1> QED BY <1>1, <1>3, <1>4, <1>6, <1>7, <1>8, <1>9, <1>10, <1>11, <1>12, <1>13, <1>14
        DEF Next, DeliveryStep

(* How the order moves: it is cancelled, or paid by a delivery that gives   *)
(* its attempt the whole total.                                             *)
OrderPaid ==
    /\ orderStatus = "PENDING_PAYMENT" /\ orderStatus' = "PROCESSING"
    /\ announced' = announced + 1 /\ UNCHANGED <<rowTransaction, taken>>
    /\ \E d \in Deliveries : \E e \in event[d] :
         /\ taken[e.transaction] = "whole"
         /\ \A a \in RowOf(e.transaction) : rowStatus'[a] = "SUCCEEDED"

OrderMoves ==
    \/ UNCHANGED order
    \/ /\ orderStatus = "PENDING_PAYMENT" /\ orderStatus' = "CANCELLED"
       /\ UNCHANGED announced
    \/ OrderPaid

(* Every step moves the order so.                                           *)
LEMMA OrderStep ==
    ASSUME TypeInv, [Next]_vars
    PROVE  OrderMoves
<1>1. ASSUME UNCHANGED order PROVE OrderMoves
    BY <1>1 DEF OrderMoves
<1>2. ASSUME NEW d \in Deliveries, NEW e \in event[d], confirmPaid(d, e)
      PROVE  OrderMoves
    <2>1. CASE UNCHANGED order
        BY <1>1, <2>1
    <2>2. CASE ~UNCHANGED order
        <3>1. /\ e \notin handled /\ orderStatus = "PENDING_PAYMENT"
              /\ orderStatus' = "PROCESSING" /\ announced' = announced + 1
              /\ UNCHANGED <<rowTransaction, taken>>
            BY <1>2, <2>2 DEF confirmPaid, order, onceForDelivery, dominaite
        <3>2. taken[e.transaction] = "whole"
            BY <1>2 DEF confirmPaid, RefusedAmount
        <3>3. \A a \in RowOf(e.transaction) : rowStatus'[a] = "SUCCEEDED"
            BY <1>2, <3>1 DEF confirmPaid, SetRow, RowOf
        <3> QED BY <3>1, <3>2, <3>3 DEF OrderMoves, OrderPaid
    <2> QED BY <2>1, <2>2
<1>3. CASE Cancel
    BY <1>3 DEF Cancel, OrderMoves
<1>4. ASSUME NEW q \in Requests,
             \/ findPayableOrder(q) \/ KeySpent(q) \/ openSession(q) \/ AnswerLost(q)
             \/ markFailed(q) \/ recordOpened(q) \/ RequestEnds(q)
      PROVE  UNCHANGED order
    BY <1>4 DEF findPayableOrder, KeySpent, openSession, AnswerLost, markFailed,
                recordOpened, RequestEnds
<1>5. ASSUME NEW d \in Deliveries, NEW e,
             LeaveUnpaid(d, e) \/ closeAttempt(d, e) \/ Answer(d, e)
      PROVE  UNCHANGED order
    BY <1>5 DEF LeaveUnpaid, closeAttempt, Answer
<1>6. ASSUME NEW d \in Deliveries, NEW e \in sent, findReportedAttempt(d, e)
      PROVE  UNCHANGED order
    BY <1>6 DEF findReportedAttempt
<1>7. ASSUME NEW d \in Deliveries, DeliveryLost(d) PROVE UNCHANGED order
    BY <1>7 DEF DeliveryLost
<1>8. ASSUME NEW e \in sent, DropUnknown(e) PROVE UNCHANGED order
    BY <1>8 DEF DropUnknown
<1>9. ASSUME SessionStep PROVE UNCHANGED order
    BY <1>9 DEF SessionStep, Pay, Expire, Decline, Settle, Close, End, Reopen
<1>10. ASSUME UNCHANGED vars PROVE UNCHANGED order
    BY <1>10 DEF vars
<1> QED BY <1>1, <1>2, <1>3, <1>4, <1>5, <1>6, <1>7, <1>8, <1>9, <1>10
        DEF Next, DeliveryStep, SessionStep

(***************************************************************************)
(* The invariant is inductive.                                              *)
(***************************************************************************)

(* The invariant types what a request has recorded.                         *)
LEMMA InvTyped == Inv => TypeInv
<1> SUFFICES ASSUME Inv, NEW q \in Requests, request[q] = "recording"
             PROVE  answered[q] \in Transactions
    BY DEF Inv, TypeInv, KeyInv, SessionInv, RecordingIsTyped
<1>1. attempt[q] \in Attempts
    BY DEF Inv, SessionInv, RequestsAsk
<1>2. opened[attempt[q]] > 0 /\ answered[q] = Newest(attempt[q])
    BY DEF Inv, SessionInv, RecordingIsLast
<1> QED BY <1>1, <1>2, LastIsTransaction DEF Inv

(* The step, as the lemmas above describe it.                               *)
LEMMA InvMoves ==
    ASSUME Inv, [Next]_vars
    PROVE  /\ TypeOK' /\ DominaiteMoves /\ ShownMoves /\ MoneyMoves
           /\ EventsMove /\ OrderMoves
           /\ \A a \in Attempts : RowMoves(a)
           /\ \A q \in Requests : RequestMoves(q)
<1>1. TypeInv /\ SessionsAreOpened
    BY InvTyped DEF Inv, KeyInv
<1> QED BY <1>1, TypeStep, DominaiteStep, ShownStep, EventStep, OrderStep, RowStep,
           RequestStep

(* A dead attempt stays dead.                                               *)
LEMMA DeadStays ==
    ASSUME Inv, [Next]_vars, NEW a \in Attempts, Dead(a)
    PROVE  Dead(a)'
<1>1. Newest(a) \in Transactions
    BY LastIsTransaction DEF Inv, Dead
<1>2. opened[a] \in Nat
    BY OpenedIsNat DEF Inv
<1>3. KeyStays(a) /\ Moves(Newest(a))
    BY <1>1, <1>2, InvMoves DEF DominaiteMoves, KeyOpens, OpensNew, Dead
<1> QED BY <1>3 DEF KeyStays, Moves, Dead, Newest

(* An attempt's last session stays the last, unless its key is reopened and *)
(* asked for again.                                                         *)
LEMMA LastStays ==
    ASSUME Inv, [Next]_vars, NEW a \in Attempts, opened[a] > 0,
           Reopened(a) => HasRow(a)
    PROVE  KeyStays(a) /\ Newest(a)' = Newest(a)
<1>1. opened[a] \in Nat
    BY OpenedIsNat DEF Inv
<1>2. ASSUME KeyOpens(a) PROVE FALSE
    <2>1. Reopened(a)
        BY <1>1, <1>2 DEF KeyOpens, OpensNew, Reopened
    <2>2. \A q \in Requests : request[q] = "idle"
        BY <2>1 DEF Inv, SessionInv, ReopenedIsLeft
    <2> QED BY <1>2, <2>2 DEF KeyOpens, Asking
<1>3. KeyStays(a)
    BY <1>2, InvMoves DEF DominaiteMoves
<1> QED BY <1>3 DEF KeyStays, Newest

(* A row stays on record, of the same session, and the one paid stays so.   *)
LEMMA RowStaysOnRecord ==
    ASSUME Inv, [Next]_vars, NEW a \in Attempts, HasRow(a)
    PROVE  /\ HasRow(a)' /\ rowTransaction'[a] = rowTransaction[a]
           /\ rowStatus[a] = "SUCCEEDED" => rowStatus'[a] = "SUCCEEDED"
<1>1. CASE RowReported(a)
    <2>0. PICK d \in Deliveries :
              \E e \in event[d] :
                  /\ a \in RowOf(e.transaction)
                  /\ \/ e.outcome = "succeeded" /\ rowStatus'[a] = "SUCCEEDED"
                     \/ /\ e.outcome # "succeeded" /\ rowStatus[a] = "OPEN"
                        /\ rowStatus'[a] = ATTEMPT_STATUS_BY_EVENT[e.outcome]
        BY <1>1 DEF RowReported
    <2>1. PICK e \in event[d] :
              /\ a \in RowOf(e.transaction)
              /\ \/ e.outcome = "succeeded" /\ rowStatus'[a] = "SUCCEEDED"
                 \/ /\ e.outcome # "succeeded" /\ rowStatus[a] = "OPEN"
                    /\ rowStatus'[a] = ATTEMPT_STATUS_BY_EVENT[e.outcome]
        BY <2>0
    <2>2. e.outcome \in Outcomes
        BY EventIsTyped DEF Inv, TypeOK
    <2>3. ATTEMPT_STATUS_BY_EVENT[e.outcome] # "NONE"
        BY <2>2 DEF ATTEMPT_STATUS_BY_EVENT, Outcomes
    <2> QED BY <1>1, <2>1, <2>3 DEF RowReported, HasRow
<1>2. CASE RowStays(a) \/ RowOpens(a) \/ RowFails(a)
    BY <1>2 DEF RowStays, RowOpens, RowFails, HasRow
<1> QED BY <1>1, <1>2, InvMoves DEF RowMoves

(* KeyInv is kept: nothing but Pay takes money, and Pay wants the session   *)
(* open and in the browser.                                                 *)
LEMMA KeyInvStep == Inv /\ [Next]_vars => KeyInv'
<1> SUFFICES ASSUME Inv, [Next]_vars PROVE KeyInv'
    OBVIOUS
<1>1. SessionsAreOpened'
    BY InvMoves DEF DominaiteMoves
<1>2. ReopensAreExpired'
    <2> SUFFICES ASSUME NEW a \in reopens'
                 PROVE  opened'[a] \in 1 .. MaxSessions - 1 /\ Newest(a)' \in expired'
        BY DEF ReopensAreExpired
    <2>1. a \in Attempts
        BY InvMoves DEF TypeOK
    <2>2. KeyStays(a) /\ expired \subseteq expired'
        BY <2>1, InvMoves DEF DominaiteMoves, KeyOpens
    <2>3. opened[a] \in 1 .. MaxSessions - 1 /\ Newest(a) \in expired
        BY <2>2 DEF KeyStays, Reopen, Inv, KeyInv, ReopensAreExpired
    <2> QED BY <2>2, <2>3 DEF KeyStays, Newest
<1>3. ChargesAreShown'
    <2> SUFFICES ASSUME NEW t \in Transactions, taken'[t] # "none"
                 PROVE  session'[t] \in {"approved", "paid"} /\ t \in shown'
        BY DEF ChargesAreShown
    <2>1. Moves(t) /\ shown \subseteq shown'
        BY InvMoves DEF DominaiteMoves, ShownMoves
    <2>2. \/ taken'[t] = taken[t]
          \/ t \in shown /\ session'[t] = "approved"
        BY InvMoves DEF MoneyMoves
    <2>3. taken[t] # "none" => session[t] \in {"approved", "paid"} /\ t \in shown
        BY DEF Inv, KeyInv, ChargesAreShown
    <2> QED BY <2>1, <2>2, <2>3 DEF Moves
<1> QED BY <1>1, <1>2, <1>3 DEF KeyInv

(* A row is written for the last session of its attempt, which a row keeps. *)
LEMMA RowsAreLastStep == Inv /\ [Next]_vars => RowsAreLast'
<1> SUFFICES ASSUME Inv, [Next]_vars, NEW a \in Attempts, HasRow(a)'
             PROVE  opened'[a] > 0 /\ rowTransaction'[a] = Newest(a)'
    BY DEF RowsAreLast
<1>1. CASE HasRow(a)
    <2>1. opened[a] > 0 /\ rowTransaction[a] = Newest(a)
        BY <1>1 DEF Inv, SessionInv, RowsAreLast
    <2>2. KeyStays(a) /\ Newest(a)' = Newest(a)
        BY <1>1, <2>1, LastStays
    <2> QED BY <1>1, <2>1, <2>2, RowStaysOnRecord DEF KeyStays
<1>2. CASE ~HasRow(a)
    <2>1. RowOpens(a)
        BY <1>2, InvMoves DEF RowMoves, RowStays, RowFails, RowReported, RowOf, HasRow
    <2>2. PICK q \in Requests : /\ request[q] = "recording" /\ attempt[q] = a
                                /\ rowTransaction'[a] = answered[q]
        BY <2>1 DEF RowOpens
    <2>3. opened[a] > 0 /\ answered[q] = Newest(a) /\ ~Reopened(a)
        BY <2>2 DEF Inv, SessionInv, RecordingIsLast
    <2>4. KeyStays(a) /\ Newest(a)' = Newest(a)
        BY <2>3, LastStays
    <2> QED BY <2>2, <2>3, <2>4 DEF KeyStays
<1> QED BY <1>1, <1>2

(* What the browser gets is the last session of an attempt on record.       *)
LEMMA ShownAreOnRecordStep == Inv /\ [Next]_vars => ShownAreOnRecord'
<1> SUFFICES ASSUME Inv, [Next]_vars, NEW t \in shown'
             PROVE  t \in Transactions /\ HasRow(t[1])' /\ t = Newest(t[1])'
    BY DEF ShownAreOnRecord
<1>1. CASE t \in shown
    <2>1. t \in Transactions /\ HasRow(t[1]) /\ t = Newest(t[1])
        BY <1>1 DEF Inv, SessionInv, ShownAreOnRecord
    <2>2. t[1] \in Attempts
        BY <2>1 DEF Transactions
    <2>3. opened[t[1]] > 0
        BY <2>1, <2>2 DEF Inv, SessionInv, RowsAreLast
    <2> QED BY <2>1, <2>2, <2>3, LastStays, RowStaysOnRecord
<1>2. CASE t \notin shown
    <2>1. PICK q \in Requests : /\ request[q] = "recording" /\ t = answered[q]
                                /\ rowStatus'[attempt[q]] # "NONE"
        BY <1>2, InvMoves DEF ShownMoves
    <2>2. /\ attempt[q] \in Attempts /\ opened[attempt[q]] > 0
          /\ answered[q] = Newest(attempt[q]) /\ ~Reopened(attempt[q])
        BY <2>1 DEF Inv, SessionInv, RequestsAsk, RecordingIsLast
    <2>3. t[1] = attempt[q]
        BY <2>1, <2>2 DEF Newest
    <2>4. opened'[t[1]] = opened[t[1]]
        BY <2>2, <2>3, LastStays DEF KeyStays
    <2>5. t \in Transactions
        BY <2>1, <2>2, LastIsTransaction DEF Inv
    <2> QED BY <2>1, <2>2, <2>3, <2>4, <2>5 DEF HasRow, Newest
<1> QED BY <1>1, <1>2

(* An attempt that may be asked for follows only dead ones, and no key      *)
(* reopened under a row is then left.                                       *)
LEMMA AttemptToOpen ==
    ASSUME Inv, NEW a \in attemptToOpen
    PROVE  /\ a \in Attempts
           /\ \A b \in 1 .. a - 1 : Dead(b)
           /\ \A b \in Attempts : ~(Reopened(b) /\ HasRow(b))
<1>1. a \in Attempts
    BY DEF attemptToOpen
<1>2. CASE a = 1 /\ \A b \in Attempts : rowStatus[b] = "NONE"
    BY <1>1, <1>2 DEF HasRow
<1>3. CASE ~(a = 1 /\ \A b \in Attempts : rowStatus[b] = "NONE")
    <2>1. PICK l \in Attempts :
              /\ HasRow(l) /\ \A b \in Attempts : b > l => ~HasRow(b)
              /\ \/ rowStatus[l] = "FAILED" /\ a = l + 1
                 \/ a = l /\ rowTransaction[l] \notin expired
        BY <1>3 DEF attemptToOpen, attemptAfter, HasRow
    <2>2. \A b \in 1 .. l - 1 : Dead(b)
        BY <2>1 DEF Inv, SessionInv, EarlierAreDead
    <2>3. rowStatus[l] = "FAILED" => Dead(l)
        BY DEF Inv, SessionInv, FailedIsDead
    <2>4. Reopened(l) => rowTransaction[l] \in expired
        BY <2>1 DEF Inv, KeyInv, SessionInv, ReopensAreExpired, RowsAreLast, Reopened
    <2>5. \A b \in Attempts : Dead(b) => ~Reopened(b)
        BY DEF Dead, Reopened
    <2>6. l \in Nat /\ \A b \in Attempts : b \in Nat /\ b > 0
        BY CardPaymentAssumption DEF Attempts
    <2>7. \A b \in 1 .. a - 1 : Dead(b)
        BY <2>1, <2>2, <2>3, <2>6
    <2>8. ASSUME NEW b \in Attempts, Reopened(b), HasRow(b) PROVE FALSE
        <3>1. b <= l
            BY <2>1, <2>6, <2>8
        <3>2. b # l
            BY <2>1, <2>3, <2>4, <2>5, <2>8
        <3>3. b \in 1 .. l - 1
            BY <2>6, <3>1, <3>2
        <3> QED BY <2>2, <2>5, <2>8, <3>3
    <2> QED BY <1>1, <2>7, <2>8
<1> QED BY <1>2, <1>3

(* No request is under way while a key is reopened under a row.             *)
LEMMA ReopenedIsLeftStep == Inv /\ [Next]_vars => ReopenedIsLeft'
<1> SUFFICES ASSUME Inv, [Next]_vars, NEW a \in Attempts, Reopened(a)', HasRow(a)',
                    NEW q \in Requests
             PROVE  request'[q] = "idle"
    BY DEF ReopenedIsLeft
<1>1. KeyStays(a)
    BY InvMoves DEF DominaiteMoves, KeyOpens, Reopened
<1>2. CASE Reopen(a)
    BY <1>2 DEF Reopen, requests
<1>3. CASE ~Reopen(a)
    <2>1. a \in reopens /\ Newest(a)' = Newest(a)
        BY <1>1, <1>3 DEF KeyStays, Reopened, Newest
    <2>2. opened[a] > 0 /\ Newest(a) \in Transactions
        BY <2>1, OpenedIsNat, LastIsTransaction DEF Inv, KeyInv, ReopensAreExpired
    <2>3. session[Newest(a)] # "none"
        <3>1. opened[a] \in 1 .. MaxSessions
            BY <2>1, CardPaymentAssumption DEF Inv, KeyInv, ReopensAreExpired
        <3> QED BY <3>1 DEF Inv, KeyInv, SessionsAreOpened, Newest
    <2>4. Moves(Newest(a))
        BY <2>2, InvMoves DEF DominaiteMoves
    <2>5. Reopened(a)
        BY <2>1, <2>3, <2>4 DEF Reopened, Moves
    <2>6. HasRow(a)
        BY <2>5, InvMoves DEF RowMoves, RowStays, RowOpens, RowFails, RowReported,
                              RowOf, HasRow, Inv, SessionInv, RecordingIsLast
    <2>7. request[q] = "idle"
        BY <2>5, <2>6 DEF Inv, SessionInv, ReopenedIsLeft
    <2>8. ~RequestStarts(q)
        BY <2>5, <2>6, AttemptToOpen DEF RequestStarts
    <2> QED BY <2>7, <2>8, InvMoves DEF RequestMoves, RequestStays, RequestAnswered,
                                        RequestRefused, RequestGoesOn, Asking
<1> QED BY <1>2, <1>3

(* A request that is under way is about an attempt.                         *)
LEMMA RequestsAskStep == Inv /\ [Next]_vars => RequestsAsk'
<1> SUFFICES ASSUME Inv, [Next]_vars, NEW q \in Requests, request'[q] # "idle"
             PROVE  attempt'[q] \in Attempts
    BY DEF RequestsAsk
<1>1. request[q] # "idle" => attempt[q] \in Attempts
    BY DEF Inv, SessionInv, RequestsAsk
<1>2. RequestMoves(q)
    BY InvMoves
<1> QED BY <1>1, <1>2, AttemptToOpen
        DEF RequestMoves, RequestStays, RequestStarts, RequestAnswered, RequestRefused,
            RequestGoesOn, Asking

(* What Dominaite answered is still the attempt's last session when it is   *)
(* recorded: its key is not reopened meanwhile.                             *)
LEMMA RecordingIsLastStep == Inv /\ [Next]_vars => RecordingIsLast'
<1> SUFFICES ASSUME Inv, [Next]_vars, NEW q \in Requests, request'[q] = "recording",
                    NEW a, a = attempt[q]
             PROVE  /\ attempt'[q] = a /\ opened'[a] > 0
                    /\ answered'[q] = Newest(a)' /\ ~Reopened(a)'
    BY DEF RecordingIsLast, Newest, Reopened
<1>1. CASE RequestStays(q)
    <2>1. /\ a \in Attempts /\ opened[a] > 0 /\ answered[q] = Newest(a) /\ ~Reopened(a)
        BY <1>1 DEF RequestStays, Inv, SessionInv, RequestsAsk, RecordingIsLast
    <2>2. KeyStays(a) /\ Newest(a)' = Newest(a)
        BY <2>1, LastStays
    <2>3. ~Reopen(a)
        BY <1>1 DEF RequestStays, Reopen
    <2>4. Newest(a) \in Transactions /\ opened[a] \in 1 .. MaxSessions
        <3>1. opened[a] \in 0 .. MaxSessions
            BY <2>1 DEF Inv, TypeOK
        <3> QED BY <2>1, <3>1, LastIsTransaction, CardPaymentAssumption DEF Inv
    <2>5. session[Newest(a)] # "none" /\ Moves(Newest(a))
        BY <2>1, <2>4, InvMoves DEF Inv, KeyInv, SessionsAreOpened, Newest, DominaiteMoves
    <2>6. ~(a \in reopens' /\ session'[Newest(a)] \in {"open", "approved"})
        BY <2>1, <2>2, <2>3, <2>5 DEF KeyStays, Moves, Reopened
    <2> QED BY <1>1, <2>1, <2>2, <2>6 DEF RequestStays, KeyStays, Newest, Reopened
<1>2. CASE RequestAnswered(q)
    <2>1. a \in Attempts /\ opened[a] \in Nat
        BY <1>2, OpenedIsNat DEF RequestAnswered, Asking, Inv, SessionInv, RequestsAsk
    <2>2. opened \in [Attempts -> 0 .. MaxSessions]
        BY DEF Inv, TypeOK
    <2>3. Answers(a) /\ answered'[q] = AnswerOf(a) /\ attempt'[q] = a
        BY <1>2 DEF RequestAnswered
    <2>4. CASE OpensNew(a)
        <3>1. opened'[a] = opened[a] + 1 /\ a \notin reopens'
            BY <2>1, <2>2, <2>3, <2>4 DEF Answers
        <3> QED BY <2>1, <2>3, <2>4, <3>1 DEF AnswerOf, Newest, Reopened
    <2>5. CASE ~OpensNew(a)
        <3>1. UNCHANGED <<opened, session, reopens>>
            BY <2>3, <2>5 DEF Answers
        <3> QED BY <2>1, <2>3, <2>5, <3>1 DEF AnswerOf, OpensNew, Newest, Reopened
    <2> QED BY <2>4, <2>5
<1> QED BY <1>1, <1>2, InvMoves DEF RequestMoves, RequestStarts, RequestRefused,
                                    RequestGoesOn

(* A request marks an attempt only once it is dead.                         *)
LEMMA MarkingIsDeadStep == Inv /\ [Next]_vars => MarkingIsDead'
<1> SUFFICES ASSUME Inv, [Next]_vars, NEW q \in Requests, request'[q] = "marking",
                    NEW a, a = attempt[q]
             PROVE  attempt'[q] = a /\ Dead(a)'
    BY DEF MarkingIsDead, Dead, Newest
<1>1. RequestStays(q) \/ RequestRefused(q)
    BY InvMoves DEF RequestMoves, RequestStarts, RequestAnswered, RequestGoesOn
<1>2. a \in Attempts /\ attempt'[q] = a
    BY <1>1 DEF RequestStays, RequestRefused, Asking, Inv, SessionInv, RequestsAsk
<1>3. Dead(a)
    BY <1>1 DEF RequestStays, RequestRefused, SpentFailed, Dead, Inv, SessionInv,
                MarkingIsDead
<1> QED BY <1>2, <1>3, DeadStays

(* An attempt is dead before the next is asked for.                         *)
LEMMA EarlierAreDeadStep == Inv /\ [Next]_vars => EarlierAreDead'
<1> SUFFICES ASSUME Inv, [Next]_vars, NEW a \in Attempts,
                    \/ HasRow(a)'
                    \/ \E q \in Requests : request'[q] # "idle" /\ attempt'[q] = a,
                    NEW b \in 1 .. a - 1
             PROVE  Dead(b)'
    BY DEF EarlierAreDead
<1>1. b \in Attempts
    BY CardPaymentAssumption DEF Attempts
<1>2. CASE HasRow(a) \/ \E q \in Requests : request[q] # "idle" /\ attempt[q] = a
    BY <1>1, <1>2, DeadStays DEF Inv, SessionInv, EarlierAreDead
<1>3. CASE ~(HasRow(a) \/ \E q \in Requests : request[q] # "idle" /\ attempt[q] = a)
    <2>1. ~HasRow(a)'
        BY <1>3, InvMoves DEF RowMoves, RowStays, RowOpens, RowFails, RowReported,
                              RowOf, HasRow
    <2>2. PICK q \in Requests : request'[q] # "idle" /\ attempt'[q] = a
        BY <2>1
    <2>3. CASE RequestStarts(q)
        BY <1>1, <2>2, <2>3, AttemptToOpen, DeadStays DEF RequestStarts
    <2>4. CASE RequestGoesOn(q)
        <3>1. /\ attempt[q] \in Attempts /\ Dead(attempt[q])
              /\ \A c \in 1 .. attempt[q] - 1 : Dead(c)
            BY <2>4 DEF RequestGoesOn, Inv, SessionInv, RequestsAsk, MarkingIsDead,
                        EarlierAreDead
        <3>2. a = attempt[q] + 1
            BY <2>2, <2>4 DEF RequestGoesOn
        <3>3. attempt[q] \in Int
            BY <3>1, CardPaymentAssumption DEF Attempts
        <3>4. b \in 1 .. attempt[q] - 1 \/ b = attempt[q]
            BY <3>2, <3>3
        <3>5. Dead(b)
            BY <3>1, <3>4
        <3> QED BY <1>1, <3>5, DeadStays
    <2> QED BY <1>3, <2>2, <2>3, <2>4, InvMoves
            DEF RequestMoves, RequestStays, RequestAnswered, RequestRefused, Asking
<1> QED BY <1>2, <1>3

(* A row is FAILED only if its session was declined, or its key refused.    *)
LEMMA FailedIsDeadStep == Inv /\ [Next]_vars => FailedIsDead'
<1> SUFFICES ASSUME Inv, [Next]_vars, NEW a \in Attempts, rowStatus'[a] = "FAILED"
             PROVE  Dead(a)'
    BY DEF FailedIsDead
<1> SUFFICES Dead(a)
    BY DeadStays
<1>1. CASE RowStays(a)
    BY <1>1 DEF RowStays, Inv, SessionInv, FailedIsDead
<1>2. CASE RowFails(a)
    BY <1>2 DEF RowFails, Inv, SessionInv, MarkingIsDead
<1>3. CASE RowReported(a)
    <2>1. PICK d \in Deliveries :
              \E e \in event[d] :
                  /\ a \in RowOf(e.transaction) /\ e.outcome # "succeeded"
                  /\ rowStatus'[a] = ATTEMPT_STATUS_BY_EVENT[e.outcome]
        BY <1>3 DEF RowReported
    <2>2. PICK e \in event[d] :
              /\ a \in RowOf(e.transaction) /\ e.outcome # "succeeded"
              /\ rowStatus'[a] = ATTEMPT_STATUS_BY_EVENT[e.outcome]
        BY <2>1
    <2>3. e.outcome \in Outcomes
        BY EventIsTyped DEF Inv, TypeOK
    <2>4. e.outcome = "failed"
        BY <2>2, <2>3 DEF ATTEMPT_STATUS_BY_EVENT, Outcomes
    <2>5. session[e.transaction] = "failed"
        BY <2>4 DEF Inv, SessionInv, EventsAreTrue, StateOf
    <2>6. opened[a] > 0 /\ e.transaction = Newest(a)
        BY <2>2 DEF RowOf, HasRow, Inv, SessionInv, RowsAreLast
    <2> QED BY <2>5, <2>6 DEF Dead
<1> QED BY <1>1, <1>2, <1>3, InvMoves DEF RowMoves, RowOpens

(* What was reported stays so.                                              *)
LEMMA EventsAreTrueStep == Inv /\ [Next]_vars => EventsAreTrue'
<1> SUFFICES ASSUME Inv, [Next]_vars PROVE EventsAreTrue'
    OBVIOUS
<1>1. ASSUME NEW e \in Events, session[e.transaction] = StateOf(e.outcome)
      PROVE  session'[e.transaction] = StateOf(e.outcome)
    <2>1. Moves(e.transaction)
        BY EventIsTyped, InvMoves DEF DominaiteMoves
    <2>2. StateOf(e.outcome) \in {"paid", "failed", "closed"}
        BY DEF StateOf
    <2> QED BY <1>1, <2>1, <2>2 DEF Moves
<1>2. sent \subseteq Events /\ \A d \in Deliveries : event[d] \subseteq Events
    BY DEF Inv, TypeOK
<1>3. \A e \in sent' : session'[e.transaction] = StateOf(e.outcome)
    BY <1>1, <1>2, InvMoves DEF EventsMove, Inv, SessionInv, EventsAreTrue
<1>4. \A d \in Deliveries : \A e \in event'[d] :
          session'[e.transaction] = StateOf(e.outcome)
    BY <1>1, <1>2, InvMoves DEF EventsMove, Inv, SessionInv, EventsAreTrue
<1> QED BY <1>3, <1>4 DEF EventsAreTrue

(* A delivery under way is of an attempt whose row stays on record.         *)
LEMMA DeliveredIsOnRecordStep == Inv /\ [Next]_vars => DeliveredIsOnRecord'
<1> SUFFICES ASSUME Inv, [Next]_vars, NEW d \in Deliveries, NEW e \in event'[d]
             PROVE  RowOf(e.transaction)' # {}
    BY DEF DeliveredIsOnRecord, RowOf
<1>1. RowOf(e.transaction) # {}
    BY InvMoves DEF EventsMove, Inv, DeliveredIsOnRecord
<1>2. PICK a \in Attempts : HasRow(a) /\ rowTransaction[a] = e.transaction
    BY <1>1 DEF RowOf, HasRow
<1> QED BY <1>2, RowStaysOnRecord DEF RowOf, HasRow

(* Only the success of an attempt on record, for the whole total, makes the *)
(* order PROCESSING; neither its row nor its money changes after that.      *)
LEMMA ProcessingIsPaidStep == Inv /\ [Next]_vars => ProcessingIsPaid'
<1> SUFFICES ASSUME Inv, [Next]_vars, orderStatus' = "PROCESSING"
             PROVE  \E a \in Attempts : /\ rowStatus'[a] = "SUCCEEDED"
                                        /\ taken'[rowTransaction'[a]] = "whole"
    BY DEF ProcessingIsPaid
<1>1. CASE OrderPaid
    <2>1. PICK d \in Deliveries :
              \E e \in event[d] :
                  /\ taken[e.transaction] = "whole"
                  /\ \A a \in RowOf(e.transaction) : rowStatus'[a] = "SUCCEEDED"
        BY <1>1 DEF OrderPaid
    <2>2. PICK e \in event[d] :
              /\ taken[e.transaction] = "whole"
              /\ \A a \in RowOf(e.transaction) : rowStatus'[a] = "SUCCEEDED"
        BY <2>1
    <2>3. PICK a \in RowOf(e.transaction) : TRUE
        BY DEF Inv, DeliveredIsOnRecord
    <2>4. a \in Attempts /\ rowTransaction[a] = e.transaction
        BY <2>3 DEF RowOf
    <2> QED BY <1>1, <2>2, <2>4 DEF OrderPaid
<1>2. CASE ~OrderPaid
    <2>1. orderStatus = "PROCESSING"
        BY <1>2, InvMoves DEF OrderMoves, order
    <2>2. PICK a \in Attempts : /\ rowStatus[a] = "SUCCEEDED"
                                /\ taken[rowTransaction[a]] = "whole"
        BY <2>1 DEF Inv, ProcessingIsPaid
    <2>3. rowTransaction[a] \in Transactions
        BY <2>2, LastIsTransaction DEF Inv, SessionInv, RowsAreLast, HasRow
    <2>4. session[rowTransaction[a]] # "open"
        BY <2>2, <2>3 DEF Inv, KeyInv, ChargesAreShown
    <2>5. taken'[rowTransaction[a]] = "whole"
        BY <2>2, <2>3, <2>4, InvMoves DEF MoneyMoves
    <2> QED BY <2>2, <2>5, RowStaysOnRecord DEF HasRow
<1> QED BY <1>1, <1>2

(* The order is announced by the step that makes it PROCESSING, which it    *)
(* stays.                                                                   *)
LEMMA AnnouncedOnceStep == Inv /\ [Next]_vars => AnnouncedOnce'
<1> SUFFICES ASSUME Inv, [Next]_vars PROVE AnnouncedOnce'
    OBVIOUS
<1>1. OrderMoves /\ AnnouncedOnce
    BY InvMoves DEF Inv
<1> QED BY <1>1 DEF OrderMoves, OrderPaid, order, AnnouncedOnce

(***************************************************************************)
(* The theorems.                                                            *)
(***************************************************************************)

(* Nothing is asked, opened or recorded at first.                           *)
LEMMA InvInit == Init => Inv
<1> SUFFICES ASSUME Init PROVE Inv
    OBVIOUS
<1> USE CardPaymentAssumption
<1>1. TypeOK
    BY DEF Init, TypeOK, OrderStatuses, RowStatuses
<1>2. KeyInv
    BY DEF Init, KeyInv, SessionsAreOpened, ReopensAreExpired, ChargesAreShown,
           Transactions
<1>3. \A a \in Attempts : ~HasRow(a) /\ rowStatus[a] # "FAILED" /\ ~Reopened(a)
    BY DEF Init, HasRow, Reopened
<1>4. \A q \in Requests : request[q] = "idle"
    BY DEF Init
<1>5. EventsAreTrue /\ DeliveredIsOnRecord
    BY DEF Init, EventsAreTrue, DeliveredIsOnRecord
<1>6. ShownAreOnRecord
    BY DEF Init, ShownAreOnRecord
<1>7. SessionInv
    BY <1>3, <1>4, <1>5, <1>6
    DEF SessionInv, RowsAreLast, ReopenedIsLeft, RequestsAsk, RecordingIsLast,
        MarkingIsDead, EarlierAreDead, FailedIsDead
<1>8. ProcessingIsPaid /\ AnnouncedOnce
    BY DEF Init, ProcessingIsPaid, AnnouncedOnce
<1> QED BY <1>1, <1>2, <1>5, <1>7, <1>8 DEF Inv

(* Every step keeps the invariant.                                          *)
LEMMA InvNext == Inv /\ [Next]_vars => Inv'
BY InvMoves, KeyInvStep, RowsAreLastStep, ShownAreOnRecordStep, ReopenedIsLeftStep,
   RequestsAskStep, RecordingIsLastStep, MarkingIsDeadStep, EarlierAreDeadStep,
   FailedIsDeadStep, EventsAreTrueStep, DeliveredIsOnRecordStep, ProcessingIsPaidStep,
   AnnouncedOnceStep DEF Inv, SessionInv

(* The inductive invariant holds of every reachable state.                  *)
THEOREM InvariantHolds == Spec => []Inv
BY InvInit, InvNext, PTL DEF Spec

(* Every variable keeps its type: no request asks for more than             *)
(* MAX_PAYMENT_ATTEMPTS attempts, no key opens more sessions than the bound.*)
THEOREM TypeCorrect == Spec => []TypeOK
<1>1. Inv => TypeOK
    BY DEF Inv
<1> QED BY <1>1, InvariantHolds, PTL

(* Of two sessions the browser has, one's attempt came first, and is dead.  *)
LEMMA ShownLive ==
    ASSUME Inv, NEW t \in shown, NEW u \in shown, ~Dead(t[1]), ~Dead(u[1])
    PROVE  t = u
<1>1. /\ t \in Transactions /\ HasRow(t[1]) /\ t = Newest(t[1])
      /\ u \in Transactions /\ HasRow(u[1]) /\ u = Newest(u[1])
    BY DEF Inv, SessionInv, ShownAreOnRecord
<1>2. t[1] \in Attempts /\ u[1] \in Attempts
    BY <1>1 DEF Transactions
<1>3. t[1] \in Nat /\ u[1] \in Nat /\ t[1] > 0 /\ u[1] > 0
    BY <1>2, CardPaymentAssumption DEF Attempts
<1>4. ~(t[1] < u[1]) /\ ~(u[1] < t[1])
    BY <1>1, <1>2, <1>3 DEF Inv, SessionInv, EarlierAreDead
<1> QED BY <1>1, <1>3, <1>4

(* What can be paid, or was, is a session the browser has, of an attempt    *)
(* that is not dead.                                                        *)
LEMMA PayableIsShown ==
    ASSUME Inv, NEW t \in Payable \union Charged
    PROVE  t \in shown /\ ~Dead(t[1])
<1>1. t \in shown /\ session[t] \in {"open", "approved", "paid"}
    BY DEF Payable, Charged, Inv, KeyInv, ChargesAreShown
<1>2. t = Newest(t[1])
    BY <1>1 DEF Inv, SessionInv, ShownAreOnRecord
<1> QED BY <1>1, <1>2 DEF Dead

(* The customer is charged at most once, however many tabs, retries,        *)
(* declines, lost answers and expired sessions there were.                  *)
THEOREM ChargedAtMostOnce == Spec => []OneLiveSession
<1>1. Inv => OneLiveSession
    BY PayableIsShown, ShownLive DEF OneLiveSession
<1> QED BY <1>1, InvariantHolds, PTL

(* What the customer paid is on record, so its success is applied.          *)
THEOREM NoPaymentIsUnknown == Spec => []ChargedIsOnRecord
<1>1. ASSUME Inv, NEW t \in Charged PROVE RowOf(t) # {}
    <2>1. t \in shown
        BY <1>1, PayableIsShown
    <2>2. t \in Transactions /\ HasRow(t[1]) /\ t = Newest(t[1])
        BY <1>1, <2>1 DEF Inv, SessionInv, ShownAreOnRecord
    <2>3. t[1] \in Attempts
        BY <2>2 DEF Transactions
    <2>4. rowTransaction[t[1]] = t
        BY <1>1, <2>2, <2>3 DEF Inv, SessionInv, RowsAreLast
    <2> QED BY <2>2, <2>3, <2>4 DEF RowOf, HasRow
<1>2. Inv => ChargedIsOnRecord
    BY <1>1 DEF ChargedIsOnRecord
<1> QED BY <1>2, InvariantHolds, PTL

(* The emails and the backoffice hear of the order exactly once, whatever   *)
(* is delivered twice, or by several deliveries at a time.                  *)
THEOREM OrderAnnouncedOnce == Spec => []AnnouncedOnce
<1>1. Inv => AnnouncedOnce
    BY DEF Inv
<1> QED BY <1>1, InvariantHolds, PTL

(* An order is PROCESSING only with an attempt SUCCEEDED for its whole      *)
(* total.                                                                   *)
THEOREM OnlyTheWholeTotalPays == Spec => []ProcessingIsPaid
<1>1. Inv => ProcessingIsPaid
    BY DEF Inv
<1> QED BY <1>1, InvariantHolds, PTL

(***************************************************************************)
(* The payment with the relay: PaidOrder implements CardOrder.              *)
(***************************************************************************)

(* The proofs about the relay, of the relay of the composition.             *)
RP == INSTANCE OutboxProofs WITH Events <- Rows, MaxAttempts <- MaxDeliveries

(* The instance of the model and the instance of its proofs say the same:   *)
(* at first, and in each action.                                            *)
LEMMA SameInit == Relay!Init => RP!Init
BY DEF Relay!Init, RP!Init, Relay!NoClaim, RP!NoClaim

(* So do their next-state relations.                                        *)
LEMMA SameNext == Relay!Next => RP!Next
<1>1. ASSUME NEW e PROVE Relay!Append(e) => RP!Append(e)
    BY DEF Relay!Append, Relay!memory, Relay!outside, RP!Append, RP!memory, RP!outside
<1>2. ASSUME NEW e PROVE Relay!TimePasses(e) => RP!TimePasses(e)
    BY DEF Relay!TimePasses, Relay!memory, Relay!outside, RP!TimePasses, RP!memory, RP!outside
<1>3. ASSUME NEW e PROVE Relay!ResetAttempts(e) => RP!ResetAttempts(e)
    BY DEF Relay!ResetAttempts, Relay!memory, Relay!Due, RP!ResetAttempts, RP!memory, RP!Due
<1>4. ASSUME NEW r, NEW S PROVE Relay!claimDue(r, S) => RP!claimDue(r, S)
    <2>1. {Relay!ClaimOf(e) : e \in S} = {RP!ClaimOf(e) : e \in S}
        BY DEF Relay!ClaimOf, RP!ClaimOf
    <2>2. Relay!Cardinality(S) = RP!Cardinality(S)
        BY DEF Relay!Cardinality, RP!Cardinality
    <2> QED BY <2>1, <2>2 DEF Relay!claimDue, Relay!outside, Relay!Goto, RP!claimDue,
                              RP!outside, RP!Goto
<1>5. ASSUME NEW r, NEW c PROVE Relay!deliver(r, c) => RP!deliver(r, c)
    BY DEF Relay!deliver, Relay!table, Relay!outside, Relay!Goto, RP!deliver, RP!table, RP!outside, RP!Goto
<1>6. ASSUME NEW r PROVE Relay!finishBatch(r) => RP!finishBatch(r)
    BY DEF Relay!finishBatch, Relay!table, Relay!outside, Relay!Goto, RP!finishBatch, RP!table, RP!outside, RP!Goto
<1>7. ASSUME NEW r, NEW h PROVE Relay!HandlerSucceeds(r, h) => RP!HandlerSucceeds(r, h)
    BY DEF Relay!HandlerSucceeds, Relay!table, Relay!Goto, RP!HandlerSucceeds, RP!table, RP!Goto
<1>8. ASSUME NEW r, NEW h PROVE Relay!HandlerFails(r, h) => RP!HandlerFails(r, h)
    BY DEF Relay!HandlerFails, Relay!table, RP!HandlerFails, RP!table
<1>9. ASSUME NEW r PROVE Relay!recordHandlerDone(r) => RP!recordHandlerDone(r)
    BY DEF Relay!recordHandlerDone, Relay!outside, Relay!Goto, Relay!heldBy, Relay!Recorded, RP!recordHandlerDone, RP!outside, RP!Goto, RP!heldBy, RP!Recorded
<1>10. ASSUME NEW r PROVE Relay!RecordFails(r) => RP!RecordFails(r)
    BY DEF Relay!RecordFails, Relay!outside, Relay!Goto, Relay!heldBy, Relay!Recorded, RP!RecordFails, RP!outside, RP!Goto, RP!heldBy, RP!Recorded
<1>11. ASSUME NEW r PROVE Relay!deleteDelivered(r) => RP!deleteDelivered(r)
    BY DEF Relay!deleteDelivered, Relay!outside, Relay!Settling, Relay!Leave, Relay!Goto, Relay!NoClaim, Relay!heldBy, RP!deleteDelivered, RP!outside, RP!Settling, RP!Leave, RP!Goto, RP!NoClaim, RP!heldBy
<1>12. ASSUME NEW r PROVE Relay!scheduleRetry(r) => RP!scheduleRetry(r)
    BY DEF Relay!scheduleRetry, Relay!Settling, Relay!Leave, Relay!Goto, Relay!NoClaim, Relay!heldBy, RP!scheduleRetry, RP!Settling, RP!Leave, RP!Goto, RP!NoClaim, RP!heldBy
<1>13. ASSUME NEW r PROVE Relay!LeaseLost(r) => RP!LeaseLost(r)
    BY DEF Relay!LeaseLost, Relay!table, Relay!outside, Relay!Settling, Relay!Leave, Relay!Goto, Relay!NoClaim, Relay!heldBy, RP!LeaseLost, RP!table, RP!outside, RP!Settling, RP!Leave, RP!Goto, RP!NoClaim, RP!heldBy
<1>14. ASSUME NEW r PROVE Relay!AbandonBatch(r) => RP!AbandonBatch(r)
    BY DEF Relay!AbandonBatch, Relay!table, Relay!outside, Relay!Leave, Relay!Goto, Relay!NoClaim, RP!AbandonBatch, RP!table, RP!outside, RP!Leave, RP!Goto, RP!NoClaim
<1>15. Relay!Claimable = RP!Claimable
    BY DEF Relay!Claimable, RP!Claimable, Relay!Due, RP!Due
<1>16. ASSUME NEW r PROVE Relay!RelayStep(r) => RP!RelayStep(r)
    BY <1>5, <1>6, <1>7, <1>8, <1>9, <1>10, <1>11, <1>12, <1>13 DEF Relay!RelayStep, RP!RelayStep
<1> QED BY <1>1, <1>2, <1>3, <1>4, <1>14, <1>15, <1>16 DEF Relay!Next, RP!Next

(***************************************************************************)
(* The components, as they run in the composition.                          *)
(***************************************************************************)

(* A step of the composition is one of the payment's, or leaves it alone,   *)
(* by the way it is composed; so what is proved of it alone may be used.    *)
LEMMA PaymentRunsAsSpecified == PaidOrderSpec => Spec
<1>1. PaidOrderInit => Init
    BY DEF PaidOrderInit
<1>2. [PaidOrderNext]_PaidOrderVars => [Next]_vars
    BY DEF PaidOrderNext, PaymentStep, OutboxStep, PaidOrderVars
<1> QED BY <1>1, <1>2, PTL DEF PaidOrderSpec, Spec

(* And so with the relay.                                                   *)
LEMMA RelayRunsAsSpecified == PaidOrderSpec => Relay!Spec
<1>1. PaidOrderInit => Relay!Init
    BY DEF PaidOrderInit
<1>2. UNCHANGED outbox => UNCHANGED Relay!vars
    BY DEF outbox, Relay!vars, Relay!table, Relay!memory, Relay!outside
<1>3. PaidOrderNext => Relay!Next \/ UNCHANGED outbox
    BY PaidOrderAssumption DEF PaidOrderNext, PaymentStep, OutboxStep, Relay!Next
<1>4. [PaidOrderNext]_PaidOrderVars => [Relay!Next]_(Relay!vars)
    BY <1>2, <1>3 DEF PaidOrderVars
<1> QED BY <1>1, <1>4, PTL DEF PaidOrderSpec, Relay!Spec

(* What the relay does is what its proofs are about.                        *)
LEMMA RelayIsProved == Relay!Spec => RP!Spec
<1>1. UNCHANGED Relay!vars => UNCHANGED RP!vars
    BY DEF Relay!vars, Relay!table, Relay!memory, Relay!outside,
           RP!vars, RP!table, RP!memory, RP!outside
<1>2. [Relay!Next]_(Relay!vars) => [RP!Next]_(RP!vars)
    BY <1>1, SameNext
<1> QED BY <1>2, SameInit, PTL DEF Relay!Spec, RP!Spec

(* So rows are typed, and are delivered before they are forgotten.          *)
LEMMA RelayDelivers ==
    PaidOrderSpec =>
        /\ []RP!TypeOK
        /\ [][RP!AtLeastOnceDelivery!Next]_(RP!AtLeastOnceDelivery!vars)
<1>1. RP!Spec => []RP!TypeOK
    BY RP!TypeCorrect, PaidOrderAssumption
<1>2. RP!Spec => RP!DeliversAtLeastOnce
    BY RP!RelayImplementsAtLeastOnce, PaidOrderAssumption
<1>3. RP!DeliversAtLeastOnce =>
          [][RP!AtLeastOnceDelivery!Next]_(RP!AtLeastOnceDelivery!vars)
    BY PTL DEF RP!DeliversAtLeastOnce, RP!AtLeastOnceDelivery!Spec
<1> QED BY <1>1, <1>2, <1>3, RelayRunsAsSpecified, RelayIsProved, PTL

(***************************************************************************)
(* What a step of the payment is to the customer.                           *)
(***************************************************************************)
SeenIsTrue ==
    \A d \in Deliveries : seenStatus[d] = "CANCELLED" => orderStatus = "CANCELLED"

ChargedStep ==
    \E t \in Payable : \E amount \in {"whole", "other"} :
        /\ taken' = [taken EXCEPT ![t] = amount]
        /\ UNCHANGED <<order, refundLogged>>

PaidStep ==
    /\ orderStatus = "PENDING_PAYMENT" /\ orderStatus' = "PROCESSING"
    /\ announced' = announced + 1
    /\ \E t \in Transactions : taken[t] = "whole"
    /\ UNCHANGED <<taken, refundLogged>>

CancelledStep ==
    /\ orderStatus = "PENDING_PAYMENT" /\ orderStatus' = "CANCELLED"
    /\ UNCHANGED <<announced, taken, refundLogged>>

RefundedStep ==
    \E t \in Transactions :
        /\ taken[t] = "whole" /\ orderStatus = "CANCELLED"
        /\ refundLogged' = refundLogged \union {t}
        /\ UNCHANGED <<order, taken>>

UnseenStep == UNCHANGED <<order, taken, refundLogged>>

CustomerStep ==
    ChargedStep \/ PaidStep \/ CancelledStep \/ RefundedStep \/ UnseenStep

(* Every step of the payment is one of these.                               *)
LEMMA StepsSeen ==
    ASSUME Inv, SeenIsTrue, [Next]_vars
    PROVE  CustomerStep
<1> USE DEF CustomerStep
<1>t. /\ \A d \in Deliveries : event[d] \subseteq Events
      /\ \A t \in shown : t \in Transactions
    BY DEF Inv, TypeOK
<1>1. ASSUME NEW t \in Transactions, NEW amount \in {"whole", "other"}, Pay(t, amount)
      PROVE  ChargedStep
    BY <1>1 DEF Pay, Payable, ChargedStep, deliveries
<1>2. ASSUME NEW d \in Deliveries, NEW e \in event[d], confirmPaid(d, e)
      PROVE  PaidStep \/ UnseenStep
    <2>1. UNCHANGED <<taken, refundLogged>>
        BY <1>2 DEF confirmPaid, onceForDelivery, dominaite
    <2>2. e.transaction \in Transactions /\ taken[e.transaction] = "whole"
        BY <1>t, <1>2, EventIsTyped DEF confirmPaid, RefusedAmount
    <2> QED BY <1>2, <2>1, <2>2 DEF confirmPaid, PaidStep, UnseenStep, order
<1>3. CASE Cancel
    BY <1>3 DEF Cancel, CancelledStep, dominaite, deliveries
<1>4. ASSUME NEW d \in Deliveries, NEW e \in event[d], Answer(d, e)
      PROVE  RefundedStep \/ UnseenStep
    <2>1. UNCHANGED <<order, taken>>
        BY <1>4 DEF Answer, dominaite
    <2>2. e.transaction \in Transactions
        BY <1>t, EventIsTyped
    <2>3. CASE refundLogged' = refundLogged
        BY <2>1, <2>3 DEF UnseenStep
    <2>4. CASE refundLogged' # refundLogged
        <3>1. /\ refundLogged' = refundLogged \union {e.transaction}
              /\ taken[e.transaction] = "whole" /\ seenStatus[d] = "CANCELLED"
            BY <1>4, <2>4 DEF Answer, RefusedAmount
        <3> QED BY <2>1, <2>2, <3>1 DEF RefundedStep, SeenIsTrue
    <2> QED BY <2>3, <2>4
<1>5. ASSUME NEW q \in Requests,
             \/ findPayableOrder(q) \/ KeySpent(q) \/ openSession(q) \/ AnswerLost(q)
             \/ markFailed(q) \/ recordOpened(q) \/ RequestEnds(q)
      PROVE  UnseenStep
    BY <1>5 DEF findPayableOrder, KeySpent, openSession, AnswerLost, Answers, markFailed,
                recordOpened, RequestEnds, dominaite, deliveries, UnseenStep
<1>6. ASSUME NEW d \in Deliveries, NEW e,
             LeaveUnpaid(d, e) \/ closeAttempt(d, e) \/ findReportedAttempt(d, e)
      PROVE  UnseenStep
    BY <1>6 DEF LeaveUnpaid, closeAttempt, findReportedAttempt, onceForDelivery,
                dominaite, UnseenStep
<1>7. ASSUME NEW d \in Deliveries, DeliveryLost(d) PROVE UnseenStep
    BY <1>7 DEF DeliveryLost, dominaite, UnseenStep
<1>8. ASSUME NEW e, DropUnknown(e) PROVE UnseenStep
    BY <1>8 DEF DropUnknown, dominaite, deliveries, UnseenStep
<1>9. ASSUME NEW t, Expire(t) \/ Decline(t) \/ Settle(t) \/ Close(t) PROVE UnseenStep
    BY <1>9 DEF Expire, Decline, Settle, Close, End, deliveries, UnseenStep
<1>10. ASSUME NEW a, Reopen(a) PROVE UnseenStep
    BY <1>10 DEF Reopen, deliveries, UnseenStep
<1>11. ASSUME UNCHANGED vars PROVE UnseenStep
    BY <1>11 DEF vars, dominaite, deliveries, UnseenStep
<1> QED BY <1>1, <1>2, <1>3, <1>4, <1>5, <1>6, <1>7, <1>8, <1>9, <1>10, <1>11
        DEF Next, DeliveryStep

(* A delivery that saw the order cancelled saw what it still is: CANCELLED  *)
(* is final.                                                                *)
LEMMA SeenStep == Inv /\ SeenIsTrue /\ [Next]_vars => SeenIsTrue'
<1> SUFFICES ASSUME Inv, SeenIsTrue, [Next]_vars,
                    NEW d \in Deliveries, seenStatus'[d] = "CANCELLED"
             PROVE  orderStatus' = "CANCELLED"
    BY DEF SeenIsTrue
<1>1. orderStatus = "CANCELLED" => orderStatus' = "CANCELLED"
    BY InvMoves DEF OrderMoves, OrderPaid, order
<1>2. seenStatus[d] = "CANCELLED" \/ orderStatus = "CANCELLED"
    <2>t. seenStatus \in [Deliveries -> OrderStatuses]
        BY DEF Inv, TypeOK
    <2>1. CASE UNCHANGED seenStatus
        BY <2>1
    <2>2. ASSUME NEW c \in Deliveries, EndDelivery(c)
          PROVE  seenStatus[d] = "CANCELLED"
        BY <2>t, <2>2 DEF EndDelivery
    <2>3. ASSUME NEW c \in Deliveries, NEW e, findReportedAttempt(c, e)
          PROVE  seenStatus[d] = "CANCELLED" \/ orderStatus = "CANCELLED"
        BY <2>t, <2>3 DEF findReportedAttempt
    <2>4. ASSUME NEW c \in Deliveries, NEW e,
                 LeaveUnpaid(c, e) \/ confirmPaid(c, e) \/ closeAttempt(c, e)
          PROVE  UNCHANGED seenStatus
        BY <2>4 DEF LeaveUnpaid, confirmPaid, closeAttempt, onceForDelivery
    <2>5. ASSUME NEW q \in Requests,
                 \/ findPayableOrder(q) \/ KeySpent(q) \/ openSession(q) \/ AnswerLost(q)
                 \/ markFailed(q) \/ recordOpened(q) \/ RequestEnds(q)
          PROVE  UNCHANGED seenStatus
        BY <2>5 DEF findPayableOrder, KeySpent, openSession, AnswerLost, markFailed,
                    recordOpened, RequestEnds, deliveries
    <2>6. ASSUME NEW t, \/ \E amount \in {"whole", "other"} : Pay(t, amount)
                        \/ Expire(t) \/ Decline(t) \/ Settle(t) \/ Close(t)
          PROVE  UNCHANGED seenStatus
        BY <2>6 DEF Pay, Expire, Decline, Settle, Close, End, deliveries
    <2>7. ASSUME NEW x, Reopen(x) \/ DropUnknown(x) \/ Cancel \/ UNCHANGED vars
          PROVE  UNCHANGED seenStatus
        BY <2>7 DEF Reopen, DropUnknown, Cancel, vars, deliveries
    <2> QED BY <2>1, <2>2, <2>3, <2>4, <2>5, <2>6, <2>7
            DEF Next, DeliveryStep, Answer, DeliveryLost
<1> QED BY <1>1, <1>2 DEF SeenIsTrue

(***************************************************************************)
(* The two together.                                                        *)
(***************************************************************************)

(* What is asked of a state of the composition before a step.               *)
Ready == Inv /\ RP!TypeOK /\ SeenIsTrue /\ WrittenWhenPaid

(* A step of the payment appends the order's row when it announces it, and  *)
(* else leaves the outbox alone.                                            *)
LEMMA PaymentAndRow ==
    ASSUME Ready, PaymentStep
    PROVE  /\ CustomerStep
           /\ \/ PaidStep /\ stored' = [stored EXCEPT ![orderPlaced] = "stored"]
              \/ ~PaidStep /\ UNCHANGED stored
           /\ UNCHANGED delivered
<1>1. CustomerStep
    BY StepsSeen DEF Ready, PaymentStep
<1>2. CASE PaidStep
    <2>1. announced' # announced /\ stored[orderPlaced] = "unwritten"
        BY <1>2 DEF PaidStep, Ready, WrittenWhenPaid, Inv, AnnouncedOnce
    <2> QED BY <1>1, <1>2, <2>1 DEF PaymentStep, Relay!Append, Relay!outside
<1>3. CASE ~PaidStep
    <2>1. announced' = announced
        BY <1>1, <1>3 DEF CustomerStep, ChargedStep, CancelledStep, RefundedStep,
                          UnseenStep, order
    <2> QED BY <1>1, <1>3, <2>1 DEF PaymentStep, outbox
<1> QED BY <1>2, <1>3

(* A step of the relay tells a handler of the order, forgets it once all    *)
(* have been told, or does neither.                                         *)
Told == {h \in Subscribers[orderPlaced] : <<orderPlaced, h>> \in delivered}

TellingStep ==
    /\ stored[orderPlaced] = "stored" /\ UNCHANGED stored
    /\ \E h \in Subscribers[orderPlaced] : Told' = Told \union {h}

ForgettingStep ==
    /\ stored[orderPlaced] = "stored" /\ stored'[orderPlaced] = "deleted"
    /\ Told = Subscribers[orderPlaced] /\ Told' = Told

AsideStep == stored'[orderPlaced] = stored[orderPlaced] /\ Told' = Told

(* Every step of the relay is one of these.                                 *)
LEMMA RelayStepsSeen ==
    ASSUME Ready, OutboxStep,
           [RP!AtLeastOnceDelivery!Next]_(RP!AtLeastOnceDelivery!vars)
    PROVE  TellingStep \/ ForgettingStep \/ AsideStep
<1>t. /\ orderPlaced \in Rows
      /\ stored \in [Rows -> {"unwritten", "stored", "deleted"}]
    BY PaidOrderAssumption DEF Ready, RP!TypeOK
<1>1. ASSUME NEW e \in Rows, RP!AtLeastOnceDelivery!Append(e)
      PROVE  AsideStep
    BY <1>t, <1>1 DEF RP!AtLeastOnceDelivery!Append, OutboxStep, AsideStep, Told
<1>2. ASSUME NEW e \in Rows, NEW h, RP!AtLeastOnceDelivery!Deliver(e, h)
      PROVE  TellingStep \/ AsideStep
    <2>1. CASE e = orderPlaced
        <3>1. Told' = Told \union {h} /\ h \in Subscribers[orderPlaced]
            BY <1>2, <2>1 DEF RP!AtLeastOnceDelivery!Deliver, Told
        <3> QED BY <1>2, <2>1, <3>1 DEF RP!AtLeastOnceDelivery!Deliver, TellingStep
    <2>2. CASE e # orderPlaced
        BY <1>2, <2>2 DEF RP!AtLeastOnceDelivery!Deliver, AsideStep, Told
    <2> QED BY <2>1, <2>2
<1>3. ASSUME NEW e \in Rows, RP!AtLeastOnceDelivery!Forget(e)
      PROVE  ForgettingStep \/ AsideStep
    <2>1. CASE e = orderPlaced
        BY <1>t, <1>3, <2>1 DEF RP!AtLeastOnceDelivery!Forget, ForgettingStep, Told
    <2>2. CASE e # orderPlaced
        BY <1>t, <1>3, <2>2 DEF RP!AtLeastOnceDelivery!Forget, AsideStep, Told
    <2> QED BY <2>1, <2>2
<1>4. ASSUME UNCHANGED RP!AtLeastOnceDelivery!vars
      PROVE  AsideStep
    BY <1>4 DEF RP!AtLeastOnceDelivery!vars, AsideStep, Told
<1> QED BY <1>1, <1>2, <1>3, <1>4 DEF RP!AtLeastOnceDelivery!Next

(* The row of the order is there exactly when the order is paid.            *)
LEMMA WrittenStep ==
    ASSUME Ready, [PaidOrderNext]_PaidOrderVars,
           [RP!AtLeastOnceDelivery!Next]_(RP!AtLeastOnceDelivery!vars)
    PROVE  WrittenWhenPaid'
<1> USE DEF WrittenWhenPaid
<1>t. /\ orderPlaced \in Rows
      /\ stored \in [Rows -> {"unwritten", "stored", "deleted"}]
      /\ WrittenWhenPaid
    BY PaidOrderAssumption DEF Ready, RP!TypeOK
<1>1. CASE PaymentStep
    BY <1>t, <1>1, PaymentAndRow
    DEF CustomerStep, ChargedStep, PaidStep, CancelledStep, RefundedStep, UnseenStep, order
<1>2. CASE OutboxStep
    <2>1. UNCHANGED orderStatus
        BY <1>2 DEF OutboxStep, vars, order
    <2> QED BY <1>t, <1>2, <2>1, RelayStepsSeen
            DEF TellingStep, ForgettingStep, AsideStep
<1>3. CASE UNCHANGED PaidOrderVars
    BY <1>t, <1>3 DEF PaidOrderVars, vars, order, outbox
<1> QED BY <1>1, <1>2, <1>3 DEF PaidOrderNext

(* Every step of the composition finds the state so.                        *)
LEMMA ReadyAlways == PaidOrderSpec => []Ready
<1>1. PaidOrderInit => SeenIsTrue /\ WrittenWhenPaid
    BY PaidOrderAssumption
    DEF PaidOrderInit, Init, Relay!Init, SeenIsTrue, WrittenWhenPaid
<1>2. /\ Inv /\ RP!TypeOK /\ SeenIsTrue /\ WrittenWhenPaid
      /\ [PaidOrderNext]_PaidOrderVars
      /\ [RP!AtLeastOnceDelivery!Next]_(RP!AtLeastOnceDelivery!vars)
      => WrittenWhenPaid'
    BY WrittenStep DEF Ready
<1>3. [PaidOrderNext]_PaidOrderVars => [Next]_vars
    BY DEF PaidOrderNext, PaymentStep, OutboxStep, PaidOrderVars
<1> QED BY <1>1, <1>2, <1>3, SeenStep, RelayDelivers, PaymentRunsAsSpecified,
           InvariantHolds, PTL DEF PaidOrderSpec, Ready

(* The OrderPlaced of a card order is written when it is paid and not       *)
(* before, and never without it.                                            *)
THEOREM PaidIsWritten == PaidOrderSpec => []WrittenWhenPaid
<1>1. Ready => WrittenWhenPaid
    BY DEF Ready
<1> QED BY <1>1, ReadyAlways, PTL

(***************************************************************************)
(* The promise.                                                             *)
(***************************************************************************)

Charges == {<<t, taken[t]>> : t \in Charged}

(* Money once taken is all the money there is.                              *)
LEMMA OneCharge ==
    ASSUME Inv, NEW t \in Transactions, taken[t] # "none"
    PROVE  Charges = {<<t, taken[t]>>}
<1>1. t \in Charged
    BY DEF Charged
<1>2. \A u \in Charged : u = t
    BY <1>1, PayableIsShown, ShownLive
<1> QED BY <1>1, <1>2 DEF Charges

(* While a session can be paid, none was.                                   *)
LEMMA NoChargeYet ==
    ASSUME Inv, NEW t \in Payable
    PROVE  t \in Transactions /\ Charged = {}
<1>1. t \in Transactions /\ session[t] = "open"
    BY DEF Payable, Inv, TypeOK
<1>2. t \notin Charged
    BY <1>1 DEF Charged, Inv, KeyInv, ChargesAreShown
<1>3. \A u \in Charged : u = t
    BY PayableIsShown, ShownLive
<1> QED BY <1>1, <1>2, <1>3

(* A step of the payment is a step of the promise.                          *)
LEMMA PaymentKeepsPromise ==
    ASSUME Ready, PaymentStep
    PROVE  [Promise!Next]_(Promise!vars)
<1> USE DEF Ready, Promise!Next
<1>t. /\ orderPlaced \in Rows /\ announced \in Nat
      /\ stored \in [Rows -> {"unwritten", "stored", "deleted"}]
      /\ taken \in [Transactions -> {"none", "whole", "other"}]
    BY PaidOrderAssumption DEF RP!TypeOK, Inv, TypeOK
<1>0. CustomerStep /\ UNCHANGED delivered
    BY PaymentAndRow
<1>1. ASSUME NEW t \in Payable, NEW amount \in {"whole", "other"},
             taken' = [taken EXCEPT ![t] = amount],
             UNCHANGED <<order, refundLogged>>, UNCHANGED stored
      PROVE  Promise!Next
    <2>1. t \in Transactions /\ Charges = {}
        BY <1>1, NoChargeYet DEF Charges
    <2>2. Charged' = {t} /\ taken'[t] = amount
        BY <1>t, <1>1, <2>1, NoChargeYet DEF Charged
    <2>3. Charges' = {<<t, amount>>}
        BY <2>2 DEF Charges
    <2>4. Promise!Charge(t, amount)
        BY <1>0, <1>1, <2>1, <2>3 DEF Promise!Charge, Charges, order
    <2> QED BY <1>1, <2>1, <2>4
<1>2. ASSUME PaidStep, stored' = [stored EXCEPT ![orderPlaced] = "stored"]
      PROVE  Promise!Next
    <2>1. PICK t \in Transactions : taken[t] = "whole"
        BY <1>2 DEF PaidStep
    <2>2. Charges = {<<t, "whole">>}
        BY <2>1, OneCharge
    <2>3. stored[orderPlaced] # "deleted" /\ stored'[orderPlaced] # "deleted"
        BY <1>t, <1>2 DEF PaidStep, WrittenWhenPaid
    <2>4. /\ stored[orderPlaced] = "unwritten" /\ stored'[orderPlaced] # "unwritten"
          /\ announced = 0 /\ announced' = announced + 1
        BY <1>t, <1>2 DEF PaidStep, WrittenWhenPaid, Inv, AnnouncedOnce
    <2>5. Promise!Confirm(t)
        BY <1>0, <1>2, <2>2, <2>3, <2>4 DEF PaidStep, Promise!Confirm, Charges, Charged
    <2> QED BY <2>5
<1>3. ASSUME CancelledStep, UNCHANGED stored PROVE Promise!Next
    BY <1>0, <1>3 DEF CancelledStep, Promise!Cancel, Charged
<1>4. ASSUME RefundedStep, UNCHANGED stored PROVE Promise!Next
    <2>1. PICK t \in Transactions :
              /\ taken[t] = "whole" /\ orderStatus = "CANCELLED"
              /\ refundLogged' = refundLogged \union {t}
              /\ UNCHANGED <<order, taken>>
        BY <1>4 DEF RefundedStep
    <2>2. Charges = {<<t, "whole">>}
        BY <2>1, OneCharge
    <2>3. Promise!Refund(t)
        BY <1>0, <1>4, <2>1, <2>2 DEF Promise!Refund, Charges, Charged, order
    <2> QED BY <2>3
<1>5. ASSUME UnseenStep, UNCHANGED stored PROVE UNCHANGED Promise!vars
    BY <1>0, <1>5 DEF UnseenStep, Promise!vars, Charged, order
<1>6. ASSUME ChargedStep, UNCHANGED stored PROVE Promise!Next
    BY <1>1, <1>6 DEF ChargedStep
<1>7. CASE PaidStep
    BY <1>2, <1>7, PaymentAndRow
<1>8. CASE ~PaidStep
    BY <1>0, <1>3, <1>4, <1>5, <1>6, <1>8, PaymentAndRow DEF CustomerStep
<1> QED BY <1>7, <1>8

(* A step of the relay is a step of the promise: it tells only of an order  *)
(* whose row was written, that is, of one that was paid.                    *)
LEMMA RelayKeepsPromise ==
    ASSUME Ready, OutboxStep,
           [RP!AtLeastOnceDelivery!Next]_(RP!AtLeastOnceDelivery!vars)
    PROVE  [Promise!Next]_(Promise!vars)
<1> USE DEF Promise!Next
<1>1. UNCHANGED <<orderStatus, announced, taken, refundLogged>>
    BY DEF OutboxStep, vars, order, dominaite, deliveries
<1>2. stored[orderPlaced] # "unwritten" => orderStatus = "PROCESSING"
    BY DEF Ready, WrittenWhenPaid
<1>3. CASE TellingStep
    <2>1. PICK h \in Subscribers[orderPlaced] : Told' = Told \union {h}
        BY <1>3 DEF TellingStep
    <2>2. Promise!Tell(h)
        BY <1>1, <1>2, <1>3, <2>1 DEF TellingStep, Told, Promise!Tell, Charged
    <2> QED BY <2>2
<1>4. CASE ForgettingStep
    <2>1. Promise!Forget
        BY <1>1, <1>2, <1>4 DEF ForgettingStep, Told, Promise!Forget, Charged
    <2> QED BY <2>1
<1>5. CASE AsideStep
    BY <1>1, <1>5 DEF AsideStep, Told, Promise!vars, Charged
<1> QED BY <1>3, <1>4, <1>5, RelayStepsSeen

(* Payment, webhooks, sessions, outbox, leases and retries, crashes and all *)
(* interleavings of them, keep what the customer of a card order is         *)
(* promised.                                                                *)
THEOREM CardOrderIsKept == PaidOrderSpec => KeepsTheOrder
<1>1. PaidOrderInit => Promise!Init
    BY PaidOrderAssumption
    DEF PaidOrderInit, Init, Relay!Init, Promise!Init, Charged
<1>2. ASSUME Ready, UNCHANGED PaidOrderVars PROVE UNCHANGED Promise!vars
    BY <1>2 DEF PaidOrderVars, vars, order, dominaite, deliveries, outbox,
                Promise!vars, Charged
<1>3. /\ Ready /\ [PaidOrderNext]_PaidOrderVars
      /\ [RP!AtLeastOnceDelivery!Next]_(RP!AtLeastOnceDelivery!vars)
      => [Promise!Next]_(Promise!vars)
    BY <1>2, PaymentKeepsPromise, RelayKeepsPromise DEF PaidOrderNext
<1> QED BY <1>1, <1>3, ReadyAlways, RelayDelivers, PTL
        DEF PaidOrderSpec, KeepsTheOrder, Promise!Spec
==============================================================================
