----------------------------- MODULE CardPayment -----------------------------
(***************************************************************************)
(* Paying one card order (apps/api/src/orders/card-payment/): requests that *)
(* open its payment session, the sessions Dominaite keeps for it, and the   *)
(* webhook deliveries that confirm it.  Orders share nothing, since every   *)
(* statement names its order or its transaction, so one order is enough.    *)
(*                                                                          *)
(* A request reads the order, then asks Dominaite, then writes; a delivery  *)
(* reads the attempt, then writes.  Other steps come in between, and either *)
(* may end early: an error, a crash, an answer that is lost.                *)
(***************************************************************************)
EXTENDS Integers, FiniteSets

CONSTANTS
    Requests,     \* concurrent POST /orders/:ref/payment, of one or more tabs
    Deliveries,   \* concurrent POST /payments/dominaite/webhook
    MaxAttempts,  \* MAX_PAYMENT_ATTEMPTS
    MaxSessions,  \* bound: sessions Dominaite opens under one key
    Copies,       \* bound: deliveries, under ids of their own, of one outcome
    MaxCrashes    \* bound: deliveries that die, or whose 200 is lost

ASSUME CardPaymentAssumption ==
    /\ MaxAttempts \in Nat \ {0}
    /\ MaxSessions \in Nat \ {0}
    /\ Copies \in Nat \ {0}
    /\ MaxCrashes \in Nat

Attempts == 1 .. MaxAttempts

(* The n-th session opened under an attempt's idempotency key.              *)
Transactions == Attempts \X (1 .. MaxSessions)
NoTransaction == <<0, 0>>

(* What Dominaite reports: ATTEMPT_STATUS_BY_EVENT.                         *)
ATTEMPT_STATUS_BY_EVENT ==
    [succeeded |-> "SUCCEEDED", failed |-> "FAILED",
     abandoned |-> "ABANDONED", cancelled |-> "CANCELLED"]

Outcomes == DOMAIN ATTEMPT_STATUS_BY_EVENT

(* A delivery's id is the event itself; copy tells the ids of one outcome.  *)
Events == [copy : 1 .. Copies, transaction : Transactions, outcome : Outcomes]

VARIABLES
    \* The order, its CardPayment rows and PaymentWebhookEvent.
    orderStatus,
    announced,    \* how many OrderPlaced events were written for it
    rowTransaction, rowStatus,    \* by attempt; "NONE" when there is no row
    handled,
    \* Dominaite.
    opened,       \* how many sessions each attempt's key has opened
    session,      \* "none", "open", "approved", "paid", "failed", "closed"
    expired,      \* the transactions past their expiresAt
    reopens,      \* the keys that answer a fresh session, a while past it
    taken,        \* the money taken: "none", "whole" or "other" than the total
    sent,         \* the events not yet answered with 200
    \* The requests, and what the browser got.
    request,      \* "idle", "asking", "marking", "asking again", "recording"
    attempt,      \* the attempt each request asks for
    answered,     \* the transaction Dominaite answered it
    shown,        \* the transactions whose session reached the browser
    \* The deliveries.
    delivery,     \* "idle", "applying", "answering"
    event,        \* what each one delivers
    seenStatus,   \* the orderStatus it read with the attempt
    effect,       \* "applied", "unchanged" or "duplicate"
    refundLogged, \* the transactions logged at error for a refund
    crashes

order == <<orderStatus, announced>>
rows == <<rowTransaction, rowStatus>>
dominaite == <<opened, session, expired, reopens, taken>>
requests == <<request, attempt, answered, shown>>
deliveries == <<delivery, event, seenStatus, effect, refundLogged, crashes>>
vars == <<order, rows, handled, dominaite, sent, requests, deliveries>>

(***************************************************************************)
(* Dominaite, as docs/PAYMENTS.md measured it.                              *)
(***************************************************************************)
Newest(a) == <<a, opened[a]>>

(* A session ends two hours after it was opened, whatever it has taken.     *)
Expire(t) ==
    /\ session[t] \in {"open", "approved"} /\ t \notin expired
    /\ expired' = expired \union {t}
    /\ UNCHANGED <<order, rows, handled, opened, session, reopens, taken, sent,
                   requests, deliveries>>

(* A few minutes later its key would open a fresh one.  The timing assumed: *)
(* no request that was under way at expiresAt still is.                     *)
Reopen(a) ==
    /\ opened[a] \in 1 .. MaxSessions - 1
    /\ Newest(a) \in expired /\ session[Newest(a)] \in {"open", "approved"}
    /\ \A q \in Requests : request[q] = "idle"
    /\ reopens' = reopens \union {a}
    /\ UNCHANGED <<order, rows, handled, opened, session, expired, taken, sent,
                   requests, deliveries>>

(* The outcome is decided, and reported under one or more ids.              *)
End(t, state, outcome) ==
    /\ session' = [session EXCEPT ![t] = state]
    /\ sent' = sent \union [copy : 1 .. Copies, transaction : {t}, outcome : {outcome}]
    /\ UNCHANGED <<order, rows, handled, opened, expired, reopens, requests,
                   deliveries>>

(* The browser's widget: approved at once, but "pending" for some seconds.  *)
Pay(t, amount) ==
    /\ t \in shown /\ t \notin expired /\ session[t] = "open"
    /\ session' = [session EXCEPT ![t] = "approved"]
    /\ taken' = [taken EXCEPT ![t] = amount]
    /\ UNCHANGED <<order, rows, handled, opened, expired, reopens, sent, requests,
                   deliveries>>

Decline(t) ==
    /\ t \in shown /\ t \notin expired /\ session[t] = "open"
    /\ End(t, "failed", "failed")
    /\ UNCHANGED taken

Settle(t) ==
    /\ session[t] = "approved"
    /\ End(t, "paid", "succeeded")
    /\ UNCHANGED taken

(* About an hour past its end an unpaid session is closed for good.         *)
Close(t) ==
    /\ session[t] = "open" /\ t \in expired
    /\ \E outcome \in {"abandoned", "cancelled"} : End(t, "closed", outcome)
    /\ UNCHANGED taken

(* createCheckoutSession under the attempt's key: the session it answers,   *)
(* opening one if need be, or the refusal of a spent key.                   *)
OpensNew(a) ==
    \/ opened[a] = 0
    \/ a \in reopens /\ session[Newest(a)] \in {"open", "approved"}

SpentPaid(a) == opened[a] > 0 /\ session[Newest(a)] = "paid"

SpentFailed(a) == opened[a] > 0 /\ session[Newest(a)] \in {"failed", "closed"}

AnswerOf(a) == IF OpensNew(a) THEN <<a, opened[a] + 1>> ELSE Newest(a)

Answers(a) ==
    /\ ~SpentPaid(a) /\ ~SpentFailed(a)
    /\ IF OpensNew(a)
         THEN /\ opened' = [opened EXCEPT ![a] = @ + 1]
              /\ session' = [session EXCEPT ![AnswerOf(a)] = "open"]
              /\ reopens' = reopens \ {a}
         ELSE UNCHANGED <<opened, session, reopens>>
    /\ UNCHANGED <<expired, taken>>

(***************************************************************************)
(* CardPaymentService.openPayment                                           *)
(***************************************************************************)
Goto(q, place) == request' = [request EXCEPT ![q] = place]

(* A request that ends, however it does, leaves its locals behind.          *)
EndRequest(q) ==
    /\ Goto(q, "idle")
    /\ attempt' = [attempt EXCEPT ![q] = 0]
    /\ answered' = [answered EXCEPT ![q] = NoTransaction]

(* The attempts a payment may be opened under: none throws not-payable.     *)
attemptAfter(a) == {a + 1} \intersect Attempts

(* Mutant of attemptToOpen: every call is a new attempt.                    *)
attemptToOpenNext ==
    {a \in Attempts : /\ \A b \in Attempts : b >= a => rowStatus[b] = "NONE"
                      /\ \A b \in 1 .. a - 1 : rowStatus[b] # "NONE"}

(* The latest attempt is asked for again while its session lasts, and       *)
(* followed by the next once it failed.                                     *)
attemptToOpen ==
    LET latest == {a \in Attempts :
                     /\ rowStatus[a] # "NONE"
                     /\ \A b \in Attempts : b > a => rowStatus[b] = "NONE"}
    IN  {a \in Attempts :
            \/ a = 1 /\ \A b \in Attempts : rowStatus[b] = "NONE"
            \/ \E b \in latest : rowStatus[b] = "FAILED" /\ a \in attemptAfter(b)
            \/ a \in latest /\ rowStatus[a] = "OPEN" /\ rowTransaction[a] \notin expired}

findPayableOrder(q) ==
    /\ request[q] = "idle" /\ orderStatus = "PENDING_PAYMENT"
    /\ \E a \in attemptToOpen : attempt' = [attempt EXCEPT ![q] = a]
    /\ Goto(q, "asking")
    /\ UNCHANGED <<order, rows, handled, dominaite, sent, answered, shown, deliveries>>

Asking(q) == request[q] \in {"asking", "asking again"}

(* Mutant of openSession: the browser has the session before its row is     *)
(* written.                                                                 *)
openSessionShown(q) ==
    /\ Asking(q) /\ Answers(attempt[q])
    /\ answered' = [answered EXCEPT ![q] = AnswerOf(attempt[q])]
    /\ shown' = shown \union {AnswerOf(attempt[q])}
    /\ Goto(q, "recording")
    /\ UNCHANGED <<order, rows, handled, sent, attempt, deliveries>>

openSession(q) ==
    /\ Asking(q) /\ Answers(attempt[q])
    /\ answered' = [answered EXCEPT ![q] = AnswerOf(attempt[q])]
    /\ Goto(q, "recording")
    /\ UNCHANGED <<order, rows, handled, sent, attempt, shown, deliveries>>

(* A timeout, or the process dying, after Dominaite opened the session.     *)
AnswerLost(q) ==
    /\ Asking(q) /\ Answers(attempt[q])
    /\ EndRequest(q)
    /\ UNCHANGED <<order, rows, handled, sent, shown, deliveries>>

(* PRIOR_ATTEMPT_FAILED, the first time it is asked.                        *)
KeySpent(q) ==
    /\ request[q] = "asking" /\ SpentFailed(attempt[q])
    /\ Goto(q, "marking")
    /\ UNCHANGED <<order, rows, handled, dominaite, sent, attempt, answered, shown,
                   deliveries>>

markFailed(q) ==
    /\ request[q] = "marking"
    /\ rowStatus' = [rowStatus EXCEPT ![attempt[q]] = IF @ = "OPEN" THEN "FAILED" ELSE @]
    /\ IF attemptAfter(attempt[q]) = {}
         THEN EndRequest(q)
         ELSE /\ Goto(q, "asking again")
              /\ attempt' = [attempt EXCEPT ![q] = @ + 1]
              /\ UNCHANGED answered
    /\ UNCHANGED <<order, rowTransaction, handled, dominaite, sent, shown, deliveries>>

(* One row per attempt, the first to be written (skipDuplicates); only then *)
(* does the browser get the session.                                        *)
recordOpened(q) ==
    /\ request[q] = "recording"
    /\ IF rowStatus[attempt[q]] = "NONE"
         THEN /\ rowTransaction' = [rowTransaction EXCEPT ![attempt[q]] = answered[q]]
              /\ rowStatus' = [rowStatus EXCEPT ![attempt[q]] = "OPEN"]
         ELSE UNCHANGED rows
    /\ shown' = shown \union {answered[q]}
    /\ EndRequest(q)
    /\ UNCHANGED <<order, handled, dominaite, sent, deliveries>>

(* Refused, failed or crashed: 409 for a paid key, 500 for a second spent   *)
(* one, 503 when Dominaite is away.                                         *)
RequestEnds(q) ==
    /\ request[q] # "idle"
    /\ EndRequest(q)
    /\ UNCHANGED <<order, rows, handled, dominaite, sent, shown, deliveries>>

(***************************************************************************)
(* PaymentOutcomeService.applyWebhookEvent                                  *)
(***************************************************************************)
RowOf(t) == {a \in Attempts : rowStatus[a] # "NONE" /\ rowTransaction[a] = t}

(* A transaction that is not ours is answered 200 and forgotten.            *)
DropUnknown(e) ==
    /\ e \in sent /\ RowOf(e.transaction) = {}
    /\ sent' = sent \ {e}
    /\ UNCHANGED <<order, rows, handled, dominaite, requests, deliveries>>

findReportedAttempt(d, e) ==
    /\ delivery[d] = "idle" /\ e \in sent /\ RowOf(e.transaction) # {}
    /\ delivery' = [delivery EXCEPT ![d] = "applying"]
    /\ event' = [event EXCEPT ![d] = {e}]
    /\ seenStatus' = [seenStatus EXCEPT ![d] = orderStatus]
    /\ UNCHANGED <<order, rows, handled, dominaite, sent, requests, effect,
                   refundLogged, crashes>>

(* The delivery's id and its change, in one transaction.                    *)
onceForDelivery(d, e, result) ==
    /\ handled' = handled \union {e}
    /\ delivery' = [delivery EXCEPT ![d] = "answering"]
    /\ effect' = [effect EXCEPT ![d] = IF e \in handled THEN "duplicate" ELSE result]
    /\ UNCHANGED <<dominaite, sent, requests, event, seenStatus, refundLogged, crashes>>

Applying(d, e) == delivery[d] = "applying" /\ event[d] = {e}

SetRow(t, status) ==
    rowStatus' = [a \in Attempts |-> IF a \in RowOf(t) THEN status ELSE rowStatus[a]]

(* Mutant of RefusedAmount: the amount is not compared.                     *)
RefusesNothing(e) == FALSE

(* confirm: a success for another amount than the total writes nothing.     *)
RefusedAmount(e) == e.outcome = "succeeded" /\ taken[e.transaction] # "whole"

LeaveUnpaid(d, e) ==
    /\ Applying(d, e) /\ RefusedAmount(e)
    /\ delivery' = [delivery EXCEPT ![d] = "answering"]
    /\ UNCHANGED <<order, rows, handled, dominaite, sent, requests, event,
                   seenStatus, effect, refundLogged, crashes>>

(* Mutant of confirmPaid: the order's status is not looked at again.        *)
confirmPaidUnguarded(d, e) ==
    /\ Applying(d, e) /\ e.outcome = "succeeded" /\ ~RefusedAmount(e)
    /\ IF e \in handled
         THEN UNCHANGED <<order, rows>>
         ELSE /\ SetRow(e.transaction, "SUCCEEDED")
              /\ orderStatus' = "PROCESSING"
              /\ announced' = announced + 1
              /\ UNCHANGED rowTransaction
    /\ onceForDelivery(d, e, "applied")

confirmPaid(d, e) ==
    /\ Applying(d, e) /\ e.outcome = "succeeded" /\ ~RefusedAmount(e)
    /\ IF e \in handled
         THEN UNCHANGED <<order, rows>>
         ELSE /\ SetRow(e.transaction, "SUCCEEDED")
              /\ IF orderStatus = "PENDING_PAYMENT"
                   THEN orderStatus' = "PROCESSING" /\ announced' = announced + 1
                   ELSE UNCHANGED order
              /\ UNCHANGED rowTransaction
    /\ onceForDelivery(d, e, IF orderStatus = "PENDING_PAYMENT"
                               THEN "applied" ELSE "unchanged")

closeAttempt(d, e) ==
    LET open == \A a \in RowOf(e.transaction) : rowStatus[a] = "OPEN" IN
    /\ Applying(d, e) /\ e.outcome # "succeeded"
    /\ IF e \notin handled /\ open
         THEN SetRow(e.transaction, ATTEMPT_STATUS_BY_EVENT[e.outcome])
         ELSE UNCHANGED rowStatus
    /\ UNCHANGED <<order, rowTransaction>>
    /\ onceForDelivery(d, e, IF open THEN "applied" ELSE "unchanged")

EndDelivery(d) ==
    /\ delivery' = [delivery EXCEPT ![d] = "idle"]
    /\ event' = [event EXCEPT ![d] = {}]
    /\ seenStatus' = [seenStatus EXCEPT ![d] = "PENDING_PAYMENT"]
    /\ effect' = [effect EXCEPT ![d] = "unchanged"]

(* The refund a paid and cancelled order needs is logged, and 200 answered. *)
Answer(d, e) ==
    /\ delivery[d] = "answering" /\ event[d] = {e}
    /\ sent' = sent \ {e}
    /\ refundLogged' = refundLogged \union
         {t \in {e.transaction} : /\ e.outcome = "succeeded" /\ ~RefusedAmount(e)
                                  /\ effect[d] # "applied"
                                  /\ seenStatus[d] = "CANCELLED"}
    /\ EndDelivery(d)
    /\ UNCHANGED <<order, rows, handled, dominaite, requests, crashes>>

(* A crash, a database error, a lost 200: Dominaite delivers it again.      *)
DeliveryLost(d) ==
    /\ delivery[d] # "idle" /\ crashes < MaxCrashes
    /\ EndDelivery(d)
    /\ crashes' = crashes + 1
    /\ UNCHANGED <<order, rows, handled, dominaite, sent, requests, refundLogged>>

DeliveryStep(d) ==
    \E e \in event[d] : \/ LeaveUnpaid(d, e)
                        \/ confirmPaid(d, e)
                        \/ closeAttempt(d, e)
                        \/ Answer(d, e)

(* By hand, or by the sweep that is to come.                                *)
Cancel ==
    /\ orderStatus = "PENDING_PAYMENT"
    /\ orderStatus' = "CANCELLED"
    /\ UNCHANGED <<announced, rows, handled, dominaite, sent, requests, deliveries>>

Init ==
    /\ orderStatus = "PENDING_PAYMENT" /\ announced = 0
    /\ rowTransaction = [a \in Attempts |-> NoTransaction]
    /\ rowStatus = [a \in Attempts |-> "NONE"]
    /\ handled = {}
    /\ opened = [a \in Attempts |-> 0]
    /\ session = [t \in Transactions |-> "none"]
    /\ expired = {} /\ reopens = {}
    /\ taken = [t \in Transactions |-> "none"]
    /\ sent = {}
    /\ request = [q \in Requests |-> "idle"]
    /\ attempt = [q \in Requests |-> 0]
    /\ answered = [q \in Requests |-> NoTransaction]
    /\ shown = {}
    /\ delivery = [d \in Deliveries |-> "idle"]
    /\ event = [d \in Deliveries |-> {}]
    /\ seenStatus = [d \in Deliveries |-> "PENDING_PAYMENT"]
    /\ effect = [d \in Deliveries |-> "unchanged"]
    /\ refundLogged = {} /\ crashes = 0

Next ==
    \/ \E q \in Requests :
         \/ findPayableOrder(q) \/ openSession(q) \/ AnswerLost(q) \/ KeySpent(q)
         \/ markFailed(q) \/ recordOpened(q) \/ RequestEnds(q)
    \/ \E d \in Deliveries :
         \/ \E e \in sent : findReportedAttempt(d, e)
         \/ DeliveryStep(d) \/ DeliveryLost(d)
    \/ \E e \in sent : DropUnknown(e)
    \/ \E t \in Transactions :
         \/ \E amount \in {"whole", "other"} : Pay(t, amount)
         \/ Expire(t) \/ Decline(t) \/ Settle(t) \/ Close(t)
    \/ \E a \in Attempts : Reopen(a)
    \/ Cancel

Spec == Init /\ [][Next]_vars

(* Dominaite settles what it approved and delivers again until it gets its  *)
(* 200 (bounded: it gives up after five retries, over 15 hours); the server *)
(* runs on.                                                                 *)
Fairness ==
    /\ \A t \in Transactions : WF_vars(Settle(t))
    /\ \A e \in Events :
         WF_vars(\E d \in Deliveries : findReportedAttempt(d, e))
    /\ \A d \in Deliveries : WF_vars(DeliveryStep(d))

FairSpec == Spec /\ Fairness

(***************************************************************************)
(* Properties.                                                              *)
(***************************************************************************)
OrderStatuses == {"PENDING_PAYMENT", "PROCESSING", "CANCELLED"}

RowStatuses ==
    {"NONE", "OPEN"} \union {ATTEMPT_STATUS_BY_EVENT[o] : o \in Outcomes}

(* Every variable has its type; no more than MAX_PAYMENT_ATTEMPTS attempts. *)
TypeOK ==
    /\ orderStatus \in OrderStatuses /\ announced \in Nat
    /\ rowTransaction \in [Attempts -> Transactions \union {NoTransaction}]
    /\ rowStatus \in [Attempts -> RowStatuses]
    /\ handled \subseteq Events /\ sent \subseteq Events
    /\ opened \in [Attempts -> 0 .. MaxSessions]
    /\ session \in [Transactions ->
                      {"none", "open", "approved", "paid", "failed", "closed"}]
    /\ expired \subseteq Transactions /\ reopens \subseteq Attempts
    /\ taken \in [Transactions -> {"none", "whole", "other"}]
    /\ request \in [Requests ->
                      {"idle", "asking", "marking", "asking again", "recording"}]
    /\ attempt \in [Requests -> 0 .. MaxAttempts]
    /\ answered \in [Requests -> Transactions \union {NoTransaction}]
    /\ shown \subseteq Transactions
    /\ delivery \in [Deliveries -> {"idle", "applying", "answering"}]
    /\ event \in [Deliveries -> SUBSET Events]
    /\ seenStatus \in [Deliveries -> OrderStatuses]
    /\ effect \in [Deliveries -> {"applied", "unchanged", "duplicate"}]
    /\ refundLogged \subseteq Transactions /\ crashes \in 0 .. MaxCrashes

Charged == {t \in Transactions : taken[t] # "none"}

Payable == {t \in shown : session[t] = "open" /\ t \notin expired}

(* The customer is charged at most once: whatever tabs, retries, declines   *)
(* and lost answers there were, no two of the order's sessions can be paid  *)
(* or have been.                                                            *)
OneLiveSession ==
    \A t, u \in Payable \union Charged : t = u

(* A payment is never of a session the shop does not know, whose success    *)
(* the webhook would answer and forget.                                     *)
ChargedIsOnRecord == \A t \in Charged : RowOf(t) # {}

(* The emails and the backoffice hear of the order exactly once, when it is *)
(* paid, whatever is delivered twice or at the same time.                   *)
AnnouncedOnce == announced = IF orderStatus = "PROCESSING" THEN 1 ELSE 0

(* "Only the whole total pays the order", and the order and its attempt     *)
(* agree on it.                                                             *)
ProcessingIsPaid ==
    orderStatus = "PROCESSING" =>
        \E a \in Attempts : /\ rowStatus[a] = "SUCCEEDED"
                            /\ taken[rowTransaction[a]] = "whole"

(* Money taken for the whole order is not forgotten: it moves on, unless it *)
(* is cancelled.                                                            *)
PaymentConfirmed ==
    \A t \in Transactions :
        taken[t] = "whole" ~> orderStatus \in {"PROCESSING", "CANCELLED"}
==============================================================================
