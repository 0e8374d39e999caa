------------------------------ MODULE PaidOrder ------------------------------
(***************************************************************************)
(* A card order from its payment to the last handler that hears of it: the  *)
(* payment of CardPayment and the relay of Outbox, over one database.       *)
(*                                                                          *)
(* CardPaymentRepository.confirmPaid is where they meet: the transaction    *)
(* that moves the order on also appends the row of its OrderPlaced.  The    *)
(* payment does nothing else to the outbox, and the relay nothing to the    *)
(* payment.  Rows of other orders come and go as they like.                 *)
(***************************************************************************)
EXTENDS CardPayment

CONSTANTS
    Rows,           \* the outbox rows that may ever be written
    orderPlaced,    \* the one of this order
    Handlers, Subscribers, Relays, BatchSize, MaxResets,    \* as in Outbox
    MaxDeliveries   \* MAX_ATTEMPTS of the outbox

ASSUME PaidOrderAssumption ==
    /\ orderPlaced \in Rows
    /\ Subscribers \in [Rows -> SUBSET Handlers]
    /\ BatchSize \in Nat \ {0}
    /\ MaxDeliveries \in Nat \ {0}
    /\ MaxResets \in Nat

VARIABLES stored, isDue, attempts, claimToken, completed,
          at, batch, current, todo, doing, failed,
          delivered, gaveUp, resets    \* as in Outbox

Relay == INSTANCE Outbox WITH Events <- Rows, MaxAttempts <- MaxDeliveries

outbox == <<stored, isDue, attempts, claimToken, completed,
            at, batch, current, todo, doing, failed, delivered, gaveUp, resets>>
PaidOrderVars == <<vars, outbox>>

PaidOrderInit == Init /\ Relay!Init

(* A step of the payment; the one that announces the order appends its row. *)
(* A second announcement would append a row of its own: `announced` counts  *)
(* it, and only the first row is followed.                                  *)
PaymentStep ==
    /\ Next
    /\ IF announced' # announced /\ stored[orderPlaced] = "unwritten"
         THEN Relay!Append(orderPlaced)
         ELSE UNCHANGED outbox

(* A step of the outbox; the row of this order is written by its payment.   *)
OutboxStep ==
    /\ Relay!Next
    /\ stored[orderPlaced] = "unwritten" => stored'[orderPlaced] = "unwritten"
    /\ UNCHANGED vars

PaidOrderNext == PaymentStep \/ OutboxStep

PaidOrderSpec == PaidOrderInit /\ [][PaidOrderNext]_PaidOrderVars

(***************************************************************************)
(* Properties.                                                              *)
(***************************************************************************)

(* "Moves it on and writes its `OrderPlaced`, so the emails and the         *)
(* backoffice hear of it exactly once": the row is there if and only if the *)
(* order is paid, whatever else fails.                                      *)
WrittenWhenPaid ==
    stored[orderPlaced] # "unwritten" <=> orderStatus = "PROCESSING"

(* The payment and the outbox together keep what the customer is promised:  *)
(* one charge, one announcement, nobody told of an order that was not paid  *)
(* whole, everybody told before the row goes, and a refund only of what was *)
(* taken for a cancelled order.                                             *)
Promise == INSTANCE CardOrder WITH
    Sessions <- Transactions,
    Handlers <- Subscribers[orderPlaced],
    status <- orderStatus,
    charges <- {<<t, taken[t]>> : t \in Charged},
    announced <- (IF stored[orderPlaced] = "unwritten" THEN 0 ELSE announced),
    told <- {h \in Subscribers[orderPlaced] : <<orderPlaced, h>> \in delivered},
    forgotten <- (stored[orderPlaced] = "deleted"),
    refunds <- refundLogged
KeepsTheOrder == Promise!Spec
==============================================================================
