------------------------------ MODULE CardOrder ------------------------------
(***************************************************************************)
(* What a customer who pays an order by card is promised, with no session,  *)
(* webhook, retry, outbox or crash in sight: the order is charged at most   *)
(* once; it goes ahead only when charged its whole total, and is then       *)
(* announced once; nobody is told of an order that did not go ahead; the    *)
(* announcement is forgotten only when everybody was told; and a refund is  *)
(* only ever asked for what was taken for an order that was cancelled.      *)
(***************************************************************************)
EXTENDS Naturals

CONSTANTS
    Sessions,     \* the payment sessions the order may have
    Handlers      \* whoever is to hear that the order was placed

VARIABLES
    status,       \* "PENDING_PAYMENT", "PROCESSING" or "CANCELLED"
    charges,      \* the <<session, amount>> that were charged
    announced,    \* how many times it was announced
    told,         \* the handlers that heard of it
    forgotten,    \* whether its announcement is done with
    refunds       \* the sessions whose charge is to be given back

vars == <<status, charges, announced, told, forgotten, refunds>>

Init ==
    /\ status = "PENDING_PAYMENT"
    /\ charges = {} /\ announced = 0
    /\ told = {} /\ forgotten = FALSE /\ refunds = {}

Charge(s, amount) ==
    /\ charges = {}
    /\ charges' = {<<s, amount>>}
    /\ UNCHANGED <<status, announced, told, forgotten, refunds>>

Confirm(s) ==
    /\ status = "PENDING_PAYMENT" /\ charges = {<<s, "whole">>}
    /\ status' = "PROCESSING"
    /\ announced' = announced + 1
    /\ UNCHANGED <<charges, told, forgotten, refunds>>

Cancel ==
    /\ status = "PENDING_PAYMENT"
    /\ status' = "CANCELLED"
    /\ UNCHANGED <<charges, announced, told, forgotten, refunds>>

Tell(h) ==
    /\ status = "PROCESSING" /\ ~forgotten
    /\ told' = told \union {h}
    /\ UNCHANGED <<status, charges, announced, forgotten, refunds>>

Forget ==
    /\ status = "PROCESSING" /\ ~forgotten
    /\ told = Handlers
    /\ forgotten' = TRUE
    /\ UNCHANGED <<status, charges, announced, told, refunds>>

Refund(s) ==
    /\ status = "CANCELLED" /\ charges = {<<s, "whole">>}
    /\ refunds' = refunds \union {s}
    /\ UNCHANGED <<status, charges, announced, told, forgotten>>

Next ==
    \/ \E s \in Sessions : \/ \E amount \in {"whole", "other"} : Charge(s, amount)
                           \/ Confirm(s) \/ Refund(s)
    \/ \E h \in Handlers : Tell(h)
    \/ Cancel
    \/ Forget

Spec == Init /\ [][Next]_vars
==============================================================================
