------------------------------ MODULE MCPaying ------------------------------
(***************************************************************************)
(* What a part costs, and whether what was paid for it is recorded and      *)
(* announced.  The offers share no state with the order and are explored    *)
(* beside it.  Of the order two instances: its payment alone, with all its  *)
(* concurrent deliveries, and the payment with the relay at work, one       *)
(* delivery at a time and before anything expires.  Each behaviour is of    *)
(* one of the three; at rest the payment satisfies its own fairness.        *)
(***************************************************************************)
EXTENDS PaidOrder, Offers, TLC

CONSTANTS customerEmail, shopEmail

VARIABLE part

(* Two of the three handlers of OrderPlaced.                                *)
MCSubscribers == orderPlaced :> {customerEmail, shopEmail}

NoRows == ownRows = <<>> /\ supplierRows = <<>> /\ madeCutoff = TRUE /\ wanted = 1

MCInit ==
    /\ part \in {"payment", "order", "offers"}
    /\ PaidOrderInit
    /\ IF part = "offers" THEN OffersInit ELSE NoRows

OneDelivery ==
    /\ Cardinality({d \in Deliveries : delivery'[d] # "idle"}) <= 1
    /\ crashes' = 0 /\ expired' = {}

MCNext ==
    /\ \/ part = "payment" /\ PaymentStep /\ UNCHANGED OffersVars
       \/ part = "order" /\ PaidOrderNext /\ OneDelivery /\ UNCHANGED OffersVars
       \/ part = "offers" /\ OffersNext /\ UNCHANGED PaidOrderVars
    /\ UNCHANGED part

MCSpec == MCInit /\ [][MCNext]_<<PaidOrderVars, OffersVars, part>> /\ Fairness
==============================================================================
