------------------------------ MODULE MCOutbox ------------------------------
(***************************************************************************)
(* The two parts that must get something done, explored side by side: the   *)
(* checkout, which is to place an order, and the outbox, which is to        *)
(* deliver the event of it.  Of the outbox two instances: an order placed   *)
(* (two emails) and an event of a type nobody subscribes to, relayed by two *)
(* API instances in batches; or the order alone, its attempts set back to 0 *)
(* by a person.                                                             *)
(***************************************************************************)
EXTENDS Outbox, Checkout, TLC

CONSTANTS orderPlaced, unknownType, customerEmail, shopEmail

VARIABLE instance   \* which of the three is explored; the others stay as they began

MCSubscribers == orderPlaced :> {customerEmail, shopEmail} @@ unknownType :> {}

(* The one event of the run about giving up.                                *)
MCOneEvent == orderPlaced :> {customerEmail, shopEmail}

MCInit ==
    /\ Init /\ CheckoutInit
    /\ instance \in {"a batch", "a reset", "checkout"}
    /\ instance # "checkout" => ~call.isQuickOrder

MCNext ==
    /\ \/ /\ instance = "a batch" /\ Next /\ resets' = 0
          /\ UNCHANGED CheckoutVars
       \/ /\ instance = "a reset" /\ Next
          /\ \A e \in Events \ {orderPlaced} : stored'[e] = "unwritten"
          /\ UNCHANGED CheckoutVars
       \/ /\ instance = "checkout" /\ CheckoutNext
          /\ moves' + outages' <= MaxMoves
          /\ UNCHANGED vars
    /\ UNCHANGED instance

(* CheckoutFairness, of the checkout when it is what is explored; at rest   *)
(* the outbox satisfies its own.                                            *)
MCFairness ==
    LET on == instance = "checkout" IN
    /\ WF_CheckoutVars(on /\ ReadTotals) /\ WF_CheckoutVars(on /\ ReadQuote)
    /\ WF_CheckoutVars(on /\ ReadAvailability) /\ WF_CheckoutVars(on /\ ReadProfile)
    /\ WF_CheckoutVars(on /\ ReadCart)
    /\ SF_CheckoutVars(on /\ Place)
    /\ WF_CheckoutVars(on /\ BotCheckSolved) /\ WF_CheckoutVars(on /\ ServerPrices)
    /\ WF_CheckoutVars(on /\ ServerPlaces) /\ WF_CheckoutVars(on /\ AnswerLands)
    /\ SF_CheckoutVars(on /\ DropLine) /\ SF_CheckoutVars(on /\ CompleteProfile)
    /\ SF_CheckoutVars(on /\ ChooseAnother)

MCSpec == MCInit /\ [][MCNext]_<<vars, CheckoutVars, instance>> /\ Fairness /\ MCFairness

(* Checkout's GoesThrough, of the checkout when it is what is explored.     *)
OrderGoesThrough == instance = "checkout" => GoesThrough

(* Every variable of every part has its type.                               *)
TypesOK == TypeOK /\ CheckoutTypeOK
==============================================================================
