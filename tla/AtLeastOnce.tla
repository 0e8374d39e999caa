----------------------------- MODULE AtLeastOnce -----------------------------
(***************************************************************************)
(* What the outbox promises to whoever appends an event, with no relay,     *)
(* lease, retry or crash in sight: an event that was written is delivered   *)
(* to every handler subscribed to its type before it is forgotten, and an   *)
(* event nobody subscribes to is never forgotten.                           *)
(***************************************************************************)
CONSTANTS
    Events,       \* the outbox rows that may ever be written
    Handlers,     \* the handlers registered with the relay
    Subscribers   \* the handlers of each event's type

VARIABLES
    status,       \* of each event: "unwritten", "stored" or "deleted"
    delivered     \* <<event, handler>> whose effect reached the outside

vars == <<status, delivered>>

Init ==
    /\ status = [e \in Events |-> "unwritten"]
    /\ delivered = {}

Append(e) ==
    /\ status[e] = "unwritten"
    /\ status' = [status EXCEPT ![e] = "stored"]
    /\ UNCHANGED delivered

Deliver(e, h) ==
    /\ status[e] = "stored"
    /\ h \in Subscribers[e]
    /\ delivered' = delivered \union {<<e, h>>}
    /\ UNCHANGED status

Forget(e) ==
    /\ status[e] = "stored"
    /\ Subscribers[e] # {}
    /\ \A h \in Subscribers[e] : <<e, h>> \in delivered
    /\ status' = [status EXCEPT ![e] = "deleted"]
    /\ UNCHANGED delivered

Next ==
    \E e \in Events :
        \/ Append(e)
        \/ Forget(e)
        \/ \E h \in Handlers : Deliver(e, h)

Spec == Init /\ [][Next]_vars
==============================================================================
