------------------------------- MODULE Outbox -------------------------------
(***************************************************************************)
(* The transactional outbox: apps/api/src/events/outbox.relay.ts and        *)
(* outbox.repository.ts.  An event is a row written in the transaction of   *)
(* the change it reports.  Several API instances each run a relay, which    *)
(* leases due rows, runs every handler an earlier attempt left undone, and  *)
(* deletes the row once all are done.                                       *)
(*                                                                          *)
(* Time is abstracted to what the claim query asks of it: whether a row's   *)
(* availableAt has passed.  It may pass at any moment, so a lease may run   *)
(* out between any two steps of the relay that holds it.  A claim token     *)
(* (gen_random_uuid) is a number never used before for its event.           *)
(***************************************************************************)
EXTENDS Naturals, FiniteSets

CONSTANTS
    Events,       \* the rows that may ever be written
    Handlers,     \* the handlers registered at start-up
    Subscribers,  \* handlersByType: the handlers of each event's type
    Relays,       \* the API instances, each with one relay
    BatchSize,    \* BATCH_SIZE
    MaxAttempts,  \* MAX_ATTEMPTS
    MaxResets     \* bound: how often a person sets attempts back to 0

ASSUME OutboxAssumption ==
    /\ Events # {}
    /\ Subscribers \in [Events -> SUBSET Handlers]
    /\ BatchSize \in Nat \ {0}
    /\ MaxAttempts \in Nat \ {0}
    /\ MaxResets \in Nat

VARIABLES
    \* The "OutboxEvent" table.
    stored,       \* whether the row is "unwritten", "stored" or "deleted"
    isDue,        \* whether its availableAt has passed
    attempts,
    claimToken,   \* 0 until the first claim
    completed,    \* completedHandlers
    \* The memory of each relay.
    at,           \* where relayDue stands
    batch,        \* the claims not yet delivered
    current,      \* the claim being delivered
    todo,         \* its pending handlers, not yet run
    doing,        \* the handler that ran, until it is recorded
    failed,       \* whether `failures` is non-empty
    \* The outside.
    delivered,    \* <<event, handler>> whose effect went out
    gaveUp,       \* the events logged at error as given up
    resets        \* how often a person has reset an event

table == <<stored, isDue, attempts, claimToken, completed>>
memory == <<at, batch, current, todo, doing, failed>>
outside == <<delivered, gaveUp, resets>>
vars == <<table, memory, outside>>

Claims == [event : Events, token : Nat, attempts : 0 .. MaxAttempts,
           completed : SUBSET Handlers]

(* What `current` holds between deliveries: no claim has the token 0.       *)
NoClaim == [event |-> CHOOSE e \in Events : TRUE, token |-> 0,
            attempts |-> 0, completed |-> {}]

(***************************************************************************)
(* The table, as OutboxRepository reads and writes it.                      *)
(***************************************************************************)

(* Mutant of heldBy: the writes find the row by its id alone.               *)
heldByAnyone(c) == stored[c.event] = "stored"

(* Writes under a lease match no row once a later claim replaced its token, *)
(* or the row is gone: heldBy.                                              *)
heldBy(c) == stored[c.event] = "stored" /\ claimToken[c.event] = c.token

Due == {e \in Events : stored[e] = "stored" /\ isDue[e]}

(* Mutant of Claimable: one attempt too few.                                *)
ClaimableOneFewer == {e \in Due : attempts[e] + 1 < MaxAttempts}

Claimable == {e \in Due : attempts[e] < MaxAttempts}

Append(e) ==
    /\ stored[e] = "unwritten"
    /\ stored' = [stored EXCEPT ![e] = "stored"]
    /\ isDue' = [isDue EXCEPT ![e] = TRUE]
    /\ UNCHANGED <<attempts, claimToken, completed, memory, outside>>

TimePasses(e) ==
    /\ stored[e] = "stored" /\ ~isDue[e]
    /\ isDue' = [isDue EXCEPT ![e] = TRUE]
    /\ UNCHANGED <<stored, attempts, claimToken, completed, memory, outside>>

(* A person sends a given-up event again (docs/ORDERS.md).                  *)
ResetAttempts(e) ==
    /\ resets < MaxResets
    /\ e \in Due /\ attempts[e] = MaxAttempts
    /\ attempts' = [attempts EXCEPT ![e] = 0]
    /\ resets' = resets + 1
    /\ UNCHANGED <<stored, isDue, claimToken, completed, memory, delivered, gaveUp>>

(***************************************************************************)
(* The relay.                                                               *)
(***************************************************************************)
Goto(r, place) == at' = [at EXCEPT ![r] = place]

(* The delivery of `current` ends, and its locals go out of scope.          *)
Leave(r, place) ==
    /\ Goto(r, place)
    /\ current' = [current EXCEPT ![r] = NoClaim]
    /\ todo' = [todo EXCEPT ![r] = {}]
    /\ doing' = [doing EXCEPT ![r] = {}]
    /\ failed' = [failed EXCEPT ![r] = FALSE]

(* Mutant of ClaimOf: the claim does not return completedHandlers.          *)
ClaimFromScratch(e) == [event |-> e, token |-> claimToken[e] + 1,
                        attempts |-> attempts[e] + 1, completed |-> {}]

ClaimOf(e) == [event |-> e, token |-> claimToken[e] + 1,
               attempts |-> attempts[e] + 1, completed |-> completed[e]]

(* One statement claims a batch.  Its ORDER BY is left open: any due rows.  *)
claimDue(r, S) ==
    /\ at[r] = "idle"
    /\ S # {} /\ Cardinality(S) <= BatchSize
    /\ isDue' = [e \in Events |-> isDue[e] /\ e \notin S]
    /\ attempts' = [e \in Events |-> IF e \in S THEN attempts[e] + 1 ELSE attempts[e]]
    /\ claimToken' = [e \in Events |-> IF e \in S THEN claimToken[e] + 1 ELSE claimToken[e]]
    /\ batch' = [batch EXCEPT ![r] = {ClaimOf(e) : e \in S}]
    /\ Goto(r, "batch")
    /\ UNCHANGED <<stored, completed, current, todo, doing, failed, outside>>

(* An event no handler takes counts as failed.                              *)
deliver(r, c) ==
    /\ at[r] = "batch" /\ c \in batch[r]
    /\ batch' = [batch EXCEPT ![r] = @ \ {c}]
    /\ current' = [current EXCEPT ![r] = c]
    /\ todo' = [todo EXCEPT ![r] = Subscribers[c.event] \ c.completed]
    /\ failed' = [failed EXCEPT ![r] = (Subscribers[c.event] = {})]
    /\ Goto(r, "handlers")
    /\ UNCHANGED <<table, doing, outside>>

finishBatch(r) ==
    /\ at[r] = "batch" /\ batch[r] = {}
    /\ Goto(r, "idle")
    /\ UNCHANGED <<table, batch, current, todo, doing, failed, outside>>

HandlerSucceeds(r, h) ==
    /\ at[r] = "handlers" /\ h \in todo[r]
    /\ delivered' = delivered \union {<<current[r].event, h>>}
    /\ todo' = [todo EXCEPT ![r] = @ \ {h}]
    /\ doing' = [doing EXCEPT ![r] = {h}]
    /\ Goto(r, "recording")
    /\ UNCHANGED <<table, batch, current, failed, gaveUp, resets>>

(* Mutant of HandlerFails: a failure is recorded like a success.            *)
HandlerFailsUnseen(r, h) ==
    /\ at[r] = "handlers" /\ h \in todo[r]
    /\ todo' = [todo EXCEPT ![r] = @ \ {h}]
    /\ doing' = [doing EXCEPT ![r] = {h}]
    /\ Goto(r, "recording")
    /\ UNCHANGED <<table, batch, current, failed, outside>>

(* A send that timed out may still have gone out.                           *)
HandlerFails(r, h) ==
    /\ at[r] = "handlers" /\ h \in todo[r]
    /\ delivered' \in {delivered, delivered \union {<<current[r].event, h>>}}
    /\ todo' = [todo EXCEPT ![r] = @ \ {h}]
    /\ failed' = [failed EXCEPT ![r] = TRUE]
    /\ UNCHANGED <<table, at, batch, current, doing, gaveUp, resets>>

Recorded(r) == [completed EXCEPT ![current[r].event] = @ \union doing[r]]

recordHandlerDone(r) ==
    /\ at[r] = "recording" /\ heldBy(current[r])
    /\ completed' = Recorded(r)
    /\ doing' = [doing EXCEPT ![r] = {}]
    /\ Goto(r, "handlers")
    /\ UNCHANGED <<stored, isDue, attempts, claimToken, batch, current, todo,
                   failed, outside>>

(* The write throwing, before or after it committed, is caught beside the   *)
(* handler's own failures.                                                  *)
RecordFails(r) ==
    /\ at[r] = "recording"
    /\ \/ UNCHANGED completed
       \/ heldBy(current[r]) /\ completed' = Recorded(r)
    /\ doing' = [doing EXCEPT ![r] = {}]
    /\ failed' = [failed EXCEPT ![r] = TRUE]
    /\ Goto(r, "handlers")
    /\ UNCHANGED <<stored, isDue, attempts, claimToken, batch, current, todo,
                   outside>>

(* Mutant of Settling: runPendingHandlers is not awaited.                   *)
SettlingAtOnce(r) == at[r] = "handlers"

Settling(r) == at[r] = "handlers" /\ todo[r] = {}

deleteDelivered(r) ==
    /\ Settling(r) /\ ~failed[r] /\ heldBy(current[r])
    /\ stored' = [stored EXCEPT ![current[r].event] = "deleted"]
    /\ Leave(r, "batch")
    /\ UNCHANGED <<isDue, attempts, claimToken, completed, batch, outside>>

(* retryLater: the last attempt's failure is the one logged at error.       *)
scheduleRetry(r) ==
    /\ Settling(r) /\ failed[r] /\ heldBy(current[r])
    /\ isDue' = [isDue EXCEPT ![current[r].event] = FALSE]
    /\ gaveUp' = gaveUp \union
                   {e \in {current[r].event} : current[r].attempts >= MaxAttempts}
    /\ Leave(r, "batch")
    /\ UNCHANGED <<stored, attempts, claimToken, completed, batch, delivered, resets>>

(* requireLease: a write that matched no row leaves the event to the claim  *)
(* that took it over, and the relay goes on with its batch.                 *)
LeaseLost(r) ==
    /\ at[r] = "recording" \/ Settling(r)
    /\ ~heldBy(current[r])
    /\ Leave(r, "batch")
    /\ UNCHANGED <<table, batch, outside>>

(* The settling write failing ends relayDue, and a crash ends the process:  *)
(* either way the rest of the batch waits for its leases to run out.        *)
AbandonBatch(r) ==
    /\ at[r] # "idle"
    /\ Leave(r, "idle")
    /\ batch' = [batch EXCEPT ![r] = {}]
    /\ UNCHANGED <<table, outside>>

RelayStep(r) ==
    \/ \E c \in batch[r] : deliver(r, c)
    \/ finishBatch(r)
    \/ \E h \in Handlers : HandlerSucceeds(r, h) \/ HandlerFails(r, h)
    \/ recordHandlerDone(r)
    \/ RecordFails(r)
    \/ deleteDelivered(r)
    \/ scheduleRetry(r)
    \/ LeaseLost(r)

Init ==
    /\ stored = [e \in Events |-> "unwritten"]
    /\ isDue = [e \in Events |-> FALSE]
    /\ attempts = [e \in Events |-> 0]
    /\ claimToken = [e \in Events |-> 0]
    /\ completed = [e \in Events |-> {}]
    /\ at = [r \in Relays |-> "idle"]
    /\ batch = [r \in Relays |-> {}]
    /\ current = [r \in Relays |-> NoClaim]
    /\ todo = [r \in Relays |-> {}]
    /\ doing = [r \in Relays |-> {}]
    /\ failed = [r \in Relays |-> FALSE]
    /\ delivered = {}
    /\ gaveUp = {}
    /\ resets = 0

Next ==
    \/ \E e \in Events : Append(e) \/ TimePasses(e) \/ ResetAttempts(e)
    \/ \E r \in Relays : \/ \E S \in SUBSET Claimable : claimDue(r, S)
                         \/ RelayStep(r)
                         \/ AbandonBatch(r)

Spec == Init /\ [][Next]_vars

(* Each API instance runs relayDue every 5 seconds and awaits every step of *)
(* it, and clocks move on.  The claim query takes the longest due first.    *)
Fairness ==
    /\ \A e \in Events :
         /\ WF_vars(TimePasses(e))
         /\ WF_vars(\E r \in Relays, S \in SUBSET Claimable :
                        e \in S /\ claimDue(r, S))
    /\ \A r \in Relays : WF_vars(RelayStep(r))

FairSpec == Spec /\ Fairness

(***************************************************************************)
(* Properties.                                                              *)
(***************************************************************************)
Delivering(r) == at[r] \in {"handlers", "recording"}

(* The claims a relay still believes in.                                    *)
Claimed(r) == batch[r] \union {c \in {current[r]} : Delivering(r)}

(* Every variable has its type; in particular no row is ever claimed more   *)
(* than MAX_ATTEMPTS times between two resets (claimDue's WHERE).           *)
TypeOK ==
    /\ stored \in [Events -> {"unwritten", "stored", "deleted"}]
    /\ isDue \in [Events -> BOOLEAN]
    /\ attempts \in [Events -> 0 .. MaxAttempts]
    /\ claimToken \in [Events -> Nat]
    /\ completed \in [Events -> SUBSET Handlers]
    /\ at \in [Relays -> {"idle", "batch", "handlers", "recording"}]
    /\ batch \in [Relays -> SUBSET Claims]
    /\ current \in [Relays -> Claims]
    /\ todo \in [Relays -> SUBSET Handlers]
    /\ doing \in [Relays -> SUBSET Handlers]
    /\ failed \in [Relays -> BOOLEAN]
    /\ delivered \in SUBSET (Events \X Handlers)
    /\ gaveUp \in SUBSET Events
    /\ resets \in 0 .. MaxResets

(* Two instances never both hold the lease of one event, whatever crashed   *)
(* or overran before: a claim that took an event over has shut out the one  *)
(* it replaced, which can no longer record, retry or delete.                *)
LeaseExclusive ==
    \A r1, r2 \in Relays :
        \A c1 \in Claimed(r1), c2 \in Claimed(r2) :
            c1.event = c2.event /\ heldBy(c1) /\ heldBy(c2) => r1 = r2 /\ c1 = c2

(* "A retry never repeats a finished one": under a lease that still holds,  *)
(* no handler is about to run whose completion is already in the row, not   *)
(* even when another attempt recorded it.                                   *)
NoRepeatUnderLease ==
    \A r \in Relays :
        Delivering(r) /\ heldBy(current[r]) =>
            todo[r] \intersect completed[current[r].event] = {}

(* A row says a handler finished only if its effect went out, so skipping   *)
(* it on a retry never skips a send.                                        *)
CompletedWasDelivered ==
    \A e \in Events : \A h \in completed[e] : <<e, h>> \in delivered

(* The outbox implements at-least-once delivery: crashes, lost leases and   *)
(* retries never let a row go before every subscriber has run.              *)
AtLeastOnceDelivery == INSTANCE AtLeastOnce WITH status <- stored
DeliversAtLeastOnce == AtLeastOnceDelivery!Spec

(* An event does not stay in limbo: it is delivered and deleted, or uses up *)
(* its attempts, even when an instance crashes on it every time.            *)
EventuallySettled ==
    \A e \in Events :
        stored[e] = "stored" ~> \/ stored[e] = "deleted"
                               \/ attempts[e] = MaxAttempts

(* docs/ORDERS.md: "After 10 attempts ... the relay logs the event at error *)
(* and stops claiming it."  Refuted: a crash or a lost lease during the     *)
(* last attempt leaves a row that is never claimed and never logged.        *)
GiveUpIsLogged ==
    \A e \in Events :
        /\ e \in Due /\ attempts[e] = MaxAttempts
        /\ \A r \in Relays : \A c \in Claimed(r) : c.event # e
        => e \in gaveUp
==============================================================================
