----------------------------- MODULE Purchases -----------------------------
(***************************************************************************)
(* What a customer's carts promise, with no request, version or lock in     *)
(* sight: every change is of the cart as it then is, and an order takes in  *)
(* one moment all that is chosen, leaves all that is not in a cart of the   *)
(* same owner, and is never written to again.  A merge loses no line of the *)
(* account's, the account has one cart at a time, and only a guest's cart   *)
(* is given up.                                                             *)
(***************************************************************************)
EXTENDS Naturals, FiniteSets

CONSTANTS
    Articles,   \* the parts a line may be of
    Carts,      \* the carts there may ever be
    MaxLines    \* how many lines a cart may hold

VARIABLES
    state,      \* each cart: "unborn", "open", "ordered" or "gone"
    owner,      \* of an open cart: "guest" or "account"; else "nobody"
    lines,      \* what an open or ordered cart holds
    chosen,     \* the lines of it that are selected
    bought      \* what was ordered from each cart

vars == <<state, owner, lines, chosen, bought>>

Open == {c \in Carts : state[c] = "open"}

NoAccountCart == \A c \in Open : owner[c] # "account"

Init ==
    /\ state = [c \in Carts |-> "unborn"] /\ owner = [c \in Carts |-> "nobody"]
    /\ lines = [c \in Carts |-> {}] /\ chosen = [c \in Carts |-> {}]
    /\ bought = [c \in Carts |-> {}]

Start(c, whose) ==
    /\ state[c] = "unborn"
    /\ whose = "account" => NoAccountCart
    /\ state' = [state EXCEPT ![c] = "open"]
    /\ owner' = [owner EXCEPT ![c] = whose]
    /\ UNCHANGED <<lines, chosen, bought>>

Change(c, newLines, newChosen) ==
    /\ state[c] = "open"
    /\ lines' = [lines EXCEPT ![c] = newLines]
    /\ chosen' = [chosen EXCEPT ![c] = newChosen]
    /\ UNCHANGED <<state, owner, bought>>

Add(c, a) ==
    /\ Cardinality(lines[c] \union {a}) <= MaxLines
    /\ Change(c, lines[c] \union {a}, chosen[c] \union {a})

Choose(c) == \E choice \in SUBSET lines[c] : Change(c, lines[c], choice)

Remove(c) ==
    \E taken \in SUBSET lines[c] : Change(c, lines[c] \ taken, chosen[c] \ taken)

(* An order of what is chosen: of all there is, or with the rest left open. *)
BuyAll(c) ==
    /\ state[c] = "open" /\ chosen[c] # {} /\ chosen[c] = lines[c]
    /\ bought' = [bought EXCEPT ![c] = chosen[c]]
    /\ state' = [state EXCEPT ![c] = "ordered"]
    /\ owner' = [owner EXCEPT ![c] = "nobody"]
    /\ UNCHANGED <<lines, chosen>>

BuyChosen(c, next) ==
    /\ state[c] = "open" /\ chosen[c] # {} /\ chosen[c] # lines[c]
    /\ state[next] = "unborn"
    /\ bought' = [bought EXCEPT ![c] = chosen[c]]
    /\ state' = [state EXCEPT ![c] = "ordered", ![next] = "open"]
    /\ owner' = [owner EXCEPT ![c] = "nobody", ![next] = owner[c]]
    /\ lines' = [lines EXCEPT ![c] = chosen[c], ![next] = lines[c] \ chosen[c]]
    /\ UNCHANGED chosen

Claim(c) ==
    /\ state[c] = "open" /\ owner[c] = "guest" /\ NoAccountCart
    /\ owner' = [owner EXCEPT ![c] = "account"]
    /\ UNCHANGED <<state, lines, chosen, bought>>

GiveUp(c) ==
    /\ state' = [state EXCEPT ![c] = "gone"]
    /\ owner' = [owner EXCEPT ![c] = "nobody"]
    /\ UNCHANGED bought

(* The account's cart takes in lines, and the guest's they came from, if it *)
(* is open still, is given up.                                              *)
Gathers(c, newLines, newChosen) ==
    /\ lines[c] \subseteq newLines /\ Cardinality(newLines) <= MaxLines
    /\ chosen[c] \subseteq newChosen /\ newChosen \subseteq newLines

TakeIn(c) ==
    /\ state[c] = "open" /\ owner[c] = "account"
    /\ \E newLines, newChosen \in SUBSET Articles :
         /\ Gathers(c, newLines, newChosen)
         /\ Change(c, newLines, newChosen)

Merge(s, c) ==
    /\ state[c] = "open" /\ owner[c] = "account" /\ state[s] = "open" /\ owner[s] = "guest"
    /\ GiveUp(s)
    /\ \E newLines, newChosen \in SUBSET Articles :
         /\ Gathers(c, newLines, newChosen)
         /\ lines' = [lines EXCEPT ![c] = newLines, ![s] = {}]
         /\ chosen' = [chosen EXCEPT ![c] = newChosen, ![s] = {}]

(* An open cart that ends without an order: a guest's that nobody came back *)
(* to, or the account's that two sign-ins at once merged into itself.       *)
Sweep(c) ==
    /\ state[c] = "open" /\ owner[c] = "guest" /\ GiveUp(c)
    /\ lines' = [lines EXCEPT ![c] = {}] /\ chosen' = [chosen EXCEPT ![c] = {}]

MergeIntoItself(c) ==
    /\ state[c] = "open" /\ owner[c] = "account" /\ GiveUp(c)
    /\ lines' = [lines EXCEPT ![c] = {}] /\ chosen' = [chosen EXCEPT ![c] = {}]

Next ==
    \/ \E c \in Open :
        \/ Choose(c) \/ Remove(c) \/ \E a \in Articles : Add(c, a)
        \/ BuyAll(c) \/ Claim(c) \/ TakeIn(c) \/ Sweep(c) \/ MergeIntoItself(c)
        \/ \E d \in Carts : BuyChosen(c, d) \/ Merge(d, c)
    \/ \E c \in Carts : Start(c, "guest") \/ Start(c, "account")

Spec == Init /\ [][Next]_vars

(* A customer has one cart at a time, on every device.                      *)
OneAccountCart ==
    \A c, d \in Open : owner[c] = "account" /\ owner[d] = "account" => c = d
=============================================================================
