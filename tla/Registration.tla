---------------------------- MODULE Registration ----------------------------
(***************************************************************************)
(* Filing a Clerk account as a customer (apps/api/src/customers/).  Clerk's *)
(* sign-up and the shop's row share no transaction: the browser asks for    *)
(* the row straight after sign-up and on every load, Clerk's user.created   *)
(* webhook asks until it is answered 2xx, and each call reads, asks Clerk   *)
(* and inserts in turn, with the others in between.                         *)
(***************************************************************************)
EXTENDS Naturals

CONSTANTS
    Accounts,      \* Clerk user ids
    Emails,
    Filings,       \* the calls of register and of PATCH in flight at once
    MaxChanges,    \* bound: edits of an account in Clerk, and deletions
    MaxLosses      \* bound: browser calls given up on, deliveries lost

ASSUME RegistrationAssumption ==
    MaxChanges \in Nat /\ MaxLosses \in Nat /\ "none" \notin Emails

VARIABLES
    clerk,         \* what Clerk holds of each account
    customers,     \* the "Customer" table, by clerkId
    hooks,         \* the accounts whose user.created is not answered 2xx yet
    filings,       \* what each call is at
    unfileable,    \* the accounts logged at `error`, or reported in the browser
    changes, losses

RegistrationVars == <<clerk, customers, hooks, filings, unfileable, changes, losses>>

NoEmail == "none"
Details == {"names", "phone"}

NoAccount == [exists |-> FALSE, email |-> NoEmail, given |-> {}]
NoRow == [filed |-> FALSE, email |-> NoEmail, details |-> {}]
Nobody == "nobody"
NoFiling == [at |-> "idle", account |-> Nobody, by |-> "browser", row |-> NoRow]

Filed(a) == customers[a].filed

(***************************************************************************)
(* Clerk: an email belongs to one account at a time; the account may be     *)
(* deleted and the email signed up with again, which our table never hears  *)
(* of.                                                                      *)
(***************************************************************************)
FreeEmails == {e \in Emails : \A a \in Accounts : clerk[a].exists => clerk[a].email # e}

SignUp(a) ==
    /\ clerk[a] = NoAccount /\ ~Filed(a) /\ a \notin hooks
    /\ \E e \in FreeEmails \union {NoEmail}, given \in SUBSET Details :
         clerk' = [clerk EXCEPT ![a] = [exists |-> TRUE, email |-> e, given |-> given]]
    /\ hooks' = hooks \union {a}
    /\ UNCHANGED <<customers, filings, unfileable, changes, losses>>

Change(a) ==
    /\ clerk[a].exists /\ changes < MaxChanges /\ changes' = changes + 1
    /\ \/ \E given \in SUBSET Details : clerk' = [clerk EXCEPT ![a].given = given]
       \/ \E e \in FreeEmails : clerk' = [clerk EXCEPT ![a].email = e]
       \/ clerk' = [clerk EXCEPT ![a].exists = FALSE]
    /\ UNCHANGED <<customers, hooks, filings, unfileable, losses>>

(***************************************************************************)
(* CustomersService.register.                                               *)
(***************************************************************************)
FilingQuiet == UNCHANGED <<clerk, changes>>

Move(f, at) == filings' = [filings EXCEPT ![f].at = at, ![f].row = NoRow]
Ends(f) == filings' = [filings EXCEPT ![f] = NoFiling]

Register(f, a, by) ==
    /\ filings[f].at = "idle"
    /\ IF by = "webhook" THEN a \in hooks ELSE clerk[a].exists
    /\ filings' = [filings EXCEPT ![f] = [NoFiling EXCEPT
                     !.at = IF Filed(a) THEN "answering" ELSE "asking",
                     !.account = a, !.by = by]]
    /\ FilingQuiet /\ UNCHANGED <<customers, hooks, unfileable, losses>>

(* ClerkUsers.findIdentity, and registeredPhone: `given` is what passes the *)
(* checks of a phone and of a name.  An unknown user is an error, as an     *)
(* outage is.                                                               *)
findIdentity(f) ==
    LET user == clerk[filings[f].account] IN
    /\ filings[f].at = "asking" /\ user.exists
    /\ filings' = [filings EXCEPT
         ![f].at = IF user.email = NoEmail THEN "unfileable" ELSE "inserting",
         ![f].row = IF user.email = NoEmail THEN NoRow
                    ELSE [filed |-> TRUE, email |-> user.email,
                          details |-> user.given]]
    /\ FilingQuiet /\ UNCHANGED <<customers, hooks, unfileable, losses>>

EmailTaken(e) == \E a \in Accounts : Filed(a) /\ customers[a].email = e

(* Mutant of takenUniqueField: the email is named first.                    *)
takenEmailFirst(a, e) ==
    IF EmailTaken(e) THEN "email" ELSE IF Filed(a) THEN "clerkId" ELSE "none"

(* Postgres names the first unique index violated; clerkId's is the older.  *)
takenUniqueField(a, e) ==
    IF Filed(a) THEN "clerkId" ELSE IF EmailTaken(e) THEN "email" ELSE "none"

(* Mutant of create: no unique index holds the email.                       *)
createUnchecked(f) ==
    LET a == filings[f].account IN
    /\ filings[f].at = "inserting"
    /\ customers' = IF Filed(a) THEN customers
                    ELSE [customers EXCEPT ![a] = filings[f].row]
    /\ Move(f, "answering")
    /\ FilingQuiet /\ UNCHANGED <<hooks, unfileable, losses>>

(* CustomersRepository.create, and findRegisteredConcurrently after it.     *)
create(f) ==
    LET a == filings[f].account
        taken == takenUniqueField(a, filings[f].row.email) IN
    /\ filings[f].at = "inserting"
    /\ customers' = IF taken = "none" THEN [customers EXCEPT ![a] = filings[f].row]
                    ELSE customers
    /\ Move(f, IF taken = "email" THEN "unfileable" ELSE "answering")
    /\ FilingQuiet /\ UNCHANGED <<hooks, unfileable, losses>>

(* Mutant of WebhookAnswers: it is answered 200 whatever went wrong.        *)
WebhookAlwaysAnswers(f) ==
    /\ filings[f].at # "idle"
    /\ hooks' = IF filings[f].by = "webhook" THEN hooks \ {filings[f].account} ELSE hooks
    /\ unfileable' = IF filings[f].at = "unfileable"
                       THEN unfileable \union {filings[f].account} ELSE unfileable
    /\ Ends(f) /\ FilingQuiet /\ UNCHANGED <<customers, losses>>

(* The profile as filed; or a failure no retry can fix, which the webhook   *)
(* logs and answers 200, and the browser reports.                           *)
WebhookAnswers(f) ==
    /\ filings[f].at \in {"answering", "unfileable"}
    /\ hooks' = IF filings[f].by = "webhook" THEN hooks \ {filings[f].account} ELSE hooks
    /\ unfileable' = IF filings[f].at = "unfileable"
                       THEN unfileable \union {filings[f].account} ELSE unfileable
    /\ Ends(f) /\ FilingQuiet /\ UNCHANGED <<customers, losses>>

(* Clerk or Postgres is down, the process dies, the answer is lost: Clerk   *)
(* delivers again, and the browser asks again at its next load.             *)
FilingFails(f) ==
    /\ filings[f].at # "idle"
    /\ losses < MaxLosses /\ losses' = losses + 1
    /\ Ends(f) /\ FilingQuiet /\ UNCHANGED <<customers, hooks, unfileable>>

(* completeProfile: one UPDATE, of a row that is there.                     *)
completeProfile(a) ==
    /\ clerk[a].exists /\ Filed(a)
    /\ \E given \in (SUBSET Details) \ {{}} :
         customers' = [customers EXCEPT ![a].details = @ \union given]
    /\ UNCHANGED <<clerk, hooks, filings, unfileable, changes, losses>>

RegistrationInit ==
    /\ clerk = [a \in Accounts |-> NoAccount]
    /\ customers = [a \in Accounts |-> NoRow]
    /\ hooks = {} /\ filings = [f \in Filings |-> NoFiling]
    /\ unfileable = {} /\ changes = 0 /\ losses = 0

RegistrationNext ==
    \/ \E a \in Accounts : SignUp(a) \/ Change(a) \/ completeProfile(a)
    \/ \E f \in Filings :
         \/ \E a \in Accounts, by \in {"browser", "webhook"} : Register(f, a, by)
         \/ findIdentity(f) \/ create(f) \/ WebhookAnswers(f) \/ FilingFails(f)

RegistrationSpec == RegistrationInit /\ [][RegistrationNext]_RegistrationVars

(***************************************************************************)
(* Properties.                                                              *)
(***************************************************************************)

(* Every variable has its type, and no two customers share an email.        *)
RegistrationTypeOK ==
    /\ clerk \in [Accounts -> [exists : BOOLEAN, email : Emails \union {NoEmail},
                               given : SUBSET Details]]
    /\ customers \in [Accounts -> [filed : BOOLEAN, email : Emails \union {NoEmail},
                                   details : SUBSET Details]]
    /\ \A a, b \in Accounts : Filed(a) /\ Filed(b) /\ a # b
                                => customers[a].email # customers[b].email
    /\ hooks \subseteq Accounts
    /\ filings \in [Filings -> [at : {"idle", "asking", "inserting", "answering",
                                      "unfileable"},
                                account : Accounts \union {Nobody}, by : {"browser", "webhook"},
                                row : [filed : BOOLEAN, email : Emails \union {NoEmail},
                                       details : SUBSET Details]]]
    /\ unfileable \subseteq Accounts
    /\ changes \in 0 .. MaxChanges /\ losses \in 0 .. MaxLosses

(* "Clerk's guarantee that every account gets a customer row" (the webhook  *)
(* controller): Clerk stops asking about an account only once its row is    *)
(* there, or it was logged as one no retry can file.  Any other failure,    *)
(* the race lost to the browser's own call included, keeps it asking.       *)
GuaranteeHolds ==
    \A a \in Accounts : clerk[a].exists /\ a \notin hooks => Filed(a) \/ a \in unfileable

(* A filing that lost the race to another filing of the same account finds  *)
(* the row: it is never told its email belongs to somebody, an account being*)
(* turned away only while it has no row; and since "after filing, our row   *)
(* is the record" (docs/AUTH.md), it never takes back, with what Clerk said *)
(* before, the details the customer completed meanwhile.                    *)
LoserFindsTheRow ==
    [][/\ \A f \in Filings :
            filings[f].at # "unfileable" /\ filings'[f].at = "unfileable"
              => ~Filed(filings[f].account)
       /\ \A a \in Accounts :
            Filed(a) => /\ customers'[a].filed /\ customers'[a].email = customers[a].email
                        /\ customers[a].details \subseteq customers'[a].details
      ]_RegistrationVars
==============================================================================
