------------------------- MODULE RegistrationProofs -------------------------
(***************************************************************************)
(* Proofs about Registration, for any accounts, emails and numbers of       *)
(* filings: no two customers share an email, Clerk's webhook is answered    *)
(* for an account only once it is filed or known to be unfileable, and a    *)
(* filing that lost a race neither turns its account away nor takes back    *)
(* what the customer filled in.                                             *)
(***************************************************************************)
EXTENDS Registration, TLAPS

Emailed(a) == clerk[a].email # NoEmail

(* An account that is filed, or is being filed, has an email in Clerk: it   *)
(* may be replaced there, and never taken away.                             *)
RowsAreEmailed == \A a \in Accounts : Filed(a) => Emailed(a)

(* A filing is of an account, and one about to answer 200 found its row, or *)
(* made it.                                                                 *)
FilingsAdvance ==
    \A f \in Filings :
      /\ filings[f].at # "idle" => filings[f].account \in Accounts
      /\ filings[f].at = "inserting" =>
           filings[f].row.filed /\ Emailed(filings[f].account)
      /\ filings[f].at = "answering" => Filed(filings[f].account)

(* The inductive invariant.                                                 *)
RegistrationInv ==
    RegistrationTypeOK /\ RowsAreEmailed /\ FilingsAdvance /\ GuaranteeHolds

(* What no step undoes: a row filed stays, with its email and its details;  *)
(* an email in Clerk is never taken away.                                   *)
KeepsRows ==
    \A a \in Accounts :
      /\ Filed(a) => /\ customers'[a].filed /\ customers'[a].email = customers[a].email
                     /\ customers[a].details \subseteq customers'[a].details
      /\ Emailed(a) => Emailed(a)'

LEMMA InitHolds == RegistrationInit => RegistrationInv
<1> SUFFICES ASSUME RegistrationInit PROVE RegistrationInv
    OBVIOUS
<1> USE DEF RegistrationInit, NoAccount, NoRow, NoFiling, NoEmail, Nobody, Details, Filed
<1>1. RegistrationTypeOK
    BY RegistrationAssumption DEF RegistrationTypeOK
<1>2. RowsAreEmailed /\ FilingsAdvance /\ GuaranteeHolds
    BY DEF RowsAreEmailed, FilingsAdvance, GuaranteeHolds
<1> QED BY <1>1, <1>2 DEF RegistrationInv

-----------------------------------------------------------------------------
(* Clerk's own steps.                                                       *)
LEMMA SignUpKeeps ==
    ASSUME RegistrationInv, NEW a \in Accounts, SignUp(a)
    PROVE  RegistrationInv' /\ KeepsRows
<1> USE DEF RegistrationInv, SignUp, Details, NoAccount, Filed, Emailed
<1>1. PICK e \in FreeEmails \union {NoEmail}, given \in SUBSET Details :
        clerk' = [clerk EXCEPT ![a] = [exists |-> TRUE, email |-> e, given |-> given]]
    OBVIOUS
<1>2. e \in Emails \union {NoEmail}
    BY DEF FreeEmails
<1>3. RegistrationTypeOK'
    BY <1>1, <1>2 DEF RegistrationTypeOK
<1>4. KeepsRows
    BY <1>1 DEF KeepsRows, RegistrationTypeOK
<1>5. RowsAreEmailed' /\ FilingsAdvance'
    BY <1>4 DEF RowsAreEmailed, FilingsAdvance, KeepsRows, RegistrationTypeOK
<1>6. GuaranteeHolds'
    BY <1>1 DEF GuaranteeHolds, RegistrationTypeOK
<1> QED BY <1>3, <1>4, <1>5, <1>6

LEMMA ChangeKeeps ==
    ASSUME RegistrationInv, NEW a \in Accounts, Change(a)
    PROVE  RegistrationInv' /\ KeepsRows
<1> USE DEF RegistrationInv, Change, Details, Filed, Emailed
<1>1. FreeEmails \subseteq Emails
    BY DEF FreeEmails
<1>2. /\ clerk' \in [Accounts -> [exists : BOOLEAN, email : Emails \union {NoEmail},
                                  given : SUBSET Details]]
      /\ \A b \in Accounts : /\ clerk'[b].exists => clerk[b].exists
                             /\ Emailed(b) => Emailed(b)'
  <2> DEFINE Good(new) == /\ new \in [exists : BOOLEAN, email : Emails \union {NoEmail},
                                      given : SUBSET Details]
                          /\ new.exists => clerk[a].exists
                          /\ Emailed(a) => new.email # NoEmail
  <2>1. clerk \in [Accounts -> [exists : BOOLEAN, email : Emails \union {NoEmail},
                                given : SUBSET Details]]
    BY DEF RegistrationTypeOK
  <2>2. \A given \in SUBSET Details : Good([clerk[a] EXCEPT !.given = given])
    BY <2>1
  <2>3. \A e \in FreeEmails : Good([clerk[a] EXCEPT !.email = e])
    BY <2>1, <1>1, RegistrationAssumption DEF NoEmail
  <2>4. Good([clerk[a] EXCEPT !.exists = FALSE])
    BY <2>1
  <2>5. PICK new : Good(new) /\ clerk' = [clerk EXCEPT ![a] = new]
    <3> HIDE DEF Good
    <3> QED BY <2>2, <2>3, <2>4
  <2> QED BY <2>1, <2>5
<1>3. RegistrationTypeOK'
    BY <1>2, RegistrationAssumption DEF RegistrationTypeOK
<1>4. KeepsRows
    BY <1>2 DEF KeepsRows
<1>5. RowsAreEmailed' /\ FilingsAdvance'
    BY <1>2 DEF RowsAreEmailed, FilingsAdvance
<1>6. GuaranteeHolds'
    BY <1>2 DEF GuaranteeHolds
<1> QED BY <1>3, <1>4, <1>5, <1>6

LEMMA CompleteKeeps ==
    ASSUME RegistrationInv, NEW a \in Accounts, completeProfile(a)
    PROVE  RegistrationInv' /\ KeepsRows
<1> USE DEF RegistrationInv, completeProfile, Details, Filed, Emailed
<1>1. PICK given \in (SUBSET Details) \ {{}} :
        customers' = [customers EXCEPT ![a].details = @ \union given]
    OBVIOUS
<1>2. /\ customers' \in [Accounts -> [filed : BOOLEAN, email : Emails \union {NoEmail},
                                      details : SUBSET Details]]
      /\ \A b \in Accounts : /\ customers'[b].filed = customers[b].filed
                             /\ customers'[b].email = customers[b].email
                             /\ customers[b].details \subseteq customers'[b].details
  <2> DEFINE new == [customers[a] EXCEPT !.details = @ \union given]
  <2>1. customers \in [Accounts -> [filed : BOOLEAN, email : Emails \union {NoEmail},
                                    details : SUBSET Details]]
    BY DEF RegistrationTypeOK
  <2>2. /\ new \in [filed : BOOLEAN, email : Emails \union {NoEmail}, details : SUBSET Details]
        /\ new.filed = customers[a].filed /\ new.email = customers[a].email
        /\ customers[a].details \subseteq new.details
    BY <2>1
  <2>3. customers' = [customers EXCEPT ![a] = new]
    BY <1>1
  <2> HIDE DEF new
  <2> QED BY <2>1, <2>2, <2>3
<1>3. RegistrationTypeOK'
    BY <1>2 DEF RegistrationTypeOK
<1>4. KeepsRows
    BY <1>2 DEF KeepsRows
<1>5. RowsAreEmailed' /\ FilingsAdvance'
    BY <1>2 DEF RowsAreEmailed, FilingsAdvance
<1>6. GuaranteeHolds'
    BY <1>2 DEF GuaranteeHolds
<1> QED BY <1>3, <1>4, <1>5, <1>6

-----------------------------------------------------------------------------
(* The filings' steps.  One of them is told of its account that no retry    *)
(* can file it only while the account has no row.                           *)
TurnsAwayTheUnfiled ==
    \A f \in Filings :
      filings[f].at # "unfileable" /\ filings'[f].at = "unfileable"
        => ~Filed(filings[f].account)

FilingType ==
    [at : {"idle", "asking", "inserting", "answering", "unfileable"},
     account : Accounts \union {Nobody}, by : {"browser", "webhook"},
     row : [filed : BOOLEAN, email : Emails \union {NoEmail}, details : SUBSET Details]]

LEMMA RegisterKeeps ==
    ASSUME RegistrationInv, NEW f \in Filings, NEW a \in Accounts,
           NEW by \in {"browser", "webhook"}, Register(f, a, by)
    PROVE  RegistrationInv' /\ KeepsRows /\ TurnsAwayTheUnfiled
<1> USE DEF RegistrationInv, Filed, Emailed
<1> DEFINE new == [NoFiling EXCEPT !.at = IF Filed(a) THEN "answering" ELSE "asking",
                                   !.account = a, !.by = by]
<1>1. /\ filings' = [filings EXCEPT ![f] = new]
      /\ UNCHANGED <<clerk, changes, customers, hooks, unfileable, losses>>
    BY DEF Register, FilingQuiet
<1>2. /\ new \in FilingType /\ new.account = a
      /\ new.at = IF Filed(a) THEN "answering" ELSE "asking"
    BY DEF NoFiling, NoRow, FilingType, NoEmail, Details
<1> HIDE DEF new
<1>3. RegistrationTypeOK'
    BY <1>1, <1>2 DEF RegistrationTypeOK, FilingType
<1>4. KeepsRows
    BY <1>1 DEF KeepsRows
<1>5. RowsAreEmailed' /\ GuaranteeHolds'
    BY <1>1 DEF RowsAreEmailed, GuaranteeHolds
<1>6. FilingsAdvance'
    BY <1>1, <1>2 DEF FilingsAdvance, RegistrationTypeOK
<1>7. TurnsAwayTheUnfiled
    BY <1>1, <1>2 DEF TurnsAwayTheUnfiled, RegistrationTypeOK
<1> QED BY <1>3, <1>4, <1>5, <1>6, <1>7

LEMMA IdentityKeeps ==
    ASSUME RegistrationInv, NEW f \in Filings, findIdentity(f)
    PROVE  RegistrationInv' /\ KeepsRows /\ TurnsAwayTheUnfiled
<1> USE DEF RegistrationInv, Filed, Emailed
<1> DEFINE user == clerk[filings[f].account]
           at == IF user.email = NoEmail THEN "unfileable" ELSE "inserting"
           row == IF user.email = NoEmail THEN NoRow
                  ELSE [filed |-> TRUE, email |-> user.email, details |-> user.given]
<1>1. /\ filings[f].at = "asking"
      /\ filings' = [filings EXCEPT ![f].at = at, ![f].row = row]
      /\ UNCHANGED <<clerk, changes, customers, hooks, unfileable, losses>>
    BY DEF findIdentity, FilingQuiet
<1>2. filings[f].account \in Accounts
    BY <1>1 DEF FilingsAdvance
<1>3. row \in [filed : BOOLEAN, email : Emails \union {NoEmail}, details : SUBSET Details]
    BY <1>2 DEF RegistrationTypeOK, NoRow, NoEmail, Details
<1>4. /\ at \in {"unfileable", "inserting"}
      /\ at = "inserting" => row.filed /\ Emailed(filings[f].account)
      /\ at = "unfileable" => ~Emailed(filings[f].account)
    OBVIOUS
<1> HIDE DEF at, row
<1>5. /\ filings' \in [Filings -> FilingType]
      /\ filings'[f].at = at /\ filings'[f].row = row
      /\ filings'[f].account = filings[f].account
      /\ \A g \in Filings \ {f} : filings'[g] = filings[g]
    BY <1>1, <1>3, <1>4 DEF RegistrationTypeOK, FilingType
<1>6. RegistrationTypeOK'
    BY <1>1, <1>5 DEF RegistrationTypeOK, FilingType
<1>7. KeepsRows /\ RowsAreEmailed' /\ GuaranteeHolds'
    BY <1>1 DEF KeepsRows, RowsAreEmailed, GuaranteeHolds
<1>8. FilingsAdvance'
    BY <1>1, <1>2, <1>4, <1>5 DEF FilingsAdvance
<1>9. TurnsAwayTheUnfiled
    BY <1>2, <1>4, <1>5 DEF TurnsAwayTheUnfiled, RowsAreEmailed
<1> QED BY <1>6, <1>7, <1>8, <1>9

LEMMA CreateKeeps ==
    ASSUME RegistrationInv, NEW f \in Filings, create(f)
    PROVE  RegistrationInv' /\ KeepsRows /\ TurnsAwayTheUnfiled
<1> USE DEF RegistrationInv, Filed, Emailed
<1> DEFINE a == filings[f].account
           taken == takenUniqueField(a, filings[f].row.email)
           at == IF taken = "email" THEN "unfileable" ELSE "answering"
<1>1. /\ filings[f].at = "inserting"
      /\ customers' = IF taken = "none" THEN [customers EXCEPT ![a] = filings[f].row]
                      ELSE customers
      /\ filings' = [filings EXCEPT ![f].at = at, ![f].row = NoRow]
      /\ UNCHANGED <<clerk, changes, hooks, unfileable, losses>>
    BY DEF create, Move, FilingQuiet
<1>2. /\ a \in Accounts /\ filings[f].row.filed /\ Emailed(a)
      /\ filings[f] \in FilingType
    BY <1>1 DEF FilingsAdvance, RegistrationTypeOK, FilingType
<1>3. /\ taken = "none" => ~Filed(a) /\ ~EmailTaken(filings[f].row.email)
      /\ taken = "email" => ~Filed(a)
      /\ taken \notin {"none", "email"} => Filed(a)
    BY DEF takenUniqueField
<1> HIDE DEF taken
<1>4. /\ customers' \in [Accounts -> [filed : BOOLEAN, email : Emails \union {NoEmail},
                                      details : SUBSET Details]]
      /\ \A b \in Accounts : Filed(b) => customers'[b] = customers[b]
      /\ \A b \in Accounts : b # a => customers'[b] = customers[b]
      /\ taken # "email" => customers'[a].filed
    BY <1>1, <1>2, <1>3 DEF RegistrationTypeOK, FilingType
<1>5. /\ filings' \in [Filings -> FilingType]
      /\ filings'[f].at = at /\ filings'[f].account = a
      /\ \A g \in Filings \ {f} : filings'[g] = filings[g]
  <2> DEFINE new == [filings[f] EXCEPT !.at = at, !.row = NoRow]
  <2>1. filings \in [Filings -> FilingType]
    BY DEF RegistrationTypeOK, FilingType
  <2>2. /\ NoRow \in [filed : BOOLEAN, email : Emails \union {NoEmail}, details : SUBSET Details]
        /\ at \in {"unfileable", "answering"}
    BY DEF NoRow, Details
  <2> HIDE DEF at
  <2>3. new \in FilingType /\ new.at = at /\ new.account = a
    BY <2>1, <2>2 DEF FilingType
  <2>4. filings' = [filings EXCEPT ![f] = new]
    BY <1>1
  <2> HIDE DEF new
  <2> QED BY <2>1, <2>3, <2>4
<1>6. \A b, c \in Accounts : customers'[b].filed /\ customers'[c].filed /\ b # c
                               => customers'[b].email # customers'[c].email
  <2> SUFFICES ASSUME NEW b \in Accounts, NEW c \in Accounts, b # c, Filed(b),
                      customers'[c].filed, customers'[b].email = customers'[c].email
               PROVE  FALSE
    BY <1>3, <1>4
  <2>1. CASE Filed(c)
    BY <2>1, <1>4 DEF RegistrationTypeOK
  <2>2. CASE ~Filed(c)
    <3>1. c = a /\ taken = "none" /\ customers'[c] = filings[f].row
        BY <2>2, <1>1, <1>2, <1>4 DEF RegistrationTypeOK
    <3> QED BY <3>1, <1>3, <1>4 DEF EmailTaken
  <2> QED BY <2>1, <2>2
<1>7. RegistrationTypeOK'
    BY <1>1, <1>4, <1>5, <1>6 DEF RegistrationTypeOK, FilingType
<1>8. KeepsRows
    BY <1>1, <1>4 DEF KeepsRows
<1>9. RowsAreEmailed' /\ GuaranteeHolds'
    BY <1>1, <1>2, <1>4 DEF RowsAreEmailed, GuaranteeHolds
<1>10. FilingsAdvance'
    BY <1>1, <1>2, <1>4, <1>5 DEF FilingsAdvance
<1>11. TurnsAwayTheUnfiled
    BY <1>3, <1>5 DEF TurnsAwayTheUnfiled
<1> QED BY <1>7, <1>8, <1>9, <1>10, <1>11

LEMMA AnswerKeeps ==
    ASSUME RegistrationInv, NEW f \in Filings, WebhookAnswers(f)
    PROVE  RegistrationInv' /\ KeepsRows /\ TurnsAwayTheUnfiled
<1> USE DEF RegistrationInv, Filed, Emailed
<1> DEFINE a == filings[f].account
<1>1. /\ filings[f].at \in {"answering", "unfileable"}
      /\ hooks' = IF filings[f].by = "webhook" THEN hooks \ {a} ELSE hooks
      /\ unfileable' = IF filings[f].at = "unfileable" THEN unfileable \union {a}
                       ELSE unfileable
      /\ filings' = [filings EXCEPT ![f] = NoFiling]
      /\ UNCHANGED <<clerk, changes, customers, losses>>
    BY DEF WebhookAnswers, Ends, FilingQuiet
<1>2. a \in Accounts /\ (filings[f].at = "answering" => Filed(a))
    BY <1>1 DEF FilingsAdvance
<1>3. NoFiling \in FilingType /\ NoFiling.at = "idle"
    BY DEF NoFiling, NoRow, FilingType, NoEmail, Details
<1>4. RegistrationTypeOK'
    BY <1>1, <1>2, <1>3 DEF RegistrationTypeOK, FilingType
<1>5. KeepsRows /\ RowsAreEmailed'
    BY <1>1 DEF KeepsRows, RowsAreEmailed
<1>6. GuaranteeHolds'
    BY <1>1, <1>2 DEF GuaranteeHolds
<1>7. FilingsAdvance'
    BY <1>1, <1>3 DEF FilingsAdvance, RegistrationTypeOK
<1>8. TurnsAwayTheUnfiled
    BY <1>1, <1>3 DEF TurnsAwayTheUnfiled, RegistrationTypeOK
<1> QED BY <1>4, <1>5, <1>6, <1>7, <1>8

LEMMA FailureKeeps ==
    ASSUME RegistrationInv, NEW f \in Filings, FilingFails(f)
    PROVE  RegistrationInv' /\ KeepsRows /\ TurnsAwayTheUnfiled
<1> USE DEF RegistrationInv, Filed, Emailed
<1>1. /\ losses < MaxLosses /\ losses' = losses + 1
      /\ filings' = [filings EXCEPT ![f] = NoFiling]
      /\ UNCHANGED <<clerk, changes, customers, hooks, unfileable>>
    BY DEF FilingFails, Ends, FilingQuiet
<1>2. NoFiling \in FilingType /\ NoFiling.at = "idle"
    BY DEF NoFiling, NoRow, FilingType, NoEmail, Details
<1>3. RegistrationTypeOK'
    BY <1>1, <1>2, RegistrationAssumption DEF RegistrationTypeOK, FilingType
<1>4. KeepsRows /\ RowsAreEmailed' /\ GuaranteeHolds'
    BY <1>1 DEF KeepsRows, RowsAreEmailed, GuaranteeHolds
<1>5. FilingsAdvance'
    BY <1>1, <1>2 DEF FilingsAdvance, RegistrationTypeOK
<1>6. TurnsAwayTheUnfiled
    BY <1>1, <1>2 DEF TurnsAwayTheUnfiled, RegistrationTypeOK
<1> QED BY <1>3, <1>4, <1>5, <1>6

-----------------------------------------------------------------------------
(* Every step keeps the invariant and the rows.                             *)
LEMMA StepHolds ==
    ASSUME RegistrationInv, [RegistrationNext]_RegistrationVars
    PROVE  RegistrationInv' /\ KeepsRows /\ TurnsAwayTheUnfiled
<1>1. CASE UNCHANGED RegistrationVars
    BY <1>1 DEF RegistrationVars, RegistrationInv, RegistrationTypeOK, RowsAreEmailed,
         FilingsAdvance, GuaranteeHolds, KeepsRows, TurnsAwayTheUnfiled, Filed, Emailed
<1>2. ASSUME NEW a \in Accounts, SignUp(a) \/ Change(a) \/ completeProfile(a)
      PROVE  RegistrationInv' /\ KeepsRows /\ TurnsAwayTheUnfiled
  <2>1. RegistrationInv' /\ KeepsRows
    BY <1>2, SignUpKeeps, ChangeKeeps, CompleteKeeps
  <2>2. TurnsAwayTheUnfiled
    BY <1>2 DEF SignUp, Change, completeProfile, TurnsAwayTheUnfiled
  <2> QED BY <2>1, <2>2
<1>3. ASSUME NEW f \in Filings,
             \/ \E a \in Accounts, by \in {"browser", "webhook"} : Register(f, a, by)
             \/ findIdentity(f) \/ create(f) \/ WebhookAnswers(f) \/ FilingFails(f)
      PROVE  RegistrationInv' /\ KeepsRows /\ TurnsAwayTheUnfiled
    BY <1>3, RegisterKeeps, IdentityKeeps, CreateKeeps, AnswerKeeps, FailureKeeps
<1> QED BY <1>1, <1>2, <1>3 DEF RegistrationNext

THEOREM RegistrationInvariant == RegistrationSpec => []RegistrationInv
BY InitHolds, StepHolds, PTL DEF RegistrationSpec

(* Every variable keeps its type, and the table never holds two customers   *)
(* of one email (the unique indexes of "Customer", customers.repository.ts).*)
THEOREM RegistrationTypeCorrect == RegistrationSpec => []RegistrationTypeOK
<1>1. RegistrationInv => RegistrationTypeOK
    BY DEF RegistrationInv
<1> QED BY <1>1, RegistrationInvariant, PTL

(* The webhook controller's guarantee: Clerk stops asking about an account  *)
(* only once its row is there, or it was logged as unfileable.              *)
THEOREM EveryAccountIsFiled == RegistrationSpec => []GuaranteeHolds
<1>1. RegistrationInv => GuaranteeHolds
    BY DEF RegistrationInv
<1> QED BY <1>1, RegistrationInvariant, PTL

(* CustomersService.register, raced by any number of its own calls: only an *)
(* account without a row is turned away, and no row ever loses its email or *)
(* a detail the customer gave.                                              *)
THEOREM FilingIsFinal == RegistrationSpec => LoserFindsTheRow
<1>1. RegistrationInv /\ [RegistrationNext]_RegistrationVars =>
        [/\ \A f \in Filings :
              filings[f].at # "unfileable" /\ filings'[f].at = "unfileable"
                => ~Filed(filings[f].account)
         /\ \A a \in Accounts :
              Filed(a) => /\ customers'[a].filed /\ customers'[a].email = customers[a].email
                          /\ customers[a].details \subseteq customers'[a].details
        ]_RegistrationVars
    BY StepHolds DEF KeepsRows, TurnsAwayTheUnfiled
<1> QED BY <1>1, RegistrationInvariant, PTL DEF RegistrationSpec, LoserFindsTheRow
=============================================================================
