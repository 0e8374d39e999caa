# Formal verification of vp-parts

TLA+ models of the parts of the vp-parts shop whose correctness depends on the
order in which concurrent, failing or repeated steps happen, or on rules too
many-sided to test by hand; the TLC runs that check them on small instances; and
the theorems about them that TLAPS proves for every instance.

```
tlc -config Outbox.cfg MCOutbox          # model-check a run
tlapm OutboxProofs.tla                   # check the proofs
```

`PROJECT.json` lists the components, the runs, the source lines each definition
stands for, the hazards the properties are aimed at and the theorems.

## 1. The system

An online auto-parts shop: a NestJS API (`src/apps/api`, several instances), a
Next.js front end (`src/apps/web`), a package both share (`src/packages/shared`),
Postgres through Prisma, Redis, an SQS queue to the backoffice, Clerk for
accounts, Resend for email, Dominaite for card payments, Econt for delivery,
TecDoc for the catalogue.

| Component | State it keeps | Operations | Hard because | Modelled by |
|---|---|---|---|---|
| Outbox (`events/`) | `OutboxEvent` rows; each relay's batch in memory | append, claimDue, run handlers, record, delete, retry | several relays, leases that run out, crashes between a send and its record | `Outbox` |
| Order emails, SQS publisher | none (idempotency keys at the other end) | handle an event | at-least-once | as handlers of `Outbox` |
| Card payment (`orders/card-payment/`, `payments/`) | the order's status, `CardPayment`, `PaymentWebhookEvent`; Dominaite's sessions | open or reopen a session, apply a webhook | reads before remote calls, spent and expired keys, duplicated concurrent deliveries | `CardPayment` |
| Cart (`cart/`) | `Cart`, `CartItem` | add, update, remove, select, clear, adopt (claim or merge), sweep | a cart is found outside the transaction that locks and writes it | `CartOrders` |
| Orders (`orders/`) | `Order`, `OrderItem`, the cart it closes | place, quick order, replay, read | races with edits, sign-in and its own retries | `CartOrders`, `Checkout` |
| Checkout pricing (`checkout/`) | none | quote, price an order | the price moves between the page and the order | `Checkout` |
| Inventory and delivery schedule (`inventory/`) | none (reads stock) | best offer, availability, delivery dates | rows in any order, calendars, cut-offs, holidays | `Offers`, `DeliverySchedule` |
| Customers (`customers/`) | `Customer` | register, profile, Clerk webhook | the webhook races the first request; emails move between accounts | `Registration` |
| Redis cache (`redis/`) | Redis entries, loads in flight | cached, cachedMany, memos, throttle | stampedes, failures in the middle, stale writes | `ReadThrough` |
| Catalogue, search, TecDoc | cached third-party data | search, facets, article lists, autocomplete | filters that count each other | `SearchFilters`, `SearchBar` in part |
| Browser cart mirror (`web/src/hooks/use-cart.ts`) | optimistic lines, write queue, debounced writes | edit, send, recover, reset, whenSettled | promises that must settle, answers out of order | `CartMirror` |
| Browser session sync (`use-session-sync.ts`) | who the cart on screen belongs to | join, claim, leave | sign-in races the queue and other tabs | `CartMirror` |
| Browser checkout (`use-place-order.ts`, `lib/checkout/`) | what the page shows, the call under way | click, bot check, place, re-read | everything shown may be old when it is sent | `Checkout` |
| Browser delivery dates (`use-cutoff-refresh.ts`, `lib/inventory/`) | a read of availability and its timers | count down, re-read | time passes while a page is open | `DeliverySchedule` |
| Search box and filters (web) | the URL, the typed text, answers, the retained block | type, choose, filter, page, back | late answers, debounces, stale blocks | `SearchBar`, `SearchFilters` |
| Delivery carriers, authentication and bot check, parcel-profile build, web pages, infrastructure | none, or cached third-party data | requests and mappings | — | not modelled (section 7) |

How they interact. Placing an order locks the cart's row, writes the order, its
`OrderPlaced` event and the closed cart in one transaction. A card order is
announced later, by the webhook that confirms its payment, in the transaction
that moves it to `PROCESSING`. The outbox relay turns the event into emails (and
a queue message). The browser holds a guest's cart token until sign-in adopts
the cart; sign-in first files the account as a customer, a race with Clerk's own
webhook. The page orders the cart it priced by id and version, at the total it
showed. What a page shows of price, stock and dates is read through the cache
and grows old; the same rules (`packages/shared`) say on both sides what can be
ordered.

What makes each correct:

* **Outbox** — no event is lost, or deleted before every handler did its part;
  a lease is exclusive; a retry repeats no recorded handler; every event ends;
  giving up is not silent.
* **Card payment** — the customer is charged at most once, only for a session
  on record; the order is announced once, exactly when its whole total was
  paid; paid money is never forgotten.
* **Cart and orders** — what was ordered is what was priced; one order per
  cart; an ordered cart never changes again; an active cart has one owner; a
  line the customer added is never lost; no cart outgrows its limit.
* **Checkout** — an order is placed only at a total, and to a place, the page
  showed; a customer who keeps trying gets through whatever moved meanwhile.
* **Browser mirror** — what the shopper clicked reaches the server, as him, in
  order; what is on screen is the server's cart, and only of who is signed in;
  sign-in does not wait for ever.
* **Customers** — every account is filed or reported; the one who loses a race
  finds the row.
* **Cache** — a miss is loaded once per instance; answers keep to their
  questions; nothing is served past its time.
* **Prices and dates** — a price does not depend on the order of rows and never
  undercuts our own; the page blocks just what an order is refused for; dates
  are ordered by speed and never move back; a page says when its dates are old.
* **Search** — the rows on screen answer the box; a way out of it searches in
  the lane shown; a value offered never empties the list.

## 2. Modules

| Module | Models |
|---|---|
| `AtLeastOnce` | what the outbox promises (the contract in `outbox-handler.ts`): an event written is delivered to every subscriber before it is forgotten |
| `Outbox` | `outbox.relay.ts`, `outbox.repository.ts`, the `OutboxEvent` table; implements `AtLeastOnce` |
| `OutboxProofs` | the inductive invariant and the theorems about `Outbox` |
| `CardPayment` | `card-payment.service.ts`, `card-payment.repository.ts`, `payment-outcome.service.ts`, and Dominaite as those files and `docs/PAYMENTS.md` describe it; one order |
| `CardOrder` | what a customer who pays by card is promised: one charge, one announcement of an order paid whole, everybody told before it is forgotten, a refund only of what was taken for a cancelled order |
| `PaidOrder` | `CardPayment` and `Outbox` over one database, joined by the transaction of `confirmPaid`; implements `CardOrder` |
| `CardPaymentProofs` | the inductive invariants and the theorems about `CardPayment` and `PaidOrder` |
| `Purchases` | what a customer is promised of the carts: every change is of the cart as it then is, an order takes what is chosen and leaves the rest to its owner, a merge loses no line of the account's, the account has one cart |
| `CartOrders` | `cart.repository.ts`, `cart.service.ts`, `cart-merge.ts`, the cart side of `orders.service.ts` and `orders.repository.ts`; one customer's carts and orders; implements `Purchases` |
| `CartOrdersProofs` | the inductive invariant and the theorems about `CartOrders` |
| `Checkout` | the page's button and its recovery, the quote, `orders.service.ts` as one cart whose price, stock and destinations move |
| `CheckoutProofs` | the invariants and the theorems about `Checkout`, `Offers` and `DeliverySchedule` |
| `CartMirror` | `use-cart.ts`, `use-cart-sync.ts`, `use-session-sync.ts`: one tab against the server's carts |
| `CartMirrorProofs` | the inductive invariant and the theorems about `CartMirror` |
| `Registration` | `customers/`: filing by browser and by webhook, conflicts, completing a profile |
| `RegistrationProofs` | the inductive invariant and the theorems about `Registration` |
| `ReadThrough` | `redis-cache.ts`: `cached`, `cachedMany` and the single flight of several instances over one Redis |
| `ReadThroughProofs` | the inductive invariant and the theorems about `ReadThrough` |
| `DeliverySchedule` | `working-calendar.ts`, `delivery-schedule.service.ts`, `availability.ts`, `use-cutoff-refresh.ts` |
| `Offers` | `inventory.service.ts`, `best-offer.ts`, `delivery.ts`, `orderable-price.ts`, the cart's `cart-totals.ts`, the shared `delivery.ts` |
| `SearchBar` | `search-bar.tsx`, its debounce, lanes, autocomplete answers and ways out |
| `SearchFilters` | the sidebar's navigations (`lib/catalog/url/`), the search's filters and counts (`apps/api/src/search/`), `use-retained-facets.ts` |
| `SearchProofs` | the inductive invariants and the theorems about `SearchBar` and `SearchFilters` |
| `MCOutbox`, `MCPaying`, `MCCartOrders`, `MCCartMirror`, `MCStorefront`, `MCShop` | the instances TLC checks |

Every component module holds, in this order, its constants and their assumption,
the variables, one action per operation or step of a handler, `Init`, `Next`,
`Spec`, the fair specification where one is used, and its properties. An
operator introduced by "Mutant of X" is a wrong version of X: no action uses it;
it is there to show that a property notices the mistake.

### Outbox

`stored`, `isDue`, `attempts`, `claimToken` and `completed` are the table; `at`,
`batch`, `current`, `todo`, `doing` and `failed` are where each relay's
`relayDue` stands, with its local variables. `claimDue` is one SQL statement and
one step. The handler's send, its record (`recordHandlerDone`) and the settling
write (`deleteDelivered`, `scheduleRetry`) are separate steps, because other
instances and crashes come in between. `HandlerFails` may leave its effect
behind (a send that timed out after going out). A crash, and a settling write
that throws, both leave the claimed batch to its lease (`AbandonBatch`).

Time is reduced to what the claim query asks: whether `availableAt` has passed.
`TimePasses` may happen at any moment, so a lease may run out between any two
steps of its holder, and a retry may become due at once. A claim token is a
number larger than any the row had, standing for a fresh random UUID.

### CardPayment

Orders share no row here, so one order is modelled. A request goes through
"idle" (`findPayableOrder`: the read and `attemptToOpen`), "asking"
(`openSession` under the attempt's key), "recording" (`recordOpened`, after which
the browser has the session), or "marking" and "asking again" when the key is
spent; it may end at any of these places. A delivery goes through "applying"
(after `findReportedAttempt`) and "answering" (after its one transaction). A
delivery that dies, or whose 200 is lost, leaves its event in `sent`.

Dominaite is external. A key opens a session, answers the open one again,
refuses with "already processed" or "prior attempt failed", and, a few minutes
after an unpaid session expired, would open a fresh one; a session is paid
through the browser's widget, for the whole amount or another one, and succeeds
later; outcomes are delivered under one or more ids until answered.

*Assumption about time.* The key of an expired session opens a fresh one only
some minutes after its `expiresAt`; `Reopen` therefore waits until no request
that was under way at the expiry still is. Without it `OneLiveSession` fails: a
request that read the session as open, and slept for those minutes, would get a
fresh session under the old row. The code relies on its requests being shorter
than that.

### CartOrders

A cart row keeps its status, owner, released token, version, line set and
selected lines; quantities and prices are left out, since no property tells them
apart. A request reads (`StartWrite`, `StartPlace`, `ReadGuest`, `ReadAccount`)
and later commits in one transaction that locks the row, which is one step
(`mutate` and the edits built on it, `place`, `claimForCustomer`, `mergeInto`).
`adopt`'s two reads are two steps in either order, as `Promise.all` leaves them.
`claimForCustomer` and the source of `mergeInto` are updated by id with no look
at the row, as in the code. `CartRequestEnds` stands for every refusal, error
and crash; a reply may not reach the browser (`HttpAnswer`).

What `Purchases` sees of a row is `states` and `owners`, and the lines and the
selection of a cart that is open or ordered (`Kept`). A cart whose `orderId` is
set is ordered for good, whatever a late sign-in writes to its owner and status
(the run `cart_ordered_is_final` refutes that nothing is written to it). Two
actions of the promise are there because the code does them: `TakeIn`, a merge
whose source was closed since it was read, so that lines ordered from it meanwhile
come back in the account's cart, and `MergeIntoItself`, the account's
cart retired by the second of two sign-ins at once (`cart_self_merge`).

### Checkout

`shop` and `order` are the server: one cart's version, its price, whether all its
lines can be ordered, the destinations served, whether the customer's details are
complete, and the order placed from it. `screen`, `goods`, `quote` and `stale`
are the page as last read and the reads a refusal asked for; `call` is the
mutation. Money is what it is made of: the price of the goods and the delivery it
includes. `Place` is the click (`placeOrderRequestOf`, `isBusy`); the bot check,
the server's pricing (`ServerPrices`), its transaction (`ServerPlaces`) and the
answer (`AnswerLands`: off to the order's page, or the reads `RECOVERY_QUERY_KEYS`
names for the refusal) are steps of their own. The order is the server's: `Refusal`
makes the checks in the service's order, `Priced` is the order of the cart the
service read, at its own prices, and of the request it takes the delivery alone;
`Placed` writes it under the cart's lock if the version is still the one priced,
and the first order stands. A connection lost while the server was pricing leaves
its order in `late`, which `ServerPlacesLate` may still write.

The page reads by itself a key it never read and what a refusal invalidated
(`ReadTotals`, `ReadQuote`, `ReadAvailability`, `ReadProfile`, `ReadCart`;
`goods.asked` is the version its totals were asked for). `LookAgain` is every other
reading: the window is looked at again, is back online, a cut-off passes. In between
`WorldMoves`: a line edited elsewhere, a price, a sold-out line, an office that
closes. `DropLine`, `CompleteProfile` and `ChooseAnother` are what the page asks the
customer to do.

### CartMirror

`mirror`, `queue`, `pending` and `generation` are the store and the module state
of `use-cart.ts`: the lines on screen with the cart and version they are of, the
promise chain, the debounced quantities and the generation `reset` bumps. `head`
is where the first queued write is: waiting, sent, answered, re-reading the cart
(`recover`). `joins` are the runs of `joinSession` (wait for the writes, file the
customer, adopt, load), aborted when Clerk answers anew; `read` is the background
read. A step is what runs between two awaits. `carts` is the little of the server
the tab sees; another device writes too (`OtherDevice`). A write that fails may
have reached the server (`WriteFails` after `ServerWrites`). A write remembers whose
mirror it was clicked on (`by`; a page load may find an account's stored, before
Clerk answers), and `head.waited` that it waited for Clerk: whether it is stale
(`isStale`) is asked before that wait, as in the code, and not after.

### Registration

`clerk` and `customers` are the two stores that share no transaction; `filings`
the calls of `register` in flight: the read, the question to Clerk
(`findIdentity`), the insert (`createUnchecked`, `create`) with its two unique
columns, the answer to the webhook. `hooks` holds the accounts whose
`user.created` was not answered 2xx; `unfileable` those logged at `error`, or
refused in the browser. Accounts change and are deleted in Clerk, whose email may
then sign up again.

### ReadThrough

`entries` is Redis, `works` the promises with what each asked for and has found,
`loadsInFlight` each instance's map; `source` is the data behind the loaders,
whose versions replace one another. Any call of Redis or of a loader may fail, a
piece of work takes at most `LoadTime` ticks, and a value is the version it was
loaded from. Each caller owns its keys and what they live for (`emptyTtl`): the
single reads may name a shorter life for an empty answer (`cached` with a
`ttlFor`, `cachedArray`), and a batch (`cachedMany`) keeps all it loaded for its one
ttl. A batch pairs its answers with its keys, and a key nothing was loaded for drops
out.

### DeliverySchedule and Offers

A civil date is a number of days and an instant a number of hours: the minutes
and the zone's offset are left out. Every first weekday, up to two holidays (official or
Easter's) and every hour that differs to the code are explored; `HourPasses`
moves the clock while `computedAt` stays with the page's read. `TimerFires` and
`refreshIfAged` are its two ways of reading again. The code's loops that walk from
a day to the next free one, or the next open one, are the least such day within
`Reach` days; that there always is one is a lemma (section 5). The loop that takes
the holidays in the order of their dates is the recursive function `occupied`, and
the one that counts working days the day on which the count is reached.

`Offers` starts from every own and supplier row in every order, before and after
the cut-off, and one step reorders the rows, sells a piece, passes the cut-off or
asks for one more piece; `selectBestOffer`, `orderableUnitPrice` and
`lineIssueOf` are functions of that state, as they are of their arguments. A sum
of quantities is the number of pieces (`Pieces`), and a row is told by its place.

### SearchBar and SearchFilters

A text is only what the box asks of it: blank, too short, like a part number,
like prose, or neither. Answers are kept by their question (lane and text, or the
text alone for part numbers) and may arrive in any order or never.

`SearchFilters` keeps the URL (`here`), the one before it, the dimension block
the sidebar retains, and a catalogue that is any assignment of brand, type, leaf,
width and kit to two articles. A click is a navigation; the server's filters
(`Matches`) and counts (`BrandCount`, `CategoryCount`, `DimensionBlock`) are
functions of URL and catalogue. A navigation is offered only where the page
offers it.

## 3. Runs

| Run | Instance | Shows |
|---|---|---|
| `outbox` | 2 relays, an event with 2 subscribers and one with none in one batch (90,228 states); 2 relays, the one event, 1 reset of its attempts (32,281); the checkout with 2 destinations, 2 moves, 1 outage (133,500); fair | the relay's lease, records and deletions are right and it implements `AtLeastOnce`; every stored event is deleted or uses up its attempts; an order is placed only as it was shown, and one the customer keeps clicking goes through, unless the page is left behind with nothing to click and nothing to read |
| `paying` | the payment: 1 request, 2 deliveries, 2 ids per outcome, 1 crash, 2 sessions, fair (313,202); the payment and the relay over one outbox, 2 handlers, 1 relay, 2 attempts, one delivery of a webhook at a time and before anything expires (13,670); the offers: up to 2 own and 2 supplier rows, 3 rules, 2 prices (197,652) | the payment and the relay keep what `CardOrder` promises; an order goes ahead only when its whole total was paid, and always when it was; a price ignores the order of rows and never undercuts our own; the page blocks just what an order is refused for |
| `ordering` | 2 requests, 3 articles, 2 lines a cart, 2 carts, 4 writes together (385,911) | the carts keep what `Purchases` promises, from rows read some queries ago: what was ordered is what was priced and chosen, the rest stays with its owner, a merge loses no line of the account's; an active cart has one owner, no cart more lines than its limit, and its version moves with its contents |
| `storefront` | the schedule: every weekday, pairs of holidays over 3 days, 6 hours a day, baskets of 2 warehouses; the box: 3 changes, 2 answers; the filters: every catalogue of 2 articles, 2 navigations; the mirror: 1 part, 1 user, 2 carts, 4 events together (1.93 million) | dates are ordered and what a page shows is true while it says so; the rows answer the box; no value offered empties the list; the copy of the cart is the server's and of who is signed in |
| `shop` | the payment: 2 requests, 1 delivery, 2 attempts, 2 sessions a key (563,390); registration: 2 filings, 2 accounts, 1 email (523,441); the cache: 2 instances, 2 keys, 2 pieces of work, 5 ticks (1,222,531) | no customer is charged twice or by a session unknown to us; every account is filed or reported; misses are shared, answers paired, staleness bounded |
| `outbox_give_up` | 1 relay, 1 event | **refuted**: an event out of attempts need not have been logged |
| `cart_ordered_is_final` | 2 requests, 1 article, 2 carts | **refuted**: a sign-in writes to a cart ordered since it was read |
| `cart_merge_loses` | the same | **refuted**: a line added while the sign-in merges is lost |
| `cart_self_merge` | the same | **refuted**: two sign-ins at once merge a cart into itself |
| `browser_settles` | 1 part, 1 user, 2 clicks, fair | **refuted**: a sign-in waits for ever for a debounced write that was replaced |
| `browser_forgets` | 1 part, 1 user, 2 clicks, 2 answers of Clerk | **refuted**: the lines of a customer who signed out come back |
| `cutoff_reread` | the schedule over 2 days without holidays | **refuted**: only the first cut-off of a day makes an open page read again |

**Parts side by side.** Several runs explore components that share no state. A
variable (`part`, or `instance`) says which of them a behaviour is of; that one
takes its own steps and the others stay at one legal initial state. Every state
of a part is reached exactly as it would be alone, so its invariants and action
properties are the ones it would be checked for alone; the others satisfy theirs
at rest, and are checked by their own behaviours. Where fairness is stated it is
of the part explored (`MCFairness`), or asks nothing of a part at rest, whose
actions are disabled there. The parts of `shop` give requests, filings and
instances the same names, and accounts and keys too, so that one permutation is a
symmetry of each. Symmetry is used only where no liveness is checked. The keys of
the cache in `shop` are alike in a behaviour (`OneKindOfKeys`): all with one life, read
singly or in batches, or all with a shorter one for an empty answer, read singly, as
each caller owns its keys; the proofs mix them. In
`storefront` one article's brand, type and kit are fixed: brands, types and kit
codes are interchangeable, so every other catalogue is one of those renamed.

Bounds, and why they are enough:

* *Two* relays, requests, deliveries, filings or instances: every race in this
  code is between a stale actor and a fresh one.
* `MaxAttempts` is 1 or 2 where the code has 10 (outbox) and 5 (payments): the
  first and the last attempt differ, those between do not. The proofs hold for
  every value.
* `MaxResets`, `MaxSessions`, `Copies`, `MaxCrashes`, `MaxCarts`, `MaxVersion`,
  `MaxMoves`, `MaxOutages`, `MaxChanges`, `MaxLosses` bound what the environment
  may repeat. Two copies let a duplicate meet its original at every place; two
  carts are what an order with lines left over, a merge and a self-merge need.
  Three carts with `MaxVersion = 1` and two articles (4,853,372 states) were
  checked too, but for `KeepsPurchases`, with the same result; that one with three
  carts, two articles and `MaxVersion = 0` (281,058).
* `MaxWrites = 4` (`ordering`, in `MCCartOrders`) bounds the versions of the carts
  together: a state past it is checked, as is every step into it, and not gone on
  from. Three writes fill a cart and deselect a line, the fourth orders the rest; a
  merge of two edited carts and its order are four as well. Without it
  (1,986,435 states) all four properties of the run hold too. No liveness is checked
  under it.
* `MaxEvents` (`storefront`) bounds clicks, answers of Clerk, background reads and
  writes of other devices together; each has its own bound as well. Four are a
  write in flight, a debounced one, a sign-in and a sign-out.
* `Ttl = 2`, `MissTtl = 1`, `LoadTime = 1`, `MaxTicks = 5`: both lives run out, and
  a load begun before a change of the source ends after it.
* `Hours` holds an hour before opening, one between opening and the first cut-off,
  the cut-offs (11, 17) and the closing hours (14, 18); the code compares hours
  with nothing else. Three days reach a weekend from every first weekday. The proofs
  hold for any hours, days and holidays.
* Two navigations and two articles in the filters, two rows of stock, one part and
  one user in the mirror, two filings, instances and keys are also backed by proofs
  for any number (section 5).
* `MaxRows = 2`, two prices (0 is a row without one), three rules: every comparison
  of `best-offer.ts` is between two rows, and the rules are our own shelf's, one
  that depends on the cut-off and one that does not.
* `ValueLimit = 1` makes two articles enough to overflow a list of values.
* Deadlock is not checked: a table with nothing left to do, or a bound reached,
  is a state the models may stop in.

Fairness is only what the code and its surroundings keep doing.

* `Outbox`: the clock moves on; `@Interval` runs `relayDue` every five seconds on
  every instance, and a claim takes the longest-due events first, so each due
  event is claimed again and again; a relay awaits each step of its own. Crashes
  are not fair, nor prevented, and bounded only by the attempts they use up.
* `CardPayment`: Dominaite settles what it approved and redelivers until a 200 (in
  truth five times over fifteen hours, which `MaxCrashes` stays under), and a
  running delivery takes its next step.
* `Checkout`: calls are answered in the end (outages are bounded), and so are the
  reads the page asks for: a key it never read, or one a refusal invalidated. That
  somebody looks at the window again, or a cut-off passes, is not assumed
  (`LookAgain` has no fairness). The customer clicks again whenever the button is
  there, and does what the page asks of him, which is strong fairness, since the
  button comes and goes. Without a customer who insists no order need be placed; with
  one, nothing that moves a bounded number of times may keep him out, but for the two
  ways a page is left behind (`IsLeftBehind`, below).
* `CartMirror` (`browser_settles` only): every callback that is due runs.

## 4. Disagreements between documents and code

Each is a run that refutes what a document or a comment says; `PROJECT.json`
"findings" quotes it.

1. *Giving up is logged* (`docs/ORDERS.md`): attempts are counted at the claim
   for the whole batch, but the log line comes after the last attempt's retry
   write. A crash or lost lease on the last attempt leaves a silent dead row.
2. *Every cart write locks and refuses a closed cart* (`docs/ORDERS.md`): the
   sign-in's claim, and its merge towards the source, look at nothing.
3. *An addition is never lost* (`docs/CART.md`): the merge checks the target's
   version and not the source's.
4. *A merged cart points at where its lines went* (`docs/CART.md`): `adopt`'s
   two reads can answer the same cart, merged into itself.
5. *`whenSettled` resolves once every write is answered* (`use-cart.ts`): a
   debounced write that is replaced or cancelled never settles its promise, and
   the sign-in that awaits it never adopts the cart.
6. *The account's lines cannot come back after sign-out* (`docs/CART.md`): whether
   a write is stale is asked before the cart is re-read, not after.
7. *Availability is re-read the moment a cut-off passes* (`use-cutoff-refresh.ts`):
   the timer is set when the cut-offs change, and the read at a day's first one
   names the same ones.

**Observed while modelling, without a run.** Each was read in the code; none is
claimed of any document, or it lies outside what is modelled.

* The refund log for a success on a cancelled order tests the status read before
  the write (`docs/PAYMENTS.md:109`); nothing cancels an order today but a person.
* The attempts of an event set back to 0 by a person may go on beyond the 24 hours
  the email service remembers a key (`outbox.relay.ts:19` counts one round of ten).
* A second key found spent in one request is answered 500
  (`card-payment.service.ts:92`).
* The first adds of two tabs each mint a cart, and the browser keeps one token
  (`cart.service.ts:133`).
* Quick orders of one phone are counted before either is written
  (`orders.service.ts:197`).
* `ownerId` stays null when the answer of a merge or an account read is older than
  the mirror; an aborted claim still runs `clearCartToken()` when it answers
  (`use-session-sync.ts:108`); a debounced quantity may be sent after a later add
  or clear (`use-cart.ts:454`).
* Whether a write is stale is asked before its request waits for Clerk
  (`use-cart.ts:392-397`). One clicked on an account's mirror that the page load found
  stored goes out as whoever Clerk then answers, or as a guest, though "a write made
  for the previous owner neither goes out nor lands" (`use-cart.ts:381`). It is one
  write at most, the one waiting; `WrittenByItsOwner` excepts it and no other.
* The checkout may be left behind without a refusal. Totals or a quote that answer
  for a newer cart than the mirror's disable the button (`place-order.ts:77`), and
  nothing then reads the cart again until the window is looked at again; so does a
  quote that failed for a line sold out since the page read it as orderable. Without
  the exception of `IsLeftBehind`, `OrderGoesThrough` fails.
* The 17:00 cut-off of a Saturday comes after that day's close at 14:00 (the
  exception in `PromiseIsKept` and `UnflaggedIsFresh`); a page computed after the
  last cut-off is never marked old the next day (`availability.ts:183`); after
  hours two speeds share a rank (`delivery.ts:126`); a row without a price costs 0
  (`db-value.ts:33`). A same-day cut-off configured later than noon would let
  a warehouse promise a noon already past (`delivery-schedule.service.ts:151`); the
  day is right, which is what `FasterIsNotLater` says.
* Taking off a brand that a dimension was chosen under can leave the dimension
  applied to brands that match nothing, with no block on screen to take it off in
  (`mutations.ts`, `toggleBrand` keeps the attributes; `attribute-filters.tsx:85`).
  It takes five navigations, more than the run explores: the proof of
  `BlockFollowsTheSearch` failed on it, and the property now excepts it.
* A brand selected and counted zero drops off the list (`brand-filter.tsx`), and
  the fifty-first brand of a URL is dropped by its parser; an attribute's token
  follows the spelling that is commonest at the time
  (`dimension-facets.ts:386`); the block retained may be an earlier one after Back
  (`use-retained-facets.ts:19`); a crumb of a leaf is said to be a branch
  (`mutations.ts:120`); ArrowUp from no row lands on the last but one, and the
  highlight is an index into a list that may be replaced (`search-bar.tsx:134`).
* An UNCERTAIN answer about an earlier draft of an address lets "keep what I
  typed" accept the present one, never checked (`address-picker.tsx:52`); the
  remembered office is used in quote and order while it is not among those
  offered (`docs/DELIVERY-PROVIDERS.md:106`); a device's location that arrives
  late overrides a place chosen since.

## 5. Proofs

Each proof module defines an inductive invariant (TLC checked it on the instances
above before it was proved), shows that the initial predicate implies it and that
every step keeps it, and derives its theorems from it.

**`OutboxProofs`**, for any finite or infinite sets of relays, events and
handlers and any number of attempts, from `OutboxAssumption` alone:
`TypeCorrect`, `LeasesAreExclusive`, `RetriesRepeatNothing`, `CompletedIsTrue`,
`RelayImplementsAtLeastOnce`. `LeaseExclusive` is not inductive: it needs every
claim in a relay's memory to carry a token its row has already had
(`ClaimsAreReal`, so the next token is new) and no token to be held twice
(`TokensAreUnique`). `NoRepeatUnderLease` needs what a waiting claim remembers
of `completedHandlers` to be at least what the row records (`BatchIsFresh`):
only the holder records. The refinement needs `OnItsWay`: while nothing failed,
every subscriber no longer in `todo` was delivered.

**`CardPaymentProofs`**, for any requests and deliveries, attempts, sessions,
repeated events and crashes, from `CardPaymentAssumption` and the timing built
into `Reopen` (section 2): `TypeCorrect`, `ChargedAtMostOnce`,
`NoPaymentIsUnknown`, `OrderAnnouncedOnce`, `OnlyTheWholeTotalPays`. The
argument: an attempt is asked for only once every earlier one is *dead*, its key
spent on a session that failed or closed (`EarlierAreDead`, from
`FailedIsDead` and `MarkingIsDead`: a row is `FAILED` because its session was
reported declined, or because Dominaite refused its key); a dead key opens
nothing again. Within one attempt, rows, requests about to record and the
browser all have the key's last session (`RowsAreLast`, `RecordingIsLast`,
`ShownAreOnRecord`), because a key that reopened under a row is never asked for
(`ReopenedIsLeft`: `attemptToOpen` refuses an expired session). So any two
sessions in the browser that are payable or paid are the same one, and it is on
record. `ProcessingIsPaid` rests on rows staying on record with their
transaction, and on money not changing after it was taken. The actions are taken
apart once, in the lemmas named `...Step` that say how keys, rows, requests,
events and the order may move; the invariant's parts follow from those.

The second part of `CardPaymentProofs` is about `PaidOrder`, for any rows, handlers,
subscriptions, relays and attempts as well, from `PaidOrderAssumption`:
`PaidIsWritten`, `CardOrderIsKept`. `PaidOrderNext` is composed so that a step of the
whole is a step or a stutter of the payment and of the outbox; the lemmas
`PaymentRunsAsSpecified` and `RelayRunsAsSpecified` only say so, and let the theorems
about either component be used of the whole. What is proved is the joint: the row of the order is written if and only if
the order is `PROCESSING` (`WrittenWhenPaid`, kept by `WrittenStep`), which no
component can say by itself. With that and both invariants (`Ready`), each step maps
to one of `CardOrder`: a success taken by the gateway to `Charge`, at most one since
two sessions are never both payable (`OneCharge`, `NoChargeYet`); `confirmPaid` to
`Confirm` of a session that was charged the whole total, which is where
`OnlyTheWholeTotalPays` is needed (`PaymentKeepsPromise`); a handler's run to `Tell`
and the row's deletion to `Forget`, through the refinement of `AtLeastOnce`
(`RelayKeepsPromise`). Whether everybody is told in the end is a matter of fairness,
and an event out of attempts stays: `CardOrder` promises the order of things.

**`CartOrdersProofs`**, for any articles, any number of requests and carts and
any limits, from `CartOrdersAssumption`: `CartsTypeCorrect`, `OrderedIsPriced`,
`CartHasOneOwner`, `LinesAreLimited`, `VersionMoves`. None of the properties is
inductive, because a request writes what it read some steps ago. The invariant
`CartsInv` says of each row and its order (`CartOK`) that an active cart has one
owner, no order and no released token, that it fits its limit, and that a cart
which records an order holds what was ordered; and of each request (`RequestsOK`)
that every row it has read is, if that cart is still active *and its version has
not moved*, that cart still (`ReadRows`). So what is compared by version at the
commit is compared by contents, which is what `OrderIsAsPriced` asks. A read row
stays one while rows only close or move their version (`RowStep`, `ReadStays`),
which every action does (`mutateStep`, `createCartStep`, `claimStep`,
`sweepStep`, `placeStep`, `mergeStep`); `VersionMovesWithContents` is that step
itself. `MergedFits` counts the lines of a merge. The three refuted claims about
carts do not contradict this: a claim and a merge change the owner and status of
a source that is closed already, or drop lines, and touch none of the four.

The second part of `CartOrdersProofs` is the refinement of `Purchases`:
`PurchasesAreKept`, and `OneCartPerAccount`. Rows, versions, locks and requests
disappear; what remains is that each commit is one step of the carts as they are at
that moment. Each action of `CartOrders` maps to one of the promise (`AddIsPromised`,
`EditIsPromised`, `CreationIsPromised`, `SweepIsPromised`, `ClaimIsPromised`,
`PlaceIsPromised`, `MergeIsPromised`) or to a stutter (`ReadsAreUnseen`; a claim of a
cart ordered since). An order and a merge are steps because the version says that the
row read is the row locked (`ReadRows`), so that what the request chose is what is
chosen still. A claim needs that no other cart is the account's, which is the unique
index it writes against; a merge, whose source is written with no look at it, needs
that an open source other than the target is a guest's. That is
`OneAccountCart`, which the promise's own steps keep (`OneAccountIsKept`), together with
what a sign-in remembers of the account's cart (`AccountsWereRead`); so both are proved
of every step side by side, and `OneCartPerAccount` is the invariant itself.
`KeepsPurchases` says all that `OrderIsAsPriced` says of the step that places an order,
so the run checks the first and the theorem `OrderedIsPriced` keeps the second.

**`RegistrationProofs`**, for any accounts and emails (`"none"`, which stands for
no email, not among them), any number of filings, changes and lost answers:
`RegistrationTypeCorrect`, `EveryAccountIsFiled`, `FilingIsFinal`. That a hook is
answered only for an account filed or logged is not inductive: the answer is given
steps after the insert, and rows and emails move in between. `RegistrationInv` adds
that a row's account still has an email (`RowsAreEmailed`), that a filing about to
answer 200 has its row, and that one about to insert has an email (`FilingsAdvance`). `FilingIsFinal` is an action
property over the same invariant: rows only gain details, and only a filing whose
account has no row is turned away.

**`ReadThroughProofs`**, for any instances, keys, lives and durations:
`ReadThroughTypeCorrect`, `OneFlightPerKey`, `AnswersFollowTheRequest`,
`AnswersAreRecent`. The bound of two
pieces of work is the argument itself: `WorksOK` says that what a piece of work
loaded was the source's when it began or since, `EntriesOK` that an entry expires at
most a time to live after the end of the work that wrote it (its key's: the shorter one
of an empty answer only where the key's callers name one, `TtlIsTime`), and `WorksOK` again that
what was found in Redis is as old as that allows. `FlightsOK` ties the map to the
work: exactly the work for one key that has not ended is in it. For the order of an
answer, `WorksOK` says that a piece of work holds one value at most of an item
(`ValueStands`), and `RankOrders` that the places left when the missing items are
filtered out are 1, 2, ... with no gap and none shared.

**`CheckoutProofs`** is about three modules.

* `Checkout`, for any destinations and any number of moves and outages:
  `CheckoutTypeCorrect`, `OrderIsAsShown`. The invariant keeps, for a request on its
  way to the server, that it is one the page showed at a click (`SentAsShown`), and,
  for an order the server has priced, that it was shown too (`PricedAsShown`). The
  server makes its order of its own lines and prices, so that this equals the request
  (`PricedIsSent`) is what its checks of the version and the total give, and falls
  with either; the first order stands.
* `Offers`, for any rows of stock, rules and prices: `BlockedIsRefused`,
  `NoneIsUndercut`, `PromisedFromTheSlowest`, `OrderOfRowsIsIgnored`. Here the
  invariant is only the types, and the content is in the lemmas: what `Pieces` counts
  is additive and positive (`PiecesApart`, `PiecesOfOne`), the source of an offer
  exists because its rank has a least value (`SourcedExists`), quantities add up
  warehouse by warehouse (`AddedUp`), and a reordering that keeps every quantity,
  price and rule keeps the offer (`ReorderKeepsTheOffer`).
* `DeliverySchedule`, for any opening hours and cut-offs in the order
  `ScheduleAssumption` gives them, any days and holidays: `ScheduleTypeCorrect`,
  `SubstitutesNeverShareADay`, `FasterIsNeverLater`, `LaterIsNeverSooner`,
  `PromisesAreKept`, `UnflaggedDatesAreFresh`. The loops of the code are shown to
  end: of `2 * MaxHolidays + 1` pairs of days one has an open day, of as many triples
  one a free working day (`OneIsFree`, by the pigeonhole theorem), so a next open day
  and a next free one exist, and so does the day on which a number of working days is
  reached. The rest follows from order: `WorkingDaysInOrder` (by counting open days)
  gives that a later start (`StartsInOrder`, `DeliveriesInOrder`) and a slower
  warehouse (`WarehousesInOrder`) never mean an earlier day. A basket's deadline is
  kept because whoever still makes it starts on the day the page was computed for
  (`ServedToday`).

Where these argue by induction, it is through `LeastOf`, the least element of a set
of naturals: the first number that fails, and the one before it. That `occupied`
is a function that satisfies its recursive equation is shown the same way
(`OccupiedSteps`).

**`SearchProofs`**, for any texts, catalogue, brands, types (`"none"`, no type, not
among them), limit of values and number of navigations: `SearchBarTypeCorrect`,
`RowsAreOfTheBox`, `SearchesAreAsShown`, `SearchFiltersTypeCorrect`,
`NoFewerThanOffered`, `BlockIsOfTheSearch`. The box rests on answers kept by their
question (`AnswersOK`). A count is of articles that all match after the click, so it
is a subset lemma for each kind of click. `BlockFollowsTheSearch` needs to know more
of a URL than its shape: that a leaf is said only of a branch without children
(`LeafOK`), that what is applied is something a block offered (`AppliedOK`), and that
the retained block is of the scope on screen (`BlockOK`, `ScopeOK`, `ShownOK`), of
the page on screen and of the one Back leads to.

**`CartMirrorProofs`**, for any non-empty set of parts, any finite set of users, and
any number of clicks, answers of Clerk, reads and writes of other devices:
`MirrorTypeCorrect`, `MirrorIsTheSessions`, `AtRestItShowsTheCart`,
`WritesGoToTheirOwner`. None is inductive; `MirrorInv` says that a click on an
account's mirror that is not stale finds the mirror still its own, and that account
signed in or Clerk loading, and so do the queue and the pending quantities
(`WritesOK`); that what is being sent goes out as that account, unless it waited for
Clerk (`HeadOK`); that an answer on its way, of a
write, a background read or a run of the sign-in, tells of a cart no later than it is
(`HeadOK`, `SessionOK`, `ReadOK`); and that a line on screen the server does not have
is followed by a write whose answer will be taken (`GuessesAreFollowed`). The two
refuted claims about the browser do not contradict this: what never settles, and what
comes back after a sign-out, is of the session the mirror then says it is of.

Out of the prover's reach, and left to TLC: liveness under fairness
(`EventuallySettled`, `PaymentConfirmed`, `OrderGoesThrough`). Not proved either:
the `TypesOK` of `MCOutbox`, `MCShop` and `MCStorefront`, which put the types of their
parts side by side, each proved for its part.

## 6. Plan

Done: the outbox, its refinement and proofs; card payment, and its order paid and
announced through the outbox as one refinement; carts and orders, and the
refinement of what they promise; checkout, the browser's cart and session, customers, the cache, prices and dates, the
search box and the filters, each with its proofs.
Next, in this order:

1. `ArticlePages`: the ranked list that is cut into pages
   (`apps/api/src/catalog/articles/article-list/`): the pinned order, its memo and
   the stock read that may fail between two pages.
2. The delivery choice of the checkout: pickers, drafts and the remembered office.

## 7. Not modelled

* *Delivery carriers*: requests to a carrier and parcel arithmetic, no state.
* *Authentication and bot check*: stateless guards over third-party services; the
  checkout sees a bot check that succeeds or fails.
* *TecDoc's client, its mock and the mapping of an article's data*: conversions of
  a third party's answers, thousands of lines and no state.
* *The ranking of a list and the caches' keys*: see the plan.
* *The forms of the checkout*: see the plan; the order's admission limits, access
  keys and reads; the texts of emails.
* *Rendering*, the offline parcel-profile build, infrastructure.
