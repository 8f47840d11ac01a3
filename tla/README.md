# TLA+ models of the Task Execution Platform API

The program is a NestJS service over MongoDB: it starts and stops execution
sessions for its users, sells them subscriptions, hears of every execution from an
external executor, and keeps the accounts. One Node process serves all calls. The
code between two `await`s is atomic; between them any other call may run, and the
process may go down. **The grain of every module here is therefore one action per
database operation (or remote call, or mail)**, with the code up to the next
`await` in the same action. No transaction is used anywhere in `src/`, and only
`orderId`, `executionId`, `discordId` and `platformId` are unique in the database:
most of what can go wrong comes from "find, decide, write" spread over three
operations.

## 1. Inventory

| part (source) | state | operations | hard | correct when | modelled in |
|---|---|---|---|---|---|
| Execution sessions (`src/executor`) | session documents; in-memory map of auto-stop timers | start (replaces a running session), stop, auto-stop, rehydration at startup | overlapping calls of a user; timers in memory; crash between save and timer; `finally` that clears a timer by user | at most one active session per user; every running session is stopped in the end; a restart finds them all | `ExecutorSessions`, `SessionLease` |
| Maintenance mode (`src/maintenance`) | one settings document; cached copy with a time to live | read, set (invalidates) | refill after an invalidation; two sets; two first uses | bounded staleness; a set that succeeds was in effect | `Maintenance` |
| Orders, payments (`src/orders`, `src/payments`) | orders; payments at NOWPayments | create order, create payment, IPN, status poll | IPNs late, repeated, reordered; poll against IPN; failure in the middle of the cart | nothing without a payment, all of the cart, once, in the end | `Payments` |
| Subscriptions and trials (`src/subscriptions`) | subscription documents | createOrExtend, activateTrial, queries | end of the active period read before the next one is created, by a second reading of the clock; a plan that becomes a trial after it was ordered | no time to come and no trial is given more often than calls of the user were in flight; one call at a time gives what was paid for | `Subscriptions`, `Entitlement` |
| Plans, promotions, prices (`src/subscriptions`, creation of an order in `src/orders`) | two collections edited by an administrator | price list, pricing of a cart, pricing at activation; choice of promotion, rounding | ties; a plan priced three times, each time from two reads and a later clock; edits in between | every price was called for by what was read; shown, ordered and recorded agree while nothing changes; nothing is sold for nothing | `Pricing`, `Checkout` |
| Execution records (`src/metrics`, `src/analytics/execution-management`) | execution documents, links between sales and purchases | initial, final, history messages; FIFO matching; manual match, unmatch, sale, purchase | messages reordered; two matches at once; links kept on two sides | links agree, stay within a user, profits are earned | `Executions` |
| Messages of the executor (`src/metrics`, the look-up and the two handlers that write one document) | platform id and executor configuration of the users, balances | look-up by session, first store of the platform id, user data, balance update | the id is read, then stored; sessions are not unique; an account may be another user's; failures answered with success | a stored account stays; no message is lost that a known user was due | `PlatformMessages` |
| Accounts (`src/auth`, `src/users`, `src/mail`) | user documents | register, verify, login, refresh, logout, reset, merge | copies saved after an await; deletion before save in a merge | a merge loses nothing; an address is proved by a mail to a string that finds it; a token is spent once | `Accounts` |
| Discord (`src/auth/discord`) | three fields of the user | callback | remote only | | its write is `Verify` in `Subscriptions` |
| Execution history (`src/execution-history`) | history documents | two upserts, reads | upsert without a unique index | | not modelled: the upserts have no caller |
| Analytics (`src/analytics/analytics.service.ts`) | none | sums, pages | none | | not modelled: reads only |
| Guards, strategies, wiring, DTOs, filters | none | checks before a handler | none | | not modelled: every call of the models has passed them |

How they interact: an activated order calls `createOrExtendSubscription`
(`Payments.CreateSub` is one step where `Subscriptions` follows the call from
query to query); a merge moves
subscriptions between accounts (`Accounts.Transfer`), and an order paid late still
creates them for the old account (`Accounts.Grant`); the Discord callback sets what
`activateTrial` asks for; the maintenance guard reads the cached settings before a
session starts (the guard refuses a call as a whole, so that it is not composed
with `ExecutorSessions`); the executor's messages look up a user
(`PlatformMessages`) and then write execution documents (`Executions`, where a
message has found its user); a merge deletes a user under the messages on their
way (`PlatformMessages.Delete`). An order is priced when it is created and again
when its items are activated: `Checkout` follows it from the price list to the
subscription, `Payments` says when and how often an item is activated, and
`Subscriptions` what period it then gets.

## 2. Modules

**ExecutorSessions** -- documents are `status`, `owner`, `scheduled`
(`scheduledStopAt` is set; `lastAction` always changes with it), the map of timers
is `timer`, and each call in flight is a slot with its place in the code (`pc`).
Time is left out: an armed timer fires at any moment, and a restart may find any
scheduled session overdue. `Crash` empties slots and timers; `Boot` and the steps after it
follow `onModuleInit`, whose overdue stops run un-awaited. A start without an
executor configuration throws before its first write and is not a step. Which
calls of a user may overlap is the constant `MayOverlap`, per user: the code
enforces nothing, and the properties differ in what they need. `Apart` are the
users two starts of whom never overlap, `Alone` those a start of whom overlaps
none of their other calls; the calls of different users overlap as they like.
`SessionsBounded` is of every user, and counts what overlapping starts can leave.
`SessionLease` is the abstract promise (a user holds at most one session, a
session is held once); `LeaseSpec` is the refinement, for the users of `Apart`.

**Maintenance** -- the settings have a version per write with the time at which it
took effect (`history`), the cache a version and a clock reading; time is a counter,
assumed monotone as `Date.now` is used. The message travels with the mode. `findOne`
gives the oldest document; two first uses may create two.

**Payments** -- an order's fields, the subscriptions created per item of its cart,
and the gateway: every status a payment ever had may be delivered as an IPN at any
moment, again or for the first time. A call keeps the copy it found
(`seen`, `seenActive`; the queries are `.lean()`) and decides on it. The IPN's
signature is left out: the IPNs of the model are genuine.

**Subscriptions** -- documents are appended, never changed. A call reads the clock
after each operation, and `createOrExtendSubscription` twice, for the start and
again for the query: both readings are any moments since (`Since`), in that order. A
plan that has become a trial after it was ordered (`kind` "orderedTrial") meets the
guards of a trial there and lasts 24 hours. How many calls of a user are in flight
at once is the constant `Width`: the code limits nothing, and the properties say
what each call more can add. `Serial` are the users with one at a time. Plans are
lengths; prices are left out. `Entitlement` is the abstract promise, for `Serial`:
until when a user may use a feature, how often he paid for it, who has had a trial.
A purchase moves the end by its whole length, a trial is the first and found no
PREMIUM.

**Pricing** -- `isPromoActive`, `bestPromoForPlan` and `applyPromo` as operators,
and beside them what a price ought to be, said without the algorithm (`IsOffer`).
Prices are whole cents; that the code multiplies euros in floating point before it
rounds is left out.

**Checkout** -- the three paths that price a plan, read by read: `getAvailablePlans`
(both reads at once), an order item by item, and an item at its activation
(`createOrExtendSubscription` prices it anew). The two collections are sequences,
in the order in which the database returns them, and an administrator edits them
from outside at any moment (`Edit`, external: `src/` has no code for it). A price
goes with a duration: the plan's `durationInDays` in the list and in an order, but
24 hours (`TrialDays`) for a trial that is recorded at its activation. `log` is
a history variable: what was in force at each clock reading. `NamedTrial` is the
model name that `create` refuses before it reads anything.

**PlatformMessages** -- whose a message is. The look-up first asks for a user whose
`platformUserId` is the account of the message; `User` has no such path, so that
this query finds nobody and is not a step. What counts is the session, which
`setExecutorConfig` lets any user name. The first account seen is stored under a
unique index. `Fails` is any operation that fails; the executor is told success.
`due` is a history field: the user who alone had the session all the while and had
an account from the start.

**Executions** -- an execution document has its status, its two links and whether
a profit is realized. What the platform says of an execution (times, items, type)
is constant; the messages about it arrive in any order, each once, histories as
often as they like. The message of an end says a final status (`EndStatus`: those
are the handlers `src/` has), a history may say any (`HistoryStatus`): "JOINED", or
"OTHER" for whatever else the platform has. An execution that is `Similar` is what
the history's query finds by price and time. Amounts are left out.

**Accounts** -- a document per user, a subscription's owner, the mails sent. A token
is a number in order of issue. Copies are saved as mongoose saves them: the fields
the call changed, and not at all if the document is gone. Of passwords and refresh
hashes only the presence counts. `findByEmail` makes a regular expression of what
was typed, in which a dot is any character: which stored addresses a string finds
is the relation `Matches`. The mail of `requestVerification` goes to what was typed,
that of a reset to the stored address.

Slots (`Handlers`, `Readers`, `Setters`) bound concurrency; `MaxFails`,
`MaxCrashes`, `MaxTime`, `MaxVersions`, `MaxItems`, `MaxSubs`, `MaxTokens`,
`MaxEdits` bound what else is unbounded. `MC*` modules give the constants their values.
`disturbed` in four modules is a history variable: the users (orders) two of whose
calls overlapped or one of whose calls was cut short (in `PlatformMessages`: users
two of whose messages, about two accounts, overlapped). Many promises of this code
hold for all others only, and the properties say so with it.

In some modules an action is preceded by variants marked "Mutant": plausible bugs
of that code, none of them part of `Next`, kept to show that the property named for
them in `PROJECT.json` can fail.

## 3. Runs

| run | instance | shows |
|---|---|---|
| `exec_sessions` | 2 users, 3 sessions, 2 calls, 1 failure, 1 crash; the starts of one user overlap none of his calls, those of the other overlap each other, his timers and overdue stops; fair | of the first: one active session, the lease is implemented, a restart finds all, timers guard, stop delivers, auto-stop happens, whatever the second does; of both: active sessions are no more than calls |
| `exec_timer_race` | 1 user, a timer may fire amid a start; fair; **violation** | a timer's `finally` clears the timer of the session started meanwhile: it is never auto-stopped |
| `maint_race` | 1 reader, 2 setters, TTL 2 | staleness below CACHE_TTL, sets not lost |
| `pay_race` | 1 order, 2 payments, 2 items, 2 calls, 1 failure, 1 crash | nothing for free, nothing incomplete, once when undisturbed |
| `pay_live` | 1 order, all gateway statuses, 1 failure, 1 crash; fair | a paid order is activated |
| `pay_only_once` | 1 order, 2 calls; **violation** | two calls that overlap give an item twice |
| `subs` | 2 users, the calls of one two at once, of the other one at a time; 2 features, 3 documents, 3 clock readings | no time to come and no trial is given more often than calls were in flight; for the second user the entitlement is implemented |
| `checkout` | 3 plans (a paid one per feature, a trial; one may get dearer, become a trial or go), 4 promotions, 1 edit, 3 clock readings, 1 order of up to 2 items, 1 call at a time | every price was offered, the paths agree, nothing is sold for nothing, collection order matters only in a tie |
| `messages` | 2 users (one linked), 2 accounts, 2 sessions, 2 messages, 1 failure; either user may be deleted | a stored account stays, due messages are heard |
| `exn_links` | 3 purchases of 2 users and a sale of two items, 2 calls, histories of the sale that say its end or another status | links within a user, links agree, profits earned; only a reconciliation of a user whose calls overlapped reopens what has ended |
| `exn_buys` | 2 sales, 1 call; **violation** | an earlier sale is matched as if it were a purchase |
| `acc_merge` | a platform account, one that registers, 2 subscriptions, 2 addresses, one of which, typed, finds the other too, 2 tokens, 2 calls, 1 failure | merges, verification by a mail to a string that finds the address, reset, logout of undisturbed users |

Why the bounds are enough for what the runs ask: two calls in flight are what a
race of this code takes (each race is between two calls of one user or order); a
third session, payment, document or token is there wherever a *later* call can be
misled by what a race left; two users (one order suffices: nothing relates two
orders) show that calls do not reach another user's data. In `checkout` one call
suffices: calls share only the collections, which they read and only `Edit`
writes; three clock readings are before, during and after a promotion, and a
second edit would only repeat what one edit at any moment shows. In `messages`
both accounts can be claimed by the unlinked user, one of them taken already.
Where the same statement is proved, the bounds do not matter.

**Fairness.** `exec_sessions`, `exec_timer_race`: a settled promise's continuation runs (`WF` of the steps of
a call), an armed timeout fires (`SF`, since the slots are a bound of the model and
may be taken for a while), startup goes on after a crash. No request is promised.
`pay_live`: calls run on, and NOWPayments repeats a 'finished' IPN until it is
answered with ok. The polls of a client are not counted on, and would not do: a
poll writes 'finished' before it activates, and a later poll takes 'finished' for
final. Without the repeated IPN a failure after that write is never made good.

**Deadlock** is checked in every run.

### What the violations say

- `exec_timer_race`, `README.md` "Auto-stop scheduling": the `finally` of the timer's
  callback deletes by user, after an await.
- `pay_only_once`, comment at `payments-now.controller.ts:44` ("only once").
- `exn_buys`, comment at `metrics.service.ts:465` ("oldest unmatched BUY"): the
  query does not ask for the type, and a sale has both links empty.

### Known limits

What the code does not promise, and no property here claims:

- *Sessions.* An auto-stop whose database call fails is not tried again (its timer
  is gone); `markLastAction('stop')` after a stop normally finds no document; starts
  of one user that overlap leave several sessions, no more than there were calls,
  all but one of them without a timer until the next restart; a stop that overlaps
  a start may leave the new session or end it.
- *Subscriptions.* Extensions or trials that overlap leave subscriptions on the same
  time, no more of them than there were calls. A subscription that expires between
  the two readings of the clock is not found, and the new one starts a little before
  its end: `OverlapBounded` speaks of time to come, and `Entitlement` lets a purchase
  start at a moment that has come. A trial of ENTERPRISE may lie on time paid for: its
  guard asks for PREMIUM, although the comment at `subscription.service.ts:308` says
  "any active subscription". That there was no trial before (comment at `:299`) is
  checked three awaits before the creation: `TrialsBounded` says what that can cost.
- *Orders.* A cart activated a second time after a failure gives its first items
  twice.
- *Prices.* The subscription records the price and length of the plan at its
  activation: after an edit, or the beginning or end of a promotion, they differ
  from what was ordered, and an item sold for money may be recorded at 0. An item
  whose plan was removed after the payment cannot be activated, and one whose plan
  became a trial only for a user who may have a trial. A trial is listed with its
  plan's `durationInDays` and recorded with 24 hours. Between promotions of one
  priority the order of the collection decides, although the comment at
  `subscription.service.ts:78` promises the greater discount in euros.
- *Messages.* The look-up by `platformUserId` (`metrics.service.ts:43`) never finds
  anyone, so that a message of a session no longer configured is lost, as are, to a
  user without an account, all messages about the account of another user. A
  balance or an execution is written for a user deleted meanwhile, and what a
  merged user had stays with the document that is gone.
- *Executions.* A final message whose creation is refused by the unique index is
  answered with success and lost; a manual match of a purchase that is matched
  already leaves two sales claiming it; a history that is reconciled
  while the execution ends may set it back to what the history says
  (`metrics.service.ts:348` writes to what it found "incomplete" an await earlier).
- *Accounts.* An account may be verified by a mail to another string, if that string,
  read as a regular expression, finds its address. Addresses are not unique; a merge does not carry over the platform
  id, and orders stay with the account that is gone.

## 4. Proofs

Machine-checked for every value of the constants, in eight modules:

- `ExecutorProofs`: `ExecutorTypeOK` and `OverlappingStartsAreBounded` of every user,
  whatever overlaps (an active session and a call about to save one are counted
  together, `CountInv`: never more than the slots, which are finitely many);
  `AtMostOneSession` and `ImplementsLease` for
  the users of `Apart`; `RestartFindsEverySession`, `StopLeavesNothing`,
  `IdleSessionIsTimed` for those of `Alone`; what other users' calls do is
  unrestricted. `OneActivePerUser` is not inductive: that the save of a start finds
  nobody active rests on the second look-and-stop before it. `SessionInv` adds
  that between those and the save the user has no active session, that the starts
  of such a user follow one another, and who owns what; `AloneInv` adds what the
  timers and the boot loop hold. The refinement maps what a user holds to the set
  of his active sessions: a save is a grant, a stop a release, all else stutters.
  `StoppedStaysStopped` (no late stop or mark rewrites what is stopped) is an action
  property of every user, by cases of `Next`, and proved only: no run repeats it.
- `MaintenanceProofs`: `MaintenanceTypeOK`; `StalenessIsBounded`, where the
  invariant dates what the cache and each reader in flight carry by the clock read
  *before* the database was asked; `SetsAreNotLost`, where it says of each setter in
  flight that what it loaded or wrote was in effect since it was asked.
- `PaymentsProofs`: `PaymentsTypeOK`, `NothingIsFree`, `ActivationIsComplete`,
  whatever overlaps, fails or crashes. The invariant says that a call works on the
  order its payment was made for (`Calls`), is told 'finished' only if that payment
  was (`Told`), and has created a subscription for every item before the one it
  stands at (`Progress`). `NothingTwice` needs a second one: of an order that is not
  disturbed nothing exists until the one call that will create everything, which is
  alone (`Untouched`). `HarmIsBounded` needs a third (`Bounded`), which counts calls:
  until an order is activated, each subscription of an item is the doing of a call
  that is about to set the flag (`Made`) or was cut short; once it is, only the
  calls that looked before can add one (`May`), and no slot is in both. That there
  are finitely many slots is `HandlersAssumption`: a process has no more calls in
  flight.
- `SubscriptionsProofs`: `SubscriptionsTypeOK`, `OverlapIsBounded`, `TrialsAreBounded`,
  however many calls overlap, and `ImplementsEntitlement` for the users of `Serial`.
  The invariant counts: for each moment to come, the periods that cover it and the
  calls that are about to create one more are together no more than the user's calls
  may be (`Loads`), because a call becomes one of these when it has just seen that
  nothing covers what it will take; trials likewise (`Tries`). Of a user with one
  call at a time it says besides that what the call has seen still holds when it
  creates its document (`Alone`): nothing of the feature lasts beyond the start it
  has chosen (`Anchored`), there is no PREMIUM where a trial goes (`Unentitled`). That
  the greatest end of the periods exists and is what `Max` picks is `MaxIsGreatest`.
- `CheckoutProofs`: `CheckoutTypeOK`, `EveryPriceWasOffered`, `TheThreePathsAgree`,
  `NothingIsSoldForNothing`, `PromotionsAreUnambiguous`. First come lemmas about the
  pure code: `FinalPriceIs` (what the sort, the first candidate and `applyPromo`
  compute is an `IsOffer`: the nearest cent, never negative, of a promotion nobody
  overrides), `PriceIgnoresOrder` and `TotalBounds` (no item of a cart costs more
  than its `euroTotal`). The invariant then says that what a call has read was in
  force since it began to read (`HasRead`), that every price is `FinalPrice` of such
  collections, with the duration that goes with its path (`Grounded`), and that the log of what was in force only grows, so that
  this stays true of prices long since shown, charged and recorded (`GroundedStays`).
  `TheThreePathsAgree` excepts one thing, the length of a trial, which the list and
  the record tell differently.
- `ExecutionsProofs`: `ExecutionsTypeOK` and `LinksStayWithinUser` whatever overlaps:
  a call holds only ids of its own user (`Shape`). `OnlyHistoriesReopen`: whatever a
  history says, what has ended is reopened by nothing but a reconciliation, and by
  that only for a disturbed user, since of the others what a reconciliation found
  incomplete still is when it writes (`Held`). `ClaimsAlwaysAgree` and `ProfitIsAlwaysEarned` for users who are not disturbed:
  their books are in order (`Books`) but for the one execution whose links a call is
  taking back, and the call in flight knows what it will write over (`Held`: the
  purchase it links is free, nobody claims the execution it clears).
- `PlatformMessagesProofs`: `MessagesTypeOK` (no two users ever have one account),
  `AccountsStick`, `DueMessagesAreHeard`. Who found the same user for another
  account makes him disturbed (`Rivals`), so that what a call is about to store is
  all that can be there already (`Stores`); the user a message is due to is the
  only one its look-up can find (`Dues`).
- `AccountsProofs`: `AccountsTypeOK` whatever overlaps; `MergesKeepTheAccount`,
  `SubscriptionsAlwaysFollow`, `VerifiedAddressesAreRead`, `TokensResetOnce` and
  `LogoutsHold` for users who are not disturbed. None of the five is inductive,
  since a handler decides on a copy it found operations ago. All rest on `Base`: of
  a user who is not disturbed, at most one call is in flight, what that call holds
  is still what the document says, and tokens are issued once. On top of it there is
  one invariant per promise: where a merge stands between the deletion, the save and
  the transfer, and which of the two accounts has what by then (`Merges`, `Sold`);
  that a token found in a document was mailed to the address next to it, or to
  a string that finds this address (`Addressed`); that a token spent is in no document and in no copy (`Resets`); and
  who may still store a session after a logout (`Sessions`).

The assumptions are those of the modules: names are distinct, bounds are numbers,
slots are finitely many where they are counted, collections hold what they are said
to hold.

*Inductions.* The library's induction theorems take an operator, which the provers
cannot instantiate. Where an induction over numbers or the size of a set is needed
(the greatest end of the periods, the highest priority, the sum of a cart, which
`Total` folds), the proof descends instead: among the counterexamples one would be
least (`LeastNat`, from the well-foundedness of the numbers), and it is not. That
the recursion inside the fold exists at all is `SumsExist`.

Every invariant and action property that the passing runs check is a theorem. Only
model-checked is liveness (`AutoStopped`, `AutoStoppedAlone`, `PaidIsActivated`):
fairness and ENABLED are out of the prover's reach.

## 5. Plan

Done, the most important behaviour first: `ExecutorSessions`, `SessionLease`,
`Maintenance`, `Payments`, `Subscriptions`, `Entitlement`, `Executions`,
`Accounts`, `Pricing`, `Checkout`, `PlatformMessages`, and the proofs above.

What is left: `Payments` with `Subscriptions` composed (what was paid is what the
entitlement grows by): an abstract purchase of the whole cart that `Payments`
implements for orders that are not disturbed, and a theorem that it does. Then
bounds, in the manner of `SessionsBounded`, `OverlapBounded` and
`OverActivationBounded`, for what overlapping calls can add where the properties now
speak of undisturbed users only: two matches of one user (`metrics.service.ts:483`),
a merge that is cut short (`users.service.ts:341`).

### Not modelled

`src/execution-history`: its two upserts have no caller, and the rest reads.
`src/analytics/analytics.service.ts`: sums and pages over executions and balance
updates; it changes nothing, and no other part reads what it answers. Guards,
strategies, DTOs, filters, module wiring: stateless checks before a handler, which
the calls of the models have passed. `createSubscription`,
`validateOrCreatePlatformUser` and `reconcileExecutionFromHistory` have no caller.
OAuth with Discord, mail transport and templates, and the HTTP client of
NOWPayments are remote: their outcomes are inputs or failures of the actions.
