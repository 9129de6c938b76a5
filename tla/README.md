# Formal model of the low-cost airlines monitor

TLA+ modules, TLC configurations and TLAPS proofs for the Django/Celery application in `src/`:
users subscribe to a route and a date window, a beat process queues hourly polls, workers ask the
airlines for fares, store them, and notify users of changed prices. The models are translated from
the code; where docs and code disagree the models follow the code. Source paths below are relative
to `src/`; `PROJECT.json` maps every definition to its lines.

## The system

| Component | State | Operations | Modelled in |
|---|---|---|---|
| Provider runtime state (`apps/providers/services.py`, `apps/providers/admin.py`, `sync_airline_providers`) | `AirlineProvider` rows: active, cooldown, last poll, failure counter, error | cooldown check and normalisation, slot claim, success, failure, dashboard clean-up, admin form, sync | `ProviderRuntime` |
| Subscriptions and polling tasks (`apps/searches/tasks.py`, `run_subscription`, dashboard views, `src/celery.py`) | `SearchSubscription.status`, `date_to`, the broker's queue, each worker's loaded instance, its place in the list of providers | create, cancel, delete, manual check, admin form, beat, fan-out, run, loop over the providers, expiry, retry, crash | `SubscriptionLifecycle`, composed with the loop in `PollingSystem` |
| Price history (`_persist_results`) | `FareSnapshot`, `PriceChangeEvent` rows, open transactions | read the latest snapshot, store fare and event, commit, roll back, cascade | `PriceHistory`, which implements `PriceWatch` (`PriceRefinement`) |
| Notifications (`apps/notifications`) | queued event ids, retries | `on_commit` queueing, dispatch, retry, loss | `PriceHistory` |
| Accounts (`apps/accounts`) | `RegistrationRequest` and `User` rows, messages of a response | approve, reject, user name, temporary password, profile, password and user forms | `Accounts` |
| Adapter contract (`adapters/base.py`) | outcome of a search | search, return, raise | `AdapterContract` |
| Ryanair adapter | page, attempts, fares collected | page loop, retry, mapping | `RyanairAdapter`, in runs in `ProviderRun` |
| Wizz Air adapter | session, attempts, browser, remembered 429 | bootstrap, retry, browser fallback, `finally`, mapping | `WizzAirAdapter`, in runs in `ProviderRun` |
| Fare identity (`build_fare_identity`) | none | which observations are of one fare | `FareIdentity`, used by `FareMarket` |
| Best offers (`apps/dashboard/services.py`) | none; reads `FareSnapshot` and the calendar | three date windows, the best snapshot of each | `OfferWindows`, `FareMarket` |
| Airport catalogue (`apps/airports`) | `Airport` rows | resolve a text, suggest, edit in the admin site | `AirportCatalog` |
| Form of a new search (`apps/searches/forms.py`) | the form's fields | type, pick a suggestion, clean, save | `RouteForm` |
| Login backend | none | lookup by e-mail or name | not modelled |
| Templates, static files, migrations, deployment | | | not modelled |

How they interact: beat and web requests put messages on the broker; a worker takes one, loads the
subscription and *all* active providers, and goes through the providers one after the other
(minutes pass: HTTP requests, a browser). For each it decides on the loaded copies, claims a slot
with a conditional UPDATE, calls the adapter, persists the fares in a transaction, and marks
success or failure. On commit the ids of the events are queued for a second task. The web
processes write the same rows from forms and from the dashboard.

What is hard: nothing is locked, so everything decided between a SELECT and a save is decided on a
copy; saves list their columns in some places and write whole rows in others; messages are
acknowledged early, so a crash loses a task, and exceptions put it back; the same subscription may
be polled by several workers; notifications leave the database's transaction. What must hold:

- *providers*: polls of a throttled provider stay apart; a failing provider is locked out for a
  bounded time, and left alone while that lasts; failures are counted; a success leaves no rest of an
  earlier failure;
- *subscriptions*: stopped and deleted ones stay so; active ones keep being polled; windows close;
- *prices*: every event is explained by stored snapshots, no new price goes unrecorded, only
  committed changes are notified, and a bounded number of times;
- *fares*: a repricing is recorded as a change of the flight it belongs to, and of no other; the
  dashboard's offers are the best that was seen, in windows that follow the calendar;
- *accounts*: user names are unique, their suffixes are used in order, decisions are final, no account is left with a password
  nobody knows or need not change;
- *adapters*: a search ends, returns everything or nothing, sends a bounded number of requests,
  releases the browser, and its outcome tells the truth about the last answer;
- *airports*: what a user picked is what is subscribed to.

`hazards` in `PROJECT.json` lists the lines where each of these can go wrong.

## Modules

### ProviderRuntime

`db` is the table; `mem`, `pending`, `force`, `stamp`, `pc` are the locals of one
`run_subscription` per worker; `expired` is what a dashboard request found before its UPDATE;
`form` is what an admin page was rendered with. `-1` stands for a NULL time. Every read and every
UPDATE is one action: `StartRun` (load all active providers), `SkipInCooldown`,
`NormalizeCooldown`, `CaptureNow` and `ClaimProviderPollSlot` (the time is taken before the
conditional UPDATE, whose condition is evaluated on the row), `MarkProviderSuccess`,
`SuccessSaveFails` (the success is marked inside the `try` block of the search, so a refused save
becomes a failure counted from a copy that is already reset), `MarkProviderFailure` (written from
the copy), `AbortRun`. The admin form is a plain `ModelAdmin`: it posts every runtime field, each as
it was rendered or as the administrator has typed it (`Posted`: any time of `TypedTime`, any counter
of `TypedCount`, either flag and message). Provider configuration is constant; `force` runs skip the
checks.

Four histories say against what the rows are judged. `lastGrant` is the stamp of the last slot the
throttle has granted; a forced poll that saves an older stamp, or a form with an older time, opens the
slot early, and `SetBack` forgets the grant. `entered` holds the cooldowns administrators have
typed. `streak` counts the failures since the last success, until a form is posted or a worker counts on
from a copy that is no longer true. `overtaken` holds, for each worker and request, the providers whose
failure fields somebody else has written since it read them. The program decides on copies, so nothing
it promises about a cooldown or a counter holds of an overtaken process; the properties hold of
all others, in any interleaving, and name the overtaken ones as the exception.

### SubscriptionLifecycle and PollingSystem

`queue` is the broker's FIFO queue; a message names a subscription or, for the fan-out,
`Everyone`. `LoadSubscription` is the early return and the expiry check of `run_subscription`,
`PollProviders` the time the providers take, `FinishRun` the last save, which writes the status
*as it was loaded*. `save(update_fields=...)` of a deleted row raises (`Saved`, `SaveStatus`), and
`autoretry_for` puts the task back (`Retried`). In the admin form (`AdminSave`) any status and any last
day may be chosen. `last_run_at` and `next_run_at` are written and
never read by the program, so they are left out.

`PollingSystem` extends it with the loop that `PollProviders` stands for: `turn` is what is left of
the list of providers, `calling` the one being searched, `cooling` and `taken` the state of the
providers' rows, and `seen` the cooldowns in the copies the run has loaded before its loop
(`LoadProviders`): a cooldown that begins later does not stop the run, and one of a copy ends with
time (`CopyExpires`), whatever the row says. `SkipProvider`, `ClaimSlot`, `SearchReturns` and `SearchRaises` are the
branches of the loop's body; `EndLoop` is the step of `SubscriptionLifecycle` that the loop
refines. Of the rows only what the control depends on is kept: `ProviderRuntime` has the rest.

### PriceWatch, PriceHistory, PriceRefinement

`PriceWatch` is the promise: a poll's result becomes visible at once, and the changes recorded of a
fare are those between each price and the one before it. `PriceHistory` is the code.

One subscription and one provider. A worker's transaction is `rest`, `latest`, `ownSnaps`,
`ownEvents`; under READ COMMITTED it sees its own rows and what was committed before each SELECT
(`Visible`). `Commit` publishes both tables at once and hands the non-initial event ids to
`toQueue`; `QueueNotification` sends them one by one, and `Crash` and `BrokerFails` may come
between. A column holds two decimals: `Rounded` says what it keeps of an amount, while
`PriceChanged` compares the amount as it came from the adapter. Fare identities are constants here; `Result` is what an adapter may return, the
same identity possibly twice. Notification tasks are `SendSucceeds`, `SendRaises` (before or after the mail was
taken) and `SendLost`. A Telegram user without a chat id (`Reachable = FALSE`) is skipped without
an error. `PriceRefinement` maps the rows in the order of `created_at` to the prices and changes of
`PriceWatch`; `SerialSpec` are the behaviours in which no two transactions are open at once.

`Ordering` defines `Ascending(I)`, the members of a finite set of integers in order. Whatever lists
rows, fares or keys in an order (`InOrder`, `PricesOf`, `Transitions`, `KeyParts`) is stated by the
ascending places that qualify, rather than by sorting or by dropping members of a sequence one by one:
the place of a member is the number of members up to it, and counting can be reasoned about without
induction.

### FareIdentity, OfferWindows, FareMarket

`FareIdentity` is `build_fare_identity` over JSON payloads: the values found under the configured
paths, or deeplink and payload when there are none. `OfferWindows` is the calendar and the windows
of the dashboard, with `DaysBefore` for the days of a year before each month. `FareMarket` puts them around `PriceWatch`: an airline sells flights at changing
prices and takes them off sale, polls store them under their identities, days pass, and
`get_dashboard_offers` reads the snapshots back by date. An answer is sorted by date, flights of
one date in any order (`Listings`). `seen` is a history of what polls saw of
each *flight*, against which identities and offers are judged.

### AirportCatalog, RouteForm

`ResolveQuery` is `resolve_query` with its four lookups in order: a code in brackets, a code, an
exact city or name, a prefix that only one airport has; `FirstFound` is the first of them that
finds anything. Texts are sequences of fragments, so that
one may begin another. `RouteForm` types texts or picks suggestions while administrators edit the
catalogue, then cleans both fields and saves.

### Accounts

A reviewer's admin action is `SelectRequests` (rows loaded once, in the order of arrival), then for
each request `RefuseDecided`, `Reject`, or `FindAccount`, `BuildUsername`, `CreateAccount` /
`UpdateAccount`. `BuildUsername` is one SELECT of the search for a free name, so accounts may come and
be renamed between two candidates. Every decision is a transaction of its own; `todo` holds what is left as positions in the order
of arrival. `web`, `user`, `copy` are a request that loads an account and writes the whole row back:
profile form, password form (two saves), user form of the admin site, in which address, name and flags
may change. `AddAccount` is `createsuperuser` or the form that adds a user; one such account may be there
from the start. Password `0` is any password an owner chose.

A name is the sequence of its parts between hyphens: the regular expression of `_build_username` keeps
digits and hyphens, so the local part `ana-2` and the second candidate for `ana` are one name, and
`Candidate` makes them one. `used` is the history of all names accounts have had, `given` that of the names
approvals gave. Names are never compared inside their parts.

The temporary passwords are only in the messages of a response (`messages`) until it is sent
(`shown`). An exception makes the response a 500, with which the session is not saved: what the
message cookie has room for (`CookieRoom`, because it may hold older messages) is shown on the next
page, the rest is `lost` (`FailReview`), as are the messages of a process that dies (`CrashReview`).

### AdapterContract, RyanairAdapter, WizzAirAdapter, ProviderRun

`AdapterContract` is the abstract specification: a search is under way, then it has returned fares
sorted by date, or raised an error or, where the adapter may, a rate limit. Both adapters are
shown to implement it (`AdaptersImplementContract`), with their variables mapped by `INSTANCE ... WITH`.
Ryanair: the `while next_page` loop with tenacity's three attempts per page; an httpx error is
tried again, a body that is no JSON is not. Wizz Air: two bootstrap visits, three attempts, and on
a final 429 the browser: its booking page, a reload of it, the page once more in a new tab, a reload of
that, and a script, then the `finally` block that saves the storage state and closes the context. The
booking page searches by itself whenever it is loaded, whether or not the adapter waits for the answer,
so all of these loads count as requests (`SentUnread`), also of a tab that times out or
raises. `new_page` is outside the `try` block: when it raises (`NoFirstTab`), the playwright driver ends
the browser. URLs, headers, parameters and the fields of a fare other
than its date are abstracted. `ProviderRun` instantiates both under one run after the other: what an
adapter ended with marks its provider, a failure leaves a running cooldown alone, and the listing
and the configuration may be different at every search.

`MC*` modules only give constants their values; `*_proofs` modules hold theorems.

## What is checked

Every run ends within three minutes on two cores. Bounds are constants of the modules (`Max...`) and appear only in
guards, or in the case of `MaxRetries` and `MaxAttempts` are the program's own limits.

| Run | Shows | Instance, and why it is enough |
|---|---|---|
| `ProviderRuntime` | `TypeOK`, `BoundedLockout`, `SuccessLeavesClean`, `ExactFailureCount`, `SlotSpacing`, `CooldownSuppressesPolling`, `WindowIsKept` | one throttled provider (interval 1, cooldowns 1 and 2), two workers, a dashboard request, an administrator who may also empty a time, type one far ahead, or reset the counter; three runs, forms and refused saves in all (`MaxActs`), clock to 2: a worker can be overtaken by a complete poll of the other, a form posted over a failure, a success and a grant, and the interval and both cooldowns pass within the clock |
| `SubscriptionSafety` | `TypeOK`, `StoppedStaysStopped`, `DeletedStaysDeleted` | one subscription (subscriptions do not touch each other's rows), two workers, one administrator, two retries (the code has 3), two faults, three days, a backlog of two (`MaxQueue`) besides what fan-outs and retries add |
| `PollingLiveness` | `LoopTypeOK`, `WindowCloses`, `ActiveKeepsBeingPolled`, `ProvidersKeepBeingPolled` | one subscription, two workers, both providers with only Wizz Air throttled, two days, a fault, no administrator (who may reactivate a row for ever) |
| `SubscriptionCancelled` | `CancelledStaysCancelled` **violated** | one worker, no faults, a single day, so that nothing expires |
| `ThrottleStarvation` | `FaresKeepBeingSearched` **violated** | two subscriptions, one worker, no faults, under the fairness of `PollingLiveness` |
| `PriceOverlap` | `TypeOK`, `EventsAreExplained`, `NewPricesAreRecorded`, `NotifiesCommittedChanges`, `BoundedDispatch` | two workers, three runs of one or two fares, two prices of two decimals and one that is rounded to the second of them, a fault, one retry |
| `PriceChangesMissed` | `EveryChangeIsRecorded` **violated** | two workers, three runs of one fare, two prices, no faults |
| `PriceSerial` | `ImplementsWatch`, `ChangesAreDispatched` | two workers whose transactions do not overlap (one may still queue notifications while the other stores), two identities, two runs of up to two fares (so up to four observations of one identity), no faults |
| `FareMarket` | `RepricingsAreEvents`, `EventsCompareOneFlight`, `OffersAreBest`, `WindowsMoveOn` | two flights (same day with two keys, one without a key, one key on two days), two prices, four settings of the keys, three polls: a price can change, go away and come back; four days from 30 December, 26 February of a leap year and 30 January |
| `Accounts` | `NoSuffixIsSkipped`, `CredentialsAreShown`, `TemporaryMustChange`, `DecisionIsFinal` | two reviewers, two applicants with the local part `ana`, a third address, three accounts of which one may exist already, the chosen names `ana-2` and `bob`, two temporary passwords (`MaxIssued`), one form of any kind or added account (`MaxForms`), crashes at any point, a cookie with room for no or one message |
| `ProviderRun` | `TypeOK`, `ReturnsWholeListing`, `BoundedTraffic`, `OutcomeMatchesAnswer`, `BrowserIsClosed`, `AdaptersImplementContract`, `RunsEnd` | all listings of up to three pages of up to two fares whose links lead forward; all switches, answers of up to two flights with or without date and price; runs without end, forced or not |
| `RouteForm` | `PickedAirportIsKept`, `CodesComeFirst`, `SharedCitiesAreRefused` | three airports of the seed data whose texts begin one another, edits that deactivate them, give one the city of another, or a city that is called like a code |

`CHECK_DEADLOCK FALSE` is set for ProviderRuntime, PriceHistory, FareMarket and Accounts: there the
bounds (clock and acts, runs, polls and days, passwords and forms) make the system stop. The other runs check for deadlock.

Symmetry is used only in runs without liveness properties, on workers, accounts, reviewers and
applicants that nothing else tells apart.

### Fairness

- `PollingLiveness`, `ThrottleStarvation`: weak fairness of each worker's step, of `NextDay` and of
  the end of each interval and cooldown, strong fairness of `Beat`. Celery workers keep taking
  tasks, a search ends because requests have timeouts, beat sends the fan-out every hour, and only
  the model's bound on the queue can disable `Beat` now and then. Faults are bounded, cancellations
  and manual checks are not assumed to happen.
- `PriceSerial` (`FairSerialSpec`): weak fairness of the workers' steps within `_persist_results` and of
  the notification task. Rollbacks, faults and new runs are not assumed. `NoOverlap`, which the code
  does not guarantee, only keeps a second transaction from beginning, never a worker from finishing.
- `ProviderRun`: weak fairness of the step of a run. The HTTP clients and the tabs have
  timeouts. `page.evaluate` of the Wizz Air adapter has none of its own: that its promise
  settles is an assumption of the run. The listings lead forward: the page loop itself has no
  limit, so an endless or circular `nextPage` would keep a worker for good.

### Where the code and its documents disagree

`SubscriptionCancelled`: a worker loads an active subscription, the owner cancels it, and the run's
last save (`apps/searches/services.py:143`) sets it active again (the last step of the trace is
`FinishRun`), against
`docs/ARCHITECTURE.md:119`. It is also why `StoppedStaysStopped` and `WindowCloses` are stated about
runs that have ended and about days after the window.

`ThrottleStarvation`: the throttle grants one slot per interval to whichever run comes first, of a
fan-out or of a user's check (`apps/providers/services.py:63`), and a run that gets none goes on without
the provider (`apps/searches/services.py:97`). Two subscriptions share Wizz Air's slot (600 seconds by
default), one of them takes it each time, and the other, active all the while, is never searched there.
`docs/ARCHITECTURE.md:113-114` says that a worker picks active subscriptions and executes the polling
service, and that this service "loads active providers and calls their adapters". What does hold is
`ProvidersKeepBeingPolled`: the *provider* is searched again and again, for some subscription.

`PriceChangesMissed`: two runs of a subscription overlap and read the same latest snapshot
(`apps/searches/services.py:153`), say at price 1. One stores price 2 with its event, the other stores
price 1 after it without one, for it compares with what it has read. `docs/DATA_MODEL.md:176` and
`docs/ARCHITECTURE.md:116-117` promise an event whenever a price differs from the previous
observation. What overlapping runs leave of that is `NewPricesAreRecorded`: a price the fare never had
comes with an event.

Where the code decides on what it has read earlier, the properties name the exceptions, and TLC finds
each violated when its exception is dropped:

- `CooldownSuppressesPolling`, `WindowIsKept`, `ExactFailureCount`: processes that were overtaken since
  they read the row (`apps/searches/services.py:87`, `apps/providers/services.py:109`, `:113`, `:136`, `:39`);
  for `WindowIsKept` also a run whose success was not saved (`:87`), for `ExactFailureCount` a form.
- `SlotSpacing`: a forced poll that saves an older time (`apps/providers/services.py:51`), or a form.
- `BoundedLockout`: a cooldown an administrator has typed.
- `StoppedStaysStopped`: a run or a form that loaded the row before it was stopped, and an administrator who
  decides to start it again.
- `DecisionIsFinal`: a second reviewer who had loaded the request while it was pending decides again
  (`apps/accounts/services.py:60`).
- `TemporaryMustChange`: the password form's second save lifts an approval between its two
  (`apps/accounts/views.py:28`).
- `CredentialsAreShown`: a crash, or a 500 response whose cookie is full, takes the messages along
  (`apps/accounts/admin.py:45`).

Two are checked in a smaller world instead: `ImplementsWatch` without overlapping transactions, and
`ChangesAreDispatched` without faults, because ids that were not queued are kept nowhere
(`apps/searches/services.py:197`).

## What is proved

For all values of the constants, with the named assumptions each module states on them, which TLC
evaluates in the runs. Hypotheses beyond those are in the theorems, and named here.

`ProviderRuntime_proofs`

- `TypeCorrect`: `TypeOK` is inductive as it stands.
- `LockoutBounded`: `[]BoundedLockout`. Rows alone are not inductive, for a failure and a form
  write what an older row contained; `WindowsAreAllowed` says the same of rows, copies and forms.
  `StepChanges` splits a step into what it may do to a row and to a copy, `CooldownSources` says where
  a row's cooldown can come from.
- `ThrottleSpacesSlots`: `SlotSpacing`. The invariant `GrantsAreRecorded` says that while there is a
  last grant to count from, the row's `last_polled_at` is at least its stamp.
- `SuccessStaysClean`: `[]SuccessLeavesClean`. It needs nothing about copies: of what writes the failure
  fields only a recorded failure and a form write anything but the clean values, and both end the streak.
- `FailuresAreCounted`, `CooldownIsHonoured`, `WindowStaysKept`: `ExactFailureCount`,
  `CooldownSuppressesPolling`, `WindowIsKept`. Their invariant is `CopiesAgree` with `IdsAreExpired`: as
  long as a worker is not overtaken at a provider, its copy has the row's counter, and the row has the
  copy's cooldown or none, except after a success that could not be saved, which has reset the copy; and
  what a request found expired and nobody has written since still is. No theorem of this module has a hypothesis: they hold of
  any number of workers, requests and administrators, whatever is typed.

`PollingSystem_proofs`, first about `SubscriptionLifecycle`

- `TypeCorrect`: `TypeOK`, strengthened by `TasksAreSound`: a polling task names a subscription,
  and a run past its load holds the status `active`.
- `DeletedStays`: `DeletedStaysDeleted`, and `StoppedStays`: `StoppedStaysStopped`, both from
  `StatusWrites`, which says who can change a status: creation, a cancellation or deletion, an
  administrator's form, or a run that loaded the row while it was active.
- `SystemImplementsLifecycle`: `SystemSpec => Spec`, the loop over the providers refines the step
  `PollProviders`: each step of the system is a step of `SubscriptionLifecycle` or leaves its
  variables unchanged.
- `SystemKeepsStops`: `StoppedStaysStopped` and `DeletedStaysDeleted` of the composed system, from
  that refinement and the theorems above.
- `LoopTypeCorrect`: `LoopTypeOK`.

`Ordering_proofs`

- `AscendingLists` and `OnlyAscending`: `Ascending(I)` lists the members of a finite set in order and
  without a gap, and no other sequence does. Behind them is `MembersAreRanked`: counting gives each
  member a place of its own, and misses none.

`PriceHistory_proofs`

- `TypeCorrect`: `TypeOK`, with `Transactions` (only an open transaction has rows of its own) and
  `RowsArePast` (every row has a `created_at` that has been given out).
- `EventsStayExplained`, `NewPricesStayRecorded`: what is committed is explained by what is
  committed. A commit publishes rows that other commits have joined since they were read, so
  `TransactionsAreExplained` says the same of every open transaction over what it sees
  (`SeenSnaps`, `SeenEvents`), and that the price it has read for its next fare is one it still
  sees. More rows never make an explained row unexplained (`ExplanationsStay`), which is why
  overlapping runs do no harm here.
- `DispatchStaysBounded`: `[]BoundedDispatch`, from `OneHand`: an event is yet to be sent by one
  worker, or in one message whose retries count its dispatches, never both.
- `NotifiesOnlyCommitted`: `[]NotifiesCommittedChanges`, from `QueuesCommitted`: what the callback of
  a commit has still to queue is committed, too.
- `RunsImplementWatch`: `SerialSpec => ImplementsWatch` for any number of workers whose transactions are
  not open at once, which is where it holds, as `PriceChangesMissed` shows, and for amounts a column can
  hold (`Inexact = {}`). Rollbacks, crashes, lost messages and a
  deletion at any moment are included. The invariant `SerialInvariant` has three parts. What a
  transaction sees fits (`Tracked`): every event is that of a row, from the price of the row before
  it, and a row without an event repeats that price. What it has read for its next fare is still the
  price before now (`ReadIsLatest`). Its rows are those of the first fares of its result, one after
  another and after all that is committed (`HasStored`). From the first, `EventsAreTransitions`: the
  events of a fare in order are the changes within its prices; from the last, `RowsOfResult`: a commit
  adds the prices of the result, in its order, to those that were stored. So `CommitObserves`: a
  commit is one `Observe` of `PriceWatch`, and every other step but the deletion is a stutter.

`FareMarket_proofs`

- `OffersStayBest`: `[]OffersAreBest`, for every route, every setting of the identity keys and every
  order of same-day flights in an answer. The invariant `QuotesAreStored` says that day by day the
  history holds exactly the prices at which polls saw flights, whatever identities merged or kept
  apart.
- `RepricingsStayEvents`: `[]RepricingsAreEvents`, and `EventsStayWithOneFlight`:
  `[]EventsCompareOneFlight`. The invariant `FlightInvariant` says that what is stored under an identity
  was seen of one of its flights, that what is stored of a flight no other is taken for
  is exactly what was seen of it, and that the changes of a fare are those within its stored prices.
  `ApartIdentities` and `KeyedIdentity` say which flights share an identity, from `SamePartsSameValues`: the parts
  of an identity tell the values found under the paths. Both rest on the assumption
  `KeysIgnorePrice`: no configured path leads to the price. The seeded keys
  (`apps/providers/bootstrap.py:14`, `:41`) are flight keys, numbers and dates; a key that did hold
  the price would make every repricing a new fare.
- `NoDayIsLost`: `WindowsMoveOn`, from every date of the calendar on. `MonthsFollow` and
  `YearsFollow` show that the first of a month is the day after the last of the month before, in leap
  years and at the ends of centuries, `DaysFollow` that a day's successor has the next ordinal.

`Accounts_proofs`

- `CopiesAgree`: what reviewers and web requests hold is typed and belongs to the account it was loaded
  from, and every account's name is among the names ever used (`Held`).
- `NamesStayDense`: `[]NoSuffixIsSkipped`, by the invariants `UniqueNames` and `Given`. A candidate is passed
  over only when an account has it, and names ever used stay used (`AccountWrites`), so whatever is renamed or
  added during the search, the smaller suffixes have all been names; the unique index refuses a name that was
  taken since.
- `CredentialsReachReviewers`: `[]CredentialsAreShown`. Accounts alone are not inductive, for a form may
  put an old password back; `Credentials` says that passwords in *copies* have been told, too.
- `TemporaryHasToChange`: `TemporaryMustChange`, and `DecisionsStand`: `DecisionIsFinal`, from `Held`.

`ProviderRun_proofs`

- `WholeListingIsReturned`: `[]ReturnsWholeListing`, for listings of any length. The page loop keeps
  no record of where it was, so `Visited` claims a set of pages, each linked to the next, whose
  fares are those collected; that links lead forward (`AdaptersAssumption`) makes each page new.
- `OutcomeFollowsAnswer`, `NoBrowserIsLeft`, `TrafficStaysBounded`: from `WizzAirAnswers` (what is
  remembered at each place of the control tells what was answered last), `WizzAirSearch` (a browser is
  open exactly between its launch and the `finally` block), and `WizzAirLoad` (requests sent by
  each place, page loads included).
- `AdaptersKeepContract`: `AdaptersImplementContract`. Each step of a search maps to a step of
  `AdapterContract` or a stutter, through runs without end; `TurnsAreKept`: `TypeOK`.

`RouteForm_proofs`

- `PicksAreKept`: `[]PickedAirportIsKept`, under `PlainNames`: no city or name an airport is
  ever given contains a code in brackets. The seed migration keeps to that; the admin form does not
  enforce it, and a city called "Milan (BGY)" would make a label mean another airport.
  `LabelsAreUnambiguous` is the invariant: a suggestion's label has exactly one code, its airport's.
- `CodesResolveFirst`: `CodesComeFirst`, `SharedCitiesStayRefused`: `SharedCitiesAreRefused`, for every
  catalogue.

Proof attempts corrected the models in places TLC had passed. `TemporaryMustChange` used to speak
of rows alone and held only because the run has one form; it now speaks of copies as well.
`DayAfter` had a `CASE` with overlapping guards. `SharedCitiesAreRefused` missed a city that itself
contains a code in brackets, which resolves by that code.

Only model-checked: the liveness properties `WindowCloses`, `ActiveKeepsBeingPolled`,
`ProvidersKeepBeingPolled`, `ChangesAreDispatched` and `RunsEnd`. Liveness under fairness is outside
the prover's reach. Of the calendar the theorems use the recurrence of `FirstOfMonth`; that its
ordinals are those of the `datetime` library is an assumption of the model.

## What is not modelled

- Changes of a provider's `config_json` at run time: intervals, cooldowns and keys are constants of a
  behaviour. A configuration that cannot be read would end every run where it is used.
- Deletion of accounts and registration requests, the admin form of a registration request (where
  a status can be set by hand), the fields of the user form that decide nothing here (staff, groups,
  contact; its separate password page), sessions, the login lookup.
- Which of a Wizz Air flight's price and name fields is used; the contents of the browser profile
  and of the saved storage state; the text of messages; currencies other than one.
- The dates of the search form, which nothing compares; a provider that is disabled while a run goes on
  is still polled by it; a 429 of a Wizz Air bootstrap page is a plain error. The models follow the
  code in these, and no document says what should hold.
- In the airport catalogue, the limit of eight suggestions and the two characters they take.
- Clocks that go backwards; database and broker outages other than those named above.
- Templates, static files, schema migrations, deployment: presentation, packaging, and what runs
  once before the program does.

## Plan

Written, in this order: `ProviderRuntime`, `SubscriptionLifecycle` and their proofs, `PriceHistory`,
`Accounts`, `AdapterContract` with the two adapters, `PriceWatch` and `PriceRefinement`,
`AirportCatalog` with `RouteForm`, `FareIdentity` and `OfferWindows` with `FareMarket`,
`PollingSystem` and its proofs, `ProviderRun`, and the proofs of `PriceHistory`, `Accounts`,
`ProviderRun`, `RouteForm` and `FareMarket`, the refinement `ImplementsWatch` for runs that do not overlap,
and the histories by which the properties of `ProviderRuntime` hold for several workers. Left:

1. An abstract specification of `PriceHistory` for overlapping runs: what `PriceWatch` promises each
   transaction about what it saw, in place of `EveryChangeIsRecorded`.
2. An abstract specification of `Accounts`: one decision per request, one credential per account.
