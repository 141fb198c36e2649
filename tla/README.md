# A TLA+ model of the DJOSSI API

DJOSSI (`src/`) is a NestJS backend over one PostgreSQL database: clients book
informal-service providers, pay them, talk to them, review and report them.
Every request is an asynchronous handler that issues a few database statements;
between two `await`s any other handler, webhook or timer may run, on this
instance or on another one. There are few transactions and hardly a conditional
update, so what is hard in this code is never one statement: it is what a
handler still believes when its next statement runs. That is what these modules
model.

## 1. Inventory

Each line: the state a component keeps, what changes it, what makes it hard,
and what makes it correct. File names are relative to `src/src/`.

| Component | State | Operations that change it | Hard | Correct when |
|---|---|---|---|---|
| **Bookings** `modules/bookings` | `bookings.status`, `completed_at`, `providers.missions_done` | `create`, `updateStatus` | status checked on a row read earlier, written by id alone; two completions at once; date, counter and status written by different actors | the history follows the state machine; completions are dated and counted; only the provider starts and completes |
| **Payments** `modules/payments` | `payments.status`, `bookings.status` | `init`, `checkout`, webhook, callback, mock page | repeated and late reports; payment and booking updated by separate statements; a crash in between; rows left behind by a failing gateway | a payment is settled once, by one handler, told once, for ever; a paid deposit confirms its booking |
| **Payment gateways** `integrations/payments-gateway` | mock timers in memory | `initiate`, `createCheckout` | timers lost by a restart; a session that exists though its caller saw an error | an accepted payment is settled in the end |
| **Auth** `modules/auth` | `otp_codes`, `refresh_tokens`, `users` | `send`, `verify`, `register`, `rotate`, `revoke` | count/insert and check/consume races; two rotations of one token; the revocation of all sessions against a rotation in flight | attempts, codes and exchanges of a token exceed their limits by the handlers in flight at most, and a revocation of all sessions misses no more than these; what was rotated is revoked; one account, of a verified number |
| **Guards** `common/guards`, **timeout** `common/interceptors` | none | none | the account status is read when the request starts; a request answered 408 goes on writing | a suspended account stops writing |
| **Reviews** `modules/reviews` | `reviews`, `providers.rating_avg/count` | `create` | the aggregate is read in a READ COMMITTED transaction | the rating counts its last review, and loses others only to overlapping transactions |
| **Reports** `modules/reports` | `reports`, `users.status` | `create` and auto-moderation | thresholds on a count, decided on a status read before; a count that misses its exact value | sanctions rest on distinct reporters, enough reporters mean a sanction |
| **Messaging** `modules/messaging` | `conversations`, `messages` | `createConversation`, `sendMessage`, `listMessages` | creation dates and commits in different orders; marks go further than the page | a listener misses nothing; what is marked read was counted by a listing |
| **Realtime** `realtime` | rooms of sockets | connect, subscribe, domain events, disconnect | events out of order with the writes, or missing; a socket joins its rooms late | pages and events together are complete |
| **Support** `modules/support` | tickets, messages | `createTicket`, `reply` | writes back the status it read | a reply reopens an ended ticket, the agent's decision stands otherwise |
| **Users, provider profile** `modules/users` | `users`, `providers`, services, photos, stored files | `setAvatar`, `create`, `update`, portfolio, `updateMe` | KYC flags merged from a stale read; lists replaced in overlapping transactions; limit of 12 photos; one file shown by two rows | verified iff both KYC flags; every URL shown has its file |
| **Storage, push, SMS adapters** `integrations` | stored files | `save`, `delete` | best-effort deletion | see the profile |
| **Lists** (`list`, `history`, `search`, `listForProvider` of five modules, `common/dto/page.ts`) | none | none | page and total are two statements, the rows move between pages, rows of equal dates have no order | a list that only grows is shown completely, but for rows of equal dates; a walk ends |
| **Notifications, devices** `modules/notifications` | `notifications`, `devices` | `notify`, `markRead`, `readAll`, register/unregister | failures are swallowed | a settlement tells once, see the payments |
| **Favorites** `modules/favorites` | `favorites` | `add`, `remove` | nothing between two statements | unique pair |
| **Catalog** `modules/catalog` | none | none | constant tables and reads | |
| **Seed** `prisma/seed.ts` | every table | `seedDatabase` | a run that stops half-way, rows that the server created, changed or deleted in between | a run that ends has seeded everything, ratings are those of the reviews |
| **Common utilities** `common/utils` | none | none | pure functions of strings and reals | |

Interactions: a booking action calls `NotificationsService.notify` and emits a
domain event that the realtime gateway pushes; a settlement writes the payment
*and* the booking and notifies both parties; reviews need a completed booking;
reports change the account status that the guards read; the provider profile
and the user share avatar files; a message is stored by one service, emitted by
the gateway and read back by pages; every list is read with the same page
helper.

## 2. Modules

| Module | What it is |
|---|---|
| `BookingStatusMachine` | the transition table, a pure module |
| `BookingLifecycle` | abstract specification: the history of a booking |
| `BookingPayments` | `BookingsService`, `PaymentsService`, both gateways and the notifications they send, over one database |
| `Sessions` | `OtpService`, `TokenService` and `AuthService`: one phone number, from its codes to its refresh tokens |
| `Ratings` | abstract specification: what the reviews promise of a rating |
| `Reputation` | `ReviewsService`, `ReportsService` and `ActiveUserGuard`: one provider, the account statuses |
| `Profiles` | `UsersService.setAvatar`, `ProviderProfileService` and the storage adapters: one account, its profile and its files |
| `Messaging` | `MessagingService`, `RealtimeGateway` and `SupportService`: one conversation, one socket, one ticket |
| `Listings` | page by page through any of the paginated lists while other requests change it |
| `Seeding` | `seedDatabase`, stopped and repeated, and the server between two runs |
| `MCBookingPayments`, `MCSessions`, `MCReputation`, `MCProfiles`, `MCMessaging`, `MCListings` | the instances TLC checks |
| `BookingPaymentsProofs`, `SettlementProofs`, `SessionsProofs`, `ReputationProofs`, `ProfilesProofs`, `MessagingProofs`, `ListingsProofs`, `SeedingProofs` | the theorems |

The modules share the rows that one component only reads from another: the
status of a booking is a variable of `BookingPayments`, and `Reputation` keeps
of it whether the booking is before, at or after `completed`, because that is
all a review asks; the notification that follows a message is the one of
`BookingPayments`. No other two modules write the same row.

### `BookingPayments` and the code

A *worker* is a handler in flight. `task[w]` holds the statement it executes
next and everything it has read so far; `Idle` means its request was answered.
One action is one awaited database statement (or one gateway call) with the
code that follows it up to the next `await`. The number of workers bounds how
many handlers overlap, not how many requests are made: a worker that is done
takes another request. A request that an early return or an exception stops
before its first write changes nothing, so its condition is the guard of the
first action and not a step.

| Code | Actions |
|---|---|
| `BookingsService.create` | `CreateBooking`, `TellBooking` |
| `BookingsService.updateStatus` | `ReadForUpdate` (`findOwned` and the assertion), `CompleteMission` (the `$transaction`) or `WriteStatus`, `TellBooking` (notify, then the event) |
| `PaymentsService.init` | `ReadForInit`, `CreatePayment`, then `InitiateSettles`, `InitiateArmsTimer` or `InitiateRejected` |
| `PaymentsService.checkout` | `ReadForCheckout`, `CreatePayment`, `CreateCheckout` |
| `applySettlement` | `ApplySettlement` (the `updateMany`), `SettleRead` (`findUnique`), `SettleConfirm`, `TellPayer`, `TellProvider` |
| its callers | `TimerFires`, `HandleWaveWebhook`, `HandleCallback`, `ConfirmMockCheckout`, and `InitiateSettles` inside `init` |
| faults | `DatabaseError` (a statement rejects and its handler throws), `TimerFails` (the same in a timer, where the error is logged), `Restart` (handlers in flight and mock timers are lost), `Notify` losing a notification |

Abstractions. Rows are identified by members of small sets; their foreign keys
are written once by the insert and never updated, so they are constant
functions of the id (`ClientOf`, `ProviderOf`, `BookingOf`). A payment method
matters only as `cash` or not, a phone number only in the outcome it makes the
mock report. Notifications are a set: a repeated one is seen by what a handler
is about to send, which is how `PaymentToldOnce` is stated. `visited` is a
history variable; only properties read it. `known` holds the references that
reached the payment provider: only those can come back in its calls, while the
payer of a mock payment sees its reference in its history. "Authentic" is the
guard of the webhooks: signatures and secrets are not modelled, nor are amounts,
texts, `cancelReason`, dates or the reads `list`, `detail` and `history`.
The providers and accounts a booking names exist for good. The account status
guard is modelled in `Reputation` (`Admitted`).

### `Sessions` and the code

The same conventions: workers, tasks, one action per statement. Every `where` of
the three services names a phone, its user or one row of theirs, so the module
follows a single number. The account is a Boolean (`users.phone` is unique) and
starts absent: seeded accounts begin further along.

| Code | Actions |
|---|---|
| `OtpService.send` | `SendCount`, then the transaction as `SendBegin` (what its `updateMany` sees) and `SendCommit` (when its writes become visible); the SMS adapters never throw |
| `OtpService.verify`, `AuthService.verifyOtp` | `VerifyRead`, then `CountAttempt` or `ConsumeCode`; `VerifyDevCode` for the code of a development build; `FindUser`, which answers a registration token or goes on to `IssueToken` |
| `RegistrationTokenGuard`, `AuthService.register` | `RegisterRead`, `CreateUser`, `IssueToken` |
| `TokenService.rotate` | `RotateRead`, then `RevokeAll`, or `RevokeOld` and `IssueToken` |
| `TokenService.revoke` (logout) | `Logout` |
| time and faults | `CodeExpires`, `HourPasses`, `RegistrationExpires`, `TokenExpires`; `Abort` (a statement rejects or the server stops) |

Abstractions. A code is a number, its rank in creation order, because the code
reads only its age, its attempts and whether it is consumed; a presented code is
right or wrong. Locks inside the transaction of `send` are left out: they delay a
statement, and the model allows every order the delay allows. A refresh token is
a row of a small set. An access token is not stored anywhere: whoever logged in
may log out. `proven`, `origin`, `lineage` and `swept` are history
variables.

### `Reputation` and the code

One provider with several bookings, and users who report each other.

| Code | Actions |
|---|---|
| `JwtStrategy.validate` and `ActiveUserGuard` | `Admitted`, the guard of `RequestReview` and `RequestReport` |
| `ReviewsService.create` | `RequestReview`, `FindBooking` (`findUnique` with the review), then the transaction as `InsertReview`, `Aggregate` (what the `aggregate` sees, READ COMMITTED) and `CommitReview` |
| `ReportsService.create` | `RequestReport`, `FindReport`, `InsertReport` |
| `applyAutoModeration` | `CountReporters`, `ReadTarget`, `Sanction` |
| the rest of the program, faults | `BookingMoves` (bookings complete and are overwritten, as `BookingPayments` allows), `Abort` |

The insert of a review waits as long as an open transaction holds the same unique
key (`KeyFree`), and the update of the provider holds its row until the commit,
so that aggregates take effect in the order of the commits. The rating is the
*set* of reviews it stands for: average and count are functions of it.
`overlaps`, `late` and `cut` are history variables, `published` is one in so far
as the columns hold only its sum.

### `Profiles` and the code

| Code | Actions |
|---|---|
| `UsersService.setAvatar` | `SaveAccountAvatar`, `ReadAccountAvatar`, `SetAccountAvatar`, `DeleteFile` |
| `ProviderProfileService.setAvatar` | `ReadProfileAvatar`, `SaveProfileAvatar`, `SetProfileAvatar`, `DeleteFile` |
| `create` | `RequestProfile`, `CopyAccount` (reads the avatar of the account), `CreateProfile` |
| `update` | `RequestUpdate` (reads the row and merges the flags), then `UpdateProfile`, or with a list of services the transaction as `ReplaceServices` (what `deleteMany` sees) and `CommitUpdate` |
| `addPortfolioPhotos` | `CountPhotos`, then `SavePhoto` and `InsertPhoto` for each file |
| `removePortfolioPhoto` | `ReadPhoto`, `RemovePhoto`, `DeleteFile` |
| `StoragePort` | `Save` (a fresh name), `Delete` (best effort: it may do nothing) |
| faults | `Abort` |

A photo is its file, a service its label (unique per provider). What a request
says is drawn at the statement that uses it. `submitted` and `copied` are
history variables.

### `Messaging` and the code

| Code | Actions |
|---|---|
| `createConversation` | `CreateConversation` (an upsert) |
| `sendMessage` | `SendMessage` (the insert draws `created_at`), `CommitMessage` (message and `last_message` become visible), `Emit` (`emitMessageCreated` to its rooms) |
| `listMessages` | `ListNextPage` or `ListMessages` (page), `CountMessages` (total and `has_more`), `MarkRead` (`updateMany`) |
| `RealtimeGateway` | `Connect`, `Join` (of the user's room by `handleConnection`, of the conversation by `subscribeConversation`), `Disconnect` |
| `SupportService` | `CreateTicket`, `ReadTicket` and `CommitReply` (the transaction of `reply`) |
| whoever answers the tickets (external) | `SupportDecides` |
| faults | `Abort`, `Disconnect` |

Messages are numbered by `created_at`; commits come in any order. Two messages of
the same millisecond are not modelled: `listMessages` orders by `createdAt` alone
(`messaging.service.ts:106`), so the pages may then repeat one and skip the other. The listings
that are followed page by page are those of the user whose socket is modelled
(`walk`); of other listings only the marks matter. Two users are on each side of
one booking; a conversation of other participants meets this one in no statement.

### `Listings` and the code

All paginated reads have the same three parts: `findMany` with an order, `skip`
and `take` (`ReadPage`), `count` in a second statement of the `$transaction`
(`CountRows`) and `buildPage` (`HasMore`). `ListBookings`, `ListPayments`,
`ListReviews`, `ListNotifications` and `SearchProviders` are the five instances;
`Insert`, `MarkRead`, `MarkAllRead`, `UpdateStatus`, `MatchProvider` and
`RankProvider` are what other requests do to the rows in between. The default
isolation level of PostgreSQL is READ COMMITTED, so page and total may see
different rows although they are in one transaction. The lists of bookings,
payments, reviews and notifications are ordered by `createdAt` alone
(`bookings.service.ts:109`, `payments.service.ts:261`, `reviews.service.ts:114`,
`notifications.service.ts:76`), the search by figures that providers share: any
rows may tie, and rows of equal rank come in any order, in each query anew
(`Pages`).

### `Seeding` and the code

The upserts of `seed.ts` by table, in its six stages. `Earlier` is the order of the
statements in the code: those of a loop body, and the demo rows one after the
other; a statement is issued once they are through (`Due`), whatever the tables
hold. Whether it succeeds is decided by the database: `Parents` are the foreign
keys of the schema, and a statement that lacks one of these rows or meets a taken
unique key is `Refused` and ends the run. A run may also stop anywhere and be
repeated. In between, `Take` and `Review` create rows under a unique key of the
seed, `Edit` changes rows, and `ReplaceServices` deletes the services of a
provider and creates those of a request (`provider-profile.service.ts:117-127`): no
other statement of the server deletes a row of the seed. The tables of the seed
are constants that meet `SeedData`.

## 3. What is checked

Deadlock checking is off in every run because the single booking, its
references, the codes, the tokens, the names of files or the messages run out,
or the walk ends: the instance, not the server, stops.

| Run | Bounds | Shows |
|---|---|---|
| `core_wave` | 1 booking, 2 payments, 2 workers, Wave, restarts and database errors | `ActsOnHistory`, `MissionsInOrder`, `CompletionDated`, `MissionsCounted`, `SettledIsFinal`, `ProviderStartsAndCompletes`, `ImplementsLifecycle` |
| `settlement_faults` | 1 payment, 2 workers, mock with timers, all faults | `SettlersAgree`, `SingleSettler`, `PaymentToldOnce` |
| `core_mock` | 1 payment, 2 workers, mock with timers, no faults, fairness | `PaidNotLeftPending`, `DepositConfirms`, `TimersSettle` |
| `sessions` | 2 workers; either 3 codes, 2 attempts, 1 code per hour and no token, or 4 tokens entered by the development code | `AttemptsBounded`, `CodesPerHour`, `FewActiveCodes`, `RotatedIsRevoked`, `ExchangesBounded`, `SweepMissesFew`, `OneRegistration`, `AccountsProven` |
| `reputation` | 2 workers, 2 bookings of one provider, 3 users of whom one is reported, thresholds 1 and 2 | `ReviewedWasCompleted`, `LostOnlyToOverlap`, `SanctionsJustified`, `ThresholdsApplied`, `DuplicatesBounded`, `SuspensionBites`, `ImplementsRating` |
| `profiles` | 2 workers, 3 files, 3 lists of one service each, limit of 1 photo, 1 file per upload | `BadgeEarned`, `FewLists`, `PhotosBounded`, `PhotosHaveFiles`, `AvatarsHaveFiles` |
| `messaging` | 3 workers, 2 messages, pages of 1, 1 socket, 1 ticket | `NothingMissed`, `ReadWasListed`, `LastIsNewest`, `TicketFollows` |
| `listings` | 4 rows, 4 dates or ranks, 2 changes during a walk, pages of 2, fairness | `HistoryComplete`, `PagesAddUp`, `WalkEnds` |

Four more runs expect a violation, see below.

Why these bounds are enough to meet the hard cases: every race of this code is
between two handlers over one booking or one payment (a check in one, a write
in the other), hence two workers; a third write by a third request still
happens, since workers are reused. Two payments let an early settlement of one
meet the late one of the other on the same booking. Payments never meet each
other's rows and bookings neither, so a second booking adds only
interleavings. In Wave mode `init` is always rejected and `checkout` is
hosted; in mock mode timers, immediate settlements and the mock page exist: the
two modes need runs of their own. `AutocompleteMs` is 10 or 0, and only its
being zero matters.

`Sessions` is checked in two halves (the constraint `CodesOrTokens`), because
codes and tokens meet only in
`FindUser`: what a login or a registration does next does not depend on which
code opened it. The limits are scaled down (5 attempts to 2, 3 codes an hour to
1) so that with two workers they are reached and passed by the race; three codes
let a send see the two that overlapping sends left active. Four tokens are the
chain, or the fork, of one login and three exchanges, one more than
`ExchangesBounded` allows from a single token, and the fork that two handlers make
of a swept token.

In `Reputation` the thresholds are one below those of the code, so that two
reporters reach the second and the skipped warning, the stale warning and the
duplicate report all happen with two workers; the proofs are for any threshold
of the warning. Two bookings are the least that makes two reviews overlap, and a
lost review be repaired by nothing else. In `Profiles` one photo is the limit and
one file an upload, so that the second handler passes it; three lists let two
overlapping updates add up and a third replace both. `Messaging` needs three
workers: two messages on their way while a page is between its statements; the
conversation and the ticket share only the workers, so their states are not
combined (the constraint `OneThread`). In `Listings` four rows fill two pages,
the last of them exactly: what an off-by-one of `HasMore` needs; two changes can
move a row out of the page to come and another one in. Four dates let the rows be
all distinct, all equal or anything between; the rankings a walk begins with are
sorted (`SortedRankings`), as rows are interchangeable and any of them listed.

The properties, against the hazards of `PROJECT.json`:

- `MissionsInOrder`, `ActsOnHistory`, `ImplementsLifecycle`: whatever stale
  status a handler acts on, it is one the booking really held, so a booking is
  never started unless it was confirmed nor completed unless it was started.
  This is the strongest statement about the order that holds: the *next*
  status need not follow from the *current* one (see the next section).
- `CompletionDated`, `MissionsCounted`: the transaction of a completion keeps
  date and counter with the history even when a late writer overwrites the
  status afterwards. The counter may exceed the number of missions, see below.
- `ProviderStartsAndCompletes`: no settlement and no client makes a booking
  `in_progress` or `completed`.
- `SingleSettler`, `SettlersAgree`, `PaymentToldOnce`, `SettledIsFinal`: the
  `where status = 'pending'` of `updateMany` elects one handler among all
  reports, and everything told later agrees with the outcome it stored.
- `PaidNotLeftPending`, `DepositConfirms`, `TimersSettle`: without faults, the
  elected handler reaches the booking.

- `AttemptsBounded`, `CodesPerHour`, `FewActiveCodes`, `ExchangesBounded`: every
  limit of the authentication is checked on something read before. What holds is
  that each is exceeded by fewer than the handlers in flight, and the model says
  so exactly: each of these bounds is reached.
- `SweepMissesFew`: a replayed token, or a logout that names no session, revokes
  the sessions that are there. A rotation that had read its token before goes on
  and inserts a pair that nobody revokes; one for each other handler at most.
- `RotatedIsRevoked`: the old token is revoked before the new one exists, in
  that order, so a stop in between loses a session and never leaves two.
- `OneRegistration`, `AccountsProven`: the unique key decides between
  registrations, and a stale registration token opens nothing once an account
  exists.

- `LostOnlyToOverlap`, `ImplementsRating`: a rating counts the review that was
  committed last, no review that is not there, and misses only those whose
  transactions overlapped the one it counts. `ReviewedWasCompleted`: stale
  writers may overwrite the status afterwards.
- `SanctionsJustified`, `ThresholdsApplied`: no sanction without enough
  different reporters, and enough reporters mean one, once the handlers that
  moderate are done. That it is the one of the threshold is not promised, see
  the end of this section. `cut` excepts the reports whose moderation was lost.
- `DuplicatesBounded`: a null `booking_id` makes no key unique, so a user may
  report the same user once for each handler in flight; with a booking, once.
- `SuspensionBites`: what the guard let in before the suspension is still
  written, one row for each handler in flight, and nothing more (here of reviews
  and reports, which the same guard admits as everything else).
- `BadgeEarned`: whatever stale flags an update merges, the badge is that of the
  flags beside it, and no flag is set that no request ever declared.
- `FewLists`: the services are a union of whole submitted lists, at most one for
  each handler in flight.
- `PhotosBounded`: the limit is exceeded by the uploads of the other handlers
  at most. `PhotosHaveFiles`, `AvatarsHaveFiles`: rows leave before files go, so a
  URL that is shown has its file; an avatar that the profile has copied from the
  account is the exception, either side may delete it.
- `NothingMissed`: a socket that was in a room before its user began to walk
  through the pages has every incoming message in a page or in an event, even
  though commits are not in the order of `created_at` and every offset moves.
- `ReadWasListed`: a message is marked read only after a listing of its recipient
  counted it, or while one was between its statements.
- `LastIsNewest`: the list of conversations shows the newest message, unless
  the two transactions overlapped.
- `TicketFollows`: a reply reopens an ended ticket, and the agent's decision
  stands unless a reply was in flight when it was taken.
- `HistoryComplete`, `PagesAddUp`, `WalkEnds`: a list whose rows only come is shown
  completely, wherever they come, but for rows that share their date with another
  one; in all of them the rows that a walk missed are
  balanced by those it repeated, or showed and that have left; and `has_more`
  ends every walk once the list has come to rest, never one too early.

Fairness (`FairSpec`): weak fairness of each worker's next statement, because
every `await` of a handler resolves; strong fairness of each timer, because the
event loop runs a due timer whatever else it does (the free worker that
`TimerFires` asks for is a bound of the model, and other requests may keep
taking it). Nothing obliges a client, a page or Wave to call. In `Listings`,
weak fairness of `Ask`: the client whose walk is followed asks on as long as
`has_more` says so, and the database answers; the changes of the list are
bounded by `MaxChanges`, for a list that grows for ever can be walked for ever.

### Expectations the code does not meet

| Run | What the repository says | What the run shows |
|---|---|---|
| `double_completion` | a completed mission increments `missions_done` (README, e2e test "+1 mission") | two requests that both read `in_progress` count one mission twice |
| `stale_settlement` | the deposit takes the booking "pending → confirmed" | the update runs on a booking that has become something else, cancelled included |
| `lost_confirmation` | the webhook settles idempotently, and the deposit confirms | a stop between the two updates leaves a paid booking pending, and every repetition is "already processed" |
| `silent_settlement` | `booking.updated` follows each change of status | a confirmation by deposit emits nothing |

Other things a reader might expect and the properties above show, by their
exceptions, not to be promised:

- three reports suspend (`reports.service.ts:13`): a handler that has
  counted two may write `warned` over the suspension of a later one, and the
  warning is skipped when two reports are stored before either is counted;
- the rating is "toujours exact" (`reviews.service.ts:73`): not for reviews in
  overlapping READ COMMITTED transactions, until the next review repairs it;
- a list of services "remplace la liste" (`provider-profile.dtos.ts:119`): two
  updates that overlap leave the union;
- `listMessages` marks every incoming message read, beyond its page;
- a reply writes back the ticket status that it read (`support.service.ts:101`);
- a client that lists before its socket has joined a room may miss an event, and a
  socket in both rooms gets an event twice;
- the pages of a list repeat or skip rows of equal dates (the bookings that the seed
  gives one client, `seed.ts:332-346`), and those of the search providers of equal
  rank, even when nothing changes: no `orderBy` ends in a unique column; the
  exception `Tied` of `HistoryComplete` is needed, without it TLC finds the walk
  that misses a row; and pages of unread notifications skip rows when earlier
  ones are marked read;
- a seed that is "100 % idempotent" (`seed.ts:3`) does not complete once a row of
  the application holds a phone or a profile of its own, and writes the rows of
  providers and missions back over what the server has changed, the services that
  a provider has given up among them.

## 4. What is proved

For every value of the constants, under the assumptions the modules name:
`TablesAssumption` (foreign keys point into their tables, in `Reputation` also that
workers and users are finitely many) and `ConfigAssumption` (the environment is one
that `env.ts` accepts); `BoundsAssumption` of `Sessions`, `Listings` and
`Messaging`; `RowsAssumption` and `RankingsAssumption` of `Listings` (finitely many
rows, ranked by numbers); `ThresholdsAssumption` (the suspension asks for one reporter more than
the warning); `WorkersAssumption` of `Profiles` (some handler, and finitely many:
with none the limit of photos would be bounded by less than itself);
`FilesAssumption`, `LimitsAssumption`, `UsersAssumption`. Each
module has its theorem of types (`Spec => []TypeOK`), inductive by itself; it
matters because a task's fields depend on its step: each statement finds what it
reads.

About `BookingPayments`:

1. `TypeCorrect`: `Spec => []TypeOK`.
2. `HistoryCorrect`: `Spec => []ActsOnHistory`. `MissionsInOrder` is not
   inductive: nothing in it says that a pending `write_status` had a good
   reason. `ActsOnHistory` says so (its `from` is in the history and
   `TransitionAllowed` takes it to its `to`) and is inductive, because
   histories only grow (`HistoryGrows`) and pending writes only appear in
   `ReadForUpdate` and `SettleRead` (`NewWriters`).
3. `LifecycleImplemented`: `Spec => ImplementsLifecycle`. By `StatusWriters`
   four actions write a status; under `ActsOnHistory` each is an `Open` or an
   `Advance` of the abstract specification, and all others stutter
   (`LifecycleStep`).
4. `OrderCorrect`: `Spec => []MissionsInOrder`, from that step lemma: an
   abstract step keeps the order.
5. `SettlementCorrect`: `SettlersAgree`, `SingleSettler` and `PaymentToldOnce`
   are inductive only together. A second settler cannot be elected because the
   first one's payment is no longer pending (`SettlersAgree`); a notification is
   not repeated because its sender is alone (`SingleSettler`). `OneSettler`,
   `ToldOnce` and `SettlersAgreeCorrect` follow.
6. `SettledForEver`: `Spec => SettledIsFinal`: the only write of a payment after
   its insert is conditional.
7. `CompletionDatedCorrect`, inductive with the lemmas that one action alone
   enters `completed` (`CompletionWriters`), and `MissionsCountedCorrect`: the
   missions of a provider are finitely many at any time, though the bookings need
   not be, and a completion adds one of them at most while it adds one to the
   counter (`MissionsCountedInv`, `MissionsCountedStep`).
8. `ProviderStartsCorrect`, an action property: by `RolesHeld` the role with which a
   pending write was allowed is the one of its user, and only the provider's
   leads to `in_progress` and `completed`.
9. `PaidNotLeftPendingCorrect` needs that a booking exists before its payments do
   (`OpenedForBooking`) and names the handler that is to confirm a paid one
   (`PaidHasConfirmer`): without faults it goes on until the booking is no longer
   pending, and nothing makes it pending again (`PendingOnce`).

About `Sessions`, for any numbers of workers, tokens and codes:

10. `RotationCorrect`: `Spec => []RotatedIsRevoked`. The invariant adds that a
    handler about to insert a token has already revoked everything the token
    comes from; it is kept because revoked tokens stay revoked (`RevokedStays`).
11. `RegistrationCorrect`: `Spec => []OneRegistration`. The insert and the session
    it opens are two statements, so the invariant counts handlers in flight and
    tokens together: at most one of them is of a registration, none before the
    account exists.
12. `AccountsCorrect`: `Spec => []AccountsProven`. Each handler carries what it has
    established so far (a verification, an account, a row it read); nothing takes
    these back, so a late step is as justified as an early one.
13. `AttemptsCorrect`, `CodesPerHourCorrect`: the handlers about to count an attempt, or
    to store a code, are counted with those that did. The first of them passes the
    check below the limit, and the others are fewer than the workers.
14. `FewActiveCodesCorrect`: active codes are not bounded by what is in flight, for
    they stay after their handler is done. `OwnerInv` gives each a worker of its
    own, the one whose send committed it: the next send of that worker begins after
    this commit, hence sees the code and consumes it.
15. `ExchangesCorrect`: lineages are closed and without cycles (`ClosedInv`), so a
    token is exchanged by the pairs whose lineage ends in it; these and the handlers
    about to insert one are counted together (`ExchangesInv`, `HandedOver`), and a
    revoked token adds none.
16. `SweepCorrect`: what was swept stays revoked (`SweptInv`), so after the sweep no
    handler begins a rotation of it; those that had are counted with the pairs they
    insert (`SweepInv`), and the handler that swept is not one of them.

About `Reputation`, for any workers, users, bookings and any threshold:

17. `ReviewsCorrect`, with `LossesExplained`, `OnlyCompletedReviewed` and
    `RatingImplemented`: the invariant `ReviewInv` says of the open transactions
    that they hold different keys and that every two of them are on record as
    overlapping (`HoldKeys`), and of an aggregate that whatever it missed was
    committed while its transaction was open (`SeenIsPast`). Under it a commit is a
    `Publish` of `Ratings`, and every other step stutters.
18. `ModerationCorrect`, with `SanctionsCorrect` and `ThresholdsCorrect`: reports
    only come, so a count stays a lower bound (`CountsHold`) and a sanction in
    flight is justified by it; and when enough reporters have met no sanction
    yet, a moderation that will write one is on its way (`SanctionDue`), namely that
    of the last report, whose count sees all the others.
19. `DuplicatesCorrect`, `SuspensionCorrect`: the rows stored and the handlers about
    to store one are counted together. `FindReport` adds a handler only as long as
    there is no row, `Admitted` one only as long as there is no suspension, and a
    write turns a handler into a row.

About `Profiles`, for any files, lists and limits:

20. `BadgeCorrect`: what an update has merged was declared, and declarations stay.
21. `ServicesCorrect`: an invariant with a ghost `own`, the list that each handler's
    last commit left, from which the rows of overlapping transactions add up.
22. `PhotosCorrect`, `AvatarsCorrect`, from `FileInv`: a file is in the hands of one
    handler or named by the rows of one kind, and one that a handler will delete is
    named by no row; the copy of `CreateProfile` is the one exception.
23. `PhotosBoundedCorrect`: each handler has a slot, of the files it may still insert
    (`Slots`); photos and slots together exceed the limit by the slots of the others
    at most (`PhotosInv`), for the count that opens a slot is of photos below it.

About `Messaging`, for any number of messages and any page size:

24. `WalkCorrect`: messages are never removed, and a late commit only moves others
    further down; so a message that has no event heard, to come or lost was
    shown, or has at least `walk.next` messages before it (`WalkInv`).
25. `ReadCorrect`, `LastCorrect`, `TicketCorrect`: what a handler has read is either
    still so or was overtaken by a step that the history variable records.

About `Listings`, for any rows, page size and bounds:

26. `WalksAddUp`: the offset is the number of rows shown plus that of the repeats
    (`Added`), and when `has_more` turns false it is no less than the total.
27. `HistoriesComplete`: an insert moves the rows of a growing list back only; one
    that was there at the beginning and that no other row ties with has been shown,
    or has at least the offset's number of rows of earlier rank ahead of it
    (`Behind`, `PageAhead`). Dates may tie, so the theorem says nothing of the rows
    that do.

About `Seeding`, for any tables that meet `SeedData` (categories, clients,
providers and missions that the seed's rows name are those of the seed; an
assumption of the theorems and not of the module). This
module is proved about and not run: what it says does not depend on how the rows
of a stage interleave, and the proofs cover every table.

28. `RatingsCorrect`, `OrderOfStages`, `RunsSeed`, `ServicesLeave`, from `SeedCorrect`:
    what a run has upserted is there while it runs, or another row in its place,
    and afterwards but for services of providers (`Upserted`), the stages behind it
    are done (`InStage`), and the ratings that have been computed again are those of
    the reviews (`Rated`). For `OrderOfStages`, `ParentsDone` goes through the stages:
    what a statement refers to was upserted in an earlier stage or earlier in its
    loop body.

Every invariant, action property and refinement of the passing runs is stated by
one of these theorems. Only model-checked: `DepositConfirms`, `TimersSettle` and
`WalkEnds`, because liveness under fairness, like everything that involves
`ENABLED`, is out of the prover's reach; and the four violations, which are
counterexamples and need no proof.

## 5. Plan

What is modelled comes in the order of the importance of what can go wrong:
the life of a booking and its money, the access to accounts, the reputation and
the sanctions, the conversations, the profiles and their files, the lists, the
seed. What is left, in order:

1. An abstract specification of one payment (opened, settled once, told) and one of
   a session (issued, exchanged, swept), with the proofs that `BookingPayments` and
   `Sessions` implement them, as there are for `BookingLifecycle` and `Ratings`.
2. Phone normalisation and the stable jitter of positions as operators against
   reference definitions.

Not modelled, and why. The catalog is constant tables and reads of them;
favorites are one upsert and one delete under a unique key, devices one upsert
and one conditional delete, `updateMe` one update by id: nothing of another
handler fits between their statements. SMS and push adapters send and keep
nothing. Distance, jitter, hashing and phone formats are functions of strings and
reals. Roles, rate limits, filters and the validation of bodies answer or reject
a request before its first statement. Liveness of messages and tickets: nothing
in the code repeats an event or obliges anybody to answer. Amounts, texts,
wording and logging carry no property.
