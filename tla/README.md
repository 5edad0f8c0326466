# Verification of twica

twica sells cards for Twitch channel points: a viewer redeems a reward, Twitch
notifies the service, the service draws cards, announces them in the chat and
shows them in a stream overlay.  It runs as a Next.js application on Cloudflare
Workers, with PlanetScale PostgreSQL as the only place for durable data, KV for
short-lived keys and parked notifications, R2 for images, one Durable Object
per overlay room and a cron worker that reports errors and drains what is
parked.  Nothing here has a process of its own that lives on: every handler is
an invocation that may be stopped at each `await`, and every pair of handlers
may run at the same time.  The models are about that.

Contents: [The system](#the-system) · [Modules](#modules) · [Runs](#runs) ·
[Fairness](#fairness) · [Proofs](#proofs) ·
[What the violations show](#what-the-violations-show) ·
[Disagreements without a run](#disagreements-without-a-run) ·
[Not modelled](#not-modelled) · [Plan](#plan)

## The system

| Part | State | Operations | Talks to | Module |
| --- | --- | --- | --- | --- |
| EventSub webhook (`app/api/twitch/eventsub/route.ts`, `lib/eventsub-dedup.ts`) | de-duplication keys in KV (10 minutes) | check the id, hold in maintenance, handle, park or answer 503, record the id | Twitch, KV, redemption handling | `Redemption` |
| Redemption handling (`services/eventsub-redemption.ts`, `services/gacha.ts`) | the progress of one invocation | look up the reward, resume a partial batch, filter sold-out cards, draw, reselect, refund, notify | database, Twitch | `Redemption` |
| Gacha transaction (SQL `execute_gacha_transaction_with_chat_outbox`) | `gacha_history`, `user_cards`, `cards`, `chat_notification_outbox` | one call per draw | called through `withDbRetry` | `GachaTransaction`, `GachaLedger` |
| Chat outbox and delivery (`services/chat-notification-outbox.ts`, `twitch/chat-service.ts`) | rows with status, attempts, lease and due time | claim, renew, send, mark, dead-letter, retry, expire, purge | database, Twitch chat | `ChatOutbox`, `ChatDelivery` |
| Parking and replay (`maintenance/eventsub-park.ts`, `api/admin/eventsub-replay`, the worker's and the script's drain) | parked notifications in KV (7 days) | park, list, replay, delete | all of the above | `Redemption`, `ParkDrain` |
| Overlay room and publisher (`workers/overlay-realtime`, `lib/overlay-realtime/*`) | nonce and delivery ledgers, sequence number, sockets | publish, connect, alarm | clients | `OverlayRoom`, `RoomFeed` |
| Overlay page (`lib/realtime.ts`, `app/overlay/[streamerId]/page.tsx`) | cursor, seen ids, buffer, timers; queue of cards | socket events, polls, recovery; show, hide, reload | room, history API | `OverlayClient`, `DisplayQueue` |
| Card trading (SQL `accept_trade_offer`) | `trade_offers`, owners of `user_cards` | accept (no caller in the application yet) | database | `CardTrading`, `TradeBoard` |
| Statistics triggers (00039, 00050, 00051) | counts per viewer | recount after each change of a row | database | `UsageStats`, `CardTrading` |
| Token manager (`twitch/token-manager.ts`) | tokens and a refresh lease per account | acquire, refresh, save, release, wait for the winner | Twitch, database | `TokenRefresh` |
| Sign-in (`app/api/auth/*`, `lib/session*.ts`) | cookies of a browser, token and scopes of a user | log in, step up, recover scopes, log out | Twitch, database | `Login` |
| Plans (`twitch/sub-check.ts`, `api/support/*`, `activate_support_code`) | cached subscription, codes, licenses | check, switch off, activate, deactivate, revoke | Twitch, database | `SubCheck`, `SupportCodes` |
| Rewards (`ChannelPointSettings.tsx`, `eventsub/subscribe/route.ts`) | main and additional rewards, subscriptions at Twitch | save, add, remove, disconnect | Twitch, database | `RewardSetup` |
| Cards and packs (`CardManager.tsx`, `api/cards/*`, `api/streamer/settings`) | cards, packs, their weights, and what each page believes of them | create, edit, delete, toggle, number; rename, bind, weigh | database | `CardList`, `CardPacks`, `DropRates` |
| Images (`storage-db.ts`, `storage-cleanup.ts`, `r2-client.ts`) | objects in R2, rows, a usage counter | upload, replace, delete | R2, database | `ImageStorage` |
| Error reporter (`workers/error-reporter`) | processed marks of errors and inquiries | group, search, create or comment, mark | GitHub | `ErrorReporter` |
| Migration runner (`scripts/db-migrate.js`) | the history table, the schema | bootstrap, apply | database | `Migrations` |

What is hard about it, and the property each part needs:

* **Twitch delivers at least once** and takes a 2xx as final.  The webhook must
  not lose an event it has accepted, must not grant one twice, has to resume a
  batch of up to 15 draws that stopped in the middle without a gap, and may
  announce it only when it is complete (`HandlingHolds`, `EndsRightly`).
* **Answers of the database get lost.**  Each call is repeated, with the same
  or another card, and has to find its own earlier effect before it finds a
  limit: the caller refunds on a limit.  Seen from outside, each call has to be
  one atomic step (`ImplementsLedger`, `BatchComplete`).
* **A database and a chat cannot commit together.**  The outbox gives
  at-least-once delivery with leases: two workers must never send at the
  same time (`NoConcurrentSend`), a settled row has a cause
  (`SettledForCause`), and the whole amounts to a queue that shows a message
  at most once per attempt (`ImplementsDelivery`).
* **Leases and fences around a rotating refresh token**: a slow leader must not
  overwrite a newer login (`RefreshKeepsLogin`), and the new token must not be
  lost without a cause (`NoSilentLoss`).
* **A line to the overlay breaks silently.**  The room must not skip a number
  to a line that is up (`NoSilentGap`), must not send an event twice
  (`FeedPromise`), and the page must merge the socket and the history without
  a draw shown twice or passed over (`ShownOnce`).
* **Several writes without a transaction**: objects, rows and counters
  (`ImagesHold`), rewards and subscriptions (`RewardsHold`), a token and its
  scopes (`LoginHolds`), a recalculation after each change
  (`FiguresFollow`, `LastWriterRepairs`).
* **Pages keep copies of what other requests change** (`ListFollowsServer`,
  `PacksHold`, `DoneAsAsked`).
* **Something must happen in the end** (`EveryCallEnds`, `ParkedIsSettled`,
  `CronDrains`, `FilesRecorded`, `EventuallySettled`, `EveryDrawShown`).

`PROJECT.json` lists every hazard at its line, with the properties that cover
it or the reason why none does, and every part of the repository with what is
modelled of it.

## Modules

Each module models one component; its header says what the variables stand
for, and each definition is named after the code it models where that has a
name.  Three modules are abstract specifications (`GachaLedger`,
`ChatDelivery`, `TradeBoard`) that a detailed one is shown to implement, and a
fourth, `RoomFeed`, is both: the promise of the room, which `OverlayRoom`
implements and `OverlayClient` relies on.

### Draws and their handling

**GachaLedger** is the gacha function as its callers want to see it: one call
is one atomic step that grants, reports a duplicate, or reports the limit.

**GachaTransaction** has one action per statement, run by concurrent sessions
under READ COMMITTED: writes show at `Commit`, locks are kept to the end, a
statement reads what is committed.  `EventFree` is the advisory lock,
`CardFree` the row lock, and the guard of `Insert` the unique index, which
blocks on an uncommitted row of the same `event_id`.  `Abort` is the loss of
the connection or a failing statement at any point.  `EditCard` is the
streamer's UPDATE of a card, which waits for the row lock.  A draw's `event_id`
is the message id, with `:n` for the n-th draw; the models write it as batch
and number.  That batches have the same draw count on each delivery is an
assumption: a change of the reward between two deliveries is accepted by a
comment of the code and left out.

**Redemption** extends `GachaLedger` with the webhook, the handling and the
replay.  Each action is what happens between two awaits: `PassDedup` or
`SkipSeen`, `Hold` in maintenance, `Lookup` of streamer and reward,
`ReadPrefix` (`countCompletedDrawPrefix`), `ReadCards` with the issuance
filter, `Execute` and the three answers, `Reread` after a duplicate, then
`Close` or `Retry`, and `MarkSeen` or `Drop`.  The database call is split in
two: `Execute` changes the tables, and the answer is received, or lost,
afterwards (`CallFails`), in which case `withDbRetry` calls again with the same
card.  A live invocation parks on a retryable outcome, a replay keeps its
entry.  `Stop` ends an invocation at any point; the deadline of the replay is a
`Stop` too.  KV fails open and is eventually consistent, so `PassDedup` may
miss a key and `MarkSeen` may not write one; the 2xx to Twitch may get lost.
`lost` collects the events the code gives up on purpose: the failed store in
maintenance mode and the entry whose seven days are over.  Any card of the pool
may be selected: the weights decide how likely a card is, not what is possible.

**ParkDrain** is the same replay seen as a drain: batches of the oldest
entries, the cursor, the deadline, the mode, and its two callers, the cron
worker (one batch without a cursor) and the operator's script (the cursor to
the end).  What handling an entry does is left to `Redemption`; here an entry has a
fate: it is sound (its handling succeeds, though an attempt may fail), its event
is damaged (the route reports it and deletes the entry), its type is unknown to
the replay (counted and kept), or its handling fails for ever (kept).  The
deadline of a request drops the rest of its page, which its cursor has already
passed; `cut` remembers what the script's requests left out that way.

**UsageStats** has the triggers that keep `card_owner_stats` and
`channel_point_usage_stats`: after every change of a row one statement counts,
the next writes the count.

### Chat

**ChatDelivery** is what the outbox promises: a queued notification may be
shown at most `Budget` times, is settled once, and only a settled one is
forgotten.

**ChatOutbox** is the implementation.  Its row variables are the columns of
`chat_notification_outbox`; `timer` stands for whichever timestamp the status
looks at, counted down by `Tick`.  The task variables are an invocation of
`postRedemptionNotify` (`Live`) or of the replay route (`Relay`) suspended at
an `await`: `claimed` before the fence, `fetch` with a request at Twitch,
`ack`, `terminal` and `retry` before the update that ends the delivery.  Each
update of `chat-notification-outbox.ts` is one operator with its owner fence
(`Owns`).  The lease id is a fresh UUID per claim; as a worker keeps one claim
at a time, the worker's name stands for it.  `Renew` is
`renewChatNotificationLease`, which the send loop calls before each of its
requests, and which does not ask whether the lease has expired as long as
nobody took the row.  A request may have posted the message although its answer
says otherwise: a timeout, a 5xx, or a 200 whose body cannot be read
(`SendTransient`, `SendRejected`).  Twitch drops an identical text within 30
seconds, so the requests of one claim, which are seconds apart, show it at most
once (`told`); claims are at least a minute apart, where the filter no longer
helps.  `posted`, `reply` and `stopped` are history no code reads.

### Trades

**TradeBoard** is what `accept_trade_offer` promises: a call asks, and one
atomic step swaps two copies and completes the offer, repeats the answer of a
request that did so, cancels an offer that has lost its copy or its cards, or
refuses.

**CardTrading** runs the statements of the function in concurrent sessions
under READ COMMITTED.  `phase` is the statement that comes next: the SELECT FOR
UPDATE of the offer with the checks behind it (`offer`), the one of the offered
copy (`offered`), the PERFORM that locks every copy the user could pay with
(`perform`, and `lock` for the row it waits for), the unlocked choice
(`choose`), the conditional UPDATE (`pay`), the four rows of
`card_owner_stats` that the triggers of the two moves write (`stats`), and
`commit`.  A wait is a guard; `WaitsFor` names it, and `Deadlocked` is a set of
sessions that wait for each other.  `Abort` is a broken connection or the
victim of a deadlock.  The moves of the two copies and the offer's update
become visible together, at `Commit`.  Drawn copies (`Obtain`), the deletion
of a card by its streamer (`Delete`), and the offerer's `Post` and `Withdraw`
are single steps that wait for the locks they meet; the last two have no code
in the repository yet and are what the constraints of `trade_offers` allow.
The settings of the two streamers can refuse at any time (`RefuseDisabled`),
and any candidate can be the oldest one, since `obtained_at` plays no other
part.  The exchange of duplicates for stones is left out.

### Overlay

**RoomFeed** is what a room promises to a line: an event goes out at most once,
under the next number, and a line that stays up carries every number since its
welcome.

**OverlayRoom** has the publishers with their retries (each attempt signed
anew), the router in front, the rate limits, the nonce and delivery ledgers,
the sequence number, the fan-out, connections and the alarm that carries out
the kill switch.  Storage calls keep other requests out (input gates), so two
handlings interleave only where the body is read, and the room may stop after
any write.

**OverlayClient** is `subscribeToGachaResults` with all its timers: the poll
and its cursor, the recovery buffer, the config, the socket, reconnects and
reloads, against a room that keeps the promise of `RoomFeed`.  Rows are
numbered in the order of (redeemed_at, id).  The conditions on the clock
(floors, backoff, intervals) are left open: a timer may fire at any time.

**DisplayQueue** is what the page does with what it is given: the queue of
cards, the chain of timers that shows one after the other, the sound of a
batch, the change of the streamer, and the reload to a new build.  `Defer`
changes nothing: a reload that waits for a quiet moment only arms its timer
again.  The page's own polling loop cannot run (its transport says `connected`
from the start), and session storage is taken to work.

### Accounts

**TokenRefresh** is one account (a user's, or the chat bot's when `IsBot`) and
the requests of all isolates that want its access token.  A request that finds
it expired takes a lease on the row, spends the refresh token at Twitch outside
of any transaction, and stores the new pair with the lease as a fencing token;
the others poll for it.  The OAuth callback, the logout and the removal of a
scope write the same row.  Tokens are numbered in the order Twitch issues them.
Failures are actions: an exchange whose answer is lost, an isolate that dies, a
save that fails, a lease that ends in the middle.

**Login** is every OAuth flow of a browser: plain logins, step-up
authorizations for one more scope, and the second round trip that the callback
starts when the new token lacks scopes the user had.  They meet in the cookies
of the browser and in the user's row, where the callback writes the token and,
in a second statement, its scopes.  Only the additional scopes are modelled;
each state cookie may expire by itself.  `SerialNext` is used by the runs: no
flow begins and no callback arrives while another one is being handled or a
page is about to leave (what overlapping callbacks do is a disagreement below).
`MayBegin` keeps two flows free for recoveries, a bound.

**SubCheck** is the cached subscription: background checks of every page,
manual checks, and the switch.  `CalmNext` is `Next` with the switch used only
while nobody checks; without it see `sub_off`.  **SupportCodes** has the
statements of `activate_support_code` under the row lock of the code, the
deactivation and the status of a code.  Its `CalmNext` lets a user send one
request at a time and no revoked code come back.

### The streamer's settings

**CardList** is the dashboard's list of cards and the requests it sends: the
list changes before the answer or with the rows an answer carries, and an older
list is put back when a request fails.  **CardPacks** has the registered packs,
the cards and the main reward that name one, and the weights per pack, changed
by routes that read, check and write; only the rename is one transaction.
`Serial` restricts it to routes that nothing else runs between.  **DropRates**
is every request that changes the pool and the recalculation after it, which
reads, computes and writes in separate statements.  **RewardSetup** is the
reward page, shown twice with a copy each, and the subscribe route with its
calls to Twitch one after the other.  **ImageStorage** has an upload or a
replacement write the object, its row, the counter and the card, one after the
other; each write may fail, and most failures are only logged.

### Operations

**ErrorReporter** groups unmarked rows, searches an issue that GitHub's index
may not show yet, comments or creates, and marks the rows.  **Migrations** has
several machines run `apply`, each with a checkout of its own: the advisory
lock, the guard that refuses an unmarked database, the bootstrap, files that
run in a transaction with their history row and files that build an index
outside of any, whose build a crash leaves invalid.  `status`, `plan` and
`verify` only read; the parsing of headers and index definitions is data.

### MC modules

An `MC` module extends the component it is mainly about and instantiates the
others it checks.  Its variable `scene` says which of them works in a
behaviour; the variables of the others rest in one initial state, so that a run
explores each instance once, and the instances never multiply.  A scene is one
instance of a component with its own bounds, chosen for a question: more actors
and no faults, or fewer actors and every fault.  Where a property holds under a
restriction (`SerialNext`, `CalmNext`, `Serial`), the scene takes the restricted
next-state relation and the property says so in its comment.  Operators whose
comment begins with *Mutant* are deliberate errors: for each property of a run
`PROJECT.json` names one of them that breaks it, so that no property holds
vacuously.

## Runs

Nine runs pass and three end in a violation the code really has.  One run per
stage of the system; its scenes are listed with their bounds.

### `chat` (MCChat): what follows a draw

* `NoConcurrentSend`, `SettledForCause`, `ImplementsDelivery` (scene `outbox`):
  one row, two live workers and a relay, 2 attempts, 2 requests per claim, a
  lease of 2 ticks against requests of 1, retry delays of one tick.  Two
  attempts have a first, a last and the step between them; two workers and one
  row are what every race of the outbox is about, and a third one interferes
  with both.
* `ParkHolds` (scene `park`): three entries, one of which is damaged, of an
  unknown type or fails for ever, batches of two, one switch of the mode, one
  request without time or room, two faults, and both callers.  No entry leaves
  the store unhandled but a damaged one.  A script that ends without an error
  has seen every entry it found, except those a deadline of its own requests cut
  off: the code calls such a drain complete (see *Draining* below), which is why
  the property names them.

### `draws` (MCDraws): what a draw writes

* `BatchComplete`, `ImplementsLedger` (`transaction`): two sessions, a single
  draw and a batch of two, two cards with limit 1 or none, symmetric sessions
  and cards (safety only).
* `FiguresFollow`, `LastWriterRepairs`: the statistics of two rows of two
  viewers with transactions that overlap (`statistics`) or do not (`ordered`);
  the drop rates with requests that overlap and fail (`form`, `rates`) or
  follow each other (`shares`).  The figures follow where nothing overlaps or
  fails; where it does, the last writer repairs what is wrong unless somebody
  wrote behind its back.
* `ImagesHold`: one dashboard with two faults (`files`), two without (`tabs`).
  A card shows an image that exists, the plan's limit is exceeded by what runs
  at once or failed only, table and bucket agree as long as nothing fails.

### `handling` (MCHandling): from Twitch to the cards

* `HandlingHolds` (`batch`): a batch of two draws of two single cards that is
  delivered twice, handled by a webhook and by the replay at the same time,
  with every failure: no gap among the recorded draws, what Twitch has a 2xx
  for is settled or parked, only complete batches are announced.  The second
  draw finds the pool run out in the middle.  Two tries of a database call and
  two reselections stand for four and five.
* `EndsRightly`: in `batch`, a parked entry is deleted only when its event is
  settled; in `alone` (a batch of three, three deliveries, edits of the card,
  one handling after the other) a batch with a draw on record is never
  refunded.
* `RaidsHold` (`raid`): a raid delivered twice.
* `PacksHold`, `DoneAsAsked`, `ListFollowsServer`: the packs with one page and
  four operations (`packs`), renames from two pages with an answer lost
  (`renames`), two pages whose routes run without a pause while the plan lapses
  (`serial`); the list with two cards, lost requests and answers (`list`), and
  with two operations under way (`busy`).

### `cards` (MCCards): how one comes by a card

* `NoDoubleSpend`, `ImplementsBoard` (`trading`): two sessions, two users, two
  copies each of two cards; Ann offers x1 and x2 for a Y, Ben offers y1 for an
  X, so that offers cross and two of them want the same payment.  One request
  id serves both users: a request is repeated by the same user or, with the
  same id, by another one, which must not be mistaken for a repetition.
* `RewardsHold`: the full page alone (`rewards`), the same with two failing
  calls (`failing`), and both pages at the same time (`pages`, where `MaxOps`
  ends the run).

### `accounts` (MCAccounts): who may do what

* `LeaseHolds`, `NoSilentLoss`, `RefreshKeepsLogin`: two requests and a
  callback, of a user (`tokens`) and of the bot (`bot`), three tokens, one write
  of another kind, two polls and one.
* `LoginHolds`: the record of scopes and the token, which a callback writes one
  after the other.  Where callbacks overlap, one user: in one browser with
  failing reads and writes and lost cookies (`pages`, three flows), in two with
  failing writes and lost codes (`overlap`, three flows).  A browser that keeps its cookies is not sent back
  and forth.  A scope leaves the record only by a flow that began before the scope was put
  there, and, where no read fails, the token lacks only such scopes.  Where
  callbacks follow each other in one browser, four flows: no scope is lost whatever fails
  (`login`), none is lacking where reads succeed (`readable`).  `logins` has
  plain logins of two users, of which the latest must be accepted.  That no
  more can be said of overlapping callbacks is under *Scopes of another token*
  below.
* `DisableHolds`, `PlanKept`: two pages and two tabs that check while the
  subscription changes once (`checks`) or stays (`subscribed`); three activations of
  two users and two codes (`codes`), and of three codes in turn (`turns`).  Who
  stays subscribed and is known to be is told so, unless the row cannot be read,
  the switch is used, or Twitch refused the token of the user's own check (the
  scope flag is then off until the next authorization); a refused background
  check, failing calls and failing saves cost nothing.

### `overlay` (MCOverlay): from a draw to the screen

* `NoSilentGap`, `FeedPromise`: two events with two attempts each, rate limits
  of one (`room`), two with one attempt and a fault (`troubled`), and one with
  two attempts and a stop between the ledger and the sockets, after which the
  publisher calls again (`retried`).
* `ShownOnce`: two draws, pages of one row, a buffer of two: two faults
  (`page`), two endpoints and a fault (`moved`).  Rows commit in any order; a
  row that commits behind the cursor is exempt from what is said of the history
  (`late`), not from being shown once.
* `OneAtATime`, `ReloadQuiet`: two batches of two cards with exceptions
  (`show`), the streamer is switched (`switch`), builds and cooldowns
  (`builds`).

### `operations` (MCOperations): beside the program

* `HistoryIsTrue`, `CheckoutAgrees`, `InOrder` (`migrations`,
  `reconnecting`): three files, the second of which builds an index, the
  workflow and an operator, two changes of the checkout, a failure and a crash,
  or, in `reconnecting`, a lost connection and one change.
* `AdoptedNeverRun` (`adopting`): two of the three files are in a database that
  was built by other means, which an operator adopts, with a failure, a crash
  and a lost connection.  No old file is executed until a bootstrap is cut off
  (`cut`): it ends between making the table and recording its last file, or
  another run is at work beside it after a lock was lost.  After that the code
  gives no such promise (see *Migrations* below).
* `MarkedIsTold` (`report`): one signature and an inquiry, two rows, one fault.

### `requests_live` and `delivery_live`: what must happen

* `EveryCallEnds`: the calls of two sessions of the gacha function (one card, a
  single draw and a batch of two) and of two crossing trades.
* `ParkedIsSettled`: a batch of three, parked.  `FilesRecorded`: three files,
  an operator beside the workflow, a failure and a crash.
* `CronDrains`: the cron alone brings every parked entry that can be ended to
  its end, with three entries, up to two of which stay for ever, batches of two,
  one failure and one request without time.  The exception is starvation, which
  the code really has: an entry behind as many lasting ones as a batch holds.
* `EventuallySettled`: a message and the relay alone.  Two messages that compete
  for the relay are beyond the time a run is given.  `EveryDrawShown`: two
  draws and one fault.

### `redemption_refund`, `sub_off`, `overlay_late_commit`

See [below](#what-the-violations-show).

`CHECK_DEADLOCK FALSE` is said where a scene really stops: when the deliveries
are used up and nothing is parked, when a bounded run of the migrations or of a
page is over.   Bounds that
are not the code's are constants named `Max...` and stand in guards; `MaxSends`,
the number of deliveries, is artificial too, although Twitch gives up as well
after a while.

## Fairness

* `ChatOutbox`: time passes, a request ends (it is aborted after three
  seconds), the cron starts a relay every five minutes, and a row that stays
  due gets its turn, since relays take rows by due time.  Nothing is assumed of
  live invocations: they may never run.  Failures stay possible for ever; the
  attempt budget is what makes rows settle.
* `GachaTransaction`, `CardTrading`: sessions run their statements, and locks
  are granted in the order of the requests, hence strong fairness of those that
  block.  A deadlock of trades is broken by ending one of the transactions
  (PostgreSQL looks for cycles after a second of waiting).  Nothing is assumed
  of connections.
* `Redemption`: the replay keeps being called, each parked entry gets its turn
  (strong fairness of `Replay`), and what can succeed again and again succeeds
  in the end (reads, calls, deletions).  This is the strongest assumption of
  the project.  It is justified while fewer entries are parked than one request
  takes (20), see the hazard on starvation.
* `ParkDrain`: time passes, the cron ticks while maintenance is off, and its
  requests take their steps.  Nothing is assumed of the operator's script;
  failures and deadlines are bounded (`MaxFaults`, `MaxSlow`), as nothing would
  ever be handled if each request were cut off before its first entry.
* `OverlayClient`: timers fire, requests are answered, frames arrive and a line
  that is accepted opens; nothing is assumed of the room's publishing.
* `Migrations`: the runner and the database go on, the lock is handed out in
  turn, pushes keep starting runs, and operators drop broken indexes.  A
  crashed run's index build ends with its session.

## Proofs

The `_proofs` modules prove for every value of the constants what the runs check
on small instances.  Each states an inductive invariant `IInv`, has one lemma
per action (split by conjunct where an action disturbs several), a lemma that
collects them for `Next`, and short temporal theorems on top.

**ChatOutbox.**  Assumptions: live and relay workers are disjoint, budgets are
positive, delays are natural numbers, and a lease is longer than a request
(`LeaseAssumption`: 60 seconds against 3).  `IInv` adds
`LeaseOutlivesRequest` (the lease of a request in flight has more time left
than the request), without which a tick could expire a lease in mid-request;
`AttemptUnspent` (an owner that has not posted has an attempt that is not
accounted for yet), without which a post could exceed the attempts; and
`OwnerHasCause` (a worker about to settle a row it owns carries the answer it
settles it for).  `NoConcurrentSendHolds` and `RowsHold` (`SettledForCause`)
follow, `SettledIsFinalHolds` and `LeaseRespectedHolds` from it and the step;
`DeliveryRefinement` maps pending and processing to queued
(`ImplementsDelivery`).

**GachaTransaction.**  Assumptions (`LedgerAssumption` and those of the
module): batches have 1 to `MaxDraws` draws, a limit is a number or
`Unlimited`, `None` is neither card, event nor limit.  `IInv` says that each
lock has one holder (`EventLocked`, `CardLocked`), that a card stays what its
holder read (`CardHeld`), that what the duplicate check found out stays true
behind it (`DrawKnown`), and that the room `Count` saw is reserved
(`RoomReserved`).  From these, a commit has room for its copy, and a limit is
never answered for a granted draw.  `LedgerRefinement` maps each statement to a
stutter and `Commit`, the limit and the failures to the step of the ledger; the
limit is reported at the moment it is found, not when the transaction ends
(`Answer`), because another session may free the card in between.

**Redemption.**  Assumptions (`HandlingAssumption`): budgets are natural
numbers, a database call is tried at least once, the callers of the ledger are
the invocations, edited cards are cards.  What the run checks
(`HandlingHolds`) is not inductive: an invocation acts on what it has counted.
`IInv` adds what it knows at each await (`Task`, `Counted`: the draws it counts
as done are on record, and so is the one the database has just answered for)
and what it owes when it is about to record the id or delete an entry
(`Ends`); `NoGap` says that a draw is on record only with all before it.  The
argument about gaps: a draw is executed for number `done + 1`, and all draws up
to `done` are on record (`Counted`), which no step of another invocation takes
back (`Onward`).  The argument about loss: settled events stay settled, an
entry disappears with its event settled only (`KeepsEntries`, the theorem
`EntriesAreKept`), and every way to a 2xx goes through one of the two
(`Ends`).  `HandlingImplementsLedger` shows that every step is one of the
ledger's or none, so that what is proved here over atomic calls is about the
transaction of the database.  `AloneKeepsBatches` needs the set of invocations
to be a singleton, as the run does: with two handlings at the same time the
prefix can be older than the count, and a batch may be refunded.

**CardPacks** (with `Redemption` in `Redemption_proofs`, over constants of its
own).  A lemma says what each step does to pages, requests and settings
(`PackSteps`); the rest is about three settings, since each property needs its
own.  *Renames only, any pages*: the database moves the cards with the name in
one statement, so no card is orphaned and no two packs merge, however old the
lists are (`RenamesOrphanNothing`, `RenamesMoveWholePacks`).  *Any requests, one
route at a time* (`SerialSpec`; a route reads and writes without a condition):
what a route has read is still so when it writes (`InSeries`), hence the weights
stay within the list and a basic plan adds nothing (`WeightsStayRegistered`,
`BasicPlanDoesNotGrow`).  *One page, until an answer is lost or the plan
lapses*: `Follows` relates what the page shows to the settings in each stage of
its request, and `Pending` what a request has done to what the page will do when
it hears of it (`AlonePageFollows`, `AlonePageAsks`).  What two pages do to each
other is under *Packs* below.

**RewardSetup** (with `GachaTransaction` in `GachaTransaction_proofs`, over
constants of its own).  A lemma says what each step does to views, operations,
rewards and subscriptions (`SetupSteps`, one operator per kind of step).
`SmoothIsDone` is about any pages and failures: its invariant says what an
operation has seen to at each stage, if no failure and no other page has met it
(`SoundSubs`, `SoundRows`).  While it deletes, all subscriptions to the reward
are among those it has still to delete (`Covered`), which is why the listing
before must be complete; the subscription for raids lives before the answer.
`AlonePlacesAgree` is about one full page until something fails; there a
reward on record has a subscription and the page knows both, or the running
operation accounts for the difference at its stage (`AgreeInv`).  `Rewards`
only says that the marks for no reward and for raids are none.

**DropRates** (with `GachaTransaction` in `GachaTransaction_proofs`, over
constants of its own, without a hypothesis on any of them).  A lemma says what
each step does to the cards, the setting and the requests (`RatesSteps`).
`LoneRecalculationRepairs` is about any number of requests that overlap and
fail: `Fresh` says that a request nobody has written past still has the setting
of the streamer, and, once it has computed the rates, those the pool asks for
(`WorthDecides`: only what a card counts for decides its rate, so that writing
rates leaves the others right).  `RatesFollowSetting` has the hypotheses of the
scene `shares`: one request at a time, no open form, no failure.  `Following`
adds that a request which will not recalculate leaves the card as it counts.
What the parts of a rarity add up to (`SharesAddUp`) is an induction over the
pool and is only model-checked.

**CardTrading.**  Assumptions: each copy has a card, each offer an offerer, an
offered copy and a wanted card which differs from the card of the copy (the
table's CHECK), and `None` is none of the values.  `IInv` says that offers and
copies have one holder each (`OfferLocked`, `CopiesLocked`) and what a call
knows at its phase: the offer is open and defined (`OfferChecked`), the offered
copy is locked and the offerer's (`OfferedLocked`), the payment is a copy of
the wanted card and, once it moves, locked and the payer's (`PayerChosen`).
The point of the argument is `Commit`: it changes the owners of two copies it
holds, so no other call's knowledge is touched.  `BoardRefinement` maps
`Commit` to the trade, every other end of a call to its answer and the
statements in between to stutters.

**ImageStorage** (with `CardTrading` in `Cards_proofs`).  A lemma says what each
step of a dashboard leaves behind (`TabSteps`, one operator per kind of step);
the invariants are about those.  `FilesFollowBucket` is about any number of
dashboards and about behaviours in which nothing has failed yet.  `Paired` says
which objects have no row: the file of an upload between its two writes, and
what a removal has taken out of the table and not yet out of the bucket.  The
two never meet, since the url of a file that is being recorded is on no card and
in no other dashboard (`Known`), so that nobody can be removing it.
`CardsShowImages` and `FilesKeepTheLimit` allow every failure and have the
hypothesis that one dashboard is open, as in the run: with two, an old form
saves the url of an image that has been removed, and both remove one row and
count it twice.  `Linked` says that no two cards share an image, that what an
upload has stored and a replacement is about to remove is on no card, and that a
card without its image is being deleted.  `Balanced` bounds the objects and rows
together by what is counted and what has failed; an upload that is stored and
not counted yet, and a row removed and still counted, are one off.

**CardList** (also in `Cards_proofs`).  No card may be called "none"
(`Nameless`), which is what an operation without a card holds.  `NumbersSaved`,
`SavesMeetNoNumber` and `ReloadsRepair` are about any number of operations on
the page at once.  `Plan` says that the numbers a save will leave differ and
that every clearing comes before the first setting; `Progress`, which holds as
long as nobody else changes a card, that each card is still to be changed, in
flight or has its number, and that whoever held a number holds none of the old
ones once settings begin; `Fetched` that a reload carries the rows of the
server.  `ListFollows` has the hypotheses of the scene `list`: one operation at
a time and no answer 429, after which a deletion is not put back.  Its invariant
`Stage` relates list and table at each point of a request: before the commit
the list is right (`Near`) or is the old one with the change already shown
(`Tried`), after it the list is right but for the card whose row the answer
carries (`FreshRows`), and a save of numbers has gathered the rows as they will
be (`Numbering`).

**TokenRefresh.**  Assumptions: bounds are natural numbers, at least one token
can be issued and one poll made, `None` is no request.  `IInv` is `TypeOK` with
`Numbered` (tokens carry the number Twitch gave them), `Fence` (the owner of the
lease took it after the last login or logout; a lease whose time is up has
lapsed), `Refused` (Twitch never accepts again what it has refused) and `Stored`.
`LeaseAlwaysHolds` and `RefreshKeepsLoginHolds` follow.  `NoSilentLossHolds`
needs a second invariant, `Sound`, on top of the first and only while nothing
has been spoiled: the lease is live, its owner is the one leader, and the
refresh token in the row is one Twitch accepts, or the owner carries the
replacement.  It fails at the five events the property excludes, each of which
sets `spoiled`.

**Login** (with `TokenRefresh` in `Accounts_proofs`).  `Signed` types the rows,
the cookies and the flows; every action then has a lemma that says what it does
to each of them, and the invariants are argued from those lemmas alone.
`RecoveryIsLast` holds for every interleaving: `RecoveryOf` says that a flow
that came from a recovery and whose state the browser still holds has the mark
of the recovery with it, since the two cookies are set and cleared together.

`OnlyNewerScopesLost` and `OnlyNewerScopesLacked` are about one user
(`OneUser`) in any number of browsers, and about every interleaving of the
callbacks.  `Overlapping` says of a flow that will save its scopes without a
second look (`Vouched`: it carries a mark that belongs to its state, or has been
compared) that it asked for all that was on record when it began and has stayed there
(`KeptCovers`); so what it takes off the record was put there since.
`Vouching` adds, where no read fails, that the token on record came from a flow
that covers what is not newer than itself (`TokenOf`).

The other three theorems are about flows that take turns (`SignSerial`, the
next-state relation of the serial scenes; what overlapping callbacks do to them
is under *Scopes of another token* below).  `TakesTurns` says that one flow is handled at a time, that the
state in its browser is its own and that nothing is handled while a page is
about to leave.  `LatestIsAccepted` adds `LatestOf`, for plain logins of any
users in any browsers.  `GrantedScopesStay` and `RecordIsTrue` are about one
user in one browser whose callbacks do not overlap (`OneDevice` and
`SignSerial`; a second browser or an overlap breaks them):
`Recorded` says that a flow whose scopes will be saved without a second look
(`Sure`: it carries a mark that belongs to its state, or has been compared) asked
for all that is on record (`Covers`); `Honest`, that no flow is guarded where
no read fails, and that the record is true of the token.

**OverlayRoom.**  Assumptions: each line has a client, limits are natural
numbers.  `IInv` says that one handling at a time is past its body and its event
is in the ledger (`ServingOK`), that what a publisher is told is on record
(`Answered`), and that the welcome is a line's first frame (`Framed`).
`NoSilentGapHolds` follows, and `FeedPromiseHolds` shows that the room
implements `RoomFeed`: an event goes out only when it is not in the ledger yet,
and the number was written before.

**OverlayClient** (with `OverlayRoom` in `OverlayRoom_proofs`, over variables of
its own).  A lemma says what each step does to the page, the table and the
requests (`ScreenSteps`, one operator per kind of step); the invariants are
about those.  `DrawsShownOnce` has no hypotheses at all: `ScreenOnce` says that
a draw has been handed over once if its id is in the set of seen ids and never
otherwise, wherever it came from.  The other two are about the cursor and assume only that
rows are numbered by their time (`RowsNumbered`); rows may commit in any order.
A row that commits behind the cursor is remembered as late and is the one
exception of both theorems: it is how the run `overlay_late_commit` violates
`EveryDrawShown`.  `RowsInOrder` says that the cursor is 0 or a committed row,
that all up to it that were not late have been seen, and that a page that was read is an initial
segment of what was behind the cursor, so that moving to its last row leaves
nothing out.  That a set of rows has a least one, and a page a greatest, is argued by a
minimal counterexample (`LeastRow`, `GreatestRow`).  `OwedComes` says of each draw a recovery owes that it has been
seen, that the answer under way has it or its page is full, or that another poll
is due: the trailing pass is what makes it inductive.

**Migrations.**  Assumptions: versions are numbers; the kinds of files are sets
of them.  `IInv` says who has a history table (`TableFirst`), what the file is
that a run builds, checks or records (`Indexes`), that what a run has left
behind is recorded (`Behind`) and, until a connection is lost, that the lock
keeps the runs apart (`Apart`).  `HistoryHolds` and `OrderHolds` do not need
the lock, `CheckoutHolds` and `WorkIsExclusive` do.

`AdoptionHolds` is about the guard against a forgotten `--bootstrap`
(`OldNeverRun`).  Its hypotheses: the files are finitely many, the old ones no
fewer than the guard's threshold, none of them is removed from the repository,
and nobody passes `--confirm-fresh-apply`.  It speaks of the time until a
statement fails, a run dies or a connection is lost; the run `operations` checks
the finer condition, until a bootstrap is cut off, under each of them.  The guard looks only
whether there is a history table, so a run that adopts the database and stops
between two rows leaves a table that no longer protects the rest.  `AInv` says
that once there is a table every old file is in it or still to come in the run
that adopts (`OldCovered`), and that what a run has found out about the table
and the files before it stays true while it is at work (`OldSpared`); two runs
cannot be at work (`Apart`), and that is where the lock is needed.

The last module, `Services_proofs`, is about six smaller components and states
the facts it needs of their constants in each theorem.

*Plans* (`SubCheck`, `SupportCodes`).  `SwitchHolds` is about the steps in which
the switch is used while nobody checks (`CalmNext`; what happens otherwise is
the run `sub_off`): its invariant `Off` says that nobody checks at all once the
switch is used.  `SubscriberKeepsPlan` is about the behaviours in which the user
is subscribed all the time (`[]sub`), and about everything the answer hangs on:
the cached flag, the scope flag, the cooldown and the read of the row.  `Member`
says that no page or tab is about to save the answer "no", that the row has the
subscription once a check has saved it (`past.known`, until the switch is used)
and the scope until the user's own check is refused (`past.refused`), and that a
page that has to be told has seen the row.  The codes need the invariant `Held`: requests stay in
their sets, the row of a code that a transaction has read is what it read
(`Locked`), and one transaction holds it (`OneHolder`).  `CodesGiveActiveOnly`
and `CodesRefuseCleanly` follow for every behaviour; `CodesGiveTheirPlan` is
about `CalmNext` (one request per user, no revival of a revoked code), where
`Stepped` relates what an activation has done to the licenses there are.

*The drain* (`ParkDrain`).  `DrainKeepsEntries` needs no more than types: a
request deletes what it has handled or what carries no event, and nothing else.
`DrainIsComplete` needs `ScriptHas`: whatever the script has found has been
seen, was cut off by a deadline, is on its page or behind its cursor, and a
request that answers "complete" has no more behind the cursor.  Neither has a
hypothesis on failures or deadlines.

*Statistics* (`UsageStats`).  `Kept` says that a row is changed by one
transaction at a time (`RowsApart`) and that what a transaction has counted, and
nobody has committed a change of since, is what it would count now (`Counted`).
The number is the transaction's own view, so the argument is about which rows
two open transactions can make differ; that a count counts is not used.

*Reports* (`ErrorReporter`).  `MarksAreTold` holds for overlapping invocations
too.  `Found` says what an invocation knows at each await (the rows it has read
are of one table, the issue it found is about the topic, an issue it is about to
mark rows with tells them), `InquiriesHold` that an issue about an inquiry tells
its only row: that is why finding one is enough there, while errors need the
comment.  `IssuesAreSpared` and the alarm's single issue (`AlarmIsAlone`) need invocations that follow each
other (`OneAtATime`); with two, both search before either creates.  `Spared`
adds that an issue about to be created is missing on GitHub, or that its search
was counted as a miss.

*Display* (`DisplayQueue`).  `DisplayHasOneChain`, `DisplayKeepsOrder`,
`DisplaySoundsOnce` and `DisplayReloadsQuietly` rest on `Displayed`: at most one
timer of the present chain is live, and the lock is held exactly while there is
one (`ChainOf`); every live timer is one the page has a handle of, and images of
a former streamer end in nothing (`TimersOf`); numbers grow along what was
shown, what is under way and what waits (`OrderOf`), and whatever has arrived is
one of these or was given up (`AllOf`).  The hypothesis `DisplayBounds` keeps
exceptions and changes of the streamer apart, since the retry timer of a card
that threw survives the change and starts a second chain (`page.tsx:226`).

Model-checked only: liveness under fairness (`EventuallySettled`,
`EveryCallEnds`, `ParkedIsSettled`, `CronDrains`, `FilesRecorded`, `EveryDrawShown`),
which is beyond the prover; the bound on reloads of the display (`ReloadBounded`), the
rounding of drop rates (`SharesAddUp`), and `TypeOK` of the modules that
`Services_proofs` and `Cards_proofs` are about where a proof needs another form
of it.

## What the violations show

* `redemption_refund` (`NoLateRefund`): the pre-filter for sold-out cards runs
  before the database is asked whether the event is a duplicate.  A single draw
  that took the last copy is refunded when its message is handled again.
  Batches look for their prefix first, and are not refunded as long as their
  handlings follow each other (`EndsRightly`).
* `sub_off` (`OffStaysOff`): a background check that began before the user
  switched the subscription off writes its answer without a condition and
  switches it on again.  `DisableHolds` is what remains: the switch holds when
  it is used while nobody checks.
* `overlay_late_commit` (`EveryDrawShown`): `redeemed_at` is the start of the
  transaction, so a draw can commit behind a cursor that has already passed its
  time, and a page that only polls never shows it.

## Disagreements without a run

Met while modelling; each was reproduced with TLC by a run that is no longer
part of the project, because a run per finding would take more time than they
are worth.  The properties that hold next to them are in the runs above.

* *Duplicates in the chat* (`20260725100000_transactional_chat_outbox.sql:10`
  allows them after a stop only): a request that times out after the message was
  posted is repeated in the next claim, minutes later.
* *Deadlock of mutual accepts* (`issue-715-card-trading.md:209` calls the cycle
  closed): the two moves write the four statistics rows in opposite order.  The
  database ends one of them; no state is harmed.
* *Lost statistics* (`00051_add_card_owner_stats.sql:9`): two transactions of
  one viewer both count without the other's row.
* *Scopes of another token* (`callback/route.ts:452`): `removeScope` writes back
  the whole array it read; overlapping callbacks leave the token of one and the
  scopes of the other, which is the exception of `LoginHolds` for scopes that are
  newer than the flow; a step-up on one device drops a scope another device got
  meanwhile (`reauth/route.ts:113`); a first login in a shared browser asks for
  the scopes of its previous user (`scopes.ts:15`); a step-up from a page is
  refused while an HttpOnly state cookie of an abandoned login lives
  (`reauth/route.ts:163`).
* *Polling during reconnects* (`realtime.ts:424`): a `new WebSocket()` that
  throws asks for no recovery poll.
* *Images*: a form opened before another tab replaced the image deletes the
  current one (`cards/[id]/route.ts:573`); two requests that remove the same file
  subtract it twice (`storage-db.ts:270`); a lost addition is never corrected
  (`storage-db.ts:186`).
* *Error reporter* (`error-reporter/src/index.ts:550,615`): a group whose issue
  takes no comments stays at the head of the fetch and starves the others.
* *Draining*: the deadline is reached in the middle of a page and the cursor
  passes the rest (`eventsub-replay/route.ts:525`), so that a script which ends
  without an error need not have drained the store: the exception of `ParkHolds`;
  entries that are kept fill every batch of the worker
  (`error-reporter/src/index.ts:1323`): the exception of `CronDrains`.
* *Drop rates*: a stale form overwrites a computed rate (`messages/en.json:361`);
  a failed recalculation is not repaired by an operation that does not count
  (`cards/[id]/route.ts:587`).
* *Card list* (`CardManager.tsx:995`): a rollback puts back what another
  operation changed; a deletion refused by the rate limit stays removed.
* *Packs*: a tab's old list undoes a rename (`00065_add_pack_rarity_weights.sql:172`);
  a rename onto a removed name merges two packs (`:207`); the weights dialog
  keeps a renamed key and is refused (`CardManager.tsx:995`).
* *Rewards*: the subscribe route deletes the subscriptions of other rewards after
  a conflict (`subscribe/route.ts:310`); the compact page makes an additional
  reward the main one (`ChannelPointSettings.tsx:399`) and leaves the old
  subscription (`:410`).
* *Migrations*: a bootstrap that dies leaves a table that the guard takes for a
  complete one (`planetscale-migrate.yml:78`), the exception of
  `AdoptedNeverRun`; a lost connection loses the lock
  and nobody looks (`db-migrate.js:640`).
* *Display*: an exception while a sound is chosen leaves the card on the screen
  (`page.tsx:692`); a change of the streamer forgets a scheduled reload (`:882`)
  and lets the timer of an error fire into the new display (`:226`).
* *Codes*: an activation says `support` while the cached subscription keeps the
  better plan (`activate/route.ts:219`); entering a lower code again does not
  step down (`00018_add_plan_downgrade.sql:12`).

## Not modelled

* Rate limits, the maintenance mode (an arbitrary choice per message in
  `Redemption`), the gacha history pages, effects and sounds, the analysis
  page, and the components that only show what they are given.  Inquiries were
  surveyed; they have no concurrent state of their own.
* In `Redemption`: the text of messages, the choice of the chat sender, the
  columns of the streamer row, dry runs, and
  entries with a broken payload (which are in `ParkDrain`).
* In `ParkDrain`: dry runs, values that cannot be parsed, a missing KV binding,
  and lists of KV that are not up to date.
* A user's deletions of a history row or an account, and those of cards outside
  `CardTrading`.
* In `CardList`: the read cache of `GET /api/cards`, a no-op in production
  (`live-directory.ts:17`), and a save whose row is deleted between the check of
  the owner and the update, which is answered 200 with an empty row.
* In `RewardSetup`: after a disconnection that could not delete additional
  rewards, the full page has no control left; the model ends there.  A failing
  `Retry` is in the module, but no scene has room for it.
* In `CardPacks`: the union of names the dialog completes, and the fallbacks of
  the deployment window.
* In `Login`: the terms of service, the page to return to, rate limits, the
  channel points flag, the signature of the session.

## Plan

1. done: the modules, runs and proofs above.
2. `RateLimit` (the read-modify-write of a window counter in KV), when a run has
   room for it.
