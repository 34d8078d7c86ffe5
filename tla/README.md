# TLA+ verification of openzigs-social

openzigs-social is a self-hosted social-media assistant: one Node.js process with
a SQLite database, an encrypted credential file, an HTTP and socket API, a
Telegram bot, connectors to social platforms and a web page in front of it. This
directory models the parts of it whose correctness depends on the order of
events or on definitions that must agree, checks the models with TLC on small
instances, and proves with TLAPS that their safety properties hold for every instance.

Paths below are relative to the repository's root (`src/outbox/poller.ts` is the
program's file of that name; PROJECT.json has one more `src/` in front).

## How the program executes, and how the models follow it

Everything on the server runs on one event loop. Code between two `await`s is
never interrupted, and better-sqlite3 is synchronous, so **one action stands for
a handler, or the part of it between two awaits, with every write it makes**.
What interleaves are the continuations after awaits: answers of platforms, file
operations, timers, cron ticks, other HTTP handlers. Continuations that follow a
promise that is already settled (microtasks) run before any other handler; where
that order matters (`Macrotask` and the phase `landed` in Outbox) the guards
state it. The process can be killed between any two actions: tables and files
survive, maps and promises do not. Platforms may do what they were asked to and
lose the answer.

The page is another process: requests, answers and socket events are separate
actions, which are lost, late or out of order as the network has it. A reload
keeps only what `localStorage` holds.

## Inventory

| Component | State | Operations | Interacts with | What is hard | What makes it correct |
|---|---|---|---|---|---|
| Outbox (`src/outbox`, `src/server/outbox`) | table `outbox`; `running` flag; publishes in flight | create, update, schedule, unschedule, reschedule, retry, delete; tick, claim, publish with retries, markPublished, markFailed | retry/DLQ, publishers, server start and stop | handlers change rows under a publish; lost answers; ticks that throw; stop in backoff | a post is claimed by one publish, posted once, its row tells the truth, failures are dead-lettered, due posts get published |
| Retry, DLQ (`src/platform/retry`) | table `dlq` | retry, dispatchWithDlq, land | outbox, connectors | retry of what was already done | every terminal failure is kept |
| Connectors (`src/connectors`) | publishes of several requests, containers, tokens | publish, reply, poll, dispatch | retry, broker, vault, social brain | errors classified per platform; a success without an id; a part that fails | a post is reported as what happened to it |
| Approval queue (`src/approvals`) | map of pending requests, timers | request, decide, timer, clear | Telegram, DM rules | decision, timeout and shutdown race; reused ids; a full queue | the first outcome stands, no caller hangs |
| Telegram channel (`src/channels/telegram`) | `sent` refs; messages in chats | push, edit, button, /queue menu, stop | approval queue | buttons pressed while the push is under way; failing sends | chats show what was decided |
| DM dispatch and handoff (`src/platform/dm`, `src/handoff`) | human-owned threads, abort controllers | dispatch, takeOver, release, register | approval queue | takeover while a draft or an approval is pending | no AI reply on a human's thread; none without approval |
| Auto-reply (`src/routing`) | table `auto_reply_audit`; sends in flight | evaluate, resolve, prune, deleteByContact | socket, CRM deletion, retention cron | resolution while another is sending; deletion while sending | one send per row, a truthful ledger |
| Brand voice (`src/personality`, `src/server/onboarding`) | the rulebook row | save, import, merge, recipe, score | auto-reply, editor | several writers with rules of their own | what is reported is what is stored; what is accepted is not vetoed |
| Rate-limit broker (`src/platform/rate-limit`) | bucket, quota, warning flag; sleepers | acquire, tryAcquire | connectors | checks before a sleep, effects after it | budget and quota hold, crossings are announced, callers answered |
| X write quota (`src/connectors/twitter`) | table `twitter_credit_usage`; alert memory | ensureWithinQuota, recordWrite, dispatch | broker, retry, Telegram | check and charge are apart; month's end; restart | usage is exact and within the cap, alerted once |
| Credential vault (`src/vault/vault.ts`) | file, temporary file, cache | get*, set*, updateOAuth, deleteProvider | everything with credentials | writers interleave over one cache and one temporary path; crash while writing | the file is whole, nothing confirmed is lost |
| Token refresh (`src/vault/refresh-scheduler.ts`) | copies held by ticks | tick, markExpired | vault | reconnect during a refresh; overlapping ticks; partial failure | nobody is asked to consent again without cause |
| Backup (`src/vault/backup.ts`, `restore.ts`) | bundle; database; vault file | export, import | vault, database | replacement under a running server, half-done restore | a restore is whole or absent |
| OAuth (`src/platform/oauth`, `src/server/social-setup`, `src/connectors/*/oauth.ts`) | state stores, app credentials, registered connectors | authorize, callback, exchange, saveApp, boot | vault | repeated, late, mixed-up callbacks; two stores; exchanges of two requests | a state is used once, for its platform, in time; what is stored is the token promised |
| Webhook receiver (`src/platform/webhooks`) | table `webhook_events`; deliveries in flight | receive, handle | Meta handler | redelivery, concurrent duplicates, failing handler, crash | each event handled once, none lost without trace |
| Social brain, inbox (`src/platform/social-brain`, `src/inbox`) | thread, message, state, rule and firing tables | upserts, polls, reply, read, rules | connectors, UI | the same message from two sources; clocks of two formats; rules edited meanwhile | a message is there once, unread is new, the trail explains the state |
| CRM (`src/crm`) | contacts, links, merges | sync, list, detail, merge, delete | social brain, auto-reply, insights | merge after merge then delete; batched and single reads; type conversions in SQL | a person stays whole; deletion is complete |
| Analytics (`src/analytics`) | raw insights; four cache tables; digest | aggregate, read, digest | connectors, Telegram, mail | each table has a newest day of its own; channels fail one by one | figures that stand together agree; a digest reaches each channel |
| Transcripts (`src/sessions`) | ledger and sidecar files; one promise chain | create, append, rename, delete, list | socket | two files per session; overlap; crash | both files or neither; acknowledged entries stay |
| Setup, onboarding, model selection (`src/server/setup`, `src/server/model`, `ui/`) | page state, `localStorage`, `model.json`, vault | validate, verify, select, complete, skip, reload | vault, Ollama, providers | late answers; progress kept apart from what it is about | "done" means stored |
| Live views (`ui/lib`, `ui/components`) | queries, mutations, socket | read, mutate, event, reconnect | every router, socket | answers and events out of order | a page shows what it was told |
| Server (`src/server`, `src/server.ts`) | parts that are up, sinks, signal state | boot, request, tick, close | all of them | parts fail to start; requests and ticks during close; second signal | what takes work has what it needs |
| YouTube quota (`src/connectors/youtube`) | table `youtube_quota_usage` | dispatch, alert, read | outbox, Telegram | the flag is read before an await and set after it; midnight | units are exact and within the ceiling, the alert comes once |
| Copilot sessions (`src/copilot`) | sessions with messages and counters; privacy mode | create, send, delete, setPrivacyMode | model providers | overlapping and failing sends, mode switched | the cloud is used when allowed, answers follow prompts, tokens add up |
| Logging, migrations, configuration, desktop shell | | | | | see "Not modelled" |

PROJECT.json lists each component with its files and status, and under
`hazards` the lines at which something can go wrong that a test would hardly
reach, with the properties that watch them.

## Modules

| Module | Models | Composition |
|---|---|---|
| `Outbox` | outbox repository, handlers, poller, retry/DLQ, cron driver, start and stop | refines `PostLifecycle` |
| `PostLifecycle` | abstract: the life of a post | |
| `Publishing` | what one publish is: requests, dispatcher, retries, containers, per platform | |
| `ApprovalQueue` | the approval queue | used by the next two |
| `Telegram` | the Telegram channel over the queue | EXTENDS `ApprovalQueue` |
| `DmReplies` | DM chain, handoff, approvals | EXTENDS `ApprovalQueue` |
| `AutoReply` | pipeline, audit ledger, prune, deletion | |
| `BrandVoice` | rulebook, its writers, the veto of a draft | |
| `RateLimit` | one platform of the broker | |
| `TwitterQuota` | ledger, guard and writes of the X connector | |
| `YouTubeQuota` | units of a day, refusals, the alert | |
| `Conversations` | sessions with a language model, routing, privacy mode | |
| `Vault` | the credential vault on its files | |
| `TokenRefresh` | refresh ticks over an atomic vault | |
| `Backup` | export and import under a running server | |
| `OAuth` | state store, authorize route, callback route | |
| `Connecting` | registration at boot, authorize, the exchange of each connector and the write | |
| `Webhooks` | receiver, dedupe table, event ids | |
| `Inbox` | threads, pollers, unread counts, replies, limits on both sides | |
| `Rules` | the rule engine, as operators | used by `InboxRules` |
| `InboxRules` | the rules' tables and thread state | EXTENDS `Rules` |
| `LeadScore` | the lead score, as operators | used by `Crm` |
| `Crm` | contacts, merges, lists, deletion | EXTENDS `LeadScore` |
| `Analytics` | insights, aggregation, reads, digest | |
| `Sessions` | transcripts | |
| `SetupWizard`, `Onboarding`, `ModelSelection` | the page's flows with the routes behind them | |
| `LiveViews` | queries, mutations and events of the page | |
| `Server` | start, readiness, signals and close | |
| `OutboxProofs` | theorems about the outbox and its refinement | EXTENDS `Outbox` |
| `ApprovalQueueProofs` | theorems about the queue | EXTENDS `ApprovalQueue` |
| `AccountsProofs` | theorems about `Connecting`, `Vault`, `TokenRefresh`, `Backup`, `Telegram`, `OAuth` | EXTENDS each |
| `WaitsProofs` | theorems about `RateLimit`, `YouTubeQuota`, `Conversations` and their sum `MCWaits` | EXTENDS `MCWaits` |
| `CommunityProofs` | theorems about `DmReplies`, `AutoReply`, `Crm` with its scores, `Inbox`, `InboxRules` with its engine | EXTENDS each |
| `WorkbenchProofs` | theorems about `SetupWizard`, `ModelSelection`, `Onboarding`, `Server`, `TwitterQuota`, `Sessions`, `Publishing`, `LiveViews`, `BrandVoice`, `Analytics`, `Webhooks` | EXTENDS each |
| `Induction` | finite images, least and greatest elements, induction and sums, as lemmas | used by the last three |
| `MC*` | instances for TLC | see "Runs" |

Definitions keep the names of the code as far as one module can see them: where
two components that one run instantiates both call something `Init`, `open` or
`restart`, one has another name (`VaultInit`, `openFile`, `reboot`), and
PROJECT.json's `map` gives the function it stands for. Definitions whose name has
a suffix after an underscore (`reschedule_AnyStatus`) are deliberately wrong
variants of the definition below them; no specification uses them. PROJECT.json
names for each the property that it breaks, which shows that the property can
fail.

### Outbox and Publishing

`outbox[p]` is the row of a post (`new` and `deleted` are the absence of a row:
ids are AUTOINCREMENT and never come back), `jobs` the publishes that a tick has
under way with the content they captured, `dlq` the dead letters, `running` the
scheduler's guard, `copies` and `live` what the platform holds. A job is
`calling` (the request is on its way), `accepted` (the platform created the post,
the answer is on its way), `sleeping` (backoff) or `landed` (dead-lettered, and
about to be marked in the same macrotask). `tick` tells the jobs of the current
tick from those left over by a tick that threw.

`Handler` is one disjunct per mutating route. `runTick` is one step up to the
first await: guard, claim (`ORDER BY publish_at LIMIT`), start of the publishes.
`markPublished` and `markFailed` throw for a deleted row, `Promise.all` rejects,
and `throws` resets the guard as the `finally` does. `stop` ends the cron task
while jobs run on, `exit` and `start` are the end and a new process, which takes
nothing back. The posts' clock is `now`, bounded by `MaxTime`.

The refinement maps a row's status to the abstract status, the posts with jobs
to the open claims and `live` to what is on the platform.

`Publishing` opens the one call that `Outbox` treats as a single request. `req`
is what the caller wants of one of seven platforms, `Steps` the plan of requests
that its publisher follows (a container per child, a poll until it is ready, the
publish), and each step goes through the platform's dispatcher: a slot of the
broker, the request, the classification of its error, a retry or a dead letter. Two
steps lie outside of it: fetching the token and, before each post of X, the check of
the month's quota, which throws without a dead letter.
The outbox, above, repeats the whole call (`round`). Three histories name what a
platform may have done although the answer says otherwise (`blurred`, `lost`) and
which containers were asked to be published (`asked`).

### ApprovalQueue, Telegram, DmReplies, AutoReply, BrandVoice

A request's promise and the id that settles it are separate, because a caller
may pass ids that were used before. Telegram adds per request the chats still to
be sent to (`todo`), the refs collected so far (`refs`), the entry in `pushed`
(the code's `sent`), the edits under way, the chats a call failed for (`failed`,
a history) and what each chat shows. DM replies add the chain of each message,
the owner of each thread and the registered drafts.

In AutoReply `audit` is the table by id, `calls` the sends in flight. The
pipeline's `send` "may be async" (`src/routing/pipeline.ts:82`), so handlers may
run between a send and its `finalize`; the server injects a synchronous emit,
whose behaviours are those in which nothing runs there. Two histories name the
only ways in which a row and what the contact received can part: `raced` (the row
was resolved under a send of it) and `lost` (a send was delivered and its answer
was not taken in).

BrandVoice has one row, the writers with the normalisation each applies (an entry
is a text with a form: the server folds case and outer spaces, the editor and the
profiler also the spaces inside) and what the last merge reported.

### RateLimit, TwitterQuota, YouTubeQuota

Units are what one clock tick refills; the code's lazy refill finds the same capped sum
that the model adds per tick. `spent` and `spentAsleep` are history. Calls have
deadlines: acquire without one waits as long as it takes, and no property could bound
it. Writes of X go through `new`, `waiting` (for the broker's slot), `calling`,
`answered`, `recorded`, `delivered` (a DM whose answer had no id: sent, not counted) or
`failed`. `fired` is the guard's memory of alerts, lost at a restart; the ledger is not.

In YouTubeQuota a call of the connector is one step up to the awaited alert; the
ledger reads the clock itself, so a call may be charged to the day after the one it
checked. `shown` counts what the operator saw of a day's alert, `marred` names the
days on which alerts overlapped, failed or were cut off.

### Conversations

A session's row is shared by every `send` of it, as the object is in the code: a prompt
is stored and the provider called in one step, chunks and ends come in any order. A
provider over HTTP takes the messages at once; the Copilot client awaits a session of
its own first and reads the same array later (`opened`), whatever the privacy mode is by
then. Texts count as one token per message and chunk. A usage states its prompt, its
completion and its total each on its own, any of them left out; `uneven` names the
sessions that were told a total other than that of its parts.

### Vault, TokenRefresh, Backup

In Vault files are inodes named after the operation that created them, since
`rename` moves a file that another operation may still be writing. A write
replaces the content from its start, so over another's longer content a remainder
stays (`Garbage`). `acked` and `unsure` record what callers were told, `met` and
`clashed` that calls overlapped.

TokenRefresh and Backup take a vault operation as one step, which is what Vault
shows of a call that meets no other. A tick of TokenRefresh holds a copy of all
credentials (`all`) while platforms answer and users connect again; `grants` is
the newest token of a platform, the only one it honours. Backup has the database
as its schema objects: a dump lists them in the order of the code's ORDER BY, and the
replay executes them one by one as SQLite would. Each request to restore is a process
of its own and nothing serialises them: it opens the vault's file, which empties it,
and writes into the file it opened, although the server may have renamed another over
it meanwhile (`named` says whether it is still the vault's). The histories `mixed`,
`replaced` and `stale` name what met a restore.

### OAuth, Connecting, Webhooks

In OAuth both routers take a store; `SharedStore` says whether it is the same one. The
server constructs two, with which nothing is ever exchanged (`StoresNeverMeet`);
`accounts` checks what the two routers do over one store, as the comment of
`src/server/social-setup/platforms.ts:10` has it. Connecting starts where OAuth ends:
which connectors the last boot registered for the saved app credentials, which redirect
URI each side sends, the one or two requests of each exchanger, what it accepts as an
answer, and the record written to the vault. In Webhooks a delivery is one step up to
the awaited `handle()`; events carry the id a connector extracts (`IdOf`), none, or one
that another event has as well.

### Inbox, Rules, InboxRules, Crm, LeadScore

Inbox keeps the platform's side (`sent`: when each message was written) apart
from the tables, and times as the two formats the code writes and compares as
texts (`Iso` from JavaScript, `Sql` from SQLite). Pollers, the reply route and the
reader interleave. The limits of the server and the copy of them in the page are
two tables whose agreement is a property.

Rules is the engine as operators on conditions. A condition is a tree, stored as a
function from the paths of its nodes, so that validation is a statement about every
node and evaluation a recursive function, with JavaScript's NaN and case folding; the
rules that match are folded into an outcome in the order `list` gives. InboxRules keeps
rules, firings and thread state. Crm reads each page as the code does: batched
queries for the list, single ones for the detail. Its tables are those of the
social brain, of the insights and of the audit, as far as deletion reaches them.

### Analytics, Sessions, Server

Time in Analytics passes in half days, so that day keys in UTC, the operator's
time zone and the hour of a heat map differ. The leaderboard's length is a constant of
the code and the digest's a setting, so they are two limits (`TopLimit`,
`DigestLimit`). A run replaces a day in each table,
in one transaction. Sessions has one queue of operations, each of several file
steps. Server is `startServer` in its order, with the parts that may throw, what
may run between its steps, and `close` in its order.

### The page: SetupWizard, Onboarding, ModelSelection, LiveViews

Each has the page's state, `localStorage` where it is used, the requests under
way and whether a handler still waits for the answer, and the server's part as one
step per route. Of the vault, the wizard's two setters are there step by step: each
loads the cached copy, adds its secret and writes the file, and two under way at once
may undo each other (`met`); the other writers of the vault are in Vault. In Onboarding
only the panel on screen is mounted: one that was left keeps its requests, the one
mounted in its place knows nothing of them, and a step may so have two under way.
ModelSelection has the selection file as Vault has its file.
LiveViews abstracts a table to the number of changes made to it: `serverAt` is
that number, `shown` the change that the cache of a query reflects, `told` the
newest change that the page heard of by an event or an answer.

## Runs

| Run | Properties | Shows |
|---|---|---|
| `outbox` | `ExclusiveClaim`, `PublishedAsWritten`, `FailedIsDeadLettered`, `ImplementsLifecycle` | rows tell the truth, claims are exclusive and the lifecycle is implemented, with lost answers and one stop |
| `outbox_live` | `RowsMatchPlatform`, `DueIsSettled` | on a platform whose errors mean "not posted", nothing is posted twice, nothing editable is live and every due post is settled |
| `waits` | `WaitersMatchEntries`, `FirstOutcomeStands`, `TimedRequestSettles`, `BudgetsAreKept`, `ConversationIsKept`, `Answered` | the queue's races with ids used again and a full queue; budget, warnings and how far sleepers overdraw the quota; YouTube's units and their alert; chats sent to while they are answered; every timed wait ends |
| `community` | `PeopleDecide`, `AuditTellsWhatWasSent`, `AuditIsFinal`, `PagesAreRight`, `IdentityHasAccount`, `PersonIsWhole`, `OutcomeIsAggregate`, `TrailExplainsState`, `MessagesAreCountedOnce`, `ComposerAgrees` | replies need people's consent, the ledger is true and final, contacts survive merges whole, pages agree, rules explain what they did, messages are counted once |
| `accounts` | `ExchangeIsAskedOnce`, `VaultKeepsItsWord`, `RefreshIsFaithful`, `RestoredVaultIsKept`, `ConnectedTokenIsWhole`, `ChatsFollowDecision` | states are used once, the vault keeps what it confirmed, refresh and restore do no harm beyond what is named, the stored token is the promised one; chats follow decisions |
| `workbench` | `TableTellsWhatBegan`, `PublishesAreAccounted`, `ShowsWhatItWasTold`, `FinishedIsComplete`, `RulebookIsAsTold`, `SelectionIsKept`, `DoneIsStored`, `FiguresAgreeAndArrive`, `ServerIsWhole`, `TranscriptsAreWhole`, `QuotaIsKept` | the remaining components, one property each |
| `oauth_wizard` | `RefusedForCause` (violated) | with the server's two stores no state that the wizard issued is accepted |
| `crm_erase` | `DecisionsAreErased` (violated) | decisions of a deleted contact stay in the audit |
| `restore` | `RestoreIsWhole` (violated) | a restore can end with an empty database |
| `live_inbox` | `NewMessagesAppear` (violated) | an ingested message does not reach an inbox on screen |
| `inbox_sections` | `EveryMessageIsShown` (violated) | a polled LinkedIn comment is in no section of its thread |
| `top_posts` | `CardsAndTopPostsAgree` (violated) | totals of one day stand beside the leaderboard of another |

`waits`, `community`, `accounts` and `workbench` are sums: their components share
no variable, so instead of the product of their state spaces a variable `part`
chooses in the initial state which of them moves, and the others rest. A behaviour
of a sum is a behaviour of one component, so each property says what it would say
in a run of its own, and the state count is the sum of the components'. Where
components do share state they are composed properly: Telegram and DmReplies
contain ApprovalQueue, InboxRules the engine, Crm the score, and the deletion in
Crm reaches the tables that ingestion, insights and the audit write.

The type invariants are conjuncts of the properties named, or are proved.

### Where the code and its text disagree

The six violations, each with its quotation in PROJECT.json under `findings`:

- `oauth_wizard`: the setup wizard's state store is not the callback router's
  (`src/server/index.ts:491` and `:338`).
- `crm_erase`: the cascade binds a number where the audit holds text
  (`src/crm/gdpr.ts:136`).
- `restore`: triggers precede their tables in the dump, and nothing brings back
  what was dropped (`src/vault/backup.ts:92`, `src/vault/restore.ts:136`).
- `live_inbox`: the page listens for `inbox:message` (`ui/lib/inbox.ts:260`), and nothing
  that ingests a message emits it.
- `inbox_sections`: a comment stored without a kind counts as a DM, and LinkedIn
  has no DM section (`src/connectors/linkedin/comment-poller.ts:84`).
- `top_posts`: the leaderboard has a newest day of its own
  (`src/analytics/repository.ts:296`).

In other places a sentence promises more than the code keeps. There the property
is what the code does keep, and the exception is a named history or assumption in
it, so a reader can see how far the promise goes:

| Code | Text | What the model shows | Stated as |
|---|---|---|---|
| `src/platform/retry/backoff.ts:92` | "makes double-publish impossible" (`src/outbox/scheduler.ts:9`) | an answer is lost, the retry posts again | `RowsMatchPlatform` needs `~Lossy` |
| `src/outbox/poller.ts:107` | "if a tick is still in flight when the next fires, the new tick is skipped" (`scheduler.ts:7`) | a post deleted under its publish rejects the tick, whose other publishes run on beside the next tick | `GuardIsNeverWedged` counts only publishes whose tick still waits |
| `src/outbox/repository.ts:190` | none | rows of a process that ended stay `publishing` | `DueIsSettled` speaks of a serving process |
| `src/channels/telegram/telegram-channel.ts:228` | "events edit the pushed messages to show the outcome" (line 10) | a request settled before its push ended keeps its buttons, and its entry in `sent` for ever | `KeyboardAccounted`, cause `pushed` |
| `src/platform/dm/dispatcher.ts:164` | "halts AI processing on a thread a human has taken over" (line 13) | ownership is checked before the draft, not after the wait for approval | no property: the guard's own scope |
| `src/handoff/handoff-manager.ts:77` | the number of controllers is there "for leak detection" (lines 159-163) | a controller that is aborted before it is registered is never released | `ControllersAreInFlight` except `late` |
| `src/inbox/rules/repository.ts:325` | none | a rule that only flags sets a thread back to `normal` priority | `TrailExplainsState`: where no firing sets a priority |
| `src/inbox/rules/repository.ts:280` | "you can always see exactly which rule acted" (`docs/USER_GUIDE.md:276`) | deleting a rule blanks its id in the trail | `TrailExplainsState` except a deleted rule's id |
| `src/routing/pipeline.ts:151` | a reject "sends nothing" (`docs/ARCHITECTURE.md:759`) | with an awaiting send, a row is rejected under its send, or sent twice | `SentOnce` and `OutcomeStands` except `raced` and `lost` |
| `src/platform/rate-limit/broker.ts:156` | "Hard quota is enforced before time-window rate limiting" (line 155) | calls that slept after that check overdraw it | `OverdraftIsSlept` |
| `src/platform/rate-limit/broker.ts:164` | re-arms "after the bucket refills back below the threshold" (`docs/ARCHITECTURE.md:438`) | a bucket that refills under a sleeper is not sampled again: the next crossing is silent | `HighUseIsWarned` is about the flag, not the event |
| `src/connectors/twitter/dm.ts:117` | none | a DM whose answer has no id is delivered and not counted | `LedgerIsExact` except `delivered` |
| `src/connectors/twitter/publisher.ts:82` | none | with the quota used up a post fails outside the dispatch: no attempt, no dead letter of the platform's | `FailuresLand` except `quota` |
| `src/connectors/twitter/quota-guard.ts:89` | "fails closed rather than incurring overage" (`docs/ARCHITECTURE.md:634`) | concurrent writes exceed the cap | `OvershootIsConcurrent` |
| `src/vault/vault.ts:96` | "Atomic write" (line 90) | two writers share the temporary path | `FileIsWhole` except `clashed`, `AckedIsStored` and `CacheIsFile` except `met` |
| `src/vault/refresh-scheduler.ts:112` | none | a credential that the user renewed during a refresh is overwritten, or marked expired | `RefreshIsFaithful` except `touched` |
| `src/vault/restore.ts:116` | none | the server renames a file over the one that the restore has open: the restored vault is in a file without a name | `RestoredVaultIsKept` except those no longer `named` |
| `src/server/backup/router.ts:131` | none | two restores write the vault's file at once, or one after the other | `RestoredVaultIsKept` except `mixed` and `replaced` |
| `src/vault/vault.ts:99` | none | the server's cached vault, older than the restore, is written back over it | `RestoredVaultIsKept` except `stale` |
| `src/vault/vault.ts:103`, `:160` | none | a provider's key and the bot are stored at once: one is lost, or the file is unreadable, and the wizard shows "You're all set" | `FinishedIsComplete` except `met` |
| `src/server/model/selection-store.ts:82` | "atomically" (line 69) | two choices share the temporary path | `SelectionIsKept` except `clash` |
| `ui/components/onboarding/model-panel.tsx` and the social step | none | the panels of these two steps complete without looking at the server's answer | `DoneIsStored` is about the other steps |
| `src/platform/webhooks/router.ts:89` | "re-deliver webhooks on timeout/retry, so the receiver must be idempotent" (`event-store.ts:4`) | the delivery after a failed handler is dismissed | `DuplicateWasStarted`: begun, not finished |
| `src/connectors/meta/webhook-handler.ts:55` | "Stable per-event id" (`src/platform/webhooks/handler-registry.ts:15`) | two events of one second of one account share an id | `DuplicateWasStarted` speaks of ids |
| `src/connectors/youtube/quota.ts:105` | "the alert fires exactly once per UTC day regardless of how many writes happen after" (`docs/ARCHITECTURE.md:1053`) | two calls past 80 % both alert while the first alert is awaited | `AlertedOnce` except `marred` |
| `src/copilot/session-manager.ts:105` | "callers can't bypass the router" (`src/copilot/privacy.ts:45`) | a provider that the caller passes is not checked against the mode | `CloudOnlyWhenOff` is about the router's choice |
| `src/copilot/providers/copilot.ts:44` | "callers can't bypass the router" (`src/copilot/privacy.ts:45`) | Copilot's conversation is read when its session is open, not when the mode was checked | `CloudOnlyWhenOff` except a switch while it opens |
| `src/copilot/providers/openai-compatible.ts:97` | none | a usage's total is a figure of its own, 0 when it is left out | `TokensAddUp` except `uneven` |
| `src/copilot/session-manager.ts:152` | "a running token counter" (`docs/ARCHITECTURE.md:287`) | prompt tokens run on, completion tokens start again with every stated usage | `TokensAddUp` is about prompts and the sum |
| `src/analytics/scheduler.ts:37` | none | the digest may list more posts (`digestTopPosts`, `src/config/schema.ts:414`) than the leaderboard ranks | `SnapshotAgrees`: as far as the leaderboard goes |
| `src/connectors/twitter/dm.ts:200` | none | the poller stores the user's own messages as inbound | `UnreadIsNew` except `Mistaken` |
| `src/connectors/linkedin/comment-poller.ts:84` | none | the poller stores every comment as inbound, the user's own as well | `EachMessageOnce` but for LinkedIn |

### Bounds, and why they are enough

- Outbox: two posts, two contents (one in `outbox_live`), times 1..2, two
  attempts, batches of two, one stop. Every conflict is between one publish and a
  handler or another publish of the same post or the same tick. `copies`
  saturates at 2.
- Publishing: the code's five attempts; the quota there or used up; carousels of one
  child too few, of the least number and of one too many (a maximum of three stands for
  the platforms' ten); three polls, so that a container is ready at once, later or
  never; two rounds of the outbox's retry.
- Approvals: three requests over two ids and room for two, so that ids are used
  again and the queue is full. Telegram: two requests and two chats, so that a push
  can be half done. DM replies: three messages, two on one
  thread, and two drafts, so that one is taken over while the other registers.
- Rates: three calls whose costs fit, just fit or never fit, deadlines that are
  over at once, in time or late, a quota that three calls can overdraw; the clock
  ends after every deadline.
- AutoReply: one audit row (a row is read and written by its id alone), two calls
  that overlap, two texts, one crash.
- YouTube: four calls of two costs under a ceiling of five, so that reads or writes pass
  80 % and the ceiling; one midnight, one kill. Conversations: one session, two sends (a
  session is all that sends share), one chunk, a system message or none, a threshold
  that the second send passes, one switch of the mode.
- X quota: three writes, one of them a DM, under a cap of two, two months, two attempts,
  a restart.
- Vault: three calls, two at once (one reads what two wrote), two keys, two
  values, one crash. Refresh: two ticks over one account, connected up to three
  times. Backup: two imports of bundles of the live database, which may overlap; one kill.
- OAuth: three callbacks, two states, a platform without a connector; the clock
  passes one lifetime. Connecting: the app credentials saved and codes given out
  three times.
- Webhooks: four deliveries of four events: two share an id, one has its own, one
  has none; one crash.
- Inbox: a polled platform with DMs, one with webhooks and one whose comments only
  are polled; four messages, one without a date, one of the user's own; one reply;
  three days. Rules: two rules at a time of the eight inputs that
  between them have every operator and action; three messages on two threads.
- Crm: three accounts, so that what was merged is merged again; three contact ids; one
  record of metrics.
- Analytics: two days of two halves, windows of one and two days, a meter per
  kind of reading, two readings of each and one post; a leaderboard of one post, so that
  posts tie, are left out and outlast it in a digest of two (seven half days and two
  posts ranked in `top_posts`, whose week passes).
- Sessions: two, with two queued operations, two entries, one crash. Setup,
  models, onboarding: two requests under way, a reload at any time; one provider in
  the setup, since nothing depends on which it is; two of the five steps of the
  onboarding worked on.
- LiveViews: one change (inbox, auto-reply, outbox) or two of each table of a page and
  one lost connection. Server:
  every set of five of the features and every part failing or not; one alert.

The bounds are CONSTANTS, so every run ends where they are used up: this is why
the runs do not check for deadlock. A waiting that nothing ends is looked for by
the liveness properties instead. Symmetry is declared only for sets that nothing
orders, in runs of safety properties.

### Fairness

`outbox_live` assumes that the cron task goes on firing, that platform calls and
backoff sleeps of a post end (they are awaited promises of HTTP calls and of
`setTimeout`), and that the clock moves. Handlers, `stop`, `start` and the choice
between success and failure are not fair. A post that is due may be deleted or
unscheduled, and the process may stop: both satisfy the property. `waits` assumes
that armed timers fire, that time passes and that sleepers wake when their time
is over. No other run uses fairness.

## Proofs

`OutboxProofs` proves, for every set of posts and contents and every bound:

| Theorem | Says |
|---|---|
| `TypeCorrect` | `TypeOK` |
| `ClaimsAreExclusive` | at most one publish works on a post |
| `PublishedRowsAreLive` | a published row's content is on the platform |
| `FailedRowsAreDeadLettered` | a failed row has a dead letter |
| `RowsAreTrusted` | no post is published twice and what can be edited is not on the platform (`RowsMatchPlatform`, given `~Lossy`) |
| `GuardIsNeverWedged` | the guard is set only while a tick is under way |
| `OutboxImplementsLifecycle` | the outbox implements `PostLifecycle` |

The argument. `TypeOK` is inductive, and so is `ExclusiveClaim` with it: a tick
claims only rows that are `scheduled`, a post with a publish is `publishing` or
deleted, and no handler but delete leaves `publishing` (`OUTBOX_TRANSITIONS` and
the guards of update and reschedule). What rows say of the platform is not
inductive: `markPublished` writes the status long after the content was captured.
`ClaimInv` bridges the two: while the row is `publishing` it has the content its
publish captured, an `accepted` publish has that content on the platform, and a
`landed` one has its dead letter. `RowInv` is `ExclusiveClaim`, `ClaimInv`,
`PublishedAsWritten` and `FailedIsDeadLettered` together. `CopyInv`, with
`~Lossy`, counts copies: it adds to the two parts of `RowsMatchPlatform` that a
publish not yet accepted has created nothing, so the one attempt that is accepted
is the first. `GuardTracksTick` is inductive by itself. Each is proved by a lemma
per action or group of actions with a step per conjunct. The refinement shows
that every step is a step of `PostLifecycle` or a stutter, from `TypeOK` and
`RowInv`: the end of a publish maps to an abstract end only because its row and
the platform agree.

The assumptions are the named ones of `Outbox` and, for `RowsAreTrusted`,
`~Lossy`: with lost answers it is false.

The other theorems, each for every value of the constants that its module's named
assumption allows. "Invariant" names the inductive one; unless the table says more, it
adds to the property the types and what each step under way has already seen.

| Theorem | Says | Invariant, and why it is needed |
|---|---|---|
| **ApprovalQueueProofs** | | |
| `WaitersAlwaysMatch` | `WaitersMatchEntries` | `PendingIffWaiting` and `TimerIsOwn`, inductive together with the types: entries and waiting promises correspond one to one, so whoever settles an entry settles one promise that still waits |
| `SettlingIsFinal` | `FirstOutcomeStands` | the same |
| **AccountsProofs** | | |
| `ConnectionsAreWhole` | `ConnectedTokenIsWhole` | `ConnectInv`: an exchange about to be stored has the token its connector promises, whatever its requests answered (`ExchangeIsWhole`) |
| `VaultIsKept` | `VaultKeepsItsWord` | `VaultInv`: unless two writers met at it, the temporary file belongs to one call (`TmpIsOwned`), and unless a call met a writer, every call works on what is stored and changes one key of it (`CallsSeeWhatIsStored`) |
| `RefreshesAreFaithful` | `RefreshIsFaithful` | `RefreshInv`: every tick is at a place its loop reaches (`TickIsPlaced`), its copy of the account is current or the account was connected since (`CopyIsCurrent`), refresh tokens in hand are good (`TokensAreHonoured`) |
| `RestoresKeepVault` | `RestoredVaultIsKept`, for any number of restores at a time | `BackupInv`: caches and complete bundles hold whole vaults or what was read of one cut off, and a file that is cut off has a restore that has it open, was killed at it or wrote it together with another (`CutOffIsKnown`) |
| `ChatsAlwaysFollow` | `ChatsFollowDecision` | `ChannelInv`, on top of the queue's invariant: a keyboard on a screen is in the references of the push under way, in `sent`, among the edits to come, or its send failed (`KeyboardsAreTracked`) |
| `ExchangesAnswerOneRequest` | `ExchangeIsAskedOnce`, for one store or two | `UseInv`: a state whose record is in the callback router's store, or that was not issued, has started no exchange; `PastInv`: times lie in the past |
| `StoresNeverMeet` | with the server's two stores every callback that reaches a connector is refused, and no state is ever exchanged (`NothingConnects`) | `StoresApart`: the callback router's store stays empty |
| **WaitsProofs** | | |
| `BudgetIsAlwaysKept` | the broker's part of `BudgetsAreKept` | `BudgetIsKept`, which is inductive as it stands: a call asleep was let past the quota and its deficit can be paid |
| `DailyQuotaIsAlwaysKept` | YouTube's part: no day above its ceiling, the charges of all days equal the costs of the calls passed on, one alert a day unless alerts overlapped | `YouTubeInv`: the ledger is that sum, by the lemmas on sums |
| `BudgetsAreAlwaysKept` | `BudgetsAreKept` | the two, lifted to the sum of the three components |
| `ConversationIsAlwaysKept` | `ConversationIsKept` | `ConversationInv`: a session that is answered ends in the prompt of its one send (`OneAtATime`), its prompt tokens are the sum of what its sends were told (`TokensAreCounted`), and the number of a switch marks the mode (`ModesAreMarked`) |
| **CommunityProofs** | | |
| `PeopleAlwaysDecide` | `PeopleDecide` | `DmInv`, on top of the queue's invariant: how far a dispatch is and what its approval says agree (`ChainFollowsApproval`), and a draft's controller is registered under its thread, unless it was aborted before (`late`) |
| `AuditAlwaysTells`, `AuditStaysFinal` | `AuditTellsWhatWasSent`, `AuditIsFinal` | `ReplyInv`: unless a row was resolved under a send, it has one send at most and none once it is settled (`OneSendAtATime`); what reached the contact shows by the row or by that send (`SendShows`) |
| `IdentitiesHaveAccounts` | `IdentityHasAccount` | `CrmInv`: stored addresses are normal, and no id is handed out twice (`IdsAreOld`) |
| `SuggestionsStayComplete` | the part of `PagesAreRight` about suggested merges | the same |
| `PagesAreAlwaysRight` | `PagesAreRight` | the same: a message's row number is its rank among its author's, so the batch and the single query keep the same newest ones, and a sum of sentiments cannot outweigh full marks elsewhere |
| `PersonStaysWhole` | `PersonIsWhole` | the same |
| `InboxIsInductive`, `MessagesAlwaysCountOnce`, `ComposerAlwaysAgrees` | `InboxInv`, `MessagesAreCountedOnce`, `ComposerAgrees` | `InboxInv`: one row per platform id (`StoredOnce`), which says the truth of its message or reply (`RowsAreTrue`); what was sent and read is past; a thread's recipient is the other party, or the user whose own message X's poller mistook |
| `OutcomeIsAlwaysAggregate` | `OutcomeIsAggregate` | `RulesInv`: stored rules are whole and have their own ids. The order of a finite set enumerates it (`Enumerates`), so the engine sees every enabled rule once, and what it has made of the first n of them is by induction the aggregate of those that match |
| `TrailAlwaysExplains` | `TrailExplainsState`: no change of priority or flag without firings that say why, the highest of those that set one, `normal` where none does | the same: what the rules fired say (`Explains`) is kept by every rule that follows |
| **WorkbenchProofs** | | |
| `FinishedIsAlwaysComplete` | `FinishedIsComplete` | `SetupInv`: a mark on the page and an answer under way each stand for a write that succeeded (`MarksAreConfirmed`, `AnswersAreConfirmed`), and until two writers met, what succeeded is in the cache and the file, and stays in what the one writer under way will write (`VaultHolds`) |
| `SelectionIsAlwaysKept` | `SelectionIsKept` | `ModelInv`: until two choices meet, the temporary file is that of the one choice under way |
| `DoneIsAlwaysStored` | `DoneIsStored` | `OnboardInv`: a mark in the browser, or an answer of any request under way that brings it, implies that the server stored it |
| `ServerIsAlwaysWhole` | `ServerIsWhole` | `ServerInv`: work begins after the sink is set and ends before the database closes (`WorkIsInside`) |
| `QuotaIsAlwaysKept` | `QuotaIsKept` | `QuotaInv`: entries and recorded writes correspond one to one, in months that have begun, and only DMs are delivered without one (`EntriesAreWrites`), and the guard remembers what it announced (`AlertsAreFired`) |
| `TranscriptsAreAlwaysWhole` | `TranscriptsAreWhole` | `SessionsInv`: an operation in its middle explains every difference between a ledger and its sidecar (`MidWay`), all others are at rest, and a kept entry has a ledger (`KeptHasAHome`) |
| `PublishesAreAlwaysAccounted` | `PublishesAreAccounted` | `PublishInv`: the requests left are a tail of the platform's plan (`RunIsOnPlan`), so nothing is published unless the container was waited for; posts nobody was told of are those whose answer was lost (`PostsAreBlurred`); dead letters count rounds (`Letters`) |
| `AlwaysShowsWhatItWasTold` | `ShowsWhatItWasTold` | `LiveInv`: events on the wire are in the order of the table's versions and none is older than what was told (`WireTells`), the window's own answer likewise (`AskTells`), and each query is new enough, marked invalid with a read to come, or in error (`ViewsAreFresh`) |
| `RulebookIsAlwaysAsTold` | `RulebookIsAsTold` | `VoiceInv`: the stored lists are normal, that is, a second normalisation changes nothing |
| `FiguresAlwaysAgree` | `FiguresAgreeAndArrive` | `FiguresInv`: of every stored figure of engagement there are posts that it adds up and that the leaderboard beside it ranks (`BoardsAreTheirs`), days lie in the past (`TablesArePast`), a digest has tried what its place says. That a leaderboard's ranks are 1, 2, 3 and so on, and what its posts add up to, follows from ranks being one-to-one (`RankedIsRight`) |
| `EventsAreHandledOnce`, `RefusalsLeaveNoTrace`, `DismissedOnlyAfterStart`, together `TableIsHistory` | `TableTellsWhatBegan` | `TableIsStarted`: the ids in the table are those of events whose handler began |

`StoresNeverMeet` is the finding of `oauth_wizard` for every value of the constants: its
one assumption is that the stores are two, as the server constructs them. No other
theorem assumes more than the assumptions named in the modules, but for the `~Lossy` of
`RowsAreTrusted`; `AlwaysShowsWhatItWasTold` and `EventsAreHandledOnce`,
for instance, hold for any number of changes, drops, deliveries and crashes.

**Induction.** Several invariants are about sums over sets (budgets, quotas,
engagement), about the greatest element of a set or about a fold over a list (the
rulebook, the rules). Their
definitions use the folds of the community modules, which choose elements by CHOOSE.
`Induction` proves, from the well-foundedness of the naturals, that a set of naturals
that is not empty has a least element, that a set which contains 0 and is closed under
+1 contains every natural, that a finite set of integers has a greatest element, that a
sum over a finite set exists, what one more element or one changed value does to it,
that a part sums up to no more than the whole and that the same values under other
names have the same sum.
Stated of sets, these facts need no operator as a parameter. `RulebookIsAlwaysAsTold`
and `OutcomeIsAlwaysAggregate` prove in the same way that folding over a list is its
step from one position to the next. What one condition evaluates to is not part of
this: `OutcomeIsAggregate` speaks of the rules that match, whatever the recursion over
a condition makes of it.

**The constants.** What the proofs assume of them are the assumptions named in the
modules, which TLC evaluates on every run: that an absent row is not a row
(`NoRuleIsNoRow`), that rules have numbers for their order and booleans for their
switches (`InboxRulesAssumption`), that lengths, limits and targets are numbers
(`CrmAssumption`), that ids can be compared (`AnalyticsAssumption`), and the like.

**Only model-checked.** Liveness (`DueIsSettled`, `TimedRequestSettles`, `Answered`):
there is no proof support for ENABLED. The six violations. Every safety invariant and
every action property of a passing run is a theorem (`RowsMatchPlatform` given
`~Lossy`, as in the run that checks it).

## Plan

Every component whose correctness depends on the order of events has its model, and
each safety property its theorem. Next, in this order:

1. `Vault` as an implementation of the atomic vault that `TokenRefresh` and
   `Backup` assume, for calls that do not overlap.
2. `ApprovalQueue` as an implementation of the decision that `DmReplies` and
   `Telegram` wait for.
3. What one condition evaluates to, by `Induction` over its depth.
4. A timed scheduler for the outbox's latency: one post in backoff delays the
   others.

## Not modelled

- Audit logging, metrics, the HTTP middleware (headers, body limits): each
  request passes them alone, and they keep no state that two requests share.
- Migrations: they run once, synchronously, before anything else.
- Configuration: parsing and validation of the environment and of a file at start.
  What it decides enters the models as CONSTANTS (`Features`, `Quota`, `Cap`).
- Within modelled components: the limit and offset of the contacts' list, which would
  show a page of it; the channel's `clear()`, which the queue's module has; a tick of the
  server that is under way when the database closes, and a second signal; writes of a
  session's files that fail while the process lives, and `renameTitle`, which replaces
  one sidecar.
- The desktop shell, styling and the presentation of pages.
- Texts: prompts, message formats, the n-gram similarity of the voice score. Where
  an outcome depends on a conversion (times as texts, `Number(x)`, case and space
  folding, ids bound as numbers) the conversion is modelled.
- Code without a caller in `src/`: the relay of `/dm` to a draft by Telegram, the
  insight pollers, the Meta scheduler, the requeue of dead letters. (The DM dispatcher,
  the refresh scheduler, the YouTube connector and the Copilot wrapper have no caller in
  the server either, but have tests and documented behaviour of their own, and are
  modelled.)
