# Redup, specified

Redup is a forum: a Go server (Gin, GORM, Postgres, Redis) and a Next.js client.
This directory holds TLA+ modules of the stateful parts of both, TLC
configurations that check them on small instances, and TLAPS proofs of what
matters most about them for every size. Paths of Go files are relative to
`src/backend/internal/`, those of TypeScript files to `src/frontend/src/`.

Contents: [how the server runs](#how-the-server-runs) ·
[how the client runs](#how-the-client-runs) · [inventory](#inventory) ·
[modules](#modules-and-the-code-they-model) · [runs](#runs) ·
[fairness](#fairness) · [proofs](#proofs) · [findings](#findings) ·
[abstractions](#abstractions) · [not modelled](#not-modelled)

## How the server runs

* Each HTTP request is a goroutine; `gin.Recovery` (`app/routes.go`) ends a
  panicking one and nothing else. Some requests start goroutines that outlive
  them: moderation of replies and topics (`forum/service.go`), bot replies to
  mentions (`bot/service.go`). Each has its own `recover`.
* Postgres runs at READ COMMITTED, the default, and no SELECT takes a lock
  except the one in `invite/repository.go` `Consume`. A transaction that reads
  and then writes is therefore not atomic: what it read may be stale when it
  writes.
* Redis holds login failures, e-mail codes, reset tokens, revoked tokens, rate
  counters and cached link previews. Two calls to Redis are two steps.
* The hub of server-sent events lives in memory and is guarded by a mutex.
* A restart loses goroutines, open transactions and the hub, and keeps the rows.

**Steps.** In all modules one query is one step. A transaction is one step for
each of its reads, each seeing what is committed at that moment, and one step
for its commit, in which all its writes take effect. That is sound at READ
COMMITTED: the rows a transaction writes are locked from the write to the
commit, and nobody else sees the new values before. An
`UPDATE ... SET n = n + 1` works on the latest committed value, an `UPDATE` to
a value computed in Go on what was read. Writes of a transaction that are
guarded by a unique index fail as the index says.

## How the client runs

* A tab is one JavaScript thread. A handler runs without interruption from one
  `await` to the next, and anything may happen at an `await`: other handlers of
  the page, events of the stream, answers to older requests, other tabs and
  other people's requests at the server.
* Tabs share localStorage (the tokens, and the signed-in account that zustand
  persists) and nothing else.
* A page keeps React state from when it is mounted until it is left. A handler
  whose page is gone still runs, and what it sets is lost.
* A closure keeps what it captured when it was made: a handler knows the row, the
  snapshot or the token as they were when it was pressed or when its effect ran.

**Steps.** One action is one such stretch between two awaits. A request is three:
it is sent by the stretch that ends in its `await`, served by the server in one
step (or refused, or failed, before or after it took effect), and its answer is
handled in one step. Events travel in order on each connection and are handled
one by one; a dropped connection loses those on it, and may come back.

## Inventory

| Component | State | Operations | Interacts with |
|---|---|---|---|
| Replies of a topic (`forum`) | `posts`, `topics.is_locked`, `deleted_at`, `reply_count` | CreatePost, PostBotReply, UpdatePost, DeletePost, SetTopicLocked, DeleteTopic, asyncModeratePost | word filter, moderator, notifier, bots, rewards |
| Likes (`forum/interaction.go`) | `likes`, `like_count` | ToggleTopicLike, TogglePostLike | notifier, rewards |
| Board (`forum`) | `categories`, `topics`, `topic_count`, `sort_order`, bookmarks | Create/Update/Delete/MoveCategory, CreateTopic, SetTopicPin, SetTopicFeatured, ToggleBookmark | moderator, rewards, anonymous ids |
| Wallet (`credits`) | `users.credits`, `users.xp`, `credit_transactions` | Apply, Charge, Refund, RecordFreeUse, Penalize, AdminAdjust | everything that costs or earns |
| Rewards (`credits`) | the same ledger | Award, AwardLikeReceived | called by forum, likes, registration |
| Translation (`translation`) | cached translations | Translate | wallet, language model |
| Registration (`user`, `invite`) | `users`, `invite_codes`, `invite_code_usages` | Register, Ban, Unban, EnsureAdminExists; Generate, Validate, Consume, Delete | site settings, mail, rewards |
| Sign-in (`user`, `auth`, `redis`) | failure counters, locks, revoked tokens, rate counters | Login, Logout, Refresh, RateLimiter | `users` |
| E-mail codes (`user`, `redis`) | codes, cooldowns, reset tokens, `email_verified` | Send/VerifyEmailCode, request/confirm e-mail change, request/confirm reset, ChangePassword | mailer |
| Anonymous identities (`anon`) | `anon_id_mappings`, audit log | Assign, SetPrefix | topics and replies |
| Moderation (`moderation`) | moderation log | Check, LinkTarget, MarkResolved | language model, moderator bots, hub |
| Reports (`report`) | `reports` | Submit, SubmitSystem, Resolve, Dismiss | users' credit score, notifier, hub |
| Bots (`bot`) | `bots`, tokens, call log | Submit, Update, Delete, Approve, Reject, Suspend, SetModerator, AsyncTrigger, ManualInvoke | webhooks, replies |
| Event hub (`stream`) | subscribers and their channels | Subscribe, unsubscribe, Publish, PublishToAdmins | all producers of notices |
| Messages, follows | `conversations`, `messages`, `follows` | FindOrCreate, Send, MarkRead, Follow, Unfollow | hub, notifier |
| Caches | word list; link previews | Check, reload; Fetch | forum; web |
| Site settings, LLM client | settings rows; provider table | Save*, ReplaceProviders, CompleteWithFeature | most services |
| Announcements, skills, audit | their rows | create, list, delete | administrators |
| Administrators' console (`app/admin`) | the rows a page shows, filter, open editor or drawer, busy slot | list, filter, turn the page, edit, every button; pushed events | the API, other administrators, the stream |
| Forms that save documents (`app/admin/site`, `anon-settings`, `settings`, `my-bots`) | the page's snapshot, the form, saves in flight | load, edit, reset, change section, save | the API |
| Sessions in the browser (`lib`, `store`) | the tokens, the signed-in account of each tab, requests, streams | sign in, register, sign out, verify, page load, renewal after a 401, stream connect and reconnect | the API, other tabs |
| Bells, badges, conversations (`components`, `app/(main)/messages`) | counters, lists, open dropdown or page | seed, handle an event, poll, mark, send, open and leave | the API, the stream, other devices |
| Reading pages of the client | none that outlives a page | | the API |

**What is hard on the server.** Almost every operation is check-then-act over
several queries at READ COMMITTED, so requests that overlap break what each of
them guarantees alone. Verdicts of the moderator and replies of bots arrive
seconds after the content they concern, which may be edited, locked or deleted by
then. Counters (`reply_count`, `like_count`, `topic_count`) are kept beside the
rows they count. Money moves before the work it pays for and must come back when
the work fails. The hub sends on channels that the receiving end closes. Nothing
is retried after a restart.

**What is hard in the client.** Two sources feed one state: the answer to a
request and the event that reports the same change, in any order. A list is
replaced by an answer that was read before the latest event. One busy slot
serves a table of rows and several handlers. A form holds a copy of what others
may save meanwhile, and writes all of it back. Secrets are shown as bullets and
must not be saved as such. A request refused for its token renews it and is sent
again, while another tab signs out. A stream keeps the token it was opened with.

`PROJECT.json` lists each hazard at its line, with the properties that cover it
or the reason why none does.

**What makes each component correct.** Stated as properties where modelled (see
[runs](#runs)). For the others: a board's `topic_count` and category
order agree with its rows, and no topic is left without category; a lock of the
login guard outlasts every attempt it must stop, and no counter lives for ever;
an address is marked verified only by whoever was sent its code, a code or reset
token is used once; a user keeps one anonymous identity in a topic and every
anonymous post can be traced; a report is handled once and its penalty applied
once; a bot that is not approved never posts; a pair of users has one
conversation; a filtered word stays filtered; concurrent readers of a link make
one fetch and none of them waits for ever.

## Modules and the code they model

The server:

| Module | Code | State and actions |
|---|---|---|
| `Site` | | the users and request slots that components share |
| `Thread` | `forum/service.go`, `forum/repository.go` | `topic`, `post` are the rows, `req` the local variables of each request, `job` the moderation goroutine of each reply, `effects` the calls to notifier, bots and wallet. CreatePost is SubmitPost, CheckDuplicate, CheckTopic, ReadTopFloor, InsertPost, AfterPost; the bot's reply joins at CheckTopic. Deletion, edit, lock and deletion of the topic are a read and a commit each. |
| `Likes` | `forum/interaction.go`, repository `Toggle*Like` | `likes` are the rows with their primary keys, `likeCount` the column; a toggle reads the target, looks up the row, then deletes it or inserts one, moving the counter in the same commit |
| `Wallet` | `credits/repository.go`, `service.go` | `wallet`, `ledger`; `apply` is each call of Apply: ReadWallet, WriteWallet |
| `WalletOverlap` | the same, with histories | `crossed`: the calls about to write that overlapped another on their wallet; `torn`: the rows they wrote |
| `Accounts` | what the code says of Apply | abstract: a movement of an account is one step, from the balance there is; only while calls overlap on the wallet it may start from a balance of the past |
| `Rewards` | `credits/service.go` Award* | duplicate check, daily cap, Apply: one step each |
| `ThreadApart`, `LikesApart`, `RegistrationApart` | | the three components watched by `overlap`: the same steps, and whether some request began beside another |
| `LikeRewards` | both | composes `Likes` and `Rewards`: a toggle goes on to reward the author in the same request |
| `Translation` | `translation/service.go` | on top of `Wallet`: cache, quota, charge, model, refund or store |
| `Registration` | `user/service.go`, `user/repository.go`, `invite/*` | `accounts`, `invite`, `usages`; Register is Submit, ValidateCode, FindByUsername, FindByEmail, CountUsers, InsertUser, Consume |
| `Hub` | `stream/hub.go`, `stream/handler.go`, producers in `app/adapters.go` | `registered`, `closed`, `channel`; a producer stores a row, takes a snapshot of the subscribers and sends to them one by one outside the lock |

The client:

| Module | Code | State and actions |
|---|---|---|
| `Screen` | what the pages under `app/admin` share | the shape of rows, of a request (`Ask`) and of a handler: the requests it awaits in order and the busy slot it holds |
| `PeoplePages`, `ContentPages`, `JusticePages`, `LedgerPages` | seventeen `app/admin/*/page.tsx`: users, bots, invitation codes, anonymous identifiers; topics, categories, filter words, announcements; reports, moderation log, dashboard; audit log, bot calls, conversations, notifications, LLM calls, credits | per page: rows at first, filters, the rows a list request returns, the handler each button starts, what the editor or drawer can hold, what the server refuses and what each request does to its rows, what an event changes |
| `Console` | what React, `fetch` and the pages' common code (`reload`, `run`, busy slot) do with such a description | `tab[a]` is administrator a's page, `runs[a]` her handlers in flight, `mail[a]` the events on their way, `db` the rows. Press, SetFilter and Draft are the user; ServeList, ServeChange, Refuse and Fail the server; Resume a handler going on after an answer; Arrive and Elsewhere new rows and changes by others; Deliver and Disconnect the stream |
| `FormDocs` | `app/admin/site`, `anon-settings`, `(main)/settings`, `my-bots`: the inputs | each document's first value and what one event of an input makes of it |
| `Forms` | the same pages: load, edit, save; `platform/site/handler.go` and the other handlers that store them | `snapshot`, `active`, `form`, `saves` are the page, `stored` the server. Load, Input, Reset, Open, Save; Serve and Refuse (with the masking and unmasking of secrets); OnSaved and SaveAnswered, the two updates an answer makes; SaveFailed, Fade, Elsewhere |
| `Session` | `lib/api-client.ts`, `lib/stream.ts`, `store/auth.ts`, `AuthBootstrap`, `UserMenu`, `AdminGuard`, the pages under `(auth)` | a pair of tokens is the number of its issue; `storage` and `kept` are localStorage, `user[t]` and `stream[t]` a tab, `calls` requests in flight with the token they carry and whether it is the first attempt, the renewal or the second attempt |
| `Live` | `NotificationBell`, `MessageBell`, `AdminBadgesProvider`, the pages under `messages` and `notifications` and the handlers that serve them: `notification/service.go`, `messaging/service.go`, `report/service.go` and their repositories | `rows` at the server, `jobs` the changes it has stored and not yet published, `wire[w]` the events on each connection, `asks` the requests in flight, and what the widgets show: `count`, `dropdown`, `items`, `listed`, `sidebar`. Arrive, Decide and ServeSend store, Publish tells whoever is connected by then and lets a send be answered; everything else may come between the two |

`MC*` modules give the constants their values.

**History variables** change no behaviour; a property reads them to say of which
states it speaks.

* `overlap` (`ThreadApart`, `LikesApart`, `RegistrationApart`): some request began
  while another was at work. A property named `...Apart` is the exact version of
  one that overlapping requests can break, checked up to the first overlap. Such
  a pair says two things: the code is right when calls come one by one, over any
  sequence of calls, and this much of it survives when they do not.
* `crossed`, `torn` (`WalletOverlap`): the calls of Apply that have read a wallet
  beside another that had not yet written it, and the ledger rows they wrote.
* `mixed`, `changed`, `owed` (`Console`): whose answers or events overlapped,
  failed or were lost since the last clean list; whose requests changed rows;
  the remedies the accepted resolution of a row announced.
* `spoilt` (`Forms`): saves overlapped, lost their answer, were returned to after
  leaving the section, or somebody else saved, since the page was loaded.
* `out`, `mingled` (`Session`): signed out with nothing else in flight; tabs
  whose session another tab, a lost answer or an overlapping request interfered
  with since the page was loaded.
* `exact` (`Live`): values that were read from the server while nothing that
  changes them was stored and unpublished, or on its way, and have missed no
  change since: no event lost or published without a connection, no other
  device's mark, no report decided twice or before it was published, no notice
  marked a second time while its first mark is unserved, no message of a page left
  behind published while the page opened since has no stream yet. The last two
  take four presses. Two presses, the bound of `live`, do not reach them: the
  search for an inductive invariant did, and TLC confirmed them with four.

Definitions introduced by "Slip" are plausible mistakes in the definition they
precede. They are used by no action; each is there to show which property
notices if the code made it.

## Runs

| Run | Bounds | What it shows |
|---|---|---|
| `thread` | 2 users, one a moderator, 1 topic, 2 replies, 2 goroutines at a time; replies come in as one text and edits bring another; edits or 1 restart | HiddenNoticeIsTrue: an author is told his reply was hidden only when it is. OwnerToldOnce: topic owner, author replied to and mentioned users are told without overlap, the author of the reply never. ReplyCountNeverOver, FloorsConnected: the count is never over the visible replies, floors have no gaps; ThreadExactApart: both exact until goroutines overlap. DeletedStaysDeleted; LockDrains: locking lets only replies already past the check land; NoDoublePostApart: no double submit passes without overlap. |
| `like_rewards` | 2 users, a topic and an anonymous reply, 2 requests, midnight, 1 restart | OneVote: one row for each voter and target. LikeCountNeverOver, LikesExactApart: `like_count` never over the rows, exact without overlap, and a like given and taken back is rewarded once over days and restarts. RewardsKept: the daily cap is passed by at most the overlapping calls, XP goes to the author of signed content and from somebody else. |
| `wallet_refines` | 2 users, 2 calls at a time on any wallet, 3 ledger rows (two calls that overlap and one after them), 1 restart | LedgerChains: a row whose own call overlapped none on its wallet continues from the row before it, also after others overlapped there. AccountSpec: the wallet implements `Accounts`. |
| `translations` | 1 user, 2 requests, 2 texts, 7 ledger rows, midnight, 1 restart, fairness | PaidForResults: charges less refunds are the translations delivered for money, those on their way and those a restart cut off. ChargeIsSettled in the end. QuotaNearlyHeld: the free quota is passed by at most the overlapping calls. ChargeNeverOverdraws: no charge overdraws even though overlapping calls lose updates. |
| `registrations` | 3 applicants, a site with and without accounts at first, 1 code of 1 use, 2 requests, 1 restart | CodesKept: a code is redeemed at most `max_uses` times (InviteNotOverspent), and admits at most one account more for each other request that may overlap the last one (AdmissionsBounded). ExactApart: until registrations overlap there is one admin and no over-admission. AdminsStay: there is an admin as soon as there is an account, and none is ever banned. |
| `hub` | 2 tabs of one user, one of them admin, 2 producers, channels of 2, 3 events, fairness | RightAudience, ProducerOrder: events reach the right connections only, those of one producer in order and once. NothingLostSilently: who was subscribed gets an event unless its own channel was full, it left, or the producer panicked. PublisherNotStalled: a client that does not read stalls nobody. |
| `console` | 2 administrators, 2 rows, 2 handlers each, 2 presses, 1 fault; each of 17 pages, the topics page with both administrators | ScreensSound: what is shown are rows of the page, and a row stays off only while its handler runs, even if a request fails. ShownIsStored: a settled page shows what the server has, whether the change came by reload, by patch or by event. ClosedMeansDone: a report or log entry closed with remedies has had each of them, though any may fail, be refused or lose its answer. OnlyMeantChanges: a button changes the field it is for and no other, though its request carries more of the row than that, if nobody changed the row meanwhile. |
| `forms` | 4 pages, 10 sections of the site settings, 2 saves in flight, 2 inputs, 1 fault | FormsSound: a page without pending input or save shows what is stored unless saves overlapped or the like (`spoilt`). SaveCarriesBoxes: what the boxes show when Save is clicked is what is sent, although boxes commit on blur. SecretsKept: a save whose secrets are masked or empty leaves the stored ones, whatever rows are added, removed or put in another order. |
| `session` | 2 accounts, one yet to register, 2 tabs, 2 requests, 2 pairs of tokens at a time, 3 presses, 1 fault, fairness | SessionsSound: signed out with nothing in flight stays signed out. StoreFollowsTokens, StreamIsOwn: store and stream of an undisturbed tab are those of the owner of the tokens. RequestsEnd: no request is left hanging and none goes round for ever, though every token may expire as soon as it is issued and nothing but the code bounds the renewals: the numbers of pairs are used again. |
| `live` | notices, a conversation, the list of conversations, the administrators' badges; dropdown and page of 2, loads of 1 message, 2 rows, 2 presses, 1 fault, fairness | CountsExactApart: a counter read while nothing was on its way is the server's number again whenever nothing is, after any events and marks. WidgetsSound: no message is shown twice in a conversation though answer, echo and load all bring it. ThreadComplete: an open conversation lacks no message among the latest `Window` or since the oldest it lists, if its load crossed none and its stream missed none. SidebarCatchesUp: the polled list comes to agree with the server again and again. |
| `stream_stale` | 1 account, 1 tab, 1 request | violation: an open tab whose stream is refused goes on with the old token |
| `key_lost` | the site settings | violation: renaming a provider loses its key |

**Why the bounds are enough.** The hazards of the server are races between two
goroutines over one row: two slots let any two operations interleave at every
step, and a slot is reused, so sequences of operations of any kind are covered
too. Two replies allow a reuse and a duplicate of a floor. One restart falls at
every point of every request. One midnight separates the days the caps count. A
quota, cap or code of one use puts the limit in reach, and two requests against
it are what the `- 1 + Cardinality(Workers)` in the bounds is about: the runs
reach it. Channels of two events with three stored can fill, drain and fill.
In the client two handlers, saves or requests in flight meet each other and
whatever the server does by itself; two presses give the second one every moment
of the first one's life, and a fault falls on every request of either. Of the
console's pages only that of topics is looked at by two administrators: all
pages reload alike, and it has the request that carries half of a row as shown.
Of two pairs of tokens one is renewed and one its successor; a pair nothing holds
any more gives its number to the next (`Fresh`), so a request that was renewed
without end would be seen to. Three presses are a sign-in, a
request or page load and a sign-out. A dropdown of two with two
rows is full but not over: one that is over is only cut (`First`). A load of one
message (`Window`) with two rows leaves one out, as a load of fifty does in a
longer conversation.
Each bound is a constant of its module (`MaxInFlight`, `MaxRows`, `MaxLikes`,
`MaxAccounts`, `MaxBanned`, `MaxEvents`, `MaxCrashes`, `LastDay`, `Days`, `MaxPresses`,
`MaxInputs`, `MaxSaves`, `MaxIssues`, `MaxFaults`) and sits in the guard of the
action that begins something, so that whatever has begun can always end.

**Deadlock** is not checked: the bounds run out, and a server without requests
or a page nobody touches rightly does nothing. That what has started is never stuck
is what ChargeIsSettled, PublisherNotStalled, RequestsEnd and SidebarCatchesUp
are about.

**Symmetry** is used for reply ids, request slots, applicants (with their
addresses) and administrators, which no definition tells apart, and not in runs
with liveness.

**Mutants.** Every property has one in `PROJECT.json`: a definition with one of
its slips in place of its body, under which TLC finds the property violated.

## Fairness

On the server only goroutines that have started are fair, one by one and weakly
(`WF(CallStep(w))`, `WF(ProducerStep(p))`): the Go scheduler
runs every runnable goroutine, queries return, the call of the model and of the
moderator has a timeout, after which it counts as failed. Nothing is assumed of
clients, administrators, the clock or restarts, and liveness is stated for the
time after the last restart, because a restart loses the goroutine and nothing
takes its work up again.

In the client `fetch` settles every request, with an answer or an error, and the
browser runs its continuation. `Session!FairSpec` assumes the weaker fact that
while requests are in flight some one of them moves on. Each is renewed once and
people press a bounded number of times, so that is enough for each to end; that
renewals end is not assumed. `StreamSpec` adds that each tab's attempt to connect its
stream is answered, with a stream or a refusal. `Live!FairSpec` says that
the interval ticks or a poll is served, and that answers to polls are handled.
It says nothing of the user, other devices, events and connections.

## Proofs

TLAPS proves for any number of users, rows, tabs and concurrent requests:

| Theorem | Says | Argument |
|---|---|---|
| `ThreadProofs` ThreadTypeCorrect | TypeOK | needs that a moderation job or a request past its INSERT names an existing row, and two unwritten requests never claim one id |
| ReplyCountSafe | ReplyCountNeverOver | inserting adds one to both sides; a deletion takes a row away at most and decrements at least as much, down to 0; finiteness of the rows |
| FloorsSafe | FloorsConnected and FloorsNotReused | not inductive: a request holds the floor it read while others insert. `FloorReadInv` says its predecessor exists and it is above all the request saw. Rows are never removed, so both stay true until the INSERT |
| HiddenNoticeSafe | HiddenNoticeIsTrue | a job that is about to notify belongs to a reply that is not live, and none comes back |
| OwnerToldSafe | OwnerToldOnce | `ToldInv`: every notice is to somebody else than the author of an existing reply, and one to the topic owner came by the route "reply"; a request that is about to send notices carries the author and topic of the row it inserted. Two notices of one kind, reply and addressee are one |
| ThreadExactApartSafe, NoDoublePostSafe | ThreadExactApart, NoDoublePostApart | on top of the invariants above: until two goroutines overlap one at most is at work, so what it read is what is there when it writes. The floor it read is still the highest, its duplicate check still true, the reply it is about to delete still visible and counted (`FreshReads`); a restart leaves nobody at work |
| LockDrainsSafe | LockDrains | a request passes the gate only by a step that reads the topic, and that step stops at a locked or deleted one |
| DeletedSafe | DeletedStaysDeleted | an action property from the same invariant |
| `CreditsProofs` WalletMatchesLedger, ChargesAffordable, RowsFromHistory | WalletIsLastRow, ChargeNeverOverdraws, RowsStartFromHistory | a call about to write saw a balance from its user's past which affords it; this survives however calls overwrite each other |
| LedgerChainsSafe | LedgerChains | the wallet is what its owner's last row left (`LastInv`); a call about to write that overlapped none on its wallet saw what is still there (`SeenInv`), so its row continues from the last one |
| WalletImplementsAccount | AccountSpec | the same invariant: a commit is a movement from the balance there is, or from one the user had if its call is in `crossed`; every other step leaves the account alone. The past of an account maps to the start and the balances in its ledger rows |
| ChargesBuyTranslations | PaidForResults | inductive once it is known of every request that what it is about to write, or has written, follows from where it is (`SlotInv`): a charge that commits adds a row and a call that is owed a translation, a refund takes both away, an answer makes the call a paid one and a restart a lost one |
| FreeQuotaNearlyHeld | QuotaNearlyHeld | the free uses recorded today and the requests that found the quota open stay within the bound together (`FreeInv`), as with the caps of rewards |
| TranslationsAffordable | ChargeNeverOverdraws | the invariant of ChargesAffordable, kept by the requests of `Translation` |
| LikesTypeCorrect, OneVoteSafe, LikeCountSafe | LikesTypeOK, OneVote, LikeCountNeverOver | a pending DELETE names a primary key handed out before, which no later row gets; so it removes one row at most, of the target whose counter it decrements |
| LikesSafe | OneVote, LikeCountNeverOver | the same in `LikeRewards`: its steps are steps of `Likes`, or a restart, which only ends requests |
| RewardsSafe | RewardsKept | the rows of today and the calls past the cap (`CapInv`), and the rows of a like and the calls past its duplicate check (`OnceInv`), stay within the bound together: a call that passes a check found the rows below the cap, or none, and there are as many calls as requests at most; a commit turns a call into its row. A call serves its own award only, which keeps the author and liker of the toggle that began it (`SlotsInv`) |
| LikesExactApartSafe | LikesExactApart | one request at most is at work until the first overlap, so the row it found or missed is still there or missing when it writes, and a call that passed its duplicate check is the only one that can award (`FoundStays`, `OnceAlone`) |
| `HubProofs` RightAudienceSafe, ProducerOrderSafe | RightAudience, ProducerOrder | what a producer has still to send goes to its audience, and a subscriber it has not reached holds only earlier rows of that producer; no row in a stream is above the last one stored; a stream otherwise only loses events (lost buffers at a reconnect) |
| NothingLostSafe | NothingLostSilently | an event is still to be sent to a connection of its snapshot, in its stream, missed, broken, or the connection is closed (`Fate`); every step leads from one of these to one of these, and what is in a stream stays in it unless the connection closes (`HasStays`) |
| `RegistrationProofs` CodesKeptSafe | CodesKept | a request about to consume names an account of its code which has not redeemed it, and no two requests name one account; so each consumption adds one redemption, after a check under the same lock. An account a usable code admitted has redeemed it, is about to, or was cut off by a restart (`Accounted`); so when a request passes the validation the accounts are at most the uses so far and the other requests, and accounts and requests past it stay within `max_uses - 1` and the number of requests (`WithinBound`) |
| AdminsStaySafe | AdminsStay | a request that goes to insert a mere user saw accounts, of which one is an admin by then and stays; a ban under way is of no admin, and roles change only at a start without admins |
| ExactApartSafe | ExactApart | for sites that start with one admin at most (`LegacyHasOneAdmin`): until two requests overlap the one at work is alone, so its count of users and its look at the code are still true when it inserts and consumes |
| `SessionProofs` SignedOutSafe | SessionsSound | `OutInv`: while `out` holds there are no tokens, and every request in flight holds none and can bring none (`Harmless`); only a sign-in or registration ends this, and it ends `out` |
| StoreFollowsSafe, StreamOwnSafe | StoreFollowsTokens, StreamIsOwn | not inductive: a tab is wrong between the tokens' change and the handler that follows. `TabsInv` says of a tab that nothing interfered with that its store and stream follow the tokens, that its own request is the only one in flight and holds tokens of that account, and that no other tab's request can change them (`InTune`); `CallsInv` that a renewal brings tokens of the account it renews. Every action either keeps this for a tab or adds it to `mingled` |
| `FormsProofs` FormsSoundSafe | FormsSound | on top of the shapes below (`IInv`), which give every document of a section the same fields: until something spoils it (`CalmInv`) one save at most is in flight, the snapshot it captured is the page's, its section is the one shown exactly if its form is still mounted, and only a section whose save has been served may differ from the server, for which the answer holds what the server has. Putting the captured snapshot back then loses nothing |
| BoxesCarried | SaveCarriesBoxes | a box that is not typed in reads as the list of the form. It was filled from a stored list, which has no blank, capital or repeated entry and so reads as it is (`TidyIsRead`, `CleanIsTidy`), or was committed when it was left |
| SecretsKeptSafe | SecretsKept | documents keep their shape from the server through snapshot, form and save and back (`ServerInv`, `PageInv`, `SavesInv`), and the identifiers in an accepted save are unique, so the key looked up by identifier is that of the row itself, wherever the row was moved |
| `ConsoleProofs` ClosedSafe | ClosedMeansDone | what is left of a handler is `Ready`: a resolution in it is preceded, in the rest or among what took effect, by the remedies it names. Every button of the seventeen pages starts such a handler (one lemma per page); an answer takes off the first request, whose remedy took effect if it succeeded, and what took effect stays |
| ScreensSafe | ScreensSound | a handler in flight holds its slot until no request of it is left, and then frees the page's (`HeldInv`); that some other handler is freed with it is in what the property says: a slot that is taken has a holder. The lane of a new handler is free because a set of naturals has a least element |
| MeantOnly | OnlyMeantChanges | an action property. A request carries the fields of the row its handler captured that are not its own (`StepMeant`, one lemma per page: the level beside the weight of a topic, the word beside its switch); what the server does with it changes the field it is about, or sets the others to what they were (`Keeps`, one lemma per page) |
| ShownSafe | ShownIsStored | not inductive: rows are behind while an answer or event is on its way. `Fresh` says of an administrator whose answers and events did not overlap, fail or get lost that one handler of hers at most runs; that her rows agree with what the list would return, but for what the events on their way tell, or her handler will list again (`Shape`: it ends with a list, only looks, or patches a score); and that they agree once the answer she awaits is taken in (`After`). What the events are to tell of the server's rows is `MailInv`: a closing event carries the report as it is, a creating one does or a closing one follows it; one of the log names an entry that is there, with its verdict; the last failed bot call is the one the dashboard lists (its preview is the one entry of `Preview`, five in the code). A change by others is either in `changed` or brings the event that accounts for it (`Onward`) |
| `LiveProofs` CountsExactSafe | CountsExactApart | not inductive: a number is right only once the events on their way are handled. `CountInv` says what an exact number counts meanwhile: the rows whose event "new" is not still to be published or handled, and which are open or whose verdict is still to be, less those whose mark is on its way to the server (`Believed`), and that a row whose event is still to come will be counted (`Firm`); or the answer to "mark all read" is about to make it 0. An answer makes a number exact only if it carries the rows as they are and found wire, jobs and marks empty (`SoundInv`); that an event is handled once and a verdict after its report is `WireInv` and `JobsInv`: while the number of reports is exact there is one verdict on each at most, stored after the report was published |
| WidgetsSoundSafe | WidgetsSound | `ShownInv`: the list never holds a row twice, in any scene, because event and answer look for the row before they append it and a load replaces the list by rows that differ |
| ThreadCompleteSafe | ThreadComplete | `ThreadInv`: each row of an exact conversation that is owed, one of the latest `Window` or one not older than the first listed, is listed, has its event to be published or on the wire, or is named by the answer to the request that sent it, which its own page still awaits. A list only grows at its end, so no older row comes to be owed. A send left behind by an earlier visit reaches the list by its event only, so the stream has to be open when it is published |

Assumptions are those on the constants in the modules (`ThreadAssumption`,
`LikesAssumption`, `WalletAssumption`, `RewardsAssumption`, `LikeRewardsAssumption`,
`TranslationAssumption`, `HubAssumption`, `RegistrationAssumption`, `SessionAssumption`,
`FormsAssumption`, `IdsAssumption`, `ConsoleAssumption`, `NullAssumption`: that null is neither a
row nor an answer; `LiveAssumption`), which TLC evaluates in
the runs. Those of
`RegistrationProofs` also assume `LegacyInOrder`:
the admins of the site as it first starts, the promoted one included, are active
(as in `registrations`); ExactApartSafe that there is one at most
(`LegacyHasOneAdmin`). That no account from before the invite codes carries one is
in `RegistrationAssumption`.
WalletIsLastRow, RowsStartFromHistory, FloorsNotReused and the type invariants of
`Thread` and `Likes` are proved and, being that, not checked by a run.

**Only model-checked**: liveness, which with ENABLED is out of the prover's
reach (ChargeIsSettled, PublisherNotStalled, RequestsEnd, SidebarCatchesUp). Every
invariant and action property of the passing runs is the subject of a theorem. One
recursive function is proved about, `FormDocs!Lines`, and only for the lists of
one and two entries that `Boxes` holds (`LinesOfOne`, `LinesOfTwo`): what it
computes for every list needs induction over data, which the provers cannot
instantiate.

## Findings

With a run of their own:

1. **A stream keeps its first token** (`stream_stale`). `useStream` reads the
   access token once, when the effect runs, and uses it for every reconnect. Once
   it has expired the tab is refused for ever, though `lib/stream.ts` says it
   reconnects "as long as the caller still has a valid auth token" and a renewed
   token is in localStorage.
2. **A renamed provider loses its key** (`key_lost`). The server looks the stored
   key of a masked provider up by the identifier that is being saved. If that was
   edited, there is none and the empty key is stored; `lib/api/site.ts` and the
   form itself promise that a masked key is kept.

Without one. Each is stated as a definition which one can add to a
configuration (`FloorsUnique` of `Thread`; `EveryRowChains` of `WalletOverlap`; `OneBootstrapAdmin`
of `Registration`; `NoPanic` of `Hub` with channels of one event), or is what an `...Apart` property leaves out:

* `CreatePost` reads `MAX(floor)` and inserts without a lock or a unique index:
  two replies at once get one number.
* `Apply` "atomically updates the user wallet with the given deltas"
  (`credits/repository.go`), but computes absolute balances from a read without a
  lock: of two overlapping calls on one wallet both rows are in the ledger and one
  movement is missing from the wallet.
* Two first registrations both count zero users and both become admin.
* `Publish` sends on a channel that the connection's end has closed meanwhile,
  and panics. Whatever the request or goroutine still had to do is skipped.
* The duplicate check of a reply misses a double submit that overlaps it;
  `reply_count` and `like_count` fall below the rows when two deletions, or two
  unlikes, of one row overlap; a like can be rewarded once for each overlapping
  call of its liker.
* An invite code of one use admits two people who register at once; the second
  one's Consume fails without effect. The charge of a call that a restart cuts
  off is never refunded.
* In the client: counters drift once an event crosses the answer that seeds them:
  a row that is stored and counted, but published only after the answer, is
  counted twice, and the first reading misses what is published before the stream
  is open. They drift when two administrators decide one report, or when a notice is marked again because the dropdown was opened anew before
  its first mark was served; a message sent just before leaving a conversation
  is missing on return if it is stored after the new load and published before the new stream
  (`exact` of `Live`); a save whose answer comes after another section's puts
  the older copy of that section back on the page (`spoilt` of `Forms`).

## Abstractions

* Errors of the database itself are not modelled: a query answers. Errors of
  the model, moderator and webhooks are, and in the client a request may fail before
  or after the server served it.
* Texts, names and addresses are opaque values; the word filter and the
  moderator answer either way for any text.
* Site settings are read in one step with the request's arguments, and can
  change between any two steps.
* A row id is claimed when the request starts instead of at the INSERT, so that
  requests under way never run out of ids. Ids of likes come from the sequence.
* Reports of the notifier, the bot trigger and the reward are recorded in
  `effects`; the hub's panic is not carried into `Thread`.
* Registration leaves out the mail and the signup bonus (the latter is in
  `Rewards`), which do not touch its state.
* EnsureAdminExists promotes the earliest account without a look at its status;
  `registrations` is about sites whose earliest account is active.
* The hub visits the subscribers of a snapshot in any order, where the code goes
  by the age of the subscription. It has no restart, as it keeps nothing.
* Days are the server's local days, as in the code.
* A console page turns in pages of one row where the code has fifty, and a row
  has the fields its buttons and filters read. Confirmation prompts, notes,
  statistics and charts are left out.
* Inputs of a form that store what was typed are one field, `text`; one that
  converts (numbers, lines, domains, weights) or moves several fields has its own.
* Tokens expire at any moment at which something presents them, and are otherwise opaque; the refusal of a token
  and the refusal of a password are different answers, a lost answer is a third.
* Older messages than a load returns are on no page: the conversation never asks
  for them. All messages are of one conversation.
  The moderation badge counts every warning and block, dealt with or
  not, as its endpoint does and the comment in `AdminBadgesProvider.tsx` grants, so
  dismissing an entry changes nothing in `Live`.
* The two counts of the badges are requests of their own, served at different
  moments, and taken in together when both have come.
* The scroll position, the relative times and the typing of a message are left out.

## Not modelled

* **Board on the server**: topics exist from the start in `Thread`; `topic_count`,
  bookmarks and the swap of two categories are not modelled. `Console` has what
  the pages make of categories and topics.
* **Sign-in guard, e-mail codes, password reset**: single Redis commands with a
  200 ms budget, beside accounts in Postgres. `Session` has sign-in, revocation and
  verification as the browser sees them.
* **Anonymous identities**: one insert that tolerates the conflict of a unique index.
* **Moderation and reports on the server**: `Thread` has the outcome of a check,
  `Console` the handling of reports; the chain of filters with its degradations and two
  administrators' penalties for one report are not modelled.
* **Bots**: mentions, webhooks and tokens; `Thread` has their replies, `Console`
  their review, `Forms` their connection.
* **Messages and follows on the server**, **caches**, **the LLM provider table**.
* **Client**: the roles page edits a table that is never stored; the test mail,
  the change of password and of address are single requests beside a form; the
  announcements above the inbox and the widgets of the reading pages show what
  the server answers.
* **Announcements, skills, audit** (one statement for each call), **wiring and
  mail** (I/O).
