# TLA+ verification of the Skanishi backend

The backend of the Skanishi game (FastAPI, PostgreSQL through SQLAlchemy's
asyncio sessions, Redis, Celery on RabbitMQ) lets players scan stickers, collect
the items behind them and earn XP, quests, achievements and collections.  This
directory models the parts whose correctness depends on an order of events:
requests that overlap, transactions that fail half way, messages that come twice,
deployments that meet, and a schema that is described in two places.
All paths below are relative to `src/`.

## 1. The system

### Components, their state and operations

| Component | State | Operations | Module |
|---|---|---|---|
| Scan and collection (`app/services/business/frontend_data.py` `claim_scan_reward`, `business/items.py` `collect_item_by_secret`) | `items`, `item_secrets`, `validations`, `xp_events`, `outbox_events`; Redis keys `rate_limit:scan:{user}` and `user:{id}:validation_count` | `POST /scan/claim`, `POST /items/secret` | `ScanClaim` |
| Validation count (`business/profile.py`) | the cached count in Redis | `GET /profile/validations/count` | `ScanClaim` |
| Transactions (`business/base.py`, `core/database.py`) | one `AsyncSession` per outermost method | begin, commit, roll back | in every module |
| Outbox relay and broker (`workers/outbox.py`, `core/events.py`, `core/celery_app.py`) | `outbox_events.status`, broker queues | `publish_outbox_events` every 2 s, `emit`, acknowledge, redeliver, `self.retry` | `OutboxRelay` |
| XP worker (`workers/tasks.py`, `services/user.py`) | `users.xp/coins/level/fragment_*`, `processed_events` | `process_scan_claimed`, `cleanup_processed_events` | `XpWorker` |
| Quest worker and claims (`workers/game_tasks.py`, `business/daily_and_quests.py`) | `user_quests`, `xp_events`, `users.xp` | `process_quest_progress`, `POST /quests/{id}/claim` | `QuestProgress` |
| Refresh sessions (`business/auth.py`, `services/refresh_session.py`) | `refresh_sessions`, the client's cookie | session of a login, `POST /auth/refresh`, `POST /auth/logout`, `cleanup_refresh_sessions` | `RefreshSession` |
| Login and referrals (`business/auth.py`, `init_data_replay_guard.py`, `business/referral.py`) | `users`, `xp_events`, Redis replay keys | `POST /auth/init` before its session, both referral rewards | `Referrals`, composed in `PlayerLinks` |
| Shop (`business/shop.py`) | `users.coins`, `users.fragments_*`, `user_cosmetics` | `POST` buy and craft; equip is left out | `Shop` |
| Daily reward and streak (`daily_reward.py`, `streak.py`) | `users.streak_days`, `last_login_at`, `last_daily_claimed_at`, `xp_events` | daily claim, `record_login`, `reset_expired_streaks` | `DailyReward` |
| Achievement worker (`workers/game_tasks.py:130`) | `user_achievements`, `xp_events`, `users.xp` | `process_achievement_check` | `AchievementWorker` |
| Collections and event goals (`business/collections.py`, `business/events.py`) | `user_collections`, `user_events`, `xp_events`, `users` | the two claims | `RewardClaims` |
| Seasons (`workers/season_tasks.py`) | `seasons`, `user_season_history`, `users.xp` | `close_active_season` | `SeasonClose` |
| The users row (`api/v1/dependencies.py`, `services/user.py`) | `users` | read a copy, write it back | `UserRow`, composed in `UserWriters` |
| User stickers (`services/ugc.py`, `business/ugc.py`, the sticker branch of `frontend_data.py:311`) | `user_stickers`, `user_sticker_scans`, `outbox_events`, the rate-limit key | make one's sticker, scan another player's | `Stickers`, composed in `PlayerLinks` |
| Migrations (`migrations/versions/`) | the schema, `alembic_version` | 14 upgrades and downgrades | `Schema`, `Migrations` |
| ORM models (`app/db/models/`) | none; what they expect of the schema | | `Models` |
| Deployment workflow (`.github/workflows/deploy.yml`, `docker-compose.yml`) | `.env`, the migrate container, the running image | a job per push; a downgrade by hand | `Deployment` |
| Seeds (`scripts/seed/`) | none of their own | fill an empty database | not modelled |
| Notifications and streams | none of their own (Redis pub/sub, Telegram) | `send_notification`, SSE | not modelled |
| Read-only views, administration, cryptography of tokens | none, generated CRUD, none | | not modelled, see section 7 |

### How they interact

* A request is one public method of a business service and one READ COMMITTED
  transaction (`business/base.py:96`, `core/database.py:54`).  Requests share
  nothing but the database and Redis.
* A claimed scan writes an `outbox_events` row in its own transaction.  The relay
  sends it to RabbitMQ as four tasks; the XP worker credits the user, the quest
  worker counts the scan, and the client claims what the quest worker completed.
* `get_current_user` (`app/api/v1/dependencies.py:36`) reads the user in a session
  of its own.  The object is stale by the time the endpoint's transaction writes
  it, and `users.xp`, `coins` and `level` are written as absolute values.
* Workers and requests write the same `users` row without a protocol; `UserWriters`
  puts the writers that keep a table of their own beside it on one row.
* A login by an invitation writes the row of another player, a sticker's scan the
  counter of another player's sticker.  Both are written from unlocked reads.
* A deployment migrates the database while the old code still runs, and only
  then replaces it.  Jobs share `.env` and the one migrate container of the
  compose project, and nothing keeps two of them apart.
* The models and the revisions describe one schema independently, by hand.

### What is hard

* **Stale reads under a lock.**  `SELECT ... FOR UPDATE` locks an item that the
  session already holds; SQLAlchemy keeps the attributes loaded before the lock.
  That ranks stay unique rests on an index, not on the lock.
* **Two endpoints, one table.**  `/scan/claim` and `/items/secret` both give ranks.
* **Redis beside a transaction.**  The cached count is deleted before the commit.
* **At-least-once delivery.**  Publishers overlap and die after sending; workers
  die before acknowledging; `emit` may fail after the first of four messages.
* **Lost updates** of `users` and of `user_quests.progress`.
* **Old copies written back.**  A claim, a purchase or an achievement can undo the XP of
  a daily reward, a season's reset or another purchase.  What must not happen is that
  something is paid twice, taken twice, or forgotten on the day it was paid.
* **Two ideas of a day**: 25 hours in one place, the calendar in another.
* **Overlapping refreshes and lost responses**, where a retry looks like theft.
* **Guards that fail open or close too early**: the replay key outlives a login that
  failed and can be lost while its initData is valid; the rate limit ends before
  the request it admitted.
* **Downgrades that nobody runs**, and revisions that meet rows older than they are.
* **Overlapping deployments**, of which the later can start with the earlier's image.

### What makes each component correct

* Scans: ranks of an item are 1 to its count, one per user; an event for every
  rewarded validation and none without; the client is told the truth, always.
* Cached count: stale only where a claim and a reader overlapped or a DEL failed, and
  not longer than its key lives.
* Cooldown: who commits a scan in it had read the secret before it began.
* Relay: what is marked published is on its way, done, or given up after its retries.
* XP worker: no XP and no fragments twice, no level that was not earned; every event
  settled in the end.
* Quests: completed by as many scans as asked, rewarded once, announced when complete.
* Refresh sessions: a login has one valid token at most, the one issued last; reuse is
  reported only when it is one, and a session that was logged out is over.
* Claims and achievements: a reward is in the XP once, with its flag.
* Shop: paid once and owned, never below zero.
* Daily reward and streak: a paid day is remembered; a streak is days with logins.
* Seasons: closed once each, one active.
* Logins: a player exists once and has one referrer for good; inviters form no cycle,
  but for the player who opened a link to the account about to be made and is its own
  inviter; both rewards are recorded once, whatever is replayed or fails.
* User stickers: one per player; a scan counts once and is announced to both sides.
* Migrations: every statement applies, every downgrade undoes exactly its upgrade,
  and a secret stays where it was when 0005 takes its free text apart.
* Deployment: the old code keeps what it was written for; a job that ends well has
  deployed its own image.

`PROJECT.json` lists each hazard at the line where it bites, with the properties
that cover it, or the reason why none does yet.

## 2. The modules

### RankLedger: what collecting promises

The abstract specification: for every item a sequence of collectors that only
grows at its end and holds a user once.  It stands for what
`ux_validations_user_item`, `ux_validations_item_rank` and "rank = count + 1"
(`validation.py:46`) are there for.

### ScanClaim: the claim, the collection and the cached count

One action is one SQL statement or Redis call with the code up to the next one.

| Action | Code |
|---|---|
| `RateLimit` | `INCR` of the rate-limit key, `frontend_data.py:276` |
| `LookupSecret` | hash, unlocked read of the secret, cooldown, `:302` |
| `LoadItem` | `get_active_catalog_item`: the `Item` object enters the session |
| `LockItem` | `get_active_item_for_update`: waits for the row, keeps the object |
| `CheckValidation` | an existing validation is 409 `already_collected`, `:404` |
| `Validate` | the rank from the count seen in `LoadItem`; UPDATE and INSERT; a unique violation is 409 `validation_conflict`, `:420` |
| `DropCache` | `DelCount`, the `DEL` of the cached count, answered by Redis or not; a failure is ignored |
| `Reward` | multipliers, first blood, `xp_events` and `outbox_events` rows, `:438` |
| `Commit` | cooldown and counter of the secret, COMMIT; the client may not hear of it |
| `GetCount`, `SelectCount`, `SetCount` | the three steps of `get_validation_count` |
| `Fail` | an exception or a crash at any step: roll back, Redis stays as it is |
| `WindowExpires`, `CacheExpires`, `CooldownEnds`, `Deactivate` | time, Redis, an administrator |

Abstracted: a reward is the secret's `reward_xp` and the first-blood factor, with a
free choice whether coins or fragments alone justify an event; the HMAC of a
secret is the secret itself; the token of a player's sticker
(`frontend_data.py:311`) is not among the secrets: its branch shares nothing with
this one but the rate limit and is the module `Stickers`.  Not in the model: deletion
of users, items or validations, and edits of `validation_count` by an
administrator; the properties assume there are none.

### ScanHistory: who got in whose way

`ScanClaim` with two history variables beside its state, which no guard reads.
`overtaken` are the requests that use something another request's commit has changed
since they read it: a scan that has read the cooldown of a secret when a scan of that
secret commits, a reader that has counted when a claim of the same user commits.
`crossed` are the users whose cached count met a claim: a `DEL` failed, or the count in
the key was set by an overtaken reader or between a claim's `DEL` and its commit; the
next `DEL`, clean `SET` or end of the key's life takes them out.  With them it can be
said that the unlocked cooldown and the cache go wrong in these overlaps *only*
(`CooldownKept`, `StaleOnlyInOverlap`).  Whether Redis answered is a parameter of
`DelCount`, so that a `DEL` the code forgets is not taken for one that failed.

### OutboxRelay: the outbox and the broker

Publishers are concurrent runs of `publish_outbox_events`: `Fetch` (any pending
events, up to the limit, in no order), one `Emit` for each event (all its tasks, or
a failure after some), `CommitBatch`, and `PublisherDies`.  The broker is a bag
of messages, each with its number of attempts.  `Take`, `Acknowledge`, `Requeue` and
`Retry` are what Celery does with `task_acks_late`, `task_reject_on_worker_lost` and
`max_retries`.  The modules of the workers extend it.

### XpWorker: process_scan_claimed

`Start`, `CheckProcessed`, `LoadUser`, `UpdateUser` (which waits for the row lock),
`CommitXp`, `PublishXp`, with `TaskFails` and `WorkerDies` at every step, and
`DeleteUser` and `CleanUp` around it.  The users row is modelled by what it
contains: `credit[e]` is how often the XP of event `e` is in the row's `xp`,
`fragments[e]` the same for its fragments.  `Credited` writes back the loaded
credits with the event's own (`services/user.py:164`), whatever was committed in
between.  Fragments are added after the repository has refreshed the row
(`repositories/base.py:132`).  When the event pays XP, the flush before the refresh
has locked the row, so the fragments start from the committed value and keep it;
an event without XP (not in `paid`) changes no column, its flush sends no UPDATE, and
its fragments start from an unlocked read.  `CleanUp` takes "older than 30 days"
to mean that no copy of the message is left.  That is an assumption: the DELETE
(`tasks.py:371`) only looks at the row's age, and a copy that came later would be
credited again.

The level is counted in events, too: `LevelAt` holds the numbers of paid events
with which a user reaches a level, and `level` is what is in the row.  A worker
loads it with the row, writes it only if the XP it is about to write reaches a
higher one (`Rises`), re-reads it with the fragments and writes a `level_up` event
if what it has re-read is above what it loaded.  `LevelEarned` bounds the row's
level by the events settled for the user, not by the row's XP: a stale worker may
take XP back and leave the level, or take both back.  Coins are those of `UserRow`,
which the worker has not joined yet.

### QuestProgress: the quest worker and the claim

`Start`, `Load`, `CommitProgress`, `Announce`; `Authenticate`, `CheckClaim`, `Pay`.
The quests are those with `condition_tag` "scan": the payload carries no tag, the
worker's filter is then `IN ('scan', NULL)`, and NULL never matches.  One user: rows of
different users share nothing.  `Pay` writes XP from the user row the request was
authenticated with, the same absolute write as above.  The type invariant speaks of
the module's own variables; `RelayTypeOK` is the relay's.

### RefreshSession: the chain of a login

Tokens are numbered in the order in which they are issued, which is also the order
in which they expire.  `Send` attaches the cookie (a browser only under the path
`/api/v1/auth/refresh`, `business/auth.py:42`), `LockForRefresh` and `LockForLogout`
are the locked reads with their outcomes, `Rotate` and `Revoke` the commits, `Reply`
delivers the response with its cookie or loses it; `Expire` and `CleanUp` are time
and the nightly task.  Here the locked read is the session's first look at the
row, so it does see the committed values.

### LoginChains: what refresh sessions promise

The abstract specification: for every login the set of its valid tokens, which a
login fills with one new token, a refresh replaces by another, and the end of
the login (a logout, or the clean-up for many at once) empties for good.
`RefreshSession` implements it with `live[l]`, the tokens with an active row that
descend from login `l`.  An expired row still counts as live: a refresh that
has looked at it in time rotates it, however late its commit is.

### UserRow, and UserWriters over it: the writers of the users row

`UserRow` is what all of them have in common: a session begins with a copy of the
row (`Begin`), takes its steps, and ends (`Finish`) or is rolled back (`Fail`).
`Paid` is `add_xp_and_check_level_up`: XP and coins as they were in the copy, with the
reward; every other column stays as it is committed, because
`BaseRepository.update` marks the columns it sets and SQLAlchemy sends those
that differ from what was loaded.  From that UPDATE to the commit the row is locked, so
a transaction whose reads of other tables are over by then is one step, and its
readers see all of it or nothing.

| Module | Actions | Code |
|---|---|---|
| `RewardClaims` | `Authenticate`, `CheckClaim`, `FindEvent`, `PayClaim` | `collections.py:119`, `events.py:134` |
| `DailyReward` | `OpenApp`, `RecordLogin` | `frontend_data.py:83`, `streak.py:41` |
| | `AskDaily`, `PayDaily` | `daily_and_quests.py:62`, `daily_reward.py:55` |
| | `ResetStreak` | `tasks.py:321` |
| `Shop` | `AskShop`, `CheckShop`, `PayShop` | `shop.py:51` and `:77` |
| `AchievementWorker` | `LoadUser`, `SelectLocked`, `Unlock`, `Announce` | `game_tasks.py:130` |
| `SeasonClose` | `BeginClose`, `SelectSeason`, `CloseSeason` | `season_tasks.py:15` |

`UserWriters` is their composition: a step of one leaves the tables of the others
alone, and the row, the history of `xp_events` and the sessions are shared.

Abstracted: XP is counted by source, `xp[s]` being how often the reward of source `s` is
in the column.  Coins are an amount beside `spent`, how often the price of each
cosmetic has been taken from it; `spent` is no column, it travels with the
amount as it is copied and overwritten.  Fragments are one purse, of one rarity.
A reward is worth one coin (`coins_for_xp` gives at least one).  The level is a
function of XP and left out.  Time is counted in half days; a session may see
midnight but ends within a day.  Which achievements have their conditions met is a
free choice.  `user_achievements` rows are written by the worker only and always
as unlocked.  Collections and events are completed by administrators (the collection
worker returns at once, because the `scan_claimed` payload has no `item_id`, and
nothing writes event progress), so `completed` is a choice of the initial state.
An event's goal is looked up by a string where its id is a BIGINT, which asyncpg
refuses: the claim of a goal then ends by `Fail` before it is paid, which the model
allows at every step.  `public` says whether some user has a public profile for as
long as the behaviour lasts; without one nothing is archived.

`loginDays`, `paidDays`, `closings` and `spent` are history, kept for the properties.

### PlayerLinks: PlayerSessions, Referrals and Stickers

`PlayerSessions` is what requests between players share: the table `users`, and
sessions that read without a lock.  A session is a task (`job`), a step (`pc`) and the
one counter it has read and will write back (`seen`).

| Module | Actions | Code |
|---|---|---|
| `Referrals` | `EnsureNotReplayed` | `SET NX` of the initData before the transaction; it lets pass what Redis fails to know, `init_data_replay_guard.py:22` |
| | `FindUser`, `InsertUser` | get or create; waits at the unique index on `tg_id` for another login of the same newcomer |
| | `LoadReferrer`, `Reward` | `business/referral.py`: the newcomer's reward, the inviter read, both written with their events in the login's commit |
| | `LoginFails` | an error: everything but the replay key is rolled back |
| `Stickers` | `LookForSticker`, `CreateSticker` | `generate_my_sticker`; the unique index on `user_id` |
| | `RateLimit`, `WindowEnds` | the key of `ScanClaim`'s `RateLimit`, with its life |
| | `FindSticker`, `FindScan`, `RecordScan`, `CountScan` | the sticker branch: sticker, own scan, INSERT, counter and two outbox events |
| | `RequestFails` | an error: everything but the key is rolled back |

`PlayerLinks` lets all of them meet.  Abstracted: the signature and age of initData
(`InitData` are the valid ones), the Telegram fields of users, tokens and the
refresh session a login ends with (`RefreshSession` has it).  `users.xp` is counted in
referral rewards, as nothing else in the module writes it.  A token is its
sticker's owner.  Users are not deleted, stickers not switched off.  The income of a
sticker's owner ends in the outbox: `emit` does not know `ugc_passive_income`, so
`process_ugc_passive_income` is never started.

A link names an account by its number, which may be one that is not there yet: such a
login ends in an error at the foreign key, except when the number is the one its own
INSERT draws.  The key is checked after the row is in (`0010`, not deferred) and nothing
else compares the two, so the newcomer becomes their own inviter (`Named`), reads the
signup reward back from the session's own object, and has both rewards, `xp` 2.

`raced` is history: the counters that some session has written between another
one's read and write.

### Schema, Migrations, Models and Deployment

`Schema` is the vocabulary: a schema is a set of objects (tables, columns, marks for
columns that an INSERT must give, indexes, constraints, enum types and labels), and
a statement creates or drops some.  It does not apply where PostgreSQL would refuse
it: a name that is taken, a reference to what is not there, an object others
refer to, a mandatory column on a table with rows.  `Migrations` has the statements
of `upgrade()` and `downgrade()` of each revision in the order of the code, each
written from its own half of the file.  `Models` is what `Base.metadata` relies on,
model by model.  Abstracted: types of columns but enums, texts of checks and of
partial indexes, ON DELETE; of the data only what 0005 moves out of
`item_secrets.coords`, as one secret with its numbers (`Placed`).

`Deployment` is one server with its database: `Copy`, `Install`, `Migrate`,
`RemoveContainer`, `StopOld` and `StartNew` are the commands of a job, `EndMigrate` the
end of `alembic upgrade head` in the container, one transaction for all revisions;
`Die` loses a runner, `Downgrade` is `alembic downgrade -1` by hand while nothing
runs.  An image is the last revision it carries.  A database starts empty or at
0004, the last revision before the secrets' places; any table there may have rows.

What `docker compose up` does to a container that another job started (joined, or
recreated when the image differs) and that an aborted migration leaves nothing
behind (PostgreSQL's DDL is transactional) is modelled from how the workflow and
`migrations/env.py` use them.

## 3. The runs

| Run | Instance | What it shows |
|---|---|---|
| `scan_race` | 3 scans or collections, 2 users, 2 secrets of 1 item, one of them without XP | ranks dense and unique, answers true, events earned once, a conflict means overtaken, the secret's counter never too high, nobody past a cooldown who came after it began |
| `scan_live` | 2 requests to all three endpoints, 2 items, one of which may be switched off, fairness | collecting implements `RankLedger`; every request is answered; a cached count is stale only by an overlap or a failed `DEL` |
| `xp_credit` | 2 events of one user, one of them of two tasks, the other with or without XP, 2 publishers, 2 workers, 1 fault or deletion, 1 retry, the second level at two events, fairness | XP and fragments never twice, and no fragments lost when both events pay XP; no level that was not earned; nothing published is forgotten; every event is settled or given up after its retries |
| `session_rotation` | 4 requests of one client | sessions implement `LoginChains`: chains do not fork, an ended login stays ended; reuse is real, logout is final |
| `quest_claim` | 2 scans, quests of 1 and 2 scans, 2 workers, 2 claims, 2 faults | completions earned, reward in `users.xp` once, nothing taken back, no early announcement |
| `user_row` | 2 sessions of one player in four mixes of tasks, 2 rewards, 1 achievement, 2 cosmetics, 3 seasons, 3 days | rewards in `users.xp` once, cosmetics paid once, no overdraft, a paid day stays paid, streaks earned, announcements once, seasons closed in turn |
| `player_links` | 2 sessions; one player at first, whose link two newcomers open and whose sticker all three scan; the newcomers also open each other's links, dead until their maker is there, one opens the link to the account they are about to get, and one comes without a link; 1 failure of the replay guard | no cycle of inviters but that one's loop; rewards recorded once, with their cause; a sticker's scans announced once to both; a counter loses something only where requests overlapped |
| `deployment` | 2 jobs of images 4, 11 or 14, from nothing or from 0004 with one of four pairs of numbers or none, 1 dying runner, downgrades | the schema is what the version says, no statement is refused, nor would be one of the next revision or of the last one's downgrade, secrets stay put, old code is served, nothing but the known gaps between models and schema, a lone job that ends well has deployed its image |
| `scan_conflict`, `xp_lost_update`, `session_logout`, `schema_models` | two actors or one, no fault | the findings of section 6 |

`PROJECT.json` names a mutant for every property of the passing runs: a plausible
bug in the code (a missing index, a dropped check, a lock not returned) that breaks
the property under the run's own configuration.  The mutated operators are
beside the originals, under comments that begin "Mutant".

`CHECK_DEADLOCK FALSE` in all runs but `player_links`: requests are served once, events
are recorded once, jobs run once, so every behaviour may stop when the work is
done.  In `player_links` tokens can be scanned without end, as the rate limit's key
runs out.

### Bounds, and why they are enough

* `Requests`: three collectors let a request be overtaken by a second one while a
  third waits for the lock, and let one user use both secrets while another
  takes the rank; a third is also what scans a secret whose cooldown has begun while
  another one is past it.  Two suffice for the cache: a reader and a claim.
* `MaxFaults` counts crashes, failed calls and deletions.  One is enough in `xp_credit`:
  overlapping publishers already send every message twice, so that a crash, a
  retry or a deletion finds a second copy.  In `quest_claim`, which has no second
  publisher, two faults let a worker and a publisher die in one behaviour.
  Failures of a scan request, a login or a sticker's request are not bounded.
* `MaxRetries` (3 in the code): one retry tells "sent again" from "given up".
* `Publishers`, `Workers` = 2: the races are between two readers of one row.
* `BatchLimit` (100 in the code) is 1 in `xp_credit`, with two events, so that
  the limit does bite.
* `MaxTokens` equals the number of requests, so it never stops one.
* `Workloads` of `user_row`: the tasks that may be asked for together, any number of
  times.  Each mix has a claim, which writes a copy of the row back, beside another
  claim, beside achievements and seasons, beside three purchases, or beside
  the login and the daily reward.  Both sessions may do the same, which is how every
  writer meets itself and a claim.  The theorems hold for all mixes.
* `MaxClock` 6 is the third day's midnight: a streak grows, breaks and is reset. Three
  seasons, each begun before the one before it ends, let two be closed.  The price
  of a cosmetic is all the player has at first.
* `player_links`: two sessions are a race at each of the three unique indexes and the
  two counters; two newcomers with links to each other are the smallest cycle of
  inviters of more than one there could be; `MaxLapses` 1 lets one initData be used twice.
* `deployment`: the images are the first revision with the game's tables, one before
  the cosmetics, and the last; with them a job may be older, newer or equal to the
  database and to the other job.  The four pairs are the cases of 0005: latitude
  first, longitude first, no longitude beside the latitude, no latitude at all.
  Downgrades take the database to every version, so that `MigrationsApply` and
  `OldCodeServed` look at each of the fourteen revisions.
* The theorems of section 5 remove the bounds for the safety properties of
  seven groups of modules.
* Symmetry is used in safety runs only; the runs with temporal properties over
  behaviours (`scan_live`, `xp_credit`) have none.  `NothingForgotten` of
  `quest_claim` and `GreenJobDeployed` of `deployment` are properties of single steps
  and treat all actors alike.

## 4. Fairness

* `ScanClaim`: weak fairness of each request's step (the event loop resumes a
  coroutine whose statement has returned; a lock that is given back is taken by
  some waiter, and every holder ends).  Nothing is assumed of failures, cooldowns,
  windows, the cache's keys or administrators.
* `XpWorker`: weak fairness of publishers (beat starts one every two seconds) and
  of a worker's `Start` and `Run` (a Celery process with a message runs it).
  Faults are never fair, and bounded.
* `RefreshSession`, `QuestProgress`, `UserWriters`, `PlayerLinks` and `Deployment` have
  safety properties only.

## 5. What is proved

TLAPS checks these for every value of the constants that satisfies the named
assumptions (`ScanAssumption`, `RelayAssumption`, `NoMessageAssumption`,
`XpAssumption`, `SessionAssumption`, `QuestAssumption`, `DeploymentAssumption`,
`PlayersAssumption`, `InitDataAssumption`, `AskedAssumption`, and for `UserWriters` the
assumptions of its parts and `WritersAssumption`), with any number of actors:

* `ScanClaimProofs`: `TypeOK`, `RanksDense`, `EventsEarned`, `AnswersHold`,
  `ConflictMeansOvertaken`, `SecretCounter`, the refinement `ImplementsLedger`,
  `StaleOnlyInOverlap` and `CooldownKept`; and `CacheNeverAhead`, which is in no run: a
  stale count is always too low.
* `XpWorkerProofs`: `TypeOK`, `CreditedOnce`, `FragmentsExact`, `LevelEarned`,
  `PublishedNotForgotten`, and `DeliveredForGood`, which says of steps what the
  former says of states and is in no run.
* `RefreshSessionProofs`: `TypeOK`, `OneLiveSession`, `TokenRotatedOnce`,
  `ReuseIsReal`, `LogoutEndsSession`, and the refinement `ImplementsChains`.
  `TokenRotatedOnce` is in no run: a second successor would be a second live
  session, which `OneLiveSession` shows first.
* In each of these three, `LocksAreGivenBack`: who holds a row's lock is at work on
  that row and waits for nothing.
* `QuestProgressProofs`: `TypeOK`, `CompletionEarned`, `QuestXpOnce`, `ClaimBacked`,
  `AnnouncedIsCompleted`, `NothingForgotten`.
* `PlayerLinksProofs`: `ReferralPaid`, `ReferralForest`, `ScansPaid`,
  `LostOnlyInOverlap`, and `ReferrersAreForGood`, a property of steps: an inviter
  never changes.
* `DeploymentProofs`: `GreenJobDeployed`, `SecretsStayPut`; and `SchemaOfVersion`,
  `MigrationsApply` and `OldCodeServed` from what is assumed of each revision by itself
  (below).
* `UserWritersTypes` and `UserWritersProofs`: `TypeOK` and all seven properties of
  `user_row`.

The type invariants are proved, by themselves or in the inductive invariants, and not
part of a run.

None of the invariants is inductive alone.

* **Scans.**  `RanksDense` needs a fact about each request between its `LoadItem` and
  its commit: the count it has seen is at most the committed one, and once its INSERT has
  passed the unique index and it holds the row lock, the two are *equal*.  For if
  the item had moved on, the ranks up to the new count would all be taken,
  the request's own among them.  That is why a stale read does no harm: density
  makes the index catch it.  The lock keeps the equality up to the commit.
* **The ledger.**  With `RanksDense` the validation at a rank is the only one, so
  the order of collectors is a function of the table.  A commit adds the row after
  the last one: the user was not in the order (one validation per user and item), and the
  rows of all earlier ranks are the ones they were.  No other step touches the table.
* **A secret's counter.**  `CounterInv`: what a request has read of the counter is no
  more than the validations of the secret, and, if it is not zero, first blood
  has been paid.  Both stay true while the request waits, for validations and events
  are never removed.  So what it writes, one more, is covered by its own row, and a
  request that read zero carries the first-blood event in the same transaction
  (`BloodReady`).
* **XP.**  `CreditedOnce` needs two facts.  What a worker has read of a users row are
  amounts of settled events (`SeenOnce`), so an event that is not settled is
  never in what a worker writes back but for its own commit.  And a settled event
  whose message a worker still holds still has its `processed_events` row
  (`Forgotten`: the row is only deleted when no copy of the message is left), so a
  second commit is a duplicate.  That nothing is added twice owes nothing to locks.
  That fragments are not lost does: a worker about to commit an event with XP holds
  the row lock, and what it has re-read is what is committed (`Locked`).
* **Published events.**  `Delivered(e)`: the event's XP task is in flight, or the event is
  settled, or it was given up.  No step ends it: a worker that acknowledges has
  committed (`OnlySettledLeave`), and whatever else takes a message from a queue or
  a worker puts a copy back or gives it up.  A publisher marks only what it has
  sent (`MarkedSent`).  That sending an event starts this task at all is a conjunct of
  `XpAssumption`: `emit` sends `process_scan_claimed` for every `scan_claimed` event,
  before anything else (`core/events.py`).
* **Sessions.**  `SessionInv` ties three things together: where the request is, which
  row it has locked, and that the locked row is still active; and says that the
  live session of a chain is its newest, and that a replaced token has exactly
  one request that replaced it.
* **Sessions as chains.**  In a chain whose live session is its newest there is at most
  one, so a rotation takes the whole of `live[l]` away and puts the new token there,
  which is a `Refresh`; the new token is the next number and nobody has it.  A logout
  and the clean-up take tokens away and nothing brings one back, which is an `End`.
  A login's INSERT starts a chain of its own, a `Login`; all other steps leave the
  sessions alone.
* **Locks.**  A lock is taken in the one step that makes its holder's next one a commit,
  a revocation or a write, none of which waits; every other outcome of a request goes
  through `Unlock` or `End`.  So nobody waits for a holder that itself waits, or that
  is gone: there is no deadlock among requests, which each hold one row at most.
* **The cached count.**  Validations are never removed, so a count was, when it was
  read, at most what it is now; `CacheInv` says so of the counts that readers are
  about to set too.  Thus a stale cache is always too low, never too high.
  `StaleInv` says when it is exact: a reader about to set, whom nobody overtook, has
  the number there is (`ReadsExact`), and of a user not in `crossed` a claim past its
  `DEL` has left no key (`DropsDone`), so that its commit makes none stale.
* **The cooldown.**  `CooldownInv` is `CooldownKept` said of every step past the lookup:
  a commit that starts a cooldown finds all who are there and notes them, and until it
  ends the lookup lets no scan through.
* **Levels.**  `PaidOnly`: only paid events are in a row's or a copy's XP.  With `SeenOnce`
  what a worker counts are then paid events settled by now, each once, and its own,
  which, having no `processed_events` row, is not among them (`Forgotten`).  So the
  level it computes is at most that of the user's settled paid events after its commit;
  and these only grow, as does `LevelOf`.
* **The users row.**  `RewardOnce`, `PaidOnce` and `NoOverdraft` rest on one idea: what
  can be proved of the committed row must be proved of every copy as well, since
  any copy may be written back.  `Good(x)` says of a row or a copy `x` that a reward
  in its XP has its flag and its `xp_events` row *by now*, and that what it has spent
  belongs to a cosmetic that is owned by now.  Flags, history and ownership only
  grow, so a good copy stays good.  The second fact (`Checked`) is that a claim that has
  found its flag unset, and the copy is older than that look, has nothing of the
  reward in its copy: its write adds one to zero, and a second claim repeats it.
  This is why two claims at once are harmless although nothing locks or is unique,
  and why a purchase is refused by the index whatever it has read.
* `AnnouncedInv`: what a worker is about to announce is unlocked, has not been
  announced, and no other worker holds it.
* `SeasonInv`, if some user is public: a season that has been closed is archived, one
  at most is active, and what a run is about to close is active still or archived by
  now.  In the second case the index stops it.
* `DayInv`: once the day is paid, the row says so; no writer but the claim sends that
  column, and the claim only writes the present day.
* `StreakInv`: the days of the row's streak, and of every copy's, have a login; and since
  a session read the row, either another login was written to it or the row has
  the copy's login and its streak, or that streak reset.  So what a login keeps
  because it is the same as in the copy is never too long.
* **Quests.**  `QuestInv` needs no fact about delivery: whatever message comes, how
  often, a row and every worker's copy of it have no more progress than runs that
  counted for it (`Earned`), so what is written back is earned although nothing is
  locked.  That a reward is in the XP once follows the idea of `Good` and `Checked`
  above: what is in `users.xp`, or in a copy, has its flag by now (`CopiesBacked`), and a
  request that has found its row unclaimed carries a user row older than that look,
  with nothing of the reward in it (`Payable`).
* **Players.**  `LinksInv` says that a session past its INSERT is the only one there for
  its newcomer or its pair (`Shared`: others wait at the unique index), and that of a
  counter nobody has raced, what a session has read is what is committed, and what
  is committed is what it counts (`Counters`).  Of a raced one, what was read is at
  least no more than there was to count.  So rewards are recorded once because of
  three indexes, and nothing is lost without an overlap.
* **Inviters.**  A player gets an inviter in the one commit that also adds the player's
  row (`LinkSet`), the inviter has a row by then or is the newcomer, and nobody refers
  to a player without one (`Strangers`).  So when a newcomer joins a set of players, one
  of the set refers to nobody else in it: the newcomer, if the inviter is outside the
  set or the newcomer; if not, whoever it was in the set without the newcomer.  The
  unique index on `tg_id` is what keeps a second login from giving a player who is
  there another inviter.  What a session reads of an inviter who is the newcomer is its
  own reward (`Own`); the commit then adds the second to it (`RewardOfOneself`).
* **Secrets and jobs.**  `PlaceInv` carries the place of the secret through upgrades,
  refusals and downgrades; nothing but 0005 touches it.  For `GreenJobDeployed`: a job
  that has never shared the server is the only active one, so that `.env`, the migrate
  container and the version are its own from one step to the next.
* **The chain of revisions.**  What one revision makes of a schema is not proved, but
  computed by TLC: the theorems assume it in three formulas without variables,
  `EachUpgradeApplies` (the statements of a revision turn the schema of the one before
  into its own, whichever tables had rows), `EachDowngradeReverts` and
  `EachRevisionServes` (a revision after 0005 takes nothing from the code of the one
  before).  `MigrationsApply` and `OldCodeServed` have them for the version the
  database is at, and the run takes it to all of them.  From there it is proved
  that a migration over several revisions, in one transaction, ends in the schema of the
  last (`UpgradeOverSeveral`); that this is kept whatever the jobs do (`ChainInv`: the
  schema is that of the version, and no name stands for an image outside the chain);
  and that code is served by all later schemas, not only the next (`ServesOnwards`).
  The prover has no induction here; fourteen steps are written out once (`Climb`).

The proofs are laid out as a frame lemma for steps that leave the tables alone, one
lemma per writing action, and a theorem that collects them.

Model-checked only: liveness (`EveryRequestAnswered`, `EventuallySettled`), which is out of the prover's reach; `OnlyKnownGaps`, which, once
the schema is that of the version, only says what one given list of statements
comes to; and, for the same reason, what the theorems on the chain assume.
No module declares
a RECURSIVE operator.

## 6. Findings

1. `scan_conflict`: two users who collect an item at the same time do not both
   succeed, as `BACKEND_TZ.md:1891` asks.  The overtaken one gets 409.
2. `xp_lost_update`: two events of one user in two workers; one update of XP and
   coins is lost although both events are `DONE`.
3. `session_logout`: the cookie's path keeps a browser from sending it to the logout
   endpoint, so that logout revokes nothing.
4. `schema_models`: on a database made by the migrations the models find no
   `outbox_events` and no `processed_events`, timestamps missing in six tables, no label
   `red`, and no unique index on `xp_events` over user and source; every reward of
   a scan fails there.  `BACKEND_TZ.md:2310` calls the schema done when the upgrade
   passes from scratch, `:2139` says the indexes are in the migrations.
   `OnlyKnownGaps` shows that nothing else is missing.

Met while modelling, without a run of their own:

* The branch that marks the event of a deleted user as skipped (`tasks.py:71`) is dead
  code, because `get_user_by_id` raises; the task is retried and given up, as
  `XpWorker` has it.
* A scan that is delivered twice counts twice for a quest (`game_tasks.py:91`), although
  the docstring of that module (`:8`) calls all its workers idempotent.  `QuestProgress`
  has it so: completions are earned by as many counted *deliveries* as asked.
* A login whose `ref_<n>` is the number its own INSERT draws makes a player who is
  their own inviter and has both referral rewards: nothing compares the two
  (`business/auth.py:166`, `services/user.py:131`), and the foreign key of 0010 accepts it.
* The income of a sticker's owner is never paid: nothing dispatches the event type
  `ugc_passive_income` (`core/events.py:97`).
* Notifications are published on `sse:user:{id}` (`tasks.py:276`), streams subscribe to
  `user_events:{id}`.
* An event's goal is looked up by a string where its id is a BIGINT
  (`repositories/event.py:94`).
* Revision 0005 is refused for a secret whose text holds a latitude and a second number
  that is no longitude: the check constraint it creates does not hold for the place it
  has just moved.

## 7. Not modelled

* Notifications (best effort, without state), read-only queries and the building of
  responses.
* The administration's generated screens; their effects appear as `Deactivate` and
  `DeleteUser`.  Moderation of stickers, likewise a screen, does not appear.
* Signatures and hashing: a token is a number, a secret a model value.
* Usernames: a login also writes the Telegram fields, and two players who swap
  their usernames block each other's logins at `ux_users_username_not_null`.
* Seeds: a script run by hand on an empty database, in one transaction.
* The rate limit as a matter of time: every rejected scan renews the life of the key,
  so a client that never pauses is never let in.  The models let the key run out
  at any time, which is right for what may happen, and says nothing of starvation.
* What an archived season holds, and the leaderboard.
* Event loops and connection pools are taken to work.

## 8. Plan

In this order, each with its runs and, where marked, proofs.

1. The XP worker and the quest claim as further writers in `UserWriters`, with the
   worker's users row refined by the common one, and the referral rewards after them.
2. Proofs: all safety properties of the runs are proved but `OnlyKnownGaps`.  With the
   XP worker in `UserWriters`, a refinement of its row by the common one.
3. `RateLimit` with a clock: the starvation of a client that does not pause.
4. Usernames at login, with the unique index that makes two logins depend.
5. `process_ugc_passive_income`, once its event type is dispatched.
