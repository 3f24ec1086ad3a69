# Formal model of LR-Agent-backend

LR-Agent-backend is a FastAPI service for accounts, refresh-token sessions and avatars
(`src/app`), with PostgreSQL, Redis and MinIO behind it, alembic migrations beside it (`src/alembic`) and a
diagnosis script (`src/scripts`). This directory models the parts of it that keep state,
checks them with TLC on small instances, and proves with TLAPS, for every value of the
constants, every safety property that a passing run checks, and some that no run does.

- [The system](#the-system): components, state, operations, what is hard
- [The modules](#the-modules): how state and actions correspond to the code
- [The runs](#the-runs): what each checks, its bounds, its fairness
- [The proofs](#the-proofs)
- [What the models show about the code](#what-the-models-show-about-the-code)
- [What is not modelled](#what-is-not-modelled)
- [Plan](#plan)

`PROJECT.json` lists, for every definition, the lines of the source it stands for, and for
every property a plausible bug that would break it.

## The system

### How the parts interact

Each HTTP request is a coroutine on one event loop (several worker processes are allowed;
they share nothing but the stores). It passes the rate limiter, gets a database session from
`get_db` (`app/db/session.py`), usually a user from `get_current_user` (`app/core/deps.py`),
and runs a handler of `app/api/v1`. The handler calls a service, which awaits commands to
Redis, PostgreSQL, MinIO or SMTP. Three facts about this shape everything below:

1. **Redis and MinIO commands take effect at once and for good; SQL waits for a commit.**
   `get_db` commits after the handler has returned and, with `yield` dependencies of the
   FastAPI version in `requirements.txt`, after the response has been sent
   (`session.py:42`). An exception rolls SQL back and leaves the other stores as they are.
2. **A request can be suspended, and can end, at every await.** There is no lock across
   awaits, no Lua script and no `MULTI`.
3. **A request works on a copy.** SQLAlchemy's identity map gives back the object loaded by
   the first SELECT, and a flush writes only the columns whose value has changed.

### Components

| component | state | operations | what is hard |
|---|---|---|---|
| **Refresh-token sessions** (`auth_service.py`, `security.py`, `deps.py`) | Redis: `lr:auth:refresh:{jti}`, `…:revoked:{jti}`, `lr:auth:user_sessions:{user}`; table `user_sessions`; `users.is_active` | login, refresh with rotation and reuse detection, logout, revoke-all-sessions, and the session side of delete-account and reset-password | two stores without a common transaction, a dozen awaits per request, two GETs decided on long before the writes, row locks in two orders |
| **Accounts and one-time tokens** (`auth_service.py`, `user_service.py`, `users.py`) | table `users`; Redis: verify-email and reset-password keys | register, resend, verify-email, forgot-password, reset-password, update-me, delete-account | check-then-write under unique indexes, stale copies, GET then DEL, mail between two writes |
| **Rate limiter** (`rate_limit.py`) | Redis: one counter per route and address | INCR, EXPIRE by the first, compare | two commands, fixed window |
| **Avatars** (`avatar_service.py`, `users.py`) | MinIO: three objects per key; `users.avatar_key` | upload, delete-avatar, the avatar side of delete-account | objects removed one by one before the row changes, swallowed errors, an image changed in place |
| **Database migrations** (`alembic/versions`) | the schema, `alembic_version` | upgrade and downgrade of ten revisions | concurrent commands at container start, guards that differ between revisions, a downgrade that does nothing |
| E-mail, verification page | none | one SMTP call, or a log line where `smtp_host` is not set, which is the default (`config.py:46`, `email_service.py:22-24`); one HTML page | I/O; both ways, and that sending can fail, are part of Accounts |
| Wiring, configuration, schemas, containers | none after start | | |
| **Vision-map diagnosis script** (`scripts/diagnose_vision_map.py`) | the report of an image, the list of reports, `<stem>/report.json`, `batch_summary.json` | single image, folder batch; per image: boxes, crops, mapping, comparisons | which results are on disk when a phase raises or a write is cut short, SystemExit that passes `except Exception`, runs over the output of earlier runs, images with one stem, boxes outside the image |

### What makes each correct

- **Sessions.** A token is accepted at most until it is revoked, never again afterwards. A
  refresh token is spent by its use; a second use is recognised. After revoke-all, password
  reset or account deletion, no earlier token works, and a closed account gets no new one. The table never claims a revocation
  that Redis has not made. No request waits for ever. Redis remembers a token as long as the
  token is accepted, and forgets a user who stays away.
- **Accounts.** One account per address and per name; an account exists only if its
  owner was mailed, where mail is configured; unverified → verified → closed and never back; a reset token is good
  for one reset; closing an account frees its address and its names.
- **Rate limiter.** A bound on what any window's length lets through; a blocked client
  recovers.
- **Avatars.** The avatar an account shows can be fetched, in every size; nothing public
  stays behind that no row names.
- **Migrations.** One version; the schema is the one of the version; `upgrade head` always
  succeeds.
- **Script.** A summary has every image of one run; what is done is on disk; a crop shows
  what is in its box.

The hazards behind these, each with its line, are under `hazards` in `PROJECT.json`.

## The modules

```
TokenRegistry  <--refines--  RefreshSessions  <--  MCRefreshSessions
     ^                             ^
TokenRegistryProofs  <--  RefreshSessionsProofs

TokenLifetime       <--  TokenLifetimeProofs
VisionMapDiagnosis  <--  MCVisionMapDiagnosis, VisionMapDiagnosisProofs

AccountLifecycle  <--refines--  Accounts  <--  MCAccounts, AccountsProofs
RateLimit   <--  RateLimitProofs
Avatars     <--  MCAvatars, AvatarsProofs
Migrations  <--  MCMigrations, MigrationsProofs
```

RefreshSessions, Accounts and Avatars have the same shape: a set of request slots, `pc[r]` for the await at
which request `r` is suspended, local variables per request, and one action per awaited
command together with the Python code up to the next await. `Arrive` is a client sending a
request, `Handle` the handler, `Fail` an error, timeout, cancellation or crash at an await,
which rolls SQL back. Definitions marked "Mutation" are plausible bugs of the definition after
them; no next-state relation uses them.

### RefreshSessions and TokenRegistry

`RefreshSessions` is `AuthService`'s session code.

| model | code |
|---|---|
| `refreshKey`, `revokedKey`, `userSessions` | the three kinds of Redis key |
| `sessionRow`, `isActive` | committed rows of `user_sessions`, `users.is_active` |
| `touched`, `userLock` | rows updated by an open transaction, and the strength of its lock on `users` (`FOR NO KEY UPDATE` for a password, `FOR UPDATE` for an address, which a unique index covers: only that one makes an INSERT with a foreign key to it wait) |
| `StoreKey`, `StoreMember` | `_store_refresh_session`: SETEX; SADD with EXPIRE and the pending INSERT |
| `Refresh`, `RefreshReuse`, `CheckKey`, `LoadUser` | `refresh`: the GET of the marker, the GET of the key, the second read of the account, the new pair |
| `DeleteKey`, `MarkRevoked`, `RemoveMember`, `UpdateRow` | `_revoke_refresh_session` |
| `ReadMembers`, `LoopDelete`, `LoopMark`, `DropSet` | `_revoke_all_sessions`, its Redis commands |
| `UpdateRows`, `FindRows`, `LockRows` | its UPDATE: on free rows at once; or the rows that are open when it starts, and, when their locks are free, those of them that still are. A row committed while it waits stays open |
| `FlushUser`, `Deactivate` | the autoflush of the new password before that UPDATE; `deactivate_account` |
| `Respond`, `Commit`, `Rollback`, `DeadlockVictim` | the response; `get_db` after its yield; PostgreSQL's deadlock detector |

`parent`, `family`, `delivered`, `late` and `held` are history: `held` has what the clients of a user
held when a revocation of all sessions began, `late` what the clients of a closed account got between the
beginning and the commit of its deletion. `delivered` matters to the
faithfulness of the model: clients present tokens that have reached them and no others, since
tokens are signed.

`TokenRegistry` is what this promises with the stores and the requests taken away: a token
is unissued, live, dead, in this order; a rotation kills a token before it brings its
successor to life, in the same family and for the same user. `RefreshSessions` instantiates
it with `status` computed from `refreshKey` and the requests in flight: a token is live
exactly while it has a key, so the SETEX of a new token and the DEL of an old one are the
steps of the abstract machine, and everything else stutters.

Two constants say what a run is about: `Overlap`, whether two requests of one user may be in
flight together, and `Faults`, whether a request may fail at any await. `Overlap = FALSE` is a user
who waits for each answer before sending the next request. The answer leaves before the commit, so
also then the next request may overtake the commit of the one before: `Admit` lets it in as soon as
the other has answered.

### TokenLifetime

The same Redis commands against the clock. `RefreshSessions` has requests that interleave and
no time; here one request of one user is in flight, and time passes (`Tick`) between any two of
its awaits. Tokens, keys, markers and the set are count-downs in ticks of a fraction of a
second: `exp` in a token is a whole number of seconds (`Mint`), Redis counts milliseconds, so a
key ends up to a second before its token.

| model | code |
|---|---|
| `tokenLeft` | `exp` of `create_token`, checked by `verify_token` |
| `keyLeft`, `markLeft` | SETEX of the key and of the marker |
| `members`, `setLeft` | SADD, EXPIRE, SREM, SMEMBERS, DEL of the set; a set that becomes empty loses its expiry, EXPIRE of a set that is gone does nothing |
| `Fail` | an error or a cancelled request at any await |
| `Evict` | `allkeys-lru` in `docker/docker-compose.yml` |

A jti that has left no trace is used again for a new token, so behaviours do not end. `spent`,
`stranded` and `happened` are history: `spent`, which tokens have been used up; `stranded`, the tokens
that left the set although their key is there, because Redis evicted the set, or because
it expired between SADD and EXPIRE and took the new jti along; `happened`, whether there has been a fault, an
eviction, or a "stray", a fault between SADD and EXPIRE of a set that had no expiry.

### Accounts and AccountLifecycle

`Accounts` keeps a row per user, the one-time tokens, and for each request `loaded`, the row
as its session read it, `draft`, the object with the attributes assigned since, and `dirty`,
the columns it has flushed. `Mail` is `EmailService._send`: with SMTP configured the token goes to the
server (`mailed`), without, to the log (`logged`) and nowhere else, and the request goes on as if it
had been mailed. `smtp` is chosen once, as configuration is. A token can be spent by whoever reads
it in either place. (With the log level the application leaves unset, INFO lines may not even be
shown.) `Changed` is SQLAlchemy's unit of work (the columns in which
`draft` and `loaded` differ), `Merged` the row the UPDATE produces from those columns and the
committed rest, `Waits` and `Taken` the row lock and the unique indexes. `Flush` sits where
the code flushes: at `flush()` for register and update-me, before the UPDATE of the sessions
for reset-password, at the commit for verify-email and login. `Expire` takes a one-time token
out of Redis at any time.

`AccountLifecycle` is the promise: accounts open under an address nobody holds, are verified
once, and stay closed.

### RateLimit

One route and one address, since keys of others are independent. `Incr` is INCR and the
comparison, `Expire` the second command of the request that got 1, `Tick` the passing of
time with the expiry of the key. `recent` counts what was let through in each of the last
`Window` ticks; `Passed` adds these counts up from the first on.

### Avatars

One account, since objects of others have other keys. `Put` is one resize and one
`put_object`: `edge` is the edge length of the image as the next resize finds it, which
`thumbnail` changes unless the image was converted to a copy (`inPlace`). `Remove` is one
`remove_object`, whose error is logged. `Refuse` is the wrong password, which `delete_account`
looks at after the objects are gone.

### Migrations

A schema is a set of pairs of a table and one of: "created", a column added later, an index.
`Up` and `Down` give what each of the ten revisions makes of a schema, with the guards that
each has or lacks, or `Failed` where it raises. A command (`Start`, `Commit`, `Abort`) reads the
version, walks to its target in one transaction, and moves the row of `alembic_version`,
which raises unless exactly one row matches.

### VisionMapDiagnosis

One process, so no interleaving: each action is a phase of `diagnose_single_image` or a step of
the loop in `run_folder_batch`. `Raise` is an Exception at any phase, which becomes the `error`
of the report; `Exit` is SystemExit, which ends the process; `Interrupt` is the process being
killed. The files (`details`, `summary`) outlive the process, and `Start` begins another run
over them, in batch mode or for one image. `Path.write_text` empties a file before it writes it:
`OpenReport` and `OpenSummary` leave the file torn, `WriteReport` and `WriteSummary` make it whole,
and a `Raise` or an `Interrupt` in between leaves it as it is, with what it held before lost. `boxes`
is the sequence of `box_index` values, `issues` which lists of the report are not empty. Of the
answers of the models and of the production mapping, which may give a box no label, one or several,
only these issues are kept: any phase with a box to ask about may find one, or none.
`Left` and `Right` are `crop_pil`'s arithmetic, in fractions of a pixel, with `int()`
truncating towards zero.

## The runs

| run | properties | instance | distinct states |
|---|---|---|---|
| `sessions_serial` | `TypeOK`, `OneLivePerLogin`, `DeliveredIndexed`, `RevokeAllComplete`, `RevokedRowNotLive`, `InactiveHasNoSessions` | 2 users, 3 tokens, 2 requests, faults, users wait for answers | 3.8 M |
| `sessions_overlap` | `LiveNotRevoked`, `SuccessorAfterRevocation`, `ImplementsRegistry`, `RequestTerminates` | 1 user, 2 tokens, 2 requests, overlap, fairness | 0.7 M |
| `token_lifetime` | `TypeOK`, `Remembered`, `IndexOutlivesKey`, `RevokeAllReaches`, `SpentNotRotated`, `OnlySpentIsReuse`, `FadesAway` | 2 tokens, lifetime 2 seconds, 2 ticks a second, faults, evictions, fairness | 3.4 M |
| `accounts` | `TypeOK`, `KeysUnique`, `RegisteredMailed`, `ImplementsLifecycle`, `ResetTokenSingleUse`, `ClosedAnonymised` | 2 rows, 2 addresses, 1 name, 2 one-time tokens, 2 requests, with and without SMTP | 1.2 M |
| `rate_limit` | `TypeOK`, `SlidingBound`, `BlockedRecovers` | limit 2, window 3, counter up to 5, fairness | 333 |
| `avatars` | `TypeOK`, `ShownIsComplete`, `NoOrphans`, `ClosedHasNoAvatar`, `CommittedIsStored` | 3 keys, 2 sizes, 2 requests | 0.3 M |
| `migrations` | `TypeOK`, `SingleVersion`, `SchemaOfVersion`, `HeadReachable` | 2 commands, all ten revisions, any target | 13 k |
| `vision_map_diagnosis` | `TypeOK`, `SummaryCovers`, `DetailsKept`, `CropCovers` | 2 images, 2 stems, 2 boxes, 2 repeats, 2 runs; 2 sizes, 6 offsets, 5 widths | 6.6 M |

and four runs that end in a counterexample to what a test, a docstring or a comment says of
the code; they are described [below](#what-the-models-show-about-the-code).

### What the properties say

**Sessions, whatever overlaps and fails.** `LiveNotRevoked`: no token has a key and a marker,
so it does not matter which of the two GETs of `refresh` comes first. `SuccessorAfterRevocation`:
whenever a successor is stored, its predecessor is dead and marked, so a replay is always
recognised as one. `ImplementsRegistry`: tokens only move forward. `RequestTerminates`: every
request ends. The run has no faults, since it is also the one with fairness; with faults, and
for every number of requests, the first three are theorems.

**Sessions of users who wait for each answer.** `OneLivePerLogin` (with single use, the
registry's `OneLivePerFamily`), `DeliveredIndexed` (a live token a client holds is in the set
that `_revoke_all_sessions` reads, also when requests die between SETEX and SADD),
`RevokeAllComplete` (when the answer to a revocation is on its way, no token held when it
began is live), `RevokedRowNotLive` (the table never runs ahead of Redis, whichever of
the two the failure spares). That requests of *different* users interleave freely, and that a
request may overtake the commit of the one before, is what makes this more than a
sequential test. For every number of users, tokens and requests all of these are theorems.
`InactiveHasNoSessions`: a client of a closed account has no live token, except one issued between
the beginning and the commit of the deletion. Such tokens exist, because the answer leaves before
the commit and the next login may overtake it; `late` records them at that commit, so tokens from
before the deletion, or issued after it, still break the property. Overlapping requests of one
user break `OneLivePerLogin` and `RevokeAllComplete` (`sessions_reuse_race`, `sessions_orphan`).

**Lifetimes.** `SpentNotRotated` and `OnlySpentIsReuse` hold whatever expires, fails or is
evicted: a missing key refuses, and only a marker, which only a spent token has, accuses.
`Remembered`: short of faults and evictions, Redis knows each token as live or as revoked until
the last second in which it is accepted, so a replay is recognised as one; in that last
second it is merely refused. `IndexOutlivesKey`: the set, whose expiry each new token renews,
lists every live token and does not expire before its key, except for the tokens that were in
it when Redis evicted it, and for a token whose SADD met the set in its last moment: the set
expires before EXPIRE comes, and that one token, but no older one, lives on outside.
`RevokeAllReaches`: the revocation that reads that set leaves no client with a live token,
even if members expire while it runs, with the same tokens excepted. `stranded` records exactly
these, so everything else still has to hold after an eviction or such an expiry.
`FadesAway`: with nobody coming, all of it is gone some time; the one exception is a request that ended
between SADD and EXPIRE on a set without expiry: that set stays, but no key and no marker does.
Neither faults elsewhere nor evictions are excused.

**Accounts.** `KeysUnique` holds because of the unique indexes, not because of the SELECTs
that come first. `RegisteredMailed`: where SMTP is configured, the account is committed only after
the mail; where it is not, only after the log line that takes its place.
`ImplementsLifecycle`: a stale copy never reopens an account or undoes a verification,
because a flush writes only changed columns. `ResetTokenSingleUse` needs that no two
requests have overlapped (the history variable `overlapped`). `ClosedAnonymised` is about what
`deactivate_account` clears: the address is gone whatever overlaps, the names and the verified flag if
nothing has overlapped. The code keeps the rest of the row, `password_hash` and `last_login_at` among
it, and `ip_address` and `device_info` in `user_sessions`.

**Rate limiter.** `SlidingBound`: at most twice the limit in any stretch as long as the
window; that is what a fixed window gives, and the requests that count between INCR and
EXPIRE do not make it worse. `BlockedRecovers`: a blocked client recovers unless a request has
ended between INCR and EXPIRE (`lost`).

**Avatars.** `CommittedIsStored`: a key gets into the row only when all its objects are there.
`ShownIsComplete`: without failures and wrong passwords, a missing object of the current
avatar is the doing of a request still in flight. `NoOrphans`, `ClosedHasNoAvatar`: nothing
is left behind, under the conditions each names. `happened` records which kinds of trouble
there have been, so that one run checks each property up to the trouble it excludes, and the
reader sees which that is.

**Migrations.** `SchemaOfVersion` names the one exception it needs: version 009 reached from
010 has lost the tables that 010 dropped, since the downgrade of 010 does nothing.

**Script.** `SummaryCovers`: a `batch_summary.json` that is whole has every image in its place, errors
included, and is of one run; a run that ends while it writes the file leaves it torn, and the summary
of an earlier run is lost. `DetailsKept`: `report.json` of an image that is done is on disk, whole, from the
moment it is listed, also if a later image ends the batch by SystemExit, until another image
with its stem is written, and if that write fails both are lost (`TornLater`); where no image of
the batch is done or torn, it is one of an earlier run or absent. `CropCovers`: a crop is inside
the image, not empty, and has every whole pixel of the image that lies in the box.

### Bounds

- `Jtis`, `Tokens`, `Keys`, `Users` of Accounts: identifiers are never used twice, so a
  behaviour ends when they run out. Two tokens are a rotation; three are a rotation and another
  login, or two rotations in a row; the counterexamples take three. Two one-time tokens are two
  registrations, or one registration with a second verification mail or with a reset, and each
  token can be presented by two requests that race. In TokenLifetime two tokens are the old and
  the new one of a rotation, or two sessions of a user; no property relates three, and tokens
  are used again. Three avatar keys are the current avatar and two uploads that race for its place.
- `Requests`: two in flight. Redis, the row locks and the unique indexes relate two
  requests at a time. The theorems hold for any number. `DeadlockVictim` looks for
  two requests that wait for each other; with more requests others may wait behind such a pair, but
  there is one in every deadlock (`OnlyPairsDeadlock`). `RequestTerminates` is checked for two.
- `Passwords`: one, since a new hash is salted and differs from the old one even for the same
  password (`Changed`); with one password every login guard can be met, which allows more.
- `Names`: one, for which two users compete.
- `Sizes`: {1, 2} and images of edge 2 stand for 128, 256 and 512 and a large image: the
  smallest size and one above it.
- `Limit`, `Window`, `MaxCount`: small numbers with `Window > 1`, and room above the limit.
  `Incr` is disabled at `MaxCount`; a counter above the limit decides nothing more by growing.
- `Ttl` and `Second` in TokenLifetime: two seconds of two ticks; a token, key, marker or set can
  be at any distance from its end at any await, and start anywhere in a second.
- VisionMapDiagnosis: two images that share a stem or do not, two runs (the second finds the
  files of the first, whole or torn), no box, one or two. Offsets and widths reach
  over and past both edges of images of 1 and 3 pixels, in halves of a pixel.
- Migrations: nothing but the number of commands is bounded, and the theorems hold for any number.

`CHECK_DEADLOCK FALSE` stands in `Accounts.cfg`, `Avatars.cfg` and `VisionMapDiagnosis.cfg`
because there the identifiers, or the runs of the script, can run out and leave nothing to do. The session runs check for deadlock: a logout is always
possible, and a reset.

Symmetry is used for users, tokens, request slots and stems, which no definition tells apart, and
not in the runs with liveness properties.

### Fairness

- `RefreshSessions.FairSpec`: strong fairness of each request's `Handle`, weak fairness of
  `DeadlockVictim`. The event loop resumes every coroutine whose await is done. A row lock
  may be free and taken again many times while a request waits; PostgreSQL queues waiters
  in order, which is strong fairness. Its deadlock detector aborts one of a cycle after a
  second; that every deadlock has two requests that wait for each other, for `DeadlockVictim`
  to choose from, is what `OnlyPairsDeadlock` proves. Nothing is assumed of clients: `Arrive` has no fairness. `Fail` has none either.
- `TokenLifetime.FairSpec`: time passes, and nothing else: neither clients nor requests need to
  make progress for Redis to forget.
- `RateLimit.FairSpec`: time passes, and a request waiting for its EXPIRE is resumed.

The other specifications are safety only.

## The proofs

The theorems of `RefreshSessionsProofs` and `TokenRegistryProofs` hold for every set of users, tokens
and requests and, unless a theorem says otherwise, with and without overlap and faults; those about
users who wait for each answer have `~Overlap` as a hypothesis, and hold with
faults, and with requests that overtake the commit of the one before. They assume only the named assumption of the module (`SessionsAssumption`: `Nil` is neither a
user nor a token; `RegistryAssumption`, the same for the abstract module, is a hypothesis
of its theorems). `TokenLifetimeProofs` holds for any number of tokens, any lifetime in whole
seconds and any number of ticks a second (`LifetimeAssumption`), with faults and evictions.
`RateLimitProofs` holds for any limit, any window of at least one tick and any number of requests
(`RateLimitAssumption`).
`VisionMapDiagnosisProofs` holds for any folder, number of runs and geometry
(`DiagnosisAssumption`), if the absence of a file is no file (`NoFileAssumption`). `AccountsProofs` holds for any rows, addresses, names, tokens and requests,
overlap and failures included, if `Nil` is none of them, "deleted" is nobody's address or
name (`AccountsAssumption`) and `Nil` is no row (`NoRowAssumption`). `AvatarsProofs` holds for any keys,
any positive sizes and any positive edges of images (`AvatarsAssumption`).
`MigrationsProofs` is about these ten revisions, for any number of commands side by side; it
assumes that no schema is `Failed` (`FailedAssumption`).

| theorem | statement |
|---|---|
| `SessionsTyped` | `Spec => []TypeOK` |
| `RevokedIsDead` | `Spec => []LiveNotRevoked` |
| `RotatedIsRevoked` | `Spec => []SuccessorAfterRevocation` |
| `SessionsRefineRegistry` | `Spec => ImplementsRegistry`, the refinement |
| `DeadStaysDead` | `Spec => DeadForGood`: a dead token never gets a key again, nor another holder |
| `RevocationKillsWhatItReads` | `Spec => ReadIsKilled`: whatever overlaps, a revocation kills each token it has read from the set |
| `OrphansByDropSet` | `Spec => OnlyDropSetOrphans`: a live token leaves its user's set only by the DEL of the whole set |
| `OneLiveToken` | `Spec => []OneLivePerLogin` |
| `RegistryOneLive` | `Spec => []OneLivePerFamily` in the abstract module |
| `RegistryInheritance` | `Spec => []Inheritance` in the abstract module |
| `LifetimesTyped`, `TokenRemembered`, `SetOutlivesKeys`, `RevocationReaches` | `Spec => []P` for `TypeOK`, `Remembered`, `IndexOutlivesKey`, `RevokeAllReaches` of TokenLifetime |
| `SpentStaysOut`, `LateIsNoReplay` | `Spec => SpentNotRotated`, `Spec => OnlySpentIsReuse` |
| `SetsAreBounded` | `Spec => []SetsExpire`: short of faults, a set without expiry is between its SADD and its EXPIRE |
| `DeliveredAreIndexed`, `RevokeAllKills`, `RowsFollowRedis`, `DeletedHaveNoSessions` | `~Overlap` implies `Spec => []P` for `DeliveredIndexed`, `RevokeAllComplete`, `RevokedRowNotLive`, `InactiveHasNoSessions` of RefreshSessions |
| `RotatedOnce` | `~Overlap` implies `Spec => []SingleSuccessor`, which overlapping requests break |
| `OnlyPairsDeadlock`, `WaitingStaysWithin` | `Spec => []DeadlocksArePairs`, `Spec => []WaitsWithin`: of transactions that all wait for each other, two wait for one another; a request waits only for one of the same user |
| `NeverAllWait`, `SerialNeverDeadlocks` | of the requests in flight one can go on, or two are a deadlock that PostgreSQL breaks; users who wait for each answer cause no deadlock, although a request may wait for the commit of the one before |
| `AccountsTyped`, `KeysAreUnique`, `AccountsAreMailed`, `ResetOnce`, `ClosedAreAnonymous` | `Spec => []P` for `TypeOK`, `KeysUnique`, `RegisteredMailed`, `ResetTokenSingleUse`, `ClosedAnonymised` of Accounts |
| `AccountsFollowLifecycle` | `Spec => ImplementsLifecycle`, the refinement |
| `ClosedStaysClosed`, `WaitsAreShort` | `Spec => ClosedForGood`, `Spec => []HoldersNeverWait`: who holds row locks waits for nobody |
| `RateLimitTyped`, `TwoLimitsAtMost` | `Spec => []P` for `TypeOK`, `SlidingBound` of RateLimit |
| `ExpiryOwed` | a counter without an expiry is owed one by a request in flight, unless a request has ended between INCR and EXPIRE |
| `AvatarsTyped`, `ShownCanBeFetched`, `NothingLeftBehind`, `ClosedNamesNone` | `Spec => []P` for `TypeOK`, `ShownIsComplete`, `NoOrphans`, `ClosedHasNoAvatar` of Avatars |
| `CommittedAreStored` | `Spec => CommittedIsStored` |
| `MigrationsTyped`, `OneVersion`, `SchemaFollowsVersion`, `HeadAlwaysReachable` | `Spec => []P` for `TypeOK`, `SingleVersion`, `SchemaOfVersion`, `HeadReachable` of Migrations |
| `NoWayBack` | `Spec => [][Dropped => Dropped']_vars`: what 010 has dropped never returns |
| `DiagnosisTyped`, `CropsCover`, `SummaryComplete`, `DetailsOnDisk` | `Spec => []P` for `TypeOK`, `CropCovers`, `SummaryCovers`, `DetailsKept` of VisionMapDiagnosis |

**The inductive invariant of the sessions.** `LiveNotRevoked` is not inductive: a marker may be set only
because the key was deleted one await earlier, and nobody stores that key again. `IInv`
says why nobody does:

- `TypeOK`, and `Control`: what the local variables hold at each await;
- `Published`: before a token is stored it occurs nowhere outside its request, neither in a
  set, nor in a marker, nor with a client, nor in the loop of a revocation;
- `Fresh`: a minted token belongs to one request, which stores it once;
- `Revocation`: the two properties, and where a request is between DEL and SETEX of the
  marker, or past it, what it has done already;
- `Serial`: without overlap, a user has one request that has not answered, and a token in rotation
  has no successor.

`InvInit` and `InvStep` prove it inductive, one step per action.

**The refinement.** Every action maps to a step of `TokenRegistry` or to a stutter: `StoreKey`
to `Open` or `Succeed`; `DeleteKey` and `LoopDelete` to `Retire`, or to a stutter if the key
is gone already; a failure between minting and storing to `Discard`. The guard of `Succeed`
that a token is rotated once, which the abstract module has only for single use, comes from
`Serial`.

**One live token.** `RegistryOneLive` is proved in the abstract module, where it takes a
short invariant, `ChainInv` (a chain of rotations has one end, and only an end can be live),
and carried over to the implementation by the refinement.

**Users who wait for each answer.** `SInv` stands on `IInv`, whose `Serial` part says that of the
user's requests only one has not answered; the others have nothing left but their commit.
`Answered`: what requests have read, written to rows or are about to revoke are tokens that
clients hold. `Indexed`: a live token a client holds, or is about to get, is in the set of its
user, and a revocation in its loop still has each live member to do. `Killed`: past that loop
(`Swept`), and until the answer, no token a client of the user holds is live; after it none it held when
the request began; and the rows marked revoked, pending or committed, are of dead tokens, however
late the commit comes. `Active`, on top of both, is about deletions: a token on its way to a client
(`Pending`) is for an active account or is `late`. Only the commit of a delete-account closes an
account; what its clients held when it began is dead by `Killed`, and the rest becomes `late` there
(`CommitActive`).

**Revocations that overlap.** `RevokeAllComplete` is false with overlap, and three theorems say how much
of it is left: what a revocation has read it kills (`RevocationKillsWhatItReads`, from `IInv`), what is
killed stays dead (`DeadStaysDead`, from the refinement), and a token that is still live can only fall
out of the set at the DEL of line 280 (`OrphansByDropSet`, from `Marked`: what SREM takes out has a
marker already). So the way for a token to escape is a SADD between that DEL and the SMEMBERS
before it, as in `sessions_orphan`.

**Row locks.** `Locking` says who holds what: only requests of its owner lock a session row, from
their UPDATE on, and the users row is locked by a reset-password from its autoflush on or by a
delete-account that has nothing left but to answer and commit. Hence waiting stays within a user
(`Within`), and whoever both holds a lock and waits is a reset-password that has the users row and wants
the session rows, or a delete-account that wants the users row (`Holding`, `KeyHolderRuns`). In a set
of requests each of which waits for a member (`Deadlocked`) there is one of each, and they
wait for each other (`PairInCycle`). So it is enough that `DeadlockVictim` looks for two such
requests, and a liveness check with two requests sees every kind of deadlock the code can have.

**Accounts.** None of the properties is inductive, since a request decides on a row it read
long before it writes. `Intent` says what each operation has made of the row it loaded, hence
which columns its UPDATE may change, whatever the committed row has become. `Exclusive` is what
the row lock and the unique indexes give between a flush and its commit: what is written and not
yet committed clashes with no committed row and no other transaction; with it `KeysUnique` follows at
the commit. `Enrolled` and `Mailing` say that a registration is the only one for its row and that
its token is mailed, or logged (`Out`), before it commits. `Addressed` says that a row, committed or
loaded, is closed exactly when its address is gone: a commit writes both or neither
(`CommitAddressed`), which is why a closed account loses its address whatever overlaps. `Alone` and `SingleUse` are conditioned on the history
variable `overlapped`, like the properties they imply. In the refinement only the commits of
register, verify-email and delete-account move; every other step is a stutter, because `Intent`
keeps the flags of the row out of the columns that other operations write.

**Avatars.** `Apart`: a key belongs to the upload that generated it until it commits, so no other
request removes its objects; `Uploaded`: the sizes an upload has passed are stored. These two give
`CommittedIsStored` with any overlap and any failure. `Alone` and `Clean` are what holds as
long as `happened` excludes overlap, or excludes errors. That a request takes a size which is left
(`SmallestIsLeft`) needs that each non-empty set of naturals has a least element, which comes from
the well-foundedness of `<`.

**Migrations.** `InStep` is the invariant: one version row at most, none for version 0, and the
schema is `At(v)`, the items of revisions 1 to v without those 010 has dropped, or v is 009
and the schema is that of head. `UpFrom` and `DownFrom` are recursive functions; `UpDefined` and
`DownDefined` show that they satisfy their definitions, and `UpWalk`, `DownWalk`, `DownFromHead` and
`DownBelowHead` what they yield, one revision at a time. A command that read no row while another
created the first one (`read = 0`) is stopped by `UpAgain`: revision 001 raises when the table
`users` is there.

`NoWayBack` is about `Dropped`: the database is at head, or at 009 without the tables that 010 drops.
`DroppedStep` shows that a commit keeps it: the downgrade to 009 does nothing, any further one raises,
and a command that read an older version matches no row.

**Rate limiter.** `Passed` is a recursive function, of which the prover knows nothing by itself.
`PassedDefined` shows that it satisfies its definition; `PassedOneMore` and `PassedShifted` say what
one more request let through and one more tick do to each of its values. All three rest on `Climb`,
induction over a set of numbers, which takes the place of induction over a predicate. `Budget` is the
invariant: the last `Window` ticks have let through at most the limit and what the current window has
(`Admitted`), and as long as the key has an expiry, the ticks since it got it have let through at most
what the current window has. When the key expires, exactly those ticks are left in the window, and the
count starts again. `Owed` says whose turn it is to give a key its expiry: exactly one request's, if
the key has none and no request has ended between INCR and EXPIRE.

**Lifetimes.** The invariant relates the count-downs of each token. `Timed`: the key of an
unspent token, or the marker of a spent one, runs out at most a second before the token, also
while the request that stores it is waiting. `Indexed`: the set lists every live token and
outlives its key, and where a revocation is in its loop, what it has still to do covers all that
is live. `Dead`: spent tokens have no key, and only they have a marker; this part needs no
condition on faults or evictions, which is why the two action properties have none. `Control`:
what the local variables hold.

**The script.** `CropsCover` rests on `CropOfBox`, integer arithmetic about truncation, with no
invariant but the property itself. For the other two the invariant says where each report is:
`Ordered` (the list has an entry of this run for each image before the current one), and
`DetailsInv` (a report that is about to be listed is on disk and whole; every listed one was and has
not been overwritten, or torn, but by a later image with its stem). That the last of a set of positions
is one of them is part of the invariant (`Kept`), since it cannot be had by induction here.

Only model-checked: `RequestTerminates`, `BlockedRecovers` and `FadesAway`, as liveness under
fairness is out of the prover's reach; a safety half of each is a theorem (`NeverAllWait`,
`ExpiryOwed`, `SetsAreBounded`). And everything TLC explores in the four runs with counterexamples.

## What the models show about the code

Four runs end in a counterexample. Each contradicts something the repository says; the quotes
are in `PROJECT.json`.

| run | what happens |
|---|---|
| `sessions_reuse_race` | Two overlapping refreshes of one token both pass the GET of its key (`auth_service.py:147`), delete it one after the other without looking at what DEL returns, and each gets a successor. A refresh token is single-use only between requests that do not overlap. |
| `sessions_reuse_rollback` | A detected reuse revokes everything in Redis, then raises; `get_db` rolls back the UPDATE of `revoked_at`. The table shows open sessions whose tokens are dead. |
| `sessions_orphan` | A login stores its jti between SMEMBERS and the DEL of the set in one revocation (`auth_service.py:273`, `280`). Its token stays live outside the set, so neither this revocation nor any later one kills it. |
| `avatars_sizes` | `thumbnail` works in place on an image in mode RGB, and sizes are made smallest first: the 256 and 512 objects hold 128 pixels. |

Met while modelling, in the models but without a run of their own:

- A request that ends between INCR and EXPIRE (`rate_limit.py:39-41`) leaves a counter that
  never expires; once it is above the limit, the address stays blocked on that route
  (`lost` in `BlockedRecovers`). The same between SADD and EXPIRE (`auth_service.py:248-249`)
  leaves a set of sessions that never expires (`FadesAway`).
- A device that was signed out by revoke-all-sessions or by a reset and tries its old token is
  taken for a replay, which it is not, and the sessions opened since are revoked too
  (`auth_service.py:142-145`): "spent" in `OnlySpentIsReuse` includes revoked.
- Each login renews the expiry of the whole set, and expired tokens leave it only by a
  revocation: the set of a user who logs in often and never logs out only grows.
- A summary or report of the script that is cut short in its write is lost together with the earlier
  file it replaced: `write_text` has emptied it (`diagnose_vision_map.py:922`, `1047`).
- The script's stability phase compares repeated answers with each other and not with the label
  of the production mapping (`diagnose_vision_map.py:793`); the single-box phase has
  compared one answer with it. An error after some phases leaves the `report.json` of an
  earlier run in place, and images that differ only in their suffix share a directory.
- A client that has read the answer of delete-account and logs in before the commit that follows it
  (`session.py:42`) finds `is_active` still true (`auth_service.py:101`) and gets a token, whose key stays
  in Redis after the commit. `refresh` and `get_current_user` refuse it from then on, because they
  read `is_active`. `tests/test_users.py:97-101` expects the 401 at once; its requests share one database
  session, which sees the change before it is committed. These tokens are `late` in `InactiveHasNoSessions`.
- The answer leaves before the commit (`session.py:42`): for a moment after a 201, the account
  is not there for the next request, and after a failed commit it never will be; a login whose
  commit failed leaves a live token without a row. A logout or a refresh that overtakes the commit
  of its login finds no row to update: the row is committed as open, and stays open although the
  token is dead, so `OpenRowLive` fails for users who wait for each answer, too. An UPDATE that waits
  for another transaction's row lock misses the rows committed meanwhile (`LockRows`).
- With overlapping requests, a reset token can reset twice (GET, SELECT, DEL), an update-me or
  a verify-email whose row was loaded before can put a name or the verified flag on a closed
  account, and an upload can put an avatar on it. This is why `ResetTokenSingleUse`, `ClosedHasNoAvatar` and, but for the
  address, `ClosedAnonymised` carry the condition that nothing has overlapped.
- delete-account with a wrong password removes the avatar's objects first
  (`users.py:109-110`); the account stays open and names an avatar that is gone.
- After 010 and its empty downgrade, the downgrade of 009 raises `NoSuchTableError`: a
  database that has been at head cannot be downgraded below 009. Upgrades always work.

Read in the code and outside the models:

- The `HTTPException(429)` of the rate limiter is raised inside a `BaseHTTPMiddleware`, outside
  FastAPI's exception handlers: the client gets a 500.
- The compose files run Redis with `allkeys-lru`: under memory pressure any key may be evicted.
  TokenLifetime (`Evict`) shows what that does to a session: without its key an honest client
  is refused and has to log in again; without its marker a replay is refused, not recognised;
  without the user's set a revocation of all sessions misses live tokens and answers that it
  has revoked them. An evicted counter opens the rate limit.

## What is not modelled

- **Time together with interleaving.** RefreshSessions has no clock and TokenLifetime one
  request at a time. Two requests that overlap around an expiry are in neither.
- **Access tokens** after a revocation: they are stateless and stay good until they expire;
  only `is_active` is looked at, in `get_current_user`. In the model they come with the
  refresh token (`CurrentUser`).
- In Accounts the session commands of login, delete-account and reset-password
  (RefreshSessions has them) and the avatar columns (Avatars has them); in RefreshSessions the
  password, which every login may be assumed to have right.
- Validation of uploaded bytes and request bodies, which changes no state; the bucket set-up
  at start; column types and row data in migrations.
- The delivery of e-mail, e-mail and HTML texts, wiring, configuration, containers.
- In the script: what it prints, image encoding, the conversion of normalised coordinates to
  pixels (`x * iw`, in floating point) before `crop_pil` cuts, and `app.agent`, which the script
  imports and the repository does not have; its answers are inputs, reduced to the issues they
  raise. Whether an issue list is right about the answers is not modelled.

## Plan

Done: the sessions and the registry, with proofs for overlapping and for serial requests and
about their row locks; the lifetimes, the accounts and their lifecycle, the rate limiter, the
avatars, the migrations and the script, each with proofs of every safety property its runs check.

Next: sessions with a clock and overlapping
requests in one module; the session commands inside Accounts, so that delete-account and
reset-password are one action sequence over both.
