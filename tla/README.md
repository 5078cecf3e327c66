# Wealth-Lens in TLA+

A model of the stateful parts of Wealth-Lens, checked by TLC on small instances
and proved by TLAPS where a result matters for every instance. Paths below are
those of the repository.

## 1. The system

A FastAPI backend run by two uvicorn workers (`backend/Dockerfile.prod`), one
PostgreSQL database at its default isolation level READ COMMITTED, one Redis,
and a Next.js client that keeps its tokens in `localStorage`. Each request has
its own SQLAlchemy session and commits once or twice; every `await` lets
another request of the same worker run, and the other worker runs anyway. So
the unit of interleaving is not the handler: it is the statement, and whatever
a handler read before its commit may be stale when it commits.

| Component | State it keeps | Operations | Interacts with | What is hard | What makes it correct |
|---|---|---|---|---|---|
| Refresh-token sessions (`auth/service.py`) | rows of `refresh_tokens`: family, consumed, revoked, expiry | login, refresh (rotation or reuse detection), logout | the web client; the second factor, which precedes a login | SELECT, then UPDATE by primary key: two requests act on one row; a family-wide UPDATE misses rows inserted meanwhile; a request may die before its commit | a token is exchanged once; reuse kills the family; a dead family stays dead |
| Second factor (`auth/service.py`) | `totp_secret`, `totp_enabled`, `recovery_codes` | enrol, confirm, verify, recover | password login, sessions | writes of only the changed attributes; DELETE of the rows seen; a code redeemed in one commit and the session issued in another | the secret asked for is a confirmed one; the codes that work are the ones shown; one use per code |
| Rate limiter (`common/ratelimit.py`) | one Redis counter per scope and address, with a time to live | hit | every auth endpoint | INCR and EXPIRE are two calls; fails open | a limit per window, nobody locked out |
| Web client session (`lib/api.ts`, `lib/auth.ts`) | the stored tokens, one refresh in flight per tab | call with refresh on 401, login, logout | the sessions | tabs share storage but not the promise; answers cross, come late or never | the user is logged out only when the session is over, and stays logged out after a logout |
| Accounts, cash flow, audit | rows and their audit rows | create, update, delete | dashboard | stale snapshots in the audit, double deletes | the audit trail replays to the rows |
| Holdings and securities | holdings, shared securities | create, delete, find-or-create | market data | NULL in a unique key, a flush outside the `try` | one security per (ticker, exchange) |
| Registration (`auth/service.py`) | `users` | register | everything of the user | SELECT, then INSERT into a unique index | one account per address |
| CSV import (`ingestion/`) | expenses with fingerprints, receipts | import, read receipt | cash flow | re-upload, concurrent uploads that wait for and deadlock with each other | every line of an answered upload is there; receipts add up |
| Prices and covariance cache (`market/covcache.py`, `prices.py`, `seed.py`) | `price_history`, generation counter, cached matrices | read through, invalidate, seed | Redis | a late write of an old result; a lost counter; two seed runs | no matrix older than the last announced write |
| Telegram bot (`telegram/`) | links, codes, expiry | create code, link, commands | cash flow, dashboard | at-least-once delivery, races for a code | one user per chat; a code links once; an expense is booked once |
| Privacy (`privacy/`) | all rows of a user | export, delete | everything | deletion while requests run; an export of eight snapshots | nothing of the user left but the audit; the export agrees with itself |
| Dashboard, cash-flow engine, FX (`dashboard/`, `cashflow/engine.py`, `market/service.py`) | none; reads the ledger | net worth, allocation, expenses, cash flow, summaries for chat and bot | ledger, `fx_rates` | one figure from many SELECTs; four filters of the accounts; date and sign boundaries | a figure is one the user had; the figures of an answer agree |
| Risk profile and advice (`crra/`, `montecarlo/service.py`) | `risk_profile` | questionnaire; allocation, frontier, projection | prices, holdings | two questionnaires at once; 29 February | the stored columns are one band |
| Optimiser, Monte-Carlo engine, LLM, pages, migrations | none of their own | | | numeric, textual or one-off | not modelled, see section 7 |

`PROJECT.json` lists every component with its status, and every hazard with the
line where it bites and the properties that are aimed at it.

## 2. Modules

| Module | Models | Uses |
|---|---|---|
| `RefreshTokens` | `_issue_tokens`, `rotate_refresh`, `logout_user` over `refresh_tokens` | `Sessions` by INSTANCE |
| `Sessions` | what the token endpoints promise, with nothing of how | |
| `BrowserSession` | the client's tabs and storage, composed with `RefreshTokens` | extends `RefreshTokens` |
| `SessionsProofs` | theorems about the three: the refinement of `Sessions`, and browser and server together | TLAPS |
| `TwoFactor` | `enroll_totp`, `confirm_totp`, the three ways to sign in | |
| `TwoFactorProofs` | theorems about it | TLAPS |
| `RateLimit` | `_hit` on one key, the clock, Redis failing | |
| `RateLimitProofs` | theorems about it | TLAPS, `SumProofs` |
| `Ledger` | the mutations of accounts, incomes and expenses with their audit rows | |
| `LedgerProofs` | theorems about it | TLAPS |
| `Holdings` | `create_holding` with `get_or_create_security`, `delete_holding`, holdings that go with their account | |
| `HoldingsProofs` | theorems about it | TLAPS |
| `UserRecords` | registration, erasure, and where each request of `UserData` is | |
| `CsvImport` | the upload: parsing, the multi-row INSERT line by line, receipts | extends `UserRecords` |
| `TelegramBot` | link codes, `link_chat`, `/add_expense`, redelivery | extends `UserRecords` |
| `UserData` | export and erasure over uploads and bot: the composition | extends the two |
| `UserDataProofs` | theorems about the four | TLAPS, `SumProofs` |
| `PriceCache` | `covariance_cached`, `invalidate_price_cache`, the seed script | |
| `Dashboard` | every endpoint's SELECTs, `convert_as_of`, the cash-flow engine | |
| `Insights` | questionnaire, allocation, frontier, projection: the composition with prices and holdings | extends `PriceCache`, `Dashboard` |
| `InsightsProofs` | theorems about the three | TLAPS, `SumProofs` |
| `SumProofs` | lemmas on `SumFunctionOnSet`: sums over disjoint, grown and changed sets | TLAPS |
| `MC...` | instances for TLC | |

### How a handler becomes actions

One action per piece of a handler that runs without another transaction being
able to come between: a *read* (the SELECT and the branches on what it
returned) and a *commit*. `req[r]` says where request `r` is in its handler, or
how it was answered. Three facts about the stack are built in:

- An UPDATE or DELETE that meets a locked row waits for the other transaction
  and then applies to the row as it has become. A request that waits is a
  request that has not taken its commit step yet, so locks need no variable.
  Where a handler goes on after its UPDATE and before its commit
  (`update_account`), who holds the lock is read off the stages (`Holders`).
- A statement sees the rows committed when it starts. The family-wide UPDATE and
  the DELETE of recovery codes therefore keep the set of rows they saw
  (`victims`) from their execution to their commit. Rows inserted in between
  escape them; rows deleted in between are gone anyway.
- SQLAlchemy writes the attributes that differ from what was loaded, by primary
  key. `rt.consumed = True` does not look at the column again, and
  `user.totp_enabled = True` writes nothing when the row was loaded with `True`
  (`EnabledAfterEnroll`, `EnabledAfterConfirm`). An UPDATE by primary key that
  matches no row raises `StaleDataError` (`RedeemStale`).

A worker that dies and a transaction the database refuses look the same from
outside: what was not committed is undone and the request has no answer
(`Fail`).

### `RefreshTokens`

The columns are sets of tokens (`issued`, `consumed`, `revoked`, `expired`) and
the function `family`; a family is named by the token its login issued.
`Login` is `_issue_tokens`; `RefreshReject`, `RefreshReuse`, `RefreshAccept` are
the branches of `rotate_refresh` after its SELECT, in the order of the code
(missing or revoked, expired, consumed); `RotateCommit`, `RevokeExec` and
`RevokeCommit` are what follows; `LogoutIgnore`, `LogoutRead`, `LogoutCommit`
are `logout_user`. The history variables `parent`, `racers`, `killed` and
`overlapped` are read by the properties and by no guard.

One user is modelled: no statement of these handlers reads another user's rows.
`Expire` lets a token expire no earlier than the one it was rotated from: the
lifetime is the same for all.

### `TwoFactor`

A secret is named by the request that enrolled it and a recovery code by the
request that confirmed and its index, so both are fresh by construction, as
random values are. A TOTP code is represented by the secret it was generated
from, and a user only has codes of secrets an enrolment has answered. The
enrolment and confirmation endpoints need an access token; the model always
lets the user call them. `preauth` is the pre-auth token with its five
minutes. A login that is answered `session` is a `Login` of `RefreshTokens`.

### `BrowserSession`

Extends the server with the client: `stored` is `localStorage`, a request is
sent with the token it read, delivered to the handlers of `RefreshTokens`,
and its answer changes the storage when it arrives (`TokensArrive`,
`RefreshRefused`, `LogoutDone`), or it never arrives (`NetworkError`,
`Unload`). Single flight is per tab. The access token is not a variable: it is
stored and cleared with the refresh token, and a call that needs a refresh can
happen at any time. The two `setItem` calls of `setTokens` are one step.

### `RateLimit`

One key. Requests are counted, not named: `pending` is how many have had their
INCR return 1 and not yet sent EXPIRE. `count` saturates at `Limit + 1`: the
handler compares it with 1 and with the limit only. An EXPIRE whose reply is
lost is an EXPIRE that succeeded: the request is admitted either way. The kill
switch `RATELIMIT_ENABLED` set to off is not modelled.

### `Ledger`

An entity is an account or an entry (income or expense). `row` is what is
committed, `trail` its rows of `audit_log` in the order of their commits. The
stored rows carry `created_at = now()`, the start of their transaction
(`common/audit.py:25`), and the export sorts by that (`privacy/service.py:36`):
for requests that overlap the two orders can differ, and what is said below of
the chain and of the last audit row is about commits. A mutation is `Read...` (the SELECT
of `_get_owned` and the snapshot for the audit row) and a commit. Incomes and
expenses write their audit row from the object in memory and flush with the
commit (`UpdateEntry`); accounts flush, read back and commit
(`FlushAccount`, `RefreshAccount`, `CommitAccount`), holding the row's lock in
between if there was something to write. A PATCH is the row it asks for: a
field it leaves out keeps the value that was read and is not written. A DELETE
of a row that is gone is a warning, and its audit row commits; an UPDATE of one
is an error. A CSV import inserts entries without audit rows. `imported`,
`lastWrite` and `overlapped` are history.

Fields are compared as values: an audit row made before the flush may spell a
number as the client did (`"5"`) and the next one as the database does
(`"5.00"`); the model does not tell them apart. Rows of other users are never
reached by these statements. Lists and single reads change nothing and are left
out. The holdings that go with an account are in `Holdings`.

### `Holdings`

A holding, and a security that was new, are named by the request that inserted
them; `account`, `listing` and `security` are the columns of those rows and the
variables of the running creations at once. A creation checks the account
(`CreateStart`), looks for the security (`FindSecurity`, or `MakeSecurity` when
there is none), flushes (`FlushSecurity`, `FlushFails`) and commits
(`CommitHolding`, `RefuseHolding`). Between flush and commit its security is in
the unique index but visible to nobody: `Holds` are the requests in that state,
and another INSERT of the listing waits for them. A listing without exchange is
in no index, so nobody waits and nothing collides (`NullListings`). The
unit of work inserts nothing at the flush when the security was found, so
`FindSecurity` leads to `ready` directly.

`DeleteAccount` is one step here: what its request read is in `Ledger`, what it
does to holdings is the cascade. The list of holdings changes nothing.

### `Sessions`

The abstract specification of a session: opened by a login, held by exactly one
token, which `Refresh` replaces by a token nobody has seen, closed by a logout
or a reuse, and closed for good. `RefreshTokens` implements it under the mapping
`live[f]` = the exchangeable rows of family `f` (`LiveRows`), `crossed` = the
families in which two requests raced for one row or a rotation overlapped a
revocation (`FamilyCrossed`). A session in which requests crossed is promised
nothing, from the step in which they cross; that step itself may not reopen a
closed session. What the mapping does with expiry: nothing, an expired token
is a token nobody exchanges.

### `UserRecords`, `CsvImport`, `TelegramBot`, `UserData`

`req[r]` is a record: the stage of request `r` and what it has read so far.
`UserRecords` has the table `users`, `register_user`, and the erasure of
`delete_account` without its cascade; each module of a user's data adds the
cascade into its own tables, and `UserData` puts them into one step (`Erase`).

*Uploads.* `Valid`, `Failures` and `Unique` are the positions the parser and
`dict.setdefault` make of a file's lines; a line is its fingerprint, `Bad`, or `Broken`
(more fields than the header, or an amount of `NaN`, which nothing catches).
PostgreSQL inserts the rows of the INSERT one by one: `InsertLine` takes a line
unless it is committed, and is disabled while another transaction holds it
(`Blockers`); a cycle of such waits is broken by aborting any one of its
transactions (`Deadlocked`). The foreign key is checked when the statement
ends, and locks the user's row until the commit (`ImportPins`), so an erasure
comes before or after, not in between. Expenses can be deleted (`DeleteExpense`).

*Bot.* `link` is `telegram_links` with the unique `user_id` and `chat_id`.
`CodeRead`/`CodeCommit` are `create_link_code`, `LinkRead`, `LinkCheck` and
`LinkCommit` are `link_chat`; an UPDATE writes only what differs from what was
loaded (`Updated`), so a chat that was already stored is not written. Codes
expire at any time. An update is due again as long as Telegram has not seen a
200, which is after an error, a dead worker or when it has stopped waiting
(`GiveUp`); `send_message` failing is answered 200 like success. `/summary`,
`/help`, usage errors and wrong codes write nothing (`Inform`).

*Export.* One SELECT per step, in the order of `export_data`; three of its
sections are stored in this model, the others are read the same way.

### `PriceCache`

A matrix is the `version` of the prices it was computed from and the life of
Redis (`epoch`) its request began in. A call of `covariance_cached` reads the
counter (`CovBegin`), then the key (`CovHit`, `CovMiss`), computes from one
SELECT (`CovCompute`) and stores under the generation it began with
(`CovStore`, which may fail silently); a `RedisError` on the way in computes
directly (`CovDegrade`). `WritePrice` and `Invalidate` are a writer as the
docstring of `invalidate_price_cache` wants it: commit, then INCR, which may
fail. Nothing in `src/` but tests calls `covariance_cached` or
`invalidate_price_cache`, and the one writer of `price_history`, the seed script, never
invalidates; the model has the seed as it is, so `ServesAnnounced` speaks of
announced writes only. The seed is modelled from its loop over the prices on: the
rows of `securities` are taken to be there, and its own find-or-create of them
(`seed.py:49-66`), on which two first runs race, is left out. `announced` and
`floor` are history.

### `Dashboard`

A request runs the SELECTs of its endpoint one per step (`Plan`), and keeps the
converted totals (`got`); `LedgerChanges` are the commits of other requests in
between. Amounts are natural numbers scaled by `Unit`, a multiple of every rate
used inversely, so that sums stay exact as the code's Decimals do;
the arguments of `years_to_fi` are all multiplied by months and withdrawal rate,
so nothing is divided and any window is allowed. `Convert` prefers a direct rate,
`MonthsBack` clamps, and `YearsFor` is `years_to_fi` down to what a caller can tell
apart: 0.0, some years, `None`, or an exception. That function computes with
doubles. `YearsFor` is therefore the set of what it can answer: where the exact
value of a sum is small beside its terms (less than 1/`Precision` of them) the
computed sign may be either. Capital 100, no income, expenses 7 a year and a
return of 7 % give a denominator of 1.4e-14 and "535 years"
where exact arithmetic gives `None`; both are in the set. A double loses less
than 2^-50, so `Precision` is 2^50 for the code, and a smaller value only
allows more. `years` is the answer that was picked. `quiet`, `moments`,
`between` and `closed` are history. Savings rate and runway are ratios of the
same figures with a zero check each; buckets and rounding are left out.

### `Insights`

The questionnaire is a read and a commit that writes the columns that differ
(`Column`) or inserts, against the unique `user_id`. `Estimate` is
`estimate_gamma` in thousandths. An allocation, a frontier and a projection
run their SELECTs in the code's order (`Analysis`) and may refuse at each: no
profile, no universe, no two aligned prices. On 29 February the default window
starts on a day that does not exist (`NoSuchDay`), and the request ends in an
error. What the optimiser and the simulation make of the data changes nothing.

## 3. What the runs check

| Run | Bounds | States | Shows |
|---|---|---|---|
| `refresh_tokens` | 4 tokens, 5 requests | 148 156 | below |
| `browser_session` | 2 tabs, 4 tokens, 4 calls, 1 disruption | 1 079 544 | below |
| `two_factor` | 5 requests, batches of 2 codes | 261 766 | below |
| `rate_limit` | limit 2, window 3, 2 pending, 2 failures | 16 735 | below |
| `ledger` | 1 account, 1 entry, 4 requests, 2 fields of 2 values | 76 972 | below |
| `holdings` | 2 accounts, a listed and an unlisted security, 3 requests | 121 920 | below |
| `user_data` | 2 users and 2 ids, 3 files of up to 4 lines, 2 chats, 4 codes, 1 update, 3 requests | 146 141 | below |
| `insights` | 2 securities, 3 dates, 2 readers, 2 writes, 1 restart, 2 seed runs; 2 accounts, 3 currencies, 1 dashboard request, 2 commits; 2 analyses | 988 171 | below |

**refresh_tokens.** `ForkOnlyByOverlap`: a token is exchanged again only by a
request that already held its row as live when it was consumed.
`ImplementsSessions`: the rows implement `Sessions`; among what that says, a
family in which no two requests crossed has one exchangeable token, a refresh
replaces it, and a closed session is never live again. `RevocationTotalUnlessOverlapped`: a
committed revocation covers every token the family has *or will have*, unless a
rotation of it overlapped the revocation. `DeadFamilyStaysDead`: a wholly
revoked family without a rotation in flight never becomes usable again.
`ReuseLeadsToRevocation`: from a detected reuse, every token of the family ends
revoked unless a request of the family dies. The exceptions are not decoration:
TLC finds the fork and the escaped child as soon as one is dropped.

**browser_session.** `NoSpuriousLogout`: a refresh is refused only for a token that
expired, or after two calls crossed, or after an answer got lost.
`BrowserAndServerAgree`: as long as nothing crossed or got lost, whenever the client is
at rest the storage holds the one token the server would exchange, and none after a
logout; the exception is a second login in the same browser, whose predecessor stays
usable on the server (`replaced`).

**two_factor.** `EnabledSecretProven` and `ConfirmEnables`: 2FA asks for a
secret whose confirmation succeeded, and the answer to a confirmation is true,
unless an enrolment and a confirmation overlapped. `CodesAreTheShownOnes`: the
valid codes are those of the latest answer, unless two confirmations replaced
them together. `ReusedOnlyByOverlap`: a code serves twice only for requests
that held its row as unused at once.

**rate_limit.** `AtMostTwiceLimit` is the docstring's "up to ~2x `limit`" made exact,
over every window of time. `IInv` holds that nobody is rejected early and that a key,
its EXPIRE and its time to live belong together. `WindowReopens`: a client over its
limit gets a new window, unless a failure separated an INCR from its EXPIRE. Deadlock is
checked.

**ledger.** `TrailIsAChain`: every audit row starts from what the one before it left and
the last one ends with the row, for every entity no two requests have been at work on at
once; two overlapping updates of an expense break it, and so do two overlapping deletes.
`AccountTrailCurrent`: for accounts the audit row of the last request to commit a write
says what the row is, however requests overlap, because the read-back and the commit
happen under the lock the flush took. `NoFieldOverwritten`: concurrent PATCHes of
different fields are both kept. `EveryRequestAnswered`: nobody waits for a row lock for
ever.

**holdings.** `HeldOnceUnlessTwinned`: one security per listing and one holding of it
per account, except for a listing without exchange of which two requests have been
making a security at once; the unique constraint does not see those, and TLC finds the
two securities, and the account holding both, as soon as the exception is dropped.
`SecuritiesComeWithHoldings`: whatever a refused or dead request had flushed is gone, so
`create_holding` leaves no security without a holding (the seed script does store such).
`AuditAccountsForHoldings`: a holding that is not there was deleted by an audited
request or with its account, and one that is there was not deleted.
`EveryCreationAnswered`: waiting for the unique index ends.

**user_data.** `IInv` includes one account per address. `NothingLeftBehind`:
after an erasure no row, receipt, link or bot entry is left, whatever was in
flight; it fails if the deletion does not wait for an upload whose foreign key
is checked. `UploadedIsThere`: every valid line of an answered upload is an
expense of the user, whoever inserted it, unless it was deleted since the upload
began (a PATCH of an imported expense, which keeps its row and fingerprint, is not
part of this module). `ReceiptsAddUp`: the inserted counts of the receipts are the imported
expenses there are and were, so racing uploads never both count a line.
`CodeLinksOnce`: a code is used again only by a request that had read it before
its first use. `ToldLinkedIsLinked`: "Linked!" is true of the database at that
moment; the exception is a chat that was the user's already, which is not
written and may have been replaced in between. `BookedOnce`: an update is booked
twice only if Telegram gave up on a delivery or a worker died after the commit.
`ExportIsConsistent`: an exported entry has its audit row in the same export,
because the audit log is read last; the opposite order fails.
`EveryRequestAnswered`: lock waits and deadlocks end.

**insights.** `ServesAnnounced`: whatever a call overlaps, what it is served is no older
than the last write announced before it began; a request that stores after a restart
what it computed before one is the exception, since the counter starts again from
nothing, and TLC finds the stale matrix without it. `NetWorthOfAMoment`: the answer is
what the user was worth at some moment while it was read, unless two commits fell
between its two SELECTs or an account went with what it held; both exceptions are
reachable. `FiguresAgree`: cash at hand is within the investable capital, that within
the net worth; who is told 0.0 years has a net worth the FI number does not exceed, and
who is told anything else has less than it in cash, both up to what doubles lose.
`BandIsWhole`: the three columns of the profile are one band, recorded by an audit row,
and every analysis used the point of such a band; it holds because bands that differ
differ in the column the second writer writes.

A property that excepts requests that overlapped does not call the overlap harmless:
what the code lets happen then is the exception, and the property says that nothing
else breaks the promise, in the next request or in another session.

Deadlock is checked in `rate_limit` only: elsewhere a run ends when its requests
are used up.

**Disagreements with the repository's own words**, each a run TLC must find
violated:

| Run | The text | What the code does |
|---|---|---|
| `all_sessions_revoked` | `auth/service.py:108` "All sessions revoked." | revokes one family, one login's tokens |
| `rate_limit_lockout` | `ratelimit.py:26` must never "lock users out" | a failure between INCR and EXPIRE rejects the client for ever |
| `logout_sticks` | `lib/api.ts:111` "so the user always gets logged out" | a refresh in flight stores its new tokens after the logout |
| `one_time_codes` | `settings/page.tsx:118` "one-time recovery codes" | two overlapping logins redeem the same code |

Seen while modelling, and not claimed by any text: starting a new enrolment
turns 2FA off until it is confirmed; any refused or failed refresh, a 503 too,
logs the client out; a consumed token that has expired is answered as expired
and revokes nothing; a logout with a token that was rotated meanwhile is
answered 204 and ends nothing; the creation that loses the race for a new
security is answered 500, not 409 and not the winner's security; the holdings
that go with a deleted account leave no audit rows, and neither do imported
expenses, although `README.md:47` of the repository has every financial
mutation recorded; a race for an address is answered 500, not `EMAIL_TAKEN`; the seed
script never bumps the generation; an older direct FX rate beats a newer inverse
one (`market/service.py:63`); the trailing window includes both ends, so twelve
months can hold thirteen monthly entries; `years_to_fi` gives `None` for a
negative return even where the target is reached in time, and the endpoint answers
500 for a return of -100 % or a withdrawal rate of 0; 29 February is a 500 for
every default window; `telegram/router.py:29` wants to keep Telegram from
retrying, which an answer that is lost or late does anyway.

## 4. Bounds

- Requests are served once, so a run has as many as the instance. Every property
  of `RefreshTokens` and `TwoFactor` is about at most three requests on one
  family, secret or code, on top of the ones that create it; four and five
  leave room for a bystander.
- `Tokens` covers every request that can be answered with one in a run, except
  one; then `Login` and `RotateCommit` merely stop.
- `Canonical` and `ArriveInOrder` explore runs up to the renaming of tokens and
  requests. Every behaviour is a renaming of one that is explored, whole, so
  this is sound for the liveness property too, where a symmetry set is not.
- `Ledger`: two requests overlap, a third creates the row and a fourth is left
  over; two fields tell "the field I set" from "the others", and rows are
  created with value 0 because values are only compared. An account and an
  entry never interact, so one of each is enough.
- `Holdings`: two creations race, or a creation and a deletion, and a third
  request finds what they left; the second account is needed to tell "this
  account holds it" from "somebody does".
- `MaxBroken = 1`: one lost answer, failed server call or closed tab; the
  properties of `browser_session` claim nothing after the first anyway.
- `MCUserData`: two requests race and a third finds what they left, or erases
  it. `Canonical` keeps runs up to renaming, puts a request that writes nothing
  last, lets one user send all requests (the other one owns a chat), and keeps
  uploads and the bot in runs of their own: they share no table but `users`, which
  only erasure writes, and erasure meets both. The files give two uploads with
  their lines in opposite orders, a repeated line, a bad one and a fatal one.
- `MCInsights`: `MCNext` is `Next` with the condition under which each part is tried
  (cache, seed, dashboard, advice), since they share tables and no request; only the
  seed and an analysis are run together, with one loader
  (`OneLoaderWhileAdvising`). Two readers, two writes and one restart are what a
  stale key needs. `DashNext` lets the ledger change only while a request reads:
  what it was before is one of `FirstAccounts`, which hold every kind of account,
  a foreign currency with and without a rate, and a holding. `Precision` is 100
  there: coarser than doubles, so an undecided sign is an ordinary case. The amounts
  and `MCParameters` make each of them happen: a target met to the cent, a
  denominator of exactly zero, a negative return, a window that does not divide
  twelve and one that begins before the calendar.
- `RateLimit`: two pending requests need a restart of Redis between them, so
  `MaxPending = MaxFaults = 2` reaches every shape of the key; the window of
  three ticks is longer than the limit.

## 5. Fairness

`RefreshTokens!FairSpec`: weak fairness of `Continue(r)` for each request: the
event loop and the database drive a started handler to its end. Nothing is
assumed about users, failures or expiry, so a request may still die instead.
`Ledger!FairSpec`: the same `WF` on `Continue(r)`; a request that waits for a
lock is disabled, and PostgreSQL gives the lock to a waiter when it is free.
`Holdings!FairSpec`: the same, with the unique index in place of the row lock.
`UserData!FairSpec`: the same, with unique keys, the user's row and the deadlock
detector; dying stays possible and `DELETE`, expiry and Telegram are not fair. The
constraints of the liveness runs (`Canonical`, `ArriveInOrder`) disable arrivals, or
orders of arrivals, never a `Continue`, so they cut no fair suffix of a request.
`RateLimit!FairSpec`: the clock ticks, and a request whose INCR returned 1 sends
its EXPIRE. New hits are never assumed.

## 6. Proofs

All theorems hold for every value of the constants that satisfies the named assumptions
of the modules, and from nothing else. They say what the instances have by construction:
values that stand for "none" are none of the others (`NoTokenAssumption`,
`SenderAssumption`, `FirstLinksAssumption`), bounds, limits and sizes are natural
numbers (`LimitAssumption`, `TwoFactorAssumption`, `MaxBrokenAssumption`,
`PriceAssumption`), names of different kinds differ (`LedgerAssumption`,
`HoldingsAssumption`, `ItemsAssumption`, `OwnedAssumption`), files are sequences of
lines (`FilesAssumption`), the users there are at the start have different addresses
(`RegisteredAssumption`), and accounts, flows and rates are finite tables of numbers in
the unit the model scales by (`DashboardAssumption`). The argument is always the same:
`Init => IInv`, `IInv /\ [Next]_vars => IInv'`, one lemma per action or group of
actions, and each property from `IInv`. Each `IInv` is also an invariant of a run,
`CacheInv` as a part of the one of `insights`. `BrowserInv` is the exception: TLC finds
it true on the whole instance of `browser_session`, whose listed invariants follow from
it.

- **RefreshTokens.** The invariants are not inductive alone. `IInv` adds:
  `RequestsHaveRows` (a running request presented a row), `Lineage` (families
  are closed), `RacersOfConsumed` (whoever still holds a consumed row is one of
  its racers, and somebody else consumed it: the step from "one holds it" to
  "two raced"), and `OpenRevocations` (a snapshot that misses a row has been
  overlapped, and so is any rotation of a doomed row), without which a
  rotation committing after a revocation could not be told from one that
  escaped it. Proved: `TypeCorrect`, `ForksOverlap`, `Linearity`,
  `RevocationTotal`, `DeadStaysDead`, and `SessionsImplemented`: under `IInv`
  every step is a step of `Sessions` or a stutter, one lemma per action. A
  rotation that nobody raced is a `Refresh`, one that was raced is a `Cross`,
  a committed revocation that nothing overlapped is a `Close`.
- **BrowserSession.** `ServerImplemented`: the server's part of every step of the
  client is a step of `RefreshTokens`, so its `IInv` holds here too, and
  `BrowserInv` adds to it. `NoSpuriousLogout` cannot be proved from itself: why is
  the token of a refresh exchangeable when it arrives? Because as long as nothing
  crossed or broke (`Calm`) one call is in flight at most, it carries the stored
  token (`InFlight`), and storage and table agree (`Agree`) except for what this
  call has done: a new token on its way (`TokensOnTheWay`) or a refusal
  (`Refusing`). Delivery, the server's commits and the answer's arrival move a
  call along these three; expiry only moves tokens from `Exchangeable` to
  `expired`. `Served` is proved once for all of the server's steps. Proved:
  `BrowserInvariance`, `SpuriousLogout`, `Agreement`.
- **TwoFactor.** `IInv` adds `SnapshotsCurrent` (while nothing overlapped, a
  confirmation in flight has read the row as it is, and an enrolment in flight
  knows whether 2FA is on), `OneReplacement` (a lone DELETE sees all rows) and
  `CodeHistory` (codes are fresh, granted codes are used, holders of a used
  code are its redeemers). Proved: `TypeCorrect`, `SecretProven`, `ShownCodes`,
  `ReuseOverlaps`, `ConfirmTells`.
- **RateLimit.** `IInv` adds `KeyIsTimed`: without failures a key has exactly
  one of an EXPIRE on its way and a time to live, and what it has left and what
  it has lasted make up a window; and `WindowMeetsTwoKeys`: the admissions of any
  window of time are spread over two keys at most, the sum over each of which is
  bounded by its count. That gives "twice the limit" for every window, wherever
  it begins. Proved: `TypeCorrect`, `CountExact`, `KeyLasts`, `AtMostTwice`.
- **Ledger.** `IInv` adds `LocksHold` (a lock has one holder, its row is there,
  and what was read back is what will be committed), `AloneIsCurrent` (a request
  alone at work on an entity has read the row as it is: what turns "nobody
  overlapped" into "the audit row continues the chain") and
  `FlushedAreAccounts`. Even `TypeOK` needs `LocksHold`: a commit writes into a
  row only the lock keeps from being deleted. `CommitStep` is proved once for
  the three commits. Proved: `TypeCorrect`, `TrailReplays`, `AccountsAudited`,
  `PatchesKept`.
- **Holdings.** `IInv` adds `RowsAreAnswered` (rows keep the names of finished
  requests, so nobody renames them), `CreationsHaveSecurities`, `IndexHolds` (an
  uncommitted security with an exchange is the only one of its listing, stored
  ones included), `MakersAlone` (a maker nobody raced is the only one, and
  nothing was stored since it looked: what turns "found nothing" into "there is
  nothing" at the commit) and `PairsUnique`. Proved: `HeldOnce`, `AllOrNothing`,
  `HoldingsAudited`, `ExistsTells`.
- **UserData.** A user who was erased does not come back (`Existing \cap erased =
  {}`); that is what lets a request that read him conclude anything later.
  `ImportInv`: `UploadInv` (a line an upload has passed is one it holds, or is
  committed, or was deleted since; once the foreign key is checked the user
  stays), `OneHolder` (two uploads of a user hold no line in common: the unique
  key), `Countable` (what the receipts count are finite sets, and each upload has
  one receipt) and `ImportOwned` (rows and receipts have a living owner).
  `ReceiptsAddUp` then follows because the lines an upload inserts are new to
  the table and its receipt is new to the sum. `BotInv`: `CodesInv` (a code is
  in one row, and once used in none, so whoever still carries it read it
  before), `LinkersInv` (what `link_chat` loaded is still the row of its user, and
  its chat changes only under another request that links it), `UpdatesInv` (an
  update has one delivery that Telegram still waits for) and `BotOwned`.
  `ExportsInv`: what an export has listed is already audited when it reads the
  audit log. Proved: `TypeCorrect`, `NothingLeft`, `UploadsComplete`,
  `ReceiptsSum`, `CodesOnce`, `BookedAtMostOnce`, `ToldLinked`,
  `ExportsConsistent`.
- **Insights.** `IInv` is `CacheInv /\ DashInv /\ InsightInv`, one for each of
  the modules composed; a step of one leaves the variables of the others.
  *Cache:* `ServesAnnounced` alone says nothing of the keys. `CacheInv` adds
  `KeysFresh` (a key of generation g is no older than what had been announced
  when the counter reached g, in the life of Redis its writer began in: the
  history `floor`), `CallFresh` (a call under way knows the generation of what
  it was promised, and what it computed keeps that promise) and `Counted`;
  *Dashboard:* `Progress` of a request is that nothing disturbed
  it and every total it has is the one the same SELECT would return now
  (`Undisturbed`), or it has read the first half of a net worth and one commit
  changed that half or the other, not both (`HalfRead`), or it is `Torn`. The
  figures agree because the totals of a set of rows grow with the set and the
  liquid accounts are investable; an amount beyond what doubles lose is beyond it from
  any smaller one too (`Exceeding`), and there their sign is right, so the answer
  0.0 is tied to the net worth and the others to the cash; the conversion picks the
  latest rate, which exists because the rates are finite.
  *Risk profile:* a row is never taken away, so whoever loaded one writes over
  one; a second writer leaves whole what it writes because two bands differ in
  every column. Proved: `CacheInvariance`, `Announced`,
  `NetWorth`, `Figures`, `BandWhole`.
- **Sums.** `SumProofs` has what the three need of `SumFunctionOnSet`. A sum is a
  recursive function over finite sets; its laws are proved for all of them by
  taking a smallest set, by inclusion, for which one fails, because the
  induction rules of the library cannot be instantiated.

Only model-checked: liveness under fairness (`ReuseLeadsToRevocation`,
`WindowReopens`, `EveryRequestAnswered`, `EveryCreationAnswered`). Every safety
property of a passing run is proved.

## 7. Not modelled

- The optimiser, the efficient frontier, covariance statistics and the
  Monte-Carlo engine (`crra/optimizer.py`, `frontier.py`, `engine.py`,
  `market/analytics.py`, `montecarlo/engine.py`): floating point and random numbers.
- The chatbot's prompt and its call to the external service: text, no state.
- The table `goals` (`cashflow/models.py`): nothing in `src/backend` writes it, only
  the export reads it.
- Pages, schemas, middleware, logging, migrations: rendering, validation and
  wiring; their constraints appear where a module depends on them.
- Encodings (JWT, Fernet, Argon2, hashing) are abstracted to what they establish.
- Sessions and second factor of a user who is erased meanwhile: the cascade takes
  `refresh_tokens` and `recovery_codes` like the tables of `UserData`.
