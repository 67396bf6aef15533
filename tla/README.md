# Verification of the settings service

The repository is a demonstration system: a multi-tenant **settings service**
(Rust, `demo/k3s/services/settings-service`, paths below are relative to its
`src/`) over Postgres, whose instances tell each other of changes through an
MQTT broker, with the scripts and manifests that run it. This directory holds
TLA+ modules of its own logic, TLC configurations that check them on small
instances, and TLAPS proofs.

## 1. Inventory

| Part | State it keeps | Operations | Talks to | What makes it hard | What makes it correct |
|---|---|---|---|---|---|
| Settings service (`settings/settings.rs`) | none between requests; inside a request, the row it found | `get`, `put`, `patch`, `delete`, `search`, `ready` | the repository, one await per SQL statement | other requests run between any two statements; a request may be dropped at an await | no lost update; an answer says what happened |
| Postgres adapter (`settings/pg_settings.rs`, `migrations/`) | table `settings`: `id`, `version`, `value`, unique index on (tenant, user, key) | `find`, `insert`, `update`, `delete`, `exists`, `search`, `ping` | Postgres through a pool of ten | `INTEGER` and `BIGSERIAL` limits, answers lost or refused after the commit, delete and re-create | the conditional write is atomic; errors are classified by what they mean |
| Value model (`settings/model.rs`) | aggregate `Setting` with a version | `set_value`, `apply_partial`, `merge` | — | merge of nested objects, size limit after a merge | a refused change changes nothing |
| HTTP adapter (`settings/rest.rs`) | none | the handlers, `If-Match`, `ETag`, pages | the service port | a precondition that is missing or old | 409 exactly for stale preconditions |
| Authority (`auth/model.rs`) | none | `can_read`, `scope_ownership` | the service | two scopes under one key | callers read what they write |
| Token validation (`auth/jwt.rs`) | key sets `keys` and `previous` | `key_for`, `refresh`, `validate` | identity provider | concurrent refreshes, rotation | only published keys are trusted; a published key does not stay unknown |
| Auth service, revocation (`auth/auth.rs`, `auth/revocation.rs`, `auth/rest.rs`) | `jti -> expiry`, in memory | `validate_token`, `logout`, `require_auth` | validator, limiter | clock, restart, several instances | a session that was logged out stays refused until its tokens expire |
| Rate limiter (`common/rate_limit.rs`) | `key -> (count, window start)` | `allow` | middleware | window edges | at most `2 * max_requests - 1` in any stretch of a window; 429 only when spent |
| Notifications (`notify/notifier.rs`) | none of its own: the change in a request's hands | `notify`, decorated `put`, `patch`, `delete` | the MQTT client's channel | bounded channel, after the commit, not persistent, topics the client refuses | a change is lost only for a cause that can be named |
| MQTT event loop (`notify/runtime.rs`) | client, channel of 64, connection | poll, subscribe on ConnAck, `handle_publish`, demo publisher | broker | reconnects; the loop puts requests into the channel it empties | subscriptions come back |
| Search (`settings/pg_settings.rs`, `common/pagination.rs`) | none | `search`, pages | Postgres | pages while rows come and go | every row once while rows stay; links that match the table |
| Clock (`base`, `instant_to_millis`) | one anchor per process | conversions | — | restart | times survive a restart |
| Start-up, router (`main.rs`, `router.rs`) | attempts | `setup_database`, `readyz`, proxy | Postgres, Kubernetes | order of start | becomes ready |
| Run scripts (`.agents/skills/run/scripts`) | `processes.json` | set, remove, start, stop | processes | two scripts at once | file and processes agree |

Stateless wiring (configuration, CORS and header layers, telemetry set-up,
contract types), the broker (a submodule that is not in this tree) and drivers
of external tools (`run_k3s.py`, the demo recorder) are listed in
`PROJECT.json` with the reason they are not modelled.

How the parts interact: the router puts `require_auth` (validate, check
revocation, rate limit) in front of the settings handlers; a handler calls the
decorated service; the decorator calls the service and, if it answers Ok, waits
until the change is in the client's channel, and only then is the request
answered. Instances share only Postgres and the broker.

## 2. What is modelled

| Module | Models | Role |
|---|---|---|
| `SettingsService` | service, table, ownership, If-Match | the core: one action per SQL statement or early return |
| `VersionedStore` | what the service promises | abstract specification: each request acts at most once, atomically |
| `SettingsRefinement` | — | maps the table and the requests to `VersionedStore` |
| `SettingsServiceProofs` | — | theorems about `SettingsService`: the table, the writes, the answers |
| `SettingsRefinementProofs` | — | proof that `SettingsService` implements `VersionedStore` |
| `MCSettingsService` | — | small instances and request sets for TLC |
| `ConfigNotifications` | decorator, client channel, event loop; broker and client library as far as they are relied on | bounded buffers, faults, liveness |
| `MCConfigNotifications` | — | small instances |
| `JwksCacheProofs`, `AuthGateProofs`, `ConfigNotificationsProofs`, `SearchPagesProofs`, `MergePatchProofs` | — | theorems about the modules they are named after |
| `DataLemmas` | — | induction over numbers, sums over a stretch of time; used by the last four |
| `KeySource` | what looking up a signing key promises | abstract specification: a call is answered in one step |
| `JwksCache` | the two key maps of `auth/jwt.rs`, their locks, the fetch; the identity provider | one action per lock section and await; implements `KeySource` |
| `AuthGate` | `require_auth`, `logout`, `JwtValidator::validate`, revocation store, rate limiter, their answers | a clock, restarts, interleaved calls |
| `SearchPages` | the search statement, `Pagination`, totals and links; a client that walks the pages | a table that changes between two pages |
| `MergePatch` | `merge_patch`, the size limit, patches sent twice | recursive algorithm against RFC 7396 |
| `MCJwksCache`, `MCAuthGate`, `MCSearchPages`, `MCMergePatch` | — | small instances |

### SettingsService

A *slot* serves one request at a time. `pc` is the SQL statement it awaits:
`find`, then `write` (INSERT, UPDATE or DELETE), then possibly `exists`. Any
other slot may take any number of steps in between, which is what the awaits of
`settings.rs` allow, on one instance or on several. A statement is one atomic
step: the table is used without explicit transactions, so each statement is its
own; under READ COMMITTED an UPDATE, DELETE or INSERT that waited for another
one evaluates its condition again on the newest row, which is what evaluating
it in the step that commits means.

| Model | Code |
|---|---|
| `Receive` | the handlers of `rest.rs`, up to the call of the service; `LacksIfMatch` answers 409 at once |
| `FindFails` | a row of the tenant and the key does not load: `find` answers InvalidValue, whoever owns the row |
| `Get`, `Refuse`, `Proceed` | `find` and the rules after it in `get`, `put`, `patch`, `delete` |
| `Insert`, `InsertConflict`, `InsertFails` | `PgSettingsRepository::insert` |
| `Update`, `UpdateOverflows`, `Delete`, `Miss` | `update` and `delete`, bound to the version of the If-Match |
| `Exists` | the second statement of `update` and `delete` |
| `Commit` | the write's effect, and its answer: Ok, or InvalidValue if the row that RETURNING gives back does not load; or the answer is lost: Unavailable (I/O error), Dropped (caller gone) |
| `Fail` | a statement that had no effect: pool time-out or I/O error, database error, caller gone |

`rows` and `nextId` are the table and the sequence of its `id`; `base` is the row
the request holds between find and write; `reply` is the last answer, with the
row an Ok carries. `committed` (which version of which row a request consumed)
and `seen` (how the target looked in the states from arrival to answer) are
history variables: no action reads them.

Abstractions. A value is a set of members, so `merge` is flat and the size limit
is a number of members (`MaxFields`). jsonb does not keep a value as it was written
(1e16 is read back as 17 digits): `AsStored` gives for each member what it is once
it is stored, as members of that size, and may be any function; `JsonB` is the value
stored. `into_domain` checks a row that is read with the limit for new values
(`Loads`), so a write may be refused after it has committed, and a `find` because of a row
of another user. `updated_at` is left out. Keys and bodies
are valid when the model starts (a refusal before the first statement touches no
state), and an If-Match that is not a version up to `MaxVersion` is not sent: it
would behave as any other stale one. An INSERT that hits the unique index leaves
a gap in the sequence in Postgres; the model leaves none, as nothing depends on
consecutive ids. A read that errs is `Fail` as well. A process that ends is
`Fail` with Dropped, or `Commit` with Dropped, for each of its requests.

### VersionedStore and the refinement

The abstract store maps names to entries with a version. A client asks, and may
then create, replace or remove one entry, once, atomically, and only while the
version it named is there. It has no statements, no awaits, no errors.
`SettingsRefinement` substitutes the table for the store and `committed` for what a
client took, and `ImplementsVersionedStore` says that every behaviour of the
service is one of the store: reads, refusals and failures are stutters.

### ConfigNotifications

A change is a number, in order of commit. `Commit` is the decorated service's
inner write with its answer; `Publish` waits for room in the channel, or gives up a
change whose topic has a wildcard of MQTT in it (`wild`): the client refuses `+` and
`#` in the topic of a message, keys and tenants may contain them, and `notify` only
logs the refusal, so the request is answered Ok (two comments, `notifier.rs:26` and
`:73`, say that every successful mutation is published). `Drop` is a
caller that goes away while it waits. `Connect`, `AskSubscribe`, `Send`,
`HandlePublish` and `PollError` are the event loop: `loop = "subscribe"` is the
await of `subscribe` inside the loop's own ConnAck arm. The library and the
broker are external: the library keeps unacknowledged and waiting requests over
a lost connection, or forgets them when the broker has no session; the broker
takes requests of a connection in order, forwards to all subscribers, and may have
taken a change whose acknowledgement is lost. `ChangesIn` is what the library
keeps of a lost connection: the changes, in their order, without the
subscriptions. `Restart` is a process that ends
and starts again with nothing.

### JwksCache and KeySource

`key_for` looks in `keys`, then in `previous`; if the key is in neither, `refresh`
fetches the published set, copies `keys` to `previous`, installs the new set, and
`key_for` looks again. Each of these is a step (`LookInKeys`, `LookInPrevious`,
`Fetch`, `Keep`, `Install`): they are separate lock sections, and nothing makes two
calls take turns. `Fetch` reads what is published at that moment, and any number
of steps may pass before its answer is kept and installed, which is a late
answer. `Rotate` is the identity provider, which publishes any other set, also one
it published before, `Restart` an instance that starts with empty maps.

`KeySource` is the contract: a call is answered "found" only for a key that was
published at some time; and a *calm* call, one that no rotation overlaps and
that began when all calls that ran were calm, is not told that a published key is
unknown. `JwksCache` implements it with `ask` as the only mapped variable. The
condition is needed: a call that fetched before a rotation installs the old set
over a newer one that another call has installed, and the call that relied on
the newer one misses its key.

Two comments of the code promise more than it does. The previous set is "kept
as a fallback so a key rotation causes no downtime" (`jwt.rs:25`): one refresh after
the rotation keeps it, which is `FallbackOutlivesOneRefresh` (of the current set, and
when no call is between its two copies at the rotation), but a second refresh of
the same set (another unknown key id, or a concurrent one) copies the new set
over it. And `JWKS_TTL`, "how long a fetched JWKS set is trusted before it may be
refreshed" (`jwt.rs:22`), is used only to initialise `fetched_at`, which nothing
reads: a withdrawn key is trusted until refreshes push it out. That is why
`KeySource` says "published at some time".

### AuthGate

A call is `validate`, `check` (the revocations), `limit` (the budget of its tenant),
then `handler`, or for a logout `validateAgain` and `revoke`. A validation waits for a
key, so its outcomes "unavailable" and "invalid_token" are open for any token;
`exp` is compared with the clock plus the validator's leeway, and `Remaining` is
`exp.saturating_sub(now)`. `revoked` and `bucket` are the two in-memory maps; an entry
that has expired is removed when it is looked at, a budget's window opens with
the call that finds it over. A tick stands for the unit in which the clock, the
leeway and the window are counted. `loggedOut`, `late` and `passed` are history.

`LoggedOutStaysOut` is what logout does guarantee. It is weaker than "reuse of the
token afterwards is rejected" (`auth.rs:34`) in three ways that the code chose: the
entry ends at `exp` although the token validates for the leeway longer; the entry of a
second logout of the session replaces the first, also when it ends earlier; and
a restart forgets all entries. It says nothing of a call that was past the check
when the logout was answered, nor of another instance.

Tokens without `jti` are one session (`jwt.rs:182`), whoever they belong to: a logout
with one of them logs out all the others. `RevokedOnlyByLogout` is about sessions, so it
holds while that happens, as it does in the instance that is checked, which has two
such tokens; what it excludes is a revocation by a logout that was refused, throttled
or failed.

### SearchPages

A page is one SQL statement, so it shows one state of the table; between two
pages other requests put and delete rows. `Visible` is the WHERE clause, `Orders` the
ORDER BY (rows of one key in any order, a new one for each page), `Slice` LIMIT and
OFFSET, `NextLink`, `PrevLink` and `LastLink` the Link header. The client, which is
external, begins at any page and follows `next`. `NothingMissed` and `NothingTwice`
state the best that pages by offset allow: no key is missed while no row goes
away, none is repeated while no row is added, and for a key with two visible rows
only the number of rows is certain. `KeepsPace` says how a walk gets there, page by
page. What a query matches is a flag of the row
(`hit`): ILIKE, its wildcards, and the text of the links are left out.

### MergePatch

Values are nested at most `MaxDepth` deep, as values that serde_json parses are
nested no deeper than a limit of its own; the recursive definitions are functions on these values.
`Merged` is `merge_patch`, `MergedRFC7396` the pseudo code of RFC 7396, section 2. They
differ exactly when the patch has an object with a null inside it at a place
where the base has no object to merge with (`CopiesNull`): the code copies that
object with its nulls, the RFC drops them, although the comment of `merge`
(`model.rs:57`) names the RFC. `RepeatIsHarmless` says what follows for a client that
sends a patch once more after a lost answer.

## 3. Runs

| Run | Question | Bounds | Result |
|---|---|---|---|
| `settings_safety` | Do two requests of any kind, interleaved at every await, keep the table and the answers right? | one key, a user-scoped and a tenant-scoped row, 2 slots, versions up to 2, 2 ids, values of one member, one that is too large once stored | 650 290 states, all hold |
| `settings_refinement` | Is that an atomic store? Does every call of the service end? | the requests that contend for a row, no symmetry | 100 309 states, both hold |
| `notify` | Are changes lost, do subscriptions come back, do changes arrive? | 2 instances with a writer each, 2 changes, a channel of 2, one fault per instance, topics with and without a wildcard | 215 715 states, all hold |
| `jwks` | Do concurrent look-ups and refreshes trust the right keys, through rotations and failures? | 2 calls, 2 keys, 2 rotations, restarts | 277 174 states, all hold |
| `auth` | Does logout hold, does a budget bound and refuse as it should? | 2 calls, one tenant, 3 tokens of which 2 share a session, 2 passes per 2 ticks, clock up to 3, leeway 1 | 1 390 295 states, all hold |
| `search` | What does a walk through the pages miss or repeat, and are the links right? | 6 places (4 visible to the Admin, 2 of one key), 2 searches, pages of 1 or 2, 2 writes per walk | 716 859 states, all hold |
| `merge` | Is the merge that of the RFC, may a patch be repeated? | objects with 2 names, 2 deep, at most 3 members | 3 770 states, all hold |
| `settings_ReplacesWhatItRead` | "a stale precondition is detected atomically" | 2 slots | violated |
| `settings_IfMatchHonoured` | "a stale precondition -> 409" | 2 slots | violated |
| `settings_ConflictMeansStale` | "Stale -> VersionConflict; absent -> NotFound" | 2 slots | violated |
| `settings_ActMeansRefused` | "Value failed value-object validation", "client changes something and re-sends" | 2 slots | violated |
| `notify_SubscribesOnConnAck` | "(re)subscribe on every ConnAck", "robust across reconnects" | 1 instance, 2 writers, a channel of 2 | violated |

The five violated properties state comments of the code; `PROJECT.json` quotes
them. In order: a row that is deleted and created again has version 1 again, so
an old precondition fits it; a put with If-Match whose row is gone creates it; the
statement that explains a miss runs later than the miss; a value that grows over the
limit when it is stored is answered as refused, and then no request can read, replace
or delete its row, as each begins with `find`; and the event loop waits for room in the
queue it should be emptying when that queue is full at the subscription after a
ConnAck. What holds in spite of them is stated as precisely as it can be:
`NoLostUpdate` excludes exactly the re-created rows, `RefusalsJustified` admits
"gone in between" for VersionConflict, `ErrorsHaveNoEffect` admits a write behind
InvalidValue only if the row written does not load, `Resubscribed` excludes exactly the loop
that has locked itself out.

Why the bounds are enough. All properties of the service relate at most two
requests and one name. Three invariants are there for the proofs as well
(section 4): `AnswersWitnessed`, `WindowsKept` and `KeepsPace` are what makes the
properties above them inductive. Two slots give every pair of interleavings; a slot is used
again and again, so a third request may commit between any two statements of the
first. Two ids allow a row to be deleted and created again, and the sequence to
run out; version 2 allows a row to move on under a waiting request, and the
column to overflow. `MaxFields = 1` makes a merge of two members too large, and a
value with the one member that `Widened` stores as two. One run has both scopes under
the key, so that a value of one scope that does not load meets requests for the other. In `notify` the
channel of two fills with a subscription and a change, or with two changes; each
instance can lose a connection, or restart, once. The system stops there when the bounded
writes and faults are used up, so its runs do not look for deadlock; the runs of
the service do.

In `jwks` two calls give every pair of interleavings of lock sections, two rotations a
key set that goes and comes back, and each call is used again. In `auth` the clock
passes the `exp` of one token, its leeway, and the end of a window that opened
late; two calls are enough for a logout that overtakes a request, and for one
budget taken from twice. In `search` the four visible rows make up to four pages
and a key whose two rows fall on two of them; two writes cover a row that moves
the others over a page boundary in each direction. In `merge` the size bound
makes merges of two accepted objects too large.

Fairness. `SettingsService!FairSpec`: a statement that was sent ends
(`WF(Serve(c))`), because no statement waits for another request's future. That Postgres
and the network answer or break the connection is an assumption: the time-out of the
pool covers only the wait for a connection. `Answered` is about the service; the
handlers call its decorator, which after Ok waits in `notify` without a bound, and when the
event loop has locked itself out (`SubscribesOnConnAck`) waits for ever. Failures, arrivals and drops have none.
`ConfigNotifications!FairSpec`: the tasks of an instance run when they can, the
broker becomes reachable after a fault and serves its connections; weak fairness
of each action of the loop, because the library takes turns between incoming and
outgoing packets. Commits, drops, lost connections and restarts have none.
`JwksCache!Spec`: each call goes on (`WF(Step(c))`): its locks are held for a lookup, and
its fetch ends by an answer or by the 5 s time-out of the client; new calls,
rotations (bounded, so that they stop) and restarts have none. `AuthGate`,
`SearchPages` and `MergePatch` state safety only.

## 4. Proofs

`SettingsServiceProofs` proves, for all values of the constants (any number of
slots, tenants, users, keys, any set of well-formed requests, any limits):

- `TypeCorrect`: `Spec => []TypeOK`
- `OneWinnerPerVersion`: `Spec => []UniqueWinner`
- `VersionsIdentifyRows`: `Spec => []HandedOutRowsKept`
- `StaysConsistent`: `Spec => []Consistent`
- `NoUpdateIsLost`: `Spec => NoLostUpdate`

Assumptions: `BoundsAssumption` (the limits are natural numbers, `MaxVersion` is
positive, `AsStored` is a function from members to sets of members) and
`RequestsAssumption` (requests are well-formed). TLC evaluates both in every run.

The argument. `UniqueWinner` alone is not inductive: a state in which a consumed
version is still in the table would let a second request consume it. The
strengthening `IInv` adds what the table and the sequence guarantee (`UniqueRows`,
`IdsIssued`), that a consumed version never comes back under the same id
(`ConsumedVersionsGone`), that a request writes once (`OneWrite`), and that a request
about to write holds a row which passed its checks (`WriteChecked`).
`HandedOutRowsKept` is part of it: with `UniqueRows` it says that a row which still
has the id and the version the request found is that very row, which is why
the conditional write loses no update (`NoUpdateIsLost`); the exception is a row
with another id. There is one lemma per kind of step: an arrival, an answer that
leaves the table alone, a request that goes on to its write or to `exists`, an
insert, an update, a delete.

From the same assumptions it proves of the answers:

- `AnswersAreWitnessed`: `Spec => []AnswersWitnessed`
- `RefusalsAreJustified`: `Spec => []RefusalsJustified`
- `RefusalsAreNotSpurious`: `Spec => []NoSpuriousRefusal`
- `ErrorsLeaveNoTrace`: `Spec => []ErrorsHaveNoEffect`, with the exception that it states
- `CallersReadTheirWrites`: `Spec => []ReadYourWrites`.

The argument. `seen` has the target as it is now for a request that runs
(`SeenCurrent`); a request that asks `exists` has met a state in which its write
misses (`MissWitnessed`); from these, each refusal has its witness in `seen`
(`RefusalWitnessed`), whatever other requests do between the two statements.
What an error says of the write follows from the rows that `Commit` returns: a row that
RETURNING gives back and that does not load is the one just written
(`CommitWitnessed`). `RepliedInScope`: the row in an Ok to a write lies in the scope that
`scope_ownership` gives, which is the first in the order `find` reads, so a `get`
of the same caller cannot return another one while it is there.

`SettingsRefinementProofs` proves, from the same two assumptions,

- `Implements`: `Spec => ImplementsVersionedStore`.

An arrival maps to `Ask`, an insert to `Create`, an update to `Replace`, a delete to
`Remove`, every other step to a stutter. It needs `IInv`: `OneWrite` for the store's "a
client has one turn", and `UniqueRows` for "there is one entry under a name".

`JwksCacheProofs` proves, for any set of calls and keys and any number of rotations
(`RotationsAssumption`: that number is a natural number),

- `TypeCorrect`: `Spec => []TypeOK`
- `FallbackSurvives`: `Spec => []FallbackOutlivesOneRefresh`
- `Implements`: `Spec => SourceSpec`.

The argument. Only published keys get into the cache (`CacheKnown`), which gives
"found". For "unknown": calls that run together with a calm one are calm
(`CalmTogether`), so whoever installs a set installs the published one, and the calm
call meets it in its second look (`CalmIsCurrent`). For the fallback: until the first
refresh after a rotation the retired keys are current and no older refresh is
half done, and that refresh puts them into `previous` (`RetiredKept`). Every step of
`key_for` maps to a stutter, its last one to the answer.

`AuthGateProofs` proves, for any calls, tokens, tenants, sessions, budgets, windows and
leeway (`GateAssumption`: tokens are sets of claims, the empty session id is no
`jti`, the numbers are natural and the window positive),

- `TypeCorrect`: `Spec => []TypeOK`, with a count of at most `MaxRequests` in each window
- `LogoutHolds`: `Spec => LoggedOutStaysOut`
- `OnlyLogoutRevokes`: `Spec => RevokedOnlyByLogout`
- `WindowsAreKept`: `Spec => []WindowsKept`
- `BurstsAreBounded`: `Spec => []BurstBounded`
- `OnlySpentBudgetsThrottle`: `Spec => ThrottledOnlyWhenSpent`.

The argument. `LogoutKept`: for each session that was logged out, one of the tokens
logged out has expired or has an entry at least as long as it lives; it needs
`LifeReaches`, that a logout between its second validation and its entry holds a
life that still reaches `exp`, since the clock moves in between. `EntriesByLogout`: there
are no other entries. `LateKnown`: a late call has met a logout of its session.

For the limiter: its count and window start must say enough about calls it does not
remember. `WindowsKept`: a window that runs began with a call that passed, its count
is what passed since, and before it less than a full budget had passed lately; a
window that is over is followed by nothing that passed, and by less than a full
budget. The bound of twice the budget less one is the sum of both parts. What passed
is a function of the age of a call, so the steps are facts about sums over an
interval: a tick shifts it, a call adds one at its start.

`ConfigNotificationsProofs` proves, for any instances, writers, homes of writers, numbers
of changes and faults and any positive capacity (`NotifyAssumption`),

- `TypeCorrect`: `Spec => []TypeOK`, with no channel ever above its capacity
- `ChangesAreAccountedFor`: `Spec => []ChangesAccountedFor`.

The argument. A change passes from the request's hands to the channel, from there to
the requests sent, to the broker or back to the requests waiting for a new
connection. `LossesAreFaults` is the strengthening: a request hands over one change
at a time, and the library lets go of requests, or has any it kept, only after a
fault, which is when a change may be lost; the changes with a wildcard in their topic are
excepted by name. The steps of the loop are facts about
sequences: what is taken from the head of one is appended to the next.

`SearchPagesProofs` proves, for any finite set of places, any searches, page sizes,
limits and numbers of writes (`PagesAssumption`, `SearchesAssumption`: places are
finite in number and are a tenant, a user or none, and a key that is a number, so
that keys have an order; the size limit is positive),

- `TypeCorrect`: `Spec => []TypeOK`
- `OnlyReadableIsListed`: `Spec => []ListsOnlyReadable`
- `LinksAreTrue`: `Spec => []LinksMatchRows`
- `WalksKeepPace`: `Spec => []KeepsPace`
- `NoKeyIsMissed`: `Spec => []NothingMissed`
- `NoKeyIsRepeated`: `Spec => []NothingTwice`.

The argument. Whatever order a page has for rows of one key, the rows of a key are
an interval of it, which begins after the rows of the smaller keys (`Below`). So a
page lists of a key the overlap of two intervals, and what the client has of it
(`Listed`) compares with what the pages have covered: a row that goes away among the
smaller keys moves the key back over pages already read, one that comes moves it
forward. `KeepsPace` is that comparison in each of the two cases, `Grounds` says what
`added` and `removed` tell of the table as it is now, and that a walk that ended has
covered it. The links are arithmetic on page, size and total.

`MergePatchProofs` proves, for any names of members, any scalars, any size and any
depth (`SizeAssumption`: the last two are natural numbers),

- `TypeCorrect`: `Spec => []TypeOK`, so merges add neither depth nor size beyond the limit
- `MergeIsThatOfTheRFC`: `Spec => []MergesLikeRFC7396`
- `RepeatsAreHarmless`: `Spec => RepeatIsHarmless`.

The argument. Each recursive function exists and satisfies its equation (by induction on
the depth: a function that satisfies it on the values nested k deep gives one for
k + 1). The rest is induction on the depth of patch and base together: a merge is
nested no deeper than they are; the two merges agree on all members if and only if
nothing is copied below; and merging a patch that copied no null into its own result
gives that result. For the last property, `Settled` strengthens the invariant: the
last patch, sent again, changes nothing or is refused for its size again.

`DataLemmas`. The theorems of the library for induction take the property as an operator,
which cannot be instantiated here. The lemmas take it as a set of numbers
instead: `LeastNumber` (a set of naturals that is not empty has a least element)
follows from the library's theorem that `<` is well-founded, and
`NumbersByInduction` from that. The sum over a set is a recursive function: that the
function exists, and then that a sum over an interval can be split, shifted and
bounded, is proved by induction on the size.

Only model-checked: liveness (`Answered`, `Resubscribed`, `Delivered`,
`SettlesAfterRotation`), because fairness and ENABLED are out of the prover's reach.
Every safety property that a run checks and that holds is stated by a theorem.

## 5. Plan

What is not modelled yet: the conversion of `updated_at` over a restart, the bounded
retry of start-up and readiness, the scripts' state file.

### Not modelled

`PROJECT.json` gives the reason for each component. Of the code inside modelled
components: `updated_at` and its conversion, syntax of keys and sizes in bytes,
the text of queries and links (a query with an ampersand changes the link `next`,
one with a character outside ASCII makes `list_settings` panic: both are listed as a
hazard), the two encodings of a listing, the role claim (`parse_role` maps an
unknown role to User, its comment says Admin: `jwt.rs:188`), trace headers, `ping`. No
property orders the notifications of one key: the code does not order them and
no comment says it does. No property checks the link `prev` of a page beyond the last
one. The run of `AuthGate` has one tenant: that tenants do not use up each other's budgets
rests on the theorem `OnlySpentBudgetsThrottle`. No property bounds the maps of the rate limiter and of the
revocations, nor how long a withdrawn key is trusted: the code has no such bound.
