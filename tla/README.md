# A verification development for billing-sdk-go

`billing-sdk-go` is a client library: an application links it, keeps a signed
license snapshot and a usage counter on the device, and talks to a billing
server over signed HTTP requests. Nothing in it is a server and little of it is
a thread, yet the parts that matter run next to other goroutines, survive
restarts and deal with answers that come late or never. These modules model
those parts in TLA+, check them with TLC on small instances and prove the
central ones with TLAPS.

`PROJECT.json` holds the machine-readable index: components, runs, the faulty
variant each property is tried against, the source lines behind every
definition, findings, hazards and theorems.

## 1. Inventory

| Component | State | Operations | Talks to | Hard because |
|---|---|---|---|---|
| usage: buffer and `Flush` (`usage/usage.go`) | the buffer's map behind a mutex; `Flush`'s locals | `Add`, `Drain`, `Restore`, `TrackDelta`, `Flush` | the application's `Sync`, `Serial`, `OnRefresh`, a custom `Buffer` | several `Flush`es and `TrackDelta` interleave; any call may fail, or succeed on the server and fail on the client |
| usage: `Tracker` life cycle (same file) | `running` (atomic), `cancel` and `done` (plain fields), the loop goroutine | `Start`, `Stop`, `loop` | contexts, the ticker, `Flush` | unlocked fields written after the CAS; join, restart, cancellation of a request in flight |
| license: evaluation (`license/license.go`) | none | `ComputeRemaining`, `IsExpired`, `IsInGrace`, `CanUseUpdate`, `Verify`, `Decode`, `PeriodResetAt` | called by gate, desktop | machine integers, missing and unreadable dates, boundaries |
| lifecycle (`lifecycle/lifecycle.go`) | none | `ComputeState`, `TrialDaysLeft`, `GraceDaysLeft` | called by gate and the user interface | the same dates judged a second time, rounding to days |
| gate (`gate/gate.go`) | one mutex | `Check`, `Require` | the application's `Loader`, `LocalConsumption`, `Now` | the mutex does not cover what the callbacks read |
| desktop: `KeyStore` (`keystore.go`) | keychain entry, debug file | `LoadOrCreate` | the OS | two stores, errors ignored, crashes between writes |
| desktop: activation (`license.go`, `publickeys.go`) | the store of public keys behind an RW mutex | `ActivateOrRefresh`, `ActivateOrRefreshWithKeys`, `Snapshot`, `MergeKeys` | the licensing endpoints | keys change between a snapshot, a request and a retry |
| loopback (`loopback/loopback.go`) | listener, accepting goroutine, channel | `Login` | the browser, `oauth.Exchange` | anything may connect; the timeout races the callback |
| desktop: session and auth (`session.go`, `auth.go`, `keyring.go`) | the keychain token, `Client.CustomerToken` | `Hydrate`, `Persist`, `Clear`, `RefreshAuth` | the keychain, the client, `customer`, `license` | two stores written one after the other; three requests that read the token anew; the server changes in between |
| client (`client/client.go`), signature | base URL, secrets, token | `Do`, `DoPublic`, `Sign` | the network | what is signed and what is sent are computed apart; a ten second timeout, no retry |
| customer, downloads, github, devices, oauth, `license/endpoints.go` | none of their own (`VerifyOTP` and `Exchange` set the client's token) | one request each | the client | arguments become path segments |
| platform, cipher, config, fingerprint, browser | none | encoders, look-ups | the OS | not |

What makes each of them correct, in a sentence:

* **Flush** neither loses nor duplicates usage: a unit is in the buffer, in one
  `Flush`, or delivered; no unit travels in two requests unless one of them
  failed; what is dropped from the buffer for good was applied by the server.
* **Tracker**: one goroutine, `Stop` joins it before its own `Flush`, returns,
  and has delivered what was tracked before it when it returns nil.
* **license/lifecycle**: two packages judge the same dates alike at every
  instant; time never turns a license valid again; counts of days are what is left,
  rounded up; uses lower what remains one for one.
* **gate**: the decision follows the documented rules on what was read; the
  allowance is overdrawn by no more than the interleaving explains; the mutex
  is released on all paths.
* **KeyStore**: the key never changes once it was returned.
* **activation**: the one retry can see the fetched key; merging takes no key
  away; nothing but a published key verifies; the device is registered once.
* **loopback**: `Login` ends and gives up its port, its goroutine ends, it trades no
  other login's code.
* **session**: a restart resumes what was last persisted; after a `Clear` that
  returned nil no token of before comes back; a snapshot is about one customer and
  says what was so during the call.
* **requests**: what is sent is what was signed, and reaches the route it was meant
  for. It does not for every call and argument (sections 4 and 6).

The hazards this leads to, each with its line and the properties that cover it,
are listed in `PROJECT.json`.

## 2. Modules

```
UsageLedger          abstract: record once, deliver at most once
   ^ implemented by (TLC: usage_flush; TLAPS: ImplementsLedger)
UsageFlush           the pipeline        UsageFlush_proofs
   ^ EXTENDS, implemented by (TLAPS: TrackerUsesPipeline)
UsageTracker         Start/Stop/loop     UsageTracker_proofs

License              pure functions
   ^ EXTENDS
LicenseClock         a snapshot under an advancing clock
Gate                 Check and the application around it

Request              pure: the calls, what is signed, what is sent
   ^ EXTENDS
Session              sign-in, keychain, restarts, RefreshAuth

KeyStore   Activation   Loopback          each on its own
X_proofs             theorems about X (eight modules)
MC*                  instances for TLC
```

Operators whose comment begins with "Faulty variant" are not part of a
specification. They are plausible mistakes (a dropped test, a wrong order), and
every property of a passing run is shown to fail with one of them in place of
the real definition.

### UsageLedger, UsageFlush

A unit of usage is a model value with a feature, and a count is a set of units:
`b.state[k] += v` is a union, exact as long as the sets are disjoint, which
`Conservation` states. State ↔ code: `buffer` is `MemoryBuffer.state`; `deltas`,
`serial`, `call` are `Flush`'s locals of each goroutine in `Flushers`; `pc` is
the call it is in. A call of `Sync` has an identity in `Calls` with what it
carries (`payload`, `sent`), whether the server may still process it (`wire`),
the server's answer (`reply`) and what the client saw of it (`status`).
`tracked`, `acked`, `lost` are history.

Actions follow `Flush` call by call, since it holds no lock between them:
`Drain`/`DrainFails`, `ReadSerial`/`SerialFails`, `StartSync` (or `SyncRefused`
with a cancelled context), `SyncOK`/`SyncFail`, `Restore`/`RestoreFails`,
`OnRefresh`/`RefreshFails`. `SyncFail` leaves the request on the wire or not, so
a timeout races an application by the server. `BufferMayFail` is for a custom
`Buffer`: the error of `Restore` is ignored by the code, and `lost` counts what
goes with it. The server applies a request as a whole (`Apply`).

With `MayCrash` the process may end between any two steps and start again. What
a `Flush` has in hand is then gone, and so is the buffer unless it is `Durable` (a
custom `Buffer` over a file); a request on the wire may still be applied, and its
call is "gone": no retry follows, so a crash loses usage and never counts it
twice. `docs/32-usage.md:27` suggests a custom buffer "for durability"; what
`Drain` has handed out is outside its reach, and `Conservation` says how much.

`UsageLedger` says what the caller is promised: a unit is recorded once and
appears in at most one report of delivery. The refinement mapping takes the
reports to be the successful calls of `Sync` and what they carried.

### UsageTracker

`Start` and `Stop` at the granularity of their accesses to `running`, `cancel`
and `done`; a successful `Start` creates a run from `Runs` (context, channel,
goroutine), and a run's goroutine and an owner are flushers of `UsageFlush`. The
`defer close(t.done)` evaluates its argument when the goroutine begins
(`LoopEnter`, `closes`) and runs when it ends (`LoopExit`), where closing a
closed or nil channel panics. The select has no priority: `LoopTick` stays
possible with the context done. Data races are resolved one access at a time; the
two reads of `t.done` in `Stop` are taken as one.

### License, LicenseClock

The pure functions, with the machine's widths as constants: `Word` for uint64,
`HalfDuration` and `Day` for `time.Duration`, whose products wrap (`Duration`)
and whose differences saturate (`Sub`). A date is a time, absent or unreadable.
`DaysIn` is `int(delta.Hours() / 24)` and one more for a started day. `Hours()` is a
float64, and in the last instants of a day it may round up to the whole day
(`RoundedUp`), which is then counted twice: `Lost(d)` is how many instants these are
after `d` whole days. For a nanosecond clock it is 0 up to 169 days, 1 from 170 on
and at most 838; the runs and the theorems only need that it is less than a day.
`LicenseClock` lets the clock and the local consumption advance under any
snapshot, so properties relate the functions to each other and to themselves a
moment later.

### Gate

`Check` is three steps (`Load`, `Judge`, `Count`), because what `Loader`, `Now`
and `LocalConsumption` read is not behind `g.mu`; the failing returns are
actions. `Require` only wraps a denied `Check` in an error. Around it, an application
as the documentation shows it: use after an allowed `Check` (`Use`), doing without
after a denied one (`GiveUp`), and a synchronisation that stores a new snapshot and
afterwards takes the synchronised uses off the counter (`StoreSynced`,
`TakeOff`). `Load` includes `Lock`, every return the deferred `Unlock`. A snapshot
has a meter of any type, also one `ComputeRemaining` does not know, and a counter
may be issued in use or used up. `first`, `used` and `seen` are history: `Quota` is
what the meter of the first snapshot had left to grant.

### Request, Session

`Request` lists the calls of `customer`, `license`, `devices`, `oauth`,
`downloads`, `github` and `usage`: by what function each is sent, its arguments,
whether they are escaped or concatenated, and its query. `Path` is what a wrapper
passes on, `Canonical` what `Do` signs and `JoinPath` what `url.JoinPath` makes of it.
An argument is "plain", "reserved" (it has something to escape), "slashed", "dots" (it
is `.` or `..`) or "empty"; `url.PathEscape` leaves the last two alone, and
`url.JoinPath` cleans the path of them (`Joined`), an empty last segment excepted.
`Accepted` is the set of calls and arguments for which the signature holds for what
arrives (`Verified`) and each argument is a segment of the route (`Routed`).
`BaseURL` is taken to be an origin: a path in it would be sent and not signed.

`Session` is one application. Its main goroutine boots (`Hydrate`), signs in,
persists and clears, and may end at any step (`Crash`). `Persist` and `Clear` are
two steps each, the keychain and then the client, and either may fail having
written or not. A refresher goes through `RefreshAuth` request by request (`Me`,
`GetFeatures`, `Check`) while the server revokes tokens and changes plans; each
request carries `Bearer`, read anew, and is `Answered` only if it is `Accepted`. What
the names in the session hold is one of `Names`: with a name that `JoinPath` cleans
away (`Cleaned`) `Features` is refused or reaches no product, and `SnapshotHonest`
then does not say why a snapshot lacks a license. `docs/10-client.md:124` asks the application to clone the
client or to keep changes of the token apart from its use: `cloned` chooses which
of the two it does, and `MayChangeToken` is the second. `owed`, `cleared`, `since`
and `failed` are history. A returned snapshot is taken before anything else
happens (`Next`): it is local to its caller and changes no more.

### KeyStore

`LoadOrCreate` in the order of its reads and writes, with a crash at any step;
`os.WriteFile` is a truncation followed by a write. `setup` says whether a debug
file is configured and which backend may fail. Any number of instances of the
application share the two backends, with no lock between them. `KeyStable` (every
key returned is the same) can then not hold as it stands: two that find no key at
once make two. `KeyShared` says what does hold: if no two run before a key has been
returned (`FirstRunAlone`), any number of them agree on it from then on.

### Activation

A caller's `pc` walks through `ActivateOrRefreshWithKeys`: first attempt
(`Refresh`, on 404 `Activate`), `Judge` (look-up in the snapshot, `Verify`,
`Decode`), and with an unknown key_id `Fetch`, `Merge` and a second attempt. A key
is an id and a material; a signature verifies against the material that made it.
The server changes its signing key (`NewSigningKey`) before it publishes it
(`Publish`), and the device may be revoked at any time.

### Loopback

`Login` and the accepting goroutine share `channel` (capacity one). A connection
sends a callback, a refusal, a callback without state, something malformed, or
nothing; it comes from this login, from the tab of an earlier one that had the
same port, or from elsewhere. `Expire` is `callbackCtx`, which the read of the
request does not watch: only `ReadDeadline` ends that. `Return` is the two deferred
closes, of the listener and of the connection that is served. What is in `channel`
they do not reach: a connection that was accepted when the context ended stays open
there until the garbage collector finds it, which is the one exception in `ClosesUp`.

## 3. Runs

| Run | States | What it shows |
|---|---|---|
| `usage_flush` | 1.9 M | two concurrent `Flush`es, three units of two features, three calls, one fault or crash besides cancellations, every option on: conservation, no live redelivery, nothing acknowledged in vain, the ledger |
| `tracker_owner` | 0.5 M | one owner through two runs, parent cancellation, five calls, a failing buffer: `Stop` joins, delivers and returns, one loop, snapshots move forward, recorded usage is delivered |
| `tracker_race` | violated | two owners: `Stop` between `Start`'s CAS and its assignments does not wait |
| `license_clock` | 40 k | every kind of date, flag, meter and window, an instant before and after each boundary, days whose last instant `Hours()` rounds up and days where it does not |
| `gate` | 0.6 M | two callers, every type of meter, counters issued unused, in use and used up, a flag or neither, expiry, a synchronisation, three uses, a failing callback |
| `keystore` | 0.34 M | two instances, four keys, three faults of one backend and crashes, with a debug file or without one: after a first run on its own they share one key, and an entry that is no key stays |
| `keystore_lost` | violated | no debug file and one failing read of the keychain |
| `activation` | 1.5 M | two callers, two key_ids, two materials, a key change, a revocation, a fault |
| `loopback` | 46 k | two logins, two connections of any kind, one fault: both end, no code goes astray, and port and connections are given up |
| `loopback_page` | violated | the success page of a login that fails |
| `session` | 6.7 M | two customers with a token each, a refresher, two faults, a plan change, revocations and restarts, clones or a shared client, a product's name that is plain, has to be escaped or is cleaned away |
| `request_query` | violated | a query that is sent as a part of the path |

**Bounds.** Flushers, owners, callers and logins are two wherever the properties
concern interleaving, since each of them relates two actors at most (a unit in
two `Flush`es, a merge beside a verification, one login and another's code); for
the pipeline and the life cycle the theorems of section 5 remove the bound. Three
units, two of one feature, separate "overwrite the feature" from "merge".
There are as many calls as a failure and its retry beside another flusher's call
need. One fault is enough to reach each error path, and its retry; the
`keystore` run needs more because an error may hide an earlier one. In
`license_clock` a day is three instants, so that a remainder of one and two
exist, and from the fifth day on `Hours()` loses the last of them (`MCLost`; the
code loses one of 86400 x 10^9 from the 170th on), so both kinds of day occur;
`MaxTime` passes the longest grace period. `HalfDuration` and `Word` are
beyond all dates and counts: the wraps are in the model, and the hypotheses of the
theorems (section 5) say where they begin. In `session` one refresher suffices,
because what a refresher builds is its own (`RefreshIsHonest` is proved for any
number); the second fault is for a failure of the keychain after a failure of the
network, and the second customer for a sign-in under another one's refresh. Its
`Names` leave out "slashed", which becomes the same path as "reserved", and "empty",
which at the end of a path `Verified` but not `Routed` rejects, as it does "dots"
for another reason; `request_query` has all five. In `gate`
the quota of a limited meter is one at most, which `MaxUses` and two callers exceed by
more than the overdraft bound. In `keystore` four keys are more than the two
instances can make between two returns.
`CHECK_DEADLOCK FALSE` is given where a bound ends the behaviour: the clock and
the uses (`license_clock`, `gate`), the keys (`keystore`), logins that are over
(`loopback`). Symmetry is used for identities that no property orders, and in no
run with a liveness property; in its place calls and runs take their identities in
one fixed order (`StartSync`, `NextRun`), which is no loss since they begin alike.

**Fairness.** Weak fairness of the goroutines' own steps is the Go scheduler's.
`Apply` and the end of a call are fair because the HTTP client gives up after ten
seconds (`client.go:31`), and after the last of `MaxFaults` faults an answer
comes within them; the ticker ticks. `LoopExit` is strongly fair: a select
chooses uniformly among its ready cases, so a goroutine that comes back to it
with its context done leaves with probability one. `Load` in `Gate` is strongly
fair: `sync.Mutex` hands itself to a waiter in starvation mode. In `Loopback` the
timers fire and the opener returns. Nothing makes an application call anything,
a peer connect or a fault happen.

## 4. Findings

1. **Stop can miss a starting goroutine** (`tracker_race`). `Start` assigns
   `t.cancel` and `t.done` after its CAS on `running`; a `Stop` from another
   goroutine in between cancels and waits for nothing, and no later `Stop`
   reaches the goroutine. `docs/32-usage.md:84` promises that `Stop` waits.
2. **The query of `Portal` and `Invoices` is sent as a path** (`request_query`).
   `Do` gives its whole path to `url.JoinPath` (`client.go:72`), which escapes the
   question mark, while the signature is made over the path as it was passed.
   `docs/10-client.md:64` lists `GET /api/billing/portal?return_url=...`.
3. **A locked keychain rotates the key** (`keystore_lost`). Any error of
   `keyring.Get` is taken for a first run, and what the old key sealed is lost.
4. **The success page is sent before success** (`loopback_page`). It is written
   before code, state and exchange are looked at.

## 5. Proofs

The theorems hold for any number of actors, units, keys, calls and faults and any
choice of options. They rest on the assumptions the modules make on their
constants and on the hypotheses named below, each of them in the theorem's
statement. Where a property is not inductive, the invariant that is, is given.

**UsageFlush_proofs.** `Conservation` alone is not inductive: whether `SyncOK`
delivers what its call carried, and whether `Restore` may put `deltas` back,
depends on who owns which call. The inductive invariant is

    IInv == TypeOK /\ Conservation /\ IdleEmpty /\ AwaitOwn /\ OpenOwned
            /\ OkAcked /\ AckedApplied /\ GoneLost

`IdleEmpty`: a flusher answers for deltas only between `Drain` and the end of
`Sync`. `AwaitOwn`: one that waits has an open call of its own that carries its
deltas. `OpenOwned`: nobody else's call is open. `OkAcked`: what a successful
call carried is delivered, and by no other. `GoneLost`: what a call cut off by a
crash carried is lost, and by no other. Each conjunct is preserved action by
action (`TypeStep`, `RestStep`, the crash included); from it follow

* `TypeCorrect`, `UsageConserved`, `NothingAckedInVain`: the invariants of the
  run `usage_flush`;
* `RedeliveredOnlyAfterFailure`: two calls that are open, successful or gone carry
  disjoint units (an open call's are its flusher's, a successful one's are
  delivered, a gone one's are lost, and `Conservation` keeps the three apart);
* `ImplementsLedger`: every step is a `Record`, a `Deliver` or a stutter. Only
  `SyncOK` adds to the reports, and by `OkAcked` with `Conservation` what it adds
  is in no earlier one.

**UsageTracker_proofs.**

* `TrackerUsesPipeline`: whatever `Start`, `Stop` and the goroutines do,
  `TrackerSpec => Spec`. `Stop`'s cancellation is the one step that needs an
  invariant (`cancel` is nil or a run, which is a flusher). `TrackerConserves` is
  its first use.
  The others are `TrackerImplementsLedger`, the refinement of `UsageLedger` by the
  whole tracker, and `TrackerTypes`; none of the three has a hypothesis.
* `OwnerStopsSafely`: `TrackerSpec /\ []NoOverlap => [](StopJoins /\ OneLoop)`, for
  any number of owners and restarts. `NoOverlap` is what the finding `tracker_race`
  leaves to the application: no `Start` past its CAS while a `Stop` is past its own.
  `Start`s may race `Start`s, and `Stop`s `Stop`s. The CAS on `running` then lets one
  owner in at a time, which is derived (`Serialized`), not assumed. `OwnerInv`
  follows that owner: in `Start` (`InStart`) no goroutine lives and the latest run
  has none yet; in `Stop` (`InStop`) the latest run is the one being stopped and
  `done` is its channel; at rest the tracker is running or nothing is. `LiveLatest`
  and `OwnChannel` tie goroutines to their channels.
* `OneOwnerStopsSafely` (a single owner never overlaps itself) and
  `StartIsIdempotent` (any number of concurrent `Start`s and no `Stop`) are its
  corollaries, without a hypothesis on behaviours.
* `StopWaitsForTheCancelled`, from the same invariant: the channel a `Stop` waits for
  is closed, or belongs to a living goroutine whose context is cancelled. It is the
  safety part of `StopReturns`, for any number of owners.
* `StopDeliversAll`, `SnapshotsInOrder`, under `[]NoOverlap` too. `Busy` says who can
  be in `Flush`, and with `OwnerInv` it follows that only one flusher is (`OneBusy`):
  that is what makes the order of the answers the order of the snapshots
  (`Ordered`) and lets the units of a `Stop` be followed from the loop's failed
  flush through the buffer into the final one (`Delivering`).

**Session_proofs.** `TokenInv` follows the token through the two steps of
`Persist` and `Clear` (`KeychainOwed`) and keeps a cleared one out of the
keychain, the client and the sign-in that is not persisted yet
(`NothingCleared`): `LogoutIsFinal`, `HydrateResumes`. `RefreshInv` adds, per
refresher, that its three requests carry one token (`Bound`), whose owner is the
customer of its snapshot (`Known`), and why `Check` is asked (`Asked`):
`RefreshIsHonest`, and with it `SessionTypes` (a request has an owner to answer
about because of `Bound`). `PlainCallAccepted` and `FeaturesAccepted` are what
`Request` contributes: the three requests reach their routes unless the product's name
is one that `JoinPath` cleans away.

**KeyStore_proofs.** `KeyStoreTypes` and `BadEntryStays` have no hypothesis: where
the keychain answers, no instance is on its way to write a key while the entry is one
that cannot be decoded (`NoneReplaces`).
`KeyNeverChanges` is `CanKeep => (Spec => KeyShared)`, for any number of instances:
the device can keep a key (`CanKeep`: a debug file, or a keychain that does not fail;
`keystore_lost` is the other case), and the first run is alone (`FirstRunAlone`, in
the property; the code has no lock against a second). The invariant says which
backend holds the key that was returned, and that no instance has another in hand:
`KeychainKeeps` for a keychain that answers, `FileKeeps` for one that may not.
`OneInstanceKeepsItsKey` is the corollary for one instance at a time
(`OneAtATime`), where `KeyStable` itself holds.

**Loopback_proofs.** `LoopbackTypes`, and `LoginsStayApart` from `OwnCallback`:
only a callback of a login's own reaches its exchange, which is where `Login`
compares the state. `Handover` says where the accepting goroutine is when `Login` is
where it is; from it `AcceptorNeverBlocks` (the channel is empty whenever the
goroutine sends, which is also why `Accept` needs no guard for room) and
`WaitingIsAnswered`, the safety parts of `AcceptorEnds` and `LoginReturns`.
`LoginClosesUp`: a port is bound exactly from `Listen` until `Login` returns, however
it returns; then its backlog and the connection it served are given up, and a
connection is left in the channel only where the context ended `Login`. `TokenIsEarned`: the client's token is that of a login that returned
success, after exchanging its own code. None has a hypothesis.

**Activation_proofs.** `NoForeignKeyPasses` from `KeysOffered` (every copy of a
key, in the store, a snapshot or an answer, was baked in or published);
`RetrySeesFetchedKeys` from `FetchedReaches` (what was fetched is in the store
before the second snapshot is taken); `ActivatesOnce` from `RegisteredOnce`, which
counts by call: each call registers the device once and once more per revocation
during it, and two concurrent ones that both meet a 404 may register it twice;
`StoreForgetsNothing` and `ActivationTypes`. No hypothesis.

**LicenseClock_proofs.** `PackagesAgree`, `TimeOnlyExpires` and `DaysLeftRounded`
(with the extra day where `Hours()` rounds up, and without the grace days at the
instant of expiry, see section 6) for every snapshot and instant under `DatesFit`, and `UpdatesCovered` under
`WindowsFit`: the products with 24 hours fit a `time.Duration`, which ends at 106751
days, and an expiry date is less than that ahead. `UsesComeOff` under `MetersFit`:
the counter does not wrap at 2^64. `ClockTypes` needs only that the fields hold
machine values (`PayloadsTyped`): what is left is a uint64 and days are not
negative, whatever wraps. Beyond these limits the products and the counter
wrap, as they do in the code.

**Gate_proofs.** `GateTypeCorrect` and `DecisionsFollowRules` assume only that the
snapshots are what a license decodes to (`SnapshotsTyped`: a meter of any type, any
flags and dates), so they hold of a counter that wraps as well.
`DenialsAreHonest` and `OverdraftIsBounded`, about every type of meter, need
`CountersFit`: finitely many callers, and no counter so close to 2^64 that the uses
of the behaviour wrap it. `Accounted` ties the local counter and the stored snapshot to
the first snapshot and the uses made: a use is on the counter, in the snapshot, or,
between the two steps of a synchronisation, in both; and whatever a `Check` has
loaded has the same meter, at the stored level or below. `Overdraft` bounds what
was granted by the quota and the other callers, and by one more once a
`Check` may hold a snapshot from before a synchronisation; its second conjunct
says how far such a `Check` may still go, which makes it inductive for any number of
synchronisations. `RemainingMeaning` is what `ComputeRemaining` contributes: without
a wrap something is left exactly below the limit.

**Only model-checked.** Liveness (`StopReturns`, `UsageDelivered`,
`CheckReturns`, `LoginReturns`, `AcceptorEnds`): fairness and `ENABLED` are out
of the prover's reach, as are recursive operators and induction over data, which
no module here needs. For four of them the theorems above prove the safety part,
that nobody waits for what cannot come: `StopWaitsForTheCancelled`,
`AcceptorNeverBlocks`, `WaitingIsAnswered`, and for `CheckReturns` the clause of
`GateTypeCorrect` by which the holder of the mutex is a `Check` on its way. Every
safety property of a passing run is a theorem, under the hypotheses above.

## 6. Not modelled

* Numbers: the wrap-around of the buffer's counts at 2^64 (sets do not wrap), and
  how many instants `Duration.Hours()` rounds up, which is the constant `Lost`.
* What the server does with the serial of a request. That a serial may be stale
  when it is sent, because a `Flush` that ended in between stored a newer snapshot,
  is in the model; whether it matters is the server's to say.
* Two instances of `LoadOrCreate` that find no key at once: the module allows it and
  they may then disagree, since the code has no lock between processes; no document
  says otherwise, and `FirstRunAlone` leaves the case out.
* Requests: headers, the hash, the nonce, decoding of answers and of errors, and a
  path in `BaseURL`. An argument that is only concatenated (`downloads`, the free
  snapshot) and has to be escaped, and one that is `.`, `..` or empty, are in the
  tables of `Request`; of what they lead to only `SnapshotHonest` speaks, for
  `Features`.
* `Verify` and `Decode` beyond "verifies against the key that made it";
  `PeriodResetAt`, which parses a field.
* Platform names, cipher, config, fingerprint, browser, the PKCE pair: pure
  functions and calls of the operating system, without state or order.

Where the documentation and the code differ and no run of its own shows it:

* At the instant of expiry `ComputeState` says active, and `docs/33-lifecycle.md:30`
  that grace begins after it. `GraceDaysLeft` counts the whole grace period at that
  instant, although its comment (`lifecycle.go:62-63`) says 0 when not in grace.
  `DaysLeftCovers` asserts nothing of the grace days there.
* `docs/33-lifecycle.md:79` gives `TrialDaysLeft` as `ceil((ValidUntil - now) / 24h)`. A
  nanosecond before the end of a day more than 170 days ahead the code returns one
  more; `DaysLeftCovers` says when.
* `docs/10-client.md:92` calls the request of `Plans` unsigned, while `Plans` uses `Do`
  (`downloads.go:86`), which signs it, and so does the module.
* A `Login` that its context ends may leave an accepted connection open
  (`loopback.go:113-123`).

## 7. Plan

Done: the pipeline and its ledger, the life cycle, license and gate, key store,
activation, loopback; then the session and the requests, the crash and the durable
buffer, and the theorems of section 5. Left, in the order of importance:

1. The safety part of `UsageDelivered`: while the tracker runs, whatever was recorded
   and is not delivered is in the buffer or with a flusher whose goroutine lives.
2. What holds of owners whose `Start` and `Stop` do overlap, beyond
   `TrackerConserves`: how many goroutines can be left behind.
3. The composition of `Activation` and `Gate`: an activation that replaces the
   snapshot a `Check` is reading.
