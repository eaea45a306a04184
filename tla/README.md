# Zappermeow: verification project

TLA+ specifications of Zappermeow: who owns a WhatsApp session, how it is paired,
brought up, taken down, moved, commanded and reported, and the tenants, accounts
and trails around it. TLC checks them on small instances; TLAPS proves most of the
safety properties of every module for every size.
`PROJECT.json` maps each definition to the lines of `src/` it stands for and lists
runs, hazards, findings and theorems.

## The system

* **API** (`serve`): stateless. `ConnectionService` records what the tenant wants
  in Postgres, finds the owner of the session through the lease table and sends it
  a gRPC command with a fence, or wakes the fleet over Redis when there is none.
* **Session workers**: stateful. The `Supervisor` keeps a map of the sessions the
  process runs; the `Runtime` renews leases, adopts sessions nobody owns and
  listens to the claim and stop channels; each session has a pump that turns
  WhatsApp events into writes of the instance's row and published frames.
* **Postgres**: `session_leases` (desired state, holder, fencing generation,
  heartbeat) and the connection columns of `instances`.
* **Redis**: numbered event frames per instance, control channels, caches.
* **WebSocket stream**: a snapshot of the row, then the frames after it.
* **Account plane**: tenants, users, passwords, API keys, rate limits, retention.

## Modules

| Module | Models | State |
|---|---|---|
| `LeaseTable` | the statements of `leases.sql`, `lease.CheckGeneration` | one function per column, the heartbeat as an age |
| `Ownership` | what the table promises: a succession of numbered epochs | `epoch`, `owner`, `standing` |
| `Lease` | `lease.Manager` called by anybody at any time | table and the history of grants |
| `InstanceRow` | the connection columns, reasons, state machine | `connection_state`, `connection_intent`, `last_disconnect_reason` |
| `Worker` | supervisor, pumps, runtime, gRPC commands, drain, crash | the sessions map with sockets and inboxes, pumps on their way out, program counters of the runtime, the drain and the handlers |
| `SessionFleet` | API requests and the workers together | requests under way, tenant status |
| `EventChannel` | publisher, subscriber, snapshot and streaming loop | counter, publishers, buffer, what the client was told |
| `Pairing` | one instance on its worker: connect, pair by phone, disconnect, logout, drain; the pump's pairing handlers; the adapter's QR attempts and event channels | row with identity, sessions entry, socket and the context it is bound to, device material, channels, attempts, program counters |
| `Routing` | `sessionclient` with the owner cache and retry, the fence, `SetPassiveMode`, `ApplySettings`, `reapplyPassiveMode` | lease row, cache key, stored mode, a session per worker with the mode in force, calls |
| `Tenancy` | services on tenants, instances and API keys, their credentials, the security trail, what they write on leases | the tables, trail, gauge, requests by statement |
| `Accounts` | bootstrap, login and lockout, password change and reset, tokens and the middleware that accepts them | users, tenants, tokens, advisory lock, requests by statement, the clock in ticks and seconds |
| `Trail` | the connection trail: appends, pages with cursors, the last paired number, the retention sweep | events, appends in progress, a client's walk, advisory lock per pooled connection, sweeps |
| `LeaseProofs`, `FleetProofs`, `EventChannelProofs`, `PairingProofs`, `RoutingProofs`, `TenancyProofs`, `AccountsProofs`, `TrailProofs` | theorems on `Lease`, on `SessionFleet` and on the modules they are named after | |

The `MC` modules only declare model values and bounds.
Definitions called a *faulty variant* are never used by a specification; each is
a plausible mistake that makes one property fail.

`InstanceRow` extends `LeaseTable` because `ListAdoptableLeases` joins the two
tables; `Worker` extends both and `SessionFleet` extends `Worker`. `Lease` uses
the same statements without any of the callers, and `Routing` extends `LeaseTable`
for one instance. `Pairing`, `Tenancy`, `Accounts` and `Trail` stand alone: each
keeps of the others' state what it reads (the pairing handlers' step in `Trail` is
split in `Pairing`; the leases of `Tenancy` are their `desired_state`).

### How the models correspond to the code

* **Grain.** A step is one database statement, or one change of the sessions map;
  a lookup goes with the statement after it. What runs between two statements of
  one goroutine is visible to all others. `stop` is two steps: out of the map with
  the socket closed, then the wait for the pump's `done`. The tail of a permanent
  disconnection is four: the row, `stopFromPump`, `SetDesired`, `Release`. Coarser
  than that are: `start`, which reads the intent and enters the map in one step; the
  removal from the map and the closing of the socket in `stop`; `reconnect`, which
  writes the row and dials; and the pump's `handlePairSuccess`, where `Pairing` stores
  the identity with the trail's entry, and `Trail` has the reading of the previous
  number with them. The entry is read by the pump alone, so that only a crash
  could tell the difference, and `Pairing` has none.
* **A pump out of the map** (`closing`) chooses between its cancelled context and
  its inbox, as Go's `select` does, and its handler runs on an uncancelled context,
  so it can still write.
* **An overwritten session.** `start` writes the map without looking. What was
  there keeps its socket and its pump; `closing` keeps it as an orphan.
* **Runtime.** `loop` is the position of `Runtime.Run`; claims and stops are sets
  of instances in a channel, taken in any order because they are two channels of
  one `select`.
* **Time.** A lease's age grows with `Clock` and saturates once it is past the
  expiry. Where the pace of a scenario is `"timely"`, a worker that has something of
  the lease in hand acts before it can expire; `config.go` demands three heartbeats
  per expiry for that. `ExclusiveSocket` and `OpenUnderLease` speak of such behaviours
  only; the other properties of `fleet` also of those where the pace is `"late"`, and
  the theorems of every pace.
* **Scenarios.** What the environment does in a behaviour of the fleet (commands,
  losses, failing starts, crashes, SIGTERM, pace) is a record that `Init` takes from
  the constant `Scenarios`, so that one run has several races of its own. Theorems
  hold for every set of them. `Budgets` of `Routing`, `Mixes` of `Tenancy` and `Casts`
  of `Trail` do the same.
* **The client library** is external. A socket is closed, dialling or open; it may
  come up, be lost and redial, or be refused for good. Reasons that are treated
  alike share a value.
* **sessionclient** in `SessionFleet` may resolve the current holder even if its
  lease is stale, which is what the cache can give that the fence would accept; a
  cached former owner is refused by the fence like any other. The cache itself, the
  failures that lead to the retry (a lost answer, a worker's error) and what the
  retry repeats are in `Routing`.
* **Crash.** A process loses its memory and its sockets; its rows stay. A new
  process has a new identity, hence another element of `Workers`.
* **Contexts.** A socket lives as long as the context it was opened with, which is
  what the comments of `managedSession` and `startPairing` say of the client
  library. `Pairing` records for each socket whether that is the session's, an
  attempt's, a command's or none.
* **Channels of events** are bounded in `Worker` and `Pairing` and drop what does not
  fit, as `emit` does; `Routing` has an action for a dropped connected event. In `Pairing`, the two channels that are copied into the inbox stay two; the pump
  taking the head of either stands for every order of copying.
* **The session of an instance in `Tenancy`** is a stand-in for the fleet: held by a
  worker (`Serve`, the outcome of `Adopt`), linked and not held (`Yield`, of
  `heartbeatOnce` and `Drop`), or gone. `Delete` of an instance begins with
  `Terminate`, which knows the instance's id and not its tenant: it logs the device
  out and stops the lease in steps of their own, before the transaction that compares
  the tenants (`tenancy_delete` below).
* **Transactions** run at READ COMMITTED. One with a single write is one step; one
  that reads first has a step per statement, and a request may be cut short between
  two of them (`Tenancy`).
* **An INSERT with a default of `now()` and a serial id** is three steps in `Trail`:
  the time is the transaction's start, the id is drawn later, the row is visible at
  the commit.
* **A session-level advisory lock** belongs to the database connection. The sweep
  takes and releases it through the pool, which may pick two connections;
  `Recycle` is the end of a connection's lifetime.
* **Seconds.** A token carries whole seconds, a password's change a finer time;
  `Accounts` has two ticks to the second, and one clock for the database's `now()` and
  the API's `time.Now()`. The middleware checks signature, role and life of a token,
  then the account it names.
* **Cursors** are encoded and decoded: text that is not a cursor is refused.
* **Events.** What the row and a frame say is the number of the write they
  reflect, so that older and newer have a meaning. A publisher writes, takes a number
  and publishes in three steps; a frame remembers where the client was when it was
  numbered, whether the row was written again before that, and whether a higher
  number was published before it. No action reads these three.
* **History.** Variables that only properties read are named so where they are
  declared: what was granted, told, skipped, overtaken or in a race.

## Runs

### Passing

| Run | Instance | Shows |
|---|---|---|
| `lease` | 2 workers, 2 instances, every order of statements | generations are never reused, only the latest fence passes and only on its worker, a live lease is never stolen, the table implements `Ownership` |
| `fleet` | room for one session per worker, and one of four scenarios: 2 instances, 1 request (connect, disconnect, suspend, activate), 1 disconnection by WhatsApp, 1 crash; 2 instances and a relink; 1 instance, a relink or a disconnect, a failing start and SIGTERM, with workers in time or arbitrarily late | one socket per instance, open only in the process that holds the lease; no lease handed back under a session, but for the one in hand at SIGTERM; the room exceeded by relinks alone, by one session each; two processes never work under the same generation, nor under one not yet granted; a drained worker owns no lease |
| `fleet_failover` | 1 request, a crash, a failing start, lost control messages, fairness | a wanted session is served again; a stopped one comes down |
| `events` | 2 publishers, 4 writes, 1 lost frame, 1 expiry of the counter, a buffer of 2 | a number missing from the stream was lost or overtaken; the client is told something older only by a frame held up between its write and its number; what was published reaches it, but for the cases named in `NothingMissed` |
| `pairing` | 2 commands, 2 numbers, 2 pairings, 2 attempts, 1 unlinking on the phone, channels of 2 | a change of number is recorded, also after a logout; a connected instance has its identity even if the event that carried it was dropped; the end of an attempt leaves the socket of the device it linked; no teardown waits for a pump that waits for it |
| `routing` | 2 workers, 2 requests that set passive mode, 1 other call, 1 change of owner, up to 2 connections, 1 failure (crash, lost answer, error, dropped event) | a stale cache costs a retry and never the command; a command is carried out twice only if its first round broke off; stored passive mode is in force when nothing is under way, unless the last push failed, lost its event or was of a mode already replaced |
| `tenancy` | 2 tenants, 1 instance, 1 key, 2 requests of any kind, one of them cut short | a deletion is final; the security trail and the tables agree; a lease comes to say running against intent and status only through a request cut short, or one that writes what it found before another request changed it |
| `accounts` | 2 replicas and 2 addresses for the bootstrap, 1 administrator, 2 requests, lock after 2 failures | one super-admin; a lock is lifted only by a new password or by a login that had read the account before it; a token of the password in force is accepted, within the second of the change too; one of an earlier password is refused, unless issued in that second or while the password was being written |
| `trail` | 2 writers, 2 workers with 3 connections, 3 events, window of 1, fairness | a walk of the pages misses or repeats only where an event overtook another, and goes down; a change of number within the retention window is recorded; expired events are swept although the lock may be left behind on a connection |

### Disagreements between the code and what it says of itself

Each of these runs ends in a counterexample; `PROJECT.json` quotes the comment it
contradicts.

| Run | What happens |
|---|---|
| `relink_twice` | two relinks at once: the second `start` overwrites the first session, whose socket stays open |
| `pairing_logout` | a pairing event that was in the inbox when a logout cleared the row is handled before the pump sees its cancelled context: the identity of a deleted device is back on the row |
| `tenancy_delete` | the deletion of an instance of another tenant is answered not found, after `Terminate` has logged its device out and stopped its lease |

The same modules refute more with other constants. These are variations of the
runs above and not runs of their own; each property is stated in the module, and
TLC finds its counterexample in seconds, for those with two fleet requests in
minutes.

| Property | Constants | What happens |
|---|---|---|
| `ExclusiveSocket` | `fleet` with 1 instance, 2 requests (connect, suspend), 1 loss, room for 2, `MaxGeneration` 3 | the pump's last `Release` is keyed by worker, not generation, and frees the lease the worker has acquired again (`leases.sql:1-2`) |
| `RunningIsServed` | `fleet_failover` with 2 requests (suspend, activate), nothing failing or lost | `Drop` keeps the lease; wanted again within the expiry, the worker renews it without running the session (`session_worker.go:155-161`) |
| `SuspendedGoesDown` | `fleet_failover` with 2 requests (suspend, connect), nothing failing or lost | a connect admitted before the suspension sets the lease to running after it (`services/connection.go:425-427`) |
| `ReactivatedIsServed` | `fleet_failover` with 2 requests (suspend, activate), nothing failing or lost | the claim is taken before the older stop: the reactivated instance is parked as suspended (`services/connection.go:427-428`) |
| `ClientMatchesRow`; `NothingMissed` without `f.num = "row"` | `events` | the snapshot reads the row before the counter: a frame written and numbered in between is dropped as one the snapshot reflects, and nothing tells the client later (`ws.go:187-189`, `209-210`) |
| `NothingMissed` without `f.over = "yes"` | `events` | two publishers take their numbers in one order and publish in the other: the frame that comes second is dropped as a duplicate (`ws.go:209-210`) |
| `NeverOlder` without `late` | `events` | two publishers write the row in one order and take their numbers in the other: the client ends on the older state (`session.go:17-19`) |
| `NothingMissed` without `f.num = "restarted"` | `events` | the counter expires under a client that stays connected, which then discards live frames (`publisher.go:15-16`, `31-33`) |
| `OpenUnderLease`, `ReleasedAfterTeardown` | `fleet` with 1 instance, 1 settings request, 1 loss | a relink during the tail of a permanent disconnection starts a session whose lease is handed back (`supervisor.go:333-335`) |
| `RunningIsServed` | `fleet_failover` with 1 settings request, 1 failing start | a relink whose `start` fails keeps the lease; reconciliation lists free leases only (`supervisor.go:390-392`) |
| `WithinCapacity` without `scenario.relinks` | `fleet` | another instance is adopted between a relink's `stop` and `start` (`config.go:73`) |
| `ReleasedAfterTeardown` without the one session at SIGTERM | `fleet` | a session whose lease was acquired before SIGTERM enters the map after `Shutdown` listed it, and is still open when `ReleaseAll` runs (`supervisor.go:637-638`) |
| `NotReportedConnected` | `fleet` with 1 disconnect request | a buffered connected event is handled after `Disconnect` wrote the row: connected, and nothing runs (`session.go:17-19`) |
| `LegalTransitions` | `fleet` with 1 disconnect request | the same step is disconnected -> connected, which `allowedTransitions` does not have; `CanTransition` is not consulted (`instance.go:66-69`) |
| `PairingEnds` | `pairing` with pair by phone, `FairSpec` | an attempt by phone that nobody completes has nothing that ends it: the state stays pairing (`specs/002-instance-connection/spec.md:188`) |
| `SocketOutlivesCommand` | `pairing` with connect and disconnect | `Connect` of a paired session binds the socket to the gRPC call, which ends (`supervisor.go:82-84`) |
| `ConnectedAnswer` | `pairing` with two connects | a second connect during pairing finds a socket and is answered connected without a device |
| `SwapRecorded` | `pairing` with 3 commands (connect, logout), `MaxLogouts` 0 | a connected event of the old device is handled after a logout cleared the row and another number was linked: `ensureDeviceIdentity` writes that number without an entry, and the success event then finds it on the row and records no change (`session.go:308-310`) |
| `ModeSettles` | `routing` | a push of a mode that another request has replaced since it was read, or a connected event that was dropped, leaves the connection in the other mode until the next one (`connection.sql.go:139-141`) |
| `RetriedOnlyForOwner` | `routing` | a worker's upstream failure is retried with the same owner (`client.go:190-191`) |
| `FencedAtRun` | `routing` | the lease moves between the fence and the push (`grpcserver.go:59-61`) |
| `DriftIsOvertaken` without its two exceptions | `tenancy` | a request cut short before it brings the lease down, a command admitted before a suspension, or two changes of status projected in the opposite order, leave a lease running under a suspended tenant (`0002_instance_connection.up.sql:64-65`) |
| `AuditCountsWhatGoes` | `tenancy` with `Mixes <- MCMixesAll`, `MaxAborts` 0 | a key created between the count and the delete goes uncounted (`services/instances.go:215-216`) |
| `DeletedIsUnlinked` | the same | the owner is not reached, and the record goes with the device still linked (`services/instances.go:199-203`) |
| `GaugeSettles` | the same | two refreshes count in one order and set in the other (`services/apikeys.go:191-193`) |
| `LockoutRecordedOnce` | `accounts` | an attempt that raced with the one that locked the account is recorded as a lockout too (`services/auth.go:177`) |
| `OldPasswordRefused` without its two exceptions | `accounts` | a token issued in the second of the change, or by a login that verified the old password before the new one was written and issued after, is accepted (`services/passwords.go:36-37`) |
| `LockStands` without its last exception | `accounts` | a login that read the account before the lock clears it (`services/auth.go:121`) |
| `SwapRecorded` of `Trail` | `trail` | the pairing the trail remembers is past the retention window and swept: after a logout another number pairs and no change is recorded (`session.go:308-310`) |
| `PagesExact` | `trail` | an event with a later time and a lower id is skipped by the cursor (`connection_events.sql.go:107-109`) |
| `OneSweep` | `trail` | the connection that holds the lock is closed in the middle of a sweep (`connection_events.sql.go:60-61`) |

Where a passing run reaches one of these situations, its property names the
exception, as precisely as the models can tell it. The others are kept out by what
the environment does, never by changing an action: no scenario of `fleet` has a
relink together with a permanent disconnection, nor a second request that could make
the worker acquire again during the tail of one; `fleet_failover` has no suspension
and no relink; `pairing` has two commands.

### Bounds

`MaxGeneration` bounds acquisitions per instance: two are one takeover, the
liveness runs have 3 or 4 so that no behaviour is stuck at the bound. A scenario
of `Scenarios` bounds what goes wrong; one of each kind suffices for a race with it, and the cost of two is in the number of
interleavings, not in new kinds of them. `InboxSize` is 2: a connection and its loss may
both wait for the pump; the code has room for 64. `Expiry` is 0 in the fleet runs: a lease is fresh until
`Clock` ticks once and then stale, which keeps "before" and "after" the expiry and
nothing else; `lease` has a real expiry. Two workers are enough for one takeover;
a third could only be another loser of the same acquisition.

* `pairing`: two numbers, pairings and attempts are one change of number and one
  attempt that replaces another. Channels hold 2 events where the adapter's hold
  32 and 8; two are enough for one to wait while the next is dropped.
* `events`: 4 writes fill the buffer of 2 and leave one to overtake or be overtaken
  and one to be lost. A third publisher could only be another one in the middle.
* `routing`: `MCBudgets` gives each behaviour one of four mixes of acquisitions,
  calls, connections and failures. All at once is too large, and each mix is a race of
  its own; the two requests that set the mode race on one owner.
* `tenancy`: two requests, `MaxEdits` changes of rows and `MaxAborts` requests cut
  short. Two requests interleave by statement; a third would meet the same rows.
* `accounts`: the lock comes after 2 failures where the default is 5; a window
  of 1 tick and a token's life of 2 let both end within the 3 ticks of the clock.
* `trail`: `MCCasts` gives each behaviour its writers, sweepers and what the client
  does; 3 ids are a page, its successor and one event that overtakes; `MaxNesting` 2
  lets a connection hold the lock twice.

Symmetry is used in safety runs only. `lease` and the fleet runs check for
deadlock. The others do not: their requests and events are bounded, so a behaviour
ends when they are used up. The type invariants of `Lease`, `Routing`, `Accounts` and `Trail`
hold on the same instances and are not among the properties of their runs.

### Fairness

Weak fairness of a goroutine that can run (a runtime's next step, a pump, a
handler, a request under way, a drain); strong fairness of the clock and of each
case of the `select` in `Runtime.Run`, which picks at random among the ready
cases and therefore serves each ticker and channel again and again. Nothing is
assumed of requests being made, of failures, of SIGTERM, or of what WhatsApp does.

In `trail` the ticker of each worker keeps ticking, so a sweep that can take the
lock does, and a sweep that has begun goes on; its DELETE may fail, but not every
time (strong fairness); and a pooled connection reaches the end of its lifetime,
which is what frees a lock left behind on it. Without the last one `ExpiredIsSwept`
does not hold. `FairSpec` of `Pairing` (goroutines that can run do) only serves to
refute `PairingEnds`.

## Proofs

Each theorem holds for every value of the constants that satisfies the named
assumptions of its module: any sets of workers, instances, requests, tenants and
so on, and any value of the bounds, which the assumptions only ask to be natural.
An assumption beyond those is a hypothesis of the theorem itself. Every module has
one inductive invariant `IInv`, checked by TLC on the instance of the run before it
was proved, a lemma that the initial states have it, one per action or operation
that a step keeps it, and theorems that take the properties of the runs from it.
Each `IInv` is given as predicates of the variables it speaks of, so that what a
statement does is looked at once, whichever handler makes it.

| Module | Theorems, with the property of the run |
|---|---|
| `LeaseProofs` | `TypeCorrect`, `NeverReused` (`GenerationNeverReused`), `HolderGranted` (`HolderWasGranted`), `FencingSound` (`OnlyLatestFencePasses`), `NeverStolen` (`LiveLeaseNeverStolen`), `Implements` (`ImplementsOwnership`) |
| `FleetProofs` | `TypeCorrect`, `OneProcessPerGeneration` (`GenerationsDisjoint`), `DrainedIsClean` (`DrainedOwnsNothing`); `CapacityKept` (`WithinCapacity`), for finitely many instances |
| `EventChannelProofs` | `TypeCorrect`, `InOrderWithoutHoles` (`NoHoles`), `ToldInOrder` (`NeverOlder`), `ToldEverything` (`NothingMissed`) |
| `PairingProofs` | `TypeCorrect`, `SocketSurvives` (`PairedSocketSurvives`) |
| `RoutingProofs` | `StaleCacheIsHarmless` (`RefusedOnlyIfMoved`), `NoNeedlessRepeat` (`RepeatedOnlyAfterFailure`), `TypeCorrect`, `PassiveStays` (`PassiveInForce`) |
| `TenancyProofs` | `TypeCorrect`, `DeletionIsFinal` (`NoOrphans`), `TrailIsTrue` (`TrailTellsTheTables`), `DriftExplained` (`DriftIsOvertaken`) |
| `AccountsProofs` | `SuperAdminUnique` (`OneSuperAdmin`), `FreshAccepted` (`FreshTokenAccepted`), `LockHolds` (`LockStands`), `OldRefused` (`OldPasswordRefused`), `TypeCorrect` |
| `TrailProofs` | `WalkAccounts` (`PagesAccounted`), `WalkDescends` (`WalkGoesDown`), `SwapNoticed` (`SwapRecordedInWindow`) |

* **Lease.** Types, generations never reused, the holder was granted the row's
  current generation, and, which the properties do not say and induction needs, no
  grant carries a number above the row's (`GrantsBounded`): so a new grant, one above
  the row's number, differs from every earlier one. `FencingSound` follows because a
  fence that passes carries the row's number and meets the row's holder, who has the
  only grant with that number. `NeverStolen` and `Implements` go action by action:
  only `Acquire` changes the holder to somebody else or the number, and its guard is
  that the row is not live. `Implements` has to show that a heartbeat regains standing
  only for rows its worker holds, and that time only takes standing away.
* **Fleet.** Nothing is assumed of the scenarios: workers are as late as they like. `Apart` says
  that a generation has one process and was granted. It counts the sessions in
  the map, the pumps on their way out, what the runtime is about to start and the
  generation a relink has read; without the last two a session would come out of
  nowhere. A step either acquires a lease, under a number above all those in use, or
  has only generations its process had before (`Good`), and that is enough. The
  type of a session carries that what is out of the map has neither socket nor pump.
  `DrainedOwnsNothing` is inductive with the types: a process that drained runs no
  acquisition. `CapacityKept` adds that while a session is in the runtime's hand there
  is room for it (`Room`): relinks apart, the runtime is alone in adding sessions. A
  relink does not look for room, and may find the place of the session it stopped
  taken, so each one adds one to the limit.
* **Event channel.** Each publisher holds a write of its own and, once it has one, a
  number of its own (`Pending`, `Bounded`). A frame that is not late tells of a write no
  older than those of lower numbers (`InOrder`), nor than what the client was told
  (`Ahead`), which gives `NeverOlder`. Numbers rise along the buffer and on to the
  publishers, but for those that were overtaken (`Rising`); with where the connection
  was when a frame was numbered (`Timed`, `Counted`), every frame in flight is above the
  client's number or is one of the exceptions (`Passing`), so what is not told is one of
  them too (`Reached`): that is `NothingMissed`. For `NoHoles`, every number up to the
  counter was skipped, seen, waits in the buffer or is in a publisher's hands (`Known`),
  and those below a frame of the buffer come before it (`Filled`).
* **Pairing.** A socket is never bound to the context of an attempt, which is what
  the code's comments ask for and the type of a socket says. The rest is what makes an
  attempt's end harmless: with a device on the client the library has given up every
  attempt; a pump that returned leaves neither a session nor an attempt; a session
  out of the map has no socket (`Settled`). The initial state has a device, hence
  `MaxPairings` at least 1.
* **Routing.** The lease of the one instance only goes on: each call remembers what
  it was at the start of its round, and what the row holds now follows that
  (`Follows`). A call in its second round was routed by the lease and not by the cache, so a
  refusal means that the row has changed since (`Moved`). How often a call was carried
  out is bounded by its rounds, and by nothing in a first round that did not fail.
  `PassiveStays` has a second invariant (`MInv`): past the fence, a request that sets
  the mode met the lease of its owner (`Modal`); once each of them is idle or answered as
  applied, its push done or the lease acquired anew since the fence, the holder has the
  mode from one of them or from the table (`Due`), unless the last push was late, and
  from then on whatever takes the connection out of the mode leaves an event that brings
  it back (`InForce`). Any number of requests may store the mode in one order and push
  it in the other: the push that comes last is late exactly if its mode is not the stored
  one, or if its event was dropped.
* **Tenancy.** The tables are linked as the foreign keys say (`Linked`), an id is
  given once (`CreatedOnce`), each table has exactly the rows that the trail has created and
  not deleted (`TenantsTold`, `InstancesTold`, `KeysTold`), and a request that is about to
  issue a key carries an instance of the tenant it names (`Carried`). The last is what
  survives the instance's deletion between the request's two statements.
  `DriftExplained` has a second invariant (`DInv`) on top: what a request has read or
  written of the intent and the status still stands, of the instances that are still
  there, unless another request has overtaken it (`Stands`); a deleted id is not given
  again. Then a step that writes running writes what the two ask for, or is one of a
  request overtaken, and a step that takes the support of a lease away leaves its
  request about to stop it.
* **Accounts.** A replica between its count and its insert holds the advisory lock
  and its count is still true (`BootUnderLock`); requests and tokens come after the
  bootstrap (`ServedAfterBoot`); a password about to be written is known to nobody else
  (`PendingIsFresh`), so that no token can be for it; and truncation to the second
  keeps the order of times. `LockHolds` goes over the statements that write a row.
  For `OldRefused`, a token issued while no write of the password was under way is of the
  password in force, or no later than the change in force and than the times that
  writes under way carry (`Traced`); the last is needed because two of them may commit
  against the order of their times.
* **Trail.** An id is drawn once, also among the inserts that have not committed
  (`Numbered`); a sweep that is about to delete has a cutoff no later than the window's
  end, however long ago it was computed, so every event in the window is still there
  (`Retained`), and the last pairing among them is the one `LastPairedPhone` finds. A walk
  has accounted for everything that is not below its cursor: it showed the event or
  one that overtook it (`Exact`); and after each event it showed comes one no newer whose
  id is not below the cursor (`Above`), so that whatever the next page shows out of order
  overtook one of those. Nothing is assumed of the order of ids and times.

### What stays with TLC, and why

* **Liveness** (`RunningIsServed`, `StoppedComesDown`, `ExpiredIsSwept`) and
  `TeardownNotBlocked`, which is about what is enabled: out of the prover's reach.
* **`ExclusiveSocket`, `OpenUnderLease`, `ReleasedAfterTeardown`, `SwapRecorded`,
  `ConnectedHasIdentity`**: false for other constants, as the table of disagreements
  shows for all but the fifth. That one needs a success event dropped and another
  device linked between two steps of the pump. They hold of the requests and failures
  of their runs, and a theorem would have to list those as hypotheses.
* **That the trail always has a page to give**: `Pages` says what an answer to the
  statement must be; that there is one for every set of events is an induction over
  the set. In the `trail` run every request that is not refused gets its page.

## Inventory and what is not modelled

`PROJECT.json` lists the components with what each module covers of them. Left out
of the parts that are modelled:

* `SessionFleet`: every instance is paired and stays so (`Pairing` has one instance
  and one worker instead); the retry after an upstream failure (in `Routing`); a
  command's context ending before the command does; failing statements other than
  those that make `start` fail; in a relink, the lookup between `start` and its
  second dial.
* The fence's refusal of a draining worker never decides a call on SIGTERM:
  `GracefulStop` comes before `Shutdown` sets the flag (`session_worker.go:141`).
* `Pairing`: passkeys and identity codes, failing statements, transient
  disconnections.
* The row: ban expiry, device identity, and the proxy's address, which is parsed
  and stored without anything else reading it but `start`.
* `Accounts`: rules for passwords and their hashing (a password is right or wrong).
* `Trail` and `Tenancy`: listings other than the trail's pages, metrics other than
  the gauge.
* The stream: authentication of a WebSocket and its pings.

Not modelled at all: the rate limiter (one Redis script, so one atomic step), HTTP
handlers and error mapping (translation without state), configuration parsing,
logging and metrics (pure I/O), generated code (`pb`, `*.sql.go`; the SQL itself is
modelled), the test double of the adapter.

## Plan

1. **Proofs**: the exclusive socket under hypotheses on the requests.
2. **Composition** of `Pairing` with `Worker`: pairing across a change of owner and
   a crash.
3. **Passkeys** as a third way to pair.
4. **Proxy settings**: the stored value against the one the live session uses.
5. **Several API processes** sharing one owner cache.
