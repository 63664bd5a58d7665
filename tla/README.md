# A verification project for my_lg

`my_lg` is a Home Assistant integration for LG appliances.  It talks to LG's two
cloud services (PAT, the open API with MQTT pushes; WideQ, the mobile app's
API), and, where the owner has set one up, to a bridge on the own network that
speaks to the appliances directly.  This directory holds TLA+ models of the parts
of it that hold state and can go wrong in ways a unit test hardly reaches, the
TLC configurations that check them, and TLAPS proofs of most of their safety
properties.

Paths below are relative to `custom_components/my_lg/` of the repository.
`PROJECT.json` maps each definition to the lines it models.

1. [The system](#1-the-system)
2. [The modules](#2-the-modules), and what they abstract
3. [The runs](#3-the-runs), their bounds and their fairness
4. [What is proved](#4-what-is-proved)
5. [Where code and words disagree](#5-where-code-and-words-disagree)
6. [Not modelled](#6-not-modelled)
7. [The plan](#7-the-plan)

## 1. The system

### Parts, their state, and what makes them right

| Part | State | Operations | Right when |
|---|---|---|---|
| `rate_limiter.py` | time of the last call, calls of the last hour, one asyncio lock | `acquire` | cap and spacing hold whatever is cancelled; nobody waits for ever |
| `cloud_runtime.py` CloudGate, CloudRuntime | per source: reason, generation, tasks in flight; one lock; a store | `call`, pause, resume, close, restore | no late answer is used; an acknowledged protection is silent, stored, and outlives a crash; a reload too, once the service's jobs on the old runtime are done |
| `startup.py`, `__init__.py` | coordinators, inventory, semaphores, retries | set-up, `start_cloud`, `start_pat`, recovery, discovery | an entry starts with or without a cloud, and offers what it knows |
| `coordinator_wideq.py`, `night_mode.py` | snapshot, circuit breaker, night-mode cache, I/O lock and device locks | poll, command, night-mode change, reconcile | an open circuit carries no device command; nothing shown goes back or was never read; the locks drain |
| the same file: energy history, power-save flags | caches of a day and a month; three layers of a flag; both stored | polls, restore, delayed saves | a number is of its period, and marked when old |
| `wideq_client.py`, `wideq/core_async.py` | session, tokens, device list and its age | requests, renewal, reconnection | a write goes once; a lost session is renewed |
| `app_settings.py`, `wideq/web_settings.py` | settings kept at LG, two locks | poll, `async_set` | what is shown was confirmed after the last write |
| `coordinator.py`, `mqtt.py` | status, pushes kept for a refresh, marks; SDK client, stop flag, a thread | refresh, push, pause, connect, shut down | what crosses leaves no old value; a discarded client neither speaks nor keeps a socket |
| `device_identity.py` | map from PAT to WideQ ids, stored | `resolve_wideq_devices` | no device is taken for another |
| `services.py`, `control_router.py` | none | composite commands | the fields it does not set stay as they are |
| `local_command.py`, `local_control_router.py`, `climate.py` | lock, overlay, barrier, remembered arguments and targets | frames, fence, service calls | one request is one command; a frame restates nothing known to be over |
| `local_control_contract.py`, `local_control_entity.py`, `local_control_native.py` | contract of the release or the database; entities with drafts, locks, remembered states | one-field commands, polls, live edits | what is offered can be sent, and is sent once, with permission |
| switch, select, number, button, fan, humidifier, text, time | at most what was asked last | service calls, availability, value | one transport per command; the newest value |
| `local_mqtt.py`, `local_provider.py` | connections, sessions, sequences, tombstones, presence | MQTT callbacks, ingestion, expiry | a superseded session never comes back |
| `local_read_provider.py`, `local_read_owner.py` | pins of each binding in one store; cursors of the feed; fields | adopt, rebind, rotate, ingestion, deletion | what runs is what was saved; nothing deleted returns |
| `local_energy_provider.py`, `sensor.py` (integrated meter) | counters and generations; a total | ledger, power readings | energy never runs backwards and counts no moment twice |
| `feature_database.py`, `feature_runtime.py` | token cache; definitions, entities, the token of what was loaded | watcher, refresh with roll-back, discovery, unload | what runs is what was loaded |
| `local_provider.py` (the options of the local side), `config_flow.py` | the options of the entry | forms, migration | a binding keeps its own password |
| `__init__.py`: set-up and teardown of the local side | providers, subscribers, router of the entry | load, start, unload, stop of Home Assistant | nothing started is left without an owner; nothing is authorised that nothing stands behind |
| `sensor.py`, `binary_sensor.py`, `event.py`, `local_entity.py` | owner and last value of an entity | build, write, remove | one quantity has one owner; what is shown is what it says |
| field codecs, event relay, scripts, the separate add-on | - | - | section 6 |

### How they interact

Everything but the SDK's MQTT threads, the worker thread that connects and file
I/O runs on one event loop, so a step of a model is what one coroutine does
between two awaits, or what one thread does on its own.

* Every WideQ request first waits for the rate limiter and then goes through the
  `CloudGate` of its account.  The limiter does not look at the gate.
* `CloudRuntime` owns the gates.  A pause shuts them, stores the reasons, cancels
  what is in flight, marks the coordinators' data as stale and closes the
  connections; a resume opens them, stores that, and has `start_cloud` connect
  again.  A reload makes a new runtime from the store; it cancels the old one's own
  tasks, and a pause or resume that a service called goes on without it.  An account
  failure in any gated call shuts the gate on the spot and
  leaves the rest to a background task.
* The entry is set up from the stored inventory when the cloud does not answer;
  `start_cloud` and the recovery rounds prepare what is missing, in bounded
  fan-outs, and entities whose first read failed are discovered later.
* `start_cloud` makes a new `MyLgMqtt` for every connection of the PAT account
  and shuts its predecessor down.  Its pushes reach `PatDeviceCoordinator` through
  `call_soon_threadsafe`; REST refreshes of the same coordinator run meanwhile.
* `WideqCoordinator` maps PAT devices to WideQ devices by the stored map and by
  names; commands, history and settings need that map and share one session.
* An entity that has a local command asks `LocalControlRouter` first and falls
  back to the cloud only when nothing can have reached the appliance.  The
  router composes a frame from what `local_provider` holds, and remembers what
  the bridge has confirmed until it is reported.
* The semantic provider says which generation and session of an appliance is
  alive; the full-read feed and local availability go by it.
* An edit of the feature database hands providers, contracts and entity
  factories their new definitions in one go, then replaces entities platform by
  platform, while calls of the old entities may still wait for their locks.

### What is hard

Cancellation anywhere (limiter, commands, pauses, settings); state read before an
await and used after it (gates, snapshots, composed frames, conditions);
deliveries that cross (pushes and refreshes, reports and commands, retained
copies); saves that are interrupted and restarts with another release; a command
whose answer is lost; threads that outlive their owner; forms and menus that are
replaced while in use.  `PROJECT.json` lists each hazard at its line, with the
properties that watch it.

## 2. The modules

| Module | Models | Checked in |
|---|---|---|
| `RateLimiter` | `acquire` with its lock, both sleeps, cancellation, a clock | `limiter` |
| `CloudProtection` | the abstract promise: a source is open or protected; an acknowledged protection is silent and only a resume ends it | `cloud` (refined) |
| `CloudRuntime` | gates, calls with their inner tasks, the service, the lock, the store, `start_cloud`, unload, crash, reload and what it leaves of the old runtime | `cloud` |
| `WideqCoordinator` | polls, commands, night-mode changes and their previews under both locks, circuit breaker, pauses, other clients | `wideq` |
| `MqttClient`, `PatCoordinator`, `PatDevice` | the push client; a device's status; both with the appliance, the loop's queue, `start_cloud`, pause and unload | `devices` |
| `DeviceIdentity` | the map of ids and how it is resolved, stored and restored | `devices` |
| `CompositeControl` | composite commands, their preserved fields, PAT's own commands to them | `devices`, `composite` |
| `Startup` | set-up, inventory, `start_pat` and recovery rounds, discovery of late entities, resumes | `devices` |
| `LocalControl` | composing a frame from a shadow, a wish and memory; which frames a release allows; requests, bridge, cloud, appliance, reports, overlay, barrier, lock | `local` |
| `ClimateEntity` | service calls of the three climate entities and the comfort select, as lists of writes | `local` |
| `ReadConsumer` | the pin of a binding and its transitions; installers, store, providers, restarts with another release | `stores` |
| `EnergyHistory` | the account's history by day and month, with its caches, stores and migration | `stores` |
| `LocalEnergy` | the ledger's retained level and its acceptance | `stores` |
| `EnergyMeter` | the integrated meter of an air conditioner | `stores` |
| `EntityCommands` | a plain entity: transport, availability, value; the power-save flags | `stores` |
| `LocalOptions` | the bindings in the entry's options, two forms side by side | `stores` |
| `ReadFeed` | currents and events of the full-read feed | `read_feed` |
| `ReadEntities` | the entities of one quantity: who owns it, what they show and when they write | `read_feed` |
| `WideqSession`, `AppSettings` | the session all WideQ calls share; the settings at LG | `account` |
| `LocalContract`, `LocalSetting` | contracts, eligibility, confirmed features, conditions; the entities and their commands | `controls` |
| `LocalProvider`, `LocalFeed` | what is believed of a local appliance; the transport that delivers it | `feed` |
| `FeatureDatabase`, `FeatureRuntime` | the token cache; the watcher, the menu, refresh and roll-back | `features` |
| `LocalSetup` | set-up and teardown of the local side of an entry | `features` |
| `AccountProofs`, `TrafficProofs`, `WideqCoordinatorProofs`, `DevicesProofs`, `LocalProofs`, `StoresProofs`, `FeaturesProofs`, `ReadFeedProofs` | the theorems and their proofs | section 4 |

Most runs have an `MC` module that extends what it checks and gives the constants
their values; where model values and numbers are enough (`account`, `composite`,
`wideq`) the configuration does.  Names follow the source where it has a name (`AccountFailure` is the
except branch of `CloudGate.call`, `handle_mqtt_status` is itself).  An operator
whose comment starts with "mutant" is a plausible mistake in the definition below
it; no specification uses it.  Variables marked "history" exist for the properties
alone and nothing reads them to decide a step.

### What is abstracted

* Data are model values or small numbers: an account snapshot is its number, a
  status is a map from fields to values numbered in the order the appliance took
  them, a night mode is one of two settings, a digest is what it is a digest of, the
  database's content is one value whose menu is a constant.
* asyncio locks are FIFO queues.  Taking a free lock is a step of its own in some
  modules; that only adds interleavings.  In `LocalControl` taking the
  lock and composing the frame are one step, because the code does not await between.
* `CloudRuntime` leaves out `resumed_at`; of a runtime that a reload replaced it keeps the
  service's jobs, the lock and the gates they save (`left`), not its connections, which the
  unload closes.  Any gated call may open the connection,
  because `WideqClient` connects inside whatever call needs it.  `Configured` are the
  sources the entry has an account for; the other one can be paused all the same.
* `WideqCoordinator` treats an energy-history poll as one request whose result is not
  kept (`EnergyHistory` keeps it), saturates the failure count one above the
  threshold, and lets any snapshot find more of the map (`DeviceIdentity` says which).
* `Startup` leaves out the delays between rounds, the metrics, WideQ's warm-up request
  and the local shadows.
* `MqttClient` takes `disconnect()` of the AWS connection to be effective,
  and leaves out the event and push subscriptions kept at LG; `PatDevice` merges
  `_on_message` in the SDK's thread with the queueing of the push.
* `DeviceIdentity` lets an appliance take any name at any time; PAT's list and WideQ's are
  answers of different moments.  The history `misled` says of which devices that gave the
  code wrong evidence.
* `LocalControl` delivers whole reports in order (ordering is the semantic
  provider's business) and lets the bridge refuse anything, which covers its
  comparison with `expected_state`.  `ClimateEntity` takes the router's outcomes as its
  interface: not sent, confirmed, or unclear.  A temperature that is asked for with a mode is one
  call (`reach`).
* `LocalSetting` assumes of the catalogues and of every content of the database what their
  loaders check (`CatalogueAssumption`): a released descriptor is well formed, a parameter
  lists no values, only a database row is a draft or an action, and what a feature adds is
  no number (an entity of one could not be made: it has no grid).  Rows of the database may
  be ill formed; the model leaves them out, as the loader does.
* `LocalSetting` takes the bridge's answer to a POST from the outcomes the client
  tells apart, and service calls to reach only available entities, as Home Assistant
  does.  Values are integers; labels and patterns of texts are left out.  The display-only
  select of a countdown (`local_control_entity.py:503`), which never sends, is left out.
* `EnergyHistory` lets a poll come at any time, so the moments polls are due at play no
  part.  `EnergyMeter` takes a total to be the set of intervals it is the sum of; the
  source's clock agrees with Home Assistant's and neither jumps.
* `ReadFeed` and `ReadConsumer` take a publication to be decoded: what a document must
  say is checked against tables without state.  Bodies are compared from the moment the
  connection has shown a live appliance at a coordinate; before it the code has nothing to
  compare with.
* `LocalFeed` chooses what a message says when it is used, so the broker may deliver
  anything in any order, twice or late; that covers more than a broker does.  A
  publication is judged by its identity proof, its fields and retractions against the
  profile, its times and its lease; the grammar of documents and clock skew are left
  out, and so are publications of schema 1, which carry no identity.  Time passes only
  as `Lapse`, the end of a live presence.
* `LocalSetup` takes the start of a binding's subscriber to succeed or to fail as a
  whole; what a file or a database has to hold to be loaded is left out.
* `ReadEntities` is one quantity: a value's words are taken to be known or not, and
  units stand for types.  An entity of the full reads shows what the feed has, or, while the
  feed is connected and has not invalidated the field, the primary provider's reading of the
  same contract, and is told when either changes.
* `WideqSession` takes connecting (gateway, token, user number, device list) as one
  step: nothing of it is kept unless all of it succeeds.
* `FeatureDatabase` leaves sizes and mtimes out of the stamp: a commit may leave them as
  they were, so they can only show more.
* `LocalOptions` leaves out a binding's profile and the entry's other options.

## 3. The runs

Eleven runs pass; one shows a disagreement between the code and what it says of
itself.  Five modules hold several parts that share no state: `MCDevices`,
`MCLocalControl`, `MCStores`, `MCReadFeed` and `MCFeatureRuntime` choose at the start
which part moves, so a behaviour is one of one part and the state space the sum, not
the product.

| Run | Instance | What it shows |
|---|---|---|
| `limiter` | 3 callers, cap 2, spacing 2, an hour of 5 ticks, a clock of 25 | `LimitsAreKept` (cap and spacing), `NobodyStarves` |
| `cloud` | 2 sources, one with an account, 2 requests together or apart, a call and the connecting call, 2 reloads or crashes, 4 of all of these together | `NoLateResult`, `ProtectedHasNoTraffic`, `ImplementsProtection`, `JobsDrain` |
| `wideq` | 1 device, 1 poll, 1 command, 1 night-mode change, 2 snapshots, 1 pause, 1 edit by another client | `CircuitIsRespected`, `CachesAreHonest` (`NightModeWasRead`, `PausedDataIsStale`), `DataMovesForward`, `EveryoneLeaves` |
| `devices` | *a PAT device*: 2 fields, 2 refreshes that may overlap, 2 clients, values up to 4 in sum, 1 pause, an unload. *Identity*: 3 + 3 devices, 2 names, any stored map, 1 device misled. *Composite*: 2 commands, 2 fields. *Start*: one device through 2 set-ups and a resume, or two devices through 1 | `CaughtUp`, `PauseIsComplete`, `OnlyTheCurrentClientSpeaks`; `NoSharedAppliance`, `RightAppliance`; `PreservesTheLatest`; `KnownIsOffered`, `NothingVerifiedIsLost` |
| `composite` | 2 commands of one template | the finding of section 5 |
| `local` | *Router*: 2 requests at a time, 3 events, 1 report under way, clock 2, overlay age 1. *Climate*: 2 service calls, 3 owners, 7 readings, 2 changes of them | `OneCommand`, `FrameIsFaithful` (`KeepsConfirmed`, `FenceHolds`, `NoPlaceholder`); `ClimateIsFaithful` (`AskedOnce`, `ClimateShowsWhatIs`) |
| `stores` | *Pins*: 2 bindings, 2 installers, 2 releases, 1 restart. *History*: 2 appliances, 3 days in 2 months, 1 failure, 1 restart. *Ledger*: 2 meters, 4 publications. *Meter*: clock 4, gap 2, 1 restart or rebuild. *Entity*: 2 orders, 1 toggle, 1 stop. *Options*: 2 bindings, 2 forms, 3 submissions | `LiveFollowsStore`, `StoreIsExact`; `HistoryIsHonest` (`ShownWasMeasured`, `UnmarkedIsFresh`); `EnergyIsHonest` (`LedgerNeverRewinds`, `MeterCountsOnce`); `EntityIsHonest` (`LocalStaysLocal`, `ShowsTheNewest`); `BindingsKeepTheirs` |
| `read_feed` | *Feed*: 6 publications of 2 generations, 2 cohorts and 2 sources, 4 states of the appliance, 2 profiles, 2 events notified (1 under the adopted policy). *Entities*: 19 quantities, 8 set-ups, 2 units, 2 values | `FeedIsSound` (`FeedKeepsOrder`, `ShownIsHere`), `ReadingIsSound` (with `UnitsAreTheirs`) |
| `account` | a poll or command, a poll and a change of the settings, 1 fault, 1 change in the app | `SettingIsConfirmed` (`WritesOnce`, `ShownWasConfirmed`), `SessionRecovers` |
| `controls` | 4 contents of the database, 2 installers, 2 calls at a time, 3 events | `OffersAreKept` (`OnePerIntent`, `OfferedCanBeSent`), `NothingUnauthorisedLeaves`, `DisplayCatchesUp` |
| `feed` | 3 profiles (one without presence) and edits between them, 3 connects or losses, 2 subscriptions, 2 posts under way, states with their availabilities, runtime and presence publications | `OnlyTheCurrentCounts` (`SupersededStaysOut`, `OnlyThisConnectionCounts`, `NothingIsReinterpreted`), `NeverGoesBack` |
| `features` | *Menu*: 2 edits out of 3 contents, 2 platforms, 3 entities of which one is late, 1 failure. *Set-up*: 2 bindings, entries that miss each part in turn | `MenuIsCurrent` (`AnswerIsCurrent`, `RememberedRuns`), `KeepsRunning`, `EditsAreApplied`; `SetupIsSound` |

### Why the bounds are enough

* `limiter`: a window of 5 with spacing 2 makes both sleeps necessary, in either
  order; three callers are a holder, a waiter and one that arrives while both are
  there.  `MaxTime` is long enough for a full window to pass twice; near the end
  `MCRateLimiter` starts no more calls (`Cutoff`) so that the clock's bound never
  strands a sleeper.
* `cloud`: two requests suffice for a pause behind a resume, a resume behind a
  pause, and the task of an account failure is a third job.  A restart at each point
  of a save is one step away from any state; of two reloads the first leaves jobs behind
  and the second meets what they have written.  `MaxSpent` cuts off runs that use up every
  other bound at once.
* `wideq`: with a threshold of 2 the circuit opens after one failure has already
  been counted, so probe intervals, re-opening and success are all reached;
  one pause may be acknowledged and resumed while a poll waits.
* `devices`: a delta of two fields can be lost, late or crossed by a reply while
  the other field changes; two refreshes are what shares the slot, and once they have met
  (`FewOverlaps`) the first client stays and a pause or the last change is left out; two
  clients are a predecessor and its successor; three
  devices give two of one name and a third that takes over an id or a name, until a second
  one is misled (`FewMisled`); a fan-out of one
  makes a second device wait; a second set-up starts from what the first one saved.
* `local`: with `MaxAge` 1 and a clock of 2 an overlay expires while a report
  older than it is under way, between two requests and a remote control.  Two
  service calls, each of up to three writes, meet at every write; the readings hold
  every case the entities tell apart (no feed, off, the fan's placeholder, a carried
  mode, AUTO, no power).
* `stores`: two installers meet at inspection, lock, save and push; the second
  release has a reviewed successor for one binding and none for the other; three days
  cross a midnight and the end of a month; a gap of 2 in a clock of 4 leaves room for
  two intervals and one too long; three submissions are a form that overtakes another
  and one that answers.
* `read_feed`: a repeat, another body and another source at one cursor, a new cohort and
  a new generation are the cases the acceptance tells apart; how many events are notified
  matters to the pinned policy only, so the other has one (`FewEvents`).
* `account`: one fault at any request, a renewal after it, and an edit in the app between
  the two reads of a change.
* `controls`: the four contents are one in force for no model, one that adds a value off
  the grid and a condition, one that takes values and rows away, and one that is not
  coherent; three events are a call, an edit and a press or a return.
* `feed`: a connection, its loss and the next one; two posts, so that a post of a
  connection that is lost already waits on the loop; two subscriptions, so that each of two
  connections has one that may be granted, refused or lost (an answer to the first that
  comes during the second's needs a third: it drops buffers only, and is not reached); a
  session
  without a cohort, one with it and a later state of it, the cohort that replaces it,
  and a generation that uses the first session's id again; and a publication for every
  reason to refuse one.
* `features`: two edits are one before the load and one after it; the late entity and the
  rejected content make roll-back and discovery meet.  The local side may also fail for good
  while the settings at LG are loaded.

Deadlock checking is off where the bounded system may stop (the requests of an
instance are used up); `wideq`, `devices`, `stores`, `read_feed` and `account` check for
deadlocks.  Symmetry is used only where no liveness property is checked.

### Fairness

Only what the code does without outside help is fair.

* `RateLimiter`: weak fairness of each caller's own next step and of the clock:
  asyncio runs what is ready and sleeps end.
* `CloudRuntime`: weak fairness of the lock's holder, in a runtime that was replaced as well,
  of the cancellation of the runtime's own tasks after `async_close`, and of a cancelled or
  finished call;
  requests, answers and new calls are not fair.  Saving is taken to end.
* `WideqCoordinator`: weak fairness of a coroutine that is under way.  A call ends:
  aiohttp's session has a total timeout.
* `AppSettings`: weak fairness of the steps of a call and of each owner's answer (the same
  timeout), strong fairness of the appliances' poll, which is timed and whose lock is
  first come, first served.
* `LocalSetting`: weak fairness of each service call, of the polls of remembered
  entities and their answers, and of the platform's replacement of an entity.
* `FeatureRuntime`: weak fairness of the interval and of the check or refresh under way,
  of an appliance's recovery; strong fairness of the discovery, which takes turns with
  refreshes on one lock.

## 4. What is proved

TLAPS checks every theorem for all values of the constants that meet the named
assumptions of the modules (the `ASSUME`s, which TLC evaluates for each instance).
Each safety theorem comes from an inductive invariant, because hardly one of the
properties is inductive as it stands.

| Module | Theorems about properties of the runs | The invariant says besides |
|---|---|---|
| `AccountProofs` | `LimitsAreKept` | `calls` is a suffix of the permissions ever given, what was dropped is older than an hour, `last` is the newest of both, and a sleeper in the second sleep saw a list below the cap to which nobody has added, because it holds the lock |
| | `SettingIsConfirmed` | the one call under way belongs to who holds the lock; a write ends its call, so none is sent again; what was read is of LG unless a write of ours came after it, and only the setting being written, or one cancelled in mid-write, may show less |
| `TrafficProofs` | `NoLateResult`, `ProtectedHasNoTraffic`, `ImplementsProtection` | a call in flight is late exactly if its generation is not the gate's, a promised source is shut, what is being drained is only shut sources, and the holder's snapshot agrees with the reasons of every source it promises, as the store does unless a job of a replaced runtime wrote it last (`overtaken`); each step then maps to one of `CloudProtection` or to none |
| | `OffersAreKept`, `NothingUnauthorisedLeaves` | an intent has one holder at most: the draft, the choice, or one call that has sent nothing yet; a menu in force is sound for the content it was made of: a number has every point of its grid, because values that are evenly spaced are the whole grid between the least and the greatest |
| `WideqCoordinatorProofs` | `CircuitIsRespected`, `CachesAreHonest`, `DataMovesForward` | one operation asks at a time, because it heads the I/O queue; a shown snapshot is no newer than the last one taken or the one a poll has in hand |
| `DevicesProofs` | `NoSharedAppliance`, `RightAppliance` | every pair, that of the stored map included, is right but for devices that were misled: a snapshot pairs by a name only one listed appliance has, so the pair is wrong only if that one is known by another name, or was itself misled |
| | `PauseIsComplete`, `OnlyTheCurrentClientSpeaks`, `CaughtUp` | the predecessors of the current client are shut down and its successors not born, and what is queued was posted by a client that had a worker; while a refresh is crossed by no other, the slot holds every push since it began, and what it does not hold the reply has |
| | `PreservesTheLatest` | who waits for the limiter holds the lock |
| | `KnownIsOffered`, `NothingVerifiedIsLost` | which fan-out reads a device, that a device's update reaches those who watch it, and that what was seen is offered, in the menu under way, or wanted again |
| `LocalProofs` | `OneCommand`, `FrameIsFaithful` | while the last report is older than the last confirmed command, the overlay has what was confirmed, or it is too old to be restated, or the barrier is in the way (`Settled`); a report tells a whole mode, so two moments decide what a frame may restate; only the lock's holder has a frame under way |
| | `OnlyTheCurrentCounts`, `NeverGoesBack` | a session that was left is of a past generation or cohort, or its id is among the ended ones (`PastIsOver`); whatever counts as live, proven or pending was delivered on the active connection |
| | `ClimateIsFaithful` | every call has a plan of at most three writes, whose asks do not meet, and stands where the plan lets it (`OnPlan`, `Turn`): before the cloud only a write that is no whole, of an appliance that PAT owns, and fenced if it settles the tuple; a whole is first or not at all; what is remembered of a mode was read in it since the feed is healthy |
| `StoresProofs` | `LiveFollowsStore`, `StoreIsExact` | the callers in the queue are distinct and its head alone may be saving; the file holds the rows in memory or those being saved |
| | `EnergyIsHonest` | publications are in order but for the rewinds the meters themselves make, what is held is one of them; a meter's intervals end where the next begins, or a cut is between |
| | `EntityIsHonest` | which of the three layers of a flag holds the newest value |
| | `BindingsKeepTheirs` | a password in the options, or in an open form, was typed for its id |
| | `HistoryIsHonest` | what is cached, stored or left by an older version is no more than LG has counted of that period by now (`BooksAreRight`, `LegacyIsRight`), so is the half a poll has in hand (`PollIsRight`); a field that is not doubted was read by the last poll to end or by the one under way (`FreshOrDoubted`). LG's counts only grow, so a month's sum does: the recursion of `SumUpTo` is shown to have a value by a well-founded order on the days, and two sums out of order would be so on a least day |
| `FeaturesProofs` | `MenuIsCurrent`, `KeepsRunning` | a stamp that still matches says the content it was taken of, through a read under way; while a refresh replaces platforms, those before the one under way have the new definitions |
| | `SetupIsSound` | what is loaded or broken at each point of the start, who has what in hand when stops come, and that the router keeps the scope it was started with; or the entry has failed at LG's settings, nobody stops anything, and nothing is authorised |
| `ReadFeedProofs` | `FeedIsSound` | the current is the highest its epoch ever had, and not below a deletion; two currents of one sequence since the appliance was live there are one and the same publication; an event notified is below the cursor or at its sequence |
| | `ReadingIsSound` | what each entity wrote last is what it would write now, because every change of a source tells those who show it, the stand-in of the primary provider included |

The listed theorems without a property are the invariants themselves, type
correctness (`IdentityTypes` and the like), `ProtectionIsStored` (what is promised is in the
store), `LockHeldBySleeper`, `OneOperationAsks` and `PairsAreKept`.

Only model-checked:

* liveness, for which this prover has no rules (fairness, ENABLED): `NobodyStarves`,
  `JobsDrain`, `EveryoneLeaves`, `SessionRecovers`, `DisplayCatchesUp`, `EditsAreApplied`.

## 5. Where code and words disagree

The finding is a run that must end in a counterexample.

* **`composite`** (`NothingIsUndone`, `services.py:162`).  The comment says the
  request is "read under the coordinator's command/I/O locks so composite preservation
  fields cannot be stale due to another command".  The locks are held, but what is read
  is the last account snapshot, which a command neither updates nor polls after.  A
  second command within a poll interval sends the old value of the field the first one
  set.  The same template names fields PAT sets by commands of its own; these are
  preserved from the WideQ snapshot as well.  (What does hold is
  `PreservesTheLatest`: the snapshot is the last one at the moment the command leaves.)

Met while modelling, each named with its module.  Where one of them bears on a property,
the model has it and the property's comment says what it excepts.

* *Account failure before a reload* (`CloudRuntime`).  An account failure shuts the gate in
  memory and a task of the runtime stores it; `async_close` cancels that task, so after a
  reload the source is open again (`cloud_runtime.py:234` against the comment at 194).
* *A service's job that outlives a reload* (`CloudRuntime`).  `async_close` cancels the runtime's
  own tasks and waits for no other (`cloud_runtime.py:230`).  A pause or resume that a
  service called goes on with the old lock and the old gates: it saves these over what the
  new runtime has stored, and a pause is acknowledged although the gates in force are open,
  against the comment at 194, "a reload must not silently re-enable an account".
  `CloudProtection` promises what the runtime in force acknowledged, and across a
  restart only if no such job was last at the store (`overtaken`).
* *Snapshot from before a pause* (`WideqCoordinator`).  A poll that waits for the limiter
  while the account is paused and resumed publishes the snapshot it took before: it
  looks whether the gate is open (`coordinator_wideq.py:152`), where `CloudGate.call`
  compares generations too.  Night-mode changes, web settings and pairing look at the
  circuit before they wait and not after.
* *Cancelled night-mode change* (`WideqCoordinator`).  Neither except branch runs
  (`coordinator_wideq.py:597`); the cache keeps the last setting that was read although
  the account may have saved another, until the next poll.
* *Power-save window* (`EntityCommands`).  The flags take what a poll read, and drop the
  acknowledged command, before the poll has succeeded (`coordinator_wideq.py:305`); if it
  then fails, the older snapshot is shown.  The acknowledged flag itself is saved only at
  a poll that differs, or at unload.
* *Overlapping PAT refreshes* (`PatCoordinator`).  Two refreshes share one slot for pushes
  (`coordinator.py:113`); the first to end empties it and the second's older reply
  replaces what was pushed.  `CaughtUp` excepts the fields that the reply of a refresh
  crossed by another has set last (`setBack`), until they are pushed again.
* *A name taken over before PAT lists it* (`DeviceIdentity`).  WideQ lists an appliance by a name
  that PAT still gives to another: unique in each list, the name pairs the wrong two, and the
  pair is stored and wins from then on (`device_identity.py:104`).  `RightAppliance`
  excepts these devices (`misled`) and no other.
* *Empty profile* (`Startup`).  A profile answer without content replaces a verified
  profile (`coordinator.py:183`), against the comment at 186.
* *Two semaphores* (`Startup`).  Recovery and a resumed start each make a semaphore of
  their own, so twice the fan-out may be under way.
* *Fan select without the fence* (`LocalControl`).  The fan select writes through the cloud
  (`select.py:634`) without the fence the climate entity puts up, and the next local frame
  restates the fan from before; `FenceHolds` speaks of fenced writes.
* *Reports that lift the barrier* (`LocalControl`).  A report that was under way when a cloud
  command left, and is newer than everything known then, lifts the barrier
  (`local_control_router.py:533`) although it says nothing of that command.  The bridge's
  comparison with `expected_state` is what is left against it.  `FenceHolds` therefore speaks
  of what was known when the command left, not of when it was observed.
* *Placeholder as a target* (`ClimateEntity`).  The hybrid entity shows the fan "power"
  placeholder as its target temperature (`climate.py:901`); `_remember_current_target` takes
  a fan and a temperature to arrive together; the native entity's `set_swing` checks the
  router before it takes the lock.
* *Card conditions* (`LocalSetting`).  `ensure_feature_conditions` raises so that a native card
  cannot bypass a condition through its cloud fallback (comment at
  `local_control_router.py:399`), but it is reached only when there is a command target:
  while the bridge does not serve the appliance, the card's command goes to the cloud
  whatever the condition says.
* *Catalogue of a paused account* (`EntityCommands`).  Entities of the control catalogue stay
  available while the account is paused; their commands are refused.
* *Compare outside the lock* (`ReadConsumer`).  The digest an installer names is compared with
  the row before the lock is taken (`__init__.py:412`), where the docstring speaks of a
  compare-and-set against the Store's row (`local_read_provider.py:2757`).  Under the lock
  the target only has to be a legal step from the row that is there, which may be another
  caller's by then; that is what `StoreIsExact` states.
* *Options without a list* (`LocalOptions`).  One branch of `merge_local_shadow_options`
  gives the only binding's password to another id, against its docstring; no form reaches it.
* *Full memory of sessions* (`LocalProvider`).  When the memory of replaced sessions is full
  the deletion of a retained message is refused (`local_provider.py:2293`), although the
  function calls itself fail-closed; new sessions are refused as well.
* *Heartbeat inside a pair* (`LocalProvider`).  A heartbeat of the bridge between a state and its
  availability drops the state as long as nothing is healthy (`local_provider.py:2187`); the
  next pair repairs it.
* *Crash and the meter* (`EnergyMeter`).  Home Assistant saves the total from time to time; a
  crash takes it back to the last save, and nothing of the interval is counted later.
* *Rolled-back profile* (`LocalProvider`).  A refresh that is rolled back gives the provider its old
  profile again (`feature_runtime.py:346`), but a state that the new profile could not parse
  stays dropped until the next publication.
* *Set-up that raises early* (`LocalSetup`).  What raises between `_setup_local_shadows` and the
  `try` (`__init__.py:525`) leaves the started subscribers running; `NothingIsLeft` excepts an
  entry that failed there.
* *A state without a cohort* (`LocalFeed`).  After states that name a cohort (schema 3), one that
  does not (schema 2) is compared with none (`local_provider.py:2201`, `2976`): it is accepted
  under an id that a later cohort has taken up, and of a session that a cohort replaced.
  `SupersededStaysOut` says so and speaks of the others.
* *A remembered token that does not run* (`FeatureRuntime`).  The watcher's first token is read before
  the providers load, and a refresh that fails half-way keeps the old one; when the
  database returns to that very content nothing is applied (`__init__.py:506`, `651`).  A failed
  discovery is not run again (`feature_runtime.py:262`): its late entities wait for the next
  edit.  `EditsAreApplied` excepts these cases, and of the last only the late entities.
* *Late sensor of one quantity* (`ReadEntities`).  A PAT sensor that reports for the first time after
  the entities were built is added by the discovery beside the local one of the same
  quantity, until the next reload; the properties are about the entities of one build.
* *Unused comparison* (`LocalFeed`).  The loop takes posts in order, so a message's connection
  number can differ from the network thread's but not from the active one when the
  loop is connected: of the two comparisons in `_dispatch_message` only the former fails.

## 6. Not modelled

* *Field codecs, contract files and catalogues*: tables and pure conversions of one field
  each, the per-appliance classes of the vendored SDK (`wideq/devices`, `model_info`)
  among them.  The models know a field's value, not its bytes.
* *The SDK's SSE monitor*: the integration never starts it.
* *The event relay*: one request without state or retry.
* *The first set-up of the configuration flow*: a one-shot dialogue that tries the token.
* *Preferences of `app_settings.py` that Home Assistant keeps itself*: saved and
  restored by its own store.
* *The event and push subscriptions of PAT*, kept at LG and renewed by a timer.
* *Scripts and the Kocom add-on*: operator tools and an integration that shares no state.

## 7. The plan

Done: every component that holds state is modelled, in whole or, where its row in
`PROJECT.json` says what is left out, in part, and the safety properties of section 4
are proved: every safety property a passing run checks is stated by a theorem.

Next, in this order:

1. A third subscription in the `feed` run, so that a late refusal meets the next connection's.
2. Components that are modelled in part: the steps their rows in `PROJECT.json` leave out,
   where they change state that a property of section 3 reads.
