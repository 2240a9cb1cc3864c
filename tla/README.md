# A TLA+ model of busbar

busbar is an LLM gateway: clients speak to it in one of six vendor dialects, and
it forwards each request to one of the upstream *lanes* of a *pool*, translates
between dialects, protects lanes with circuit breakers, fails over between them,
charges virtual keys for what they use, and is configured while it runs. This
directory holds specifications of the parts whose correctness depends on
ordering, concurrency, failure, or the agreement of two pieces of code; TLC
checks them on small instances, and TLAPS proves the main properties of the
breaker, the walk, the ledger, the credentials, the stores, the configuration's
life, the admin plane and the audit log for every instance. `PROJECT.json` maps
every definition to the lines it models.

Paths below are relative to `src/crates/busbar/src/` unless they begin with
`src/`, `store-`, `plugin-` (crates) or, for the documentation, with `docs/`.

- [1. The system](#1-the-system)
- [2. The modules](#2-the-modules)
- [3. The runs](#3-the-runs)
- [4. The proofs](#4-the-proofs)
- [5. Where code and documentation disagree](#5-where-code-and-documentation-disagree)
- [6. What is not modelled](#6-what-is-not-modelled)
- [7. Plan](#7-plan)

## 1. The system

A request comes in through `ingress/`, is authenticated (`auth/`), admitted
against the limits of its key's groups (`governance/`), shown to the gates of
its pool (`proxy/hooks.rs`), handed to the engine (`proxy/engine/`), which picks
a lane (`proxy/select.rs`) through its breaker cells (`store/in_memory.rs`),
translates and sends it (`proto/`), and relays the body
(`proxy/response_body.rs`, `proto/stream.rs`). Background tasks probe lanes
(`health.rs`), flush the ledger (`governance/mod.rs`), persist state
(`state_persist.rs`) and refresh credentials (`egress_auth/`). The admin plane
(`admin/`) changes keys, hooks, groups, plugins and the configuration of the
running process, and what it changed has to survive a restart. Everything runs
on one multi-threaded tokio runtime: any two requests interleave at every
`await` and between any two locks.

### Inventory

| Component | State | Operations | What makes it correct |
|---|---|---|---|
| Breaker cell, `store/in_memory.rs` | one cell per (pool, lane): state, streak, cooldown, probe flag, probe epoch, outcome window; one default cell per lane | acquire, record success / failure, hard-down, recover, release (checked and unchecked), creation on first touch | flag and state agree; a probe has an owner; a trip or hard-down is not undone early; a HalfOpen cell always moves on |
| Lane selection, `proxy/select.rs` | the probe guard, a permit of the lane's semaphore | `pick_among`, the guard's `Drop` | a probe that is won is settled or given back |
| Failover engine, `proxy/engine/mod.rs` | `RequestCtx`: deadline, excluded lanes, visited pools, active restricts; the retained body | gates, attempt loop, classification of every answer | no lane twice, no attempt after the deadline (one on a sticky lane excepted), restricts persist, context-length exclusion is monotone, a rewrite reaches every attempt |
| Exhaustion walk, `proxy/engine/walk.rs` | the same context | `status_503`, `fallback_pool`, `least_bad`, the single degraded attempt | the walk ends; it stays in the key's pools and in its restricts |
| Key ACL, `ingress/mod.rs` | a cursor on the fallback chain | `pool_authorized`, `fallback_pools_authorized` | covers every pool the walk can reach |
| Health prober, `health.rs` | a task per lane | probe, recover, success, failure, hard-down | recovers what is suppressed; never undoes a newer hard-down |
| Governance ledger, `governance/state.rs`, `governance/mod.rs`, `cost.rs` | concurrency gauges, budget cells in 64 locked shards, flush baselines | `try_admit`, refund, accrue, `flush_budgets`, `hydrate_budgets` | gauges are exact; caps hold across races and window boundaries; a refund touches its own request; a delta is stored once; no deadlock |
| Virtual keys, `governance/state.rs`, `admin/mod.rs`, `auth/` | rows, key and credential caches, revocation list, idempotency slots | create, update, rotate, revoke, delete, verify | a revoked or deleted key stops working for good; what is read is what is stored; a retry mints once |
| Protocol translation, `proto/`, `ir/` | per stream: open blocks, indices, deferred end; per conversation: ids in the client's history | readers and writers of six dialects, whole and streamed | nothing lost, repeated or reordered; calls stay paired; the upstream accepts what it gets |
| Response body, `proxy/response_body.rs` | the stream, the grant, the permit, the lane budget | relay, end, failure, drop | the client never takes a failure for success; bill, breaker and permit are settled once |
| Hooks, `hooks/`, `proxy/hooks.rs` | the registry and wiring of a snapshot | ask a gate, follow `on_error`, rewrite a prompt | gates fail as declared |
| Configuration, `config/`, `config_validate/` | files, overlay, environment | resolve, validate, build | what validates boots, and serves as declared |
| Admin plane, `admin/v1/` | live snapshot and version, version log, overlay, audit ring | register, patch, delete, apply, roll back, reload, persist | no lost update; a narrow scope stays narrow; a restart resumes with what was answered; the audit log is kept |
| Plugins, `plugin-loader/`, `plugin-sign/` | the plugins directory, pins | scan, trust, install, upgrade, roll back | old releases load only after a rollback; an install leaves a directory the next start accepts |
| Stores, `src/crates/api/src/store.rs`, `store-sqlite/`, `store-postgres/`, `store-redis/` | tables or keys, schema version | open and migrate, eight kinds of write | a call takes effect whole, an addition once at most; an opening wipes nothing of its own build |
| Process, `main.rs` | phase of the shutdown | signal, drain, two final flushes, boot | a graceful stop loses nothing |
| SWRR selector, lane budget, health snapshots, egress credentials, telemetry, TLS, dispatch | see section 6 | | |

How the components meet:

- *Shared state.* Requests, the prober and the snapshot task share the breaker
  cells; a cell's fields are written under its transition lock, but are also
  read without it (creation by inheritance, `recover_lane`, the guard's token).
  Requests and the flusher share the budget cells under shard locks; the gauges
  are bare atomics. Requests read one snapshot of the configuration; admin
  handlers replace it under `CONFIG_MUTATION_LOCK`, and write the overlay before
  they let go of it.
- *Calls that span an await.* The probe is won before the wait for a permit
  and before the upstream call; the charge is made before the call and undone
  or completed after it, possibly in another window; an admin operation looks a
  row up, and writes it back in another store call.
- *Callbacks.* `Drop` of the probe guard, of the admission grant and of the body
  stream runs wherever a future is cancelled, in particular when a client
  disconnects. A blocking store task outlives the handler that started it.
- *Messages.* Upstream answers and frames, probe answers, replies of hooks, store
  acknowledgements; all may be late, negative, malformed or missing.
- *Files.* The config file, the overlay, the state file, the plugins directory
  and the store are what a restart finds.

The behaviours that are hard here are listed one by one, with the line at
which each one bites, under `hazards` in `PROJECT.json`.

## 2. The modules

| Module | Models | Extends |
|---|---|---|
| `BreakerCell` | one cell and the transitions applied under its lock | |
| `LaneBreaker` | a lane: cells, requests, permits, prober | `BreakerCell` |
| `Failover` | one request from the ACL to its answer | |
| `Ledger` | admission, settlement, flush, stop and restart | |
| `Credentials` | virtual keys, caches, revocation, idempotency | |
| `Vocabulary` | stop reasons and usage of the six dialects | |
| `ChatIR`, `ChatReaders`, `ChatWriters` | requests and whole answers, into and out of the intermediate representation | `Vocabulary` |
| `PromptRewrite` | gates that rewrite a prompt | `ChatWriters` |
| `Conversation` | a client, the gateway and upstreams over several turns | `PromptRewrite` |
| `StreamIR`, `StreamReaders`, `StreamWriters` | streamed answers, the same way | `Vocabulary` |
| `StreamPeers` | the upstream's encoder and the client's decoder (external) | `StreamIR` |
| `StreamRelay` | one stream through the translator and the response body | readers, writers, peers |
| `SqlTables`, `SqliteStore`, `PostgresStore`, `RedisStore` | the methods of the backends | |
| `StoreContract` | what the `Store` trait promises: the abstract specification | |
| `StoreFleet` | processes that share a backend, with faults | instances of the four |
| `Plugins` | structure, trust and resolution of plugins | |
| `Config` | resolution, rules and construction of a configuration | `Plugins` |
| `HookGates` | the decision of one gate | `Config` |
| `ConfigLife` | edit, validate, boot, reload, apply, register, install, roll back | `HookGates` |
| `ControlPlane` | the handlers that change the live snapshot, and what they make durable | |
| `AuditLog` | ring, chain, durable log and restore | |
| `MC...` | instances for TLC | |
| `LaneBreakerProofs`, `FailoverProofs`, `LedgerProofs`, `CredentialsProofs`, `StoreFleetProofs`, `ConfigLifeProofs`, `ControlPlaneProofs`, `AuditLogProofs` | theorems | the module they are named after |

A definition whose name is another's with a suffix (`Take_Forgets`,
`OpenLocked_KeepsProbe`) is that definition with a plausible mistake. Nothing
uses it; put in the place of the original it makes a property fail, which shows
that the property is about the code.

The specifications meet at nondeterministic choices. `Failover` lets the store
return any eligible lane or none, which covers every behaviour of the cells of
`LaneBreaker` and of the selector; `LaneBreaker` lets a request arrive by any
route and end in any way, which covers every walk of `Failover`; `Ledger` lets
an admitted request succeed or fail at any time; `Conversation` sends each turn
and each retry to any upstream; `Failover`'s gate replies are outcomes that
`HookGates` computes; `Credentials`, `Ledger` and `AuditLog` take a store whose
calls fail as `StoreContract` allows.

### BreakerCell and LaneBreaker

`BreakerCell` has one operator for each `cell_*` function of
`store/in_memory.rs`. Each of these runs under the cell's transition lock, so a
step of `LaneBreaker` applies one of them whole. Its abstractions:

- *The outcome window* is not kept. In `error_rate` mode the verdict of the trip
  test is any Boolean (`TripVerdicts`); in `consecutive` mode it is the exact
  comparison with the streak.
- *The jitter*, a hash of the wall clock, is any value of its band
  (`CooldownChoices`).
- *The streak* saturates at `StreakCap`, where the backoff has reached
  `max_cooldown_secs`.
- `won`, in a request, and `lost`, the probes of clients that left during the
  upstream call, are history: no step's guard reads them.

In `LaneBreaker` a request is a process. `Admit` is `usable_in` or
`acquire_for_dispatch_in` on the cell that was picked, by affinity
(`"sticky"`), by the pool's loop (`"walk"`), by a fallback pool's or by the
least-bad attempt. `ArmGuard` reads the guard's token, in a step of its own as
in the code. `TryPermit`, `PermitGranted` and `GuardDrop` are the permit and the
two ends of the wait for it. `Succeed`, `Fail`, `NoOutcome`, `HardDownAnswer`
and `Disconnect` end the upstream call, and `StreamEnd` and `StreamFail` the
body. The operations that visit all cells of the lane are sweeps (`op`): the
default cell, the read lock of the map, then the pool cells one by one.
`recover_lane` reads a cell first (`Observe`) and closes it under its lock later
(`Close`). The creation of a pool cell under the map's write lock is split
between the read of the default cell's state and the reads of the rest
(`CreateRead`, `CreateFinish`).

`hdUntil` and the field `parks` are history: until when completed hard-downs
have parked the lane. When two hard-downs overlap the earlier deadline counts,
because each may overwrite the other's.

### Failover

The state is the `RequestCtx` of the code, the loop counters and a log of the
attempts. `AclStep` is one step of `fallback_pools_authorized`; `Gates` and
`ApplyRestrict` are the reconcile of gate replies on the requested pool and
`enforce_restricts` on each fallback pool; `LoopHead`, `PickSticky`, `PickLane`,
`Park`, `ParkedPermit`, `ParkedTimeout` and `PickNone` are the loop and
`pick_among`, whose sticky path comes before its deadline guard.
One action stands for each class of upstream answer, and one for each
`on_exhausted` mode. `conf` is chosen once: a request holds one `App` snapshot.
`Tick` is possible wherever the code awaits and impossible between the return
of `pick_among` and the send; a parked request's timer fires when the deadline
is reached.

### Ledger

A step is what the code does atomically: one `fetch_update` of a gauge, one
shard lock, the check and the charge under all the locks of an admission
(`Charge`, `Blocked`), one bucket's settlement under its lock, the snapshot of
one shard, one `add_usage`, one acknowledgement. Choices of the model:

- *Tokens.* The per-model, per-tier counters of a cell are one counter, priced
  at `Rate`.
- *Chains.* `Chain[r]` and `Gauges[r]` are what `chain_for` resolves for the key:
  its own bucket first, then the groups, without repetition. A request may also
  be refused on arrival, as it is when a group of its chain is frozen or
  unknown.
- *Missing cells* are cells of window -1, which every reader treats the same
  way.
- *Pinned epoch.* A request is accounted at its time of arrival. `MaxLag` bounds
  the ticks between that and its admission; the code bounds it by what a few
  lock acquisitions take.
- *Order of settlement.* The buckets of a request are settled in any order, one
  step each. Gauges go back after the accrual, since the stream records usage
  before it drops the grant, and independently of a refund.
- *Faults.* A write may fail without effect, or take effect and lose its
  acknowledgement (once: the code accepts the double count that follows).
- *Stops.* A crash loses memory at any step. A graceful stop drains the
  requests; then the background task's last flush and the one that `main` runs
  without the task's gate proceed side by side, and the process ends.
- `landed`, `forgotten`, `stops` and `trouble` are history. `forgotten` is the
  largest number of requests of a window that any crash made the ledger forget:
  a second crash forgets what the first one forgot again, and not on top of it.
- The configuration does not change between an admission and its settlement.
- `FeeBaseCovers` and `GracefulStopLosesNothing` are about windows within the
  sweep's horizon of 31 days (`Kept`; the all-time window always is). Beyond it
  they are false: if no flush succeeds for that long, a dirty cell is swept with
  what was to be stored, and the late accrual of a request that outlived it makes
  a cell for the old window that starts from nothing.
- `RequestsCapHolds` and `FlushedOnce` are about firm windows (`Firm`). Every
  window of a bucket whose period, with the time an admission takes, fits into the
  horizon is firm for ever. A month of 31 days is exactly as long as the horizon:
  it is firm until it is over. After that, a request pinned to its last second
  that is admitted after a sweep of the next month finds no cell and is charged
  to a new one, so that the cap of the month that has ended may be passed by such
  stragglers (`governance/state.rs:963`, `governance/mod.rs:597`).

### Credentials

An operation of the admin API is a handler, whose client may leave, and a
blocking task, which then runs to its end. Every store call is a step and may
fail; a refresh of the caches is the listing, the join with the AWS credentials
and the swap, one step each, as in `refresh_key_cache`. `auth` is one request of
the data plane, which reads the revocation list and then the cache. The process
may crash anywhere; the boot may fail to read the revocation list and go on
without it (`blind`). A row is whether the key is enabled, whether it is bound to
the one group whose cap is counted, and the secret it holds. A rotation answers
with the secret that it wrote, a mint with the key; a replay answers what the slot
holds. `overtaken`, `deleted`, `revoked`, `slow`, `crowded` and `uncounted` are
history, and say which of the code's own exceptions apply: a refresh that failed or
was overtaken, a window that passed under a pending operation, a mint that another
one overtook between its count and its row, a key that a `PATCH` bound to the
group, which is not counted.

### Translation: Chat*, Conversation, PromptRewrite, Stream*

A text is a sequence of numbered pieces, so that every loss, repetition or
exchange shows. A message on the wire has one shape for all dialects, with the
fields each leaves empty; each reader and each writer is an operator of its
dialect with its own rules (which blocks are kept apart, merged or dropped, which
ids are made up or reshaped, which settings clamp which). `Conversation` starts
with a client of one dialect, and each turn, after the answer, appends to the
history what an SDK of that dialect would, with results for the calls it received.
Every attempt goes to an upstream of any dialect; a failed attempt goes on from
what the engine retained. `PromptRewrite` is what the gates that may rewrite a
prompt do to it before routing: the projection they are shown
(`build_prompt_projection`), what counts as a rewrite in their reply, and how it
is put back into a body of the dialect, which loses what the projection does not
show. Gates run one after another, each on what the last one left. `StreamRelay`
encodes an answer as frames of the upstream's dialect (`StreamPeers`), feeds them
to the reader, the translator and the writer, and decodes what comes out as the
client would. Faults are an in-band error, bytes that cannot be framed, a broken
or early closed connection and the departure of the client, each between any two
frames. The encoder and the decoder of the peers are external to busbar and say
what the dialects' documentation does.

A call has a name and an id, and two calls may be of one function. A Gemini
upstream sends no id: the reader makes one up from the index and the name
(`synth_tool_call_id`), and the writer for a Gemini client drops the id it has. The
decoder notes which kinds of blocks were open at the same time (`beside`). That a
stream failed is said by what the upstream did (`Failed`), never by what the
gateway noticed of it; what the readers do not see is named (`Unseen`).

### Stores: StoreContract, StoreFleet and the backends

`StoreContract` is the abstract specification: a call takes effect at one
instant between its invocation and its answer, whole or not at all; a call that
was answered with success has taken effect, one that failed may have; an
addition takes effect once at most. A counter reads as the sum of what was added,
floored at zero; of what the floor cuts off the contract allows both that it is
forgotten, as in the SQL backends, which floor when they write, and that it is
`owed` and taken from later charges, as in Redis, which floors when it reads. The
one call it is less strict about is the
deletion of a key, whose cascade Redis reads before it writes: it takes of the
key's usage and credential what was there all the time the call lasted (`had`),
and may take or leave what came or went meanwhile; a credential that is left is
no longer listed as the key's own. In `StoreFleet` a method of a backend is a
sequence of sections (an autocommitted statement, a transaction, a MULTI/EXEC),
each of them executed and then answered; connections break before or after
execution, Redis runs a section again where the code retries, processes crash,
and the store may hold what an older build left, or a half-made upgrade.
`C == INSTANCE StoreContract WITH ...` maps the tables to the contract's
contents through the backend's own read methods, and `KeepsContract` is
`C!Spec`. `SerialOpens` confines the run to openings that do not overlap: two
concurrent openings of an older Postgres or Redis store do break the contract
(section 5).

### Config, Plugins, HookGates, ConfigLife

`validate` (what `config_validate` demands) and `Buildable` (what
`build_app_from_config` stops at) are separate definitions, translated from
separate code, so that their agreement is a property. Names are strings of a
small universe; a URL is its scheme and the class of its host, a secret where it
comes from. `Parses` is what the types of the file guarantee before any rule is
looked at: tables are finite, a count is not negative, and a limit that is left
out is `Unbounded`. `ConfigLife` has the five ways a configuration is vetted: the
command, boot, reload, apply, and the registration of a hook; and the plugins
directory with installs, upgrades and rollbacks. An install is two steps without a
lock: `install_plugin` checks an upload against the directory it sees, and
`publish_plugin` renames it into whatever the directory is by then. A rollback is
two under the configuration's lock: `rollback_plugin` writes the pin, which may
fail unnoticed, and the rebuild is applied (`rebuild_pinned`), or refused and the
former pins are written back, which may fail as well (`rebuild_refused`). `Stop`
may come between any two. `rolledBack` is history: each rollback that was not taken
back, and how it ended. `HookGates` computes what a
gate decides from any combination of replies of the hooks along its `on_error`
chain. A ranking strategy at the end of a chain is the weighted choice: it cannot
fail, and which order it computes is not modelled.

### ControlPlane

A handler of the configuration plane is one action for what it does to the
snapshot under `CONFIG_MUTATION_LOCK`, and one (`persist`) for the write of its
section of the overlay, since the process can die, or the write fail, between
them. The refusals are the action's guards, in the order of the code. The state:

- `live` is the snapshot: version, hook registry, global wiring, groups, one
  root setting, the plugin pins, and the names that the file defined when it was
  built. A hook is its grants (blind, or one that sees content), its `global`
  and `default` flags and its settings; the wiring is a set apart, as in the
  code, because the flag of a definition and the wiring can differ (a hook of the
  file is wired without the flag).
- `overlay` is the document with its tombstones and whether it is absent,
  readable or corrupt. `MergeInto` is `merge_into`; `Persist`, `PersistGroups`,
  `PersistRoot` and `ClearSection` write one section each, from what was read.
- `log` and `saved` are the version log and its copy in the state file.
- `lock` is what the holder of the lock still has to do.
- `push` holds, for each caller, a settings push that has left for the hook:
  `patch_hook_settings` checks and pushes without the lock, and
  `commit_hook_settings` takes it afterwards.

`rollback_plugin` writes the pin *before* the rebuild that needs it; the rebuild
then succeeds (`rebuild_pinned`), or fails, and the former pins are to be written
back (`rebuild_fails`, `persist`). `put_config_settings` builds from the disk
without the pins. `Boot` merges the overlay or, in safe mode, does not; a state
file that cannot be read is as good as none. Callers have one of the three scopes
that reach this plane: `full`, `hooks-register` and `mint`, whose only access is
the group a key mint has made. `ghost` is history: the generation of the snapshot
across processes, whether an update was lost or a scope broken, whether disk and
snapshot should agree, and what was deleted durably.

### AuditLog

Recorders append to the ring, and write through under a lock of their own, from
the first entry that is not known to be in the store; appends fail, the process
crashes, and the boot takes the log up from the store or from the state file.
Hashes are numbers of which each record has its own; a link is the hash of the
record before.

## 3. The runs

Every run that is expected to pass is exhaustive over its instance.

| Run | Specification | Checks |
|---|---|---|
| `lane_cell` | `Spec` | `ProbeIffHalfOpen`, `NoOrphanProbe` |
| `lane_prober` | `RecoveringSpec` | `HardDownParksLane`, `OpenIsSticky`, `ProbeResolves` |
| `failover_walk` | `FairSpec` | `RestrictHolds`, `AclHolds`, `NoLaneTwice`, `ContextRespected`, `DeadlineStopsWalk`, `Answered`; deadlock |
| `ledger_all` | `Spec` | `GaugeExact`, `RequestsCapHolds`, `FeeBaseCovers`, `FlushedOnce`, `GracefulStopLosesNothing`, `LocksNeverDeadlock` |
| `credentials_all` | `Spec` | `ReadIsCurrent`, `RevocationIsFinal`, `CacheFollowsStore`, `MintsAreBounded` |
| `credentials_blind_boot` | `Spec` | `RevocationSurvivesRestart`: violated, see section 5 |
| `stream_all` | `Spec` | `ClientGrammar`, `Faithful`, `EndsHonestly`, `BilledOnce` |
| `conversation_all` | `Spec` | `NothingIsLost`, `RewriteReaches`, `CallsStayPaired`, `TranslationIsAccepted` |
| `store_contract` | `Spec` | `OpenedIsCurrent`, `KeepsContract` (refinement of `StoreContract`) |
| `config_life` | `Spec` | `ValidatedConfigServes`, `GatesFailAsDeclared`, `DowngradeOnlyByRollback`, `InstallKeepsBootable` |
| `control_plane` | `Spec` | `NoLostUpdate`, `NarrowStaysNarrow`, `RestartIsFaithful` |
| `audit_log` | `Spec` | `LogIsKept` |

### What they show, and their bounds

`lane_cell`: two requests over one cell with a single permit, by every route
in, with every answer and a client that may leave at any point; two probes and
four ticks. One permit makes the second request wait, so that the guard's `Drop`
happens with the probe in hand; a request that the Closed cell let in and one
that wins the probe are what it takes to release a probe by mistake. The
cooldowns are of one to two ticks and a Retry-After of three, so that the clock
crosses the end of each kind of cooldown. The one probe that loses its owner is
that of a client that left during the upstream call (`lost`); every other way
out settles or releases it.

`lane_prober`: a default cell, a pool cell that is created meanwhile, a request
and the prober, each of which may sweep the lane with a hard-down while the
other is anywhere in its own operation. After a completed hard-down no cell
admits traffic before the sticky cooldown ends, the cell that was created in the
middle included; no step shortens a trip, except those that may; and the prober
clears the probe that a disconnected client orphaned.

`failover_walk`: two pools that share two of three lanes, two lanes of the same
context size, every `on_exhausted` mode, keys that may and may not use the
second pool, advisory and binding restricts that leave members in both pools or
in the first one only, excluded members, two attempts (three with passthrough),
a deadline of two ticks. Two shared members are what it takes to try a lane
twice, and an advisory restrict before a binding one to drop the latter.
Besides, three pools with every possible fallback function, self references,
cycles and unknown pools included, although validation rejects them: the runtime
guard alone ends the walk. The requests of a session, in a third family, may
take the sticky lane at any moment: one attempt starts late, and none after it.

`ledger_all`: five scenarios in one run. Three requests of two keys race over a
chain of two capped groups and of buckets that lie in two shards in opposite
orders, with a request cap of two, a token cap and a budget that downgrades to
another pool; two requests of a third key meet a request cap of one over a window
boundary while the flusher runs and the store fails, loses an acknowledgement,
the process crashes, or stops in good order; and the clock passes the age of
the sweep. The clock runs from 3 to 5 with windows of two ticks, so that
requests straddle a boundary and a cell gets old enough to be swept; the bucket
of the request cap of two has a window as long as the sweep's horizon. One stop of
the process is enough to lose what was not flushed, hydrate, and flush again.

`credentials_all`: three keys, at most one of them at the first boot, two
operations at a time of any kind on any of them, one Idempotency-Key, a cap of
one, two rotations, one failed store call, crash or departed client. Two
operations are what an update that brings a deleted key back, a refresh that
overtakes another, or a second secret for one Idempotency-Key takes. With a cap of
one, a creation that is refused, one that another overtakes and an update that
binds a second key all happen; an update may freeze a key, release and bind it, or
take it out of the group.

`stream_all`: every pair of dialects, each dialect to itself, the array form of
Gemini and a plain body; answers of up to three blocks of text, reasoning and
tool calls in every order, with the usage before, with or after the stop or
never; calls of two functions or twice of one; a fault between any two frames.
Three blocks have a block between two of the same kind, which is where the numbering
of a dialect goes wrong. `ClientGrammar` lets two blocks be open at once only in the
pairs that `OpenTogether` names: the OpenAI and Gemini readers keep text and calls
open until the finish reason, and a thought only the Gemini reader, beside a call.
`Faithful` compares names, arguments and ids. `EndsHonestly` and `BilledOnce` have
two exceptions, an in-band error of OpenAI's and one of Cohere's.

`conversation_all`: every client dialect against every upstream dialect in every
turn: three turns with calls (one, two in parallel of two functions or of one),
results, pictures and reasoning, on lanes that allow everything and nothing; one
turn with each of the settings that have to be clamped, paired or dropped; two
turns with gates that redact, fail, say nothing, send what does not parse or
refuse. Three turns are what an id takes to go to a client, come back to another
upstream, and come back to its issuer. `ContentArrives` compares the order over
all kinds of content, with one exception (`WordsBeforeResults`).
`TranslationIsAccepted` has what the writers' own comments say their vendor
demands, and its exceptions are definitions: the hosted tools of
`AnthropicAccepts`, the split calls of `OpenaiAccepts`, and the histories that did
not alternate to begin with of `GeminiAccepts`.

`store_contract`: the three backends, two processes, three calls of every method
that writes (a refund before the charge among them), two faults (broken
connections, crashes) and a lost marker, over stores that are new, of this build,
of an older one or half upgraded. `KeepsContract` is the refinement;
`OpenedIsCurrent` says that no process uses an old layout.

`config_life`: a deployment of three pools in a row of fallbacks, two providers,
gates that stand in for each other, groups, a durable store and signed plugins,
and up to two changes out of some seventy edits of one setting, registrations
and deletions of hooks, installs of a dozen artifacts, rollbacks, minted keys,
and an environment that loses a secret. An install or a rollback counts as one
change, and its later steps come at any time: two uploads may overlap, and a crash
may come after the pin. Two changes are an edit that is right by
itself beside another, or a change by the API under a later edit of the file.

`control_plane`: a caller of each scope, two hooks, two groups, two editions of
the file (the second defines a hook the API may have made and deleted, and drops
another), a body to apply, three snapshots, one restart, one fault (a failed
write, a failed rebuild or a corrupt overlay) and a version log of two entries,
so that it wraps. Three snapshots are a change, another one over it and a
rollback or a stale request; one restart with one fault is what it takes for the
disk to be behind.

`audit_log`: one process with two recorders, five records in a ring of two, three faults
(failed appends and crashes), one boot that cannot read the store. The ring
is shorter than the backlog of a failing store can be, which is when the chain
may break.

Deadlock is not checked where the system may stop: clocks, probes, arrivals,
calls, changes and faults are bounded and all of them may be used up. `Failover`
has an explicit final step, and its run does check deadlock.

### Fairness

- `LaneBreaker!Fairness`: the runtime polls every request and every sweep, and
  the upstream client and the prober have timeouts, so that a dispatched request
  finishes *or* is abandoned, a sweep that has begun ends, a creation under the
  map's lock ends, and the prober's ticker fires. Clients need not arrive,
  probes need not succeed. `RecoveringSpec` adds that an upstream that is probed
  again and again answers one of the probes (`SF` of `ProbeOk`), which is the
  premise of a recovery and no promise of busbar's; only `lane_prober` uses it.
- `Failover!FairSpec`: the walk is polled and the upstream answers or times out
  (`WF` of `Walk`); the clock advances while a request is parked, whose timer is
  all it waits for. Elsewhere time may stand still, so `Answered` rests on the
  visited-pools guard, the hop limit and the exclusion set, and not on the
  deadline.
- The other specifications state no liveness; `LocksNeverDeadlock` says that
  some admission can move.

## 4. The proofs

TLAPS checks all of these for any number of requests, lanes, pools, buckets,
shards, permits, keys, operations, processes, callers, hooks, groups, tarballs and
records, and for any bounds, from the named assumptions of the modules alone: that
the parameters have their types, that what is finite in the program is finite,
that no placeholder (`None`, `Nil`, `NoName`) is a value it stands in for, and, in
the ledger, that a chain names no group twice and that no window is longer than
the sweep's horizon. Three theorems have a hypothesis more, which is stated with
them.

### LaneBreakerProofs

| Theorem | States | Along |
|---|---|---|
| `TypeCorrect` | `[]TypeOK` | `IInv` |
| `ProbeFlagCoherent` | `[]ProbeIffHalfOpen` | `IInv` |
| `TrippedStaysTripped` | `OpenIsSticky` | `IInv`, one lemma per action |
| `HardDownParks` | `[]HardDownParksLane` | `IInv /\ ParkInv` |
| `ProbeHasOwner` | `[]NoOrphanProbe` | `IInv /\ OwnerInv` |

`IInv` is `TypeOK /\ ProbeIffHalfOpen /\ UnbornUntouched`. The third part says
that nothing has touched a pool cell that does not exist and that sweeps work on
cells that do; without it a creation could replace a cell that has tripped or
that a probe is using. `OwnerInv` adds to `NoOrphanProbe` what each request
remembers: the epoch it won, and the guard's token, are at most its cell's
epoch, and the token is not older than the probe; a request that streams has
settled its probe; one that applies a hard-down has settled it or still has its
own cell before it. `ParkInv` is about the deadlines that are promised while
sweeps are under way: every cell that a running hard-down has passed is Open
until the deadline of a running one at least (two of them may overwrite each
other's); no cell is being created while a sweep is among the pool cells, and one
that is created under a parked lane has read Open; no deadline is further away
than a hard-down taken now would put it. A recovery that closes a cell, which
`TrippedStaysTripped` says it does only when it saw the cooldown it clears, takes
the promise back.
`ProbeHasOwner` has no premise: clients leave at any point, and `NoOrphanProbe`
excepts the one probe that the code does orphan (`lost`; section 5, disagreement 2).

### FailoverProofs

| Theorem | States | Strengthening |
|---|---|---|
| `TypeCorrect` | `[]TypeOK` | an attempt in flight is the last of the log |
| `AclRespected` | `[]AclHolds` | `AclInv`: after the ACL steps, `walked` is closed under the fallback that the handlers take, and the current pool is in it |
| `RestrictPersists` | `[]RestrictHolds` | `RestrictInv`: every candidate satisfies the binding restricts that have been applied, and all have been once the loop is entered |
| `LanesTriedOnce` | `[]NoLaneTwice` | `OnceInv`: tried lanes are excluded, the lane in hand is excluded and untried |
| `DeadlineRespected` | `[]DeadlineStopsWalk` | `DeadlineInv`: an iteration begins before the deadline, so whatever was sent before it was sent in time; a lane in hand that affinity did not pick was taken by the deadline |
| `ContextLengthRespected` | `[]ContextRespected` | `ContextInv`: while the main loop runs, the candidates no larger than a lane that rejected are excluded |

### LedgerProofs

| Theorem | States | Along |
|---|---|---|
| `GaugesAreExact` | `[]GaugeExact` | `TypeInv /\ HeldInv /\ GaugeExact` |
| `AdmissionsNeverDeadlock` | `[]LocksNeverDeadlock` | `TypeInv /\ HeldInv /\ LockInv` |

`HeldInv` says that a settled request holds nothing and that a request taking
gauges holds a proper prefix of its chain with as many members as its length, so
that the next gauge is one it does not hold; this is where the assumption that
no group occurs twice in a chain is used. With it each step changes the gauge
and its set of holders by the same member. `LockInv` says that only requests
that lock or check own locks, and that what a locking request owns is below all
it still needs. Among the locking requests, the one that waits for the highest
shard then waits for nobody that locks.

The same module, about the counters:

| Theorem | States | Along |
|---|---|---|
| `RequestCapsHold` | `[]RequestsCapHolds` | `CountTypes /\ AgeInv /\ FlushInv /\ CoverInv`, with `TypeInv /\ HeldInv` |
| `StoreIsNeverAhead` | `[]FlushedOnce` | the same, with `SentInv` for `CoverInv` |
| `GracefulStopsSave` | `[]GracefulStopLosesNothing` | the first, with `OwesInv`, `StayInv`, `CoverKept`, `SnapInv`, `SavedInv`, `DrainInv` |
| `FeesAreCovered` | `[]FeeBaseCovers` | the first, with `OwesInv`, `StayInv`, `CoverKept`, `SnapInv`, `SavedInv`, `FeeInv`, `DownInv` |

A cell is one per bucket and is reset when a later window begins, so that the cap
of a window cannot be read off the cell alone. `CoverInv` says that, for every
firm window an admission may still be charged to (`Live`), what its check will read is
at least what was charged, but for what a crash forgot; while the process is
down the store takes the cell's place, which is why hydration keeps the cap.
`AgeInv` (admissions keep up with the clock) is what keeps the sweep from
dropping a cell whose window is live: such a window has been outlasted, or is
not firm any more. `SentInv` follows a delta from the
snapshot under the shard lock through the write to the acknowledgement: between
write and acknowledgement the store has the delta and the baseline has not, and
the snapshot that is waiting is exactly the difference. A cell that was swept and
made again by a late accrual (`Stale`) has a baseline that means nothing; nothing
is charged to it any more.

The last two look at a cell instead of an admission's check, and need to know that
the cell in memory is the one that was charged. `OwesInv` says that a request
settles only buckets it has charged, at an instant whose window is not after the
one its charge landed in; `StayInv` that the cell of a bucket is not older than
the window such a charge landed in while that window is kept; `CoverKept` that the
cell of a kept window covers its charges, but for the forgotten ones.

- *The graceful stop* is an argument about where a request is. `SnapInv` says of a
  snapshot that its cell has not gone back since, that its delta brings the store
  up to what the cell had, and that it has once it is written. `SavedInv` says
  that a cell without the dirty mark has its requests in the store, or in a
  snapshot of what it has now. `DrainInv` follows the end of the process: a flush
  fails only when the store did; main's flush begins when no request is left to
  charge, and no shard that it has scanned has a dirty cell; so that at the exit,
  when no snapshot waits, the store has everything. The flush of the task that
  runs beside it may acknowledge an older snapshot meanwhile, and leaves the cell
  dirty if it was charged since.
- *The fee base* is an argument about a difference. A charge raises `requests` and
  `billable` alike and a refund lowers `billable` alone, so `FeeInv` bounds the
  difference by the number of refunds, in the cell (`BucketFees`), in the store
  and in each delta on its way (`SnapFees`). That a refund counts for the window
  whose cell it lowers is where `OwesInv` and `StayInv` come in. The
  bound on the store is what a boot hydrates from (`DownInv`: a process that is
  down has no cells), and `CountSplits` turns the bound into the cardinality that
  the property compares.

### CredentialsProofs

| Theorem | States | Strengthening |
|---|---|---|
| `TypeCorrect` | `[]TypeOK` | |
| `GateKeepsReadsCurrent` | `[]ReadIsCurrent` | `PhaseInv`: an operation holds the gate from its lookup to the end of its refresh; `RowInv` |
| `RevocationsAreFinal` | `[]RevocationIsFinal` | `FinalInv`: what a deletion has done at each of its phases; `AuthInv`: what was known of the key when the request arrived |
| `CachesFollowStore` | `[]CacheFollowsStore` | `CacheInv`: while no refresh was overtaken, what one has listed, and joined, is what the store has |
| `MintingIsBounded` | `[]MintsAreBounded` | `SlotInv`: a pending slot has one operation that settles it, a done slot the answer of its window; `CapInv`: a mint that was counted and not overtaken has room |

`IInv` is the conjunction of all of them. The cap is an argument about
cardinalities: the keys of the group other than `uncounted` are below it when a
mint is counted, and stay below it until the first row of a mint overtakes the
others that were counted.

### StoreFleetProofs

| Theorem | States | Along |
|---|---|---|
| `OpenedLayoutIsCurrent` | `SerialOpens` implies `[]OpenedIsCurrent` | `Inv` |
| `BackendsKeepContract` | `SerialOpens` implies `KeepsContract`, which is `C!Spec` | `Inv`, one lemma per section |

`SerialOpens` says that no two processes open the store at once; without it both
statements are false (section 5). `Inv` has the types of the three sets of
tables (`Types`), `OneOpens`, and then:

- *Of an opening* (`SqlInv`, `RedisInv`, `SqlOpening`, `RedisOpening`): a SQL
  database without its version, and a Redis name space without its marker, has
  nothing that this build wrote, and nobody has opened it (`Virgin`); what the
  opening has read of the version, and of the names it is going to remove, is
  still so when it acts on it; what it removes is an older build's (`Foreign`).
  Every section of an opening is then a stutter of the contract, wherever a crash
  cut an earlier one short. A marker that is lost under a store in use is one of
  the model's faults, and the case that makes `Foreign` necessary.
- *Of a call* (`CallInv`, `DeleteInv`): it has taken effect when its last section
  was executed, and a section is sent again only if it may be; what a deletion on
  Redis has read covers what it has found all along.

Step by step: an invocation is the contract's `Invoke`; the execution of the last
section of a call is `Take`, and of any other a stutter; a reply is `Answer`; an
error or a crash is `Leave`. `Applied` is what the executed section leaves in the
tables, statement by statement, and the lemmas per method show that the backend's
own read methods see in it one of the contract's `Effects`, the floors of the
counters included.

### ControlPlaneProofs

| Theorem | States | Strengthening |
|---|---|---|
| `TypeCorrect` | `[]TypeOK` | `DownInv` |
| `NoUpdateIsLost` | `[]NoLostUpdate` | `VersionInv`: the live version counts the swaps since the boot, so that within one process a number names one snapshot; a tag that was issued before a restart is outside the theorem (disagreement 6 of section 5) |
| `NarrowCallersStayNarrow` | `[]NarrowStaysNarrow` | `PushInv`: a push that can still be committed is for a hook that is unchanged but for its settings, and that its caller may handle |
| `RestartsAreFaithful` | `[]RestartIsFaithful` | `DiskInv`, `LiveInv`, `TombInv` |

`DiskInv` is about `Target`, the document the overlay will be once the holder of
the lock has done what is left to it: merged with the file it is the live
snapshot (`Agree`), which a free lock turns into `DiskIsLive`. It speaks of the
hook surface only while every hook and every wire of the file is in the snapshot,
since a rollback may take one out without a tombstone. `TombInv` says that what
was deleted is in the tombstones of the overlay, readable or not; `LiveInv` that
the name a write takes off them is present.

### AuditLogProofs

| Theorem | States | Along |
|---|---|---|
| `TypeCorrect` | `[](TypeOK /\ RowsOK /\ LockInv)`, for any fleet | itself |
| `LogKept` | `Solo` implies `LogIsKept` | `KeptInv` |

`Solo` says that one process uses the store: several of them number their
records independently, and write over each other (section 5). `KeptInv` adds to
the types `OrderInv` and `ChainInv`. By the first, a process gives out numbers
above every record that is held, and what its ring has above the watermark is in
the store as it is or not at all: so an append never changes a record. By the
second, as long as no backlog overran the ring, the store has no holes, each
record links to the one before, ring and file go on from the store's log, and the
record before the next one to be written is held: so a crash at any point leaves
a chain a start can verify. What a start reads is the tail of the store's log;
that the tail, a sequence, has the records in the order of their numbers is
proved through their ranks.

### ConfigLifeProofs

| Theorem | States | Along |
|---|---|---|
| `WhatWasValidatedServes` | `[]ValidatedConfigServes` | `VettedInv`, `ServedInv` |
| `OldReleasesStayOut` | `[]DowngradeOnlyByRollback` | `RollbackInv` |
| `InstallNeverBlocksBoot` | `InstallKeepsBootable` | `UploadsInv` |
| `GatesDecideAsDeclared` | `[]GatesFailAsDeclared` | `ServedInv`, `HookInv` |

No assumption is made on the configurations, the edits or the tarballs:
what a proof needs of a file it has from `Parses`, which `Resolvable` demands. Of
the hooks that requests register it is assumed that each is a gate or a tap
(`HooksAreTyped`), the two values that `HookKind` deserializes to.
`ServedStep` is what the first two share: a step leaves the configuration that is
served, or replaces it by one that a build has just validated.

- *Validated means bootable.* `VettedInv` says that what the command passed it
  would pass still, since every step that changes the file, the overlay, the pins
  or the directory forgets the verdict. `RulesCoverBuild` then goes through the
  refusals of the construction and finds each one among the rules.
- *Degrading as declared.* `HopsAre` and `WalkIs` show that the two recursive
  functions, the search of the cycle check and the walk of a request, are what
  their equations say. `OnwardStep` relates them: from every pool that a walk has
  been at, the check's search reaches the pool where it is now. If the walk came
  back to a pool, that pool would reach itself, which `NoFallbackCycle` excludes.
  The lane of each pool comes from the rules about weights and limits, which say
  "not zero", together with the types of the file, which say "not negative".
- *No downgrade.* `RollbackInv` says that every pin is that of a rollback which was
  applied, cut off or not taken back, or of the one in progress (`PinsAreRollbacks`,
  whose second half covers the pins it would write back), and that the floor of the
  application being served is none or the version of one that ended
  (`FloorIsServed`). It is the floor at the time of the build, so that the proof needs
  rollbacks to be remembered, never the pins as they are now.
- *Install.* The upload remembers the directory and the posture it was checked
  against; `UploadsStep` shows that this stays what the check accepted, and
  `StillPublishable` that the check accepts the directory of the publication too,
  if the other files are still what it saw, or fewer. Over the two directories the
  file loads into configurations that differ in their plugins block only
  (`LoadedAlike`), which no rule looks at (`RulesAlike`). The checks of an upload
  exclude a conflict with any plugin that is loadable (`PublishedScans`), and so a
  name that resolved before resolves to the same file (`PublishedResolves`).
- *Gates.* `HookInv` says that the registries are finite and typed, and that the
  gates of a pool are what the configuration being served resolves to: hooks that
  are registered and deleted do not touch them. `EndedChainRuns` is the centre: a
  chain of `on_error` names that is at an end after one hop per hook never came
  back to a gate, since two places with the same name have the same to come, and
  so goes through at most as many gates as there are hooks. From there
  `ChainListsGates` shows that `resolve_on_error_chain` lists exactly the gates of
  the chain that are there, in their order, and never stops at its guard against
  a ring; `DeciderIsFirst` that who is declared to decide is the first of them
  that answers. `ReplyIsObeyed` and `TerminalDecides` are what one reply and one
  terminal come to. The members of a pool may name a model twice, and then the
  terminal `first` lists its lane twice; that each lane is named once holds for
  the order of a hook, which `from_ranked` deduplicates (`RankedParts`).

### Model-checked only

- Liveness (`ProbeResolves`, `Answered`) and everything with `ENABLED` is out of
  the prover's reach, and so is induction over data.
- All of `StreamRelay` and `Conversation`. They fold over sequences, where a proof
  for every conversation would be an induction over data.

## 5. Where code and documentation disagree

`credentials_blind_boot` ends in a counterexample to what the repository says of
itself. A restart is to resume with every revoked subject still denied. A boot
whose read of the revocation list fails takes the list for empty
(`plugin-loader/src/lib.rs:438`), and a revoked token whose row still exists is
admitted again until the next boot.

The following disagreements were found with counterexamples of the same models,
by properties that are not among those of the passing runs because the code
does not have them:

1. *One probe at a time.* `docs/circuit-breaker.md:99` promises exactly one
   recovery probe. Exits without an outcome call the unchecked `release_probe_in`
   (`proxy/engine/mod.rs:1483`): a request that a Closed cell admitted, and that
   ends in a client fault after the cell has tripped and another request has won
   the probe, reverts HalfOpen to Open, and a second probe is admitted.
2. *Every abandon releases the probe* (`proxy/select.rs:318`). After the permit
   the guard is disarmed; a client that disconnects during the upstream call
   leaves the cell HalfOpen until a prober comes by, and for good without one
   (`proxy/engine/mod.rs:1285`). `NoOrphanProbe` names this exception and has no
   other.
3. *A request can never land on an excluded member* (`docs/failover.md:69`).
   `least_bad` does not look at the exclusions (`proxy/engine/walk.rs:999`), and
   an excluded member, which has no cooldown, is its first choice; a fallback
   pool's own exclusions are not applied either (`proxy/engine/walk.rs:881`).
4. *Flushes never overlap* (`governance/mod.rs:711`). The final flush of `main`
   (`main.rs:902`) does not take the flusher's gate, and stores a delta again
   that the task has in flight.
5. *Only 2xx responses are billed* (`governance/state.rs:1076`).
   `hydrate_budgets` reads a fee base of 0 beside a request count as a row of an
   older schema, and charges again what was refunded when every request of the
   window had failed (`governance/state.rs:644`).
6. *A stale ETag is refused* (`docs/admin-api.md:83`). Versions start again with
   the process when the state file is gone or old, so that a tag read before a
   restart may name another snapshot after it (`main.rs:1863`).
7. *An in-band error is a failure of the lane* (`proto/stream.rs:91`). An error
   object in the stream of an OpenAI upstream is passed on to a client of the same
   dialect and lost for any other, and is not told to the breaker
   (`proto/openai_chat/reader.rs:414`). `Unseen` in `EndsHonestly` and `BilledOnce`
   is this exception.
8. *Two blocks are never open at once* (`proto/gemini/reader.rs:943`,
   `proto/openai_chat/reader.rs:527`, `proto/openai_chat/tests/tests.rs:3342`). All
   of these are about a thought and the text after it. A Gemini function call that
   follows a thought opens its block and leaves the thought's open
   (`proto/gemini/reader.rs:850`); a client whose dialect has block boundaries gets
   the two interleaved.
9. *A garbage reply follows `on_error`* (`docs/hooks.md:139`). A reply that does not
   parse abstains, whatever the chain says (`hooks/plugin.rs:46`).
   `GatesFailAsDeclared` leaves what becomes of it open.
10. *The same observable floor* (`store-redis/src/lib.rs:24`; "counters are floored
    at 0", `src/crates/api/src/store.rs:425`). A refund that takes a Redis counter
    below zero reads as zero, and is held against the charges that follow, which the
    SQL backends count in full. This is `owed` in the contract.
11. *A restart does not come up in a state the running engine rejected*
    (`admin/v1/json/handlers.rs:417`). The write that takes the pin back may fail,
    which is only logged (`config/overlay.rs:293`), and the next start honours the
    pin of a refused rollback. `DowngradeOnlyByRollback` counts these
    (`"unreverted"`), and those that a crash cuts off after the pin, which a comment
    calls the safe direction (`admin/v1/json/handlers.rs:383`).
12. *Never publish a state boot will refuse* (`admin/v1/service.rs:1027`). No lock is
    held between the scan of the directory and the rename
    (`admin/v1/json/handlers.rs:138`): two uploads at once, of one name under two
    file names, are both accepted, and the next start refuses the directory.
    `InstallKeepsBootable` is about a directory that is as it was (`Undisturbed`).
13. *Items follow in the order of the conversation*
    (`proto/openai_responses/writer.rs:40`). That is true of an assistant's words and
    calls; of a user turn the Responses writer puts the words before the results
    that came first (`proto/openai_responses/writer.rs:198`).
14. *Two turns of one role next to each other are refused by Gemini*
    (`proto/gemini/writer.rs:231`). The writer keeps alternation where there was one
    and does not restore it: the tool and user messages of OpenAI, and the items of
    Responses, arrive as neighbours of one role.
15. *Anthropic refuses a `tool_choice` without tools* (`proto/anthropic/writer.rs:165`).
    Hosted tools of the Responses dialect are dropped (`ir/variant.rs:149`) and the
    choice stays (`proto/anthropic/writer.rs:151`).

Observed while modelling, in the order of the modules. The properties exempt
these cases, by name, where they would meet them.

- *Breaker.* A failure that does not trip stores a fresh cooldown on the cell
  (`store/in_memory.rs:1091`, `docs/circuit-breaker.md:140`). A degraded attempt
  records client faults as failures (`proxy/engine/walk.rs:468`).
- *Walk.* The loop makes `max_hops + 1` attempts (`proxy/engine/mod.rs:940`,
  `docs/configuration.md:877`); the text can be read both ways. `least_bad`
  ignores the deadline (`proxy/engine/walk.rs:986`), which is why
  `DeadlineStopsWalk` exempts it. So does the affinity path of `pick_among`
  (`proxy/select.rs:172`), which returns before the deadline guard
  (`proxy/select.rs:221`): a session's request may start one attempt late.
- *Ledger.* A lost acknowledgement counts a delta twice
  (`governance/state.rs:1127`). A window that rolls over drops what had not been
  flushed (`governance/state.rs:1060`), which a comment of `flush_budgets`
  accepts. The sweep's horizon of 31 days is the length of the longest month
  (`governance/state.rs:963`), which leaves its stragglers no time: see `Firm`.
- *Credentials.* Two refreshes may swap in the wrong order
  (`governance/state.rs:1308`). The cap, which "bounds how many keys may bind to
  ONE group" (`admin/mod.rs:630`), is counted before the mint, without a lock
  (`admin/mod.rs:668`), and a `PATCH` that binds a key to a group checks that the
  group exists and counts nothing (`admin/mod.rs:818`): both pass the cap, and
  `CapHolds` leaves out the keys that did. A rotation does not retire a token that
  was issued (`docs/admin-api.md:185`). A revocation without a deletion does not
  concern AWS credentials or rotated secrets. The same Idempotency-Key may mint
  twice when the first operation outlives its slot (`admin/mod.rs:466`). The check
  of a group on rebinding is outside the configuration lock as well.
- *Conversation.* A Gemini client has no ids to give back, so that an upstream
  that pairs by ids cannot pair its results (`proto/gemini/mod.rs:240`); ids made
  up for Gemini calls repeat from turn to turn. Parallel
  calls of a Responses history are a message each for OpenAI and Cohere
  (`proto/openai_responses/reader.rs:179`), so that a result does not directly
  follow the message of its call. A message of
  reasoning only becomes one without content. The signature of a foreign thought
  is replayed to Anthropic. The usage of a Cohere client leaves out cached
  tokens. A safety stop is an ordinary end for an Anthropic client. A rewriting
  gate takes out calls, results and pictures; the system prompt of OpenAI and
  Cohere is rewritable although `docs/hooks.md:127` says it is not. A gate that
  fails while rewriting abstains, whatever its `on_error`
  (`plugin-loader/src/hook.rs:138`).
- *Stream.* An error at Cohere's `message-end` becomes a plain stop. A transport
  error after the relayed end yields an error frame after the end. A deferred
  terminal is lost when the transport breaks after the upstream's terminal
  frame. A Bedrock stream cut after `messageStop` has no stop reason. An early
  close towards an OpenAI client ends in `[DONE]` without a finish reason.
- *Stores.* Two concurrent openings of an older Postgres or Redis store can wipe
  what one of them wrote (`store-postgres/src/lib.rs:256`). A SQLite upgrade is not
  one transaction (`store-sqlite/src/lib.rs:213`). Redis reads what a deletion has
  to remove before its transaction. A comment there says that a write in between leaves at
  worst "a benign dangling index member" (`store-redis/src/lib.rs:436`); a mint
  that is sent again between the read and the transaction leaves a credential
  behind the deleted key. A Postgres connection is not made again. The memory
  store's mint and deletion can be seen half done.
- *Configuration.* Limits are installed before the validation that may refuse
  them (`main.rs:1857`). `register_hook` accepts a second default, an `on_error`
  that leads nowhere or round in circles and a plugin that is not there, and
  `delete_hook` one that others name: the next boot refuses. A stored key that
  names a missing group refuses the boot after a clean `--validate`. A reload
  that changes `store:` keeps the store of the boot. "A dropped security gate never
  silently disappears" (`docs/plugins.md:242`), but a gate of a hook registered at
  run time whose settings do not resolve, or whose plugin does not open, is absent
  and lets the request through (`hooks/mod.rs:354`).
- *Plugins.* A pin is a first-party floor for plugins of third parties as well,
  and overrides `min_versions` raised later. A rollback is refused while both
  releases can be loaded. A failed `dlopen` leaks the live count of the staging.
- *Admin plane.* A caller of scope `hooks-register` may register a blind hook
  anew with `global: false`, and so unwire one that a full caller had wired, and
  may delete or patch one that came from a file which has since dropped it; a
  comment of `delete_hook` (`admin/v1/json/handlers.rs:744`) says that the verbs
  forbid to tear down a gate. `NarrowStaysNarrow` is therefore about hooks that see
  content. It is also about an admin chain that is not empty: `put_auth` accepts an
  empty `admin_auth` with a warning (`admin/v1/json/handlers.rs:1720`), after which
  every caller has full authority, and the model leaves that chain out. A `PATCH` of
  the settings of such a hook, whose definition never said
  `global`, unwires it. Safe mode says that the overlay file is untouched
  (`main.rs:1432`) and keeps its path, so that the first hook write replaces the
  quarantined hooks. Version numbers and the version log do not outlive the process
  as `docs/admin-api.md:249` suggests. A hook or group write makes the whole
  registry durable, base entries and applied ones included, so that later edits
  of the file are shadowed. A rollback does not restore groups, and its removal
  of a hook of the file does not outlive a restart. `delete_group` does not look
  at the keys that are bound to it, and the next boot refuses. A settings push
  reaches the hook before the commit that may fail. A rollback of a plugin with
  an unreadable overlay answers success without a pin.
- *Audit.* A boot that cannot read the store begins to number anew and later
  writes over the history (`admin/audit.rs:157`), which is why `LogIsKept`
  exempts it. Two processes on one store number their records independently and
  write over each other's; run and theorem are about one.

## 6. What is not modelled

- *SWRR and the lane budget* (`store/in_memory.rs:864`, `:2066`): the models take
  any admissible lane, so nothing is said of shares; a reset between the add and
  the subtract of a selection, and a budget spent by requests in flight, are
  known hazards.
- *Health snapshots* (`store/in_memory.rs:2156`): the export reads cells without
  their locks. `LaneBreaker` starts from cells that are closed.
- *The verdict cache* (`auth_cache.rs:72`), filled by an authentication that
  began before a flush; *egress tokens* (`egress_auth/bearer_token.rs:118`),
  which may expire between the read and the send.
- *Dispatch, endpoint routing, billing helpers, outcome classification*: pure
  functions of one request; what they produce are inputs here.
- *Operations other than chat* (embeddings, images, audio, files), documents and
  citations, the detection of a dialect, and the reassembly of frames from bytes.
- *Telemetry, metrics, logs*: no decision reads them.
- *TLS, request signing, address checks, the C ABI of plugins*: cryptography and
  I/O. A signature is the key it verifies with.
- *The outcome window* of a cell and the jitter are nondeterministic, see
  section 2.
- *A change of configuration under a request in flight*: `Failover` has one
  configuration per request, as the code's snapshot does; the ledger's settlement
  under a changed chain (`state.rs:424`) is left out.

## 7. Plan

Done: models of the breaker, the walk of a request, the ledger, credentials,
translation, stores, configuration, the admin plane and the audit log; proofs for
the breaker, the walk, the ledger, credentials, the stores, the configuration's
life, the admin plane and the audit log.
Next, in this order:

1. `Swrr` and `LaneBudget`: the smooth weights sum to zero without a reset, the
   shares over a cycle, a unit spent and refunded at most once.
2. `HealthSnapshot`: the export while cells change, the file and the restore,
   composed with `BreakerCell`.
3. The verdict cache and the egress tokens.
