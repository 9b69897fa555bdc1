# KShield: a TLA+ verification of its policy, detection and telemetry paths

KShield is a host intrusion prevention system in three programs. eBPF programs
(`agent/bpf/kshield.bpf.c`) observe a host and refuse what their maps list; an
agent in Rust (`agent/src/main.rs`) loads them, keeps the maps in step with the
manager's policy and posts the events; a manager in Python (`manager/app.py`)
stores policy, events and detections in SQLite and serves a dashboard
(`manager/static/app.js`). This directory holds models of the parts where these
programs share state, their TLC runs, and proofs checked by TLAPS.

Paths in this file are relative to the repository.

## 1. Inventory

| Component | State | Operations | Talks to |
| --- | --- | --- | --- |
| Policy tables (`Storage` of `app.py`) | five tables `(rule, agent_scope) -> enabled`, two legacy tables | POST and DELETE of five routes, `_init_schema` at each start | dashboard and API clients; one lock, one transaction per request |
| Policy distribution (`do_GET` of `app.py`, `sync_policy` of `main.rs`) | the answer under way, five eBPF maps per agent | five table reads, parsing, removal and insertion of map entries | tables, maps; HTTP |
| Kernel hooks (`kshield.bpf.c`) | none of their own: they read the five maps | five LSM hooks | maps, ring buffer |
| Event pipeline (`kshield.bpf.c`, `main` of `main.rs`) | `EVENTS` ring buffer, `pending_events`, `last_policy_sync` | output, drain, filter, batch, post, sleep | hooks, manager |
| Detection engine (`insert_events`, `_threshold_state`) | `events`, `detections` (SQLite), `correlation_windows` (memory) | insertion of a batch in one transaction, commit, rollback | catalog, pipeline |
| Detector catalog (`DetectorCatalog`) | stamp of the directory, loaded detectors | `refresh`, `list` | file system, detection engine |
| Agent registry (`register_agent`, `heartbeat`; `register` of `main.rs`) | `agents` table; the id a process holds | registration, `last_seen`, derived status | agents, dashboard |
| Dashboard (`app.js`) | the page's copy of lists and policy | timed refresh, toggles, forms | API |
| Read-only lists and totals (`list_*`, `summary`) | none | SELECTs on the one connection | engine, tables, dashboard |
| Deployment (`deploy/`) | unit, processes | install, stop, start | agent |

Hard behaviour, by component; `PROJECT.json` lists each hazard at its line.

* Distribution: the handler's five reads are not one transaction; a map is
  emptied before it is filled while hooks read it; `?` leaves `sync_policy` in
  the middle; either side may crash; the agent's own requests pass its hook.
* Tables: what a restart does depends on what was deleted before it.
* Detection: the windows are not part of the transaction, are lost in a
  restart, and are used with detectors that may have been edited meanwhile; an
  argument too large for SQLite or a summary that cannot be filled in rolls back
  the whole batch.
* Pipeline: the agent observes itself; buffers are bounded; a post may be
  stored and yet fail for the agent.
* Catalog: files change, or go, while they are looked at and read; the lock is
  taken twice in a call.
* Registry: look-up and insertion by many threads; a rule can cut an agent off; an
  identity is fixed when a process starts, and neither a new address nor a new
  database changes it.
* Dashboard: refreshes overlap and requests come from old lists.

What makes each correct: a row is what was last asked for; an agent enforces
only what was enabled for it, never a mixture of two answers of one kind, and
in the end the operator's last word; a detection belongs to a stored event and
is recorded exactly when the count is met; what a list or a total has shown is
never taken back; an event reaches the manager at most
once, in order, and is lost only where the code gives it up; the loop keeps
polling whatever the load; the catalog holds what the files hold; one address
is one agent, shown online when it is served; a page shows lists that existed
and nobody lifts a rule without having seen it.

## 2. Modules

| Module | Models | Extends |
| --- | --- | --- |
| `PolicyKeys` | the conversions of a rule: what the manager accepts, what the agent can parse, the key it stores, the key a hook looks up | |
| `PolicyStore` | policy tables, requests, restarts of the manager | `PolicyKeys` |
| `PolicyReplica` | abstract: a fail-open copy of a changing source | |
| `PolicySync` | the handler of an agent's policy, `sync_policy` and the maps, composed with the tables | `PolicyStore` |
| `EventPipeline` | ring buffer and main loop of one agent | |
| `Detection` | `insert_events` and the detectors' windows for several agents | |
| `Queries` | the lists of events, detections and detectors and the totals, beside the ingestion | `Detection` |
| `DetectorCatalog` | `refresh` and `list` for several threads over a directory that changes | |
| `AgentRegistry` | registration, identity, restart and status of several machines | |
| `Dashboard` | pages, their refreshes and requests, composed with the tables | `PolicyStore` |
| `MCPolicyStore`, `MCPolicySync`, `MCQueries`, `MCDetectorCatalog`, `MCAgentRegistry`, `MCDashboard` | constants of the runs | the module named |
| `PolicyStoreProofs`, `PolicySyncProofs`, `EventPipelineProofs`, `DetectionProofs`, `QueriesProofs`, `DetectorCatalogProofs`, `AgentRegistryProofs`, `DashboardProofs` | theorems | the module named, TLAPS; the proofs of distribution and dashboard also `PolicyStoreProofs`, those of the queries `DetectionProofs` |

### PolicyKeys and PolicyStore

A rule is data: an IPv4 address is the sequence of its octets, any other text an
operator types for one is `<<>>`, a port is a number, a path or file name the
sequence of its bytes. Keys are bytes in memory, since the two sides agree, or do
not, on these only. `MapKey` is what the agent stores: `u32::from_be_bytes` and the
little-endian layout of the host for an address, the layout of a `u16` for a port, a
text but for what exceeds `KeySize - 1` bytes (95). `HookKey` is what the hook looks
up for an object of that name: the address as it lies in the `sockaddr`, the port
loaded from the network order of the `sockaddr`, swapped and laid out again, the
text as `bpf_probe_read_kernel_str` cuts it off. Both sides are built for x86-64.
`rules[k][<<rule, scope>>]` is `"none"`, `"off"` or `"on"`. A request runs under the
lock and in a transaction of its own, hence one action: `SetRule`, `DeleteRule`.
`ManagerStarts` runs `_init_schema`, whose copy of the legacy tables is `Migrate`.
`asked` is a history variable.

### PolicySync

Each agent has a program counter. `StartSync` opens the connection (refused by
the agent's own hook when `ManagerKey` is in the map), `ReadTable` is one of the
five reads of the handler, `ReceiveAnswer` parses all of the answer before a map
is touched, then for each kind `RemoveEntry` one entry at a time, `MapCleared`,
`InsertEntry` one at a time, `InsertFails` when the map is full, `MapFilled`.
Requests of the operator, crashes and lost answers interleave with every step.
`before`, `outcome`, `granted` are history variables. The keys of one list are
inserted in any order, which includes the order of the code.

### PolicyReplica

The promise, without the mechanism: a copy may shrink at any time, grows only by
keys of the last delivery of its kind, and only when every older key is gone.
`PolicySync` implements it with `source` the keys the tables now give, `delivered`
those of the last read of each table, and `copy` the maps (`ReplicaSpec`). The
refinement shows that reading five tables one by one never mixes two states of
one kind, though an answer may mix states of different kinds.

### EventPipeline

`Emit` is any hook or probe, `Connected` the agent's own connect. `Sync`,
`SyncFails`, `SkipSync` are the top of the loop, `Drop` and `Take` the rounds of
the `while`, `Post` a request in the middle or at the end of a tick, `EndTick`
and `Wake` the rest. Only a few events are marked, so the others need no bound
and liveness under endless load can be checked on a finite state space.
`delivered` is the set of marks the manager has stored: a batch is stored in the
order of `pending`, so `InOrderOnce` need only say that what is on its way is in
order and behind all that is stored.

### Detection

`Post` takes the detectors before the lock, `Enter` takes the lock, `InsertEvent`
is one round of the loop over a batch, `InsertRaises` the insertion of a value
SQLite cannot store and `SummaryRaises` the detection whose `summary_template`
cannot be filled in, both with the rollback, `Commit` the end. An event's class is
what detectors and SQLite tell apart; a setting is what a TOML file says of
threshold, criteria, grouping and template. `Reload` puts any other setting, or
none, in the place of a loaded one, and leaves `windows` alone, which are kept
under the id of the detector: they change with the events of a call and with
`Restart`, and with nothing else. A `SummaryRaises` leaves the event in the
windows of the detectors up to the one that raised (`UpTo`). `received` and
`applied` are history variables: the events looked at, each with the detectors it
was looked at with.

### Queries

`ListEvents`, `ListDetections`, `ListDetectors` and `Summary` are the requests for
lists, hit counts and totals. The last two ask the catalog before they take the
lock; that answer is the subject of `DetectorCatalog`. They read `ListedEvents` and
`ListedDetections`: the connection is shared, so the rows of another thread's open
transaction are among them, and only the lock (`CanRead`) keeps them out of an
answer. `shown` is the last answer the operator got.

### DetectorCatalog

`Call`, `Lock`, `LookAt` (one `stat`), `Compare`, `ReadFile` (one file), `Publish`
and `Copy` are the steps of `list`; `FileGone` is the `stat` that raises. `Edit` is
anything an operator does to a file, at any moment, half-written contents
included. Modification times come from a clock that may not have moved between
two edits; `ambiguous` records that a file came back to a time and a size it had
before, which the stamp cannot notice.

### AgentRegistry

`UnitStarts`, `RegisterFails`, `Registered` are the agent's side of `register`,
`Lookup` and `Write` the two halves of `register_agent` under its lock, `Poll` the
heartbeat in the handler of the policy, `PollLocksOut` a poll whose answer blocks
the manager's own address: from then on the hook of this process refuses its polls
and posts (`cut`), until the process ends. `PostEvents` is the update in
`insert_events`. `Tick` lets rows and timers age. `held` is the id of the process,
`sent` the hostname and address it gave. A manager that starts without its
database file (`ManagerStartsAfresh`) has an empty table.

### Dashboard

`StartRefresh` and `ReadEntries` are the five reads of `GET /api/v1/policy`, `Show`
the replacement of the copy, `RefreshFails` a failed `Promise.all`. A page has as
many slots as refreshes it may have under way; an idle slot has read no table.
`Click` makes a request out of what the page shows; `Serve` handles it with the
actions of `PolicyStore`, in any order with other requests and refreshes.

## 3. Runs

| Run | Bounds | Shows |
| --- | --- | --- |
| `dashboard` | 1 page, 2 refreshes at once, 1 address with a legacy row, 1 path, 3 requests, 1 failed refresh | a row is what was asked for, up to the legacy copy; what a page shows; pages catch up |
| `store_deleted` (violation) | 2 agents, 2 addresses with legacy rows, 2 ports, 1 path, 4 requests | a deleted rule is back after a restart |
| `sync_scopes` | 2 agents, 1 address, 2 requests, 1 fault | isolation of scopes |
| `sync_live` | 1 agent, an address that locks it out, a text that is no address, 4 ports (room for 2, one invalid, two legacy), 2 paths of `KeySize` bytes with one key, a file name, the ptrace flag, 2 requests, 1 fault; keys of 3 bytes | order and outcome of a sync, hooks refuse what the rules name, refinement, lock-out, convergence |
| `sync_gap` (violation) | 1 agent, 1 address, 1 request | the interval without enforcement |
| `sync_byte_order` (violation) | 1 agent, 1 address, 1 request | the address is stored reversed |
| `sync_unreadable` (violation) | 1 agent, 1 unreadable address, 3 ports, 2 paths, 2 requests | one bad rule holds up all others |
| `detect` | 2 agents, 3 detectors (by agent, shared, without threshold), 3 events, batches of 2, clock 0..2, 1 restart or edit (5 settings or none), pages of 2 rows | exactly the n-th match without faults; no orphan and no false alarm with them; no answer is taken back |
| `detect_rollback` (violation) | 1 agent, the same detectors, 4 events | a rolled back batch hides a detection |
| `catalog` | 2 files, 3 contents (two of one size, one half written), 2 threads, 2 edits | staleness is noticed, answers are fresh, the catalog catches up |
| `registry` | 2 machines, 2 addresses, ticks of 3 s (12, 3 and 15 s), 1 move, 2 faults (crashes, lost polls, lock-outs) | identities, status, recovery |
| `pipeline` | buffer 3, batch 2, tick 3, 2 marked events, 1 crash | order, accounting, liveness |

Why the bounds suffice: an answer of two rules already has a first, a middle and a
last insertion; the legacy rows give the first sync work before any request, so two
requests can set and delete a rule within it; three enabled ports overflow the room
for two; three requests and two refreshes let an old answer overwrite a young one
that has seen a deletion; two edits let a file change between its `stat` and its
reading and once more behind it; two faults cover a crash of an agent with one of
the manager; a tick longer than a batch and a buffer as long as a tick reach the
full batch in the middle of a tick, the full tick and the full buffer; three events
with a count of two and a window of one second allow a count to be passed, and a
window to be pruned and its count reached again. Keys of three bytes in `sync_live`
hold texts of one byte, and cut off those of three. Agents are symmetric where no
liveness property is checked. Deadlock is checked in all runs but those of the
detection, which stop when their events and faults are used up.

### Fairness

`PolicySync`: weak fairness of an agent's own steps (its loop waits for nothing
but the manager's answer, and the threads of `ThreadingHTTPServer` are
scheduled) and of its start (`Restart=always` in `deploy/kshield-agent.service`).
None of the manager's restart, of the operator, or of faults: `Converges`
assumes that the agent is served for good (`Served`) and says so.
`Dashboard`: weak fairness of each page's refreshes (its timer never stops, and
the server has a thread for every request); none of operators or of the manager's
restart, which `PagesCatchUp` takes as its hypothesis. `DetectorCatalog`: weak
fairness of the handler threads, of which the dashboard's timer makes one every
four seconds. `AgentRegistry`: weak fairness of each machine's process and unit
(`Restart=always`) and of time; `ComesBack` assumes that the manager stays up.
`EventPipeline`: weak fairness of the loop. It takes a request to end. The code
sets no read timeout, so a host that vanishes without closing its connections
could hold a request for ever; that case is left out of both models and listed
as a hazard.

### Disagreements with the documentation

The five violation runs are the findings in `PROJECT.json`:

1. `docs/api-reference.md:57` lets policies be removed; the legacy copy at each
   start of the manager brings removed rules back once their table is empty.
2. `docs/architecture.md:64` says that hooks return `-EPERM` for blocked
   actions; during each sync every rule is out of force for a moment.
3. `docs/architecture.md:35` calls `lsm/socket_connect` inline IPv4 destination
   blocking; the stored key is the address in reversed byte order.
4. `docs/architecture.md:62-63` says that the agent polls and rewrites the
   maps; one text that is no address stops this for all kinds.
5. `docs/detectors.md:107` says that a detector emits on the third match in the
   window; after a rolled back batch it may not.

`NoEcho` states its limits as hypotheses: an agent that has locked itself out
causes a refused connect with every post, which is reported in the next post.

## 4. Proofs

Every safety invariant and every action property that a passing run checks is also a
theorem. The theorems hold for every value of the constants that satisfies the
assumption of the module (`PolicyKeysAssumption`, `PolicyStoreAssumption`,
`PolicySyncAssumption`, `EventPipelineAssumption`, `DetectionAssumption`,
`QueriesAssumption`, `CatalogAssumption`, `RegistryAssumption`,
`DashboardAssumption`), which the runs evaluate: types and bounds of the parameters,
that the value standing for "global", "shared" or "absent" is no agent or setting,
and that detectors and files are finitely many. Agents, rules, machines, pages and
threads may be any sets, infinite ones included.

Few of the properties are inductive. What each needs besides itself:

`PolicyStoreProofs`: `StoreKeepsWhatWasAsked` with the type: a request writes the
same state in `rules` and in `asked` (`RequestWrites`), and a start of the manager
changes a table only when all of its rows are `"none"`.

`PolicySyncProofs`:

* `TypeCorrect`: one lemma per action.
* `IsolationHolds`: the invariant (`IsolationInv`) adds that a rule of an answer
  was granted for the agent, which `ReadTable` establishes, and that every row
  now enabled has been granted.
* `RewriteInOrderHolds` and `SyncOutcomeHolds`: the two together are
  inductive (`OrderInv`), with the fact that an accepted answer can be read.
* `AppliedRulesBiteHolds`: after a success a map holds the keys of its rules
  (`SyncOutcome`), and the conversions agree: loading, swapping and storing a port
  gives the bytes of its number, which no other port has (`PortKeys`,
  `PortKeysDiffer`), and both sides cut a text at the same byte (`TextKeys`). For an
  address they do not agree, which is run `sync_byte_order`.
* `SyncImplementsReplica`: every step is a step of `PolicyReplica` or leaves
  its variables alone; `Grow` needs `OrderInv`.
* `LockedOutStaysSoHolds`: an action property, from the type invariant.
* `SyncImplementsStore`: the distribution only reads the tables, so that
  `AgentsKeepWhatWasAsked` follows from the theorem about the store.

`EventPipelineProofs`: `IInv` splits the way of an event in two: `pending` is in
order, the buffer is in order, all of `pending` is older than all of the buffer,
and what is stored is older than both (`OrderInv`). Nothing drops out of the
account because an event that is left out carries no mark (`OthersInv`), and a
failed post adds to `lost` only what was not stored, which is `OrderInv` again. The
limit of a batch needs `BatchInv`: below it while draining, nothing pending at the
top of the loop.

`DetectionProofs`:

* `TypeCorrect`: the number of events stored, inserted and not yet inserted
  never exceeds the number sent (`TInv`), with one thread inside the lock and an
  empty transaction when there is none.
* `HitsReferToStoredHolds`: `HitsInv`, of the detections of the open transaction
  too, which refer beyond the committed events and so fall with a rollback.
* `HitsAreJustifiedHolds` and `SharedHitsAreJustifiedHolds`: `WindowsInv` says that
  every window stands for different received events in the order in which they
  were received, each counted in its group by the file as it was for that event
  (`applied`). Rollbacks leave such events behind, which is why it speaks of
  `received` and not of `stored`; edits change what a later event is counted by, and
  nothing of an earlier one. For a group of one agent `ClockInv` adds that the
  seconds are sorted, so that all of a window at a detection lies within the setting.
* `ExactlyTheNthHolds`: the second half of `WindowsInv`, that while nothing has gone
  wrong (`SettingsInv`: then all detectors are those of the start) a match that is
  not in the window is too old for it, and `ExactInv`, which extends the property to
  the events of the open transaction. The size of a window then equals the number of
  recent matches: a bijection between the window and those events.

`QueriesProofs`: an answer is about committed rows when it is given, because a
thread that may read finds an empty transaction (`TInv` of the detection), and it
stays true because the two tables only grow (`TablesGrow`).

`DetectorCatalogProofs`: `StampMeansLoadedHolds` rests on `Agree`: a file whose
entry is still the one that was looked at holds what was read of it, because any
change would have given it an entry it never had (`former`), unless the clock
stood still (`ambiguous`). `AnswersAreFreshHolds` adds `FreshInv`: what the thread
with the lock gathers has been in the files since its own call began.

`AgentRegistryProofs`: the invariant contains what the lock gives between look-up
and insertion (`OneRegisters`, `FoundStillTrue`), that no id of an earlier database
is in the table, and that a row ages no faster than the timer of the machine that
holds its id (`YoungerThanTimer`), from which `ServedIsOnlineHolds` follows. The
identity properties are inductive only together.

`DashboardProofs`: the lists a refresh has read so far are lists of the tables at
moments one after the other (`Dated`), and remain so when the tables change; a
page shows the lists of one complete refresh (`ShownInOrderHolds`). A request under
way is one the page offered under what it showed (`RequestsInv`), from which
`NoBlindSwitchHolds` follows for every later moment at which it is served. The
bound of `past` in `TypeOK` needs that the copy of the legacy tables is idempotent
(`MigrateOnce`) and so must have a request behind it. `DashboardImplementsStore`
and the theorem about the store give `PagesKeepWhatWasAsked`.

Model-checked only: liveness (`Converges`, `PagesCatchUp`, `CatchesUp`,
`ComesBack`, `Reported`, `PolicyIsPolled`, `NoEcho`), which needs fairness and
`ENABLED`, out of the prover's reach. The five properties of the violation runs are
false, and no theorem speaks of them.

The models avoid operators the prover has no definition of. The marks of a
sequence of events are a set, and the refreshes of a page are kept in slots, where
a filter of sequences (`SelectSeq`) would do as well for TLC. The proofs also
brought up a choice in `EndTick` that two overlapping guards of a `CASE` had left
open; they are now disjoint.

## 5. Not modelled

* Authentication and static files, and generators of documents, keep no state
  that another part depends on. Columns of the lists are left
  out, and the other totals of `summary`, which count rows in the same way.
* The walk of the hooks through kernel structures, the fields of an event, and the
  text criteria of a detector are data that no property tells apart; a class
  stands for them. An agent's timestamps never go back in the models.
* The deployment script runs on another host; of its effects only the end of an
  agent's process is in the models. Reading it turned up two hazards: its `pkill
  -f` pattern also matches the shell that runs the script, and its two uploads are
  not one step.
* After an edit of `[match]`, or of `group_by`, the window of a detector still holds
  what the file counted before, and a detection of the new criteria may count matches
  of the old ones: three events of which one matches now. `HitsAreJustified` says
  what remains true: each was counted by the file of its time, in the same group.
  No document says what an edit does to a window.
* Two TOML files with one id share a window, in which one event counts twice.
  The models tell detectors apart by file.
* A detector whose group several agents share may count matches older than its
  window, because the oldest second is looked at first. `SharedHitsAreJustified`
  is what such a group still guarantees.
* A machine that outlives the manager's database keeps an id that is in no
  table, and one that is locked out is shown offline while it runs. `ComesBack`
  states them as its exceptions: no document says otherwise. No connection
  outlives the lock-out: the manager's server speaks HTTP/1.0, one request each.

## 6. Plan

Done: the policy tables, the distribution with its refinement, the detection
engine, the read-only lists, the event pipeline, the detector catalog, the
agent registry, the dashboard; theorems for all their safety properties.

Next, in this order:

1. `KernelHooks`: the decisions of the five hooks as operators over the maps,
   early returns included, and the events they emit; lemmas that relate them to
   `HookKey`.
2. The safety half of the liveness properties: that an agent's sync cannot get
   stuck (in each state of `sync_policy` one of its steps is possible whenever the
   manager is up), and a measure that every step of a sync, of a refresh and of a
   tick lowers.
3. What `PolicyReplica` promises as properties of its own, proved there once and
   taken over by the refinement.
