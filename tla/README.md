# VPNGate Link, modelled in TLA+

VPNGate Link is one Rust service. It fetches a catalog of public OpenVPN
servers, lets a web console pick one, runs `openvpn` for it and offers a local
SOCKS5/HTTP relay whose outgoing sockets are bound to the tunnel device. This
directory holds models of its stateful parts, TLC runs that check them on small
instances, and TLAPS proofs for every value of the constants.

Paths below are those of the repository (`src/openvpn.rs` is the Rust source).

## 1. Inventory

| Component | Source | State | Operations |
|---|---|---|---|
| Tunnel control | `src/openvpn.rs` | `AppState.openvpn` (a tokio `Mutex` with the `Child` and its config file), processes, `ip rule` and route of table 100, `configs/` | `connect_node`, `stop_openvpn`, `mark_failed`, `setup_policy_routing`, `cleanup_policy_routing` |
| Request handlers | `src/server.rs` | `AppState.nodes`, `runtime`, `settings` (tokio `RwLock`s) | connect, autoconnect, disconnect, refresh, test, settings, favorite; read-only status, nodes, logs, health, exit_ip |
| Catalog | `src/catalog.rs` | none | fetch, parse, order |
| Policy | `select_node`, `src/model.rs` | `settings` | choice of the node for autoconnect |
| Persistence | `src/store.rs` | `nodes.json`, `settings.json`, `state.json`, `openvpn_auth.txt` | `write_json_atomic`, loads, `ensure_dirs`, log ring |
| Startup | `src/main.rs` | none | loads, relay task, refresh loop, HTTP server |
| Relay | `src/proxy.rs` | sockets of each connection | accept, handshake, dial, copy |
| Configuration, token | `src/config.rs`, `authorize` | constants | `from_env`, once per start |
| Web console | `web/src/main.tsx` | React state | calls the API, one action at a time (`busy`) |
| Packages, unit | `systemd/`, `scripts/`, `packaging/` | none | installation, `Restart=always`, environment file |

How they interact: handlers and the refresh loop are tokio tasks on a
multi-threaded runtime and share `AppState`. A lock is held for one section and
given up before the next, so everything between two awaits outside a lock may
interleave. `connect_node` calls `stop_openvpn` first; `stop_openvpn` holds the
openvpn lock to its end and takes the nodes and the runtime lock inside it.
Sections that write `nodes` or `runtime` save the file under the same lock;
settings are saved after theirs is released. openvpn creates the tun device,
the relay binds sockets to it by name, and nothing else ties the two together.
When the client of a request disconnects, hyper drops the handler at the await
where it stands: locks are released, a `Child` is dropped without being killed,
a file job of the blocking pool goes on.

What is hard: requests that overlap (two consoles, a reloaded page, a script),
dropped handlers, an openvpn that is silent, late or dead, a restart by systemd
in the middle of anything, refreshes under a running connect, `ip` commands that
fail unnoticed, saves that share one temporary file, a device that goes away
under the relay.

What makes each part correct:

- tunnel control: a process keeps an owner that can kill it, the report and
  the process agree, a disconnect stops the session, requests return;
- catalog and policy: one active node at most, only a refresh moves the count,
  autoconnect obeys the policy and picks the best node it allows;
- persistence: the file always loads and behaves as one register;
- startup: no crash leaves a node list the next start cannot get past, complete
  credentials stay, the refresh loop never ends;
- relay: no connection beside the tunnel, the stream whole and in order, one
  verdict, no dial left hanging;
- all together: one operator sees one session at a time, a relayed connection
  keeps one exit, the exit IP shown is that of the node reported.

## 2. Modules

| Module | What it is |
|---|---|
| `Tunnel` | the control plane: all handlers that change state, processes, routing, crashes |
| `Link` | what the control plane promises one operator: a session (abstract) |
| `MCTunnel` | instances of `Tunnel` for TLC |
| `TunnelProofs` | types, one active id, lock discipline, the count and the list (TLAPS) |
| `TunnelSessions` | ownership of processes (TLAPS) |
| `TunnelConsole` | one client: status, routes, disconnects, the refinement of `Link` (TLAPS) |
| `Register` | what saving promises: an atomic register (abstract) |
| `JsonStore` | `write_json_atomic` on directory entries and inodes, implements `Register` |
| `MCStore`, `JsonStoreProofs` | instances; types, the file always loads, refinement (TLAPS) |
| `Service` | the life of the process around `nodes.json`: configuration, `ensure_dirs`, `main`, refresh loop, restarts |
| `MCService`, `ServiceProofs` | instances; types, complete credentials stay, the store's promises through starts and restarts (TLAPS) |
| `Relay` | the SOCKS5/HTTP relay |
| `MCRelay`, `RelayProofs` | instances; types, no connection beside the tunnel, one verdict, whole streams (TLAPS) |
| `Gateway` | `Link` and `Relay` over one tun device, and the exit check |
| `MCGateway`, `GatewayProofs` | instances; types, one exit, an honest exit check, the relay's promises carried over (TLAPS) |
| `Routes` | catalog parsing and order, settings, autoconnect's choice |
| `MCRoutes`, `RoutesProofs` | its instances; types, endpoints, the choice (TLAPS) |

How they compose: `Gateway` puts `Relay` beside `Link`, and `Tunnel` with one
client implements `Link`, so what `Gateway` shows of sessions rests on the
control plane. `Service` extends `JsonStore` and takes its `Crash` apart into
the steps of a start; `JsonStore` implements `Register`.

Definitions that appear just before a mapped one and differ from it by one slip
(`StoreUnlocked`, `KillDropsOnly`, `BindSwallowed`, ...) are broken variants:
substituted for the real one they must make a property fail. Some of them are
also the shorter half of the real definition (`Store` is `StoreUnlocked` with
its lock).

### Tunnel

A handler is a program counter `pc[r]`; `target`, `held` and `fresh` are its
locals (node id, `Child`, fetched list). The list is a status per entry; entries
may share an id (`IdOf`), as `safe_id` lets them: a connect marks all of them
(`Marked`), a test or a failed connect the first (`SetStatus`). One action is
the stretch from one observable await to the next. The steps of a connect are,
in order: `Announce` (the flag), `StopRule`, `StopRoute`, `StopLock`, `StopKill`, `StopClear`,
`StopNodes`, `StopRuntime` (all of `stop_openvpn`, which is also the whole of a
disconnect), `Lookup`, `WriteConfig`, `Spawn`, then `WaitReady` and `SetRule`,
`SetRoute`, `AddRoute`, `AddRule`, `Store`, `MarkNodes`, `MarkRuntime`, or
`WaitFail`, `Kill`, `FailNodes`, `FailRuntime`. `Refresh`, `ApplyNodes`,
`ApplyRuntime` are `do_refresh`, by a client or by the loop of `main`; `Test`
and `Probed` are `do_test_node` around its probe (a batch is several tests).

Environment: `ProcUp` (the device is exclusive, openvpn fails on a busy one),
`ProcExit`, `Abort` (dropped handler), `Crash` (the service dies, systemd kills
its control group and starts it again; the rule stays in the kernel, the route
goes with the device). With `"route"` in `Faults` any `ip` command may fail: a
deletion then leaves what it was to delete, and an addition ends the set-up with
an error that `connect_node` ignores. `unrouted` remembers that error, which the
code forgets; nothing but the property `RoutedWhenUp` reads it. `Ops` and
`Faults` choose what a run exercises.

`OneLink` reads an abstract session off this state (`SessionPhase`,
`SessionNode`): the tunnel of a pending connect is risen until its ready line is
read, ready until `MarkRuntime`, reported from then on. `Link` says when each of
this may happen; that is what one operator may count on.

`OwnersKept` says that a running process somebody can still kill stays so. It
names the two ways in which the code loses one. A handler dropped with its
`Child` in a local leaves the process running; and an assignment to
`state.openvpn` drops the handle that is there (openvpn.rs:97). The second takes
two connects and an established openvpn that dies while its connect is still
setting up the routing: the other's tunnel comes up in the freed device, and the
later of the two stores replaces the handle of the earlier one.

Abstractions: an `RwLock` section with its save is one step, because no one sees
between the two and a crash between them loses memory anyway; how the save
itself proceeds is `JsonStore`. Texts, logs, `state.json` (never read) and
rp_filter settings are left out, and so is what the last `ip` command or file
job of a dropped handler does after the handler is gone. The order of
autoconnect's choice is in `Routes`.

### JsonStore

Two directory entries (`live`, `tmp`), inodes, and per handler the open file.
`Open` truncates or creates, `Write` writes from offset 0 over whatever another
writer has put there, `Rename` moves whatever `tmp` names by then. A dropped
handler's job runs on (`dropped`). `LockedSave` tells `nodes.json` (saved under
the lock) from `settings.json` (saved after it). A text is abstracted to the
value it starts with and its length, which is what decides whether it parses.
Loss of power (unsynced pages) is not modelled: a crash is that of the process.

### Service

The file of this module is `nodes.json`, whose writers are the refresh loop
(`Loop`) and the handlers that change the list, all under its lock; `Apply` and
`SaveRound` are the loop's save, `Serve` a handler's. `settings.json` is only
whole or torn (`settings`): its unlocked saves (`SaveSettings`) may tear it, as
`TornSettings` shows, `main` cannot start over a torn one, and the operator has
to remove it (`Repair`).

`stage` is where `main` stands between `down` and `serving`: `Start`
(`Config::from_env`), `CheckAuth`, `OpenAuth`, `WriteAuth`, `RestrictAuth` (the
credentials file of `ensure_dirs`), `LoadNodes`, `LoadSettings`, `Bind`. `relay`
and `round` are the two tasks: the relay's ends for good with the first error,
the loop goes through `Fetch`, `Curl` (the fallback), `Parse`, `Apply`,
`SaveRound`, `Sleep`. `EndProcess` takes everything with it, `Die` at any step,
`MainFails` where `main` returns an error, of any step of `ensure_dirs`, of a
file that does not parse, of a taken port. The environment file may change at
any time (`Configure`), also to addresses that do not parse. The credentials are
written only when their file is missing, so a later change of
`OPENVPN_AUTH_USER` or `OPENVPN_AUTH_PASS` (README.md:450) has no effect;
`AuthKept` states the side of this that protects what is there. Handlers run
while the process serves; those dropped over a save are left to `JsonStore`.

### Relay

Per connection a phase, the units its client has sent and the relay has read,
the head buffer, the addresses left, the socket and whether it is bound.
Reading takes any number of available units, so every cut of the stream into
segments is covered. A literal address is dialled at once, a name passes through
`resolve`, where it is on its way to the resolver of the host (`Target`,
`Resolve`). `TunnelChanges` lets the device come and go at any time.
Linux with a device name is assumed; elsewhere `bind_to_device` binds nothing.

### Gateway

`via` is the device a socket is bound to: the session's node, or `Gone` once
that device has gone, for a socket stays bound to a device and not to its name.
`exits` collects the addresses upstream sees. The exit check is a SOCKS client
of the relay (`Check`); one console waits for it before it does anything else
(the `busy` gate of `main.tsx`), so `Control`, the connects and disconnects, is
guarded by `~checking`, while openvpn may die at any time (`Session!Lose`).
`TunnelChanges` of `Relay` is replaced by the session. A check ends by its
answer or its time limit, and its client then closes the connection, if the
relay has accepted one by then (`EndCheck`). Its relay steps are those of
`Relay` by definition, and the theorem `RelayPromises` carries over what is
proved of `Relay` by itself.

### Routes

A catalog is a sequence of rows; a row is its host columns, country, ping, score,
whether its config column decodes, and the config's lines as words, of which a
line may have more than `parse_remote` looks at. `Endpoint` reads the lines in
turn as `parse_remote` does (`Read`), `Id` names the node from it by `Safe`, the
collapse that `safe_id` performs: rows that differ may share an id.
Scores live in a small two's-complement range so that negating the least one
overflows as `-n.score` does in a release build (a debug build panics, not
modelled). The rows that are kept, the candidates of a choice and the ranks of
the stable sort are positions of a sequence, so that what the code filters and
sorts in place needs no recursion here: a node's place in the list is one more
than the number of those before it. `Activate`, `SetStatus` change statuses as
connects and tests do. `PickBest` says what the best allowed node is by the
catalog's ping and score, which is what autoconnect goes by; the console shows
its list in another order (status, measured latency, score: main.tsx:208-218,
or what the user chooses), so the node shown first need not be the one picked.
It excepts a node of the least score, which the overflow puts first.

## 3. Runs

Passing (states and seconds with two workers):

| Run | Shows | Bounds |
|---|---|---|
| `Overlap` | `TypeOK`, `OneActive`, `OwnersKept` | 2 clients, 3 entries of 2 ids, 2 processes, connect and disconnect; crashes, dying processes, failing config writes and spawns (1.3M, 90 s) |
| `Console` | `StatusTruthful`, `RoutedWhenUp`, `CountKept`, `DisconnectStops`, `OneLink` | 1 client and the refresh loop, all endpoints, 2 entries with an id each (one udp, one a favorite), a list that shrinks, 2 processes; dying processes, failing saves, config writes, spawns and `ip` commands (1.3M, 80 s) |
| `Answered` | `TeardownAtomic`, `OwnersKept`, `RequestsReturn` | 2 clients, 1 id, 1 process, connect and disconnect; dropped handlers, failing spawns; fairness (135k, 110 s) |
| `Service` | `ServiceTypeOK`, `AlwaysLoads`, `AtomicSave`, `AuthKept`, `ComesBack`, `KeepsRefreshing` | the loop and 1 handler, both under the lock of `nodes.json`, texts of 2 lengths; full disk, 2 credentials, deaths at every step, failing steps of `ensure_dirs`, taken ports, failing accepts, torn settings; fairness (320k, 100 s) |
| `RelayStreams` | `TypeOK`, `FailClosed`, `StreamIntact`, `OneVerdict`, `RequestsEnd` | 2 connections of all four kinds, 2 payload units, up to 2 addresses, 3 sockets; fairness (1.15M, 150 s) |
| `Gateway` | `TypeOK`, `OneExit`, `ExitHonest` | 2 ids, 1 relay client of any kind and the exit check, 1 payload unit, up to 2 addresses, 3 sockets (530k, 30 s) |
| `RoutePolicy` | `TypeOK`, `EndpointFits`, `PickAllowed`, `PickBest` | all catalogs of up to 3 of 6 rows (repeats included), 2 kept, 6 policies, config lines with proto and remote in both orders, with extra words and without a host (29k, 95 s) |

Why the bounds are enough: the hazards of `Tunnel` are between two requests,
or one request and the refresh loop; two ids tell the connecting node from the
one before it, two processes are one recorded or orphaned and one pending;
`Overlap` needs a third entry to have two of one id and one of another;
`Answered` needs one process only, for what it asks is whether requests wait for
each other. In `Service` the loop and a handler are the two writers that meet,
two inodes are the live and the temporary file, and two lengths are what a text
needs to leave a tail; `TornSettings` has two writers without the lock and four
inodes, one live, one temporary and one per open file. Two connections share the
relay's only common resource, its sockets; two units of payload are one that
comes with the head and one that does not. The order of the list is decided by
pairs, and the third row crosses the limit. In `Gateway` two nodes are the one
a connection was dialled through and the one of the next session. Where a state
space depends on the choice of names only, the cfg names a symmetry; the runs
with liveness use none.

Violations, each of one property the code or its documents state:

| Run | Property | What happens |
|---|---|---|
| `HiddenConnect` | `ConnectingShown` | `connect_node` raises `connecting` and its own `stop_openvpn` lowers it before openvpn is started; the console disables its Connect buttons by that flag |
| `MissedDisconnect` | `DisconnectStops` | a disconnect during a pending connect finds no child, returns, and the session comes up |
| `GhostSession` | `StatusTruthful` | a disconnect takes the lock after a connect has stored its child and before it has reported it; both return, no openvpn runs, the status reports the node as active |
| `TornSettings` | `AlwaysLoads` | two settings requests share `settings.tmp`; the file put in place does not parse and the next start fails |
| `NameLeak` | `NamesKept` | the host name of a request is looked up over the host's own sockets, while the README has the relay's outbound sockets bound to the device |

What else the models have and the properties therefore except, or the passing
runs exclude by their constants:

- two clients and the routing commands: a disconnect inside a pending connect's
  routing steps leaves a tunnel without its route or rule (`Console` with
  `TwoClients`);
- `"route"`: a set-up that fails is ignored, the tunnel is reported connected
  without route or rule (`RoutedWhenUp` without `~unrouted`);
- `"abort"`: a dropped connect leaves an openvpn that no disconnect can stop, and
  a raised `connecting` flag if it had not yet torn down the session before it
  (`OwnersKept` without its exception; `Console` with `"abort"`);
- two connects and a dying openvpn: a store over a live child (`OwnersKept`
  without its second exception);
- a refresh whose save fails, and two refreshes that overlap: the count and the
  list differ until the next refresh (`CountKept` speaks of other steps);
- `"crash"`: the node loaded as active from `nodes.json` has no tunnel (`Console`
  with `"crash"`);
- a dropped handler's file job: it may write into the temporary file of the next
  save, so that even `nodes.json` is torn or old (`JsonStore` with `"abort"`);
- an accept error ends the relay (`AcceptFails`).

### Fairness

Three runs assume any.

- `Answered`: weak fairness of a client's steps: a tokio task that is ready is
  polled, the commands it awaits end, and the wait for openvpn ends by line, end
  of output or `connect_timeout`. Strong fairness of `StopLock` and `Store`:
  tokio's `Mutex` queues its waiters in order, so a request that waits for the
  lock gets it although others keep coming. Nothing is assumed of arrivals, of
  openvpn or of the refresh loop.
- `RelayStreams`: weak fairness of each connection's dial. It runs on the
  blocking pool, where the resolver and `connect_timeout` have time limits.
  Clients owe nothing: a handshake may hang for ever, which is why `RequestsEnd`
  starts at the dial. Nothing is assumed of transfers either: the time limits set
  on the socket do not apply once it is non-blocking (proxy.rs:212).
- `Service`: weak fairness of `Boot`, because the unit says `Restart=always` with
  `RestartSec=5`, which stays below systemd's limit of starts; of `Round`,
  because the loop's fetches have time limits, and of a handler's save, whose
  jobs end; strong fairness of `Apply`, because tokio's `RwLock` serves its
  waiters in order. `ComesBack` asks that deaths and failures of `main` end at
  some time, the addresses are left right and the settings whole.

## 4. Proofs

All hold for any finite set of entries and any ids, processes, connections, rows
and writers, and any clients where no number is named. "Assuming" is a
hypothesis of the theorem about the faults or clients that occur; each is
needed, and section 3 says what happens without. "One saver" is `OneSaver`:
saves run under the lock of the value, as those of `nodes.json` do, and no
handler is dropped over its save.

| Theorem | Property | Assuming |
|---|---|---|
| `TunnelProofs!TypeCorrect` | `TypeOK` | nothing |
| `TunnelProofs!OneActiveHolds` | `OneActive` | nothing |
| `TunnelProofs!TeardownAtomicHolds` | `TeardownAtomic` | nothing |
| `TunnelProofs!CountKeptHolds` | `CountKept` | nothing |
| `TunnelSessions!OwnersKeptHolds` | `OwnersKept` | nothing |
| `TunnelConsole!StatusTruthfulHolds` | `StatusTruthful` | one client, no dropped handler, no restart |
| `TunnelConsole!RoutedWhenUpHolds` | `RoutedWhenUp` | one client, no dropped handler |
| `TunnelConsole!DisconnectStopsHolds` | `DisconnectStops` | one client, no dropped handler |
| `TunnelConsole!OneLinkHolds` | `OneLink` (refines `Link`) | one client, no dropped handler, no restart |
| `JsonStoreProofs!AlwaysLoadsHolds` | `AlwaysLoads` | one saver |
| `JsonStoreProofs!AtomicSaveHolds` | `AtomicSave` (refines `Register`) | one saver |
| `JsonStoreProofs!TypeCorrect` | `TypeOK` of the store | nothing |
| `ServiceProofs!AuthKeptHolds` | `AuthKept` | nothing |
| `ServiceProofs!ServiceTypeCorrect` | `ServiceTypeOK` | nothing |
| `ServiceProofs!ServiceLoads` | `AlwaysLoads`, of the whole process | one saver |
| `ServiceProofs!ServiceSaves` | `AtomicSave`, of the whole process | one saver |
| `RelayProofs!FailClosedHolds` | `FailClosed` | nothing |
| `RelayProofs!TypeCorrect` | `TypeOK` | nothing |
| `RelayProofs!OneVerdictHolds` | `OneVerdict` | nothing |
| `RelayProofs!StreamIntactHolds` | `StreamIntact` | nothing |
| `GatewayProofs!OneExitHolds` | `OneExit` | nothing |
| `GatewayProofs!ExitHonestHolds` | `ExitHonest` | nothing beyond the gate in `Gateway` |
| `GatewayProofs!RelayPromises` | `FailClosed`, `StreamIntact`, `OneVerdict`, of the relay in the gateway | nothing |
| `GatewayProofs!TypeCorrect` | `TypeOK` | nothing |
| `RoutesProofs!TypeCorrect` | `TypeOK` | nothing |
| `RoutesProofs!EndpointFitsHolds` | `EndpointFits` | nothing |
| `RoutesProofs!PickAllowedHolds` | `PickAllowed` | nothing |
| `RoutesProofs!PickBestHolds` | `PickBest` | nothing |

- Types: `TypeInv` adds to `TypeOK` what the labels say about locals, such as a
  target at every step that uses one and a process held where one is used.
- `OneActive` is inductive with the types: a status becomes active only by
  `Activate`, which deactivates all others, and the file gets the list of memory.
- `TeardownAtomic` rests on `LockInv`: the owner of the lock is exactly the
  client inside the locked part of a teardown, and from the kill on the
  recorded child is dead or gone; `Store` waits for the lock.
- `CountKept`: only the two steps of a refresh list or unlist an entry or set
  the count; the others change statuses of listed entries (`SetStatus` keeps
  those that are gone gone), and a restart counts what it loads.
- `OwnersKept` (`OwnersInv`): a `Child` is in a local only at the steps after its
  spawn (`HeldOK`). Every step of a request keeps what it holds and what is
  recorded, takes a new process, kills what it drops, forgets a record whose
  process is dead (by `LockInv`), or is a `Store` (`Keeps`, `Takes`, `Kills`,
  `Forgets`, `Moves`); what remains are the two exceptions.
- For one client `ConsoleInv` says for each label of the handlers who has what:
  a process is held exactly from its spawn to the store, or recorded
  (`HandlesOK`), every process there is is one of these two and runs the config
  of its node (`ProcsOK`), the ready line of one that is up waits to be read
  (`LineOK`), a device that is there when the connect is over has rule and
  route, unless their set-up failed (`RoutesOK`), what is reported is what is recorded (`ReportOK`), and
  what is shown active is reported (`ShownOK`, the one part that restarts
  break, because `nodes.json` brings the mark back). The first three properties
  are what this says at `idle` or after `StopRuntime`.
- `OneLink`: under `ConsoleInv` the session that the mapping looks for among all
  requests is that of the one client (`LinkView`: reported once `active` is set,
  ready from the routing steps on, risen while the line waits). One lemma per
  handler step then shows a step of `Link` or a stutter: `ProcUp` is `Rise`,
  `WaitReady` `Ready`, `Kill` `GiveUp`, `MarkRuntime` `Report`.
- `AlwaysLoads` (`SaveInv`): the live file is a complete text, and whoever owns
  the lock is the only one with a text under way (`Sole`), of the value memory
  holds (`Current`), in a file that is not the live one (`Apart`).
- `AtomicSave`: under the same invariant `Rename` is the register's `Save`,
  `Change` its `Change`, `Crash` its `Restart`, and every other step stutters.
- `ServiceLoads`, `ServiceSaves`: `Service` makes no step on the files that
  `JsonStore` has not, but takes its `Crash` apart, into the end of the process
  and a later load. `ServingInv` says that writers exist only once the tasks are
  spawned, so no save comes between, and the load is the register's `Restart`.
- `AuthKept`: `main` opens the file only while there is none and writes it only
  after having cut it (`AuthInv`), so neither step can meet complete credentials.
- `FailClosed`: a socket past its bind is bound, bytes are written only once
  the dial is over. It is about connections and what they carry; the lookup of a
  name is not one of them and does leave (`NameLeak`).
- `OneVerdict`: what a client has been told is a function of its phase and of
  what it speaks up to the reply (`VerdictInv`); a verdict leaves that stretch.
- The relay's `TypeOK`: an address is left wherever a socket is under way, and no
  socket exists before the dial (`DialTypes`).
- `StreamIntact`: at every phase the head buffer is the stream read so far and
  what is written is `Expected` of it (`Fits`); a read or a write extends both by
  adjoining cuts, which make one cut (`UnitsConcat`).
- `OneExit`, `ExitHonest`: every step of the relay is, for its socket, one of
  five moves (`RelayMoves`). The invariant (`PathInv`) says that a socket is
  bound in its dial only, that a bound socket whose device still exists carries
  the session's node, and that upstream has seen nothing before the dial and
  nothing but that node after it. When the device goes, all sockets become
  `Gone` in one step, and no later session brings one back.
- `RelayPromises`: each action of `Gateway` leaves the relay's variables alone or
  is one of its steps (lemma `RelayKept`): a device that comes or goes is
  `TunnelChanges`, the end of a check `EndInput` of a connection that is live. It
  needs `CheckOK`, that the check's connection exists only during a check. The
  theorems of `RelayProofs` are taken by `INSTANCE` with the gateway's constants,
  which meet the assumptions of `Relay` (`RelayFits`).
- `Routes`: `RoutesInv` says that the list is typed, no longer than the limit,
  in order, and made of rows that have an endpoint (`ListOK`).
  `PickBest`: `Better` is a strict weak order even with the overflow, because
  it compares `Negated` scores (`BetterOrder`); with the position it is total
  (`BeforeOrder`), so ranks are different for different positions and, by
  counting, every rank is taken (`RankOnto`); the sort is by rank (`SortedIs`).
  Statuses do not enter the order, so later steps keep it, and the first of an
  ordered list's candidates is its minimum. A
  node that betters it by ping and true score stands after it only if it has the
  least score itself, where `Negated` departs from the negative
  (`PreferableFirst`).
  `EndpointFits`: after `k` lines what has been read is what the last of them
  say (`ReadOK`), by the least `k` at which it is not (`ReadAll`).
  Induction in both is by a least counterexample: `LeastNat` gets one from the
  well-foundedness of inclusion among finite sets.

Only model-checked are the liveness properties `RequestsReturn`, `RequestsEnd`,
`ComesBack` and `KeepsRefreshing`, which are beyond the prover, and the five
violations of section 3, which are counterexamples. Every other property of a
passing run is a theorem, with two limits: `ServiceLoads` and `ServiceSaves`
need one saver as the run does, and where a theorem assumes a number of clients
or the absence of a fault its run has these constants.

## 5. Not modelled

- Endpoints that read (`status`, `nodes`, `logs`, `health`) and the token check:
  no state. `exit_ip` is the exit check of `Gateway`.
- The log ring: `push_log` appends and cuts to 1000 entries in one section under
  one lock; nothing interleaves and nothing but the log view reads it.
- The parts of `Config::from_env` that only pass a number or a path on: they are
  constants of the models. The HTTP server itself, packaging, scripts.
- Encodings and texts: CSV, base64, the OpenVPN config file, HTTP heads,
  last_message. What decides control (a column that does not decode, a line
  without a host, ids that fall together) is in `Routes`.
- The console's filters, forms and rendering: views of what the server returns.
- The files in `configs/`, of which the code never removes those of failed
  connects and of nodes that have left the catalog; whether a write fails is in
  `Tunnel`.
- What a dropped handler's last `ip` command or file job does to the session
  after the handler is gone; for a JSON file it is in `JsonStore`.
- A credentials file that a crash has left short is never repaired (`AuthKept`
  speaks of complete ones only): openvpn then fails to authenticate until an
  operator removes the file.
- Loss of power: a crash is that of the process, pages written are kept.

## 6. Plan

Done, in this order: the session life cycle, the store it rests on, the relay
that depends on the device, the policy; then the abstract session and the
refinement, the gateway that composes sessions and connections, the life of the
process, endpoints of configs, liveness of the relay, and their proofs. Left:

1. The settings form of the console, which posts everything it has read and so
   may undo a favorite of another tab, and the answer 500 of a settings save
   that failed after memory had changed.
2. A weaker session than `Link` for two clients: what is still true of report,
   record and device when requests overlap, and its refinement.
3. Restarts in `OneLink`: a session that a crash ends, with the mark that
   `nodes.json` brings back as part of the abstract state.
