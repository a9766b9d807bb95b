# Bootforge in TLA+

Bootforge is a PXE boot server: a DHCP proxy that tells a machine which boot
loader to fetch, a TFTP server that hands the boot loader out, an HTTP server
that generates the iPXE script the boot loader runs, and around them a client
registry, a menu resolver, a health checker, a log buffer, an event bus, a REST
API, a configuration loader and a command line.  This directory holds TLA+
models of the parts of it whose correctness depends on the order of events, the
TLC configurations that check them on small instances, and TLAPS proofs of the
properties that matter most (`<Module>_proofs`).  All paths below are relative to `src/`.

## 1. The system

| Component | State it keeps | Operations | Concurrency |
|---|---|---|---|
| `server.Registry` (`internal/server/registry.go`) | clients by MAC, the wildcard client, one-time overrides by MAC | `FindClient`, `ListClients`, `SetBootOverride`, `ConsumeBootOverride`, `Reload`, `UpdateVars`, `UpdateComponents` | every operation is one critical section of an RWMutex |
| `server.MenuResolver` (`menu.go`) | map from entry name to entry | `Resolve`, `FindByName`, `ListAll`, `Reload` | **no lock** |
| `httpboot.MenuScriptHandler` (`menuscript.go`) | none | `ServeHTTP` | one goroutine per request |
| `api.handlers` and `ReloadFn` (`ui/api/handlers.go`, `ui/cli/serve.go`) | none | reload, status, logs, test, ... | one goroutine per request, reloads are not serialised |
| `server.IPXEGenerator` (`ipxe.go`) | none | `Generate`, `GenerateOverride` | pure |
| `dhcp.ProxyServer` (`service/dhcp`) | two UDP sockets, a cancel function | `Start`, `Stop`, `handleMessage` | one goroutine per socket, one per packet |
| `tftp.TFTPServer` (`service/tftp`) | the autoexec configuration | `Start`, `Stop`, `readHandler` | one goroutine per transfer |
| `httpboot.HTTPServer` | the `http.Server` | `Start`, `Stop` | |
| `health.Checker`, `health.ResultStore` (`internal/health`) | the last results | `RunOnce`, `Start`, `Latest`; `Add`, `Latest`, `Recent` | the ticker goroutine and one per API request |
| `store.LogBuffer` (`infra/store/logbuf.go`) | a ring of log entries | `Add`, `Recent`, `Filter`, slog handlers | RWMutex |
| `server.EventBus` (`eventbus.go`) | a slice of buffered channels | `Publish`, `Subscribe` | RWMutex, one goroutine per subscription |
| `server.SessionManager`, `store.MemorySessionStore`, `domain.Session` | a slice of pointers to sessions | `Start`, `Transition`, `FindByMAC` (not modelled), `Active`, `History` | the slice is behind an RWMutex, the sessions are behind nothing |
| `server.ConfigManager`, `server.Server` | current configuration; list of services | `Load`, `Reload`; `Start`, `Stop`, `Reload` | RWMutex / none |
| `infra/toml` | none (files) | `LoadDir`, `WriteConfig` | |
| wizard (`ui/cli/wizard`) | the answers given so far | `Run`, `RunEdit`, `StateToConfig`, `ConfigToState` | sequential |
| probes, preflight, boot file scanner (`internal/health`) | none | `Check`, `RunPreflight`, `ValidateBootFile` | |
| Wake-on-LAN, CLI commands, build info, web assets | none | | |

How they interact.  `runServe` loads and validates the configuration, builds
registry, menus, sessions and log buffer, starts the DHCP proxy (synchronously),
then TFTP, HTTP and the health checker (each in a goroutine), and waits for a
signal.  A machine that boots meets DHCP (`handleMessage` looks the client up for
a boot loader of its own and publishes an event), TFTP (boot loader or a
generated `autoexec.ipxe`), DHCP again as iPXE, and then HTTP:
`GET /boot/{mac}/menu.ipxe` reads the registry, takes the one-time override if
there is one, and resolves the menu.  `POST /api/v1/reload` replaces registry
and menus under the feet of all of them.

## 2. What is hard, and what correct means

The list with a line for each is `hazards` in `PROJECT.json`.  In short:

* **Boot serving and hot reload.**  Registry and menus are two structures, one
  locked and one not; a request reads them in up to four separate steps and a
  reload writes them in as many.  Correct means: a one-time override is used at
  most once and never lost without a reason; a request is answered from one
  configuration; a reload ends with one configuration; a reload never takes the
  server down; everything that is asked is answered.
* **Health.**  Several probe runs at once (ticker, `/api/v1/test`): the results
  are filed in the order the runs end.
* **Event bus.**  Publishers iterate over the subscribers while subscriptions
  come and go and channels are closed: no send on a closed channel, no
  subscriber skipped, a slow one never blocks anybody.
* **Log buffer and result store.**  Two bounded stores with different
  implementations (ring and slice) of one promise: the last n entries.
* **Sessions.**  Pointers are shared with everyone who asked for them.
* **Life cycle.**  Starts that fail half-way, the shutdown order.
* **Boot chain.**  Packets that are repeated, lost or handled out of order, and
  late ones of an earlier power cycle; the change from firmware to iPXE; two ways to
  one menu (the DHCP reply and `autoexec.ipxe`).
* **Scripts.**  Labels that are jumped to but not defined, an entry that runs into
  the next one, URLs no route serves.
* **Configuration files and wizard.**  What a write and read back loses; a process
  that dies between two file operations while a server may load the directory.

## 3. The modules and the code

| Module | Models | Composes |
|---|---|---|
| `BootServing` | registry, menu resolver, script handler, hot reload | implements `OneTimeOverride` |
| `LogBuffer`, `Health` | ring of log entries; checker, store, test handler | implement `RecentEntries` |
| `EventBus` | publishers, subscriptions, the RWMutex | |
| `Sessions` | session manager, store, API handler | |
| `BootChain` | a machine from power-on to its operating system; DHCP, TFTP, HTTP | `IPXEScript`, the registry part of boot serving |
| `IPXEScript` | the scripts, command by command | |
| `Lifecycle` | `serve` from its preflight checks to its end | `BootFile` |
| `BootFile` | validation of a boot loader's header | |
| `Setup` | `init` and `edit`, their draft and their file operations | `ConfigFiles` |
| `ConfigFiles` | `LoadDir`, `Validate`, `WriteConfig` | |

`MC...` gives the constants of a module values; `..._proofs` holds its theorems.
Modules also contain definitions marked `Slip`: a plausible mistake in one
definition, which a property is known to catch when it takes that definition's
place.  No action and no specification uses them.

### 3.1 Boot serving: `BootServing`, `OneTimeOverride`

| In the module | In the code |
|---|---|
| `clients`, `wildcard`, `overrides` | `Registry` fields, `internal/server/registry.go:13` |
| `menus` | `MenuResolver.menus`, `menu.go` |
| `disk` | the configuration directory, as `toml.LoadDir` returns it; `Unloadable` stands for one it rejects |
| `pc`, `mac`, `client`, `override`, `result`, `answer` | the locals of one run of `MenuScriptHandler.ServeHTTP` per element of `Requests` |
| `rpc`, `newCfg`, `todo` | the locals of `ReloadFn` (`ui/cli/serve.go:161`) per element of `Reloads` |
| `Arrive`, `RejectMAC`, `Find`, `Consume`, `FindByName`, `Resolve` | the stretches of `ServeHTTP` between two points where another goroutine can come in |
| `Load`, `ReloadRegistry`, `ReloadMenus`, `FillMenu`, `EndReload` | `ReloadFn`, `Registry.Reload`, `MenuResolver.Reload`, `handleReload` |
| `FatalMapRace`, `Restart` | the Go runtime's check for concurrent map access; the next start of the process |

A step is one critical section of `Registry.mu` or one access to the resolver's
map, because nothing protects that map.  An iPXE script is represented by the
menu entries it is made of; what commands they become is `IPXEScript`.

`issued`, `served`, `gone`, `quiet`, `mixed` are history variables that no guard
reads.  `OneTimeOverride` is what the server promises of overrides, without
requests or reloads: an override waits in a slot, is taken by one request, and is
served or given up.

### 3.2 Log buffer and result store: `RecentEntries`, `LogBuffer`, `Health`

`RecentEntries` is the promise both stores make: the last `Size` entries in
order.  `LogBuffer` is the ring (`infra/store/logbuf.go`): `Add` is one step (it
holds the lock), the slog handler chooses service, level and MAC, and the two
readers `Recent` and `Filter` are operators on the state.  The entries' text and
time are left out; nothing in the buffer looks at them.

`Health` is the checker (`internal/health/checker.go`), its store (`result.go`)
and the API's test handler.  A probe is a look at a target that changes at any
time, one step per probe; `aggregate` and `ResultStore.Add` are steps of their
own, so that two runs overlap in every way.  `Tick` models the ticker's channel of
capacity one, `SelectTick` and `SelectDone` the two cases of `Start`'s `select`.

`RecentEntries` allows stuttering, so a store that silently drops an entry would
refine it as well; that nothing is dropped is what `RecentAnswers` (the window
moves with every `Add`) and `FaultReported` show.

### 3.3 Event bus: `EventBus`

| In the module | In the code, `internal/server/eventbus.go` |
|---|---|
| `subscribers`, `channel`, `closed` | `EventBus.subscribers` and its channels |
| `Publish`, `RLock`, `Send`, `RUnlock` | `EventBus.Publish`, one `Send` per turn of the loop (a publisher may be suspended between two) |
| `Subscribe`, `Join` | `EventBus.Subscribe`: the call to `Lock`, and the critical section |
| `Cancel`, `Unsubscribe`, `Leave` | the cancelled context and the goroutine that ends the subscription |
| `Receive` | the owner of the channel |

Slices are modelled as Go has them, a place in `arrays` and a length: `append` writes
into the array if there is room (`AppendOne`), the `append` that takes a subscription
out moves the others down in the array itself (`Remove`), and a publisher's loop ranges
over an array others may share (`Enter`, `Send`).  A publisher that met a writer in
its loop would skip a subscriber, or serve one twice; `LeaveUnlocked` is that mistake.

The RWMutex is Go's.  A writer announces itself (`Lock`) when no other has; from then on
readers that call `RLock` are `blocked`, and the writer waits for those inside; when it
is done (`Unlock`), the blocked readers are let in before the next writer.  A `Send` on
a closed channel sets `panicked`, after which nothing happens.  Publishers publish
without end: after the `Last[p]`-th, the events of publisher `p` all have that number,
so that the readers' turns never run out.  `got` and `due` are history.

### 3.4 Sessions: `Sessions`

The store is a slice of pointers that everybody shares, so a session changes while
a reader that holds the store's lock looks at it.  `Check`, `SetState` and
`AddEvent` are the three things `Session.Transition` does: find the transition
allowed, write `State`, append the event.  `AskActive`, `LookAt`, `FindActive` and
`Respond` are `handleSessions`: `FindActive` looks at one session after the other,
and what is written of each is what it is by then.  `History` is an operator.  A session has one driver, the goroutine that started it, as the manager
is meant to be used; nothing in the program starts one yet.  A transition has a
`detail`, which may be empty, and the error of a session that fails is that detail.

### 3.5 Boot chain: `BootChain`, `IPXEScript`

| In the module | In the code |
|---|---|
| `boot` | what the DHCP proxy and the TFTP server were built with; a reload does not change it |
| `clients`, `overrides`, `menus` | the registry and `MenuResolver.menus` |
| `packets`, `replies` | what is on the network: sets that only grow, and of which any element may be handled, again or never |
| `handleMessage` and what it calls | `internal/service/dhcp/proxy.go`, `offer.go` |
| `ReadFile`, `serveAutoexec` | `internal/service/tftp/server.go` |
| `ServeHTTP`: `Ask`, `TakeOverride`, `ServeOverride`, `Resolve`, `ServeScript` | `menuscript.go`, one step per access to the registry or the menus; `client`, `taken`, `found` are its locals |
| `Reload`: `BeginReload`, `EmptyMenus`, `FillMenu`; `reload` | `ReloadFn` per element of `Handlers`: the clients, an empty map of menus, an entry at a time |
| `OverrideLost` | a boot request the machine does not wait for, which consumes the override |
| `LoadFile`, `ChainTo` | the routes of `routes.go` |
| `stage`, `power`, `file`, `loaders` | a machine (external): firmware, then iPXE |
| `script`, `at`, `chosen`, `returned`, `image` | iPXE executing a script (external) |
| `loaded` | history: the configurations that the clients and the menus may be of |
| `since`, `met` | history: the configurations served since the machine was switched on; whether its boot request has met a reload, what one has left behind, or the death of the server |

`PowerOn` starts a new power cycle; requests carry a transaction id of their power
cycle and stage, and a machine takes replies with its own id only, so that late
answers to an earlier cycle are there and are ignored.  A request that meets a reload
finds what is there at each step: the client of one configuration and the entries of
another, or no entry yet, which is answered 500; TLC reaches both in `boot_chain`.
`Noise` is what others send:
packets that are not for PXE, of an unknown architecture, of another type, and old
ones of the same machine.

`IPXEScript` has an operator per function of `internal/server/ipxe.go`; a script is
a sequence of commands, and a jump looks its label up from the top, so that a label
that is missing, or one that two parts of the script define, has the effect it has in
iPXE.

### 3.6 Life cycle: `Lifecycle`, `BootFile`

| In the module | In the code |
|---|---|
| `RunPreflight`, `PreflightDone` | `health.RunPreflight`, one step per check, and what `runServe` makes of the result |
| `ListenDHCP`, `ListenProxy` | `dhcp.ProxyServer.Start`, which `runServe` waits for |
| `StartTFTP`, `StartHTTP`, `Listen` | the goroutines of the other two services, and their `ListenAndServe` |
| `LookAtContext`, `ReadPacket` | the loop `serve` of the DHCP proxy |
| `Notify`, `Signal`, `Cancel`, `Shutdown`, `Timeout`, `Drained`, `Return` | the end of `runServe`, `HTTPServer.Stop` and the five seconds it waits |
| `OpenPort`, `ClosePort` | other processes, which take a port for all addresses or for one |
| `host` | the interface, the data directory, the certificate and key of HTTP, the right to bind a socket to a device, the boot files |
| `MayFail`, `MayBind`, `Unserved` | a bind that fails for the port or for `SO_BINDTODEVICE`; `ListenAndServeTLS` without a usable certificate |
| `disturbed`, `late` | history |

`BootFile` is `ValidateBootFile` with its look at the MZ and PE headers; of a file
counts how long it is and what is where the header says.

### 3.7 Wizard and configuration files: `Setup`, `ConfigFiles`

`ConfigFiles` has an operator per function of `internal/infra/toml` (and
`FullConfig.Validate`): a file is what the parser finds in it, with options that may
be absent.  Texts that are only copied are abstract.  `Setup` is the wizard: a step
is one question with all that follows from its answer (renaming a menu entry renames
it for the clients), or one operation on a file.  `os.WriteFile` is two steps, since
it empties the file first; the process may die between any two, and a server that
loads the directory may do so after any of them.  A write may fail and leave nothing
or a first part.  The directory may be split over files, and `[server]` may be in any.

Both modules give the types of the code: `rawFile` (what a file may hold, with options
that are missing and values the parser refuses), `fileResult` and `FullConfig` (what is
made of it), `WizardState` (the draft).  `Word`, the texts of a file, and `ParseMAC`, a
function from texts to MAC addresses, are constants; MACs may have several spellings.

## 4. The runs

| Run (distinct states) | Instance | Shows |
|---|---|---|
| `boot_two_requests` (634 000) | two requests of one MAC, one reload, two overrides, two configurations, deaths and restarts | an override is in one place and never vanishes; the registry implements `OneTimeOverride` |
| `boot_reloads` (67 000) | one request, two reloads | a lone reload leaves one configuration (`LoneReloadSettles`); an undisturbed request is answered by one configuration (`QuietAnswer`); every request is answered |
| `log_buffer` (5 300) | a ring of three, two MACs, two services, two levels | the ring is a log of the last three entries; `Recent` and `Filter` answer with the newest ones, for every limit |
| `health` (808 000) | two probes of targets that come and go, the ticker and a slow test handler, a store of two | a result is honest; the store is a log of the last results, in the order they were added, and the oldest goes first; a lasting fault is reported for good; the checker stops |
| `eventbus` (177 000) | two publishers without end, one of which numbers its events, two subscriptions with room for one event that need not receive | events arrive once and in order; nobody misses one because of another; no send on a closed channel; `Publish` returns; a cancelled subscription is closed |
| `setup` (1 101 000) | an empty directory, a hand-written file and one with a typo, and three directories split over two files, with `[server]` in either; two answers in any section, saved or not; deaths and full disks | no client refers to an entry that is gone; what is saved is what is edited next; the last complete file is never lost; a server loads all or nothing, but for one case (`EmptiedLoads`) |
| `boot_chain` (420 000) | a machine, two configurations, two changes of the server (reload, death, override), other machines' packets and a late one of its own | its own boot file, once; its own script, whichever way it gets there, of one configuration unless its request meets a reload; it boots what was chosen; it gets its script in the end unless its request meets a reload |
| `lifecycle` (673 000) | four configurations, one with TLS, a host that lacks nothing or one of the interface, the certificate and the right to bind to a device, nine kinds of boot file, two requests, a port that is taken before or meanwhile, a signal at any time | what passed checks promise; ports are not shared; requests are drained; a listener ends; services come up; a signal ends the program |
| `sessions` (225 000) | two machines, two sessions, one listing after the other | the list names the right sessions; state, events and error agree; history is the newest first; the end is the end |

The bounds.  Two actors of a kind are what every hazard in section 2 needs: two
requests that race for an override, two reloads that overlap, two runs that file
results in the wrong order, two publishers, two sessions.  The two configurations of
the boot serving runs differ in every respect a reload can change: clients, wildcard,
an enabled flag, which entries exist and what they mean.  A ring of three is the
smallest that is empty, filling, full and wrapped at distinct positions.  A store of two
results shows which of them goes.  The bus has one publisher whose first event differs
from the rest, so that an order can go wrong, and two that never stop, so that a writer
can be kept out.  In
`boot_chain` one machine is enough, since machines meet only through packets, and
those of others are `Noise`; the packet of an earlier power cycle is there as well,
so one power cycle shows what two would.  Its entries are of every kind the generator
distinguishes.  One handler reloads there (`Handlers`); `boot_reloads` has two, which
overlap.  `MaxAnswers = 2` in `setup` lets one change undo or disturb another.
The header of 8 units in `lifecycle`, with its end of the PE offset at 3, stands for
4096 and 64 bytes: a file may end, and the PE header lie, before, at and behind each.
`MaxOverrides`, `MaxTime`, `Last`, `MaxChanges`, `MaxPower`, `MaxTaken`,
`MaxAnswers` and `MaxSessions` bound counters that nothing in the code bounds; the
proofs do without small values of them.

Deadlock is checked where the system can always go on.  It is switched off for the
event bus (a panic ends it), the wizard, the boot chain (the machine has booted), the life cycle (the
program has ended) and the sessions (all have ended).

### Fairness

*Boot serving.*  A goroutine that is inside a request or a reload goes on
(`WF` of `ServeStep` and `ReloadStep`): there is no lock it could wait for
forever, `Registry.mu` being held for single map accesses.  Nobody is assumed to
boot, reload or edit.

*Health.*  Weak fairness of a run under way (probes have timeouts), of the ticker
and of `SelectTick`; strong fairness of `SelectDone`.  When a tick and the end of
the context are both ready, Go's `select` chooses at random, so the end is not
passed over forever; weak fairness would not do, since `SelectDone` is not enabled
while a run is under way, and with a run longer than the interval a tick is ready
every time.

*Event bus.*  Goroutines that can take a step do.  That readers who come after a writer
has announced itself are blocked is in the guards, and it is what lets `CancelCloses`
hold although publishers never stop: without it (`PublishBarging`) readers that hold the
lock in turn keep a writer out forever.

*Boot chain.*  A machine repeats its packets (`WF` of `Discover`) and one gets
through in the end; the answer, the transfer and the request succeed if they are
possible again and again (`SF` of `UseReply`, `ReadFile`, and of the steps of
`ServeHTTP` together: firmware and iPXE retry, and the server may be down in between,
but iPXE gives up on a request that is answered 500 or cut off, which `met` says); who runs the server starts it
again (`WF` of `Start`).  Nobody is assumed to reload or to choose.

*Life cycle.*  `runServe` and the goroutines that start listening go on, and five
seconds pass.  Packets, requests, answers, signals and other processes owe nothing:
`ShutsDown` holds with a request that hangs and a listener that waits for a packet.

### Where documentation and code part

Three runs show the code doing something its documentation or a test excludes.
`PROJECT.json` quotes the lines.

* `boot_map_race`: `MenuResolver` has no lock.  A reload writes the map a request
  reads, which the Go runtime may end the process for, although a reload is
  documented as needing no restart.
* `boot_lost_override`: a request that meets a reload half-way deletes its
  override, fails to find the entry, and answers with the normal menu or a 500.
* `setup_split_edit`: `edit` writes the merged configuration into `bootforge.toml`
  and leaves the other files: their menus and clients are defined twice, and the
  directory the wizard has just saved is rejected.  `EditLoads` proves that this does
  not happen to a directory with one file.

Other things met while reading, which no run is about; those that concern a property
are in its statement or its assumptions:

* Two overlapping reloads leave a mixture of two configurations
  (`LoneReloadSettles` is about a reload that overlaps none), and results are stamped
  before they are added, so `ResultStore.Latest` may return an older one than it holds.
* A boot request that meets a reload may be answered 500, after which iPXE gives up, or
  with entries of two configurations (`GetsScript` and the second part of `OwnScript` are
  about requests that meet none).
* In a directory whose `[server]` is in another file, an `edit` that dies after
  emptying `bootforge.toml` leaves a directory that loads, without what that file had,
  and the next `edit` copies the empty file over the backup (`EmptiedLoads`, which
  `LastGoodKept` and `LoadsWhole` except; without it TLC violates both in `setup`).  The
  layout at README.md:333, which has no `bootforge.toml`, is not that case: nothing is
  lost there, but what `edit` saves has a second `[server]` and is rejected.
* The backup's own failure is not looked at, so that a full disk can leave both files
  empty (`failed`, excepted likewise).
* No preflight check looks at the certificate and key of HTTP or at the right to bind to
  the interface: after "All checks passed" HTTP may fail, with a line in the log, or the
  program ends (`PassedAndQuiet` and `StartsUp` name both).
* `stepNetboot` with "skip" takes the entry from a client's list and leaves it as its
  default; `StateToConfig` enables every client and drops variables, boot files, TLS
  and the chain URL; the self-hosted netboot entry has an HTTP path no route serves.
* `FindByMAC` of the manager promises the active session (session.go:56); the store's
  returns the newest, ended or not (store/sessions.go:44).  Nothing calls it, and it is
  not modelled.  A session may be listed as active with the state `done`, as it has ended since.
* "Services running:" is printed although a service has failed; the shutdown stops
  HTTP only; a BIOS boot file that is a PE binary of any architecture passes.
* `autoexec.ipxe` uses the first network card's MAC, so a machine that boots from
  another one gets the menu of another client (`OwnScript` is about the first).
* A chained image that comes back lets the script go on with the next entry
  (`ChosenRuns` excludes it), and a menu entry that is named `failed` takes the place
  of the script's own label, so that Escape boots it (`NoEntryFailed` excludes it).

## 5. What is proved

The proofs hold for every value of the constants that satisfies the named
assumptions:

* `BootServing`: configurations are what `LoadDir` and `Validate` accept
  (`ConfigAssumption`: every entry a client names is defined), the markers for "no
  client" and "unloadable" are no clients or configurations (`ModelValueAssumption`).
* Requested sizes of the log buffer and of channels are integers, of any sign
  (`BusAssumption` for the bus, where `Last` is a natural for each publisher and `Nobody`
  no subscription).
* `Lifecycle`: `ConfigAssumption` and `FileAssumption` give the types of
  configurations and files (whether HTTP has TLS among them), `BoundAssumption` says that bounds and sizes are naturals.
* `BootChain`: `ConfigAssumption` gives the shape of a configuration (a menu is found
  under the name it has, the wildcard client is asked for, a client's entries are a
  list of names); `NoiseAssumption` says that the old packets on the network carry no
  transaction id of a power cycle that is still to come, `BoundAssumption` that the
  bounds are naturals.
* `Sessions`: the bounds on sessions and on the limit of `History` are naturals
  (`SessionsAssumption`); a transition may have no detail (`DetailAssumption`).
* `Setup`: `DirAssumption` says that a file of the directory is missing, cannot be
  parsed, or is any `rawFile`; nothing is assumed about what its menus and clients are
  or refer to, or which file has which section.  `AnswerAssumption` says that users type texts, and
  that the wizard's own texts are texts.  `MACAssumption` says that a MAC the writer has
  printed is parsed as the same MAC; the wildcard is printed as `*`.  `ValueAssumption`
  says that nil, what cannot be parsed and the error of `LoadDir` are no values of the
  types.
  The conditions of its theorems are in their statements: `SingleFile` (no other `.toml`
  file, as `init` leaves it) in `SavedComesBack` and `EditLoads`, and in `NothingLost`
  and `NothingHalf` that no write has failed and that the directory does not load both
  with what `bootforge.toml` held last and with that file emptied (`EmptiedLoads`).  A
  directory whose `[server]` is in `bootforge.toml` cannot be in that state, nor can one
  of a single file, or one that had no `bootforge.toml` until `edit` wrote a second
  `[server]` into it.

Loops.  Loops of the code over a slice are recursive functions (`Keep`, `Take`,
`Filter`) or folds (`FlattenSeq`), and what they return, for a slice of any length, is
proved by induction.  The library's induction theorems take a predicate as a parameter,
which the provers cannot instantiate; `Induction` says the same with a set in its
place, the naturals that have the property, and follows from the well-foundedness of
`<` on the naturals (`WFMin`).  `LoopRuns` shows with it that a function with the
equations of such a loop exists, so that the `CHOOSE` a recursive definition stands
for has them too.  Modules with theorems are few, so each proof module that needs
these lemmas has its own copy.

The arguments:

* `BootServing_proofs`.  `TypeCorrect`: the types alone are not inductive, since a
  `FindByName` step needs to know that the request has an override in hand and a
  `FillMenu` step that its configuration was accepted; `LocalsInv` says so.
  `OneTime` proves that an override is in one place and none vanishes, from the
  inductive `OverrideInv == TypeOK /\ LocalsInv /\ OverrideInOnePlace /\
  NoOverrideVanishes`.  `Refinement` maps every step to a step of
  `OneTimeOverride` or a stutter.  `LoneReload` uses `LoneReloadInv`: when no
  overlap has occurred, at most one reload is under way, and at each of its
  program points what it has written is what the new configuration says.
  `QuietRequests` uses `QuietInv`: what an undisturbed request has read is still
  so, because the first step of any reload removes it from `quiet`.
* `LogBuffer_proofs`.  `RingInv` (until it is full the ring is filled from the
  front, so unwritten slots are those from `pos` on) gives `TypeCorrect`, then
  `RecentIsNewest` and `Refinement`, for a ring of any size.  Index arithmetic
  modulo a symbolic size is reduced to "wraps once at most" (`Wrap`).
  `FilterIsFirstMatches`: after each slot the loop of `Filter` has looked at, what it
  has found are the first matches among the entries passed, oldest first, and no more
  than the limit (`LookKeeps`).
* `Health_proofs`.  `TypeCorrect`; `Honesty` from `RunsInv` (every check a run has
  made is one of the values its target has had since the run began); `Refinement`
  of `RecentEntries`.
* `EventBus_proofs`.  `TypeCorrect`; `SliceExact` and `NoPanic` from
  `SafeInv == TypeOK /\ BusInv /\ NeverPanics`: a writer is alone, so that the slots a
  publisher's loop has yet to come to stay as they are, although the array is shared.
  `AppendAdds` and `RemoveRemoves` say what the two `append`s do to an array.
  `InOrder` from `OrderInv`: what a channel holds of a publisher is older than its
  current event, unless the loop has passed that subscriber, which is in the slice once.
  `NoneMissed` from `DueInv`: a publisher owes its event to those subscribed since it
  called `Publish`, and they are ahead of the loop.
* `Sessions_proofs`.  `RightList` from `ScanInv`: what `FindActive` has passed it has
  sorted rightly as of then, and a session that has ended never comes back.
  `TrueStory` from a description of the events by the state alone (`StoryInv`,
  `StoryImplies`): the state machine has no cycle, so the place of a state in the list
  is bounded and none comes twice.  `EndsForGood` is an action property from the same
  invariant.  That the error is the detail of the event that ended a session, and empty
  otherwise, is part of the description.  `HistoryNewestFirst` is about the answers
  `History` gives in a state: `TakeKeeps` says what the loop has taken after it has looked back over
  some sessions, by induction on their number.
* `BootChain_proofs`.  `SinceInv` (what is served is in `since` of every machine that
  is on) and `NetInv`: a packet or a reply that carries the current transaction id of
  a machine was made in this power cycle, by this machine, for its architecture, and a
  reply's boot file is that of a configuration in `since`.  Then `RightBootFile`
  and `OneLoader` (a machine that runs iPXE takes replies to iPXE only, which name
  the menu).  `RightScript` needs `FetchInv` (the menu a machine fetches is its own),
  `LoadedInv` (the clients are those of a configuration in `loaded`, each entry of the
  menus is as one in `loaded` has it, and a reload under way fills in one of them) and
  `RequestInv`: at each point of `ServeHTTP` the client is one of a configuration of the
  power cycle and what has been resolved are its first entries, each as some
  configuration of the cycle has it, all as a single one if the request has met no
  reload, since then nothing has changed under it.  Reloads, deaths, lost and repeated packets are in the steps of these proofs.
  `ChosenIsRun` holds for menus of any length and any mixture of entries.  First the
  text: `MenuMade` shows what the generator's loop makes of a menu, block by block;
  `MenuLabels` and `MenuPlaces` say where the labels and the commands of its script
  are, and `MenuGoesOn` which command may follow which.  Then the run: `RunInv` says
  that, unless something chained has come back, a machine is at a command of the entry
  it has chosen, and that what it has loaded is of the entry whose command it has come
  to; `MenuStep` and `SingleStep` (a script without a menu) keep it, command by command.
* `Lifecycle_proofs`.  `StageInv` (what is bound, and what a goroutine is doing, at
  each point of `runServe`) gives `Unshared`; `ChecksHold` needs what the checks that
  have passed say of the host (`PassedInv`) and that nobody disturbs it (`QuietInv`);
  `RequestsDrained` uses `DrainInv`, `LittleLate` uses `LateInv` (a listener that has
  taken a packet since the context ended looks at it next).
* `Setup_proofs`.  `NothingLost` and `NothingHalf` from `FileInv`: without a failed
  write, and outside `EmptiedLoads`, `bootforge.toml` is complete or empty; it is
  complete while questions are asked, because `edit` does not start on a directory that
  does not load (`EditStarts`) and `init` does not start on one that has the file, unless
  there was none to begin with; and it is emptied only when the backup is the same or
  there was nothing to lose.  A directory that loads only with the file emptied
  (`Useless`) is never edited.  Which of these a directory is depends on the other files,
  which are never written, and on `good` (`SameRest`).
  `ReferencesHold` needs `DraftInv`: the draft's menus and clients are lists, every
  client refers to menus of the draft, and each file of the directory can be parsed.
  A draft comes from `DefaultState` or from a configuration `LoadDir` has accepted
  (`Merged`, `Loaded`: `merge` concatenates the lists of the files and checks the
  references of all clients against the names of all menus), and each question keeps
  it: renaming carries the references along, removing a menu or replacing netboot.xyz
  takes them out, and a client is given what is selected from the menus there are.
  What the wizard writes is again a file that can be parsed (`RawOfDraft`), so that
  the argument goes through any number of sessions.
  `TypeCorrect` (whose `TypeOK` is in no run) follows the values instead of the
  references.  A file that is not
  malformed parses to a `fileResult` (`ParsedType`: this is where an option that is
  missing gets its default and a spelling becomes a MAC), what `merge` makes of those is
  a `FullConfig` (`MergedType`), its draft is a `WizardState` (`DraftType`), every
  question keeps that (`QuestionType`), and what is written of it is a `rawFile`
  (`WrittenRaw`).
  `SavedIsRead` is the round trip, for any draft of these types.  `RawOf` says what
  `WriteConfig` writes of a draft, `ReadBack` that it parses and nothing in it is
  changed, `MergeableBack` that `merge` refuses it for a menu or a machine that is there
  twice and for nothing else, `LoadWritten` and `ReadDraft` what `LoadDir` and then
  `ConfigToState` make of it.  That is not the draft that was saved: a service that is
  off may lose its port, a MAC its spelling, a `data_dir` becomes absolute, and an entry
  loses the parameters its type has no use for.  `SameBoots` says that none of this
  changes what a machine gets, `SameFile` that it is written the same again (for each
  part: `DHCPBack`, `DirBack`, `MenuBack`, `DraftClientBack`).  The inductive invariant
  `BackInv` ties this to the states: `SavedInv` says that `good` is what was written of
  `saved`, `DraftInv` gives the references `merge` checks, and a state in which
  `SingleFile` holds has nothing else to load.

Only model-checked:

* everything under fairness, which the prover does not cover: `RequestAnswered`,
  `FaultReported`, `CheckerStops`, `PublishReturns`, `CancelCloses`, `GetsScript`,
  `StartsUp`, `ShutsDown`;
* the runs that show a disagreement.

## 6. What is not modelled, and what is left

`PROJECT.json` gives a reason for every component that is not modelled.  In short:

* code nothing calls: `Server.Start`, `Stop` and `Reload`, `ConfigManager`, the `Stop`
  of DHCP and TFTP, `RenderTemplate`, `UpdateVars`, `UpdateComponents`;
* the probes, which are I/O without state (what is made of their results is
  `Health`), and the preflight searches that only warn;
* Wake-on-LAN, the command line client and its one-shot commands, the handlers that
  format what another component returns, downloads, build information;
* within the modelled parts: blocks of a TFTP transfer and the parsing of packets and
  of TOML, which belong to libraries; two drivers of one session, which would be a
  data race of the caller; the wiring of the health checker into the API.

Five hazards have no property, with the reason in `PROJECT.json`: what `StateToConfig`
drops, a backup that fails, an emptied `bootforge.toml` that nobody notices, the first
network card of `autoexec.ipxe`, and the unsynchronised `apiDeps.Health`.

What could come next: two machines in `boot_chain`, whose state space is too large for
a short run.
