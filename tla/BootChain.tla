-------------------------------- MODULE BootChain --------------------------------
(***************************************************************************)
(* A machine boots from the network: the DHCP proxy names a boot loader to *)
(* its firmware, TFTP delivers it, the boot loader is iPXE and asks DHCP   *)
(* again or takes autoexec.ipxe from TFTP, is sent to its menu script over *)
(* HTTP, and runs it.  Meanwhile the server is reloaded, dies, restarts.   *)
(*                                                                         *)
(* What the server answers a boot request with it looks up bit by bit, and *)
(* a reload replaces it bit by bit: requests and reloads are taken apart   *)
(* here as they are in BootServing.                                        *)
(*                                                                         *)
(* Packets and replies, once sent, can be delivered at any later time, any *)
(* number of times and in any order, or never: nothing is ever taken out   *)
(* of the sets that hold them.                                             *)
(***************************************************************************)
EXTENDS IPXEScript

CONSTANTS Machine,      \* MACs of machines that boot from the network
          Arch, ArchOf, \* architectures a packet can name; a machine's own
          Net0,         \* the MAC of a machine's first network card
          Noise,        \* packets of others on the network
          Config,       \* what LoadDir can return
          NoClient,     \* no client is found
          Files,        \* what is in the boot loader directory, and
          Routes,       \* below the data directory: the URLs /data/ serves
          Handlers,     \* goroutines that answer reload requests
          MaxPower,     \* bound: how often a machine is switched on
          MaxChanges    \* bound: reloads, restarts and overrides

\* Packets that are under way with the MAC of a machine are older than its first power
\* cycle here.
ASSUME NoiseAssumption ==
  \A p \in Noise : p.mac \in Machine => p.xid \in {<<0, "">>, <<0, "iPXE">>}
ASSUME BoundAssumption == MaxPower \in Nat /\ MaxChanges \in Nat

\* A configuration: boot has the boot file of each architecture (files, "" for none),
\* the chain URL (chain, "" for none) and http, whether HTTP is enabled; clients maps
\* MACs, and "*", to a client or NoClient; menus maps names to menu entries.
ASSUME ConfigAssumption ==
  \A c \in Config :
    /\ \A name \in DOMAIN c.menus : c.menus[name] \in Entries /\ c.menus[name].name = name
    /\ "*" \in DOMAIN c.clients
    /\ \A mac \in DOMAIN c.clients :
         c.clients[mac] # NoClient => c.clients[mac].entries \in Seq(STRING)

VARIABLES boot,      \* the bootloader configuration runServe has started with
          clients,   \* the registry's clients, and its wildcard
          menus,     \* MenuResolver.menus
          up,        \* the server runs
          overrides, \* Registry.overrides: MAC -> entry name, or "" for none
          reload,    \* what each reload is at, and has still to fill in
          loaded,    \* history: the configurations that clients and menus may be of
          packets, replies,
          since,     \* history: boot and loaded since a machine is on
          changes

\* Of each machine: what it does, how often it was switched on, the boot file it was
\* given, the boot loaders it has got, and the script that iPXE runs.
VARIABLES stage, power, file, loaders, script, at, chosen, returned, image

\* Of each machine's boot request: the locals client, overrideName and entries of its
\* goroutine; history: it has met a reload, or its end, or the death of the server.
VARIABLES client, taken, found, met

contents == <<clients, menus, reload, loaded>>
server == <<boot, up, overrides, contents>>
net == <<packets, replies>>
run == <<script, at, chosen, returned, image>>
request == <<client, taken, found, met>>
machine == <<stage, power, file, loaders, run, request>>
vars == <<server, net, machine, since, changes>>

MACs == Machine \cup {Net0[m] : m \in Machine} \cup {p.mac : p \in Noise}
None == <<>>                      \* no boot file
File(f) == <<"file", f>>          \* a boot file, by TFTP
Menu(mac) == <<"menu", mac>>      \* the chain URL with its variables replaced

-----------------------------------------------------------------------------
(* The DHCP proxy.                                                         *)

FindClient(map, mac) ==
  IF mac \in DOMAIN map /\ map[mac] # NoClient THEN map[mac] ELSE map["*"]

\* The client's own boot file goes before the one for everyone.
FileFor(b, map, mac, arch) ==
  LET c == FindClient(map, mac)
  IN  IF c # NoClient /\ c.loader[arch] # "" THEN c.loader[arch] ELSE b.files[arch]
bootfileForClient(b, map, mac, arch) ==
  IF FileFor(b, map, mac, arch) = "" THEN None ELSE File(FileFor(b, map, mac, arch))

resolveChainURL(b, mac) == IF b.chain = "" THEN None ELSE Menu(mac)

\* Option 93 is there and names a known architecture.
ArchFromOption93(p) == p.arch \in Arch

\* Slip: the spelling.
isIPXEExact(p) == p.userClass = "ipxe"

\* Option 77: the packet is of iPXE, not of the firmware.
isIPXE(p) == p.userClass = "iPXE"

\* Slip: the client's own boot file is not looked for.
BootfileGlobal(p) == IF isIPXE(p) THEN resolveChainURL(boot, p.mac)
                     ELSE File(boot.files[p.arch])
Bootfile(p) == IF isIPXE(p) THEN resolveChainURL(boot, p.mac)
               ELSE bootfileForClient(boot, clients, p.mac, p.arch)

BuildProxyOffer(p, bootfile) ==
  [mac |-> p.mac, xid |-> p.xid, type |-> IF p.type = "request" THEN "ack" ELSE "offer",
   bootfile |-> bootfile]

\* Slip: a machine that has been answered is taken for served.
handleMessageOnce(p) ==
  /\ up
  /\ p.type \in {"discover", "request"} /\ p.pxe /\ ArchFromOption93(p)
  /\ Bootfile(p) # None /\ \A r \in replies : r.mac # p.mac
  /\ replies' = replies \cup {BuildProxyOffer(p, Bootfile(p))}
  /\ UNCHANGED <<server, packets, machine, since, changes>>

\* Every packet is handled by a goroutine of its own.
handleMessage(p) ==
  /\ up
  /\ p.type \in {"discover", "request"} /\ p.pxe /\ ArchFromOption93(p)
  /\ Bootfile(p) # None
  /\ replies' = replies \cup {BuildProxyOffer(p, Bootfile(p))}
  /\ UNCHANGED <<server, packets, machine, since, changes>>

-----------------------------------------------------------------------------
(* A machine: firmware, then iPXE.                                         *)

\* Firmware and iPXE each use a transaction id of their own, each time.
Packet(m, type, userClass) ==
  [mac |-> m, xid |-> <<power[m], userClass>>, type |-> type, pxe |-> TRUE,
   arch |-> ArchOf[m], userClass |-> userClass]

Goes(m, to) == stage' = [stage EXCEPT ![m] = to]

\* The locals of a request that is answered, or that nobody waits for any more.
Forget(m) == /\ client' = [client EXCEPT ![m] = NoClient]
             /\ taken' = [taken EXCEPT ![m] = ""] /\ found' = [found EXCEPT ![m] = <<>>]

Now == {boot} \X loaded

\* Switched on, or again because it hangs or its user is impatient.
PowerOn(m) ==
  /\ power[m] < MaxPower
  /\ power' = [power EXCEPT ![m] = @ + 1] /\ Goes(m, "firmware")
  /\ loaders' = [loaders EXCEPT ![m] = 0] /\ script' = [script EXCEPT ![m] = <<>>]
  /\ since' = [since EXCEPT ![m] = Now]
  /\ Forget(m) /\ met' = [met EXCEPT ![m] = FALSE]
  /\ UNCHANGED <<server, net, file, at, chosen, returned, image, changes>>

UserClass(m) == IF stage[m] = "firmware" THEN "" ELSE "iPXE"

Discover(m) ==
  /\ stage[m] \in {"firmware", "ipxe"}
  /\ packets' = packets \cup {Packet(m, "discover", UserClass(m))}
  /\ UNCHANGED <<server, replies, machine, since, changes>>

Replies(m, type) ==
  {r \in replies : r.mac = m /\ r.type = type /\ r.xid = <<power[m], UserClass(m)>>}

\* The firmware answers an offer with a request; or its boot file is used right away.
Request(m) ==
  /\ stage[m] = "firmware" /\ Replies(m, "offer") # {}
  /\ packets' = packets \cup {Packet(m, "request", "")}
  /\ UNCHANGED <<server, replies, machine, since, changes>>

\* What a machine fetches next.
Fetch(m, f) ==
  /\ Goes(m, "fetch") /\ file' = [file EXCEPT ![m] = f]
  /\ UNCHANGED <<server, net, power, loaders, run, request, since, changes>>

UseReply(m) ==
  /\ stage[m] \in {"firmware", "ipxe"}
  /\ \E r \in Replies(m, "offer") \cup Replies(m, "ack") : Fetch(m, r.bootfile)

-----------------------------------------------------------------------------
(* TFTP and HTTP.                                                          *)

\* A name is one of a file below the boot loader directory, or rejected.
resolvePath(name) == name \in Files

\* readHandler: what is found is iPXE.
ReadFile(m) ==
  /\ up /\ stage[m] = "fetch" /\ file[m][1] = "file"
  /\ Goes(m, IF resolvePath(file[m][2]) THEN "ipxe" ELSE "failed")
  /\ loaders' = [loaders EXCEPT ![m] = @ + 1]
  /\ UNCHANGED <<server, net, power, file, run, request, since, changes>>

\* Slip: the MAC of somebody who has asked the DHCP proxy.
serveAutoexecFor(m) ==
  /\ up /\ stage[m] = "ipxe" /\ boot.http /\ boot.chain # ""
  /\ \E p \in packets : Fetch(m, Menu(p.mac))

\* A boot loader may ask for autoexec.ipxe, a script that chains to the same URL with
\* the MAC of the first network card.
serveAutoexec(m) ==
  /\ up /\ stage[m] = "ipxe" /\ boot.http /\ boot.chain # ""
  /\ Fetch(m, Menu(Net0[m]))

Runs(m, s, name) ==
  /\ Goes(m, "script")
  /\ script' = [script EXCEPT ![m] = s] /\ at' = [at EXCEPT ![m] = 1]
  /\ chosen' = [chosen EXCEPT ![m] = name] /\ returned' = [returned EXCEPT ![m] = FALSE]
  /\ image' = [image EXCEPT ![m] = ""]
NotFound(m) == Goes(m, "failed") /\ UNCHANGED run

Chosen(entries) == IF Len(entries) = 1 THEN entries[1].name ELSE ""

\* No reload is under way, and none has left parts of different configurations.
Idle(h) == reload[h].at = "idle"
Whole(c) == clients = c.clients /\ menus = c.menus
Quiet == (\A h \in Handlers : Idle(h)) /\ \E c \in loaded : Whole(c)

\* MenuScriptHandler.ServeHTTP, step by step.  Registry.FindClient, and the early
\* returns for a client that is not there or disabled.
Ask(m) ==
  LET c == FindClient(clients, file[m][2])
  IN  /\ up /\ boot.http /\ stage[m] = "fetch" /\ file[m][1] = "menu"
      /\ met' = [met EXCEPT ![m] = ~Quiet]
      /\ \/ /\ (c = NoClient \/ (c # NoClient /\ ~c.enabled))
            /\ NotFound(m) /\ UNCHANGED client
         \/ /\ c # NoClient /\ c.enabled
            /\ Goes(m, "asked") /\ client' = [client EXCEPT ![m] = c] /\ UNCHANGED run
      /\ UNCHANGED <<server, net, power, file, loaders, taken, found, since, changes>>

\* Registry.ConsumeBootOverride.
TakeOverride(m) ==
  /\ stage[m] = "asked" /\ Goes(m, "resolving")
  /\ taken' = [taken EXCEPT ![m] = overrides[file[m][2]]]
  /\ overrides' = [overrides EXCEPT ![file[m][2]] = ""]
  /\ UNCHANGED <<boot, up, contents, net, power, file, loaders, run, client, found, met, since,
                 changes>>

Answered(m) == Forget(m) /\ UNCHANGED <<server, net, power, file, loaders, met, since, changes>>

\* MenuResolver.FindByName; an override that is not found leaves the normal menu.
ServeOverride(m) ==
  /\ stage[m] = "resolving" /\ taken[m] # ""
  /\ \/ /\ taken[m] \in DOMAIN menus
        /\ Runs(m, GenerateOverride(menus[taken[m]]), taken[m]) /\ Answered(m)
     \/ /\ taken[m] \notin DOMAIN menus
        /\ taken' = [taken EXCEPT ![m] = ""]
        /\ UNCHANGED <<server, net, stage, power, file, loaders, run, client, found, met, since,
                       changes>>

\* MenuResolver.Resolve: a turn of its loop, or that there is nothing to resolve.
Resolve(m) ==
  LET entries == client[m].entries
      next == entries[Len(found[m]) + 1]
  IN  /\ stage[m] = "resolving" /\ taken[m] = ""
      /\ \/ /\ \/ entries = <<>>
              \/ (Len(found[m]) < Len(entries) /\ next \notin DOMAIN menus)
            /\ NotFound(m) /\ Answered(m)
         \/ /\ Len(found[m]) < Len(entries) /\ next \in DOMAIN menus
            /\ found' = [found EXCEPT ![m] = Append(@, menus[next])]
            /\ UNCHANGED <<server, net, stage, power, file, loaders, run, client, taken, met,
                           since, changes>>

ServeScript(m) ==
  /\ stage[m] = "resolving" /\ taken[m] = ""
  /\ found[m] # <<>> /\ Len(found[m]) = Len(client[m].entries)
  /\ Runs(m, Generate(found[m]), Chosen(found[m])) /\ Answered(m)

ServeHTTP(m) ==
  Ask(m) \/ TakeOverride(m) \/ ServeOverride(m) \/ Resolve(m) \/ ServeScript(m)

-----------------------------------------------------------------------------
(* The script runs.                                                        *)

Command(m) == script[m][at[m]]
Running(m, op) == /\ stage[m] = "script" /\ at[m] \in DOMAIN script[m]
                  /\ Command(m).op = op
Others == UNCHANGED <<server, net, power, file, loaders, script, request, since, changes>>

At(m, place) == at' = [at EXCEPT ![m] = place]
NextCommand(m) == At(m, at[m] + 1) /\ UNCHANGED stage
End(m, to) == Goes(m, to) /\ UNCHANGED at

\* To a label; without it the script fails.
Jump(m, l) ==
  LET to == LabelAt(script[m], l)
  IN  IF to = 0 THEN End(m, "failed") ELSE At(m, to) /\ UNCHANGED stage
Fail(m) == /\ IF Command(m).fallback = "" THEN End(m, "failed") ELSE Jump(m, Command(m).fallback)
           /\ UNCHANGED <<chosen, returned, image>>

Choose(m) ==
  /\ Running(m, "choose")
  /\ \/ /\ \E name \in Range(Command(m).arg) : chosen' = [chosen EXCEPT ![m] = name]
        /\ returned' = [returned EXCEPT ![m] = FALSE]
        /\ NextCommand(m) /\ UNCHANGED image
     \/ Fail(m)                                             \* Escape
  /\ Others

Goto(m) ==
  /\ Running(m, "goto")
  /\ Jump(m, IF Command(m).arg = "selected" THEN chosen[m] ELSE Command(m).arg)
  /\ UNCHANGED <<chosen, returned, image>> /\ Others

Skip(m) == /\ Running(m, "label") /\ NextCommand(m)
           /\ UNCHANGED <<chosen, returned, image>> /\ Others

\* safeFileServer has the file, or the answer is 404, or nobody answers.
LoadFile(m) ==
  /\ Running(m, "load")
  /\ \/ /\ up /\ Command(m).arg \in Routes
        /\ image' = [image EXCEPT ![m] = Command(m).of]
        /\ NextCommand(m) /\ UNCHANGED <<chosen, returned>>
     \/ Fail(m)
  /\ Others

\* A chain URL may be one of any server.  What is chained boots, or comes back, or
\* cannot be had.
ChainTo(m) ==
  /\ Running(m, "chain")
  /\ \/ /\ Command(m).arg[2] = "" \/ (up /\ Command(m).arg \in Routes)
        /\ \/ /\ image' = [image EXCEPT ![m] = Command(m).of]
              /\ End(m, "booted") /\ UNCHANGED <<chosen, returned>>
           \/ /\ returned' = [returned EXCEPT ![m] = TRUE]
              /\ NextCommand(m) /\ UNCHANGED <<chosen, image>>
     \/ Fail(m)
  /\ Others

BootImage(m) == /\ Running(m, "boot")
                /\ End(m, IF image[m] = "" THEN "failed" ELSE "booted")
                /\ UNCHANGED <<chosen, returned, image>> /\ Others

\* "exit", or the end of the script: back to the firmware, which boots the local disk.
Exit(m) == /\ \/ Running(m, "exit") /\ image' = [image EXCEPT ![m] = Command(m).of]
              \/ /\ stage[m] = "script" /\ at[m] \notin DOMAIN script[m]
                 /\ UNCHANGED image
           /\ End(m, "local") /\ UNCHANGED <<chosen, returned>> /\ Others

-----------------------------------------------------------------------------
(* The server changes.                                                     *)

\* A machine that is on has seen what the server has now.
Seen == since' = [m \in Machine |-> IF power[m] = 0 THEN {} ELSE since[m] \cup Now']
Change == changes < MaxChanges /\ changes' = changes + 1
Asking(m) == stage[m] \in {"asked", "resolving"}
Meets == met' = [m \in Machine |-> met[m] \/ Asking(m)]

\* POST /api/v1/reload: registry and menus, not the boot files.  What is on disk is
\* loaded, and Registry.Reload replaces the clients, under its lock.
BeginReload(h) ==
  /\ up /\ boot.http /\ Idle(h) /\ Change
  /\ \E c \in Config :
       /\ clients' = c.clients /\ loaded' = loaded \cup {c}
       /\ reload' = [reload EXCEPT ![h] = [at |-> "menus", config |-> c, rest |-> {}]]
  /\ UNCHANGED <<boot, up, overrides, menus, net, stage, power, file, loaders, run, client,
                 taken, found>>
  /\ Seen /\ Meets

\* A step of MenuResolver.Reload, with what is left for it to do.  Reloads that overlap
\* may leave the server with parts of several configurations.
Refill(h, map, rest) ==
  LET c == reload[h].config
  IN  /\ menus' = map
      /\ \/ /\ rest # {}
            /\ reload' = [reload EXCEPT ![h] = [at |-> "fill", config |-> c, rest |-> rest]]
            /\ UNCHANGED loaded
         \/ /\ rest = {}
            /\ reload' = [reload EXCEPT ![h] = [at |-> "idle"]]
            /\ loaded' = IF (\A g \in Handlers \ {h} : Idle(g)) /\ clients = c.clients /\ map = c.menus
                         THEN {c} ELSE loaded
      /\ UNCHANGED <<boot, up, overrides, clients, net, machine, since, changes>>

\* MenuResolver.Reload: an empty map, which is then filled.
EmptyMenus(h) == /\ reload[h].at = "menus"
                 /\ Refill(h, [n \in {} |-> n], DOMAIN reload[h].config.menus)
FillMenu(h) ==
  /\ reload[h].at = "fill"
  /\ \E name \in reload[h].rest :
       LET entry == reload[h].config.menus[name]
       IN  Refill(h, [n \in DOMAIN menus \cup {name} |-> IF n = name THEN entry ELSE menus[n]],
                  reload[h].rest \ {name})

Reload(h) == BeginReload(h) \/ EmptyMenus(h) \/ FillMenu(h)

\* Requests end with the process, and their connections.
Crash == /\ up /\ Change
         /\ up' = FALSE
         /\ reload' = [h \in Handlers |-> [at |-> "idle"]]
         /\ stage' = [m \in Machine |-> IF Asking(m) THEN "failed" ELSE stage[m]]
         /\ client' = [m \in Machine |-> NoClient] /\ taken' = [m \in Machine |-> ""]
         /\ found' = [m \in Machine |-> <<>>] /\ Meets
         /\ UNCHANGED <<boot, overrides, clients, menus, loaded, net, power, file, loaders, run,
                        since>>

\* runServe with what is on disk now; overrides are gone.
Start == /\ ~up
         /\ up' = TRUE
         /\ \E c \in Config : /\ boot' = c.boot /\ clients' = c.clients /\ menus' = c.menus
                              /\ loaded' = {c}
         /\ overrides' = [m \in DOMAIN overrides |-> ""] /\ Seen
         /\ UNCHANGED <<reload, net, machine, changes>>

SetBootOverride == /\ up /\ Change
                   /\ \E m \in Machine, name \in DOMAIN menus :
                        overrides' = [overrides EXCEPT ![m] = name]
                   /\ UNCHANGED <<boot, up, contents, net, machine, since>>

\* A boot request with the MAC of a machine that the machine does not wait for (of a
\* browser, or from before it was switched off) takes its override.
OverrideLost == /\ up /\ boot.http
                /\ \E mac \in MACs : /\ overrides[mac] # ""
                                     /\ overrides' = [overrides EXCEPT ![mac] = ""]
                /\ UNCHANGED <<boot, up, contents, net, machine, since, changes>>

Init == /\ \E c \in Config : /\ boot = c.boot /\ clients = c.clients /\ menus = c.menus
                             /\ loaded = {c}
        /\ up = TRUE /\ reload = [h \in Handlers |-> [at |-> "idle"]]
        /\ overrides = [m \in MACs |-> ""]
        /\ packets = Noise /\ replies = {}
        /\ stage = [m \in Machine |-> "off"] /\ power = [m \in Machine |-> 0]
        /\ file = [m \in Machine |-> None] /\ loaders = [m \in Machine |-> 0]
        /\ script = [m \in Machine |-> <<>>] /\ at = [m \in Machine |-> 0]
        /\ chosen = [m \in Machine |-> ""] /\ returned = [m \in Machine |-> FALSE]
        /\ image = [m \in Machine |-> ""]
        /\ client = [m \in Machine |-> NoClient] /\ taken = [m \in Machine |-> ""]
        /\ found = [m \in Machine |-> <<>>] /\ met = [m \in Machine |-> FALSE]
        /\ since = [m \in Machine |-> {}]
        /\ changes = 0

ScriptStep(m) == Choose(m) \/ Goto(m) \/ Skip(m) \/ LoadFile(m) \/ ChainTo(m) \/ BootImage(m)
                   \/ Exit(m)
Next == \/ \E p \in packets : handleMessage(p)
        \/ \E m \in Machine : \/ PowerOn(m) \/ Discover(m) \/ Request(m) \/ UseReply(m)
                              \/ ReadFile(m) \/ serveAutoexec(m) \/ ServeHTTP(m)
                              \/ ScriptStep(m)
        \/ \E h \in Handlers : Reload(h)
        \/ Crash \/ Start \/ SetBootOverride \/ OverrideLost

Spec == Init /\ [][Next]_vars

\* A packet that is repeated gets through in the end, and a reply too; who runs the
\* server starts it again.
FairSpec ==
  /\ Spec /\ WF_vars(Start)
  /\ WF_vars(\E p \in packets : handleMessage(p) /\ replies' # replies)
  /\ \A m \in Machine : /\ WF_vars(Discover(m)) /\ SF_vars(UseReply(m)) /\ SF_vars(ReadFile(m))
                        /\ SF_vars(ServeHTTP(m))

-----------------------------------------------------------------------------
(* Properties.                                                             *)

ServerType ==
  /\ up \in BOOLEAN /\ (\E c \in Config : boot = c.boot)
  /\ loaded \subseteq Config /\ DOMAIN reload = Handlers /\ DOMAIN overrides = MACs
  /\ \A r \in replies : r.bootfile # None
MachineType ==
  /\ stage \in [Machine -> {"off", "firmware", "ipxe", "fetch", "asked", "resolving",
                          "failed", "script", "booted", "local"}]
  /\ power \in [Machine -> Nat] /\ loaders \in [Machine -> Nat]
  /\ DOMAIN file = Machine /\ DOMAIN script = Machine /\ DOMAIN since = Machine
  /\ DOMAIN client = Machine /\ DOMAIN taken = Machine /\ DOMAIN found = Machine
  /\ met \in [Machine -> BOOLEAN]
TypeOK == ServerType /\ MachineType

\* A boot file that a configuration of this power cycle has for a machine.
BootFileOf(m, f) == \E c \in since[m] : f = bootfileForClient(c[1], c[2].clients, m, ArchOf[m])

\* proxy.go:160: whatever replies are late or repeated, and whatever is reloaded
\* meanwhile, a machine loads a boot file that a configuration of its own power cycle
\* has for its MAC and its architecture, not that of an earlier one or another machine.
OwnBootFile ==
  \A m \in Machine :
    stage[m] = "fetch" /\ file[m][1] = "file" => BootFileOf(m, file[m])

\* proxy.go:222: a machine that runs iPXE is never sent a boot loader again, which
\* would start iPXE anew without end.
NoLoop == \A m \in Machine : loaders[m] <= 1

\* A script for a machine of the parts of some configurations: of the entries of its
\* client, which is enabled, or of an entry as a one-time override.
OverrideOf(configs, s) ==
  \E d \in configs : \E name \in DOMAIN d.menus : s = GenerateOverride(d.menus[name])
MenuOfClient(configs, names, s) ==
  /\ names # <<>>
  /\ \E of \in [DOMAIN names -> configs] :
       /\ \A i \in DOMAIN names : names[i] \in DOMAIN of[i].menus
       /\ s = Generate([i \in DOMAIN names |-> of[i].menus[names[i]]])
ScriptOf(configs, m, s) ==
  \E c \in configs :
    LET own == FindClient(c.clients, m)
    IN  /\ own # NoClient /\ own.enabled
        /\ OverrideOf(configs, s) \/ MenuOfClient(configs, own.entries, s)

Cycle(m) == {c[2] : c \in since[m]}

\* Both ways to the menu, the DHCP reply and autoexec.ipxe, lead to the same place:
\* if a machine boots from its first card, the script it runs is that of its own
\* client, enabled in a configuration of its power cycle, or a one-time override.  A
\* reload that its request meets may mix the entries of configurations of the power
\* cycle; a request that meets none is answered from a single one.
OwnScript ==
  \A m \in Machine : stage[m] = "script" /\ Net0[m] = m =>
    /\ ScriptOf(Cycle(m), m, script[m])
    /\ ~met[m] => \E c \in Cycle(m) : ScriptOf({c}, m, script[m])

\* An entry that is named "failed" takes the place of the script's own label: it runs
\* when the choice is given up.  Names are not checked for that.
NoEntryFailed(s) == \A i \in DOMAIN s : s[i].of # "failed"

\* ipxe.go:53: a machine boots what its user has chosen, or the only entry there is,
\* and leaves iPXE only then, unless something that was chained has come back: then
\* the script goes on with the entry that happens to be next.
ChosenRuns ==
  \A m \in Machine :
    stage[m] \in {"booted", "local"} /\ ~returned[m] /\ NoEntryFailed(script[m]) =>
      image[m] = chosen[m]

\* What every configuration has to have for a machine to get its script.
Served(m) ==
  \A b, c \in Config :
    LET own == FindClient(c.clients, m)
    IN  /\ ArchOf[m] \in Arch /\ FileFor(b.boot, c.clients, m, ArchOf[m]) \in Files
        /\ b.boot.http /\ b.boot.chain # ""
        /\ own # NoClient /\ own.enabled
        /\ own.entries # <<>> /\ Range(own.entries) \subseteq DOMAIN c.menus

\* README.md:3, "Single binary combining DHCP Proxy, TFTP, and HTTP into one cohesive
\* tool": a machine that is switched on gets its script, though packets are lost and
\* the server is reloaded and dies, if it is not switched off and the server is
\* started again.  Only a boot request that meets a reload half-way, or the death of
\* the process, may fail: iPXE does not ask for it again.
GetsScript ==
  \A m \in Machine : Served(m) /\ Net0[m] = m =>
    (stage[m] = "firmware" /\ power[m] = MaxPower) ~> script[m] # <<>> \/ met[m]
=============================================================================
