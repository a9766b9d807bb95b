----------------------------- MODULE BootServing -----------------------------
(***************************************************************************)
(* The part of a running Bootforge server that decides what a machine      *)
(* boots: the Registry (clients, wildcard, one-time overrides, behind one  *)
(* RWMutex), the MenuResolver (a map behind no lock at all), the HTTP      *)
(* handler that reads both to answer GET /boot/{mac}/menu.ipxe, and the    *)
(* hot reload (POST /api/v1/reload) that replaces both.                    *)
(*                                                                         *)
(* Every request and every reload is a goroutine of its own.  A step is    *)
(* what runs without another goroutine being able to come in between: one  *)
(* critical section of Registry.mu, or one access to the resolver's map.   *)
(*                                                                         *)
(* Configurations are abstract: what they say of clients and menus, as     *)
(* toml.LoadDir returns it after its checks (no duplicate MAC or name, at  *)
(* most one wildcard, every referenced entry defined).                     *)
(***************************************************************************)
EXTENDS Naturals, Sequences

CONSTANTS MAC,              \* MAC addresses that boot (the all-zero one is not here)
          Name,             \* menu entry names
          Def,              \* menu entry definitions (what a name stands for)
          Config,           \* the valid configurations an operator may write
          Requests,         \* goroutines that answer boot requests
          Reloads,          \* goroutines that answer reload requests
          NoClient,         \* nil *domain.Client
          Unloadable,       \* a configuration directory LoadDir or Validate rejects
          MaxOverrides      \* bound: how many overrides are ever set

\* A domain.Client: whether it may boot, and its Menu.Entries.
Client == [enabled : BOOLEAN, entries : Seq(Name)]

\* A Go map with keys in S and values in T: a partial function.
IsMap(f, S, T) == DOMAIN f \subseteq S /\ f \in [DOMAIN f -> T]

\* What LoadDir returns of a configuration it accepts.
IsConfig(cfg) ==
  /\ cfg = [clients |-> cfg.clients, wildcard |-> cfg.wildcard, menus |-> cfg.menus]
  /\ IsMap(cfg.clients, MAC, Client)
  /\ cfg.wildcard \in Client \cup {NoClient}
  /\ IsMap(cfg.menus, Name, Def)

\* The client a configuration prescribes for a MAC.
ConfiguredClient(cfg, m) ==
  IF m \in DOMAIN cfg.clients THEN cfg.clients[m] ELSE cfg.wildcard

\* Every entry of every client of cfg is a menu of cfg, and no list is empty.
ReferencesResolve(cfg) ==
  \A m \in MAC :
    LET c == ConfiguredClient(cfg, m)
    IN  c # NoClient =>
          /\ c.entries # <<>>
          /\ \A i \in 1..Len(c.entries) : c.entries[i] \in DOMAIN cfg.menus

ASSUME ConfigAssumption ==
  /\ MAC # {}
  /\ \A cfg \in Config : IsConfig(cfg) /\ ReferencesResolve(cfg)
  /\ Config # {}

ASSUME ModelValueAssumption ==
  /\ NoClient \notin Client
  /\ Unloadable \notin Config
  /\ "" \notin Name                 \* MenuEntry.Validate requires a name

ASSUME BoundAssumption == MaxOverrides \in Nat

\* A pending override: the entry it names and, for the properties only, its
\* number in the order they were set.  0 is the number of "no override".
NoOverride == [name |-> "", id |-> 0]
Override == [name : Name, id : 1..MaxOverrides] \cup {NoOverride}

\* What a request is answered: an HTTP status and, for 200, a script made of
\* definitions (of the override's entry, or of the client's whole menu).
Answer == [status : {400, 403, 404, 500}, script : {"none"}, defs : {<<>>}]
            \cup [status : {200}, script : {"override", "menu"}, defs : Seq(Def)]
Refused(status) == [status |-> status, script |-> "none", defs |-> <<>>]
Script(kind, defs) == [status |-> 200, script |-> kind, defs |-> defs]

VARIABLES
  up,           \* the process is running
  disk,         \* the configuration directory
  clients,      \* Registry.clients
  wildcard,     \* Registry.wildcard
  overrides,    \* Registry.overrides
  menus,        \* MenuResolver.menus
  pc, mac, client, override, result, answer,  \* a request: program counter, locals
  rpc, newCfg, todo                           \* a reload: program counter, locals

\* History, read by the properties only: how many overrides were set, which
\* were served, which were replaced, given up or forgotten, which requests
\* have seen no reload so far, and whether the
\* reload under way has overlapped with another one.
VARIABLES issued, served, gone, quiet, mixed

registry == <<clients, wildcard, overrides>>
request == <<pc, mac, client, override, result, answer>>
reload == <<rpc, newCfg, todo>>
history == <<issued, served, gone, quiet, mixed>>
vars == <<up, disk, registry, menus, request, reload, history>>

RequestPC == {"idle", "find", "consume", "byname", "resolve"}   \* "idle": answered
ReloadPC == {"idle", "registry", "menus", "fill"}   \* "idle": the handler has returned

\* The overrides in the registry, and the ones boot requests have taken.
Waiting == {overrides[m].id : m \in MAC} \ {0}
InHand == {override[r].id : r \in Requests} \ {0}

-----------------------------------------------------------------------------
(* Start of the process: runServe loads the configuration, or gives up.    *)

AnyMAC == CHOOSE m \in MAC : TRUE      \* of a goroutine that serves no request
NoneSet == [m \in MAC |-> NoOverride]

Init == /\ up = TRUE
        /\ disk \in Config
        /\ clients = disk.clients /\ wildcard = disk.wildcard
        /\ overrides = NoneSet
        /\ menus = disk.menus
        /\ pc = [r \in Requests |-> "idle"]
        /\ mac = [r \in Requests |-> AnyMAC]
        /\ client = [r \in Requests |-> NoClient]
        /\ override = [r \in Requests |-> NoOverride]
        /\ result = [r \in Requests |-> <<>>]
        /\ answer = [r \in Requests |-> Refused(400)]
        /\ rpc = [p \in Reloads |-> "idle"]
        /\ newCfg = [p \in Reloads |-> Unloadable]
        /\ todo = [p \in Reloads |-> {}]
        /\ issued = 0 /\ served = {} /\ gone = {}
        /\ quiet = {} /\ mixed = FALSE

\* The process is started again after it died: NewRegistry, NewMenuResolver,
\* no goroutine left of the old one.  It refuses a configuration LoadDir does.
Restart ==
  /\ ~up /\ disk \in Config
  /\ up' = TRUE
  /\ clients' = disk.clients /\ wildcard' = disk.wildcard
  /\ overrides' = NoneSet
  /\ menus' = disk.menus
  /\ pc' = [r \in Requests |-> "idle"]
  /\ mac' = [r \in Requests |-> AnyMAC]
  /\ client' = [r \in Requests |-> NoClient]
  /\ override' = [r \in Requests |-> NoOverride]
  /\ result' = [r \in Requests |-> <<>>]
  /\ rpc' = [p \in Reloads |-> "idle"]
  /\ newCfg' = [p \in Reloads |-> Unloadable]
  /\ todo' = [p \in Reloads |-> {}]
  /\ quiet' = {} /\ mixed' = FALSE
  /\ gone' = gone \cup Waiting \cup InHand
  /\ UNCHANGED <<disk, answer, issued, served>>

-----------------------------------------------------------------------------
(* MenuScriptHandler.ServeHTTP, one action per critical section.           *)

\* The request ends with a: its goroutine is free for another one.
Reply(r, a) == /\ pc' = [pc EXCEPT ![r] = "idle"]
               /\ answer' = [answer EXCEPT ![r] = a]
               /\ mac' = [mac EXCEPT ![r] = AnyMAC]
               /\ client' = [client EXCEPT ![r] = NoClient]
               /\ override' = [override EXCEPT ![r] = NoOverride]
               /\ result' = [result EXCEPT ![r] = <<>>]
               /\ quiet' = quiet \ {r}

NoReload == \A p \in Reloads : rpc[p] = "idle"

\* GET /boot/{mac}/menu.ipxe with a MAC that parses.
Arrive(r, m) == /\ up /\ pc[r] = "idle"
                /\ pc' = [pc EXCEPT ![r] = "find"]
                /\ mac' = [mac EXCEPT ![r] = m]
                /\ quiet' = IF NoReload /\ ~mixed THEN quiet \cup {r} ELSE quiet
                /\ UNCHANGED <<up, disk, registry, menus, client, override, result,
                               answer, reload, issued, served, gone, mixed>>

\* ... and with one that does not: 400 before anything is looked up.
RejectMAC(r) == /\ up /\ pc[r] = "idle"
                /\ Reply(r, Refused(400))
                /\ UNCHANGED <<up, disk, registry, menus, reload, issued, served,
                               gone, mixed>>

\* Registry.FindClient, under the read lock: exact match, else the wildcard.
FindClient(m) == IF m \in DOMAIN clients THEN clients[m] ELSE wildcard

\* Slip: the Enabled check is forgotten.
FindIgnoringEnabled(r) ==
  LET c == FindClient(mac[r]) IN
  /\ up /\ pc[r] = "find"
  /\ \/ /\ c = NoClient
        /\ Reply(r, Refused(404))
     \/ /\ c # NoClient
        /\ pc' = [pc EXCEPT ![r] = "consume"]
        /\ client' = [client EXCEPT ![r] = c]
        /\ UNCHANGED <<mac, override, result, answer, quiet>>
  /\ UNCHANGED <<up, disk, registry, menus, reload, issued, served, gone, mixed>>

\* The lookup and the two early returns that follow it (404, 403).
Find(r) ==
  LET c == FindClient(mac[r]) IN
  /\ up /\ pc[r] = "find"
  /\ \/ /\ c = NoClient
        /\ Reply(r, Refused(404))
     \/ /\ c # NoClient /\ ~c.enabled
        /\ Reply(r, Refused(403))
     \/ /\ c # NoClient /\ c.enabled
        /\ pc' = [pc EXCEPT ![r] = "consume"]
        /\ client' = [client EXCEPT ![r] = c]
        /\ UNCHANGED <<mac, override, result, answer, quiet>>
  /\ UNCHANGED <<up, disk, registry, menus, reload, issued, served, gone,
                 mixed>>

\* Registry.ConsumeBootOverride, under the write lock: return and delete.
ConsumeBootOverride(m) == overrides' = [overrides EXCEPT ![m] = NoOverride]

Consume(r) ==
  /\ up /\ pc[r] = "consume"
  /\ override' = [override EXCEPT ![r] = overrides[mac[r]]]
  /\ ConsumeBootOverride(mac[r])
  /\ pc' = [pc EXCEPT ![r] = IF overrides[mac[r]] = NoOverride THEN "resolve"
                                                               ELSE "byname"]
  /\ UNCHANGED <<up, disk, clients, wildcard, menus, mac, client, result, answer,
                 reload, history>>

\* Slip: an override whose entry is unknown is put back for the next request.
FindByNameRequeue(r) ==
  LET o == override[r] IN
  /\ up /\ pc[r] = "byname"
  /\ \/ /\ o.name \in DOMAIN menus
        /\ Reply(r, Script("override", <<menus[o.name]>>))
        /\ served' = served \cup {o.id}
        /\ UNCHANGED overrides
     \/ /\ o.name \notin DOMAIN menus
        /\ pc' = [pc EXCEPT ![r] = "resolve"]
        /\ override' = [override EXCEPT ![r] = NoOverride]
        /\ overrides' = [overrides EXCEPT ![mac[r]] = o]
        /\ UNCHANGED <<mac, client, result, answer, quiet, served>>
  /\ UNCHANGED <<up, disk, clients, wildcard, menus, reload, issued, gone, mixed>>

\* MenuResolver.FindByName on the override's entry.  If there is none the
\* override, deleted by now, is given up and the normal menu is resolved.
FindByName(r) ==
  LET o == override[r] IN
  /\ up /\ pc[r] = "byname"
  /\ \/ /\ o.name \in DOMAIN menus
        /\ Reply(r, Script("override", <<menus[o.name]>>))
        /\ served' = served \cup {o.id}
        /\ UNCHANGED gone
     \/ /\ o.name \notin DOMAIN menus
        /\ pc' = [pc EXCEPT ![r] = "resolve"]
        /\ override' = [override EXCEPT ![r] = NoOverride]
        /\ gone' = gone \cup {o.id}
        /\ UNCHANGED <<mac, client, result, answer, quiet, served>>
  /\ UNCHANGED <<up, disk, registry, menus, reload, issued, mixed>>

\* Slip: a missing entry is retried, in the hope that a reload is under way.
ResolveRetrying(r) ==
  LET entries == client[r].entries
      name == entries[Len(result[r]) + 1]
      found == Append(result[r], menus[name])
  IN
  /\ up /\ pc[r] = "resolve"
  /\ name \in DOMAIN menus
  /\ \/ /\ Len(found) < Len(entries)
        /\ result' = [result EXCEPT ![r] = found]
        /\ UNCHANGED <<pc, mac, client, override, answer, quiet>>
     \/ /\ Len(found) = Len(entries)
        /\ Reply(r, Script("menu", found))
  /\ UNCHANGED <<up, disk, registry, menus, reload, issued, served, gone, mixed>>

\* MenuResolver.Resolve: one map access per entry of the client's menu, the
\* first miss ends it; after the last hit the script is generated.
Resolve(r) ==
  LET entries == client[r].entries
      name == entries[Len(result[r]) + 1]
      found == Append(result[r], menus[name])
  IN
  /\ up /\ pc[r] = "resolve"
  /\ \/ /\ name \notin DOMAIN menus
        /\ Reply(r, Refused(500))
     \/ /\ name \in DOMAIN menus
        /\ Len(found) < Len(entries)
        /\ result' = [result EXCEPT ![r] = found]
        /\ UNCHANGED <<pc, mac, client, override, answer, quiet>>
     \/ /\ name \in DOMAIN menus
        /\ Len(found) = Len(entries)
        /\ Reply(r, Script("menu", found))
  /\ UNCHANGED <<up, disk, registry, menus, reload, issued, served, gone,
                 mixed>>

-----------------------------------------------------------------------------
(* handleReload and ReloadFn: two handlers may run at once, nothing        *)
(* serialises them.                                                        *)

\* LoadDir and Validate.  If they fail (disk = Unloadable) the handler answers
\* 500 and has changed nothing.
Load(p) == /\ up /\ rpc[p] = "idle" /\ disk \in Config
           /\ rpc' = [rpc EXCEPT ![p] = "registry"]
           /\ newCfg' = [newCfg EXCEPT ![p] = disk]
           /\ mixed' = ~NoReload
           /\ UNCHANGED <<up, disk, registry, menus, request, todo, issued, served,
                          gone, quiet>>

\* Slip: a reload starts from a new Registry, without the overrides.
ReloadNewRegistry(p) ==
  /\ up /\ rpc[p] = "registry"
  /\ clients' = newCfg[p].clients
  /\ wildcard' = newCfg[p].wildcard
  /\ overrides' = NoneSet
  /\ rpc' = [rpc EXCEPT ![p] = "menus"]
  /\ quiet' = {}
  /\ UNCHANGED <<up, disk, menus, request, newCfg, todo, issued, served, gone, mixed>>

\* Slip: loadClients files the wildcard under its all-zero MAC, too.
ReloadZeroMAC(p) ==
  /\ up /\ rpc[p] = "registry"
  /\ clients' = [m \in DOMAIN newCfg[p].clients \cup {"00:00:00:00:00:00"} |->
                   IF m \in DOMAIN newCfg[p].clients THEN newCfg[p].clients[m]
                                                     ELSE newCfg[p].wildcard]
  /\ wildcard' = newCfg[p].wildcard
  /\ rpc' = [rpc EXCEPT ![p] = "menus"]
  /\ quiet' = {}
  /\ UNCHANGED <<up, disk, overrides, menus, request, newCfg, todo, issued, served,
                 gone, mixed>>

\* Registry.Reload, one critical section: the overrides stay.
ReloadRegistry(p) == /\ up /\ rpc[p] = "registry"
                     /\ clients' = newCfg[p].clients
                     /\ wildcard' = newCfg[p].wildcard
                     /\ rpc' = [rpc EXCEPT ![p] = "menus"]
                     /\ quiet' = {}
                     /\ UNCHANGED <<up, disk, overrides, menus, request, newCfg, todo,
                                    issued, served, gone, mixed>>

\* Slip: the new entries are added to the old map.
ReloadMenusMerging(p) == /\ up /\ rpc[p] = "menus"
                         /\ rpc' = [rpc EXCEPT ![p] = "fill"]
                         /\ todo' = [todo EXCEPT ![p] = DOMAIN newCfg[p].menus]
                         /\ UNCHANGED <<up, disk, registry, menus, request, newCfg,
                                        history>>

\* MenuResolver.Reload: the readers' map is an empty one from here on ...
ReloadMenus(p) == /\ up /\ rpc[p] = "menus"
                  /\ menus' = [n \in {} |-> n]
                  /\ rpc' = [rpc EXCEPT ![p] = "fill"]
                  /\ todo' = [todo EXCEPT ![p] = DOMAIN newCfg[p].menus]
                  /\ UNCHANGED <<up, disk, registry, request, newCfg, history>>

\* ... and is filled entry by entry; r.menus is read again for every entry,
\* so a second reload's map receives what the first has left to write.
FillMenu(p) == \E n \in todo[p] :
  /\ up /\ rpc[p] = "fill"
  /\ menus' = [k \in DOMAIN menus \cup {n} |->
                 IF k = n THEN newCfg[p].menus[n] ELSE menus[k]]
  /\ todo' = [todo EXCEPT ![p] = @ \ {n}]
  /\ UNCHANGED <<up, disk, registry, request, rpc, newCfg, history>>

\* Slip: the reload returns only when no boot request is in flight.
EndReloadDraining(p) == /\ up /\ rpc[p] = "fill" /\ todo[p] = {}
                        /\ \A r \in Requests : pc[r] = "idle"
                        /\ rpc' = [rpc EXCEPT ![p] = "idle"]
                        /\ newCfg' = [newCfg EXCEPT ![p] = Unloadable]
                        /\ UNCHANGED <<up, disk, registry, menus, request, todo, history>>

EndReload(p) == /\ up /\ rpc[p] = "fill" /\ todo[p] = {}
                /\ rpc' = [rpc EXCEPT ![p] = "idle"]
                /\ newCfg' = [newCfg EXCEPT ![p] = Unloadable]
                /\ UNCHANGED <<up, disk, registry, menus, request, todo, history>>

\* Two goroutines access the resolver's map, one of them writes: the Go
\* runtime may notice ("fatal error: concurrent map read and map write"), and
\* that is the end of the process; or it does not, and the steps above happen.
Writing(p) == rpc[p] = "fill" /\ todo[p] # {}
Reading(r) == pc[r] \in {"byname", "resolve"}
MapRace == \E p \in Reloads : /\ Writing(p)
                              /\ \/ \E r \in Requests : Reading(r)
                                 \/ \E q \in Reloads \ {p} : Writing(q)

FatalMapRace == /\ up /\ MapRace
                /\ up' = FALSE
                /\ UNCHANGED <<disk, registry, menus, request, reload, history>>

-----------------------------------------------------------------------------
(* The surroundings: whoever sets overrides, and the operator's editor.    *)

\* Registry.SetBootOverride, under the write lock; any MAC, any entry name.
SetBootOverride(m, n) ==
  /\ up /\ issued < MaxOverrides
  /\ issued' = issued + 1
  /\ overrides' = [overrides EXCEPT ![m] = [name |-> n, id |-> issued + 1]]
  /\ gone' = gone \cup ({overrides[m].id} \ {0})
  /\ UNCHANGED <<up, disk, clients, wildcard, menus, request, reload, served,
                 quiet, mixed>>

EditDisk == /\ disk' \in (Config \cup {Unloadable}) \ {disk}
            /\ UNCHANGED <<up, registry, menus, request, reload, history>>

ServeStep(r) == Find(r) \/ Consume(r) \/ FindByName(r) \/ Resolve(r)
ReloadStep(p) == ReloadRegistry(p) \/ ReloadMenus(p) \/ FillMenu(p) \/ EndReload(p)

Next == \/ \E r \in Requests : \/ \E m \in MAC : Arrive(r, m)
                               \/ RejectMAC(r)
                               \/ ServeStep(r)
        \/ \E p \in Reloads : Load(p) \/ ReloadStep(p)
        \/ \E m \in MAC, n \in Name : SetBootOverride(m, n)
        \/ FatalMapRace
        \/ Restart
        \/ EditDisk

\* A goroutine that is running goes on; nobody has to boot, reload or edit.
Fairness == /\ \A r \in Requests : WF_vars(ServeStep(r))
            /\ \A p \in Reloads : WF_vars(ReloadStep(p))

Spec == Init /\ [][Next]_vars
FairSpec == Spec /\ Fairness

-----------------------------------------------------------------------------
(* Properties.                                                             *)

\* The values Go's types and the code's assignments allow.
TypeOK ==
  /\ up \in BOOLEAN
  /\ disk \in Config \cup {Unloadable}
  /\ IsMap(clients, MAC, Client)
  /\ wildcard \in Client \cup {NoClient}
  /\ overrides \in [MAC -> Override]
  /\ IsMap(menus, Name, Def)
  /\ pc \in [Requests -> RequestPC]
  /\ mac \in [Requests -> MAC]
  /\ client \in [Requests -> Client \cup {NoClient}]
  /\ override \in [Requests -> Override]
  /\ result \in [Requests -> Seq(Def)]
  /\ answer \in [Requests -> Answer]
  /\ rpc \in [Reloads -> ReloadPC]
  /\ newCfg \in [Reloads -> Config \cup {Unloadable}]
  /\ todo \in [Reloads -> SUBSET Name]
  /\ issued \in 0..MaxOverrides
  /\ served \subseteq 1..MaxOverrides
  /\ gone \subseteq 1..MaxOverrides
  /\ quiet \subseteq Requests
  /\ mixed \in BOOLEAN

\* One-time: however boot requests, SetBootOverride and reloads interleave, an
\* override waits for one MAC, or is in the hand of one request, or was
\* served, or is gone, and only one of these.
OverrideInOnePlace ==
  /\ \A m, n \in MAC :
       overrides[m].id = overrides[n].id /\ overrides[m].id # 0 => m = n
  /\ \A q, r \in Requests :
       override[q].id = override[r].id /\ override[q].id # 0 => q = r
  /\ Waiting \cap (InHand \cup served \cup gone) = {}
  /\ InHand \cap (served \cup gone) = {}
  /\ served \cap gone = {}

\* No override vanishes: it is served unless a later one for the same MAC
\* replaced it, its entry was missing from the menus, or the process died.
\* In particular Registry.Reload preserves the overrides (registry.go:71).
NoOverrideVanishes == 1..issued = Waiting \cup InHand \cup served \cup gone

\* A request has an override in hand exactly between taking it and looking
\* its entry up; a reload under way has a configuration that was accepted, and
\* writes only entries of it.
LocalsInv ==
  /\ \A r \in Requests : pc[r] = "byname" <=> override[r] # NoOverride
  /\ \A p \in Reloads : rpc[p] # "idle" => newCfg[p] \in Config
  /\ \A p \in Reloads : rpc[p] = "fill" => todo[p] \subseteq DOMAIN newCfg[p].menus

\* The inductive invariant behind the two properties above.
OverrideInv == TypeOK /\ LocalsInv /\ OverrideInOnePlace /\ NoOverrideVanishes

\* The registry and the menus are those of one and the same configuration.
ServesConfig(cfg) == /\ clients = cfg.clients
                     /\ wildcard = cfg.wildcard
                     /\ menus = cfg.menus
Settled == \E cfg \in Config : ServesConfig(cfg)

\* A reload that no other one overlapped leaves the server with exactly one
\* configuration, whatever earlier, overlapping reloads had left behind.
LoneReloadSettles == NoReload /\ ~mixed => Settled

\* Why: the reload under way is the only one, and what it has done so far is
\* what it sets out to do.
LoneReloadInv ==
  ~mixed =>
    /\ \A p, q \in Reloads : rpc[p] # "idle" /\ rpc[q] # "idle" => p = q
    /\ NoReload => Settled
    /\ \A p \in Reloads : rpc[p] \in {"menus", "fill"} =>
         clients = newCfg[p].clients /\ wildcard = newCfg[p].wildcard
    /\ \A p \in Reloads : rpc[p] = "fill" =>
         menus = [n \in DOMAIN newCfg[p].menus \ todo[p] |-> newCfg[p].menus[n]]

\* What the registry and the menus, as they are, prescribe for request r.
Prescribed(r) ==
  LET c == ConfiguredClient([clients |-> clients, wildcard |-> wildcard], mac[r]) IN
  CASE c = NoClient -> Refused(404)
    [] c # NoClient /\ ~c.enabled -> Refused(403)
    [] c # NoClient /\ c.enabled /\ override[r].name \in DOMAIN menus ->
         Script("override", <<menus[override[r].name]>>)
    [] OTHER -> Script("menu", [i \in 1..Len(c.entries) |-> menus[c.entries[i]]])

\* A boot request that no reload overlapped is answered by one configuration,
\* from FindClient to the last menu entry, and never with a server error.
QuietAnswer ==
  [][\A r \in quiet : pc[r] # "idle" /\ pc'[r] = "idle" =>
                         answer'[r] = Prescribed(r)]_vars

\* Why: until the first ReloadRegistry, what the request has read is still so.
QuietInv ==
  /\ ~up => quiet = {}
  /\ \A r \in Requests : pc[r] # "resolve" => result[r] = <<>>
  /\ quiet # {} => Settled /\ \A p \in Reloads : rpc[p] \in {"idle", "registry"}
  /\ \A r \in quiet :
       /\ pc[r] # "idle"
       /\ pc[r] \in {"consume", "byname", "resolve"} =>
            client[r] = FindClient(mac[r]) /\ client[r] # NoClient /\ client[r].enabled
       /\ pc[r] = "resolve" =>
            /\ Len(result[r]) < Len(client[r].entries)
            /\ result[r] = [i \in 1..Len(result[r]) |-> menus[client[r].entries[i]]]

\* The registry's handling of overrides is that of OneTimeOverride.
Abstract == INSTANCE OneTimeOverride
              WITH slot <- [m \in MAC |-> overrides[m].id], hand <- InHand
ImplementsOneTimeOverride == Abstract!Spec

\* Every boot request and every reload is answered unless the process dies: a
\* missing menu entry or an unknown override never leaves the machine waiting.
RequestAnswered ==
  /\ \A r \in Requests : pc[r] # "idle" ~> (pc[r] = "idle" \/ ~up)
  /\ \A p \in Reloads : rpc[p] # "idle" ~> (rpc[p] = "idle" \/ ~up)

(* What the documentation says and the code does not do. *)

\* README.md:403, "Hot-reload -- change menus or clients without restarting the
\* server": a reload never ends the process.
HotReloadKeepsRunning == up

\* menuscript_test.go:210, "First request: should get override (direct boot).":
\* the request that takes an override whose entry every configuration defines
\* is answered with it.
OverrideServedToNextRequest ==
  [][\A r \in Requests :
       /\ up /\ override[r] # NoOverride /\ override'[r] = NoOverride
       /\ \A cfg \in Config : override[r].name \in DOMAIN cfg.menus
       => override[r].id \in served']_vars
=============================================================================
