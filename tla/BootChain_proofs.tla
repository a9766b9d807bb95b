---------------------------- MODULE BootChain_proofs ----------------------------
(***************************************************************************)
(* A machine gets its own boot file and its own script, and one boot       *)
(* loader, whatever is lost, repeated, reordered, reloaded or restarted,   *)
(* and boots what was chosen from the script: for all machines,            *)
(* configurations, menus and packets of others.                            *)
(***************************************************************************)
EXTENDS BootChain, SequenceTheorems, WellFoundedInduction, TLAPS

ScriptStages == {"script", "failed", "booted", "local"}

\* An entry of a name, of one of some configurations.
Part(configs, name, e) == \E c \in configs : name \in DOMAIN c.menus /\ e = c.menus[name]

LoadedInv ==
  /\ \E c \in loaded : clients = c.clients
  /\ \A name \in DOMAIN menus : Part(loaded, name, menus[name])
  /\ \A h \in Handlers :
       ~Idle(h) => /\ up /\ reload[h].config \in loaded
                   /\ reload[h].rest \subseteq DOMAIN reload[h].config.menus

-----------------------------------------------------------------------------
(* What steps leave alone.                                                 *)

\* A script that runs changes the stage of its machine, and nothing else here.
LEMMA ScriptFrame ==
  ASSUME MachineType, NEW m \in Machine, ScriptStep(m)
  PROVE  /\ UNCHANGED <<server, net, power, file, loaders, script, request, since, changes>>
         /\ stage[m] = "script"
         /\ \E to \in ScriptStages : stage' = [stage EXCEPT ![m] = to]
<1> DEFINE Moves == \E to \in ScriptStages : stage' = [stage EXCEPT ![m] = to]
<1>1. UNCHANGED <<server, net, power, file, loaders, script, request, since, changes>>
  BY DEF ScriptStep, Choose, Goto, Skip, LoadFile, ChainTo, BootImage, Exit, Others
<1>2. stage[m] = "script"
  BY DEF ScriptStep, Choose, Goto, Skip, LoadFile, ChainTo, BootImage, Exit, Running
<1>3. UNCHANGED stage => Moves
  BY <1>2 DEF MachineType, ScriptStages
<1>4. \A to \in ScriptStages : Goes(m, to) => Moves
  BY DEF Goes
<1>5. \A l : Jump(m, l) => Moves
  BY <1>3, <1>4 DEF Jump, End, ScriptStages
<1>6. Fail(m) => Moves
  BY <1>4, <1>5 DEF Fail, End, ScriptStages
<1>7. NextCommand(m) => Moves
  BY <1>3 DEF NextCommand
<1>8. \A to \in ScriptStages : End(m, to) => Moves
  BY <1>4 DEF End
<1> HIDE DEF Moves
<1>9. Moves
  BY <1>5, <1>6, <1>7, <1>8
     DEF ScriptStep, Choose, Goto, Skip, LoadFile, ChainTo, BootImage, Exit, ScriptStages
<1> QED
  BY <1>1, <1>2, <1>9 DEF Moves

\* A boot request changes its machine's own state, and the overrides.
RequestStages == {"asked", "resolving", "failed", "script"}

LEMMA ServeFrame ==
  ASSUME MachineType, NEW m \in Machine, ServeHTTP(m)
  PROVE  /\ UNCHANGED <<boot, up, contents, net, power, file, loaders, since, changes>>
         /\ stage[m] \in {"fetch", "asked", "resolving"}
         /\ \E to \in RequestStages : stage' = [stage EXCEPT ![m] = to]
<1> DEFINE Moves == \E to \in RequestStages : stage' = [stage EXCEPT ![m] = to]
           Keeps == UNCHANGED <<boot, up, contents, net, power, file, loaders, since, changes>>
<1> USE DEF server
<1>1. Answered(m) => Keeps
  BY DEF Answered
<1>2. \A to \in RequestStages : Goes(m, to) => Moves
  BY DEF Goes
<1>3. NotFound(m) => Moves
  BY <1>2 DEF NotFound, RequestStages
<1>4. \A s, name : Runs(m, s, name) => Moves
  BY <1>2 DEF Runs, RequestStages
<1>5. UNCHANGED stage /\ stage[m] = "resolving" => Moves
  BY DEF MachineType, RequestStages
<1> HIDE DEF Moves
<1>6. Ask(m) => Keeps /\ stage[m] = "fetch" /\ Moves
  BY <1>2, <1>3 DEF Ask, RequestStages
<1>7. TakeOverride(m) => Keeps /\ stage[m] = "asked" /\ Moves
  BY <1>2 DEF TakeOverride, RequestStages
<1>8. ServeOverride(m) => Keeps /\ stage[m] = "resolving" /\ Moves
  BY <1>1, <1>4, <1>5 DEF ServeOverride
<1>9. Resolve(m) => Keeps /\ stage[m] = "resolving" /\ Moves
  BY <1>1, <1>3, <1>5 DEF Resolve
<1>10. ServeScript(m) => Keeps /\ stage[m] = "resolving" /\ Moves
  BY <1>1, <1>4 DEF ServeScript
<1> QED
  BY <1>6, <1>7, <1>8, <1>9, <1>10 DEF ServeHTTP, Moves

\* Of the other machines it changes nothing.
LEMMA ServeOthers ==
  ASSUME MachineType, NEW m \in Machine, ServeHTTP(m), NEW k \in Machine, k # m
  PROVE  /\ stage'[k] = stage[k] /\ script'[k] = script[k]
         /\ client'[k] = client[k] /\ found'[k] = found[k] /\ met'[k] = met[k]
<1> DEFINE Own == stage'[k] = stage[k] /\ script'[k] = script[k]
           Asked == client'[k] = client[k] /\ found'[k] = found[k] /\ met'[k] = met[k]
<1> USE DEF MachineType
<1>1. ASSUME NEW s, NEW name, Runs(m, s, name) PROVE Own
  BY <1>1 DEF Runs, Goes
<1>2. NotFound(m) => Own
  BY DEF NotFound, Goes, run
<1>3. Answered(m) => Asked
  BY DEF Answered, Forget
<1> HIDE DEF Own
<1>4. UNCHANGED <<stage, run>> => Own
  BY DEF Own, run
<1>5. \A to : Goes(m, to) /\ UNCHANGED run => Own
  BY DEF Own, Goes, run
<1>6. Ask(m) => Own /\ Asked
  BY <1>2, <1>5 DEF Ask
<1>7. TakeOverride(m) => Own /\ Asked
  BY <1>5 DEF TakeOverride
<1>8. ServeOverride(m) => Own /\ Asked
  BY <1>1, <1>3, <1>4 DEF ServeOverride
<1>9. Resolve(m) => Own /\ Asked
  BY <1>2, <1>3, <1>4 DEF Resolve
<1>10. ServeScript(m) => Own /\ Asked
  BY <1>1, <1>3 DEF ServeScript
<1> QED
  BY <1>6, <1>7, <1>8, <1>9, <1>10 DEF ServeHTTP, Own

\* The server itself changes no machine, but the ones whose request dies with it.
ServerMoves ==
  (\E h \in Handlers : Reload(h)) \/ Crash \/ Start \/ SetBootOverride \/ OverrideLost

LEMMA ServerFrame ==
  ASSUME MachineType, ServerMoves
  PROVE  /\ UNCHANGED <<net, power, file, loaders, run>>
         /\ stage' \in [Machine -> {"failed"} \cup {stage[k] : k \in Machine}]
         /\ \A k \in Machine : stage'[k] = stage[k] \/ (Asking(k) /\ stage'[k] = "failed")
<1> DEFINE Same == UNCHANGED <<net, power, file, loaders, run, stage>>
<1>1. ASSUME Same
      PROVE  /\ stage' \in [Machine -> {"failed"} \cup {stage[k] : k \in Machine}]
             /\ \A k \in Machine : stage'[k] = stage[k]
  BY <1>1 DEF MachineType
<1>2. ASSUME NEW h \in Handlers, Reload(h) PROVE Same
  <2>1. BeginReload(h) => Same
    BY DEF BeginReload
  <2>2. EmptyMenus(h) \/ FillMenu(h) => Same
    BY DEF EmptyMenus, FillMenu, Refill, machine
  <2> QED
    BY <1>2, <2>1, <2>2 DEF Reload
<1>3. Start \/ SetBootOverride \/ OverrideLost => Same
  BY DEF Start, SetBootOverride, OverrideLost, machine
<1>4. CASE Crash
  <2>1. UNCHANGED <<net, power, file, loaders, run>>
    BY <1>4 DEF Crash
  <2>2. stage' = [k \in Machine |-> IF Asking(k) THEN "failed" ELSE stage[k]]
    BY <1>4 DEF Crash
  <2> QED
    BY <2>1, <2>2
<1>5. CASE Same
  BY <1>1, <1>5
<1> QED
  BY <1>2, <1>3, <1>4, <1>5 DEF ServerMoves

-----------------------------------------------------------------------------
(* Types.                                                                  *)

LEMMA FilesAreFiles ==
  /\ \A f, mac : File(f) # None /\ Menu(mac) # None /\ File(f) # Menu(mac)
  /\ \A f, mac : File(f)[1] = "file" /\ Menu(mac)[1] = "menu" /\ Menu(mac)[2] = mac
<1>1. Len(None) = 0 /\ \A f, mac : Len(File(f)) = 2 /\ Len(Menu(mac)) = 2
  BY DEF File, Menu, None
<1>2. \A f, mac : File(f)[1] = "file" /\ Menu(mac)[1] = "menu" /\ Menu(mac)[2] = mac
  BY DEF File, Menu
<1>3. \A f, mac : File(f) # None /\ Menu(mac) # None
  BY <1>1
<1> QED
  BY <1>2, <1>3

LEMMA InitType == Init => TypeOK
<1> SUFFICES ASSUME Init PROVE TypeOK
  OBVIOUS
<1>1. ServerType
  BY DEF Init, ServerType
<1>2. stage = [m \in Machine |-> "off"] /\ power = [m \in Machine |-> 0]
      /\ loaders = [m \in Machine |-> 0] /\ met = [m \in Machine |-> FALSE]
  BY DEF Init
<1>3. DOMAIN file = Machine /\ DOMAIN script = Machine /\ DOMAIN since = Machine
      /\ DOMAIN client = Machine /\ DOMAIN taken = Machine /\ DOMAIN found = Machine
  BY DEF Init
<1>4. met \in [Machine -> BOOLEAN]
  BY <1>2, Zenon
<1> QED
  BY <1>1, <1>2, <1>3, <1>4 DEF TypeOK, MachineType

LEMMA ServerStep == ASSUME TypeOK, LoadedInv, [Next]_vars PROVE ServerType'
<1> USE DEF TypeOK, ServerType, server, contents, net, machine, run
<1>1. ASSUME NEW p \in packets, handleMessage(p) PROVE ServerType'
  BY <1>1 DEF handleMessage, BuildProxyOffer
<1>2. ASSUME NEW m \in Machine, ScriptStep(m) PROVE ServerType'
  BY <1>2, ScriptFrame
<1>3. ASSUME NEW m \in Machine,
             PowerOn(m) \/ Discover(m) \/ Request(m) \/ UseReply(m) \/ ReadFile(m)
               \/ serveAutoexec(m)
      PROVE  ServerType'
  BY <1>3 DEF PowerOn, Discover, Request, UseReply, Fetch, ReadFile, serveAutoexec
<1>4. ASSUME NEW m \in Machine, ServeHTTP(m) PROVE ServerType'
  <2>1. UNCHANGED <<boot, up, contents, net>>
    BY <1>4, ServeFrame
  <2>2. DOMAIN overrides' = DOMAIN overrides
    <3>1. TakeOverride(m) => DOMAIN overrides' = DOMAIN overrides
      BY DEF TakeOverride
    <3>2. Ask(m) \/ ServeOverride(m) \/ Resolve(m) \/ ServeScript(m) => UNCHANGED overrides
      BY DEF Ask, ServeOverride, Resolve, ServeScript, Answered
    <3> QED
      BY <1>4, <3>1, <3>2 DEF ServeHTTP
  <2> QED
    BY <2>1, <2>2
<1>5. ASSUME NEW h \in Handlers, Reload(h) PROVE ServerType'
  <2>1. CASE BeginReload(h)
    BY <2>1 DEF BeginReload
  <2>2. ASSUME NEW map, NEW rest, Refill(h, map, rest), ~Idle(h) PROVE ServerType'
    <3>1. loaded' = loaded \/ loaded' = {reload[h].config}
      BY <2>2 DEF Refill
    <3>2. DOMAIN reload' = DOMAIN reload /\ UNCHANGED <<boot, up, overrides, net>>
      BY <2>2 DEF Refill
    <3>3. loaded' \subseteq Config
      BY <2>2, <3>1 DEF LoadedInv
    <3> QED
      BY <3>2, <3>3
  <2>3. CASE EmptyMenus(h) \/ FillMenu(h)
    BY <2>2, <2>3 DEF EmptyMenus, FillMenu, Idle
  <2> QED
    BY <1>5, <2>1, <2>3 DEF Reload
<1>6. CASE Crash \/ Start \/ SetBootOverride \/ OverrideLost
  BY <1>6 DEF Crash, Start, SetBootOverride, OverrideLost
<1>7. CASE UNCHANGED vars
  BY <1>7 DEF vars
<1> QED
  BY <1>1, <1>2, <1>3, <1>4, <1>5, <1>6, <1>7 DEF Next

LEMMA MachineStep == ASSUME TypeOK, [Next]_vars PROVE MachineType'
<1> USE DEF TypeOK, MachineType, server, net, machine, run, request, Goes
<1>1. ASSUME NEW p \in packets, handleMessage(p) PROVE MachineType'
  BY <1>1 DEF handleMessage
<1>2. ASSUME NEW m \in Machine, ScriptStep(m) PROVE MachineType'
  BY <1>2, ScriptFrame DEF ScriptStages
<1>3. ASSUME NEW m \in Machine, PowerOn(m) PROVE MachineType'
  <2>1. Forget(m) => /\ DOMAIN client' = Machine /\ DOMAIN taken' = Machine
                     /\ DOMAIN found' = Machine
    BY DEF Forget
  <2>2. DOMAIN file' = Machine /\ DOMAIN script' = Machine /\ DOMAIN since' = Machine
    BY <1>3 DEF PowerOn
  <2>3. /\ stage' = [stage EXCEPT ![m] = "firmware"]
        /\ power' = [power EXCEPT ![m] = @ + 1] /\ loaders' = [loaders EXCEPT ![m] = 0]
    BY <1>3 DEF PowerOn
  <2>4. met' \in [Machine -> BOOLEAN]
    BY <1>3 DEF PowerOn
  <2> QED
    BY <1>3, <2>1, <2>2, <2>3, <2>4 DEF PowerOn
<1>4. ASSUME NEW m \in Machine, Discover(m) \/ Request(m) \/ UseReply(m) \/ serveAutoexec(m)
      PROVE  MachineType'
  <2>1. CASE Discover(m) \/ Request(m)
    BY <2>1 DEF Discover, Request
  <2>2. CASE UseReply(m) \/ serveAutoexec(m)
    BY <2>2 DEF UseReply, Fetch, serveAutoexec
  <2> QED
    BY <1>4, <2>1, <2>2
<1>5. ASSUME NEW m \in Machine, ReadFile(m) PROVE MachineType'
  BY <1>5 DEF ReadFile
<1>6. ASSUME NEW m \in Machine, ServeHTTP(m) PROVE MachineType'
  <2>1. \A s, name : Runs(m, s, name) => DOMAIN script' = Machine
    BY DEF Runs
  <2>2. NotFound(m) => DOMAIN script' = Machine
    BY DEF NotFound
  <2>3. Answered(m) => /\ DOMAIN client' = Machine /\ DOMAIN taken' = Machine
                       /\ DOMAIN found' = Machine /\ met' \in [Machine -> BOOLEAN]
    BY DEF Answered, Forget
  <2> DEFINE Domains == /\ DOMAIN script' = Machine /\ DOMAIN client' = Machine
                        /\ DOMAIN taken' = Machine /\ DOMAIN found' = Machine
                        /\ met' \in [Machine -> BOOLEAN]
  <2>4. Ask(m) => Domains
    BY <2>2 DEF Ask
  <2>5. TakeOverride(m) => Domains
    BY DEF TakeOverride
  <2>6. ServeOverride(m) => Domains
    BY <2>1, <2>3 DEF ServeOverride
  <2>7. Resolve(m) => Domains
    BY <2>2, <2>3 DEF Resolve
  <2>8. ServeScript(m) => Domains
    BY <2>1, <2>3 DEF ServeScript
  <2>9. Domains
    BY <1>6, <2>4, <2>5, <2>6, <2>7, <2>8 DEF ServeHTTP
  <2> QED
    BY <1>6, <2>9, ServeFrame DEF RequestStages
<1>7. CASE ServerMoves
  <2> DEFINE Domains == /\ DOMAIN since' = Machine /\ DOMAIN client' = Machine
                        /\ DOMAIN taken' = Machine /\ DOMAIN found' = Machine
                        /\ met' \in [Machine -> BOOLEAN]
  <2>1. ASSUME NEW h \in Handlers, Reload(h) PROVE Domains
    <3>1. BeginReload(h) => Domains
      BY DEF BeginReload, Seen, Meets, Asking
    <3>2. EmptyMenus(h) \/ FillMenu(h) => Domains
      BY DEF EmptyMenus, FillMenu, Refill
    <3> QED
      BY <2>1, <3>1, <3>2 DEF Reload
  <2>2. Crash => Domains
    BY DEF Crash, Meets, Asking
  <2>3. Start \/ SetBootOverride \/ OverrideLost => Domains
    BY DEF Start, SetBootOverride, OverrideLost, Seen
  <2>4. Domains
    BY <1>7, <2>1, <2>2, <2>3 DEF ServerMoves
  <2> QED
    BY <1>7, <2>4, ServerFrame
<1>8. CASE UNCHANGED vars
  BY <1>8 DEF vars
<1> QED
  BY <1>1, <1>2, <1>3, <1>4, <1>5, <1>6, <1>7, <1>8 DEF Next, ServerMoves

-----------------------------------------------------------------------------
(* What the server has, part by part.                                      *)

LEMMA InitLoaded == Init => LoadedInv
<1> SUFFICES ASSUME Init PROVE LoadedInv
  OBVIOUS
<1>1. PICK c \in Config : clients = c.clients /\ menus = c.menus /\ loaded = {c}
  BY DEF Init
<1>2. reload = [h \in Handlers |-> [at |-> "idle"]]
  BY DEF Init
<1>3. \A h \in Handlers : Idle(h)
  BY <1>2 DEF Idle
<1> QED
  BY <1>1, <1>3 DEF LoadedInv, Part

\* MenuResolver.Reload keeps to its configuration.
LEMMA RefillKeeps ==
  ASSUME TypeOK, LoadedInv, NEW h \in Handlers, ~Idle(h), NEW map, NEW rest,
         rest \subseteq DOMAIN reload[h].config.menus,
         \A name \in DOMAIN map : Part(loaded, name, map[name]),
         Refill(h, map, rest)
  PROVE  LoadedInv'
<1> DEFINE c == reload[h].config
<1>1. c \in loaded /\ up
  BY DEF LoadedInv
<1>2. menus' = map /\ UNCHANGED <<up, clients>>
  BY DEF Refill
<1>3. \A g \in Handlers \ {h} : reload'[g] = reload[g]
  BY DEF Refill, TypeOK, ServerType
<1>4. CASE rest # {}
  <2>1. reload' = [reload EXCEPT ![h] = [at |-> "fill", config |-> c, rest |-> rest]]
        /\ loaded' = loaded
    BY <1>4 DEF Refill
  <2>2. reload'[h].config = c /\ reload'[h].rest = rest
    BY <2>1 DEF TypeOK, ServerType
  <2>3. ASSUME NEW g \in Handlers \ {h}, ~Idle(g)'
        PROVE  /\ up /\ reload'[g].config \in loaded
               /\ reload'[g].rest \subseteq DOMAIN reload'[g].config.menus
    <3>1. ~Idle(g)
      BY <1>3, <2>3 DEF Idle
    <3> QED
      BY <1>3, <3>1 DEF LoadedInv
  <2> HIDE DEF c
  <2>4. \A g \in Handlers : ~Idle(g)' =>
          /\ up' /\ reload'[g].config \in loaded'
          /\ reload'[g].rest \subseteq DOMAIN reload'[g].config.menus
    BY <1>1, <1>2, <2>1, <2>2, <2>3 DEF c
  <2> QED
    BY <1>2, <2>1, <2>4 DEF LoadedInv, Part
<1>5. CASE rest = {}
  <2>1. reload' = [reload EXCEPT ![h] = [at |-> "idle"]]
    BY <1>5 DEF Refill
  <2>2. Idle(h)'
    BY <2>1 DEF Idle, TypeOK, ServerType
  <2>3. \A g \in Handlers \ {h} : Idle(g)' = Idle(g)
    BY <1>3 DEF Idle
  <2>4. CASE loaded' = loaded
    <3>1. \A g \in Handlers : ~Idle(g)' =>
            /\ up' /\ reload'[g].config \in loaded'
            /\ reload'[g].rest \subseteq DOMAIN reload'[g].config.menus
      BY <1>2, <1>3, <2>2, <2>3, <2>4 DEF LoadedInv
    <3> QED
      BY <1>2, <2>4, <3>1 DEF LoadedInv, Part
  <2>5. CASE loaded' # loaded
    <3>1. /\ \A g \in Handlers \ {h} : Idle(g)
          /\ clients = c.clients /\ map = c.menus /\ loaded' = {c}
      BY <1>5, <2>5 DEF Refill
    <3>2. \A g \in Handlers : Idle(g)'
      BY <2>2, <2>3, <3>1
    <3> HIDE DEF c
    <3> QED
      BY <1>2, <3>1, <3>2 DEF LoadedInv, Part
  <2> QED
    BY <2>4, <2>5
<1> QED
  BY <1>4, <1>5

LEMMA LoadedStep == ASSUME TypeOK, LoadedInv, [Next]_vars PROVE LoadedInv'
<1> USE DEF server, contents
<1>1. UNCHANGED <<up, contents>> => LoadedInv'
  BY DEF LoadedInv, Part, Idle
<1> DEFINE Goal == LoadedInv'
           Same == UNCHANGED <<up, contents>>
<1> SUFFICES Goal
  OBVIOUS
<1> HIDE DEF Goal, Same
<1>2. Same => Goal
  BY <1>1 DEF Same, Goal
<1>3. ASSUME NEW p \in packets, handleMessage(p) PROVE Same
  BY <1>3 DEF handleMessage, Same
<1>4. ASSUME NEW m \in Machine, ScriptStep(m) PROVE Same
  BY <1>4, ScriptFrame DEF TypeOK, Same
<1>5. ASSUME NEW m \in Machine,
             PowerOn(m) \/ Discover(m) \/ Request(m) \/ UseReply(m) \/ ReadFile(m)
               \/ serveAutoexec(m)
      PROVE  Same
  BY <1>5 DEF PowerOn, Discover, Request, UseReply, Fetch, ReadFile, serveAutoexec, Same
<1>6. ASSUME NEW m \in Machine, ServeHTTP(m) PROVE Same
  BY <1>6, ServeFrame DEF TypeOK, Same
<1>7. ASSUME NEW h \in Handlers, Reload(h) PROVE Goal
  <2>1. CASE BeginReload(h)
    <3>1. PICK c \in Config :
            /\ clients' = c.clients /\ loaded' = loaded \cup {c}
            /\ reload' = [reload EXCEPT ![h] = [at |-> "menus", config |-> c, rest |-> {}]]
      BY <2>1 DEF BeginReload
    <3>2. up /\ UNCHANGED <<up, menus>>
      BY <2>1 DEF BeginReload
    <3>3. reload'[h].config = c /\ reload'[h].rest = {}
      BY <3>1 DEF TypeOK, ServerType
    <3>4. \A g \in Handlers \ {h} : reload'[g] = reload[g]
      BY <3>1
    <3>5. \A g \in Handlers \ {h} : ~Idle(g)' =>
            /\ reload'[g].config \in loaded
            /\ reload'[g].rest \subseteq DOMAIN reload'[g].config.menus
      BY <3>4 DEF LoadedInv, Idle
    <3>6. \A g \in Handlers : ~Idle(g)' =>
            /\ up' /\ reload'[g].config \in loaded'
            /\ reload'[g].rest \subseteq DOMAIN reload'[g].config.menus
      BY <3>1, <3>2, <3>3, <3>5
    <3>7. \A name \in DOMAIN menus' : Part(loaded, name, menus[name])'
      BY <3>1, <3>2 DEF LoadedInv, Part
    <3>8. \E d \in loaded' : clients' = d.clients
      BY <3>1
    <3> QED
      BY <3>6, <3>7, <3>8 DEF LoadedInv, Goal
  <2>2. CASE EmptyMenus(h)
    <3>1. ~Idle(h) /\ Refill(h, [n \in {} |-> n], DOMAIN reload[h].config.menus)
      BY <2>2 DEF EmptyMenus, Idle
    <3> QED
      BY <3>1, RefillKeeps DEF Goal
  <2>3. CASE FillMenu(h)
    <3>1. ~Idle(h)
      BY <2>3 DEF FillMenu, Idle
    <3>2. PICK name \in reload[h].rest :
            Refill(h, [n \in DOMAIN menus \cup {name} |->
                        IF n = name THEN reload[h].config.menus[name] ELSE menus[n]],
                   reload[h].rest \ {name})
      BY <2>3 DEF FillMenu
    <3> DEFINE map == [n \in DOMAIN menus \cup {name} |->
                        IF n = name THEN reload[h].config.menus[name] ELSE menus[n]]
    <3>3. reload[h].config \in loaded /\ reload[h].rest \subseteq DOMAIN reload[h].config.menus
      BY <3>1 DEF LoadedInv
    <3>4. Part(loaded, name, map[name])
      BY <3>3 DEF Part
    <3>5. \A n \in DOMAIN menus \ {name} : Part(loaded, n, map[n])
      BY DEF LoadedInv
    <3>6. \A n \in DOMAIN map : Part(loaded, n, map[n])
      BY <3>4, <3>5
    <3> HIDE DEF map
    <3>7. Refill(h, map, reload[h].rest \ {name})
      BY <3>2 DEF map
    <3> QED
      BY <3>1, <3>3, <3>6, <3>7, RefillKeeps DEF Goal
  <2> QED
    BY <1>7, <2>1, <2>2, <2>3 DEF Reload
<1>8. Crash => Goal
  <2> SUFFICES ASSUME Crash PROVE Goal
    OBVIOUS
  <2>1. reload' = [h \in Handlers |-> [at |-> "idle"]] /\ UNCHANGED <<clients, menus, loaded>>
    BY DEF Crash
  <2>2. \A h \in Handlers : Idle(h)'
    BY <2>1 DEF Idle
  <2> QED
    BY <2>1, <2>2 DEF LoadedInv, Part, Goal
<1>9. Start => Goal
  <2> SUFFICES ASSUME Start PROVE Goal
    OBVIOUS
  <2>1. PICK c \in Config : clients' = c.clients /\ menus' = c.menus /\ loaded' = {c}
    BY DEF Start
  <2>2. \A h \in Handlers : Idle(h)'
    BY DEF Start, LoadedInv, Idle
  <2> QED
    BY <2>1, <2>2 DEF LoadedInv, Part, Goal
<1>10. SetBootOverride \/ OverrideLost => Same
  BY DEF SetBootOverride, OverrideLost, Same
<1>11. UNCHANGED vars => Same
  BY DEF vars, Same
<1> QED
  BY <1>2, <1>3, <1>4, <1>5, <1>6, <1>7, <1>8, <1>9, <1>10, <1>11 DEF Next

-----------------------------------------------------------------------------
(* What a machine's power cycle has seen.                                  *)

SinceInv ==
  \A m \in Machine : /\ power[m] > 0 => Now \subseteq since[m]
                     /\ power[m] = 0 => since[m] = {}
                     /\ stage[m] # "off" => power[m] > 0

LEMMA InitSince == Init => SinceInv
<1> SUFFICES ASSUME Init, NEW m \in Machine
             PROVE  power[m] = 0 /\ since[m] = {} /\ stage[m] = "off"
  BY DEF SinceInv
<1> QED
  BY DEF Init

\* What the server has is what it had, or those who are on have seen it.
LEMMA ServerSeen ==
  ASSUME TypeOK, LoadedInv, ServerMoves
  PROVE  (since' = since /\ Now' \subseteq Now) \/ Seen
<1> DEFINE Less == since' = since /\ boot' = boot /\ loaded' \subseteq loaded
<1>1. Less => since' = since /\ Now' \subseteq Now
  BY DEF Now
<1> USE DEF contents
<1>2. ASSUME NEW h \in Handlers, Reload(h) PROVE Less \/ Seen
  <2>1. BeginReload(h) => Seen
    BY DEF BeginReload
  <2>2. ASSUME NEW map, NEW rest, Refill(h, map, rest), ~Idle(h) PROVE Less
    <3>1. reload[h].config \in loaded
      BY <2>2 DEF LoadedInv
    <3> QED
      BY <2>2, <3>1 DEF Refill
  <2>3. EmptyMenus(h) => Less
    BY <2>2 DEF EmptyMenus, Idle
  <2>4. FillMenu(h) => Less
    <3> SUFFICES ASSUME FillMenu(h) PROVE \E map, rest : Refill(h, map, rest) /\ ~Idle(h)
      BY <2>2
    <3> QED
      BY DEF FillMenu, Idle
  <2> QED
    BY <1>2, <2>1, <2>3, <2>4 DEF Reload
<1>3. Crash \/ SetBootOverride \/ OverrideLost => Less
  BY DEF Crash, SetBootOverride, OverrideLost
<1>4. Start => Seen
  BY DEF Start
<1> HIDE DEF Less
<1> QED
  BY <1>1, <1>2, <1>3, <1>4 DEF ServerMoves

LEMMA SinceStep == ASSUME TypeOK, LoadedInv, SinceInv, [Next]_vars PROVE SinceInv'
<1> USE DEF TypeOK, MachineType, SinceInv, server, contents, net, machine, run, Goes
<1>0. UNCHANGED <<boot, loaded>> => Now' = Now
  BY DEF Now
<1>1. ASSUME NEW p \in packets, handleMessage(p) PROVE SinceInv'
  BY <1>0, <1>1 DEF handleMessage
<1>2. ASSUME NEW m \in Machine, ScriptStep(m) PROVE SinceInv'
  BY <1>0, <1>2, ScriptFrame
<1>3. ASSUME NEW m \in Machine, PowerOn(m) PROVE SinceInv'
  <2>1. power'[m] = power[m] + 1 /\ since'[m] = Now /\ Now' = Now
    BY <1>0, <1>3 DEF PowerOn
  <2>2. \A k \in Machine \ {m} : power'[k] = power[k] /\ since'[k] = since[k] /\ stage'[k] = stage[k]
    BY <1>3 DEF PowerOn
  <2> QED
    BY <2>1, <2>2
<1>4. ASSUME NEW m \in Machine, Discover(m) \/ Request(m) \/ UseReply(m) \/ serveAutoexec(m)
      PROVE  SinceInv'
  BY <1>0, <1>4 DEF Discover, Request, UseReply, Fetch, serveAutoexec
<1>5. ASSUME NEW m \in Machine, ReadFile(m) PROVE SinceInv'
  BY <1>0, <1>5 DEF ReadFile
<1>6. ASSUME NEW m \in Machine, ServeHTTP(m) PROVE SinceInv'
  <2>1. UNCHANGED <<power, since>> /\ Now' = Now
    BY <1>0, <1>6, ServeFrame
  <2>2. \A k \in Machine : stage'[k] # "off" => stage[k] # "off"
    BY <1>6, ServeFrame
  <2> QED
    BY <2>1, <2>2
<1>7. CASE ServerMoves
  <2>1. \A k \in Machine : stage'[k] # "off" => stage[k] # "off"
    BY <1>7, ServerFrame DEF Asking
  <2>2. power' = power
    BY <1>7, ServerFrame
  <2>3. CASE since' = since /\ Now' \subseteq Now
    BY <2>1, <2>2, <2>3
  <2>4. CASE Seen
    <3>1. since' = [m \in Machine |-> IF power[m] = 0 THEN {} ELSE since[m] \cup Now']
      BY <2>4 DEF Seen
    <3> QED
      BY <2>1, <2>2, <3>1
  <2> QED
    BY <1>7, <2>3, <2>4, ServerSeen
<1>8. CASE UNCHANGED vars
  BY <1>0, <1>8 DEF vars
<1> QED
  BY <1>1, <1>2, <1>3, <1>4, <1>5, <1>6, <1>7, <1>8 DEF Next, ServerMoves

\* What it has seen stays seen until it is switched on again.
LEMMA Seeing ==
  ASSUME TypeOK, LoadedInv, SinceInv, NEW k \in Machine, [Next]_vars, ~PowerOn(k)
  PROVE  power'[k] = power[k] /\ since[k] \subseteq since'[k]
<1> DEFINE Goal == power'[k] = power[k] /\ since[k] \subseteq since'[k]
<1> SUFFICES Goal
  OBVIOUS
<1> USE DEF TypeOK, MachineType, SinceInv, server, net, machine, run
<1>1. ASSUME NEW p \in packets, handleMessage(p) PROVE Goal
  BY <1>1 DEF handleMessage
<1>2. ASSUME NEW m \in Machine, ScriptStep(m) PROVE Goal
  BY <1>2, ScriptFrame
<1>3. ASSUME NEW m \in Machine, PowerOn(m) PROVE Goal
  BY <1>3 DEF PowerOn
<1>4. ASSUME NEW m \in Machine,
             Discover(m) \/ Request(m) \/ UseReply(m) \/ ReadFile(m) \/ serveAutoexec(m)
      PROVE  Goal
  BY <1>4 DEF Discover, Request, UseReply, Fetch, ReadFile, serveAutoexec
<1>5. ASSUME NEW m \in Machine, ServeHTTP(m) PROVE Goal
  BY <1>5, ServeFrame
<1>6. CASE ServerMoves
  <2>1. power' = power
    BY <1>6, ServerFrame
  <2>2. Seen => since[k] \subseteq since'[k]
    BY DEF Seen
  <2> QED
    BY <1>6, <2>1, <2>2, ServerSeen
<1>7. CASE UNCHANGED vars
  BY <1>7 DEF vars
<1> QED
  BY <1>1, <1>2, <1>3, <1>4, <1>5, <1>6, <1>7 DEF Next, ServerMoves

-----------------------------------------------------------------------------
(* Packets and replies, of this power cycle of their machine or an earlier *)
(* one.                                                                    *)

Classes == {"", "iPXE"}
PacketOK(p) ==
  p.mac \in Machine =>
    \E n \in Nat, u \in Classes :
      /\ p.xid = <<n, u>> /\ n <= power[p.mac]
      /\ n > 0 => p.userClass = u /\ p.arch = ArchOf[p.mac]
ReplyOK(r) ==
  r.mac \in Machine =>
    \E n \in Nat, u \in Classes :
      /\ r.xid = <<n, u>> /\ n <= power[r.mac]
      /\ n > 0 /\ n = power[r.mac] =>
           IF u = "iPXE" THEN r.bootfile = Menu(r.mac) ELSE BootFileOf(r.mac, r.bootfile)
NetInv == (\A p \in packets : PacketOK(p)) /\ (\A r \in replies : ReplyOK(r))

LEMMA InitNet == Init => NetInv
<1> SUFFICES ASSUME Init PROVE NetInv
  OBVIOUS
<1>1. power = [m \in Machine |-> 0] /\ packets = Noise /\ replies = {}
  BY DEF Init
<1>2. ASSUME NEW p \in Noise PROVE PacketOK(p)
  <2> SUFFICES ASSUME p.mac \in Machine
               PROVE  \E n \in Nat, u \in Classes :
                        p.xid = <<n, u>> /\ n <= power[p.mac] /\ ~(n > 0)
    BY DEF PacketOK
  <2>1. power[p.mac] = 0
    BY <1>1
  <2>2. PICK u \in Classes : p.xid = <<0, u>>
    BY NoiseAssumption DEF Classes
  <2>3. 0 \in Nat /\ 0 <= power[p.mac] /\ ~(0 > 0)
    BY <2>1
  <2> QED
    BY <2>2, <2>3
<1> QED
  BY <1>1, <1>2 DEF NetInv

\* What a machine sends.
LEMMA PacketIsOK ==
  ASSUME TypeOK, NEW m \in Machine, NEW type, NEW u \in Classes
  PROVE  PacketOK(Packet(m, type, u))
<1> DEFINE p == Packet(m, type, u)
<1>1. p.mac = m /\ p.xid = <<power[m], u>> /\ p.userClass = u /\ p.arch = ArchOf[m]
  BY DEF Packet
<1>2. power[m] \in Nat /\ power[m] <= power[m]
  BY DEF TypeOK, MachineType
<1> HIDE DEF p
<1>3. PacketOK(p)
  BY <1>1, <1>2 DEF PacketOK
<1> QED
  BY <1>3 DEF p

\* What the server answers.
LEMMA ReplyIsOK ==
  ASSUME TypeOK, LoadedInv, SinceInv, NEW p \in packets, PacketOK(p), Bootfile(p) # None
  PROVE  ReplyOK(BuildProxyOffer(p, Bootfile(p)))
<1> DEFINE r == BuildProxyOffer(p, Bootfile(p))
<1>1. r.mac = p.mac /\ r.xid = p.xid /\ r.bootfile = Bootfile(p)
  BY DEF BuildProxyOffer
<1> HIDE DEF r
<1>2. SUFFICES ASSUME p.mac \in Machine
               PROVE  ReplyOK(r)
  BY <1>1 DEF r, ReplyOK
<1>3. PICK n \in Nat, u \in Classes :
         /\ p.xid = <<n, u>> /\ n <= power[p.mac]
         /\ n > 0 => p.userClass = u /\ p.arch = ArchOf[p.mac]
  BY <1>2 DEF PacketOK
<1>4. ASSUME n > 0, u = "iPXE" PROVE Bootfile(p) = Menu(p.mac)
  BY <1>3, <1>4 DEF Bootfile, isIPXE, resolveChainURL
<1>5. ASSUME n > 0, n = power[p.mac], u # "iPXE" PROVE BootFileOf(p.mac, Bootfile(p))
  <2>1. Bootfile(p) = bootfileForClient(boot, clients, p.mac, ArchOf[p.mac])
    BY <1>3, <1>5 DEF Bootfile, isIPXE
  <2>2. PICK c \in loaded : clients = c.clients
    BY DEF LoadedInv
  <2>3. <<boot, c>> \in since[p.mac]
    BY <1>2, <1>5, <2>2 DEF SinceInv, Now
  <2>4. <<boot, c>>[1] = boot /\ <<boot, c>>[2] = c
    OBVIOUS
  <2> QED
    BY <2>1, <2>2, <2>3, <2>4 DEF BootFileOf
<1> QED
  BY <1>1, <1>3, <1>4, <1>5 DEF ReplyOK

\* They stay what they are.
LEMMA PacketStays ==
  ASSUME TypeOK, LoadedInv, SinceInv, [Next]_vars, NEW p, PacketOK(p)
  PROVE  PacketOK(p)'
<1> SUFFICES ASSUME p.mac \in Machine
             PROVE  PacketOK(p)'
  BY DEF PacketOK
<1>1. power[p.mac] \in Nat /\ power'[p.mac] \in Nat /\ power[p.mac] <= power'[p.mac]
  <2>1. power[p.mac] \in Nat /\ power'[p.mac] \in Nat
    BY MachineStep DEF TypeOK, MachineType
  <2>2. CASE PowerOn(p.mac)
    BY <2>1, <2>2 DEF PowerOn, TypeOK, MachineType
  <2>3. CASE ~PowerOn(p.mac)
    BY <2>1, <2>3, Seeing
  <2> QED
    BY <2>2, <2>3, <2>1
<1>2. PICK n \in Nat, u \in Classes :
         /\ p.xid = <<n, u>> /\ n <= power[p.mac]
         /\ n > 0 => p.userClass = u /\ p.arch = ArchOf[p.mac]
  BY DEF PacketOK
<1>3. n <= power'[p.mac]
  BY <1>1, <1>2
<1> QED
  BY <1>2, <1>3 DEF PacketOK

LEMMA ReplyStays ==
  ASSUME TypeOK, LoadedInv, SinceInv, [Next]_vars, NEW r, ReplyOK(r)
  PROVE  ReplyOK(r)'
<1> SUFFICES ASSUME r.mac \in Machine
             PROVE  ReplyOK(r)'
  BY DEF ReplyOK
<1>1. PICK n \in Nat, u \in Classes :
        /\ r.xid = <<n, u>> /\ n <= power[r.mac]
        /\ n > 0 /\ n = power[r.mac] =>
             IF u = "iPXE" THEN r.bootfile = Menu(r.mac) ELSE BootFileOf(r.mac, r.bootfile)
  BY DEF ReplyOK
<1>2. CASE PowerOn(r.mac)
  <2>1. power[r.mac] \in Nat /\ power'[r.mac] = power[r.mac] + 1
    BY <1>2 DEF PowerOn, TypeOK, MachineType
  <2>2. n <= power'[r.mac] /\ n # power'[r.mac]
    BY <1>1, <2>1
  <2> QED
    BY <1>1, <2>2 DEF ReplyOK
<1>3. CASE ~PowerOn(r.mac)
  <2>1. power'[r.mac] = power[r.mac] /\ since[r.mac] \subseteq since'[r.mac]
    BY <1>3, Seeing
  <2>2. BootFileOf(r.mac, r.bootfile) => BootFileOf(r.mac, r.bootfile)'
    BY <2>1 DEF BootFileOf
  <2> QED
    BY <1>1, <2>1, <2>2 DEF ReplyOK
<1> QED
  BY <1>2, <1>3

LEMMA NetStep == ASSUME TypeOK, LoadedInv, SinceInv, NetInv, [Next]_vars PROVE NetInv'
<1>1. packets' \subseteq packets \cup
        {Packet(m, type, u) : m \in Machine, type \in {"discover", "request"}, u \in Classes}
  <2> DEFINE Sent == {Packet(m, type, u) : m \in Machine, type \in {"discover", "request"}, u \in Classes}
  <2>1. ASSUME NEW p \in packets, handleMessage(p) PROVE packets' \subseteq packets
    BY <2>1 DEF handleMessage
  <2>2. ASSUME NEW m \in Machine, ScriptStep(m) PROVE packets' \subseteq packets
    BY <2>2, ScriptFrame DEF TypeOK, net
  <2>3. ASSUME NEW m \in Machine, Discover(m) \/ Request(m) PROVE packets' \subseteq packets \cup Sent
    <3>1. UserClass(m) \in Classes /\ "" \in Classes
      BY DEF UserClass, Classes
    <3>2. \/ packets' = packets \cup {Packet(m, "discover", UserClass(m))}
          \/ packets' = packets \cup {Packet(m, "request", "")}
      BY <2>3 DEF Discover, Request
    <3>3. ASSUME NEW type \in {"discover", "request"}, NEW u \in Classes
          PROVE  Packet(m, type, u) \in Sent
      OBVIOUS
    <3> HIDE DEF Sent
    <3>4. Packet(m, "discover", UserClass(m)) \in Sent /\ Packet(m, "request", "") \in Sent
      BY <3>1, <3>3
    <3> QED
      BY <3>2, <3>4
  <2>4. ASSUME NEW m \in Machine,
               PowerOn(m) \/ UseReply(m) \/ ReadFile(m) \/ serveAutoexec(m)
        PROVE  packets' \subseteq packets
    BY <2>4 DEF PowerOn, UseReply, Fetch, ReadFile, serveAutoexec, net
  <2>5. ASSUME NEW m \in Machine, ServeHTTP(m) PROVE packets' = packets
    BY <2>5, ServeFrame DEF TypeOK, net
  <2>6. ServerMoves => packets' = packets
    BY ServerFrame DEF TypeOK, net
  <2>7. UNCHANGED vars => packets' = packets
    BY DEF vars, net
  <2> QED
    BY <2>1, <2>2, <2>3, <2>4, <2>5, <2>6, <2>7 DEF Next, ServerMoves
<1>2. replies' \subseteq replies \cup
        {BuildProxyOffer(p, Bootfile(p)) : p \in {q \in packets : Bootfile(q) # None}}
  <2>1. ASSUME NEW p \in packets, handleMessage(p)
        PROVE  Bootfile(p) # None /\ replies' = replies \cup {BuildProxyOffer(p, Bootfile(p))}
    BY <2>1 DEF handleMessage
  <2>2. ASSUME NEW m \in Machine, ScriptStep(m) PROVE replies' = replies
    BY <2>2, ScriptFrame DEF TypeOK, net
  <2>3. ASSUME NEW m \in Machine,
               PowerOn(m) \/ Discover(m) \/ Request(m) \/ UseReply(m) \/ ReadFile(m)
                 \/ serveAutoexec(m)
        PROVE  replies' = replies
    BY <2>3 DEF PowerOn, Discover, Request, UseReply, Fetch, ReadFile, serveAutoexec, net
  <2>4. ASSUME NEW m \in Machine, ServeHTTP(m) PROVE replies' = replies
    BY <2>4, ServeFrame DEF TypeOK, net
  <2>5. ServerMoves => replies' = replies
    BY ServerFrame DEF TypeOK, net
  <2>6. UNCHANGED vars => replies' = replies
    BY DEF vars, net
  <2> QED
    BY <2>1, <2>2, <2>3, <2>4, <2>5, <2>6 DEF Next, ServerMoves
<1>3. ASSUME NEW p \in packets' PROVE PacketOK(p)'
  <2>1. PacketOK(p)
    BY <1>1, <1>3, PacketIsOK DEF NetInv
  <2> QED
    BY <2>1, PacketStays
<1>4. ASSUME NEW r \in replies' PROVE ReplyOK(r)'
  <2>1. ReplyOK(r)
    BY <1>2, <1>4, ReplyIsOK DEF NetInv
  <2> QED
    BY <2>1, ReplyStays
<1> QED
  BY <1>3, <1>4 DEF NetInv

-----------------------------------------------------------------------------
(* What a machine fetches.                                                 *)

FetchInv ==
  \A m \in Machine :
    /\ loaders[m] \in {0, 1}
    /\ stage[m] \in {"off", "firmware"} => loaders[m] = 0
    /\ stage[m] = "fetch" => \/ /\ BootFileOf(m, file[m]) /\ file[m] # None
                                /\ file[m][1] = "file" /\ loaders[m] = 0
                             \/ file[m] \in {Menu(m), Menu(Net0[m])}

LEMMA InitFetch == Init => FetchInv
<1> SUFFICES ASSUME Init, NEW m \in Machine
             PROVE  loaders[m] = 0 /\ stage[m] = "off"
  BY DEF FetchInv
<1> QED
  BY DEF Init

\* Another machine, or one that does nothing of its own, keeps what it has.
LEMMA FetchStays ==
  ASSUME TypeOK, LoadedInv, SinceInv, FetchInv, [Next]_vars, NEW k \in Machine,
         power'[k] = power[k], loaders'[k] = loaders[k], file'[k] = file[k],
         stage'[k] = stage[k] \/ stage'[k] \in ScriptStages \cup RequestStages
  PROVE  /\ loaders'[k] \in {0, 1}
         /\ stage'[k] \in {"off", "firmware"} => loaders'[k] = 0
         /\ stage'[k] = "fetch" => \/ /\ BootFileOf(k, file[k])' /\ file'[k] # None
                                      /\ file'[k][1] = "file" /\ loaders'[k] = 0
                                   \/ file'[k] \in {Menu(k), Menu(Net0[k])}
<1>1. ~PowerOn(k)
  <2>1. power[k] \in Nat
    BY DEF TypeOK, MachineType
  <2> QED
    BY <2>1 DEF PowerOn, TypeOK, MachineType
<1>2. since[k] \subseteq since'[k]
  BY <1>1, Seeing
<1>3. BootFileOf(k, file[k]) => BootFileOf(k, file[k])'
  BY <1>2 DEF BootFileOf
<1> QED
  BY <1>3 DEF FetchInv, ScriptStages, RequestStages

\* A reply that a machine takes is one of this power cycle.
LEMMA ReplyTaken ==
  ASSUME TypeOK, SinceInv, NetInv, NEW m \in Machine, stage[m] \in {"firmware", "ipxe"},
         NEW r \in Replies(m, "offer") \cup Replies(m, "ack")
  PROVE  /\ stage[m] = "firmware" => BootFileOf(m, r.bootfile) /\ r.bootfile # None
         /\ stage[m] = "ipxe" => r.bootfile = Menu(m)
<1>1. r \in replies /\ r.mac = m /\ r.xid = <<power[m], UserClass(m)>>
  BY DEF Replies
<1>2. PICK n \in Nat, u \in Classes :
        /\ r.xid = <<n, u>> /\ n <= power[r.mac]
        /\ n > 0 /\ n = power[r.mac] =>
             IF u = "iPXE" THEN r.bootfile = Menu(r.mac) ELSE BootFileOf(r.mac, r.bootfile)
  BY <1>1 DEF NetInv, ReplyOK
<1>3. n = power[m] /\ u = UserClass(m)
  BY <1>1, <1>2
<1>4. power[m] > 0
  BY DEF SinceInv
<1>5. r.bootfile # None
  BY <1>1 DEF TypeOK, ServerType
<1> QED
  BY <1>1, <1>2, <1>3, <1>4, <1>5 DEF UserClass

\* bootfileForClient names a file.
LEMMA NamesFile ==
  ASSUME NEW m, NEW f, BootFileOf(m, f), f # None
  PROVE  f[1] = "file"
BY FilesAreFiles DEF BootFileOf, bootfileForClient

LEMMA FetchStep ==
  ASSUME TypeOK, LoadedInv, SinceInv, NetInv, FetchInv, [Next]_vars PROVE FetchInv'
<1> DEFINE Fetched(k) ==
      /\ loaders[k] \in {0, 1}
      /\ stage[k] \in {"off", "firmware"} => loaders[k] = 0
      /\ stage[k] = "fetch" => \/ /\ BootFileOf(k, file[k]) /\ file[k] # None
                                  /\ file[k][1] = "file" /\ loaders[k] = 0
                               \/ file[k] \in {Menu(k), Menu(Net0[k])}
<1> SUFFICES ASSUME NEW k \in Machine PROVE Fetched(k)'
  BY DEF FetchInv
<1>0. Fetched(k)
  BY DEF FetchInv
<1> DEFINE Still == /\ power'[k] = power[k] /\ loaders'[k] = loaders[k] /\ file'[k] = file[k]
                    /\ stage'[k] = stage[k] \/ stage'[k] \in ScriptStages \cup RequestStages
<1>1. Still => Fetched(k)'
  BY FetchStays
<1> HIDE DEF Fetched
<1> USE DEF TypeOK, MachineType, server, net, machine, run, Goes
<1>2. ASSUME NEW p \in packets, handleMessage(p) PROVE Still
  BY <1>2 DEF handleMessage
<1>3. ASSUME NEW m \in Machine, ScriptStep(m) PROVE Still
  BY <1>3, ScriptFrame
<1>4. ASSUME NEW m \in Machine, Discover(m) \/ Request(m) PROVE Still
  BY <1>4 DEF Discover, Request
<1>5. CASE ServerMoves
  <2>1. Still
    BY <1>5, ServerFrame DEF ScriptStages
  <2> QED
    BY <1>1, <2>1
<1>6. CASE UNCHANGED vars
  <2>1. Still
    BY <1>6 DEF vars
  <2> QED
    BY <1>1, <2>1
<1>7. ASSUME NEW m \in Machine, ServeHTTP(m) PROVE Still
  BY <1>7, ServeFrame
<1>8. ASSUME NEW m \in Machine, PowerOn(m) PROVE Still \/ Fetched(k)'
  <2>1. k # m => Still
    BY <1>8 DEF PowerOn
  <2>2. k = m => loaders'[k] = 0 /\ stage'[k] = "firmware"
    BY <1>8 DEF PowerOn
  <2> QED
    BY <2>1, <2>2 DEF Fetched
<1>9. ASSUME NEW m \in Machine, ReadFile(m) PROVE Still \/ Fetched(k)'
  <2>1. k # m => Still
    BY <1>9 DEF ReadFile
  <2>2. k = m => /\ stage[k] = "fetch" /\ file[k][1] = "file"
                 /\ loaders'[k] = loaders[k] + 1 /\ stage'[k] \in {"ipxe", "failed"}
    BY <1>9 DEF ReadFile
  <2>3. k = m => loaders[k] = 0
    BY <2>2, <1>0, FilesAreFiles DEF Fetched
  <2> QED
    BY <2>1, <2>2, <2>3 DEF Fetched
<1>10. ASSUME NEW m \in Machine, serveAutoexec(m) PROVE Still \/ Fetched(k)'
  <2>1. k # m => Still
    BY <1>10 DEF serveAutoexec, Fetch
  <2>2. k = m => /\ loaders'[k] = loaders[k] /\ stage'[k] = "fetch"
                 /\ file'[k] = Menu(Net0[k])
    BY <1>10 DEF serveAutoexec, Fetch
  <2> QED
    BY <2>1, <2>2, <1>0 DEF Fetched
<1>11. ASSUME NEW m \in Machine, UseReply(m) PROVE Still \/ Fetched(k)'
  <2>1. k # m => Still
    BY <1>11 DEF UseReply, Fetch
  <2>2. ASSUME k = m PROVE Fetched(k)'
    <3>1. PICK r \in Replies(k, "offer") \cup Replies(k, "ack") : Fetch(k, r.bootfile)
      BY <1>11, <2>2 DEF UseReply
    <3>2. stage[k] \in {"firmware", "ipxe"}
      BY <1>11, <2>2 DEF UseReply
    <3>3. /\ loaders'[k] = loaders[k] /\ stage'[k] = "fetch" /\ file'[k] = r.bootfile
          /\ since' = since
      BY <3>1 DEF Fetch
    <3>4. CASE stage[k] = "firmware"
      <4>1. BootFileOf(k, r.bootfile) /\ r.bootfile # None
        BY <3>2, <3>4, ReplyTaken
      <4>2. r.bootfile[1] = "file"
        BY <4>1, NamesFile
      <4>3. BootFileOf(k, file[k])'
        BY <3>3, <4>1 DEF BootFileOf
      <4>4. loaders[k] = 0
        BY <1>0, <3>4 DEF Fetched
      <4> QED
        BY <3>3, <4>1, <4>2, <4>3, <4>4 DEF Fetched
    <3>5. CASE stage[k] = "ipxe"
      <4>1. r.bootfile = Menu(k)
        BY <3>2, <3>5, ReplyTaken
      <4> QED
        BY <3>3, <4>1, <1>0 DEF Fetched
    <3> QED
      BY <3>2, <3>4, <3>5
  <2> QED
    BY <2>1, <2>2
<1> QED
  BY <1>1, <1>2, <1>3, <1>4, <1>5, <1>6, <1>7, <1>8, <1>9, <1>10, <1>11 DEF Next, ServerMoves

-----------------------------------------------------------------------------
(* The boot request of a machine, bit by bit.                              *)

\* What a request has so far is of some configurations: its client, and the entries of
\* the names it has looked up.
Sound(configs, m) ==
  /\ \E c \in configs : client[m] = FindClient(c.clients, file[m][2])
  /\ \A i \in 1..Len(found[m]) : Part(configs, client[m].entries[i], found[m][i])

RequestOK(m) ==
  Asking(m) =>
    /\ up /\ file[m] \in {Menu(m), Menu(Net0[m])}
    /\ client[m] # NoClient /\ client[m].enabled /\ client[m].entries \in Seq(STRING)
    /\ found[m] \in Seq(Entries)
    /\ Sound(Cycle(m), m)
    /\ ~met[m] => /\ \A h \in Handlers : Idle(h)
                  /\ \E c \in Cycle(m) : Whole(c) /\ Sound({c}, m)
    /\ stage[m] = "asked" => found[m] = <<>>
RequestInv == \A m \in Machine : (~Asking(m) => found[m] = <<>>) /\ RequestOK(m)

LEMMA PartMore ==
  ASSUME NEW few, NEW many, few \subseteq many, NEW name, NEW e, Part(few, name, e)
  PROVE  Part(many, name, e)
BY DEF Part

\* What the server has, a machine that is on has seen.
LEMMA LoadedSeen ==
  ASSUME SinceInv, NEW m \in Machine, stage[m] # "off"
  PROVE  loaded \subseteq Cycle(m)
<1> SUFFICES ASSUME NEW c \in loaded PROVE c \in Cycle(m)
  OBVIOUS
<1>1. <<boot, c>> \in since[m] /\ <<boot, c>>[2] = c
  BY DEF SinceInv, Now
<1> QED
  BY <1>1 DEF Cycle

\* Everything in the map is an entry.
LEMMA MenusEntries ==
  ASSUME TypeOK, LoadedInv, NEW name \in DOMAIN menus
  PROVE  menus[name] \in Entries /\ menus[name].name = name
BY ConfigAssumption DEF LoadedInv, Part, TypeOK, ServerType

\* A request that nobody touches stays what it is, whatever is reloaded meanwhile.
LEMMA RequestStays ==
  ASSUME NEW k \in Machine, RequestOK(k), since[k] \subseteq since'[k],
         Asking(k)' => /\ Asking(k) /\ stage'[k] = stage[k] /\ client'[k] = client[k]
                       /\ found'[k] = found[k] /\ file'[k] = file[k] /\ up'
                       /\ \/ met'[k]
                          \/ met'[k] = met[k] /\ UNCHANGED <<reload, clients, menus>>
  PROVE  RequestOK(k)'
<1> SUFFICES ASSUME Asking(k)' PROVE RequestOK(k)'
  BY DEF RequestOK
<1>1. Cycle(k) \subseteq Cycle(k)'
  BY DEF Cycle
<1>2. \A few, many : few \subseteq many /\ Sound(few, k) => Sound(many, k)'
  BY PartMore DEF Sound
<1>3. Sound(Cycle(k), k)'
  BY <1>1, <1>2 DEF RequestOK
<1>4. ASSUME ~met'[k]
      PROVE  /\ \A h \in Handlers : Idle(h)'
             /\ \E c \in Cycle(k)' : Whole(c)' /\ Sound({c}, k)'
  <2>1. \A h \in Handlers : Idle(h)'
    BY <1>4 DEF RequestOK, Idle
  <2>2. PICK c \in Cycle(k) : Whole(c) /\ Sound({c}, k)
    BY <1>4 DEF RequestOK
  <2>3. Whole(c)'
    BY <1>4, <2>2 DEF Whole
  <2>4. Sound({c}, k)'
    BY <2>2, <1>2
  <2> QED
    BY <1>1, <2>1, <2>2, <2>3, <2>4
<1> QED
  BY <1>3, <1>4 DEF RequestOK

\* Every step of the request keeps it sound.
LEMMA AskOK ==
  ASSUME TypeOK, LoadedInv, SinceInv, FetchInv, RequestInv, NEW m \in Machine, Ask(m)
  PROVE  RequestOK(m)' /\ found' = found /\ (Asking(m)' => ~Asking(m))
<1> DEFINE c == FindClient(clients, file[m][2])
<1>1. found' = found /\ ~Asking(m) /\ up /\ UNCHANGED <<file, since, contents, up>>
  BY DEF Ask, Asking, server
<1> SUFFICES ASSUME Asking(m)' PROVE RequestOK(m)'
  BY <1>1 DEF RequestOK
<1>2. NotFound(m) => stage'[m] = "failed"
  BY DEF NotFound, Goes, TypeOK, MachineType
<1>3. c # NoClient /\ c.enabled /\ client' = [client EXCEPT ![m] = c] /\ ~NotFound(m)
  BY <1>2 DEF Ask, Asking
<1>4. client'[m] = c
  BY <1>3 DEF TypeOK, MachineType
<1>5. found[m] = <<>> /\ Len(found[m]) = 0
  BY <1>1 DEF RequestInv
<1>6. found'[m] \in Seq(Entries)
  <2>1. <<>> \in Seq(Entries)
    OBVIOUS
  <2> QED
    BY <1>1, <1>5, <2>1
<1> HIDE DEF c
<1>7. Cycle(m)' = Cycle(m) /\ loaded \subseteq Cycle(m)
  <2>1. stage[m] = "fetch"
    BY DEF Ask
  <2> QED
    BY <1>1, <2>1, LoadedSeen DEF Cycle
<1>8. ASSUME NEW few, NEW d \in few, clients = d.clients PROVE Sound(few, m)'
  <2>1. client'[m] = FindClient(d.clients, file'[m][2])
    BY <1>1, <1>4, <1>8 DEF c
  <2>2. 1..Len(found'[m]) = {}
    BY <1>1, <1>5
  <2> QED
    BY <1>8, <2>1, <2>2 DEF Sound
<1>9. Sound(Cycle(m), m)'
  <2>1. PICK d \in loaded : clients = d.clients
    BY DEF LoadedInv
  <2>2. d \in Cycle(m)
    BY <1>7, <2>1
  <2>3. \A few : (\E e \in few : clients = e.clients) => Sound(few, m)'
    BY <1>8
  <2> QED
    BY <1>7, <2>1, <2>2, <2>3
<1>10. ASSUME ~met'[m]
       PROVE  /\ \A h \in Handlers : Idle(h)'
              /\ \E d \in Cycle(m)' : Whole(d)' /\ Sound({d}, m)'
  <2>1. Quiet
    BY <1>10 DEF Ask, TypeOK, MachineType
  <2>2. PICK d \in loaded : Whole(d)
    BY <2>1 DEF Quiet
  <2>3. d \in Cycle(m)' /\ Whole(d)' /\ clients = d.clients
    BY <1>1, <1>7, <2>2 DEF Whole, contents
  <2>4. Sound({d}, m)'
    BY <1>8, <2>3
  <2>5. \A h \in Handlers : Idle(h)'
    BY <1>1, <2>1 DEF Quiet, Idle, contents
  <2> QED
    BY <2>3, <2>4, <2>5
<1>11. client'[m].entries \in Seq(STRING)
  <2>1. PICK d \in loaded : clients = d.clients
    BY DEF LoadedInv
  <2>2. d \in Config
    BY <2>1 DEF TypeOK, ServerType
  <2> QED
    BY <1>3, <1>4, <2>1, <2>2, ConfigAssumption DEF c, FindClient
<1>12. file'[m] \in {Menu(m), Menu(Net0[m])}
  <2>1. stage[m] = "fetch" /\ file[m][1] = "menu"
    BY DEF Ask
  <2> QED
    BY <1>1, <2>1 DEF FetchInv
<1> QED
  BY <1>1, <1>3, <1>4, <1>5, <1>6, <1>9, <1>10, <1>11, <1>12 DEF RequestOK

LEMMA ResolveOK ==
  ASSUME TypeOK, LoadedInv, SinceInv, RequestInv, NEW m \in Machine, Resolve(m), Asking(m)'
  PROVE  RequestOK(m)'
<1> DEFINE names == client[m].entries
           n == Len(found[m])
           name == names[n + 1]
<1>1. NotFound(m) => stage'[m] = "failed"
  BY DEF NotFound, Goes, TypeOK, MachineType
<1>2. /\ name \in DOMAIN menus /\ found' = [found EXCEPT ![m] = Append(@, menus[name])]
      /\ UNCHANGED <<server, stage, file, client, met, since>>
  BY <1>1 DEF Resolve, Asking
<1>3. Asking(m) /\ RequestOK(m)
  BY DEF Resolve, Asking, RequestInv
<1>4. found[m] \in Seq(Entries) /\ n \in Nat /\ menus[name] \in Entries
  BY <1>2, <1>3, MenusEntries DEF RequestOK
<1>5. found'[m] = Append(found[m], menus[name])
  BY <1>2 DEF TypeOK, MachineType
<1>6. /\ found'[m] \in Seq(Entries) /\ Len(found'[m]) = n + 1
      /\ found'[m][n + 1] = menus[name] /\ \A i \in 1..n : found'[m][i] = found[m][i]
  BY <1>4, <1>5
<1> HIDE DEF name, names
<1>7. ASSUME NEW few, Sound(few, m), Part(few, name, menus[name]) PROVE Sound(few, m)'
  <2>1. \E c \in few : client'[m] = FindClient(c.clients, file'[m][2])
    BY <1>2, <1>7 DEF Sound
  <2>2. ASSUME NEW i \in 1..Len(found'[m]) PROVE Part(few, client'[m].entries[i], found'[m][i])
    <3>1. CASE i = n + 1
      BY <1>2, <1>6, <1>7, <3>1 DEF name, names
    <3>2. CASE i # n + 1
      <4>1. i \in 1..n
        BY <1>4, <1>6, <3>2
      <4>2. Part(few, client[m].entries[i], found[m][i])
        BY <1>7, <4>1 DEF Sound
      <4> QED
        BY <1>2, <1>6, <4>1, <4>2
    <3> QED
      BY <3>1, <3>2
  <2> QED
    BY <2>1, <2>2 DEF Sound
<1>8. Cycle(m)' = Cycle(m) /\ loaded \subseteq Cycle(m)
  <2>1. stage[m] # "off"
    BY <1>3 DEF Asking
  <2> QED
    BY <1>2, <2>1, LoadedSeen DEF Cycle
<1>9. Sound(Cycle(m), m)'
  <2>1. Part(Cycle(m), name, menus[name])
    BY <1>2, <1>8, PartMore DEF LoadedInv
  <2>2. Sound(Cycle(m), m)
    BY <1>3 DEF RequestOK
  <2>3. \A few : Sound(few, m) /\ Part(few, name, menus[name]) => Sound(few, m)'
    BY <1>7
  <2> QED
    BY <1>8, <2>1, <2>2, <2>3
<1>10. ASSUME ~met'[m]
       PROVE  /\ \A h \in Handlers : Idle(h)'
              /\ \E c \in Cycle(m)' : Whole(c)' /\ Sound({c}, m)'
  <2>1. ~met[m]
    BY <1>2, <1>10
  <2>2. PICK c \in Cycle(m) : Whole(c) /\ Sound({c}, m)
    BY <1>3, <2>1 DEF RequestOK
  <2>3. Part({c}, name, menus[name])
    BY <1>2, <2>2 DEF Whole, Part
  <2>4. Sound({c}, m)'
    BY <1>7, <2>2, <2>3
  <2>5. Whole(c)' /\ \A h \in Handlers : Idle(h)'
    BY <1>2, <1>3, <2>1, <2>2 DEF Whole, Idle, RequestOK, server, contents
  <2> QED
    BY <1>8, <2>2, <2>4, <2>5
<1>11. stage'[m] # "asked"
  BY <1>2 DEF Resolve
<1>12. up' /\ file'[m] \in {Menu(m), Menu(Net0[m])} /\ client'[m] # NoClient /\ client'[m].enabled
       /\ client'[m].entries \in Seq(STRING)
  BY <1>2, <1>3 DEF RequestOK, server
<1> QED
  BY <1>6, <1>9, <1>10, <1>11, <1>12 DEF RequestOK

LEMMA RequestOwn ==
  ASSUME TypeOK, LoadedInv, SinceInv, FetchInv, RequestInv, NEW m \in Machine, ServeHTTP(m)
  PROVE  RequestOK(m)' /\ (~Asking(m)' => found'[m] = <<>>)
<1>1. ASSUME Answered(m), stage'[m] \in {"failed", "script"}
      PROVE  RequestOK(m)' /\ (~Asking(m)' => found'[m] = <<>>)
  <2>1. found'[m] = <<>>
    BY <1>1 DEF Answered, Forget, TypeOK, MachineType
  <2> QED
    BY <1>1, <2>1 DEF RequestOK, Asking
<1>2. \A s, name : Runs(m, s, name) => stage'[m] = "script"
  BY DEF Runs, Goes, TypeOK, MachineType
<1>3. NotFound(m) => stage'[m] = "failed"
  BY DEF NotFound, Goes, TypeOK, MachineType
\* The request goes on with what it has.
<1>4. ASSUME stage'[m] = "resolving", Asking(m), UNCHANGED <<up, contents, client, found, met, file, since>>
      PROVE  RequestOK(m)' /\ (~Asking(m)' => found'[m] = <<>>)
  <2>1. Sound(Cycle(m), m)' = Sound(Cycle(m), m)
    BY <1>4 DEF Sound, Cycle, Part
  <2>2. \A c : Sound({c}, m)' = Sound({c}, m)
    BY <1>4 DEF Sound, Part
  <2>3. Cycle(m)' = Cycle(m) /\ (\A c : Whole(c)' = Whole(c)) /\ \A h : Idle(h)' = Idle(h)
    BY <1>4 DEF Cycle, Whole, Idle, contents
  <2>4. RequestOK(m)
    BY DEF RequestInv
  <2>5. Asking(m)'
    BY <1>4 DEF Asking
  <2> QED
    BY <1>4, <2>1, <2>2, <2>3, <2>4, <2>5 DEF RequestOK
<1>5. CASE Ask(m)
  <2>1. RequestOK(m)' /\ found' = found /\ ~Asking(m)
    BY <1>5, AskOK DEF Ask, Asking
  <2> QED
    BY <2>1 DEF RequestInv
<1>6. CASE TakeOverride(m)
  <2>1. stage'[m] = "resolving"
    BY <1>6 DEF TakeOverride, Goes, TypeOK, MachineType
  <2> QED
    BY <1>4, <1>6, <2>1 DEF TakeOverride, Asking
<1>7. CASE ServeOverride(m)
  <2>1. CASE Answered(m) /\ \E s, name : Runs(m, s, name)
    BY <1>1, <1>2, <2>1
  <2>2. CASE UNCHANGED <<server, stage, client, found, met, file, since>>
    BY <1>4, <1>7, <2>2 DEF ServeOverride, Asking, server
  <2> QED
    BY <1>7, <2>1, <2>2 DEF ServeOverride
<1>8. CASE Resolve(m)
  <2>1. CASE NotFound(m) /\ Answered(m)
    BY <1>1, <1>3, <2>1
  <2>2. CASE UNCHANGED stage
    <3>1. Asking(m)'
      BY <1>8, <2>2 DEF Resolve, Asking
    <3> QED
      BY <1>8, <3>1, ResolveOK
  <2> QED
    BY <1>8, <2>1, <2>2 DEF Resolve
<1>9. CASE ServeScript(m)
  BY <1>1, <1>2, <1>9 DEF ServeScript
<1> QED
  BY <1>5, <1>6, <1>7, <1>8, <1>9 DEF ServeHTTP

LEMMA InitRequest == Init => RequestInv
<1> SUFFICES ASSUME Init, NEW m \in Machine PROVE ~Asking(m) /\ found[m] = <<>>
  BY DEF RequestInv, RequestOK
<1> QED
  BY DEF Init, Asking

LEMMA RequestStep ==
  ASSUME TypeOK, LoadedInv, SinceInv, FetchInv, RequestInv, [Next]_vars PROVE RequestInv'
<1> DEFINE Good(k) == (~Asking(k) => found[k] = <<>>) /\ RequestOK(k)
<1> SUFFICES ASSUME NEW k \in Machine PROVE Good(k)'
  BY DEF RequestInv
<1> DEFINE Goal == Good(k)'
           Same == /\ UNCHANGED <<stage, request, file, up>>
                   /\ since[k] \subseteq since'[k] /\ UNCHANGED <<reload, clients, menus>>
           Away == ~Asking(k)' /\ found'[k] = <<>>
<1>0. Good(k)
  BY DEF RequestInv
<1> USE DEF server, contents, net, machine, request
<1>1. Same => Goal
  <2> SUFFICES ASSUME Same PROVE Goal
    OBVIOUS
  <2>1. stage' = stage /\ client' = client /\ found' = found /\ file' = file /\ met' = met /\ up' = up
    OBVIOUS
  <2>2. Asking(k)' = Asking(k)
    BY <2>1 DEF Asking
  <2>3. RequestOK(k)'
    <3>1. Asking(k)' => up'
      BY <1>0, <2>1, <2>2 DEF RequestOK
    <3> HIDE DEF Good
    <3>2. RequestOK(k)
      BY <1>0 DEF Good
    <3> QED
      BY <2>1, <2>2, <3>1, <3>2, RequestStays
  <2> QED
    BY <1>0, <2>1, <2>2, <2>3
<1>2. Away => Goal
  BY DEF RequestOK
<1> SUFFICES Goal
  OBVIOUS
<1> HIDE DEF Goal, Good
<1>3. ASSUME NEW p \in packets, handleMessage(p) PROVE Same
  BY <1>3 DEF handleMessage
<1>4. ASSUME NEW m \in Machine, Discover(m) \/ Request(m) PROVE Same
  BY <1>4 DEF Discover, Request
<1>5. SetBootOverride \/ OverrideLost => Same
  BY DEF SetBootOverride, OverrideLost
<1>6. UNCHANGED vars => Same
  BY DEF vars
\* Steps of one machine: another one's request is the same, its own is over or not begun.
<1> DEFINE Other == /\ stage'[k] = stage[k] /\ client'[k] = client[k] /\ found'[k] = found[k]
                    /\ file'[k] = file[k] /\ met'[k] = met[k]
                    /\ UNCHANGED <<up, reload, clients, menus>> /\ since[k] \subseteq since'[k]
<1>7. Other => Goal
  <2> SUFFICES ASSUME Other PROVE Goal
    OBVIOUS
  <2>1. Asking(k)' = Asking(k)
    BY DEF Asking
  <2>2. RequestOK(k) /\ (Asking(k)' => up')
    BY <1>0, <2>1 DEF RequestOK, Good
  <2>3. RequestOK(k)'
    BY <2>1, <2>2, RequestStays
  <2> QED
    BY <1>0, <2>1, <2>3 DEF Goal, Good
<1>8. ASSUME NEW m \in Machine, ScriptStep(m) PROVE Other \/ Away
  <2>1. UNCHANGED <<server, file, request, since>> /\ stage[m] = "script"
    BY <1>8, ScriptFrame DEF TypeOK
  <2>2. PICK to \in ScriptStages : stage' = [stage EXCEPT ![m] = to]
    BY <1>8, ScriptFrame DEF TypeOK
  <2>3. k # m => Other
    BY <2>1, <2>2 DEF TypeOK, MachineType
  <2>4. k = m => Away
    BY <1>0, <2>1, <2>2 DEF TypeOK, MachineType, Asking, ScriptStages, Good
  <2> QED
    BY <2>3, <2>4
<1>9. ASSUME NEW m \in Machine, PowerOn(m) PROVE Other \/ Away
  <2>1. k = m => Away
    BY <1>9 DEF PowerOn, Forget, Goes, TypeOK, MachineType, Asking
  <2>2. k # m => Other
    BY <1>9 DEF PowerOn, Forget, Goes, TypeOK, MachineType
  <2> QED
    BY <2>1, <2>2
<1>10. ASSUME NEW m \in Machine, UseReply(m) \/ serveAutoexec(m) \/ ReadFile(m) PROVE Other \/ Away
  <2>1. /\ stage[m] \in {"firmware", "ipxe", "fetch"} /\ UNCHANGED <<server, request, since>>
        /\ \A x \in Machine \ {m} : stage'[x] = stage[x] /\ file'[x] = file[x]
        /\ stage'[m] \in {"fetch", "ipxe", "failed"}
    BY <1>10 DEF UseReply, serveAutoexec, ReadFile, Fetch, Goes, TypeOK, MachineType
  <2>2. k = m => Away
    BY <1>0, <2>1 DEF Asking, Good
  <2> QED
    BY <2>1, <2>2
<1>11. ASSUME NEW m \in Machine, ServeHTTP(m) PROVE Other \/ Goal
  <2>1. k # m => Other
    BY <1>11, ServeOthers, ServeFrame DEF TypeOK
  <2>2. k = m => Goal
    BY <1>11, RequestOwn DEF Goal, Good
  <2> QED
    BY <2>1, <2>2
<1>12. ASSUME NEW h \in Handlers, Reload(h) PROVE Goal
  <2>1. /\ UNCHANGED <<stage, client, found, file, up>>
    <3>1. BeginReload(h) => UNCHANGED <<stage, client, found, file, up>>
      BY DEF BeginReload
    <3>2. EmptyMenus(h) \/ FillMenu(h) => UNCHANGED <<stage, client, found, file, up>>
      BY DEF EmptyMenus, FillMenu, Refill
    <3> QED
      BY <1>12, <3>1, <3>2 DEF Reload
  <2>2. Asking(k)' = Asking(k)
    BY <2>1 DEF Asking
  <2>3. Asking(k) => met'[k]
    <3>1. BeginReload(h) /\ Asking(k) => met'[k]
      BY DEF BeginReload, Meets, TypeOK, MachineType
    <3>2. EmptyMenus(h) \/ FillMenu(h) => ~Idle(h) /\ met' = met
      BY DEF EmptyMenus, FillMenu, Refill, Idle
    <3>3. Asking(k) /\ ~Idle(h) => met[k]
      BY <1>0 DEF RequestOK, Good
    <3> QED
      BY <1>12, <3>1, <3>2, <3>3 DEF Reload
  <2>4. RequestOK(k) /\ (Asking(k)' => up')
    BY <1>0, <2>1, <2>2 DEF RequestOK, Good
  <2>5. since[k] \subseteq since'[k]
    <3>1. power' = power /\ power[k] \in Nat
      BY <1>12, ServerFrame DEF ServerMoves, TypeOK, MachineType
    <3>2. ~PowerOn(k)
      BY <3>1 DEF PowerOn, TypeOK, MachineType
    <3> QED
      BY <3>2, Seeing
  <2>6. RequestOK(k)'
    BY <2>1, <2>2, <2>3, <2>4, <2>5, RequestStays
  <2> QED
    BY <1>0, <2>1, <2>2, <2>6 DEF Goal, Good
<1>13. Crash => Away
  BY DEF Crash, Asking, TypeOK, MachineType
<1>14. Start => Away
  <2> SUFFICES ASSUME Start PROVE Away
    OBVIOUS
  <2>1. ~up /\ UNCHANGED <<stage, found>>
    BY DEF Start
  <2>2. ~Asking(k)
    BY <1>0, <2>1 DEF RequestOK, Good
  <2> QED
    BY <1>0, <2>1, <2>2 DEF Asking, Good
<1> HIDE DEF Same, Away, Other
<1> QED
  BY <1>1, <1>2, <1>3, <1>4, <1>5, <1>6, <1>7, <1>8, <1>9, <1>10, <1>11, <1>12, <1>13, <1>14
     DEF Next

-----------------------------------------------------------------------------
(* The script it runs.                                                     *)

LEMMA InitScript == Init => OwnScript
<1> SUFFICES ASSUME Init, NEW m \in Machine PROVE stage[m] # "script"
  BY DEF OwnScript
<1> QED
  BY DEF Init

\* More configurations allow more scripts.
LEMMA ScriptOfMore ==
  ASSUME NEW few, NEW many, few \subseteq many, NEW m, NEW s, ScriptOf(few, m, s)
  PROVE  ScriptOf(many, m, s)
<1>1. OverrideOf(few, s) => OverrideOf(many, s)
  BY DEF OverrideOf
<1>2. ASSUME NEW names, MenuOfClient(few, names, s) PROVE MenuOfClient(many, names, s)
  <2>1. [DOMAIN names -> few] \subseteq [DOMAIN names -> many]
    OBVIOUS
  <2> QED
    BY <1>2, <2>1 DEF MenuOfClient
<1> QED
  BY <1>1, <1>2 DEF ScriptOf

\* All the names of a client, looked up one by one.
LEMMA MenuMadeOf ==
  ASSUME NEW configs, NEW names \in Seq(STRING), NEW entries \in Seq(Entries), entries # <<>>,
         Len(entries) = Len(names), \A i \in 1..Len(entries) : Part(configs, names[i], entries[i])
  PROVE  MenuOfClient(configs, names, Generate(entries))
<1> DEFINE Is(i, c) == names[i] \in DOMAIN c.menus /\ entries[i] = c.menus[names[i]]
           of == [i \in DOMAIN names |-> CHOOSE c \in configs : Is(i, c)]
           made == [i \in DOMAIN names |-> of[i].menus[names[i]]]
<1>1. /\ DOMAIN names = 1..Len(entries) /\ DOMAIN entries = 1..Len(entries)
      /\ Len(entries) \in Nat /\ Len(entries) # 0
  <2>1. Len(entries) \in Nat /\ DOMAIN entries = 1..Len(entries) /\ DOMAIN names = 1..Len(names)
    OBVIOUS
  <2>2. Len(entries) # 0
    BY EmptySeq
  <2> QED
    BY <2>1, <2>2
<1>2. ASSUME NEW i \in DOMAIN names PROVE of[i] \in configs /\ Is(i, of[i])
  <2>1. \E c \in configs : Is(i, c)
    BY <1>1 DEF Part
  <2> HIDE DEF Is
  <2>2. of[i] = CHOOSE c \in configs : Is(i, c)
    OBVIOUS
  <2> QED
    BY <2>1, <2>2
<1>3. of \in [DOMAIN names -> configs]
  BY <1>2
<1>4. entries = [i \in DOMAIN entries |-> entries[i]]
  OBVIOUS
<1>5. \A i \in DOMAIN names : entries[i] = of[i].menus[names[i]]
  BY <1>2
<1> HIDE DEF of
<1>6. made = entries
  BY <1>1, <1>4, <1>5
<1>7. names # <<>>
  BY <1>1
<1> QED
  BY <1>2, <1>3, <1>6, <1>7 DEF MenuOfClient

\* What a request that is sound lets its machine run.
LEMMA ScriptSound ==
  ASSUME NEW m \in Machine, NEW configs, Sound(configs, m), file[m][2] = m,
         client[m] # NoClient, client[m].enabled, client[m].entries \in Seq(STRING),
         found[m] \in Seq(Entries)
  PROVE  /\ \A name \in DOMAIN menus :
              Part(configs, name, menus[name]) => ScriptOf(configs, m, GenerateOverride(menus[name]))
         /\ found[m] # <<>> /\ Len(found[m]) = Len(client[m].entries) =>
              ScriptOf(configs, m, Generate(found[m]))
<1>1. PICK c \in configs : client[m] = FindClient(c.clients, m)
  BY DEF Sound
<1>2. \A s : OverrideOf(configs, s) \/ MenuOfClient(configs, client[m].entries, s)
               => ScriptOf(configs, m, s)
  BY <1>1 DEF ScriptOf
<1>3. ASSUME NEW name \in DOMAIN menus, Part(configs, name, menus[name])
      PROVE  OverrideOf(configs, GenerateOverride(menus[name]))
  BY <1>3 DEF OverrideOf, Part
<1>4. ASSUME found[m] # <<>>, Len(found[m]) = Len(client[m].entries)
      PROVE  MenuOfClient(configs, client[m].entries, Generate(found[m]))
  BY <1>4, MenuMadeOf DEF Sound
<1> QED
  BY <1>2, <1>3, <1>4

\* What ServeHTTP lets a machine run.
LEMMA ScriptServed ==
  ASSUME TypeOK, LoadedInv, SinceInv, RequestInv, NEW m \in Machine, Net0[m] = m, ServeHTTP(m),
         stage'[m] = "script"
  PROVE  /\ ScriptOf(Cycle(m), m, script'[m])
         /\ ~met'[m] => \E c \in Cycle(m) : ScriptOf({c}, m, script'[m])
<1>1. ~NotFound(m) /\ \A to : to # "script" => ~Goes(m, to)
  BY DEF NotFound, Goes, TypeOK, MachineType
<1>2. /\ Asking(m) /\ stage[m] = "resolving" /\ Answered(m)
      /\ \/ /\ taken[m] \in DOMAIN menus
            /\ Runs(m, GenerateOverride(menus[taken[m]]), taken[m])
         \/ /\ found[m] # <<>> /\ Len(found[m]) = Len(client[m].entries)
            /\ Runs(m, Generate(found[m]), Chosen(found[m]))
  <2>1. stage[m] # "script"
    BY ServeFrame DEF TypeOK
  <2>2. ~Ask(m) /\ ~TakeOverride(m)
    BY <1>1 DEF Ask, TakeOverride
  <2>3. ~Resolve(m)
    BY <1>1, <2>1 DEF Resolve
  <2>4. ServeOverride(m) \/ ServeScript(m)
    BY <2>2, <2>3 DEF ServeHTTP
  <2> QED
    BY <2>1, <2>4 DEF ServeOverride, ServeScript, Asking
<1>3. met' = met
  BY <1>2 DEF Answered
<1>4. RequestOK(m)
  BY DEF RequestInv
<1>5. file[m][2] = m
  BY <1>2, <1>4, FilesAreFiles DEF RequestOK
<1>6. \A s, name : Runs(m, s, name) => script'[m] = s
  BY DEF Runs, TypeOK, MachineType
<1>7. ASSUME NEW configs, Sound(configs, m),
             \A name \in DOMAIN menus : Part(configs, name, menus[name])
      PROVE  ScriptOf(configs, m, script'[m])
  <2>1. /\ \A name \in DOMAIN menus : ScriptOf(configs, m, GenerateOverride(menus[name]))
        /\ found[m] # <<>> /\ Len(found[m]) = Len(client[m].entries) =>
             ScriptOf(configs, m, Generate(found[m]))
    BY <1>2, <1>4, <1>5, <1>7, ScriptSound DEF RequestOK
  <2> QED
    BY <1>2, <1>6, <2>1
<1>8. ScriptOf(Cycle(m), m, script'[m])
  <2>1. loaded \subseteq Cycle(m)
    BY <1>2, LoadedSeen
  <2>2. \A name \in DOMAIN menus : Part(Cycle(m), name, menus[name])
    BY <2>1, PartMore DEF LoadedInv
  <2> QED
    BY <1>2, <1>4, <1>7, <2>2 DEF RequestOK
<1>9. ASSUME ~met[m] PROVE \E c \in Cycle(m) : ScriptOf({c}, m, script'[m])
  <2>1. PICK c \in Cycle(m) : Whole(c) /\ Sound({c}, m)
    BY <1>2, <1>4, <1>9 DEF RequestOK
  <2>2. \A name \in DOMAIN menus : Part({c}, name, menus[name])
    BY <2>1 DEF Whole, Part
  <2> QED
    BY <1>7, <2>1, <2>2
<1> QED
  BY <1>3, <1>8, <1>9

LEMMA ScriptStepsOn ==
  ASSUME TypeOK, LoadedInv, SinceInv, RequestInv, OwnScript, [Next]_vars PROVE OwnScript'
<1> SUFFICES ASSUME NEW k \in Machine, stage'[k] = "script", Net0[k] = k
             PROVE  /\ ScriptOf(Cycle(k)', k, script'[k])
                    /\ ~met'[k] => \E c \in Cycle(k)' : ScriptOf({c}, k, script'[k])
  BY DEF OwnScript, ScriptOf, OverrideOf, MenuOfClient
<1> DEFINE Kept == stage[k] = "script" /\ script'[k] = script[k] /\ met'[k] = met[k]
           Served1 == ServeHTTP(k)
<1> USE DEF TypeOK, MachineType, server, net, machine, run, request, Goes
<1>1. ~PowerOn(k)
  BY DEF PowerOn
<1>2. Cycle(k) \subseteq Cycle(k)'
  <2>1. since[k] \subseteq since'[k]
    BY <1>1, Seeing
  <2> QED
    BY <2>1 DEF Cycle
<1>3. Kept \/ Served1
  <2>1. ASSUME NEW p \in packets, handleMessage(p) PROVE Kept
    BY <2>1 DEF handleMessage
  <2>2. ASSUME NEW m \in Machine, ScriptStep(m) PROVE Kept
    BY <2>2, ScriptFrame
  <2>3. ASSUME NEW m \in Machine, PowerOn(m) PROVE Kept
    BY <2>3 DEF PowerOn
  <2>4. ASSUME NEW m \in Machine,
               Discover(m) \/ Request(m) \/ UseReply(m) \/ serveAutoexec(m) \/ ReadFile(m)
        PROVE  Kept
    BY <2>4 DEF Discover, Request, UseReply, Fetch, serveAutoexec, ReadFile
  <2>5. ASSUME NEW m \in Machine, ServeHTTP(m), m # k PROVE Kept
    BY <2>5, ServeOthers
  <2>6. CASE ServerMoves
    <3>1. script' = script /\ stage[k] = "script"
      BY <2>6, ServerFrame
    <3>2. ~Asking(k)
      BY <3>1 DEF Asking
    <3>3. met'[k] = met[k]
      <4>1. ASSUME NEW h \in Handlers, Reload(h) PROVE met'[k] = met[k]
        <5>1. BeginReload(h) => met'[k] = (met[k] \/ Asking(k))
          BY DEF BeginReload, Meets
        <5>2. EmptyMenus(h) \/ FillMenu(h) => met' = met
          BY DEF EmptyMenus, FillMenu, Refill
        <5>3. met[k] \in BOOLEAN
          OBVIOUS
        <5> QED
          BY <3>2, <4>1, <5>1, <5>2, <5>3 DEF Reload
      <4>2. Crash => met'[k] = (met[k] \/ Asking(k))
        BY DEF Crash, Meets
      <4>3. Start \/ SetBootOverride \/ OverrideLost => met' = met
        BY DEF Start, SetBootOverride, OverrideLost
      <4>4. met[k] \in BOOLEAN
        OBVIOUS
      <4> QED
        BY <2>6, <3>2, <4>1, <4>2, <4>3, <4>4 DEF ServerMoves
    <3> QED
      BY <3>1, <3>3
  <2>7. CASE UNCHANGED vars
    BY <2>7 DEF vars
  <2> HIDE DEF Kept
  <2> QED
    BY <2>1, <2>2, <2>3, <2>4, <2>5, <2>6, <2>7 DEF Next, ServerMoves
<1>4. ASSUME ScriptOf(Cycle(k), k, script'[k])
      PROVE  ScriptOf(Cycle(k)', k, script'[k])
  BY <1>2, <1>4, ScriptOfMore
<1>5. CASE Kept
  BY <1>2, <1>4, <1>5 DEF OwnScript
<1>6. CASE Served1
  <2>1. /\ ScriptOf(Cycle(k), k, script'[k])
        /\ ~met'[k] => \E c \in Cycle(k) : ScriptOf({c}, k, script'[k])
    BY <1>6, ScriptServed
  <2> QED
    BY <1>2, <1>4, <2>1
<1> QED
  BY <1>3, <1>5, <1>6

-----------------------------------------------------------------------------
(* Induction, for the loops that are recursive functions.                  *)

\* The order of the naturals, as a set of pairs, has no infinite descent.
Less == {pair \in Nat \X Nat : pair[1] < pair[2]}
LEMMA LessWF == IsWellFoundedOn(Less, Nat)
<1>1. OpToRel(<, Nat) = Less
  BY DEF OpToRel, Less
<1> QED
  BY <1>1, NatLessThanWellFounded, Zenon

\* Induction over a set: the predicate of an induction is the set of the
\* naturals that have it, and a least natural outside cannot exist.
LEMMA Induction ==
  ASSUME NEW T, 0 \in T, \A n \in Nat : n \in T => n + 1 \in T
  PROVE  Nat \subseteq T
<1> DEFINE rest == Nat \ T
<1>1. SUFFICES ASSUME rest # {} PROVE FALSE
  OBVIOUS
<1>2. PICK x \in rest : \A y \in rest : <<y, x>> \notin Less
  <2>1. rest \subseteq Nat
    OBVIOUS
  <2> HIDE DEF rest
  <2> QED
    BY <1>1, <2>1, LessWF, WFMin
<1>3. x \in Nat /\ x # 0
  BY <1>2
<1>4. x - 1 \in Nat /\ <<x - 1, x>> \in Less
  BY <1>3 DEF Less
<1> QED
  BY <1>2, <1>3, <1>4

\* g is a run of a loop of n rounds that starts with c; step[i] is round i.
LoopRun(g, n, S, c, step) ==
  /\ g \in [0..n -> S]
  /\ g[0] = c
  /\ \A i \in 1..n : g[i] = step[i][g[i-1]]

\* Every loop has a run.
LEMMA LoopRuns ==
  ASSUME NEW n \in Nat, NEW S, NEW c \in S, NEW step \in [1..n -> [S -> S]]
  PROVE  \E g : LoopRun(g, n, S, c, step)
<1> DEFINE T == {m \in Nat : m <= n => \E g : LoopRun(g, m, S, c, step)}
<1>1. 0 \in T
  <2>1. LoopRun([i \in 0..0 |-> c], 0, S, c, step)
    BY DEF LoopRun
  <2> QED
    BY <2>1
<1>2. ASSUME NEW m \in Nat, m \in T PROVE m + 1 \in T
  <2> SUFFICES ASSUME m + 1 <= n PROVE \E h : LoopRun(h, m + 1, S, c, step)
    OBVIOUS
  <2>1. PICK g : LoopRun(g, m, S, c, step)
    BY <1>2
  <2> DEFINE h == [i \in 0..m+1 |-> IF i <= m THEN g[i] ELSE step[m + 1][g[m]]]
  <2>2. g[m] \in S /\ step[m + 1] \in [S -> S]
    BY <2>1 DEF LoopRun
  <2>3. h \in [0..m+1 -> S] /\ h[0] = c
    BY <2>1, <2>2 DEF LoopRun
  <2>4. ASSUME NEW i \in 1..m+1 PROVE h[i] = step[i][h[i-1]]
    <3>1. h[i-1] = g[i-1]
      OBVIOUS
    <3>2. CASE i <= m
      BY <2>1, <3>1, <3>2 DEF LoopRun
    <3>3. CASE i = m + 1
      BY <3>1, <3>3
    <3> QED
      BY <3>2, <3>3
  <2>5. LoopRun(h, m + 1, S, c, step)
    BY <2>3, <2>4 DEF LoopRun
  <2> QED
    BY <2>5
<1>3. n \in T
  <2> HIDE DEF T
  <2> QED
    BY <1>1, <1>2, Induction
<1> QED
  BY <1>3


-----------------------------------------------------------------------------
(* How scripts are made.                                                   *)

\* The commands of an entry, and how one follows another: a label and a command that
\* loads are followed by one of the same entry.
Ops == {"label", "load", "chain", "boot", "exit"}
Owner(c) == IF c.op = "label" THEN c.arg ELSE c.of
Wellformed(c) ==
  /\ c.op \in Ops
  /\ c.op = "label" => c = Label(c.arg)
  /\ c.op \in {"load", "boot", "exit"} => c.fallback = ""
  /\ c.op = "chain" => c.fallback \in {"", "start", "failed"}
Follows(c, d) ==
  /\ d.op # "label" /\ d.of = Owner(c)
  /\ c.op = "load" => d.op \in {"load", "boot"}
Ordered(s, i) ==
  /\ Wellformed(s[i])
  /\ s[i].op \in {"label", "load"} => i + 1 \in 1..Len(s) /\ Follows(s[i], s[i + 1])
Tidy(s) == \A i \in 1..Len(s) : Ordered(s, i)

\* A script without a menu: all of it is for one entry.
SingleScript(s, name) ==
  /\ Len(s) > 0 /\ Tidy(s)
  /\ \A i \in 1..Len(s) : s[i].op \in {"load", "chain", "boot"} /\ s[i].of = name

\* The script of a menu: n is where its last label is.
MenuHead(s) == /\ s[1] = Label("start")
               /\ s[2].op = "choose" /\ s[2].fallback = "failed"
               /\ s[3] = Cmd("goto", "selected", "", "")
MenuTail(s, n) == /\ s[n] = Label("failed") /\ s[n + 1] = Cmd("goto", "start", "", "")
MenuBody(s, n) ==
  \A i \in 4..n-1 : /\ Wellformed(s[i])
                    /\ s[i].op \in {"label", "load"} =>
                         i + 1 \in 4..n-1 /\ Follows(s[i], s[i + 1])
MenuOf(s, n) == /\ n \in Nat /\ n > 3 /\ Len(s) = n + 1
                /\ MenuHead(s) /\ MenuTail(s, n) /\ MenuBody(s, n)
MenuScript(s) == \E n : MenuOf(s, n)

\* What is written in a script, with the words of its own.
Texts == STRING \cup {"", "label", "choose", "goto", "load", "chain", "boot", "exit",
                     "start", "selected", "failed", "wimboot"}
Args == Texts \cup (Texts \X Texts) \cup Seq(Texts)
Commands == [op : Texts, arg : Args, fallback : Texts, of : Texts]
Loads(e) == {c \in Commands : c.op = "load" /\ c.fallback = "" /\ c.of = e.name}

LEMMA CmdType ==
  ASSUME NEW op \in Texts, NEW arg \in Args, NEW fallback \in Texts, NEW of \in Texts
  PROVE  Cmd(op, arg, fallback, of) \in Commands
BY DEF Cmd, Commands

LEMMA Singleton ==
  ASSUME NEW S, NEW x \in S
  PROVE  <<x>> \in Seq(S) /\ Len(<<x>>) = 1 /\ <<x>>[1] = x
OBVIOUS

LEMMA Two ==
  ASSUME NEW S, NEW x \in S, NEW y \in S
  PROVE  <<x, y>> \in Seq(S) /\ Len(<<x, y>>) = 2 /\ <<x, y>>[1] = x /\ <<x, y>>[2] = y
OBVIOUS

LEMMA Three ==
  ASSUME NEW S, NEW x \in S, NEW y \in S, NEW z \in S
  PROVE  /\ <<x, y, z>> \in Seq(S) /\ Len(<<x, y, z>>) = 3
         /\ <<x, y, z>>[1] = x /\ <<x, y, z>>[2] = y /\ <<x, y, z>>[3] = z
OBVIOUS

LEMMA Joined ==
  ASSUME NEW S, NEW a \in Seq(S), NEW b \in Seq(S), NEW n, Len(a) = n
  PROVE  /\ a \o b \in Seq(S) /\ Len(b) \in Nat /\ Len(a \o b) = n + Len(b)
         /\ \A i \in 1..n+Len(b) : (a \o b)[i] = IF i <= n THEN a[i] ELSE b[i - n]
BY ConcatProperties, LenProperties

LEMMA EntryFields ==
  ASSUME NEW e \in Entries
  PROVE  /\ e.name \in Texts /\ e.chain \in Texts /\ e.binary \in Texts
         /\ e.kernel \in Texts /\ e.initrd \in Texts /\ e.image \in Texts
         /\ e.path \in Texts /\ e.files \in Seq(Texts)
<1>1. STRING \subseteq Texts
  BY DEF Texts
<1>2. e.files \in Seq(STRING)
  BY DEF Entries
<1>3. e.files \in Seq(Texts)
  BY <1>1, <1>2, SeqMonotonic
<1> QED
  BY <1>1, <1>3 DEF Entries

LEMMA Words ==
  /\ {"", "label", "choose", "goto", "load", "chain", "boot", "exit",
      "start", "selected", "failed", "wimboot"} \subseteq Texts
  /\ Texts \subseteq Args
  /\ \A a, b \in Texts : <<a, b>> \in Args
  /\ Seq(Texts) \subseteq Args
<1>1. {"", "label", "choose", "goto", "load", "chain", "boot", "exit",
       "start", "selected", "failed", "wimboot"} \subseteq Texts
  BY DEF Texts
<1> QED
  BY <1>1 DEF Args

LEMMA LoadType ==
  ASSUME NEW e \in Entries, NEW text \in Texts
  PROVE  Load(fileURL(e, text), e) \in Loads(e) /\ fileURL(e, text) \in Args
<1>1. fileURL(e, text) \in Args
  BY EntryFields, Words DEF fileURL
<1>2. Load(fileURL(e, text), e) \in Commands
  BY <1>1, EntryFields, Words, CmdType DEF Load
<1> QED
  BY <1>1, <1>2 DEF Load, Cmd, Loads

\* Tidy pieces make a tidy whole.
LEMMA TidyJoin ==
  ASSUME NEW a \in Seq(Commands), NEW b \in Seq(Commands), Tidy(a), Tidy(b)
  PROVE  Tidy(a \o b)
<1> DEFINE s == a \o b
           n == Len(a)
           k == Len(b)
<1>1. /\ n \in Nat /\ k \in Nat /\ Len(s) = n + k
      /\ \A i \in 1..n : s[i] = a[i]
      /\ \A i \in 1..k : s[n + i] = b[i]
  OBVIOUS
<1>2. /\ \A i \in 1..n : Ordered(a, i)
      /\ \A i \in 1..k : Ordered(b, i)
  BY DEF Tidy
<1> HIDE DEF s
<1> SUFFICES ASSUME NEW i \in 1..Len(s) PROVE Ordered(s, i)
  BY DEF Tidy, s
<1>3. CASE i \in 1..n
  <2>1. s[i] = a[i]
    BY <1>1, <1>3
  <2>2. ASSUME i + 1 \in 1..n PROVE s[i + 1] = a[i + 1] /\ i + 1 \in 1..Len(s)
    BY <1>1, <2>2
  <2> QED
    BY <1>2, <1>3, <2>1, <2>2 DEF Ordered, n
<1>4. CASE i \notin 1..n
  <2>1. i - n \in 1..k /\ n + (i - n) = i
    BY <1>1, <1>4
  <2>2. s[i] = b[i - n]
    BY <1>1, <2>1
  <2>3. ASSUME (i - n) + 1 \in 1..k PROVE s[i + 1] = b[(i - n) + 1] /\ i + 1 \in 1..Len(s)
    <3>1. n + ((i - n) + 1) = i + 1
      BY <1>1
    <3>2. s[n + ((i - n) + 1)] = b[(i - n) + 1]
      BY <1>1, <2>3
    <3>3. i + 1 \in 1..Len(s)
      BY <1>1, <2>3, <2>1
    <3> QED
      BY <3>1, <3>2, <3>3
  <2> QED
    BY <1>2, <2>1, <2>2, <2>3 DEF Ordered, k
<1> QED
  BY <1>3, <1>4

LEMMA OneCommand ==
  ASSUME NEW s, Len(s) = 1, Wellformed(s[1]), s[1].op \notin {"label", "load"}
  PROVE  Tidy(s) /\ Len(s) > 0 /\ \A i \in 1..Len(s) : i = 1
BY DEF Tidy, Ordered

\* writeBootEntry and writeWimboot: what loads the files, then boot.
LEMMA LoadsThenBoot ==
  ASSUME NEW e \in Entries, NEW l \in Seq(Loads(e))
  PROVE  /\ l \o <<Boot(e)>> \in Seq(Commands)
         /\ SingleScript(l \o <<Boot(e)>>, e.name)
<1> DEFINE s == l \o <<Boot(e)>>
           n == Len(l)
<1>1. Boot(e) \in Commands /\ Boot(e).op = "boot" /\ Boot(e).fallback = "" /\ Boot(e).of = e.name
  <2>1. "" \in Args /\ "boot" \in Texts /\ "" \in Texts
    BY Words
  <2> QED
    BY <2>1, EntryFields, CmdType DEF Cmd, Boot
<1>2. l \in Seq(Commands)
  <2>1. Loads(e) \subseteq Commands
    BY DEF Loads
  <2> QED
    BY <2>1, SeqMonotonic
<1>3. /\ n \in Nat /\ s \in Seq(Commands) /\ Len(s) = n + 1 /\ s[n + 1] = Boot(e)
      /\ \A i \in 1..n : s[i] = l[i] /\ l[i] \in Loads(e)
  <2>1. /\ <<Boot(e)>> \in Seq(Commands) /\ Len(<<Boot(e)>>) = 1
        /\ <<Boot(e)>>[1] = Boot(e)
    BY <1>1, Singleton
  <2>2. n \in Nat /\ \A i \in 1..n : l[i] \in Loads(e)
    OBVIOUS
  <2>3. s \in Seq(Commands) /\ Len(s) = n + 1
    BY <1>2, <2>1, ConcatProperties
  <2>4. \A i \in 1..n+1 : s[i] = IF i <= n THEN l[i] ELSE <<Boot(e)>>[i - n]
    BY <1>2, <2>1, ConcatProperties
  <2> HIDE DEF s, n
  <2>5. s[n + 1] = <<Boot(e)>>[(n + 1) - n] /\ (n + 1) - n = 1
    BY <2>2, <2>4
  <2> QED
    BY <2>1, <2>2, <2>3, <2>4, <2>5
<1> HIDE DEF s, n
<1>4. \A i \in 1..n : /\ s[i].op = "load" /\ s[i].fallback = "" /\ s[i].of = e.name
  BY <1>3 DEF Loads
<1>5. ASSUME NEW i \in 1..Len(s)
      PROVE  Ordered(s, i) /\ s[i].op \in {"load", "chain", "boot"} /\ s[i].of = e.name
  <2>1. CASE i = n + 1
    BY <1>1, <1>3, <2>1 DEF Ordered, Wellformed, Ops
  <2>2. CASE i \in 1..n
    <3>1. i + 1 \in 1..Len(s)
      BY <1>3, <2>2
    <3>2. s[i + 1].op \in {"load", "boot"} /\ s[i + 1].of = e.name
      <4>1. CASE i + 1 \in 1..n
        BY <1>4, <4>1
      <4>2. CASE i + 1 = n + 1
        BY <1>1, <1>3, <4>2
      <4> QED
        BY <1>3, <2>2, <4>1, <4>2
    <3> QED
      BY <1>4, <2>2, <3>1, <3>2 DEF Ordered, Wellformed, Ops, Follows, Owner
  <2> QED
    BY <1>3, <2>1, <2>2
<1>6. SingleScript(s, e.name)
  BY <1>3, <1>5 DEF SingleScript, Tidy
<1> QED
  BY <1>3, <1>6 DEF s

LEMMA SingleChain ==
  ASSUME NEW e \in Entries, NEW url \in Args, NEW fallback \in {"", "start", "failed"}
  PROVE  /\ <<Chain(url, fallback, e)>> \in Seq(Commands)
         /\ SingleScript(<<Chain(url, fallback, e)>>, e.name)
<1> DEFINE c == Chain(url, fallback, e)
<1>1. c \in Commands /\ c.op = "chain" /\ c.fallback = fallback /\ c.of = e.name
  <2>1. fallback \in Texts /\ "chain" \in Texts
    BY Words
  <2> QED
    BY <2>1, EntryFields, CmdType DEF Cmd, Chain
<1> HIDE DEF c
<1>2. <<c>> \in Seq(Commands) /\ Len(<<c>>) = 1 /\ <<c>>[1] = c
  BY <1>1, Singleton
<1>3. SingleScript(<<c>>, e.name)
  <2>1. Wellformed(<<c>>[1]) /\ <<c>>[1].op \notin {"label", "load"}
    BY <1>1, <1>2 DEF Wellformed, Ops
  <2>2. Tidy(<<c>>) /\ Len(<<c>>) > 0 /\ \A i \in 1..Len(<<c>>) : i = 1
    BY <1>2, <2>1, OneCommand
  <2>3. \A i \in 1..Len(<<c>>) : <<c>>[i].op = "chain" /\ <<c>>[i].of = e.name
    BY <1>1, <1>2, <2>2
  <2> QED
    BY <2>2, <2>3 DEF SingleScript
<1> QED
  BY <1>2, <1>3 DEF c

\* A script without a menu is for its entry (writeBootEntry).
LEMMA BootEntrySingle ==
  ASSUME NEW e \in Entries
  PROVE  /\ writeBootEntry(e) \in Seq(Commands)
         /\ SingleScript(writeBootEntry(e), e.name)
<1> DEFINE Goal(s) == s \in Seq(Commands) /\ SingleScript(s, e.name)
<1>1. \A l \in Seq(Loads(e)) : Goal(l \o <<Boot(e)>>)
  BY LoadsThenBoot
<1>2. \A url \in Args, f \in {"", "start", "failed"} : Goal(<<Chain(url, f, e)>>)
  BY SingleChain
<1> HIDE DEF Goal
<1>3. \A text \in Texts : LoadIfSet(e, text) \in Seq(Loads(e))
  <2> SUFFICES ASSUME NEW text \in Texts PROVE LoadIfSet(e, text) \in Seq(Loads(e))
    OBVIOUS
  <2>1. <<Load(fileURL(e, text), e)>> \in Seq(Loads(e))
    BY LoadType, Singleton
  <2>2. <<>> \in Seq(Loads(e))
    BY EmptySeq
  <2> QED
    BY <2>1, <2>2 DEF LoadIfSet
<1>4. Goal(writeWimboot(e))
  <2> DEFINE files == [i \in DOMAIN e.files |-> Load(fileURL(e, e.files[i]), e)]
  <2>1. files \in Seq(Loads(e))
    <3>1. e.files \in Seq(Texts)
      BY EntryFields
    <3>2. /\ DOMAIN e.files = 1..Len(e.files) /\ Len(e.files) \in Nat
          /\ \A i \in 1..Len(e.files) : e.files[i] \in Texts
      BY <3>1
    <3>3. \A i \in 1..Len(e.files) : Load(fileURL(e, e.files[i]), e) \in Loads(e)
      BY <3>2, LoadType
    <3> QED
      BY <3>2, <3>3
  <2>2. <<Load(fileURL(e, "wimboot"), e)>> \in Seq(Loads(e))
    <3>1. "wimboot" \in Texts
      BY Words
    <3> QED
      BY <3>1, LoadType, Singleton
  <2>3. <<Load(fileURL(e, "wimboot"), e)>> \o files \in Seq(Loads(e))
    BY <2>1, <2>2
  <2> QED
    BY <1>1, <2>3 DEF writeWimboot
<1>5. Goal(<<Chain(<<e.chain, "">>, "failed", e)>>)
  <2>1. <<e.chain, "">> \in Args
    BY EntryFields, Words
  <2> QED
    BY <1>2, <2>1
<1>6. Goal(<<Chain(fileURL(e, e.binary), "", e)>>)
  BY <1>2, EntryFields, LoadType
<1>7. Goal(LoadIfSet(e, e.kernel) \o LoadIfSet(e, e.initrd) \o LoadIfSet(e, e.image)
             \o <<Boot(e)>>)
  <2>1. LoadIfSet(e, e.kernel) \o LoadIfSet(e, e.initrd) \o LoadIfSet(e, e.image)
          \in Seq(Loads(e))
    BY <1>3, EntryFields
  <2> QED
    BY <1>1, <2>1
<1>8. Goal(writeBootEntry(e))
  BY <1>4, <1>5, <1>6, <1>7 DEF writeBootEntry
<1> QED
  BY <1>8 DEF Goal

\* The part of the menu's script for an entry.
LEMMA MenuEntryTidy ==
  ASSUME NEW e \in Entries
  PROVE  MenuEntry(e) \in Seq(Commands) /\ Tidy(MenuEntry(e))
<1> DEFINE Body == CASE e.type = "exit" -> <<Cmd("exit", "", "", e.name)>>
                     [] e.type # "exit" /\ e.chain # "" -> <<Chain(<<e.chain, "">>, "start", e)>>
                     [] OTHER -> writeBootEntry(e)
           Good(b) == /\ b \in Seq(Commands) /\ Tidy(b) /\ Len(b) > 0
                      /\ b[1].op # "label" /\ b[1].of = e.name
           Exits == Cmd("exit", "", "", e.name)
<1>1. Good(<<Exits>>)
  <2>1. /\ Exits \in Commands /\ Exits.op = "exit" /\ Exits.fallback = ""
        /\ Exits.of = e.name
    <3>1. "exit" \in Texts /\ "" \in Texts /\ "" \in Args
      BY Words
    <3> QED
      BY <3>1, EntryFields, CmdType DEF Cmd
  <2> HIDE DEF Exits
  <2>2. <<Exits>> \in Seq(Commands) /\ Len(<<Exits>>) = 1 /\ <<Exits>>[1] = Exits
    BY <2>1, Singleton
  <2>3. Wellformed(<<Exits>>[1]) /\ <<Exits>>[1].op \notin {"label", "load"}
    BY <2>1, <2>2 DEF Wellformed, Ops
  <2>4. Tidy(<<Exits>>) /\ Len(<<Exits>>) > 0
    BY <2>2, <2>3, OneCommand
  <2> QED
    BY <2>1, <2>2, <2>3, <2>4
<1>2. \A s : s \in Seq(Commands) /\ SingleScript(s, e.name) => Good(s)
  <2> SUFFICES ASSUME NEW s \in Seq(Commands), SingleScript(s, e.name) PROVE Good(s)
    OBVIOUS
  <2>1. 1 \in 1..Len(s)
    BY DEF SingleScript
  <2> QED
    BY <2>1 DEF SingleScript
<1>3. Good(<<Chain(<<e.chain, "">>, "start", e)>>)
  <2>1. <<e.chain, "">> \in Args
    BY EntryFields, Words
  <2> QED
    BY <1>2, <2>1, SingleChain
<1>4. Good(writeBootEntry(e))
  BY <1>2, BootEntrySingle
<1>5. MenuEntry(e) = <<Label(e.name)>> \o Body
  BY DEF MenuEntry
<1>6. Good(Body)
  <2> HIDE DEF Good
  <2> QED
    BY <1>1, <1>3, <1>4
<1> HIDE DEF Body
<1> DEFINE l == Label(e.name)
           s == <<l>> \o Body
<1>7. l \in Commands /\ l.op = "label" /\ l.arg = e.name
  <2>1. "label" \in Texts /\ "" \in Texts /\ e.name \in Args
    BY EntryFields, Words
  <2> QED
    BY <2>1, CmdType DEF Cmd, Label
<1>8. l = Label(l.arg)
  BY <1>7
<1> HIDE DEF l
<1>9. /\ s \in Seq(Commands) /\ Len(s) = 1 + Len(Body) /\ s[1] = l
      /\ \A i \in 1..Len(Body) : s[1 + i] = Body[i]
  BY <1>6, <1>7
<1> HIDE DEF s
<1>10. ASSUME NEW i \in 1..Len(s) PROVE Ordered(s, i)
  <2>0. Len(Body) \in Nat /\ Len(Body) > 0 /\ \A j \in 1..Len(Body) : Ordered(Body, j)
    BY <1>6 DEF Tidy
  <2>1. CASE i = 1
    <3>1. 1 + 1 \in 1..Len(s) /\ s[1 + 1] = Body[1]
      BY <1>9, <2>0
    <3> QED
      BY <1>6, <1>7, <1>8, <1>9, <2>1, <3>1 DEF Ordered, Wellformed, Ops, Follows, Owner
  <2>2. CASE i # 1
    <3>1. i - 1 \in 1..Len(Body) /\ 1 + (i - 1) = i
      BY <1>9, <2>0, <2>2
    <3>2. s[i] = Body[i - 1] /\ Ordered(Body, i - 1)
      BY <1>9, <2>0, <3>1
    <3>3. ASSUME (i - 1) + 1 \in 1..Len(Body)
          PROVE  s[i + 1] = Body[(i - 1) + 1] /\ i + 1 \in 1..Len(s)
      <4>1. 1 + ((i - 1) + 1) = i + 1
        OBVIOUS
      <4>2. s[1 + ((i - 1) + 1)] = Body[(i - 1) + 1]
        BY <1>9, <3>3
      <4>3. i + 1 \in 1..Len(s)
        BY <1>9, <2>0, <3>1, <3>3
      <4> QED
        BY <4>1, <4>2, <4>3
    <3> QED
      BY <3>2, <3>3 DEF Ordered
  <2> QED
    BY <2>1, <2>2
<1> QED
  BY <1>5, <1>9, <1>10 DEF Tidy, s, l

TidyScripts == {s \in Seq(Commands) : Tidy(s)}

\* The parts of a menu's script, one after the other, make a tidy whole: FlattenSeq is
\* a loop over them.
LEMMA FlattenTidy ==
  ASSUME NEW parts \in Seq(TidyScripts)
  PROVE  FlattenSeq(parts) \in TidyScripts
<1> DEFINE n == Len(parts)
           step == [i \in 1..n-1 |-> [s \in TidyScripts |-> s \o parts[i + 1]]]
<1>0. n \in Nat /\ \A i \in 1..n : parts[i] \in TidyScripts
  BY LenProperties, ElementOfSeq
<1>1. ASSUME NEW a \in TidyScripts, NEW b \in TidyScripts PROVE a \o b \in TidyScripts
  BY TidyJoin, ConcatProperties DEF TidyScripts
<1>2. CASE n = 0
  <2>1. parts = <<>>
    BY <1>2, EmptySeq
  <2>2. FlattenSeq(parts) = <<>>
    BY <1>2, <2>1 DEF FlattenSeq
  <2>3. <<>> \in Seq(Commands) /\ Len(<<>>) = 0
    BY EmptySeq
  <2>4. Tidy(<<>>)
    BY <2>3 DEF Tidy
  <2> QED
    BY <2>2, <2>3, <2>4 DEF TidyScripts
<1>3. CASE n > 0
  <2>1. n - 1 \in Nat /\ parts[1] \in TidyScripts
    BY <1>0, <1>3
  <2>2. step \in [1..n-1 -> [TidyScripts -> TidyScripts]]
    BY <1>0, <1>1
  <2>3. PICK g : LoopRun(g, n - 1, TidyScripts, parts[1], step)
    <3> HIDE DEF n, step
    <3> QED
      BY <2>1, <2>2, LoopRuns
  <2> DEFINE f == [i \in 1..n |-> g[i - 1]]
  <2> HIDE DEF n
  <2>4. \A i \in 1..n : f[i] = IF i = 1 THEN parts[i] ELSE f[i-1] \o parts[i]
    <3> SUFFICES ASSUME NEW i \in 1..n
                 PROVE  f[i] = IF i = 1 THEN parts[i] ELSE f[i-1] \o parts[i]
      OBVIOUS
    <3>1. CASE i = 1
      BY <2>3, <3>1 DEF LoopRun
    <3>2. CASE i # 1
      <4>1. i - 1 \in 1..n-1 /\ (i - 1) - 1 \in 0..n-1 /\ (i - 1) + 1 = i /\ i - 1 \in 1..n
        BY <1>0, <3>2
      <4>2. g[(i - 1) - 1] \in TidyScripts
        BY <2>3, <4>1 DEF LoopRun
      <4>3. g[i - 1] = step[i - 1][g[(i - 1) - 1]]
        BY <2>3, <4>1 DEF LoopRun
      <4>4. g[i - 1] = g[(i - 1) - 1] \o parts[i]
        BY <4>1, <4>2, <4>3
      <4>5. f[i] = g[i - 1] /\ f[i - 1] = g[(i - 1) - 1]
        BY <4>1
      <4> QED
        BY <3>2, <4>4, <4>5
    <3> QED
      BY <3>1, <3>2
  <2>5. f = [i \in 1..n |-> IF i = 1 THEN parts[i] ELSE f[i-1] \o parts[i]]
    <3>1. f = [i \in 1..n |-> f[i]]
      OBVIOUS
    <3> HIDE DEF f
    <3> QED
      BY <2>4, <3>1
  <2> DEFINE Eq(h) == h = [i \in 1..n |-> IF i = 1 THEN parts[i] ELSE h[i-1] \o parts[i]]
  <2>6. PICK h : Eq(h) /\ FlattenSeq(parts) = h[n]
    <3>1. Eq(CHOOSE h : Eq(h))
      BY <2>5
    <3>2. FlattenSeq(parts) = (CHOOSE h : Eq(h))[n]
      BY <1>3 DEF FlattenSeq, n
    <3> QED
      BY <3>1, <3>2
  <2>7. /\ h[1] = parts[1]
        /\ \A i \in 1..n : i # 1 => h[i] = h[i-1] \o parts[i]
    <3>1. h = [i \in 1..n |-> IF i = 1 THEN parts[i] ELSE h[i-1] \o parts[i]]
      BY <2>6
    <3>2. 1 \in 1..n
      BY <1>0, <1>3
    <3> HIDE DEF Eq
    <3> QED
      BY <3>1, <3>2
  <2> HIDE DEF Eq
  <2> DEFINE T == {i \in Nat : i + 1 <= n => h[i + 1] \in TidyScripts}
  <2>8. 0 \in T
    BY <2>1, <2>7
  <2>9. ASSUME NEW i \in Nat, i \in T PROVE i + 1 \in T
    <3> SUFFICES ASSUME (i + 1) + 1 <= n PROVE h[(i + 1) + 1] \in TidyScripts
      OBVIOUS
    <3>1. (i + 1) + 1 \in 1..n /\ (i + 1) + 1 # 1 /\ ((i + 1) + 1) - 1 = i + 1 /\ i + 1 <= n
      BY <1>0
    <3>2. h[i + 1] \in TidyScripts
      BY <2>9, <3>1
    <3>3. h[(i + 1) + 1] = h[i + 1] \o parts[(i + 1) + 1]
      BY <2>7, <3>1
    <3> QED
      BY <1>0, <1>1, <3>1, <3>2, <3>3
  <2>10. Nat \subseteq T
    <3> HIDE DEF T
    <3> QED
      BY <2>8, <2>9, Induction
  <2>11. n - 1 \in T /\ (n - 1) + 1 = n
    BY <2>1, <2>10, <1>0
  <2> QED
    BY <1>0, <2>6, <2>11
<1> QED
  BY <1>0, <1>2, <1>3

\* writeMenu makes a menu's script.
LEMMA MenuMade ==
  ASSUME NEW entries \in Seq(Entries)
  PROVE  writeMenu(entries) \in Seq(Commands) /\ MenuScript(writeMenu(entries))
<1> DEFINE names == [i \in DOMAIN entries |-> entries[i].name]
           parts == [i \in DOMAIN entries |-> MenuEntry(entries[i])]
           choose == Cmd("choose", names, "failed", "")
           head == <<Label("start"), choose, Cmd("goto", "selected", "", "")>>
           body == FlattenSeq(parts)
           tail == <<Label("failed"), Cmd("goto", "start", "", "")>>
<1>1. /\ DOMAIN entries = 1..Len(entries) /\ Len(entries) \in Nat
      /\ \A i \in 1..Len(entries) : entries[i] \in Entries
  BY LenProperties, ElementOfSeq
<1>2. names \in Seq(Texts)
  BY <1>1, EntryFields
<1>3. parts \in Seq(TidyScripts)
  <2>1. \A i \in 1..Len(entries) : MenuEntry(entries[i]) \in TidyScripts
    BY <1>1, MenuEntryTidy DEF TidyScripts
  <2> QED
    BY <1>1, <2>1
<1>4. body \in Seq(Commands) /\ Tidy(body)
  <2> HIDE DEF parts
  <2> QED
    BY <1>3, FlattenTidy DEF TidyScripts
<1>5. choose \in Commands /\ choose.op = "choose" /\ choose.fallback = "failed"
  <2>1. names \in Args /\ "choose" \in Texts /\ "failed" \in Texts /\ "" \in Texts
    BY <1>2, Words
  <2> HIDE DEF names
  <2> QED
    BY <2>1, CmdType DEF Cmd
<1> HIDE DEF choose
<1>6. /\ Label("start") \in Commands /\ Label("failed") \in Commands
      /\ Cmd("goto", "selected", "", "") \in Commands
      /\ Cmd("goto", "start", "", "") \in Commands
  <2>1. /\ "label" \in Texts /\ "goto" \in Texts /\ "" \in Texts
        /\ "start" \in Args /\ "failed" \in Args /\ "selected" \in Args
    BY Words
  <2> QED
    BY <2>1, CmdType DEF Label
<1>7. /\ head \in Seq(Commands) /\ Len(head) = 3
      /\ head[1] = Label("start") /\ head[2] = choose
      /\ head[3] = Cmd("goto", "selected", "", "")
  <2>1. \A x, y, z \in Commands :
          /\ <<x, y, z>> \in Seq(Commands) /\ Len(<<x, y, z>>) = 3
          /\ <<x, y, z>>[1] = x /\ <<x, y, z>>[2] = y /\ <<x, y, z>>[3] = z
    BY Three
  <2> QED
    BY <1>5, <1>6, <2>1
<1>8. /\ tail \in Seq(Commands) /\ Len(tail) = 2
      /\ tail[1] = Label("failed") /\ tail[2] = Cmd("goto", "start", "", "")
  <2>1. \A x, y \in Commands :
          /\ <<x, y>> \in Seq(Commands) /\ Len(<<x, y>>) = 2
          /\ <<x, y>>[1] = x /\ <<x, y>>[2] = y
    BY Two
  <2> QED
    BY <1>6, <2>1
<1>9. writeMenu(entries) = (head \o body) \o tail
  BY DEF writeMenu, choose
<1> HIDE DEF head, body, tail
<1> DEFINE k == Len(body)
           s == (head \o body) \o tail
<1> HIDE DEF k, s
<1>10. /\ k \in Nat /\ head \o body \in Seq(Commands) /\ Len(head \o body) = 3 + k
       /\ \A i \in 1..3+k : (head \o body)[i] = IF i <= 3 THEN head[i] ELSE body[i - 3]
  <2> DEFINE n == 3
  <2>0. n = 3
    OBVIOUS
  <2> HIDE DEF n
  <2>1. /\ head \o body \in Seq(Commands) /\ Len(body) \in Nat /\ Len(head \o body) = n + Len(body)
        /\ \A i \in 1..n+Len(body) : (head \o body)[i] = IF i <= n THEN head[i] ELSE body[i - n]
    <3>1. head \in Seq(Commands) /\ Len(head) = n /\ body \in Seq(Commands)
      BY <1>4, <1>7, <2>0
    <3>2. \A b \in Seq(Commands) :
            /\ head \o b \in Seq(Commands) /\ Len(b) \in Nat /\ Len(head \o b) = n + Len(b)
            /\ \A i \in 1..n+Len(b) : (head \o b)[i] = IF i <= n THEN head[i] ELSE b[i - n]
      BY <3>1, Joined
    <3> QED
      BY <3>1, <3>2
  <2>3. /\ head \o body \in Seq(Commands) /\ Len(body) \in Nat /\ Len(head \o body) = 3 + Len(body)
        /\ \A i \in 1..3+Len(body) : (head \o body)[i] = IF i <= 3 THEN head[i] ELSE body[i - 3]
    BY <2>0, <2>1
  <2> QED
    BY <2>3 DEF k
<1>11. /\ Len(s) = 5 + k
       /\ \A i \in 1..3+k : s[i] = IF i <= 3 THEN head[i] ELSE body[i - 3]
       /\ s[4 + k] = tail[1] /\ s[5 + k] = tail[2]
  <2> DEFINE hb == head \o body
             n == 3 + k
  <2>0. hb \in Seq(Commands) /\ Len(hb) = n /\ s = hb \o tail
    BY <1>10 DEF s
  <2> HIDE DEF hb, n
  <2>1. Len(s) = n + 2 /\ \A i \in 1..n+2 : s[i] = IF i <= n THEN hb[i] ELSE tail[i - n]
    <3>1. \A b \in Seq(Commands) :
            /\ Len(hb \o b) = n + Len(b)
            /\ \A i \in 1..n+Len(b) : (hb \o b)[i] = IF i <= n THEN hb[i] ELSE b[i - n]
      BY <2>0, Joined
    <3>2. /\ Len(hb \o tail) = n + Len(tail)
          /\ \A i \in 1..n+Len(tail) : (hb \o tail)[i] = IF i <= n THEN hb[i] ELSE tail[i - n]
      BY <1>8, <3>1
    <3> QED
      BY <1>8, <2>0, <3>2
  <2>2. /\ n = 3 + k /\ (4 + k) - n = 1 /\ (5 + k) - n = 2
        /\ 4 + k \in 1..n+2 /\ 5 + k \in 1..n+2
        /\ ~(4 + k <= n) /\ ~(5 + k <= n)
    BY <1>10 DEF n
  <2>3. s[4 + k] = tail[1] /\ s[5 + k] = tail[2]
    BY <2>1, <2>2
  <2>4. \A i \in 1..n : s[i] = hb[i]
    <3> SUFFICES ASSUME NEW i \in 1..n PROVE s[i] = hb[i]
      OBVIOUS
    <3>1. i \in 1..n+2 /\ i <= n
      BY <1>10, <2>2
    <3>2. \A j \in 1..n+2 : j <= n => s[j] = hb[j]
      BY <2>1
    <3> QED
      BY <3>1, <3>2
  <2> QED
    BY <1>10, <2>1, <2>2, <2>3, <2>4 DEF hb
<1>12. MenuHead(s)
  <2> HIDE DEF k
  <2>1. s[1] = head[1] /\ s[2] = head[2] /\ s[3] = head[3]
    BY <1>10, <1>11
  <2> QED
    BY <1>5, <1>7, <2>1 DEF MenuHead
<1>13. MenuTail(s, 4 + k)
  <2>1. (4 + k) + 1 = 5 + k
    BY <1>10
  <2> QED
    BY <1>8, <1>11, <2>1 DEF MenuTail
<1>14. MenuBody(s, 4 + k)
  <2> SUFFICES ASSUME NEW i \in 4..(4+k)-1
               PROVE  /\ Wellformed(s[i])
                      /\ s[i].op \in {"label", "load"} =>
                           i + 1 \in 4..(4+k)-1 /\ Follows(s[i], s[i + 1])
    BY DEF MenuBody
  <2> HIDE DEF k
  <2>1. i - 3 \in 1..k /\ s[i] = body[i - 3]
    BY <1>10, <1>11
  <2>2. Ordered(body, i - 3)
    BY <1>4, <2>1 DEF Tidy, k
  <2>3. ASSUME (i - 3) + 1 \in 1..k
        PROVE  i + 1 \in 4..(4+k)-1 /\ s[i + 1] = body[(i - 3) + 1]
    <3>1. i + 1 \in 4..(4+k)-1 /\ i + 1 \in 1..3+k /\ (i + 1) - 3 = (i - 3) + 1 /\ ~(i + 1 <= 3)
      BY <1>10, <2>3
    <3>2. s[i + 1] = body[(i + 1) - 3]
      BY <1>11, <3>1
    <3> QED
      BY <3>1, <3>2
  <2> QED
    BY <2>1, <2>2, <2>3 DEF Ordered, k
<1>15. MenuOf(s, 4 + k)
  BY <1>10, <1>11, <1>12, <1>13, <1>14 DEF MenuOf
<1>16. (head \o body) \o tail \in Seq(Commands)
  <2> HIDE DEF k
  <2> QED
    BY <1>8, <1>10, ConcatProperties
<1> QED
  BY <1>9, <1>15, <1>16 DEF MenuScript, s

-----------------------------------------------------------------------------
(* Where goto leads.                                                       *)

\* The first label of that name, or 0.
LEMMA LabelFirst ==
  ASSUME NEW s \in Seq(Commands), NEW l
  PROVE  \/ /\ LabelAt(s, l) = 0
            /\ \A i \in 1..Len(s) : s[i] # Label(l)
         \/ /\ LabelAt(s, l) \in 1..Len(s) /\ s[LabelAt(s, l)] = Label(l)
            /\ \A i \in 1..Len(s) : s[i] = Label(l) => LabelAt(s, l) <= i
<1> DEFINE places == {i \in DOMAIN s : s[i] = Label(l)}
<1>1. DOMAIN s = 1..Len(s) /\ Len(s) \in Nat
  OBVIOUS
<1>2. CASE places = {}
  BY <1>1, <1>2 DEF LabelAt
<1>3. CASE places # {}
  <2>1. places \subseteq Nat
    BY <1>1
  <2>2. \E x \in places : \A y \in places : x <= y
    <3> HIDE DEF places
    <3>1. PICK x \in places : \A y \in places : <<y, x>> \notin Less
      BY <1>3, <2>1, LessWF, WFMin
    <3>2. \A y \in places : x <= y
      <4> SUFFICES ASSUME NEW y \in places PROVE x <= y
        OBVIOUS
      <4>1. x \in Nat /\ y \in Nat /\ ~(y < x)
        BY <2>1, <3>1 DEF Less
      <4> QED
        BY <4>1
    <3> QED
      BY <3>2
  <2>3. LabelAt(s, l) \in places /\ \A y \in places : LabelAt(s, l) <= y
    <3>1. LabelAt(s, l) = CHOOSE x \in places : \A y \in places : x <= y
      BY <1>3 DEF LabelAt
    <3> HIDE DEF places
    <3> QED
      BY <2>2, <3>1
  <2> QED
    BY <1>1, <2>3
<1> QED
  BY <1>2, <1>3

\* A script without a menu has no labels.
LEMMA SingleNoLabel ==
  ASSUME NEW s \in Seq(Commands), NEW name, SingleScript(s, name), NEW l
  PROVE  LabelAt(s, l) = 0
<1>1. Label(l).op = "label"
  BY DEF Label, Cmd
<1> QED
  BY <1>1, LabelFirst DEF SingleScript

\* The labels of a menu's script: its own, or one of an entry, which bears its name.
LEMMA MenuLabels ==
  ASSUME NEW s \in Seq(Commands), NEW n, MenuOf(s, n), NoEntryFailed(s), NEW l
  PROVE  /\ LabelAt(s, l) \in 0..Len(s)
         /\ l = "start" => LabelAt(s, l) = 1
         /\ l = "failed" => LabelAt(s, l) = n
         /\ LabelAt(s, l) \in 4..n-1 => Owner(s[LabelAt(s, l)]) = l
         /\ LabelAt(s, l) \in 1..Len(s) => s[LabelAt(s, l)].op = "label"
<1> DEFINE x == LabelAt(s, l)
<1>0. n \in Nat /\ n > 3 /\ Len(s) = n + 1 /\ s[1] = Label("start") /\ s[n] = Label("failed")
      /\ s[2].op = "choose" /\ s[3].op = "goto" /\ DOMAIN s = 1..n+1
  <2>1. n \in Nat /\ n > 3 /\ Len(s) = n + 1 /\ MenuHead(s) /\ MenuTail(s, n)
    BY DEF MenuOf
  <2>2. Cmd("goto", "selected", "", "").op = "goto"
    BY DEF Cmd
  <2>3. DOMAIN s = 1..n+1
    BY <2>1
  <2> QED
    BY <2>1, <2>2, <2>3 DEF MenuHead, MenuTail
<1>l. /\ Label(l).op = "label" /\ Label(l).arg = l
      /\ Label("failed").op = "label" /\ Label("failed").arg = "failed"
      /\ Label("start").op = "label" /\ Label("start").arg = "start"
  BY DEF Label, Cmd
<1>m. Label("failed") # Label("start")
  <2>1. "failed" # "start"
    OBVIOUS
  <2> QED
    BY <1>l, <2>1
<1>1. \/ x = 0 /\ \A i \in 1..n+1 : s[i] # Label(l)
      \/ /\ x \in 1..n+1 /\ s[x] = Label(l)
         /\ \A i \in 1..n+1 : s[i] = Label(l) => x <= i
  BY <1>0, LabelFirst
<1> HIDE DEF x
<1>2. x \in 0..Len(s)
  BY <1>0, <1>1
<1>3. l = "start" => x = 1
  BY <1>0, <1>1
<1>4. ASSUME l = "failed" PROVE x = n
  <2>1. x \in 1..n /\ s[x] = Label("failed")
    BY <1>0, <1>1, <1>4
  <2>2. x # 1 /\ x # 2 /\ x # 3
    <3>1. x # 1
      BY <1>0, <1>m, <2>1
    <3>2. s[x].op = "label"
      BY <1>l, <2>1
    <3>3. s[2].op # "label" /\ s[3].op # "label"
      BY <1>0
    <3> QED
      BY <3>1, <3>2, <3>3
  <2>3. x \notin 4..n-1
    <3> SUFFICES ASSUME x \in 4..n-1 PROVE FALSE
      OBVIOUS
    <3>1. x + 1 \in 4..n-1 /\ Follows(s[x], s[x + 1])
      <4>1. s[x].op = "label"
        BY <1>l, <2>1
      <4>2. MenuBody(s, n)
        BY DEF MenuOf
      <4> QED
        BY <4>1, <4>2 DEF MenuBody
    <3>2. s[x + 1].of = "failed"
      BY <1>l, <2>1, <3>1 DEF Follows, Owner
    <3>3. x + 1 \in DOMAIN s
      BY <1>0, <3>1
    <3> QED
      BY <3>2, <3>3 DEF NoEntryFailed
  <2> QED
    BY <1>0, <2>1, <2>2, <2>3
<1>5. x \in 4..n-1 => Owner(s[x]) = l
  BY <1>0, <1>1, <1>l DEF Owner
<1>6. x \in 1..Len(s) => s[x].op = "label"
  BY <1>0, <1>1, <1>l
<1> QED
  BY <1>2, <1>3, <1>4, <1>5, <1>6 DEF x

-----------------------------------------------------------------------------
(* Where a machine is in its script.                                       *)

\* What is loaded is that of the command it has come to.
ImageRule(s, i, img) ==
  img # "" => i \in 1..Len(s) /\ s[i].op \in {"load", "boot"} /\ s[i].of = img
\* Unless something has come back, it is at a command of what was chosen.
InPlace(s, i, c) == i \in 4..Len(s)-2 => Owner(s[i]) = c
MenuRun(s, i, c, r, img) ==
  i \in 1..Len(s) /\ ImageRule(s, i, img) /\ (~r => InPlace(s, i, c))
SingleRun(s, i, r, img) ==
  i \in Nat /\ i > 0 /\ ImageRule(s, i, img) /\ (~r => i \in 1..Len(s))

RunOK(st, s, i, c, r, img) ==
  /\ st = "script" =>
       /\ s \in Seq(Commands)
       /\ \/ MenuScript(s) /\ (NoEntryFailed(s) => MenuRun(s, i, c, r, img))
          \/ SingleScript(s, c) /\ SingleRun(s, i, r, img)
  /\ st \in {"booted", "local"} /\ ~r /\ NoEntryFailed(s) => img = c
RunType == /\ DOMAIN at = Machine /\ DOMAIN chosen = Machine
           /\ returned \in [Machine -> BOOLEAN] /\ DOMAIN image = Machine
RunOf(m) == RunOK(stage[m], script[m], at[m], chosen[m], returned[m], image[m])
RunInv == RunType /\ \A m \in Machine : RunOf(m)

\* The commands of a menu's script, by place.
LEMMA MenuPlaces ==
  ASSUME NEW s, NEW n, MenuOf(s, n), NEW i \in 1..Len(s)
  PROVE  /\ i \in 4..n-1 => Wellformed(s[i])
         /\ i \notin 4..n-1 => s[i].op \in {"label", "choose", "goto"}
         /\ s[i].op = "choose" => i = 2 /\ s[i].fallback = "failed"
         /\ s[i].op = "goto" => \/ i = 3 /\ s[i].arg = "selected"
                                \/ i = n + 1 /\ s[i].arg = "start"
         /\ i \in 1..n+1 /\ n \in Nat /\ n > 3 /\ Len(s) = n + 1
<1>1. /\ n \in Nat /\ n > 3 /\ Len(s) = n + 1
      /\ s[1] = Label("start") /\ s[2].op = "choose" /\ s[2].fallback = "failed"
      /\ s[3] = Cmd("goto", "selected", "", "") /\ s[n] = Label("failed")
      /\ s[n + 1] = Cmd("goto", "start", "", "")
  BY DEF MenuOf, MenuHead, MenuTail
<1>2. /\ Label("start").op = "label" /\ Label("failed").op = "label"
      /\ Cmd("goto", "selected", "", "").op = "goto"
      /\ Cmd("goto", "selected", "", "").arg = "selected"
      /\ Cmd("goto", "start", "", "").op = "goto"
      /\ Cmd("goto", "start", "", "").arg = "start"
  BY DEF Label, Cmd
<1>3. /\ s[1].op = "label" /\ s[n].op = "label" /\ s[3].op = "goto" /\ s[3].arg = "selected"
      /\ s[n + 1].op = "goto" /\ s[n + 1].arg = "start"
  BY <1>1, <1>2
<1>4. i \in 4..n-1 => Wellformed(s[i])
  BY DEF MenuOf, MenuBody
<1>5. i \in 4..n-1 \/ i = 1 \/ i = 2 \/ i = 3 \/ i = n \/ i = n + 1
  <2>0. Len(s) = n + 1 /\ n \in Nat
    BY <1>1
  <2>1. i \in 1..n+1 /\ i \in Nat
    BY <2>0
  <2>2. n \in Nat /\ n > 3
    BY <1>1
  <2>3. i >= 1 /\ i <= n + 1
    BY <2>1, <2>2
  <2>4. ASSUME i > 3, i < n PROVE i \in 4..n-1
    BY <2>1, <2>2, <2>4
  <2> QED
    BY <2>1, <2>2, <2>3, <2>4
<1>6. i \in 4..n-1 => s[i].op \notin {"choose", "goto"}
  BY <1>4 DEF Wellformed, Ops
<1> QED
  BY <1>1, <1>3, <1>4, <1>5, <1>6

\* A label, or what has been loaded or has come back, is followed by the next command.
LEMMA MenuGoesOn ==
  ASSUME NEW s, NEW n, MenuOf(s, n), NEW i, NEW c, NEW r \in BOOLEAN, NEW img,
         MenuRun(s, i, c, r, img)
  PROVE  /\ s[i].op = "label" => img = "" /\ MenuRun(s, i + 1, c, r, img)
         /\ s[i].op = "load" => MenuRun(s, i + 1, c, r, s[i].of)
         /\ s[i].op = "chain" => img = "" /\ MenuRun(s, i + 1, c, TRUE, img)
<1>1. i \in 1..Len(s)
  BY DEF MenuRun
<1>2. /\ i \in 4..n-1 => Wellformed(s[i])
      /\ i \notin 4..n-1 => s[i].op \in {"label", "choose", "goto"}
      /\ s[i].op = "choose" => i = 2
      /\ s[i].op = "goto" => i = 3 \/ i = n + 1
      /\ i \in 1..n+1 /\ n \in Nat /\ n > 3 /\ Len(s) = n + 1
  BY <1>1, MenuPlaces
<1>3. /\ i \in 4..n-1 /\ s[i].op \in {"label", "load"} =>
           i + 1 \in 4..n-1 /\ Follows(s[i], s[i + 1])
  BY DEF MenuOf, MenuBody
<1>4. /\ s[1].op = "label" /\ s[2].op = "choose" /\ s[3].op = "goto"
      /\ s[n].op = "label" /\ s[n + 1].op = "goto"
  <2>1. Label("start").op = "label" /\ Label("failed").op = "label"
        /\ Cmd("goto", "selected", "", "").op = "goto" /\ Cmd("goto", "start", "", "").op = "goto"
    BY DEF Label, Cmd
  <2>2. /\ s[1] = Label("start") /\ s[2].op = "choose"
        /\ s[3] = Cmd("goto", "selected", "", "") /\ s[n] = Label("failed")
        /\ s[n + 1] = Cmd("goto", "start", "", "")
    BY DEF MenuOf, MenuHead, MenuTail
  <2> QED
    BY <2>1, <2>2
<1>5. s[i].op \notin {"load", "boot"} => img = ""
  BY DEF MenuRun, ImageRule
<1>6. ~r => (i \in 4..n-1 => Owner(s[i]) = c)
  <2>1. Len(s) - 2 = n - 1
    BY <1>2
  <2> QED
    BY <2>1 DEF MenuRun, InPlace
<1>p. \A j \in 1..Len(s) : \A img2 :
        ImageRule(s, j, img2) /\ (~r => (j \in 4..n-1 => Owner(s[j]) = c)) =>
          MenuRun(s, j, c, r, img2)
  <2>1. Len(s) - 2 = n - 1
    BY <1>2
  <2> QED
    BY <2>1 DEF MenuRun, InPlace
<1>7. ASSUME s[i].op = "label" PROVE MenuRun(s, i + 1, c, r, "")
  <2>1. i + 1 \in 1..Len(s)
    BY <1>2, <1>4, <1>7
  <2>2. ASSUME ~r, i + 1 \in 4..n-1 PROVE Owner(s[i + 1]) = c
    <3>1. i \in 4..n-1
      BY <1>2, <1>4, <1>7, <2>2
    <3>2. Owner(s[i]) = c /\ Follows(s[i], s[i + 1])
      BY <1>3, <1>6, <1>7, <2>2, <3>1
    <3> QED
      BY <3>2 DEF Follows, Owner
  <2>3. ImageRule(s, i + 1, "")
    BY DEF ImageRule
  <2> QED
    BY <1>p, <2>1, <2>2, <2>3
<1>8. ASSUME s[i].op = "load" PROVE MenuRun(s, i + 1, c, r, s[i].of)
  <2>1. i \in 4..n-1
    BY <1>2, <1>8
  <2>2. i + 1 \in 4..n-1 /\ s[i + 1].op \in {"load", "boot"} /\ s[i + 1].of = s[i].of
    BY <1>3, <1>8, <2>1 DEF Follows, Owner
  <2>3. i + 1 \in 1..Len(s) /\ Owner(s[i]) = s[i].of /\ Owner(s[i + 1]) = s[i + 1].of
    BY <1>2, <1>8, <2>2 DEF Owner
  <2>4. ImageRule(s, i + 1, s[i].of)
    BY <2>2, <2>3 DEF ImageRule
  <2>5. ~r => Owner(s[i + 1]) = c
    BY <1>6, <2>1, <2>2, <2>3
  <2> QED
    BY <1>p, <2>3, <2>4, <2>5
<1>9. ASSUME s[i].op = "chain" PROVE MenuRun(s, i + 1, c, TRUE, "")
  <2>1. i + 1 \in 1..Len(s)
    BY <1>2, <1>9
  <2> QED
    BY <2>1 DEF MenuRun, ImageRule
<1> QED
  BY <1>5, <1>7, <1>8, <1>9

\* A jump to the menu, to its end, or to what was chosen.
LEMMA MenuJumps ==
  ASSUME NEW s \in Seq(Commands), MenuScript(s), NoEntryFailed(s), NEW c, NEW r \in BOOLEAN,
         NEW l, l \in {"start", "failed", c}, LabelAt(s, l) # 0
  PROVE  MenuRun(s, LabelAt(s, l), c, r, "")
<1>1. PICK n : MenuOf(s, n)
  BY DEF MenuScript
<1>2. n \in Nat /\ n > 3 /\ Len(s) = n + 1
  BY <1>1 DEF MenuOf
<1>3. /\ LabelAt(s, l) \in 0..Len(s)
      /\ l = "start" => LabelAt(s, l) = 1
      /\ l = "failed" => LabelAt(s, l) = n
      /\ LabelAt(s, l) \in 4..n-1 => Owner(s[LabelAt(s, l)]) = l
  BY <1>1, MenuLabels
<1>4. LabelAt(s, l) \in 1..Len(s)
  BY <1>2, <1>3
<1>5. InPlace(s, LabelAt(s, l), c)
  BY <1>2, <1>3 DEF InPlace
<1> QED
  BY <1>4, <1>5 DEF MenuRun, ImageRule

\* So far, and what it boots.
Going(m) == stage'[m] = "script" =>
              MenuRun(script[m], at'[m], chosen'[m], returned'[m], image'[m])
Done(m) == stage'[m] \in {"booted", "local"} /\ ~returned'[m] => image'[m] = chosen'[m]

LEMMA MenuStep ==
  ASSUME MachineType, RunType, NEW m \in Machine, ScriptStep(m), returned[m] \in BOOLEAN,
         script[m] \in Seq(Commands), MenuScript(script[m]), NoEntryFailed(script[m]),
         MenuRun(script[m], at[m], chosen[m], returned[m], image[m])
  PROVE  Going(m) /\ Done(m)
<1> DEFINE s == script[m]
           i == at[m]
<1>1. PICK n : MenuOf(s, n)
  BY DEF MenuScript
<1>2. i \in 1..Len(s) /\ DOMAIN s = 1..Len(s) /\ Command(m) = s[i]
  BY DEF MenuRun, Command
<1>3. /\ s[i].op = "label" => image[m] = "" /\ MenuRun(s, i + 1, chosen[m], returned[m], image[m])
      /\ s[i].op = "load" => MenuRun(s, i + 1, chosen[m], returned[m], s[i].of)
      /\ s[i].op = "chain" => image[m] = "" /\ MenuRun(s, i + 1, chosen[m], TRUE, image[m])
  BY <1>1, MenuGoesOn
<1>4. /\ i \in 4..n-1 => Wellformed(s[i])
      /\ i \notin 4..n-1 => s[i].op \in {"label", "choose", "goto"}
      /\ s[i].op = "choose" => i = 2 /\ s[i].fallback = "failed"
      /\ s[i].op = "goto" => s[i].arg \in {"selected", "start"}
      /\ n \in Nat /\ n > 3 /\ Len(s) = n + 1
  BY <1>1, <1>2, MenuPlaces
<1>5. s[i].op \notin {"load", "boot"} => image[m] = ""
  BY DEF MenuRun, ImageRule
<1>6. \A c, r, l : r \in BOOLEAN /\ l \in {"start", "failed", c} /\ LabelAt(s, l) # 0 =>
        MenuRun(s, LabelAt(s, l), c, r, "")
  BY MenuJumps
<1>7. /\ s[i].op \in {"load", "boot"} => s[i].fallback = ""
      /\ s[i].op = "chain" => s[i].fallback \in {"", "start", "failed"}
  BY <1>4 DEF Wellformed
<1>8. ASSUME s[i].op \in {"load", "boot", "exit", "chain"}, ~returned[m] PROVE s[i].of = chosen[m]
  <2>1. i \in 4..Len(s)-2
    BY <1>4, <1>8
  <2> QED
    BY <1>8, <2>1 DEF MenuRun, InPlace, Owner
<1> HIDE DEF s, i
<1> USE DEF MachineType, RunType, Goes, Going, Done
<1>9. \A l : /\ Jump(m, l) /\ l \in {"start", "failed", chosen[m]} /\ image[m] = ""
             /\ UNCHANGED <<chosen, returned, image>>
             => Going(m) /\ Done(m)
  <2> SUFFICES ASSUME NEW l, Jump(m, l), l \in {"start", "failed", chosen[m]}, image[m] = "",
                      UNCHANGED <<chosen, returned, image>>
               PROVE  Going(m) /\ Done(m)
    OBVIOUS
  <2>1. CASE LabelAt(s, l) = 0
    BY <2>1 DEF Jump, End, s
  <2>2. CASE LabelAt(s, l) # 0
    <3>1. at'[m] = LabelAt(s, l)
      BY <2>2 DEF Jump, At, s
    <3>2. stage' = stage
      BY <2>2 DEF Jump, s
    <3>3. MenuRun(s, LabelAt(s, l), chosen[m], returned[m], "")
      BY <1>6, <2>2
    <3> QED
      BY <3>1, <3>2, <3>3 DEF s, ScriptStep, Choose, Goto, Skip, LoadFile, ChainTo, BootImage, Exit, Running
  <2> QED
    BY <2>1, <2>2
<1>10. stage[m] = "script"
  BY DEF ScriptStep, Choose, Goto, Skip, LoadFile, ChainTo, BootImage, Exit, Running
<1>11. ASSUME Fail(m), s[i].op \in {"choose", "load", "chain"} PROVE Going(m) /\ Done(m)
  <2>1. CASE s[i].fallback = ""
    BY <1>2, <1>11, <2>1 DEF Fail, End
  <2>2. CASE s[i].fallback # ""
    <3>1. Jump(m, s[i].fallback) /\ UNCHANGED <<chosen, returned, image>>
      BY <1>2, <1>11, <2>2 DEF Fail
    <3>2. s[i].fallback \in {"start", "failed", chosen[m]}
      BY <1>4, <1>7, <1>11, <2>2
    <3>3. image[m] = ""
      BY <1>5, <1>7, <1>11, <2>2
    <3> QED
      BY <1>9, <3>1, <3>2, <3>3
  <2> QED
    BY <2>1, <2>2
<1>12. CASE Choose(m)
  <2>1. s[i].op = "choose"
    BY <1>2, <1>12 DEF Choose, Running
  <2>2. CASE Fail(m)
    BY <1>11, <2>1, <2>2
  <2>3. CASE ~Fail(m)
    <3>1. /\ at'[m] = i + 1 /\ stage' = stage /\ returned'[m] = FALSE /\ image' = image
      BY <1>12, <2>3 DEF Choose, NextCommand, At, i
    <3>2. at'[m] = 3 /\ image'[m] = ""
      <4>1. i = 2
        BY <1>4, <2>1
      <4>2. image[m] = ""
        BY <1>5, <2>1
      <4>3. at'[m] = 2 + 1
        BY <3>1, <4>1
      <4>4. image'[m] = ""
        BY <3>1, <4>2
      <4>5. 2 + 1 = 3
        OBVIOUS
      <4>6. at'[m] = 3
        BY <4>3, <4>5, Zenon
      <4> QED
        BY <4>4, <4>6, Zenon
    <3>3. MenuRun(s, 3, chosen'[m], FALSE, "")
      <4>1. 3 \in 1..Len(s)
        BY <1>4
      <4>2. \A c : InPlace(s, 3, c)
        BY <1>4 DEF InPlace
      <4>3. ImageRule(s, 3, "")
        BY DEF ImageRule
      <4> QED
        BY <4>1, <4>2, <4>3 DEF MenuRun
    <3> QED
      BY <1>10, <3>1, <3>2, <3>3 DEF s
  <2> QED
    BY <2>2, <2>3
<1>13. CASE Goto(m)
  <2>1. s[i].op = "goto" /\ UNCHANGED <<chosen, returned, image>>
    BY <1>2, <1>13 DEF Goto, Running
  <2>2. Jump(m, IF s[i].arg = "selected" THEN chosen[m] ELSE s[i].arg)
    BY <1>2, <1>13 DEF Goto
  <2>3. (IF s[i].arg = "selected" THEN chosen[m] ELSE s[i].arg) \in {"start", "failed", chosen[m]}
    BY <1>4, <2>1
  <2>4. image[m] = ""
    BY <1>5, <2>1
  <2> QED
    BY <1>9, <2>1, <2>2, <2>3, <2>4
<1>14. CASE Skip(m)
  <2>1. s[i].op = "label" /\ UNCHANGED <<chosen, returned, image>> /\ at'[m] = i + 1 /\ stage' = stage
    BY <1>2, <1>14 DEF Skip, Running, NextCommand, At, i
  <2> QED
    BY <1>3, <1>10, <2>1 DEF s
<1>15. CASE LoadFile(m)
  <2>1. s[i].op = "load"
    BY <1>2, <1>15 DEF LoadFile, Running
  <2>2. CASE Fail(m)
    BY <1>11, <2>1, <2>2
  <2>3. CASE ~Fail(m)
    <3>1. /\ at'[m] = i + 1 /\ stage' = stage /\ UNCHANGED <<chosen, returned>>
          /\ image'[m] = s[i].of
      BY <1>2, <1>15, <2>3 DEF LoadFile, NextCommand, At, i
    <3> QED
      BY <1>3, <1>10, <2>1, <3>1 DEF s
  <2> QED
    BY <2>2, <2>3
<1>16. CASE ChainTo(m)
  <2>1. s[i].op = "chain"
    BY <1>2, <1>16 DEF ChainTo, Running
  <2>2. CASE Fail(m)
    BY <1>11, <2>1, <2>2
  <2>3. CASE ~Fail(m) /\ End(m, "booted")
    <3>1. image'[m] = s[i].of /\ UNCHANGED <<chosen, returned>> /\ stage'[m] = "booted"
      BY <1>2, <1>10, <1>16, <2>3 DEF ChainTo, End, NextCommand, At
    <3> QED
      BY <1>8, <2>1, <3>1
  <2>4. CASE ~Fail(m) /\ ~End(m, "booted")
    <3>1. /\ at'[m] = i + 1 /\ stage' = stage /\ UNCHANGED <<chosen, image>>
          /\ returned'[m] = TRUE
      BY <1>16, <2>4 DEF ChainTo, NextCommand, At, i
    <3> QED
      BY <1>3, <1>10, <2>1, <3>1 DEF s
  <2> QED
    BY <2>2, <2>3, <2>4
<1>17. CASE BootImage(m)
  <2>1. s[i].op = "boot" /\ UNCHANGED <<chosen, returned, image>>
    BY <1>2, <1>17 DEF BootImage, Running
  <2>2. stage'[m] = IF image[m] = "" THEN "failed" ELSE "booted"
    BY <1>17 DEF BootImage, End
  <2>3. image[m] # "" => image[m] = s[i].of
    BY DEF MenuRun, ImageRule, s, i
  <2> QED
    BY <1>8, <2>1, <2>2, <2>3
<1>18. CASE Exit(m)
  <2>1. i \in DOMAIN s
    BY <1>2
  <2>2. s[i].op = "exit" /\ image'[m] = s[i].of
    BY <1>2, <1>18, <2>1 DEF Exit, Running, s, i
  <2>3. stage'[m] = "local" /\ UNCHANGED <<chosen, returned>>
    BY <1>18 DEF Exit, End
  <2> QED
    BY <1>8, <2>2, <2>3
<1> QED
  BY <1>12, <1>13, <1>14, <1>15, <1>16, <1>17, <1>18 DEF ScriptStep

LEMMA SingleStep ==
  ASSUME MachineType, RunType, NEW m \in Machine, ScriptStep(m),
         script[m] \in Seq(Commands), SingleScript(script[m], chosen[m]),
         SingleRun(script[m], at[m], returned[m], image[m])
  PROVE  /\ stage'[m] = "script" =>
              chosen'[m] = chosen[m] /\ SingleRun(script[m], at'[m], returned'[m], image'[m])
         /\ Done(m)
<1> DEFINE s == script[m]
           i == at[m]
           Goal == /\ stage'[m] = "script" =>
                        chosen'[m] = chosen[m] /\ SingleRun(script[m], at'[m], returned'[m], image'[m])
                   /\ Done(m)
<1> SUFFICES Goal
  OBVIOUS
<1>1. DOMAIN s = 1..Len(s) /\ Len(s) \in Nat /\ Command(m) = s[i] /\ i \in Nat /\ i > 0
  BY DEF Command, SingleRun
<1>2. ASSUME i \in DOMAIN s PROVE s[i].op \in {"load", "chain", "boot"} /\ s[i].of = chosen[m]
  BY <1>1, <1>2 DEF SingleScript
<1>3. ASSUME i \in DOMAIN s, s[i].op = "load"
      PROVE  i + 1 \in 1..Len(s) /\ s[i + 1].op \in {"load", "boot"} /\ s[i + 1].of = s[i].of
  <2>1. Ordered(s, i)
    BY <1>1, <1>3 DEF SingleScript, Tidy
  <2> QED
    BY <1>3, <2>1 DEF Ordered, Follows, Owner
<1>4. ImageRule(s, i, image[m]) /\ (~returned[m] => i \in 1..Len(s))
  BY DEF SingleRun
<1>5. \A l : LabelAt(s, l) = 0
  BY SingleNoLabel
<1>6. stage[m] = "script"
  BY DEF ScriptStep, Choose, Goto, Skip, LoadFile, ChainTo, BootImage, Exit, Running
<1> HIDE DEF s, i
<1> USE DEF MachineType, RunType, Goes, Done
<1>7. ASSUME Fail(m) PROVE Goal
  <2>1. stage'[m] = "failed"
    BY <1>5, <1>7 DEF Fail, End, Jump, s
  <2> QED
    BY <2>1
<1>8. ~Choose(m) /\ ~Goto(m) /\ ~Skip(m)
  BY <1>1, <1>2 DEF Choose, Goto, Skip, Running, s, i
<1>9. CASE LoadFile(m)
  <2>1. s[i].op = "load" /\ i \in DOMAIN s
    BY <1>1, <1>9 DEF LoadFile, Running, s, i
  <2>2. CASE Fail(m)
    BY <1>7, <2>2
  <2>3. CASE ~Fail(m)
    <3>1. /\ at'[m] = i + 1 /\ stage' = stage /\ UNCHANGED <<chosen, returned>>
          /\ image'[m] = s[i].of
      BY <1>1, <1>9, <2>3 DEF LoadFile, NextCommand, At, i
    <3>2. i + 1 \in Nat /\ i + 1 > 0 /\ ImageRule(s, i + 1, s[i].of) /\ i + 1 \in 1..Len(s)
      <4>1. i + 1 \in 1..Len(s) /\ s[i + 1].op \in {"load", "boot"} /\ s[i + 1].of = s[i].of
        BY <1>3, <2>1
      <4>2. ImageRule(s, i + 1, s[i].of)
        BY <4>1 DEF ImageRule
      <4>3. i + 1 \in Nat /\ i + 1 > 0
        BY <1>1
      <4> QED
        BY <4>1, <4>2, <4>3
    <3> QED
      BY <1>6, <3>1, <3>2 DEF SingleRun, s
  <2> QED
    BY <2>2, <2>3
<1>10. CASE ChainTo(m)
  <2>1. s[i].op = "chain" /\ i \in DOMAIN s
    BY <1>1, <1>10 DEF ChainTo, Running, s, i
  <2>2. CASE Fail(m)
    BY <1>7, <2>2
  <2>3. CASE ~Fail(m) /\ End(m, "booted")
    <3>1. image'[m] = s[i].of /\ UNCHANGED <<chosen, returned>> /\ stage'[m] = "booted"
      BY <1>1, <1>6, <1>10, <2>3 DEF ChainTo, End, NextCommand, At
    <3> QED
      BY <1>2, <2>1, <3>1
  <2>4. CASE ~Fail(m) /\ ~End(m, "booted")
    <3>1. /\ at'[m] = i + 1 /\ stage' = stage /\ UNCHANGED <<chosen, image>>
          /\ returned'[m] = TRUE
      BY <1>10, <2>4 DEF ChainTo, NextCommand, At, i
    <3>2. image[m] = ""
      BY <1>4, <2>1 DEF ImageRule
    <3>3. i + 1 \in Nat /\ i + 1 > 0 /\ ImageRule(s, i + 1, "")
      BY <1>1 DEF ImageRule
    <3> QED
      BY <1>6, <3>1, <3>2, <3>3 DEF SingleRun, s
  <2> QED
    BY <2>2, <2>3, <2>4
<1>11. CASE BootImage(m)
  <2>1. i \in DOMAIN s /\ UNCHANGED <<chosen, returned, image>>
    BY <1>11 DEF BootImage, Running, s, i
  <2>2. stage'[m] = IF image[m] = "" THEN "failed" ELSE "booted"
    BY <1>11 DEF BootImage, End
  <2>3. image[m] # "" => image[m] = s[i].of
    BY <1>4 DEF ImageRule
  <2> QED
    BY <1>2, <2>1, <2>2, <2>3
<1>12. CASE Exit(m)
  <2>1. i \notin DOMAIN s
    BY <1>1, <1>2, <1>12 DEF Exit, Running, s, i
  <2>2. returned[m]
    BY <1>1, <1>4, <2>1
  <2>3. stage'[m] = "local" /\ returned' = returned
    BY <1>12 DEF Exit, End
  <2> QED
    BY <2>2, <2>3
<1> QED
  BY <1>8, <1>9, <1>10, <1>11, <1>12 DEF ScriptStep

\* A step of the script that a machine runs.
LEMMA ScriptRuns ==
  ASSUME MachineType, RunType, NEW m \in Machine, ScriptStep(m), returned[m] \in BOOLEAN, RunOf(m)
  PROVE  RunOf(m)'
<1>1. script' = script /\ stage[m] = "script"
  BY ScriptFrame
<1>2. /\ script[m] \in Seq(Commands)
      /\ \/ /\ MenuScript(script[m])
            /\ NoEntryFailed(script[m]) =>
                 MenuRun(script[m], at[m], chosen[m], returned[m], image[m])
         \/ /\ SingleScript(script[m], chosen[m])
            /\ SingleRun(script[m], at[m], returned[m], image[m])
  BY <1>1 DEF RunOf, RunOK
<1>3. CASE MenuScript(script[m]) /\ ~NoEntryFailed(script[m])
  BY <1>1, <1>2, <1>3 DEF RunOf, RunOK
<1>4. CASE MenuScript(script[m]) /\ NoEntryFailed(script[m])
            /\ MenuRun(script[m], at[m], chosen[m], returned[m], image[m])
  <2>1. Going(m) /\ Done(m)
    BY <1>2, <1>4, MenuStep
  <2> QED
    BY <1>1, <1>2, <1>4, <2>1 DEF Going, Done, RunOf, RunOK
<1>5. CASE /\ SingleScript(script[m], chosen[m])
           /\ SingleRun(script[m], at[m], returned[m], image[m])
  <2>1. /\ stage'[m] = "script" =>
             chosen'[m] = chosen[m] /\ SingleRun(script[m], at'[m], returned'[m], image'[m])
        /\ Done(m)
    BY <1>2, <1>5, SingleStep
  <2> QED
    BY <1>1, <1>2, <1>5, <2>1 DEF Done, RunOf, RunOK
<1> QED
  BY <1>2, <1>3, <1>4, <1>5

\* What ServeHTTP starts.
LEMMA ScriptStarts ==
  ASSUME TypeOK, LoadedInv, RequestInv, RunType, NEW m \in Machine, ServeHTTP(m)
  PROVE  RunOf(m)'
<1> DEFINE Start1(s, c) == /\ s \in Seq(Commands)
                           /\ \/ MenuScript(s)
                              \/ SingleScript(s, c)
<1>1. stage'[m] \in RequestStages
  BY ServeFrame DEF TypeOK, MachineType
<1>2. \/ stage'[m] # "script"
      \/ taken[m] \in DOMAIN menus /\ Runs(m, GenerateOverride(menus[taken[m]]), taken[m])
      \/ found[m] # <<>> /\ Asking(m) /\ Runs(m, Generate(found[m]), Chosen(found[m]))
  <2>1. ASSUME stage'[m] = "script" PROVE ~NotFound(m) /\ \A to : to # "script" => ~Goes(m, to)
    BY <2>1 DEF NotFound, Goes, TypeOK, MachineType
  <2>2. stage[m] # "script"
    BY ServeFrame DEF TypeOK
  <2>3. stage'[m] = "script" => ~Ask(m) /\ ~TakeOverride(m) /\ ~Resolve(m)
    BY <2>1, <2>2 DEF Ask, TakeOverride, Resolve
  <2> QED
    BY <2>2, <2>3 DEF ServeHTTP, ServeOverride, ServeScript, Asking
<1>3. ASSUME NEW name \in DOMAIN menus PROVE Start1(GenerateOverride(menus[name]), name)
  BY MenusEntries, BootEntrySingle DEF GenerateOverride
<1>4. ASSUME NEW entries \in Seq(Entries) PROVE Start1(Generate(entries), Chosen(entries))
  <2>1. CASE Len(entries) = 1 /\ entries[1].type # "exit"
    <3>1. entries[1] \in Entries
      BY <2>1
    <3> QED
      BY <2>1, <3>1, BootEntrySingle DEF Generate, Chosen
  <2>2. CASE ~(Len(entries) = 1 /\ entries[1].type # "exit")
    BY <2>2, MenuMade DEF Generate
  <2> QED
    BY <2>1, <2>2
<1>5. ASSUME NEW s, NEW c, Start1(s, c), Runs(m, s, c) PROVE RunOf(m)'
  <2>1. /\ stage'[m] = "script" /\ script'[m] = s /\ at'[m] = 1 /\ chosen'[m] = c
        /\ returned'[m] = FALSE /\ image'[m] = ""
    BY <1>5 DEF Runs, Goes, TypeOK, MachineType, RunType
  <2>2. ImageRule(s, 1, "")
    BY DEF ImageRule
  <2>3. ASSUME MenuScript(s) PROVE MenuRun(s, 1, c, FALSE, "")
    <3>1. PICK n : MenuOf(s, n)
      BY <2>3 DEF MenuScript
    <3>2. n \in Nat /\ n > 3 /\ Len(s) = n + 1
      BY <3>1 DEF MenuOf
    <3>3. 1 \in 1..Len(s)
      BY <3>2
    <3>4. InPlace(s, 1, c)
      BY <3>2 DEF InPlace
    <3> QED
      BY <2>2, <3>3, <3>4 DEF MenuRun
  <2>4. ASSUME SingleScript(s, c) PROVE SingleRun(s, 1, FALSE, "")
    <3>1. 1 \in 1..Len(s)
      BY <1>5, <2>4 DEF SingleScript
    <3>2. 1 \in Nat /\ 1 > 0
      OBVIOUS
    <3> QED
      BY <2>2, <3>1, <3>2, Zenon DEF SingleRun
  <2>5. RunOK("script", s, 1, c, FALSE, "")
    BY <1>5, <2>3, <2>4 DEF RunOK
  <2> QED
    BY <2>1, <2>5 DEF RunOf
<1>6. stage'[m] # "script" => RunOf(m)'
  BY <1>1 DEF RequestStages, RunOf, RunOK
<1>7. Asking(m) => found[m] \in Seq(Entries)
  BY DEF RequestInv, RequestOK
<1> HIDE DEF Start1
<1> QED
  BY <1>2, <1>3, <1>4, <1>5, <1>6, <1>7

LEMMA InitRun == Init => RunInv
<1> SUFFICES ASSUME Init PROVE RunInv
  OBVIOUS
<1>1. RunType
  BY DEF Init, RunType
<1>2. \A m \in Machine : stage[m] = "off"
  BY DEF Init
<1> QED
  BY <1>1, <1>2 DEF RunInv, RunOf, RunOK

\* A request starts a script, or touches none.
LEMMA RequestRuns ==
  ASSUME NEW m \in Machine, ServeHTTP(m)
  PROVE  UNCHANGED run \/ \E s, name : Runs(m, s, name)
BY DEF ServeHTTP, Ask, TakeOverride, ServeOverride, Resolve, ServeScript, NotFound

\* A machine's run is its own.
LEMMA RunStep == ASSUME TypeOK, LoadedInv, RequestInv, RunInv, [Next]_vars PROVE RunInv'
<1> USE DEF server, net, machine, run, Goes
<1>1. RunType'
  <2> USE DEF RunInv, RunType, End, At, Jump, NextCommand, Fail
  <2>1. ASSUME NEW p \in packets, handleMessage(p) PROVE RunType'
    BY <2>1 DEF handleMessage
  <2>2. ASSUME NEW m \in Machine, Choose(m) \/ Goto(m) \/ Skip(m) PROVE RunType'
    BY <2>2 DEF Choose, Goto, Skip
  <2>3. ASSUME NEW m \in Machine, LoadFile(m) \/ ChainTo(m) \/ BootImage(m) \/ Exit(m) PROVE RunType'
    BY <2>3 DEF LoadFile, ChainTo, BootImage, Exit
  <2>4. ASSUME NEW m \in Machine,
               PowerOn(m) \/ Discover(m) \/ Request(m) \/ UseReply(m) \/ ReadFile(m)
                 \/ serveAutoexec(m)
        PROVE  RunType'
    BY <2>4 DEF PowerOn, Discover, Request, UseReply, Fetch, ReadFile, serveAutoexec
  <2>5. ASSUME NEW m \in Machine, ServeHTTP(m) PROVE RunType'
    <3>1. UNCHANGED run => RunType'
      OBVIOUS
    <3>2. \A s, name : Runs(m, s, name) => RunType'
      BY DEF Runs
    <3> HIDE DEF RunType, run, RunInv
    <3>3. UNCHANGED run \/ \E s, name : Runs(m, s, name)
      BY <2>5, RequestRuns
    <3> QED
      BY <3>1, <3>2, <3>3
  <2>6. CASE ServerMoves
    <3>1. UNCHANGED run
      BY <2>6, ServerFrame DEF TypeOK
    <3> QED
      BY <3>1
  <2>7. CASE UNCHANGED vars
    BY <2>7 DEF vars
  <2> QED
    BY <2>1, <2>2, <2>3, <2>4, <2>5, <2>6, <2>7 DEF Next, ScriptStep, ServerMoves
<1>2. ASSUME NEW k \in Machine PROVE RunOf(k)'
  <2> DEFINE Same == /\ stage'[k] = stage[k] /\ script'[k] = script[k] /\ at'[k] = at[k]
                     /\ chosen'[k] = chosen[k] /\ returned'[k] = returned[k] /\ image'[k] = image[k]
             Away == stage'[k] \notin {"script", "booted", "local"}
  <2>1. Same \/ Away => RunOf(k)'
    BY DEF RunInv, RunOf, RunOK
  <2> HIDE DEF Same, Away
  <2> USE DEF RunInv, RunType, TypeOK, MachineType
  <2>2. ASSUME NEW p \in packets, handleMessage(p) PROVE Same
    BY <2>2 DEF handleMessage, Same
  <2>3. ASSUME NEW m \in Machine, ScriptStep(m), m # k PROVE Same
    <3> USE DEF End, At, Jump, NextCommand, Fail
    <3>1. script' = script
      BY <2>3, ScriptFrame
    <3>2. stage'[k] = stage[k]
      BY <2>3, ScriptFrame
    <3>3. CASE Choose(m) \/ Goto(m) \/ Skip(m)
      BY <2>3, <3>1, <3>2, <3>3 DEF Choose, Goto, Skip, Same
    <3>4. CASE LoadFile(m) \/ ChainTo(m) \/ BootImage(m) \/ Exit(m)
      BY <2>3, <3>1, <3>2, <3>4 DEF LoadFile, ChainTo, BootImage, Exit, Same
    <3> QED
      BY <2>3, <3>3, <3>4 DEF ScriptStep
  <2>4. ASSUME NEW m \in Machine, PowerOn(m) PROVE Same \/ Away
    BY <2>4 DEF PowerOn, Same, Away
  <2>5. ASSUME NEW m \in Machine,
               Discover(m) \/ Request(m) \/ UseReply(m) \/ ReadFile(m) \/ serveAutoexec(m)
        PROVE  Same \/ Away
    BY <2>5 DEF Discover, Request, UseReply, Fetch, ReadFile, serveAutoexec, Same, Away
  <2>6. ASSUME NEW m \in Machine, ServeHTTP(m), m # k PROVE Same
    <3>1. stage'[k] = stage[k]
      BY <2>6, ServeOthers
    <3>2. ASSUME NEW s, NEW name, Runs(m, s, name) PROVE Same
      BY <2>6, <3>2 DEF Runs, Same
    <3>3. ASSUME UNCHANGED run PROVE Same
      BY <3>1, <3>3 DEF Same
    <3>4. UNCHANGED run \/ \E s, name : Runs(m, s, name)
      BY <2>6, RequestRuns
    <3> QED
      BY <3>2, <3>3, <3>4
  <2>7. ASSUME ServerMoves PROVE Same \/ Away
    <3>1. UNCHANGED run
      BY <2>7, ServerFrame
    <3>2. stage'[k] = stage[k] \/ stage'[k] = "failed"
      BY <2>7, ServerFrame
    <3> QED
      BY <3>1, <3>2 DEF Same, Away
  <2>8. CASE UNCHANGED vars
    BY <2>1, <2>8 DEF vars, Same
  <2>9. ASSUME ScriptStep(k) PROVE RunOf(k)'
    <3>1. returned[k] \in BOOLEAN
      OBVIOUS
    <3> QED
      BY <2>9, <3>1, ScriptRuns
  <2>10. ASSUME ServeHTTP(k) PROVE RunOf(k)'
    BY <2>10, ScriptStarts
  <2> QED
    BY <2>1, <2>2, <2>3, <2>4, <2>5, <2>6, <2>7, <2>8, <2>9, <2>10 DEF Next, ServerMoves
<1> QED
  BY <1>1, <1>2 DEF RunInv

-----------------------------------------------------------------------------
(* The theorems.                                                           *)

Inv == /\ TypeOK /\ LoadedInv /\ SinceInv /\ NetInv /\ FetchInv /\ RequestInv
       /\ OwnScript /\ RunInv

LEMMA InitInv == Init => Inv
BY InitType, InitLoaded, InitSince, InitNet, InitFetch, InitRequest, InitScript, InitRun DEF Inv

LEMMA StepInv == Inv /\ [Next]_vars => Inv'
<1> SUFFICES ASSUME Inv, [Next]_vars PROVE Inv'
  OBVIOUS
<1>1. TypeOK'
  BY ServerStep, MachineStep DEF Inv, TypeOK
<1>2. LoadedInv' /\ SinceInv' /\ NetInv'
  BY LoadedStep, SinceStep, NetStep DEF Inv
<1>3. FetchInv' /\ RequestInv' /\ OwnScript' /\ RunInv'
  BY FetchStep, RequestStep, ScriptStepsOn, RunStep DEF Inv
<1> QED
  BY <1>1, <1>2, <1>3 DEF Inv

LEMMA InvAlways == Spec => []Inv
BY InitInv, StepInv, PTL DEF Spec

\* Server and machines keep their types.
THEOREM TypeCorrect == Spec => []TypeOK
<1>1. Inv => TypeOK
  BY DEF Inv
<1> QED
  BY <1>1, InvAlways, PTL

\* A machine loads no boot file but its own, of this power cycle.
THEOREM RightBootFile == Spec => []OwnBootFile
<1>1. Inv => OwnBootFile
  BY FilesAreFiles DEF Inv, FetchInv, OwnBootFile
<1> QED
  BY <1>1, InvAlways, PTL

\* iPXE is not started from iPXE.
THEOREM OneLoader == Spec => []NoLoop
<1>1. Inv => NoLoop
  BY DEF Inv, FetchInv, NoLoop
<1> QED
  BY <1>1, InvAlways, PTL

\* A machine runs no script but one of the parts that configurations of its power cycle
\* have for it, and of a single one if its request meets no reload.
THEOREM RightScript == Spec => []OwnScript
<1>1. Inv => OwnScript
  BY DEF Inv
<1> QED
  BY <1>1, InvAlways, PTL

\* A machine boots what was chosen, or the only entry there is, unless something that
\* was chained has come back.
THEOREM ChosenIsRun == Spec => []ChosenRuns
<1>1. Inv => ChosenRuns
  BY DEF Inv, RunInv, RunOf, RunOK, ChosenRuns
<1> QED
  BY <1>1, InvAlways, PTL
=============================================================================
