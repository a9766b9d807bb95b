--------------------------------- MODULE Setup ---------------------------------
(***************************************************************************)
(* bootforge init and bootforge edit: the wizard's questions, its draft of *)
(* a configuration (WizardState), and how it replaces bootforge.toml while *)
(* a server may load the directory.                                        *)
(*                                                                         *)
(* A step is one question of the wizard with all that follows from its     *)
(* answer, or one operation on a file.  The process may end between any    *)
(* two: by Ctrl-C at a prompt, a signal or a crash.                        *)
(***************************************************************************)
EXTENDS ConfigFiles

CONSTANTS Main,         \* "bootforge.toml", one of FileOrder
          Directories,  \* the directories an operator starts from
          Interfaces, DataDirs, Port, MACText,   \* what users type
          MenuName, Kernel, HTTPPath,            \* and for a menu entry
          Downloads,    \* sets of architectures a user downloads
          Switches,     \* sets of services a user turns on
          MaxAnswers    \* bound: answers to questions that can come again; all
                        \* that init must ask count for one

\* What toml.Unmarshal makes of a file, if it is there.
Content == {Absent, Garbage} \cup rawFile

ASSUME DirAssumption ==
  /\ Main \in Range(FileOrder) /\ IsInjective(FileOrder)
  /\ \A d \in Directories : /\ FileOrder \in Seq(DOMAIN d)
                             /\ d = [f \in DOMAIN d |-> d[f]]
                             /\ \A f \in DOMAIN d : d[f] \in Content

VARIABLES dir,     \* the directory: file name -> content or Absent
          backup,  \* bootforge.toml.bak
          pc,      \* the question or file operation that is next, or "off"
          init,    \* init runs (Run), not edit (RunEdit)
          st       \* WizardState

\* History, for the properties: the last complete content of bootforge.toml, the
\* state saved last, and whether a write has failed.
VARIABLES good, saved, failed, answers

disk == <<dir, backup>>
history == <<good, saved, failed>>
vars == <<disk, pc, init, st, history, answers>>

Netboot == "netboot-xyz"
LocalDisk == "local-disk"

\* What users type, and what the wizard writes itself, are texts of a file.
ASSUME AnswerAssumption ==
  /\ Interfaces \cup MenuName \cup Kernel \cup HTTPPath \subseteq Word
  /\ {"", "std", "data", "url", "boot.netboot.xyz", "netboot.xyz.lkrn", "/netboot/",
      Netboot, LocalDisk} \subseteq Word
  /\ DataDirs \subseteq DirName /\ MACText \subseteq DOMAIN ParseMAC
  /\ \A archs \in Downloads : archs \subseteq Arch

-----------------------------------------------------------------------------
(* state.go                                                                *)

MenuState == [name : Word, type : MenuType, kernel : Word, chain : Word, http : Word]
ClientState == [mac : {t \in DOMAIN ParseMAC : ParseMAC[t] # Garbage},
                entries : Seq(Word), default : Word]
Service == [enabled : BOOLEAN, port : Int]
WizardState ==
  [iface : Word, dir : DirName, dhcp : [enabled : BOOLEAN, port : Int, proxyPort : Int],
   tftp : Service, http : Service, archs : SUBSET Arch, loaderDir : Word,
   menus : Seq(MenuState), clients : Seq(ClientState)]

Menu(name, type, kernel, chain, http) ==
  [name |-> name, type |-> type, kernel |-> kernel, chain |-> chain, http |-> http]

DefaultMenu == Menu(LocalDisk, "exit", "", "", "")
DefaultClient == [mac |-> "*", entries |-> <<LocalDisk>>, default |-> ""]
DefaultState ==
  [iface |-> "", dir |-> [place |-> "data", rel |-> TRUE],
   dhcp |-> [enabled |-> TRUE, port |-> 67, proxyPort |-> 4011],
   tftp |-> [enabled |-> TRUE, port |-> 69],
   http |-> [enabled |-> TRUE, port |-> 8080],
   archs |-> {}, loaderDir |-> "std",
   menus |-> <<DefaultMenu>>, clients |-> <<DefaultClient>>]

\* A menu entry of the draft, as a domain.MenuEntry.
Entry(m) == [name |-> m.name, type |-> m.type, kernel |-> m.kernel, chain |-> m.chain,
             http |-> m.http, extra |-> ""]

\* What the wizard does not know gets the value it gives everyone.
StateToConfig(s) ==
  [server |-> [iface |-> s.iface, dir |-> s.dir, logging |-> "std"],
   dhcp |-> [enabled |-> s.dhcp.enabled, port |-> s.dhcp.port,
             proxyPort |-> s.dhcp.proxyPort, opts |-> ""],
   tftp |-> [enabled |-> s.tftp.enabled, port |-> s.tftp.port, opts |-> "std"],
   http |-> [enabled |-> s.http.enabled, port |-> s.http.port, opts |-> "std", tls |-> ""],
   health |-> [enabled |-> TRUE, interval |-> "std", startup |-> TRUE],
   bootloader |-> [dir |-> s.loaderDir, chainURL |-> "std",
                   files |-> [a \in Arch |-> IF a \in s.archs THEN "std" ELSE ""]],
   menus |-> [i \in DOMAIN s.menus |-> Entry(s.menus[i])],
   clients |-> [i \in DOMAIN s.clients |->
                [mac |-> ParseMAC[s.clients[i].mac], enabled |-> TRUE,
                 entries |-> s.clients[i].entries, default |-> s.clients[i].default,
                 vars |-> "", loader |-> ""]]]

ConfigToState(cfg) ==
  [iface |-> cfg.server.iface, dir |-> cfg.server.dir,
   dhcp |-> [enabled |-> cfg.dhcp.enabled, port |-> cfg.dhcp.port,
             proxyPort |-> cfg.dhcp.proxyPort],
   tftp |-> [enabled |-> cfg.tftp.enabled, port |-> cfg.tftp.port],
   http |-> [enabled |-> cfg.http.enabled, port |-> cfg.http.port],
   archs |-> {a \in Arch : cfg.bootloader.files[a] # ""},
   loaderDir |-> cfg.bootloader.dir,
   menus |-> [i \in DOMAIN cfg.menus |->
                Menu(cfg.menus[i].name, cfg.menus[i].type, cfg.menus[i].kernel,
                     cfg.menus[i].chain, cfg.menus[i].http)],
   clients |-> [i \in DOMAIN cfg.clients |->
                [mac |-> Text(cfg.clients[i].mac), entries |-> cfg.clients[i].entries,
                 default |-> cfg.clients[i].default]]]

MenuNames(s) == Field(s.menus, "name")

-----------------------------------------------------------------------------
(* Starting and ending.                                                    *)

Init == /\ dir \in Directories
        /\ backup = Absent
        /\ pc = "off" /\ init = FALSE /\ st = DefaultState
        /\ good = dir[Main]
        /\ saved = DefaultState /\ failed = FALSE /\ answers = 0

\* init refuses a directory that has a bootforge.toml.
runInit == /\ pc = "off" /\ dir[Main] = Absent /\ answers < MaxAnswers
           /\ pc' = "server" /\ init' = TRUE /\ st' = DefaultState
           /\ answers' = answers + 1
           /\ UNCHANGED <<disk, history>>

runEdit == LET existing == LoadDir(dir)
           IN  /\ pc = "off" /\ existing # Rejected
               /\ pc' = "sections" /\ init' = FALSE /\ st' = ConfigToState(existing)
               /\ UNCHANGED <<disk, history, answers>>

\* The process ends, by Ctrl-C at a prompt or otherwise: the draft is gone.
Quit == /\ pc # "off"
        /\ pc' = "off" /\ st' = DefaultState
        /\ UNCHANGED <<disk, init, history, answers>>

-----------------------------------------------------------------------------
(* The questions.  Run asks them in turn; RunEdit lets the user choose a   *)
(* section and comes back to the choice.                                   *)

After(question) ==
  IF ~init THEN "sections"
  ELSE CASE question = "server" -> "bootloader" [] question = "bootloader" -> "services"
         [] question = "services" -> "netboot"  [] question = "netboot" -> "menus"
         [] question = "menus" -> "default"     [] question = "default" -> "clients"
         [] question = "clients" -> "summary"

\* Questions that can come again are counted.
Answer(question, next, s) ==
  LET again == ~init \/ question \in {"menus", "clients"}
  IN  /\ pc = question /\ (again => answers < MaxAnswers)
      /\ pc' = next /\ st' = s /\ answers' = IF again THEN answers + 1 ELSE answers
      /\ UNCHANGED <<disk, init, history>>

ChooseSection ==
  \E section \in {"server", "services", "bootloader", "netboot", "menus", "clients", "save"} :
    /\ pc = "sections" /\ pc' = section
    /\ UNCHANGED <<disk, init, st, history, answers>>

\* stepInterface and stepDataDir.
stepServer ==
  \E i \in Interfaces, d \in DataDirs :
    Answer("server", After("server"), [st EXCEPT !.iface = i, !.dir = d])

\* Without a download the architectures stay as they are.
stepBootloader ==
  \E archs \in Downloads \cup {st.archs} :
    Answer("bootloader", After("bootloader"), [st EXCEPT !.archs = archs])

ValidPorts == Port \cap 1..65535          \* what inputPort takes
\* A port is asked for only if the service is on.
Services(on, p) ==
  [st EXCEPT !.dhcp = IF "dhcp" \in on THEN [enabled |-> TRUE, port |-> p, proxyPort |-> p]
                      ELSE [@ EXCEPT !.enabled = FALSE],
             !.tftp = IF "tftp" \in on THEN [enabled |-> TRUE, port |-> p]
                      ELSE [@ EXCEPT !.enabled = FALSE],
             !.http = IF "http" \in on THEN [enabled |-> TRUE, port |-> p]
                      ELSE [@ EXCEPT !.enabled = FALSE]]
stepServices ==
  \E on \in Switches, p \in ValidPorts :
    Answer("services", After("services"), Services(on, p))

Without(names, name) == Keep(names, Range(names) \ {name})

\* The entry is taken out everywhere and, unless skipped, put in again, last.
\* A client's default is left alone.
NetbootEntry(mode) ==
  IF mode = "remote" THEN Menu(Netboot, "chain", "", "boot.netboot.xyz", "")
  ELSE Menu(Netboot, "chain", "", "netboot.xyz.lkrn", "/netboot/")
Relinked(added) ==
  [i \in DOMAIN st.clients |->
    [st.clients[i] EXCEPT !.entries = Without(@, Netboot) \o added]]
stepNetboot ==
  \E mode \in {"skip", "remote", "self-hosted"} :
    LET menus == Keep(st.menus, {m \in Range(st.menus) : m.name # Netboot})
        added == IF mode = "skip" THEN <<>> ELSE <<Netboot>>
    IN  Answer("netboot", After("netboot"),
          [st EXCEPT !.menus = IF mode = "skip" THEN menus
                               ELSE Append(menus, NetbootEntry(mode)),
                     !.clients = Relinked(added)])

\* promptMenuEntry: what can be answered for a new entry.
NewMenu ==
  {Menu(n, "exit", "", "", "") : n \in MenuName}
    \cup {Menu(n, "chain", "", "url", "") : n \in MenuName}
    \cup {Menu(a[1], a[2], a[3], "", a[4]) :
             a \in MenuName \X {"install", "tool"} \X Kernel \X HTTPPath}

MenuAdd == \E m \in NewMenu : Answer("menus", "menus", [st EXCEPT !.menus = Append(@, m)])

\* promptMenuEntryEdit: the old values can be kept; what the new type has no use
\* for is cleared, but for the HTTP path.
Cleared(m, oldPath) ==
  CASE m.type = "exit"  -> [m EXCEPT !.kernel = "", !.chain = "", !.http = oldPath]
    [] m.type = "chain" -> [m EXCEPT !.kernel = "", !.http = oldPath]
    [] OTHER            -> [m EXCEPT !.chain = ""]
EditedMenus(old) ==
  {Cleared([m EXCEPT !.name = n], old.http) : m \in NewMenu \cup {old},
                                              n \in MenuName \cup {old.name}}
Renamed(old, new) ==
  [i \in DOMAIN st.clients |->
    [st.clients[i] EXCEPT !.entries = [j \in DOMAIN @ |-> IF @[j] = old THEN new ELSE @[j]],
                          !.default = IF @ = old THEN new ELSE @]]
\* Slip: the clients keep the old name.
MenuEditOnly ==
  /\ ~init
  /\ \E i \in DOMAIN st.menus : \E m \in EditedMenus(st.menus[i]) :
       Answer("menus", "menus", [st EXCEPT !.menus[i] = m])
MenuEdit ==
  /\ ~init
  /\ \E i \in DOMAIN st.menus : \E m \in EditedMenus(st.menus[i]) :
       Answer("menus", "menus", [st EXCEPT !.menus[i] = m,
                                           !.clients = Renamed(st.menus[i].name, m.name)])

Unlinked(gone) ==
  [i \in DOMAIN st.clients |->
    [st.clients[i] EXCEPT !.entries = Without(@, gone),
                          !.default = IF @ = gone THEN "" ELSE @]]
MenuRemove ==
  /\ ~init
  /\ \E i \in DOMAIN st.menus :
       /\ st.menus[i].name # LocalDisk
       /\ Answer("menus", "menus", [st EXCEPT !.menus = RemoveAt(@, i),
                                              !.clients = Unlinked(st.menus[i].name)])

\* "Done" at the menus, or after the last client.
Done == /\ pc \in {"menus", "clients"}
        /\ pc' = After(pc)
        /\ UNCHANGED <<disk, init, st, history, answers>>

-----------------------------------------------------------------------------
(* The clients.                                                            *)

\* A MultiSelect over the menus: the chosen ones in the order of the menus.
Selections == {Keep(MenuNames(st), S) : S \in SUBSET Range(MenuNames(st))}

\* With several entries one is the default.
Defaults(entries) == IF Len(entries) > 1 THEN Range(entries) ELSE {""}

stepDefaultClient ==       \* the first question of Run's stepClients
  \E entries \in Selections :
    Answer("default", After("default"),
           [st EXCEPT !.clients[Len(st.clients)].entries = entries])

\* A new client goes before the wildcard, if that one is the last.
Inserted(clients, c) ==
  IF clients # <<>> /\ Last(clients).mac = "*"
  THEN Append(Front(clients), c) \o <<Last(clients)>>
  ELSE Append(clients, c)

ClientAdd ==
  \E mac \in MACText, entries \in Selections :
    /\ ParseMAC[mac] # Garbage
    /\ \E default \in Defaults(entries) :
         Answer("clients", "clients",
                [st EXCEPT !.clients = Inserted(@, [mac |-> mac, entries |-> entries,
                                                    default |-> default])])

ClientEdit ==
  /\ ~init
  /\ \E i \in DOMAIN st.clients, entries \in Selections :
       \E default \in Defaults(entries) :
         Answer("clients", "clients",
                [st EXCEPT !.clients[i].entries = entries, !.clients[i].default = default])

ClientRemove ==
  /\ ~init
  /\ \E i \in DOMAIN st.clients :
       /\ st.clients[i].mac # "*"
       /\ Answer("clients", "clients", [st EXCEPT !.clients = RemoveAt(@, i)])

-----------------------------------------------------------------------------
(* Writing.                                                                *)

\* Run does not look at the answer to "Write configuration?".
stepSummary == /\ pc = "summary"
               /\ pc' = "truncate"
               /\ UNCHANGED <<disk, init, st, history, answers>>

\* Slip: no backup.
SaveNoBackup == /\ pc = "save"
                /\ pc' \in {"sections", "truncate"}
                /\ UNCHANGED <<disk, init, st, history, answers>>

\* RunEdit does, and makes a backup if there is something to back up.
Save == /\ pc = "save"
        /\ \/ pc' = "sections"
           \/ pc' = IF dir[Main] = Absent THEN "truncate" ELSE "backup"
        /\ UNCHANGED <<disk, init, st, history, answers>>

\* os.WriteFile empties the file first.  The backup's error is not looked at.
BackupTruncate == /\ pc = "backup"
                  /\ backup' = EmptyFile /\ pc' = "copy"
                  /\ UNCHANGED <<dir, init, st, history, answers>>
BackupWrite == /\ pc = "copy"
               /\ \/ backup' = dir[Main] /\ UNCHANGED failed
                  \/ failed' = TRUE /\ UNCHANGED backup
               /\ pc' = "truncate"
               /\ UNCHANGED <<dir, init, st, good, saved, answers>>

\* Slip: the file is opened and written section by section.
WriteTruncatePart ==
  /\ pc = "truncate"
  /\ dir' = [dir EXCEPT ![Main] = [configToRaw(StateToConfig(st)) EXCEPT !.client = <<>>]]
  /\ pc' = "write"
  /\ UNCHANGED <<backup, init, st, history, answers>>

WriteTruncate == /\ pc = "truncate"
                 /\ dir' = [dir EXCEPT ![Main] = EmptyFile] /\ pc' = "write"
                 /\ UNCHANGED <<backup, init, st, history, answers>>

\* On a full disk the file stays empty, or gets a first part only.
WriteConfig ==
  LET raw == configToRaw(StateToConfig(st))
  IN
  /\ pc = "write"
  /\ \/ /\ dir' = [dir EXCEPT ![Main] = raw]
        /\ good' = dir'[Main] /\ saved' = st /\ UNCHANGED failed
     \/ /\ \E part \in {EmptyFile, [raw EXCEPT !.menu = <<>>, !.client = <<>>]} :
             dir' = [dir EXCEPT ![Main] = part]
        /\ failed' = TRUE /\ UNCHANGED <<good, saved>>
  /\ pc' = "off" /\ st' = DefaultState
  /\ UNCHANGED <<backup, init, answers>>

Next == \/ runInit \/ runEdit \/ Quit \/ ChooseSection \/ Done
        \/ stepServer \/ stepBootloader \/ stepServices \/ stepNetboot
        \/ MenuAdd \/ MenuEdit \/ MenuRemove
        \/ stepDefaultClient \/ ClientAdd \/ ClientEdit \/ ClientRemove
        \/ stepSummary \/ Save
        \/ BackupTruncate \/ BackupWrite \/ WriteTruncate \/ WriteConfig

Spec == Init /\ [][Next]_vars

-----------------------------------------------------------------------------
(* Properties.                                                             *)

Prompts == {"server", "bootloader", "services", "netboot", "menus", "default", "clients",
            "sections", "summary"}
TypeOK ==
  /\ FileOrder \in Seq(DOMAIN dir) /\ \A f \in DOMAIN dir : dir[f] \in Content
  /\ backup \in Content /\ good \in Content
  /\ pc \in Prompts \cup {"off", "save", "backup", "copy", "truncate", "write"}
  /\ init \in BOOLEAN /\ failed \in BOOLEAN /\ answers \in Nat
  /\ st \in WizardState /\ saved \in WizardState

\* steps.go:496 and steps.go:538 ("Cascade name change to client references"): however
\* menus are renamed, removed, defined twice or replaced by those of netboot.xyz,
\* no client of the draft refers to an entry that is not there.
EntriesRefer ==
  \A i \in DOMAIN st.clients : Range(st.clients[i].entries) \subseteq Range(MenuNames(st))

\* What a machine gets of a draft: by type, what its boot parameters are used for.
Boots(s) ==
  LET use == [i \in DOMAIN s.menus |-> rawMenu(Entry(s.menus[i]))]
  IN  [service |-> <<s.iface, s.dir.place, s.archs>>,
       on |-> <<s.dhcp.enabled, s.tftp.enabled, s.http.enabled>>,
       ports |-> <<IF s.dhcp.enabled THEN s.dhcp ELSE 0, IF s.tftp.enabled THEN s.tftp ELSE 0,
                   IF s.http.enabled THEN s.http ELSE 0>>,
       menus |-> use,
       clients |-> [i \in DOMAIN s.clients |-> [s.clients[i] EXCEPT !.mac = ParseMAC[@]]]]
NamesOnce(s) == /\ IsInjective(MenuNames(s))
                /\ IsInjective([i \in DOMAIN s.clients |-> ParseMAC[s.clients[i].mac]])

\* bootforge.toml has no other .toml file next to it.
SingleFile == \A f \in Range(FileOrder) \ {Main} : dir[f] = Absent

\* After a session has saved a single file, and as long as nobody named a menu or a
\* machine twice, LoadDir accepts the directory, and the draft that is edited next is
\* the one that was saved: nothing the wizard asked for is lost on the way through the
\* file.  And whatever it accepts, saving what was just loaded changes nothing more.
Written == pc = "off" /\ saved # DefaultState /\ dir[Main] = good
SavedComesBack ==
  SingleFile /\ Written =>
    LET cfg == LoadDir(dir)
    IN  /\ NamesOnce(saved) => cfg # Rejected /\ Boots(ConfigToState(cfg)) = Boots(saved)
        /\ cfg # Rejected => configToRaw(StateToConfig(ConfigToState(cfg))) = good

\* [server] may be in any file (loader.go:95): the directory is loaded with the last
\* complete bootforge.toml, and with an empty one as well.  Then nobody notices that the
\* file was emptied: a server loads the rest, and the next edit backs up nothing.
EmptiedLoads == /\ good # Absent /\ LoadDir([dir EXCEPT ![Main] = good]) # Rejected
                /\ LoadDir([dir EXCEPT ![Main] = EmptyFile]) # Rejected

\* edit.go:13, "Creates a backup of the current config before overwriting": wherever
\* the process dies, and in whatever session, the last complete bootforge.toml is in one
\* of the two files, as long as no write fails and an emptied one is noticed.
LastGoodKept == failed \/ EmptiedLoads \/ good \in {Absent, dir[Main], backup}

\* What a server gets that starts now, or is told to reload: serve validates.
ServerLoads(d) == LET cfg == LoadDir(d)
                  IN  IF cfg # Rejected /\ Validate(cfg) THEN cfg ELSE Rejected

\* A server may load the directory at any moment, also between two operations of
\* the wizard on the file: it gets what was completely written last (before the first
\* time, a bootforge.toml that is not there or empty), or an error that makes it keep
\* what it has, never half a configuration, as long as no write fails and an emptied
\* file is noticed.
Complete == IF good = Absent THEN {Absent, EmptyFile} ELSE {good}
LoadsWhole ==
  \/ failed \/ EmptiedLoads \/ ServerLoads(dir) = Rejected
  \/ \E f \in Complete : ServerLoads(dir) = ServerLoads([dir EXCEPT ![Main] = f])

\* README.md:331, "You can use a single file or split by concern": a directory that
\* was loaded by edit can be loaded after edit has saved it.
EditKeepsLoadable == Written /\ NamesOnce(saved) => LoadDir(dir) # Rejected
=============================================================================
