------------------------------ MODULE ConfigFiles ------------------------------
(***************************************************************************)
(* What infra/toml does with the configuration directory: LoadDir parses   *)
(* every .toml file, merges them and resolves paths; WriteConfig turns a   *)
(* domain.FullConfig back into one file, bootforge.toml.                   *)
(*                                                                         *)
(* A file is a rawFile: sections and options may be Absent, "" and 0 are   *)
(* Go's zero values.  Texts the code only copies are abstract: "std" is    *)
(* what the setup wizard writes, anything else somebody's own choice; opts *)
(* stands for all the options of a section no check reads.                 *)
(***************************************************************************)
EXTENDS Integers, SequencesExt

CONSTANTS Absent,     \* a nil pointer: a section or option the file does not have
          Garbage,    \* what the parser rejects: a file, a duration, a type, a MAC
          Rejected,   \* the error of LoadDir
          FileOrder,  \* the names of the directory's files, sorted
          Word,       \* the texts a file may hold
          ParseMAC    \* domain.ParseMAC: from the texts to MACs, or Garbage

Arch == {"uefi_x64", "uefi_x86", "bios", "arm64"}
MenuType == {"install", "tool", "exit", "chain"}  \* "live" is treated like "install"

Wild == "00"                            \* domain.WildcardMAC
Text(mac) == IF mac = Wild THEN "*" ELSE mac   \* as WriteConfig and the wizard print it

\* A data_dir: "" or a place, named by a path that is relative or not.
NoDir == [place |-> "", rel |-> TRUE]
resolvePaths(dir) == IF dir = NoDir THEN dir ELSE [dir EXCEPT !.rel = FALSE]
makeRelative(dir) == IF dir = NoDir THEN dir ELSE [dir EXCEPT !.rel = TRUE]

\* The zero values of the sections of domain.FullConfig.
NoServer == [iface |-> "", dir |-> NoDir, logging |-> ""]
NoDHCP == [enabled |-> FALSE, port |-> 0, proxyPort |-> 0, opts |-> ""]
NoTFTP == [enabled |-> FALSE, port |-> 0, opts |-> ""]
NoHTTP == [enabled |-> FALSE, port |-> 0, opts |-> "", tls |-> ""]
NoHealth == [enabled |-> FALSE, interval |-> "", startup |-> FALSE]
NoLoader == [dir |-> "", files |-> [a \in Arch |-> ""], chainURL |-> ""]

EmptyFile == [server |-> Absent, dhcp |-> Absent, tftp |-> Absent, http |-> Absent,
              health |-> Absent, bootloader |-> Absent, menu |-> <<>>, client |-> <<>>]

\* The elements of a slice that are in S, in its order.
Keep(s, S) ==
  LET kept[i \in 0..Len(s)] ==
        IF i = 0 THEN <<>>
        ELSE IF s[i] \in S THEN Append(kept[i-1], s[i]) ELSE kept[i-1]
  IN  kept[Len(s)]

-----------------------------------------------------------------------------
(* The types.  on: how a file or the program says that something is on;    *)
(* text: an option that is checked, or has been; types, macs: of menu      *)
(* entries and of clients.                                                 *)

DirName == [place : Word, rel : BOOLEAN]
Server == [iface : Word, dir : DirName, logging : Word]
DHCP(on) == [enabled : on, port : Int, proxyPort : Int, opts : Word]
TFTP(on, text) == [enabled : on, port : Int, opts : text]
HTTP(on, text) == [enabled : on, port : Int, opts : text, tls : Word]
Health(on, text) == [enabled : on, interval : text, startup : on]
Bootloader == [dir : Word, files : [Arch -> Word], chainURL : Word]
MenuEntry(types) == [name : Word, type : types, kernel : Word, extra : Word,
                     chain : Word, http : Word]
Client(macs, on) == [mac : macs, enabled : on, entries : Seq(Word), default : Word,
                     vars : Word, loader : Word]

Optional(S) == S \cup {Absent}
MAC == {ParseMAC[t] : t \in DOMAIN ParseMAC} \ {Garbage}

File(on, text, types, macs) ==
  [server : Optional(Server), dhcp : Optional(DHCP(on)), tftp : Optional(TFTP(on, text)),
   http : Optional(HTTP(on, text)), health : Optional(Health(on, text)),
   bootloader : Optional(Bootloader),
   menu : Seq(MenuEntry(types)), client : Seq(Client(macs, on))]
\* What toml.Unmarshal and then parseFile make of a file.
rawFile == File(Optional(BOOLEAN), Word \cup {Garbage}, MenuType \cup {"", Garbage},
                DOMAIN ParseMAC)
fileResult == File(BOOLEAN, Word, MenuType, MAC)

FullConfig ==
  [server : Server, dhcp : DHCP(BOOLEAN), tftp : TFTP(BOOLEAN, Word),
   http : HTTP(BOOLEAN, Word), health : Health(BOOLEAN, Word), bootloader : Bootloader,
   menus : Seq(MenuEntry(MenuType)), clients : Seq(Client(MAC, BOOLEAN))]

\* nil, what cannot be parsed and an error are no values of these types.
ASSUME ValueAssumption ==
  /\ Absent \notin BOOLEAN \cup Server \cup DHCP(BOOLEAN) \cup TFTP(BOOLEAN, Word)
                 \cup HTTP(BOOLEAN, Word) \cup Health(BOOLEAN, Word) \cup Bootloader
                 \cup rawFile
  /\ Garbage \notin Word \cup MenuType \cup rawFile
  /\ Rejected \notin FullConfig

\* A MAC that is printed and parsed again is the same.
ASSUME MACAssumption ==
  /\ "*" \in DOMAIN ParseMAC /\ ParseMAC["*"] = Wild /\ Wild # Garbage
  /\ \A mac \in MAC : Text(mac) \in DOMAIN ParseMAC /\ ParseMAC[Text(mac)] = mac

-----------------------------------------------------------------------------
(* parser.go                                                               *)

boolDefault(b, default) == IF b = Absent THEN default ELSE b

\* Slip: false is taken for not set.
EnabledUnlessTrue(section) == IF section = Absent THEN Absent
                              ELSE [section EXCEPT !.enabled = TRUE]
Enabled(section) == IF section = Absent THEN Absent
                    ELSE [section EXCEPT !.enabled = boolDefault(@, TRUE)]
convertHealth(h) == IF h = Absent THEN Absent
                    ELSE [h EXCEPT !.enabled = boolDefault(@, TRUE),
                                   !.startup = boolDefault(@, TRUE)]
convertMenu(m) == [m EXCEPT !.type = IF @ = "" THEN "install" ELSE @]
convertClient(c) == [c EXCEPT !.mac = ParseMAC[@], !.enabled = boolDefault(@, TRUE)]

\* toml.Unmarshal, a duration, a menu type or a MAC fails.
Malformed(file) ==
  \/ file = Garbage
  \/ file.tftp # Absent /\ file.tftp.opts = Garbage
  \/ file.http # Absent /\ file.http.opts = Garbage
  \/ file.health # Absent /\ file.health.interval = Garbage
  \/ \E i \in DOMAIN file.menu : file.menu[i].type = Garbage
  \/ \E i \in DOMAIN file.client : ParseMAC[file.client[i].mac] = Garbage

parseFile(file) ==
  [file EXCEPT !.dhcp = Enabled(@), !.tftp = Enabled(@), !.http = Enabled(@),
               !.health = convertHealth(@),
               !.menu = [i \in DOMAIN @ |-> convertMenu(@[i])],
               !.client = [i \in DOMAIN @ |-> convertClient(@[i])]]

-----------------------------------------------------------------------------
(* loader.go                                                               *)

\* The last file that has a section wins; without any it stays zero.
LastOf(results, section, zero) ==
  LET having == {i \in DOMAIN results : results[i][section] # Absent}
  IN  IF having = {} THEN zero ELSE results[Max(having)][section]

Field(records, f) == [i \in DOMAIN records |-> records[i][f]]

merge(results) ==
  LET menus == FlattenSeq(Field(results, "menu"))
      clients == FlattenSeq(Field(results, "client"))
      servers == {i \in DOMAIN results : results[i].server # Absent}
      names == Field(menus, "name")
  IN  IF /\ Cardinality(servers) = 1
         /\ IsInjective(names)
         /\ IsInjective(Field(clients, "mac"))
         /\ \A i \in DOMAIN clients : Range(clients[i].entries) \subseteq Range(names)
      THEN [server |-> LastOf(results, "server", NoServer),
            dhcp |-> LastOf(results, "dhcp", NoDHCP),
            tftp |-> LastOf(results, "tftp", NoTFTP),
            http |-> LastOf(results, "http", NoHTTP),
            health |-> LastOf(results, "health", NoHealth),
            bootloader |-> LastOf(results, "bootloader", NoLoader),
            menus |-> menus, clients |-> clients]
      ELSE Rejected

\* dir maps the file names to contents, or to Absent.
LoadDir(dir) ==
  LET found == [i \in DOMAIN FileOrder |-> dir[FileOrder[i]]]
      files == Keep(found, Range(found) \ {Absent})
      cfg == merge([i \in DOMAIN files |-> parseFile(files[i])])
  IN  IF files = <<>> \/ \E i \in DOMAIN files : Malformed(files[i]) THEN Rejected
      ELSE IF cfg = Rejected THEN Rejected
      ELSE [cfg EXCEPT !.server.dir = resolvePaths(@)]

-----------------------------------------------------------------------------
(* FullConfig.Validate                                                     *)

ValidPort(service) == service.enabled => service.port \in 1..65535

ValidMenu(m) ==
  /\ m.name # ""
  /\ m.type = "install" => m.kernel # ""
  /\ m.type = "tool" => m.kernel # "" \/ m.extra # ""
  /\ m.type = "chain" => m.chain # ""

ValidClient(c) ==
  /\ c.entries # <<>>
  /\ c.default # "" => c.default \in Range(c.entries)

Validate(cfg) ==
  /\ cfg.server.iface # "" /\ cfg.server.dir # NoDir
  /\ ValidPort(cfg.dhcp) /\ ValidPort(cfg.tftp) /\ ValidPort(cfg.http)
  /\ cfg.dhcp.enabled => cfg.dhcp.proxyPort \in 1..65535
  /\ cfg.bootloader.dir # "" /\ cfg.bootloader.chainURL # ""
  /\ \A i \in DOMAIN cfg.menus : ValidMenu(cfg.menus[i])
  /\ \A i \in DOMAIN cfg.clients : ValidClient(cfg.clients[i])

-----------------------------------------------------------------------------
(* writer.go                                                               *)

IfUsed(service) == IF service.port > 0 \/ service.enabled THEN service ELSE Absent

\* Boot parameters of an entry's type; the others are not written.
rawMenu(m) ==
  CASE m.type = "exit"  -> [m EXCEPT !.kernel = "", !.extra = "", !.chain = ""]
    [] m.type = "chain" -> [m EXCEPT !.kernel = "", !.extra = ""]
    [] OTHER            -> [m EXCEPT !.chain = ""]

\* The client's own boot files are not written.
rawClient(c) == [c EXCEPT !.mac = Text(@), !.loader = ""]

configToRaw(cfg) ==
  [server |-> [cfg.server EXCEPT !.dir = makeRelative(@)],
   dhcp |-> IfUsed(cfg.dhcp),
   tftp |-> IfUsed(cfg.tftp),
   http |-> IfUsed([cfg.http EXCEPT !.tls = IF @ = "on" THEN @ ELSE ""]),
   health |-> IF cfg.health.enabled \/ cfg.health.interval # "" THEN cfg.health ELSE Absent,
   bootloader |-> cfg.bootloader,
   menu |-> [i \in DOMAIN cfg.menus |-> rawMenu(cfg.menus[i])],
   client |-> [i \in DOMAIN cfg.clients |-> rawClient(cfg.clients[i])]]
=============================================================================
