------------------------------- MODULE IPXEScript -------------------------------
(***************************************************************************)
(* server/ipxe.go: the iPXE scripts of a boot menu, of a single entry and  *)
(* of a one-time override, and the iPXE commands they are made of.         *)
(*                                                                         *)
(* A script is a sequence of commands.  What iPXE does with one is         *)
(* external: a label is looked up from the top of the script; a command    *)
(* that fails goes to the label after "||", or ends the script; one that   *)
(* succeeds is followed by the next, whatever entry that belongs to.       *)
(*                                                                         *)
(* A menu entry has a name, a type and boot parameters, "" when not set;   *)
(* files is the list of a wimboot entry, path its HTTP path.  A URL is a   *)
(* pair of a path and a file.  The field of of a command is the entry it   *)
(* is written for, for the properties only.                                *)
(***************************************************************************)
EXTENDS Naturals, SequencesExt

Entries == [name : STRING, type : STRING, loader : STRING, chain : STRING,
            binary : STRING, kernel : STRING, initrd : STRING, image : STRING,
            files : Seq(STRING), path : STRING]

Cmd(op, arg, fallback, of) == [op |-> op, arg |-> arg, fallback |-> fallback, of |-> of]

Label(l) == Cmd("label", l, "", "")
Load(url, e) == Cmd("load", url, "", e.name)         \* kernel and initrd
Chain(url, fallback, e) == Cmd("chain", url, fallback, e.name)
Boot(e) == Cmd("boot", "", "", e.name)

\* The name of the entry is the path of one that has none.
fileURL(e, file) == <<IF e.path # "" THEN e.path ELSE e.name, file>>

writeWimboot(e) == <<Load(fileURL(e, "wimboot"), e)>>
                     \o [i \in DOMAIN e.files |-> Load(fileURL(e, e.files[i]), e)]
                     \o <<Boot(e)>>

LoadIfSet(e, file) == IF file = "" THEN <<>> ELSE <<Load(fileURL(e, file), e)>>

\* A loader goes before a chain URL; in a menu it is the other way round.
writeBootEntry(e) ==
  CASE e.loader = "wimboot" -> writeWimboot(e)
    [] e.loader # "wimboot" /\ e.chain # "" -> <<Chain(<<e.chain, "">>, "failed", e)>>
    [] e.loader # "wimboot" /\ e.chain = "" /\ e.binary # "" ->
         <<Chain(fileURL(e, e.binary), "", e)>>
    [] OTHER -> LoadIfSet(e, e.kernel) \o LoadIfSet(e, e.initrd) \o LoadIfSet(e, e.image)
                  \o <<Boot(e)>>

\* Slip: there is nothing to do for an exit entry.
MenuEntryNoExit(e) ==
  <<Label(e.name)>> \o
    (CASE e.type = "exit" -> <<>>
       [] e.type # "exit" /\ e.chain # "" -> <<Chain(<<e.chain, "">>, "start", e)>>
       [] OTHER -> writeBootEntry(e))

\* The part of the menu's script for an entry.
MenuEntry(e) ==
  <<Label(e.name)>> \o
    (CASE e.type = "exit" -> <<Cmd("exit", "", "", e.name)>>
       [] e.type # "exit" /\ e.chain # "" -> <<Chain(<<e.chain, "">>, "start", e)>>
       [] OTHER -> writeBootEntry(e))

\* choose offers the names of the entries; a timeout takes the default, or what is
\* shown first, so it is one more way to choose.
writeMenu(entries) ==
  LET names == [i \in DOMAIN entries |-> entries[i].name]
  IN  <<Label("start"), Cmd("choose", names, "failed", ""), Cmd("goto", "selected", "", "")>>
        \o FlattenSeq([i \in DOMAIN entries |-> MenuEntry(entries[i])])
        \o <<Label("failed"), Cmd("goto", "start", "", "")>>

\* A single entry is booted without a menu.
Generate(entries) ==
  IF Len(entries) = 1 /\ entries[1].type # "exit" THEN writeBootEntry(entries[1])
  ELSE writeMenu(entries)

GenerateOverride(entry) == writeBootEntry(entry)

-----------------------------------------------------------------------------
(* iPXE.                                                                   *)

\* Where goto l leads; behind the end when there is no such label.
LabelAt(script, l) ==
  LET found == {i \in DOMAIN script : script[i] = Label(l)}
  IN  IF found = {} THEN 0 ELSE CHOOSE i \in found : \A j \in found : i <= j
=============================================================================
