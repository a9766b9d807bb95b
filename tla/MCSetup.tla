-------------------------------- MODULE MCSetup --------------------------------
(* Small instances of Setup for TLC.                                       *)
EXTENDS Setup

MCFiles == <<"bootforge.toml", "other.toml">>
MCWord == {"", "std", "own", "on", "eth0", "data", "srv", "url", "boot.netboot.xyz",
           "netboot.xyz.lkrn", "/netboot/", "/h/", "k", "v", "l", "a", Netboot, LocalDisk}
MCMAC == ("*" :> "00") @@ ("00" :> "00") @@ ("m1" :> "m1") @@ ("M1" :> "m1") @@ ("m" :> Garbage)

MCMenu(name, type, kernel, chain, http, extra) ==
  [extra |-> extra] @@ Menu(name, type, kernel, chain, http)
MCClient(mac, enabled, entries, default) ==
  [mac |-> mac, enabled |-> enabled, entries |-> entries, default |-> default,
   vars |-> "v", loader |-> "l"]

\* Written by hand: no [tftp], TLS, an exit entry with a kernel, a
\* disabled client under another spelling of its address.
Hand ==
  [server |-> [iface |-> "eth0", dir |-> [place |-> "srv", rel |-> FALSE], logging |-> ""],
   dhcp |-> [enabled |-> Absent, port |-> 67, proxyPort |-> 4011, opts |-> "own"],
   tftp |-> Absent,
   http |-> [enabled |-> TRUE, port |-> 80, opts |-> "", tls |-> "on"],
   health |-> [enabled |-> FALSE, interval |-> "", startup |-> Absent],
   bootloader |-> [dir |-> "own", files |-> [a \in Arch |-> IF a = "bios" THEN "own" ELSE ""],
                   chainURL |-> "own"],
   menu |-> <<MCMenu(LocalDisk, "exit", "k", "", "", ""),
              MCMenu(Netboot, "chain", "", "netboot.xyz.lkrn", "/netboot/", "")>>,
   client |-> <<MCClient("M1", FALSE, <<LocalDisk, Netboot>>, Netboot),
                MCClient("*", Absent, <<LocalDisk>>, "")>>]

Typo == [Hand EXCEPT !.menu[1].type = Garbage]

Dir(main, other) == [f \in Range(MCFiles) |-> IF f = "bootforge.toml" THEN main ELSE other]
\* The same, split by concern: its menus in a file of their own, or its [server].
Menus == [EmptyFile EXCEPT !.menu = Hand.menu]
Split == {Dir([Hand EXCEPT !.menu = <<>>], Menus)}
ServerElsewhere ==
  {Dir(Absent, Hand), Dir([EmptyFile EXCEPT !.menu = Hand.menu, !.client = Hand.client],
                          [Hand EXCEPT !.menu = <<>>, !.client = <<>>])}

OneFile == {Dir(Hand, Absent), Dir(Typo, Absent), Dir(Absent, Absent)}
Anywhere == OneFile \cup Split \cup ServerElsewhere

MCDownloads == {{"uefi_x64", "bios"}}
MCSwitches == {{"dhcp", "tftp", "http"}, {"http"}}
MCDataDirs == {[place |-> "srv", rel |-> FALSE]}
=============================================================================
