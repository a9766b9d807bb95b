------------------------------- MODULE MCBootChain -------------------------------
(* A small instance of BootChain for TLC.                                  *)
EXTENDS BootChain, TLC

MCArch == {"bios", "uefi"}
MCArchOf == "a" :> "bios"
MCNet0 == "a" :> "a"

Laptop == [mac |-> "l", xid |-> <<0, "">>, type |-> "discover", pxe |-> FALSE,
           arch |-> "uefi", userClass |-> ""]
\* Also "a", in UEFI mode, before it was switched off: that packet may be answered late.
MCNoise == {Laptop, [Laptop EXCEPT !.pxe = TRUE, !.arch = "other"],
            [Laptop EXCEPT !.pxe = TRUE, !.type = "release"],
            [Laptop EXCEPT !.pxe = TRUE, !.mac = "a"]}

Entry(name, type) == [name |-> name, type |-> type, loader |-> "", chain |-> "", binary |-> "",
                      kernel |-> "", initrd |-> "", image |-> "", files |-> <<>>, path |-> ""]
Disk == Entry("disk", "exit")
Net == [Entry("os", "chain") EXCEPT !.chain = "url"]
Windows == [Entry("os", "install") EXCEPT !.loader = "wimboot", !.files = <<"bcd">>,
                                          !.path = "data"]
MCRoutes == {"data"} \X {"wimboot", "bcd"}

Client(entries, bios) == [enabled |-> TRUE, entries |-> entries,
                          loader |-> ("bios" :> bios) @@ ("uefi" :> "")]
Common == [files |-> ("bios" :> "kpxe") @@ ("uefi" :> "efi"), chain |-> "url", http |-> TRUE]

\* Everyone has a single entry, and another BIOS boot file than that of the server.
One == [boot |-> Common,
        clients |-> "*" :> Client(<<"os">>, "own"),
        menus |-> "os" :> Net]
\* "a" has entries of its own, among them one that is another "os" by now; and everyone
\* has another boot file for UEFI.
Two == [boot |-> [Common EXCEPT !.files["uefi"] = "efi2"],
        clients |-> ("a" :> Client(<<"disk", "os">>, "")) @@ ("*" :> Client(<<"disk">>, "")),
        menus |-> ("os" :> Windows) @@ ("disk" :> Disk)]
MCConfig == {One, Two}
=============================================================================
