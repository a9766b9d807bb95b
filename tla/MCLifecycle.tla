------------------------------ MODULE MCLifecycle ------------------------------
(* Lifecycle on configurations with all services, with one, with a port given  *)
(* twice, and with the checks skipped; and on boot loaders good and bad.       *)
EXTENDS Lifecycle

AllServices == {"dhcp", "tftp", "http"}
Standard == [dhcp |-> "udp67", proxy |-> "udp4011", tftp |-> "udp69", http |-> "tcp8080"]

MCConfig ==
  { [check |-> TRUE, enabled |-> AllServices, tls |-> TRUE, archs |-> {"x86_64"}, port |-> Standard],
    [check |-> TRUE, enabled |-> {"tftp"}, tls |-> FALSE, archs |-> {"arm64", "bios"}, port |-> Standard],
    [check |-> TRUE, enabled |-> {"dhcp"}, tls |-> FALSE, archs |-> {},
     port |-> [Standard EXCEPT !["proxy"] = "udp67"]],
    [check |-> FALSE, enabled |-> AllServices, tls |-> FALSE, archs |-> {},
     port |-> [Standard EXCEPT !["tftp"] = "udp67"]] }

\* Nothing is missing, or one thing.
Everything == {"interface", "data", "certificate", "right"}
MCHosts == {Everything} \cup {Everything \ {t} : t \in Everything \ {"data"}}

\* Sizes are in units that make a header of 8, which needs 3.
Binary == [exists |-> TRUE, size |-> 9, mz |-> TRUE, peOffset |-> 2, pe |-> TRUE, machine |-> "x86_64"]
MCBootFiles ==
  { Binary, [Binary EXCEPT !.machine = "arm64"], [Binary EXCEPT !.machine = "unknown"],
    [Binary EXCEPT !.exists = FALSE], [Binary EXCEPT !.size = 0], [Binary EXCEPT !.size = 2],
    [Binary EXCEPT !.peOffset = 3], [Binary EXCEPT !.mz = FALSE], [Binary EXCEPT !.pe = FALSE] }
=============================================================================
