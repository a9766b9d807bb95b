-------------------------------- MODULE Lifecycle --------------------------------
(***************************************************************************)
(* bootforge serve from its preflight checks to its end: runServe and the  *)
(* goroutines it starts.  Other processes take and leave ports, requests   *)
(* and packets come, and a signal, at any time.                            *)
(***************************************************************************)
EXTENDS BootFile, Sequences, FiniteSets

CONSTANTS Config,      \* configurations runServe may find
          Hosts,       \* what there may be on the host: sets of the things below
          BootFiles,   \* what there may be under the name of a boot loader
          Requests,    \* HTTP requests and the connections they come on
          MaxTaken     \* bound: ports that are in use at first, and opened later

ASSUME ConfigAssumption ==
  \A c \in Config : /\ c.check \in BOOLEAN /\ c.tls \in BOOLEAN /\ c.enabled \subseteq {"dhcp", "tftp", "http"}
                    /\ c.archs \subseteq {"x86_64", "i386", "bios", "arm64"}
ASSUME FileAssumption ==
  \A f \in BootFiles : /\ f.size \in Nat /\ f.peOffset \in Nat
                       /\ f.exists \in BOOLEAN /\ f.mz \in BOOLEAN /\ f.pe \in BOOLEAN
ASSUME BoundAssumption == MaxTaken \in Nat /\ HeaderSize \in Nat /\ MinHeader \in Nat

\* A configuration: check (StartupCheck without --force), the services that are enabled,
\* whether HTTP uses TLS, the port of each socket, as <<protocol, number>>, and the boot
\* files by architecture.
Listeners == {"dhcp", "proxy"}                  \* of the DHCP proxy
Sockets(c) == (IF "dhcp" \in c.enabled THEN Listeners ELSE {}) \cup (c.enabled \ {"dhcp"})

VARIABLES cfg,
          others,     \* port -> "none", "all" or "one": who else has opened it, and for
                      \* every address or for one
          host,       \* what is there: the interface, the data directory, a certificate
                      \* and its key, the right to bind to a device; and the boot files
          pc,         \* runServe: its next step
          checked,    \* how far the preflight checks are
          allOK, bound, serving,
          ctx,        \* the context is cancelled
          notified, signalled,
          closing, grace,   \* HTTP does not accept any more; its five seconds are over
          req,
          how         \* how the process has ended

\* History: another process has opened a port since the preflight checks began; packets
\* a listener has read since the context was cancelled.
VARIABLES disturbed, late, taken

env == <<others, host, taken>>
proc == <<cfg, checked, allOK>>
net == <<bound, serving, req>>
end == <<ctx, notified, signalled, closing, grace, how>>
vars == <<env, proc, net, end, pc, disturbed, late>>

Ports == UNION {{c.port[s] : s \in Sockets(c)} : c \in Config}
Alive == pc # "exited"

\* A bind fails if we, or somebody else for every address, have the port (or the kernel
\* keeps it from us); it may fail or succeed if somebody has it for one address.
Taken(s) == \/ \E t \in bound : cfg.port[t] = cfg.port[s]
            \/ others[cfg.port[s]] = "all"
Free(s) == ~Taken(s)
\* The DHCP proxy's sockets are bound to the interface as well: that fails without the
\* right to do so, and may fail if the interface is missing or down.
MayBind(s) == Free(s) /\ (s \in Listeners => "right" \in host.there)
MayFail(s) == \/ Taken(s) \/ others[cfg.port[s]] = "one"
              \/ s \in Listeners /\ ~({"interface", "right"} \subseteq host.there)

\* The process ends: its sockets are closed, its requests cut off.
Exit(reason) ==
  /\ pc' = "exited" /\ how' = reason
  /\ bound' = {} /\ serving' = [s \in DOMAIN serving |-> "none"]
  /\ req' = [r \in Requests |-> IF req[r] = "running" THEN "cut" ELSE req[r]]
  /\ UNCHANGED <<env, proc, ctx, notified, signalled, closing, grace, disturbed, late>>

-----------------------------------------------------------------------------
(* Preflight checks.                                                       *)

Order == <<"interface", "dhcp", "proxy", "tftp", "http",
           "x86_64", "i386", "bios", "arm64", "data">>
Applies(check) == check \in {"interface", "data"} \cup Sockets(cfg) \cup cfg.archs

\* Slip: only a bind is tried.
checkPortBind(s) == Free(s)
\* A port that somebody has opened, for one address even, is not good enough.
checkPort(s) == Free(s) /\ others[cfg.port[s]] = "none"
checkBootFile(a) == ValidateBootFile(host.files[a], a) = {}
Passes(check) == IF check \in Sockets(cfg) THEN checkPort(check)
                 ELSE IF check \in cfg.archs THEN checkBootFile(check)
                 ELSE check \in host.there

\* One check after the other, whatever the ones before have found.
RunPreflight ==
  /\ pc = "preflight" /\ checked < Len(Order) /\ checked' = checked + 1
  /\ allOK' = (allOK /\ (Applies(Order[checked']) => Passes(Order[checked'])))
  /\ UNCHANGED <<env, cfg, net, end, pc, disturbed, late>>

PreflightDone ==
  /\ pc = "preflight" /\ checked = Len(Order)
  /\ IF allOK THEN pc' = "dhcp" /\ UNCHANGED <<env, proc, net, end, disturbed, late>>
     ELSE Exit("error")

-----------------------------------------------------------------------------
(* Starting.                                                               *)

Step(from, to) == pc = from /\ pc' = to
Enabled(service) == service \in cfg.enabled

\* Slip: each listener is served as soon as it is bound.
ListenDHCPServes ==
  \/ /\ Step("dhcp", "proxy") /\ Enabled("dhcp") /\ MayBind("dhcp")
     /\ bound' = bound \cup {"dhcp"} /\ serving' = [serving EXCEPT !["dhcp"] = "check"]
     /\ UNCHANGED <<env, proc, req, end, disturbed, late>>
  \/ pc = "dhcp" /\ Enabled("dhcp") /\ MayFail("dhcp") /\ Exit("error")
  \/ /\ Step("dhcp", "tftp") /\ ~Enabled("dhcp")
     /\ UNCHANGED <<env, proc, net, end, disturbed, late>>

\* ProxyServer.Start binds one port and the other; only then both are served.
ListenDHCP ==
  \/ /\ Step("dhcp", "proxy") /\ Enabled("dhcp") /\ MayBind("dhcp")
     /\ bound' = bound \cup {"dhcp"}
     /\ UNCHANGED <<env, proc, serving, req, end, disturbed, late>>
  \/ pc = "dhcp" /\ Enabled("dhcp") /\ MayFail("dhcp") /\ Exit("error")
  \/ /\ Step("dhcp", "tftp") /\ ~Enabled("dhcp")
     /\ UNCHANGED <<env, proc, net, end, disturbed, late>>
\* Slip: the second listener is forgotten.
ListenProxyOnly ==
  \/ /\ Step("proxy", "tftp") /\ MayBind("proxy")
     /\ bound' = bound \cup {"proxy"} /\ serving' = [serving EXCEPT !["dhcp"] = "check"]
     /\ UNCHANGED <<env, proc, req, end, disturbed, late>>
  \/ pc = "proxy" /\ MayFail("proxy") /\ Exit("error")
ListenProxy ==
  \/ /\ Step("proxy", "tftp") /\ MayBind("proxy")
     /\ bound' = bound \cup {"proxy"}
     /\ serving' = [s \in DOMAIN serving |-> IF s \in Listeners THEN "check" ELSE serving[s]]
     /\ UNCHANGED <<env, proc, req, end, disturbed, late>>
  \/ pc = "proxy" /\ MayFail("proxy") /\ Exit("error")

\* The others are started in the background, and runServe goes on.
Spawn(service, next) ==
  /\ Step(service, next)
  /\ serving' = IF Enabled(service) THEN [serving EXCEPT ![service] = "starting"] ELSE serving
  /\ UNCHANGED <<env, proc, bound, req, end, disturbed, late>>
StartTFTP == Spawn("tftp", "http")
StartHTTP == Spawn("http", "announce")

\* "Services running:", whatever has become of them.
Announce == /\ Step("announce", "notify")
            /\ UNCHANGED <<env, proc, net, end, disturbed, late>>
Notify == /\ Step("notify", "wait") /\ notified' = TRUE
          /\ UNCHANGED <<env, proc, net, ctx, signalled, closing, grace, how, disturbed, late>>

\* ListenAndServeTLS with a certificate or a key that is missing or bad: the port is
\* opened and, since nothing can be served on it, closed.
Unserved(s) == s = "http" /\ cfg.tls /\ "certificate" \notin host.there

\* The goroutines.  HTTP does not listen any more once it is shut down.
Listen(s) ==
  /\ Alive /\ serving[s] = "starting"
  /\ \/ s = "http" /\ closing /\ serving' = [serving EXCEPT ![s] = "none"] /\ UNCHANGED bound
     \/ /\ ~(s = "http" /\ closing) /\ MayBind(s) /\ ~Unserved(s)
        /\ serving' = [serving EXCEPT ![s] = "serving"] /\ bound' = bound \cup {s}
     \/ /\ ~(s = "http" /\ closing) /\ (MayFail(s) \/ Unserved(s))
        /\ serving' = [serving EXCEPT ![s] = "failed"] /\ UNCHANGED bound
  /\ UNCHANGED <<env, proc, req, end, pc, disturbed, late>>

-----------------------------------------------------------------------------
(* Serving.                                                                *)

\* Slip: only the read would tell.
LookNot(s) ==
  /\ Alive /\ serving[s] = "check" /\ serving' = [serving EXCEPT ![s] = "read"]
  /\ UNCHANGED <<env, proc, bound, req, end, pc, disturbed, late>>

\* serve of the DHCP proxy: the context is looked at, then a packet is waited for.
LookAtContext(s) ==
  /\ Alive /\ serving[s] = "check"
  /\ serving' = [serving EXCEPT ![s] = IF ctx THEN "done" ELSE "read"]
  /\ UNCHANGED <<env, proc, bound, req, end, pc, disturbed, late>>
ReadPacket(s) ==
  /\ Alive /\ serving[s] = "read"
  /\ serving' = [serving EXCEPT ![s] = "check"]
  /\ late' = IF ctx THEN [late EXCEPT ![s] = @ + 1] ELSE late
  /\ UNCHANGED <<env, proc, bound, req, end, pc, disturbed>>

Accept(r) ==
  /\ Alive /\ serving["http"] = "serving" /\ ~closing /\ req[r] = "none"
  /\ req' = [req EXCEPT ![r] = "running"]
  /\ UNCHANGED <<env, proc, bound, serving, end, pc, disturbed, late>>
Answer(r) ==
  /\ Alive /\ req[r] = "running"
  /\ req' = [req EXCEPT ![r] = "answered"]
  /\ UNCHANGED <<env, proc, bound, serving, end, pc, disturbed, late>>

-----------------------------------------------------------------------------
(* The end.                                                                *)

\* SIGTERM: before signal.Notify it kills.
Signal ==
  /\ Alive
  /\ IF notified
     THEN /\ signalled' = TRUE
          /\ UNCHANGED <<env, proc, net, ctx, notified, closing, grace, how, pc, disturbed, late>>
     ELSE Exit("killed")

\* cancel() ends the health checker, and the DHCP listeners as soon as they look.
Cancel ==
  /\ pc = "wait" /\ signalled
  /\ ctx' = TRUE /\ pc' = IF Enabled("http") THEN "shutdown" ELSE "return"
  /\ UNCHANGED <<env, proc, net, notified, signalled, closing, grace, how, disturbed, late>>

\* HTTPServer.Stop: no new requests, and those that run have five seconds.
Shutdown ==
  /\ Step("shutdown", "drain")
  /\ closing' = TRUE /\ bound' = bound \ {"http"}
  /\ UNCHANGED <<env, proc, serving, req, ctx, notified, signalled, grace, how, disturbed, late>>
Timeout ==
  /\ pc = "drain" /\ grace' = TRUE
  /\ UNCHANGED <<env, proc, net, ctx, notified, signalled, closing, how, pc, disturbed, late>>
\* Slip: the listener is closed and that is all.
DrainNot == Step("drain", "return") /\ UNCHANGED <<env, proc, net, end, disturbed, late>>
\* Slip: Shutdown without a timeout.
DrainForever == /\ Step("drain", "return") /\ \A r \in Requests : req[r] # "running"
                /\ UNCHANGED <<env, proc, net, end, disturbed, late>>
Drained ==
  /\ Step("drain", "return")
  /\ grace \/ \A r \in Requests : req[r] # "running"
  /\ UNCHANGED <<env, proc, net, end, disturbed, late>>

\* DHCP and TFTP are not stopped: they end with the process.
Return == pc = "return" /\ Exit("shutdown")

-----------------------------------------------------------------------------
(* Other processes and users.                                              *)

OpenPort ==
  /\ taken < MaxTaken
  /\ \E p \in Ports, kind \in {"all", "one"} :
       /\ others[p] = "none" /\ \A s \in bound : cfg.port[s] # p
       /\ others' = [others EXCEPT ![p] = kind]
  /\ taken' = taken + 1 /\ disturbed' = TRUE
  /\ UNCHANGED <<host, proc, net, end, pc, late>>
ClosePort == /\ \E p \in Ports : others[p] # "none" /\ others' = [others EXCEPT ![p] = "none"]
             /\ UNCHANGED <<host, taken, proc, net, end, pc, disturbed, late>>

Init ==
  /\ cfg \in Config /\ taken = 0
  /\ others \in [Ports -> {"none", "all", "one"}]
  /\ Cardinality({p \in Ports : others[p] # "none"}) <= MaxTaken
  /\ host \in [there : Hosts, files : [cfg.archs -> BootFiles]]
  /\ pc = IF cfg.check THEN "preflight" ELSE "dhcp"
  /\ checked = 0 /\ allOK = TRUE /\ bound = {}
  /\ serving = [s \in {"dhcp", "proxy", "tftp", "http"} |-> "none"]
  /\ ctx = FALSE /\ notified = FALSE /\ signalled = FALSE /\ closing = FALSE /\ grace = FALSE
  /\ req = [r \in Requests |-> "none"] /\ how = ""
  /\ disturbed = FALSE /\ late = [s \in Listeners |-> 0]

Main == \/ RunPreflight \/ PreflightDone \/ ListenDHCP \/ ListenProxy \/ StartTFTP \/ StartHTTP
        \/ Announce \/ Notify \/ Cancel \/ Shutdown \/ Drained \/ Return
Next == \/ Main \/ Timeout \/ Signal \/ OpenPort \/ ClosePort
        \/ \E s \in {"tftp", "http"} : Listen(s)
        \/ \E s \in Listeners : LookAtContext(s) \/ ReadPacket(s)
        \/ \E r \in Requests : Accept(r) \/ Answer(r)

Spec == Init /\ [][Next]_vars

\* What can run goes on running, and five seconds pass.  Packets, requests, answers,
\* signals and other processes owe us nothing.
FairSpec == /\ Spec /\ WF_vars(Main) /\ WF_vars(Timeout)
            /\ \A s \in {"tftp", "http"} : WF_vars(Listen(s))

-----------------------------------------------------------------------------
(* Properties.                                                             *)

HostType ==
  /\ cfg \in Config /\ others \in [Ports -> {"none", "all", "one"}] /\ taken \in 0..MaxTaken
  /\ host.there \in Hosts /\ \A a \in cfg.archs : host.files[a] \in BootFiles
ProcessType ==
  /\ pc \in {"preflight", "dhcp", "proxy", "tftp", "http", "announce", "notify", "wait",
             "shutdown", "drain", "return", "exited"}
  /\ how \in {"", "error", "killed", "shutdown"} /\ (how = "" <=> Alive)
  /\ checked \in 0..Len(Order) /\ allOK \in BOOLEAN /\ ctx \in BOOLEAN /\ notified \in BOOLEAN
  /\ signalled \in BOOLEAN /\ closing \in BOOLEAN /\ grace \in BOOLEAN /\ disturbed \in BOOLEAN
NetType ==
  /\ bound \subseteq Sockets(cfg)
  /\ serving \in [{"dhcp", "proxy", "tftp", "http"} ->
                  {"none", "starting", "check", "read", "done", "serving", "failed"}]
  /\ req \in [Requests -> {"none", "running", "answered", "cut"}]
  /\ late \in [Listeners -> Nat]
TypeOK == HostType /\ ProcessType /\ NetType

\* Two sockets of ours never have one port, whatever the configuration says and in
\* whatever order the goroutines get to listen; and while the one DHCP listener answers,
\* the other one is open: nobody is sent to a port 4011 where no one listens.
OwnPorts ==
  /\ \A s, t \in bound : cfg.port[s] = cfg.port[t] => s = t
  /\ \A s \in Listeners : serving[s] \in {"check", "read"} => Listeners \subseteq bound

\* What passed checks are worth, while nobody else has opened a port since and no two
\* sockets are given the same: every boot loader is a binary for its architecture whose
\* header is where the firmware finds it; no port is shared with another process; and no
\* service fails to start but for what no check looks at: a certificate that cannot be
\* used, which costs HTTP alone, and the right to bind to the interface, without which
\* the program ends.
Passed == cfg.check /\ checked = Len(Order) /\ allOK
Distinct == \A s, t \in Sockets(cfg) : cfg.port[s] = cfg.port[t] => s = t
Good(f, a) == /\ f.exists /\ f.size > 0
              /\ a # "bios" => /\ f.mz /\ f.pe /\ f.machine = a
                                /\ f.size >= MinHeader /\ f.peOffset + 6 <= f.size
PassedAndQuiet ==
  Passed /\ Distinct =>
    /\ \A a \in cfg.archs : Good(host.files[a], a)
    /\ ~disturbed =>
         /\ how = "error" => Enabled("dhcp") /\ "right" \notin host.there
         /\ \A s \in Sockets(cfg) : /\ serving[s] = "failed" => Unserved(s)
                                    /\ others[cfg.port[s]] = "none"

\* A request that came before the signal is answered, unless five seconds were not
\* enough or the signal came before the program could catch it.
Drains == \A r \in Requests : req[r] = "cut" => grace \/ how = "killed"

\* After the shutdown has begun a DHCP listener takes one packet more at the most: the
\* one it waits for when the context is cancelled.
AtMostOneMore == \A s \in Listeners : late[s] <= 1

\* Once the checks have passed, with nobody else taking ports, every enabled service
\* comes to serve, or somebody stops the program, or it may not bind to the interface and
\* ends.  A certificate that cannot be used keeps HTTP from it and nobody else.
StartsUp ==
  (Passed /\ Distinct /\ Alive)
    ~> \/ disturbed \/ signalled \/ how = "killed"
       \/ how = "error" /\ Enabled("dhcp") /\ "right" \notin host.there
       \/ \A s \in Sockets(cfg) :
            serving[s] \in IF Unserved(s) THEN {"failed"} ELSE {"check", "read", "done", "serving"}

\* A signal that is caught ends the program, although requests may hang, DHCP listeners
\* wait for packets and services may have failed.
ShutsDown == signalled ~> how = "shutdown"
=============================================================================
