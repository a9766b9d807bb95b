---------------------------- MODULE Lifecycle_proofs ----------------------------
(***************************************************************************)
(* What bootforge serve keeps to, for every set of configurations, boot    *)
(* files and requests: its ports are its own, passed checks are worth      *)
(* something, requests are drained, DHCP stops answering.                  *)
(***************************************************************************)
EXTENDS Lifecycle, TLAPS

Services == {"dhcp", "proxy", "tftp", "http"}
Early == {"preflight", "dhcp", "proxy", "tftp", "http"}

-----------------------------------------------------------------------------
(* Types.                                                                  *)

LEMMA OrderLen == Len(Order) = 10
BY DEF Order

\* The DHCP proxy has two sockets, each of the others has one.
LEMMA SocketsOf ==
  ASSUME HostType
  PROVE  /\ cfg.enabled \subseteq {"dhcp", "tftp", "http"}
         /\ Sockets(cfg) \subseteq Services
         /\ "dhcp" \in cfg.enabled => Listeners \subseteq Sockets(cfg)
         /\ \A s \in {"tftp", "http"} : s \in cfg.enabled <=> s \in Sockets(cfg)
         /\ \A s \in Sockets(cfg) : cfg.port[s] \in Ports
<1>1. cfg \in Config
  BY DEF HostType
<1>2. cfg.enabled \subseteq {"dhcp", "tftp", "http"}
  BY <1>1, ConfigAssumption
<1>3. \A s \in Sockets(cfg) : cfg.port[s] \in Ports
  BY <1>1 DEF Ports
<1> QED
  BY <1>2, <1>3 DEF Sockets, Listeners, Services

LEMMA InitType == Init => TypeOK
<1> SUFFICES ASSUME Init PROVE TypeOK
  OBVIOUS
<1>1. ProcessType
  <2>1. checked = 0
    BY DEF Init
  <2>2. checked \in 0..Len(Order)
    BY <2>1, OrderLen
  <2> QED
    BY <2>2 DEF Init, ProcessType, Alive
<1>2. HostType
  <2>1. cfg \in Config /\ others \in [Ports -> {"none", "all", "one"}] /\ taken = 0
    BY DEF Init
  <2>2. host.there \in Hosts /\ host.files \in [cfg.archs -> BootFiles]
    BY DEF Init
  <2>3. taken \in 0..MaxTaken
    BY <2>1, BoundAssumption
  <2> QED
    BY <2>1, <2>2, <2>3 DEF HostType
<1>3. NetType
  BY DEF Init, NetType
<1> QED
  BY <1>1, <1>2, <1>3 DEF TypeOK

-----------------------------------------------------------------------------
(* What a step leaves alone.                                               *)

LEMMA Frame ==
  ASSUME [Next]_vars
  PROVE  /\ cfg' = cfg /\ host' = host
         /\ RunPreflight \/ UNCHANGED <<checked, allOK>>
         /\ OpenPort \/ ClosePort \/ UNCHANGED <<others, taken>>
         /\ OpenPort \/ disturbed' = disturbed
<1> USE DEF env, proc, net, end, Exit, Spawn
<1> DEFINE Goal == /\ cfg' = cfg /\ host' = host
                   /\ RunPreflight \/ UNCHANGED <<checked, allOK>>
                   /\ OpenPort \/ ClosePort \/ UNCHANGED <<others, taken>>
                   /\ OpenPort \/ disturbed' = disturbed
<1> SUFFICES Goal
  OBVIOUS
<1>1. CASE RunPreflight
  BY <1>1 DEF RunPreflight
<1>2. CASE PreflightDone
  BY <1>2 DEF PreflightDone
<1>3. CASE ListenDHCP
  BY <1>3 DEF ListenDHCP
<1>4. CASE ListenProxy
  BY <1>4 DEF ListenProxy
<1>5. CASE StartTFTP
  BY <1>5 DEF StartTFTP
<1>6. CASE StartHTTP
  BY <1>6 DEF StartHTTP
<1>7. CASE Announce
  BY <1>7 DEF Announce
<1>8. CASE Notify
  BY <1>8 DEF Notify
<1>9. CASE Cancel
  BY <1>9 DEF Cancel
<1>10. CASE Shutdown
  BY <1>10 DEF Shutdown
<1>11. CASE Drained
  BY <1>11 DEF Drained
<1>12. CASE Return
  BY <1>12 DEF Return
<1>13. CASE Timeout
  BY <1>13 DEF Timeout
<1>14. CASE Signal
  BY <1>14 DEF Signal
<1>15. CASE OpenPort
  BY <1>15 DEF OpenPort
<1>16. CASE ClosePort
  BY <1>16 DEF ClosePort
<1>17. ASSUME NEW s \in {"tftp", "http"}, Listen(s) PROVE Goal
  BY <1>17 DEF Listen
<1>18. ASSUME NEW s \in Listeners, LookAtContext(s) PROVE Goal
  BY <1>18 DEF LookAtContext
<1>19. ASSUME NEW s \in Listeners, ReadPacket(s) PROVE Goal
  BY <1>19 DEF ReadPacket
<1>20. ASSUME NEW r \in Requests, Accept(r) PROVE Goal
  BY <1>20 DEF Accept
<1>21. ASSUME NEW r \in Requests, Answer(r) PROVE Goal
  BY <1>21 DEF Answer
<1>22. CASE UNCHANGED vars
  BY <1>22 DEF vars
<1> QED
  BY <1>1, <1>2, <1>3, <1>4, <1>5, <1>6, <1>7, <1>8, <1>9, <1>10, <1>11, <1>12,
     <1>13, <1>14, <1>15, <1>16, <1>17, <1>18, <1>19, <1>20, <1>21, <1>22
  DEF Next, Main

LEMMA HostStep == ASSUME HostType, [Next]_vars PROVE HostType'
<1>1. CASE OpenPort
  <2>1. taken' \in 0..MaxTaken
    BY <1>1, BoundAssumption DEF OpenPort, HostType
  <2> QED
    BY <1>1, <2>1, Frame DEF OpenPort, HostType
<1>2. CASE ClosePort
  BY <1>2, Frame DEF ClosePort, HostType
<1>3. CASE UNCHANGED <<others, taken>>
  BY <1>3, Frame DEF HostType
<1> QED
  BY <1>1, <1>2, <1>3, Frame

LEMMA OneMoreCheck ==
  ASSUME checked \in 0..Len(Order), checked < Len(Order)
  PROVE  checked + 1 \in 0..Len(Order)
BY OrderLen

LEMMA ProcessStep == ASSUME ProcessType, [Next]_vars PROVE ProcessType'
<1> DEFINE Rest == /\ pc \in {"preflight", "dhcp", "proxy", "tftp", "http", "announce", "notify",
                              "wait", "shutdown", "drain", "return", "exited"}
                   /\ how \in {"", "error", "killed", "shutdown"} /\ (how = "" <=> pc # "exited")
                   /\ allOK \in BOOLEAN /\ ctx \in BOOLEAN /\ notified \in BOOLEAN
                   /\ signalled \in BOOLEAN /\ closing \in BOOLEAN /\ grace \in BOOLEAN
                   /\ disturbed \in BOOLEAN
<1>1. checked' \in 0..Len(Order)
  <2>1. checked \in 0..Len(Order)
    BY DEF ProcessType
  <2>2. CASE RunPreflight
    <3>1. checked' = checked + 1 /\ checked < Len(Order)
      BY <2>2 DEF RunPreflight
    <3> QED
      BY <2>1, <3>1, OneMoreCheck
  <2> QED
    BY <2>1, <2>2, Frame
<1>2. Rest
  BY DEF ProcessType, Alive
<1>3. Rest'
  <2> USE <1>2 DEF Alive, env, proc, net, end, Step, Exit, Spawn
  <2>1. CASE RunPreflight
    BY <2>1 DEF RunPreflight
  <2>2. CASE PreflightDone
    BY <2>2 DEF PreflightDone
  <2>3. CASE ListenDHCP
    BY <2>3 DEF ListenDHCP
  <2>4. CASE ListenProxy
    BY <2>4 DEF ListenProxy
  <2>5. CASE StartTFTP
    BY <2>5 DEF StartTFTP
  <2>6. CASE StartHTTP
    BY <2>6 DEF StartHTTP
  <2>7. CASE Announce
    BY <2>7 DEF Announce
  <2>8. CASE Notify
    BY <2>8 DEF Notify
  <2>9. CASE Cancel
    BY <2>9 DEF Cancel
  <2>10. CASE Shutdown
    BY <2>10 DEF Shutdown
  <2>11. CASE Drained
    BY <2>11 DEF Drained
  <2>12. CASE Return
    BY <2>12 DEF Return
  <2>13. CASE Timeout
    BY <2>13 DEF Timeout
  <2>14. CASE Signal
    BY <2>14 DEF Signal
  <2>15. CASE OpenPort
    BY <2>15 DEF OpenPort
  <2>16. CASE ClosePort
    BY <2>16 DEF ClosePort
  <2>17. ASSUME NEW s \in {"tftp", "http"}, Listen(s) PROVE Rest'
    BY <2>17 DEF Listen
  <2>18. ASSUME NEW s \in Listeners, LookAtContext(s) PROVE Rest'
    BY <2>18 DEF LookAtContext
  <2>19. ASSUME NEW s \in Listeners, ReadPacket(s) PROVE Rest'
    BY <2>19 DEF ReadPacket
  <2>20. ASSUME NEW r \in Requests, Accept(r) PROVE Rest'
    BY <2>20 DEF Accept
  <2>21. ASSUME NEW r \in Requests, Answer(r) PROVE Rest'
    BY <2>21 DEF Answer
  <2>22. CASE UNCHANGED vars
    BY <2>22 DEF vars
  <2> QED
    BY <2>1, <2>2, <2>3, <2>4, <2>5, <2>6, <2>7, <2>8, <2>9, <2>10, <2>11, <2>12,
     <2>13, <2>14, <2>15, <2>16, <2>17, <2>18, <2>19, <2>20, <2>21, <2>22
  DEF Next, Main
<1> QED
  BY <1>1, <1>3 DEF ProcessType, Alive

-----------------------------------------------------------------------------
(* What runServe has started at each of its steps.                         *)

StageInv ==
  /\ pc \in {"preflight", "dhcp"} => bound = {}
  /\ pc = "proxy" => bound = {"dhcp"} /\ "dhcp" \in cfg.enabled
  /\ pc \in {"preflight", "dhcp", "proxy", "tftp"} => serving["tftp"] = "none"
  /\ pc \in Early => serving["http"] = "none"
  /\ \A s \in {"tftp", "http"} : /\ s \in bound => serving[s] = "serving"
                                 /\ serving[s] # "none" => s \in cfg.enabled
  /\ \A s \in Listeners : serving[s] \in {"none", "check", "read", "done"}

LEMMA InitStage == Init => StageInv
BY DEF Init, StageInv, Listeners, Early

LEMMA NetStep == ASSUME HostType, NetType, StageInv, [Next]_vars PROVE NetType'
<1> cfg' = cfg
  BY Frame
<1> USE SocketsOf DEF NetType, env, proc, net, end, Exit, Spawn, Enabled
<1>1. CASE RunPreflight
  BY <1>1 DEF RunPreflight
<1>2. CASE PreflightDone
  BY <1>2 DEF PreflightDone
<1>3. CASE ListenDHCP
  BY <1>3 DEF ListenDHCP, Listeners
<1>4. CASE ListenProxy
  <2>1. "dhcp" \in cfg.enabled
    BY <1>4 DEF ListenProxy, Step, StageInv
  <2> QED
    BY <1>4, <2>1 DEF ListenProxy, Listeners
<1>5. CASE StartTFTP
  BY <1>5 DEF StartTFTP
<1>6. CASE StartHTTP
  BY <1>6 DEF StartHTTP
<1>7. CASE Announce
  BY <1>7 DEF Announce
<1>8. CASE Notify
  BY <1>8 DEF Notify
<1>9. CASE Cancel
  BY <1>9 DEF Cancel
<1>10. CASE Shutdown
  BY <1>10 DEF Shutdown
<1>11. CASE Drained
  BY <1>11 DEF Drained
<1>12. CASE Return
  BY <1>12 DEF Return
<1>13. CASE Timeout
  BY <1>13 DEF Timeout
<1>14. CASE Signal
  BY <1>14 DEF Signal
<1>15. CASE OpenPort
  BY <1>15 DEF OpenPort
<1>16. CASE ClosePort
  BY <1>16 DEF ClosePort
<1>17. ASSUME NEW s \in {"tftp", "http"}, Listen(s) PROVE NetType'
  BY <1>17 DEF Listen, StageInv
<1>18. ASSUME NEW s \in Listeners, LookAtContext(s) PROVE NetType'
  BY <1>18 DEF LookAtContext
<1>19. ASSUME NEW s \in Listeners, ReadPacket(s) PROVE NetType'
  <2>1. late' \in [Listeners -> Nat]
    BY <1>19 DEF ReadPacket
  <2> QED
    BY <1>19, <2>1 DEF ReadPacket
<1>20. ASSUME NEW r \in Requests, Accept(r) PROVE NetType'
  BY <1>20 DEF Accept
<1>21. ASSUME NEW r \in Requests, Answer(r) PROVE NetType'
  BY <1>21 DEF Answer
<1>22. CASE UNCHANGED vars
  BY <1>22 DEF vars
<1> QED
  BY <1>1, <1>2, <1>3, <1>4, <1>5, <1>6, <1>7, <1>8, <1>9, <1>10, <1>11, <1>12,
     <1>13, <1>14, <1>15, <1>16, <1>17, <1>18, <1>19, <1>20, <1>21, <1>22
  DEF Next, Main

LEMMA StageStep == ASSUME HostType, NetType, StageInv, [Next]_vars PROVE StageInv'
<1> cfg' = cfg
  BY Frame
<1> USE DEF NetType, StageInv, Early, env, proc, net, end, Exit, Step, Spawn, Enabled
<1>1. CASE RunPreflight
  BY <1>1 DEF RunPreflight
<1>2. CASE PreflightDone
  BY <1>2 DEF PreflightDone, Listeners
<1>3. CASE ListenDHCP
  BY <1>3 DEF ListenDHCP, Listeners
<1>4. CASE ListenProxy
  BY <1>4 DEF ListenProxy, Listeners
<1>5. CASE StartTFTP
  BY <1>5 DEF StartTFTP, Listeners
<1>6. CASE StartHTTP
  BY <1>6 DEF StartHTTP, Listeners
<1>7. CASE Announce
  BY <1>7 DEF Announce
<1>8. CASE Notify
  BY <1>8 DEF Notify
<1>9. CASE Cancel
  BY <1>9 DEF Cancel
<1>10. CASE Shutdown
  BY <1>10 DEF Shutdown
<1>11. CASE Drained
  BY <1>11 DEF Drained
<1>12. CASE Return
  BY <1>12 DEF Return, Listeners
<1>13. CASE Timeout
  BY <1>13 DEF Timeout
<1>14. CASE Signal
  BY <1>14 DEF Signal, Listeners
<1>15. CASE OpenPort
  BY <1>15 DEF OpenPort
<1>16. CASE ClosePort
  BY <1>16 DEF ClosePort
<1>17. ASSUME NEW s \in {"tftp", "http"}, Listen(s) PROVE StageInv'
  BY <1>17 DEF Listen, Listeners
<1>18. ASSUME NEW s \in Listeners, LookAtContext(s) PROVE StageInv'
  BY <1>18 DEF LookAtContext, Listeners
<1>19. ASSUME NEW s \in Listeners, ReadPacket(s) PROVE StageInv'
  BY <1>19 DEF ReadPacket, Listeners
<1>20. ASSUME NEW r \in Requests, Accept(r) PROVE StageInv'
  BY <1>20 DEF Accept
<1>21. ASSUME NEW r \in Requests, Answer(r) PROVE StageInv'
  BY <1>21 DEF Answer
<1>22. CASE UNCHANGED vars
  BY <1>22 DEF vars
<1> QED
  BY <1>1, <1>2, <1>3, <1>4, <1>5, <1>6, <1>7, <1>8, <1>9, <1>10, <1>11, <1>12,
     <1>13, <1>14, <1>15, <1>16, <1>17, <1>18, <1>19, <1>20, <1>21, <1>22
  DEF Next, Main

-----------------------------------------------------------------------------
(* Ports of our own.                                                       *)

LEMMA InitPorts == Init => OwnPorts
BY DEF Init, OwnPorts, Listeners

\* A socket that a free port is bound to shares it with none of ours.
LEMMA FreeIsOwn ==
  ASSUME OwnPorts, NEW s, Free(s), bound' = bound \cup {s}, cfg' = cfg
  PROVE  \A t, u \in bound' : cfg'.port[t] = cfg'.port[u] => t = u
BY DEF OwnPorts, Free, Taken

\* A socket that may be bound to a port finds it free.
LEMMA MayBindFree == ASSUME NEW s, MayBind(s) PROVE Free(s)
BY DEF MayBind

LEMMA PortsStep == ASSUME HostType, NetType, StageInv, OwnPorts, [Next]_vars PROVE OwnPorts'
<1> cfg' = cfg
  BY Frame
<1>1. \A t, u \in bound' : cfg'.port[t] = cfg'.port[u] => t = u
  <2>1. CASE bound' \subseteq bound
    BY <2>1 DEF OwnPorts
  <2>2. ASSUME NEW s, Free(s), bound' = bound \cup {s}
        PROVE  \A t, u \in bound' : cfg'.port[t] = cfg'.port[u] => t = u
    BY <2>2, FreeIsOwn
  <2>3. bound' \subseteq bound \/ \E s : Free(s) /\ bound' = bound \cup {s}
    <3> DEFINE Goal == bound' \subseteq bound \/ \E s : Free(s) /\ bound' = bound \cup {s}
    <3> SUFFICES Goal
      OBVIOUS
    <3> USE DEF env, proc, net, end, Exit, Spawn
    <3>1. CASE RunPreflight
      BY <3>1 DEF RunPreflight
    <3>2. CASE PreflightDone
      BY <3>2 DEF PreflightDone
    <3>3. CASE ListenDHCP
      BY <3>3, MayBindFree DEF ListenDHCP
    <3>4. CASE ListenProxy
      BY <3>4, MayBindFree DEF ListenProxy
    <3>5. CASE StartTFTP
      BY <3>5 DEF StartTFTP
    <3>6. CASE StartHTTP
      BY <3>6 DEF StartHTTP
    <3>7. CASE Announce
      BY <3>7 DEF Announce
    <3>8. CASE Notify
      BY <3>8 DEF Notify
    <3>9. CASE Cancel
      BY <3>9 DEF Cancel
    <3>10. CASE Shutdown
      BY <3>10 DEF Shutdown
    <3>11. CASE Drained
      BY <3>11 DEF Drained
    <3>12. CASE Return
      BY <3>12 DEF Return
    <3>13. CASE Timeout
      BY <3>13 DEF Timeout
    <3>14. CASE Signal
      BY <3>14 DEF Signal
    <3>15. CASE OpenPort
      BY <3>15 DEF OpenPort
    <3>16. CASE ClosePort
      BY <3>16 DEF ClosePort
    <3>17. ASSUME NEW s \in {"tftp", "http"}, Listen(s) PROVE Goal
      BY <3>17, MayBindFree DEF Listen
    <3>18. ASSUME NEW s \in Listeners, LookAtContext(s) PROVE Goal
      BY <3>18 DEF LookAtContext
    <3>19. ASSUME NEW s \in Listeners, ReadPacket(s) PROVE Goal
      BY <3>19 DEF ReadPacket
    <3>20. ASSUME NEW r \in Requests, Accept(r) PROVE Goal
      BY <3>20 DEF Accept
    <3>21. ASSUME NEW r \in Requests, Answer(r) PROVE Goal
      BY <3>21 DEF Answer
    <3>22. CASE UNCHANGED vars
      BY <3>22 DEF vars
    <3> QED
      BY <3>1, <3>2, <3>3, <3>4, <3>5, <3>6, <3>7, <3>8, <3>9, <3>10, <3>11, <3>12,
     <3>13, <3>14, <3>15, <3>16, <3>17, <3>18, <3>19, <3>20, <3>21, <3>22
  DEF Next, Main
  <2> QED
    BY <2>1, <2>2, <2>3
<1>2. \A s \in Listeners : serving'[s] \in {"check", "read"} => Listeners \subseteq bound'
  <2> DEFINE Served == \A s \in Listeners : serving'[s] \in {"check", "read"} => Listeners \subseteq bound'
  <2> SUFFICES Served
    OBVIOUS
  <2> USE DEF NetType, OwnPorts, Listeners, env, proc, net, end, Exit, Spawn, Step
  <2>1. CASE RunPreflight
    BY <2>1 DEF RunPreflight
  <2>2. CASE PreflightDone
    BY <2>2 DEF PreflightDone
  <2>3. CASE ListenDHCP
    BY <2>3 DEF ListenDHCP
  <2>4. CASE ListenProxy
    BY <2>4 DEF ListenProxy, StageInv
  <2>5. CASE StartTFTP
    BY <2>5 DEF StartTFTP
  <2>6. CASE StartHTTP
    BY <2>6 DEF StartHTTP
  <2>7. CASE Announce
    BY <2>7 DEF Announce
  <2>8. CASE Notify
    BY <2>8 DEF Notify
  <2>9. CASE Cancel
    BY <2>9 DEF Cancel
  <2>10. CASE Shutdown
    BY <2>10 DEF Shutdown
  <2>11. CASE Drained
    BY <2>11 DEF Drained
  <2>12. CASE Return
    BY <2>12 DEF Return
  <2>13. CASE Timeout
    BY <2>13 DEF Timeout
  <2>14. CASE Signal
    BY <2>14 DEF Signal
  <2>15. CASE OpenPort
    BY <2>15 DEF OpenPort
  <2>16. CASE ClosePort
    BY <2>16 DEF ClosePort
  <2>17. ASSUME NEW s \in {"tftp", "http"}, Listen(s) PROVE Served
    BY <2>17 DEF Listen
  <2>18. ASSUME NEW s \in Listeners, LookAtContext(s) PROVE Served
    BY <2>18 DEF LookAtContext
  <2>19. ASSUME NEW s \in Listeners, ReadPacket(s) PROVE Served
    BY <2>19 DEF ReadPacket
  <2>20. ASSUME NEW r \in Requests, Accept(r) PROVE Served
    BY <2>20 DEF Accept
  <2>21. ASSUME NEW r \in Requests, Answer(r) PROVE Served
    BY <2>21 DEF Answer
  <2>22. CASE UNCHANGED vars
    BY <2>22 DEF vars
  <2> QED
    BY <2>1, <2>2, <2>3, <2>4, <2>5, <2>6, <2>7, <2>8, <2>9, <2>10, <2>11, <2>12,
     <2>13, <2>14, <2>15, <2>16, <2>17, <2>18, <2>19, <2>20, <2>21, <2>22
  DEF Next, Main
<1> QED
  BY <1>1, <1>2 DEF OwnPorts

-----------------------------------------------------------------------------
(* Packets read after the end has begun.                                   *)

LateInv ==
  \A s \in Listeners : /\ late[s] \in {0, 1}
                       /\ ~ctx \/ serving[s] = "read" => late[s] = 0

LEMMA InitLate == Init => LateInv
BY DEF Init, LateInv

LEMMA LateStep == ASSUME NetType, LateInv, [Next]_vars PROVE LateInv'
<1> USE DEF NetType, LateInv, Listeners, env, proc, net, end, Exit, Spawn, Step
<1>1. CASE RunPreflight
  BY <1>1 DEF RunPreflight
<1>2. CASE PreflightDone
  BY <1>2 DEF PreflightDone
<1>3. CASE ListenDHCP
  BY <1>3 DEF ListenDHCP
<1>4. CASE ListenProxy
  BY <1>4 DEF ListenProxy
<1>5. CASE StartTFTP
  BY <1>5 DEF StartTFTP
<1>6. CASE StartHTTP
  BY <1>6 DEF StartHTTP
<1>7. CASE Announce
  BY <1>7 DEF Announce
<1>8. CASE Notify
  BY <1>8 DEF Notify
<1>9. CASE Cancel
  BY <1>9 DEF Cancel
<1>10. CASE Shutdown
  BY <1>10 DEF Shutdown
<1>11. CASE Drained
  BY <1>11 DEF Drained
<1>12. CASE Return
  BY <1>12 DEF Return
<1>13. CASE Timeout
  BY <1>13 DEF Timeout
<1>14. CASE Signal
  BY <1>14 DEF Signal
<1>15. CASE OpenPort
  BY <1>15 DEF OpenPort
<1>16. CASE ClosePort
  BY <1>16 DEF ClosePort
<1>17. ASSUME NEW s \in {"tftp", "http"}, Listen(s) PROVE LateInv'
  BY <1>17 DEF Listen
<1>18. ASSUME NEW s \in Listeners, LookAtContext(s) PROVE LateInv'
  BY <1>18 DEF LookAtContext
<1>19. ASSUME NEW s \in Listeners, ReadPacket(s) PROVE LateInv'
  BY <1>19 DEF ReadPacket
<1>20. ASSUME NEW r \in Requests, Accept(r) PROVE LateInv'
  BY <1>20 DEF Accept
<1>21. ASSUME NEW r \in Requests, Answer(r) PROVE LateInv'
  BY <1>21 DEF Answer
<1>22. CASE UNCHANGED vars
  BY <1>22 DEF vars
<1> QED
  BY <1>1, <1>2, <1>3, <1>4, <1>5, <1>6, <1>7, <1>8, <1>9, <1>10, <1>11, <1>12,
     <1>13, <1>14, <1>15, <1>16, <1>17, <1>18, <1>19, <1>20, <1>21, <1>22
  DEF Next, Main

-----------------------------------------------------------------------------
(* Requests are drained.                                                   *)

DrainInv ==
  /\ \A r \in Requests : /\ req[r] = "running" => pc \notin Early /\ "http" \in cfg.enabled
                         /\ req[r] = "cut" => grace \/ how = "killed"
  /\ pc \in {"drain", "return"} => closing \/ "http" \notin cfg.enabled
  /\ pc = "return" => grace \/ \A r \in Requests : req[r] # "running"

LEMMA InitDrain == Init => DrainInv
BY DEF Init, DrainInv, Early

LEMMA ExitDrain ==
  ASSUME ProcessType, NetType, DrainInv, Alive, NEW reason, Exit(reason),
         reason = "killed" \/ grace \/ \A r \in Requests : req[r] # "running"
  PROVE  DrainInv'
<1>1. pc' = "exited" /\ how' = reason /\ grace' = grace /\ cfg' = cfg
  BY DEF Exit, proc
<1>2. \A r \in Requests : req'[r] = IF req[r] = "running" THEN "cut" ELSE req[r]
  BY DEF Exit
<1>3. how = ""
  BY DEF ProcessType
<1> QED
  BY <1>1, <1>2, <1>3 DEF DrainInv

LEMMA DrainStep ==
  ASSUME ProcessType, NetType, StageInv, DrainInv, [Next]_vars PROVE DrainInv'
<1> cfg' = cfg
  BY Frame
<1> USE DEF DrainInv, NetType, Early, env, proc, net, end, Spawn, Step
<1>1. CASE RunPreflight
  BY <1>1 DEF RunPreflight
<1>2. CASE PreflightDone
  BY <1>2, ExitDrain DEF PreflightDone, Alive
<1>3. CASE ListenDHCP
  BY <1>3, ExitDrain DEF ListenDHCP, Alive
<1>4. CASE ListenProxy
  BY <1>4, ExitDrain DEF ListenProxy, Alive
<1>5. CASE StartTFTP
  BY <1>5 DEF StartTFTP
<1>6. CASE StartHTTP
  BY <1>6 DEF StartHTTP
<1>7. CASE Announce
  BY <1>7 DEF Announce
<1>8. CASE Notify
  BY <1>8 DEF Notify
<1>9. CASE Cancel
  BY <1>9 DEF Cancel, Enabled
<1>10. CASE Shutdown
  BY <1>10 DEF Shutdown
<1>11. CASE Drained
  BY <1>11 DEF Drained
<1>12. CASE Return
  BY <1>12, ExitDrain DEF Return, Alive
<1>13. CASE Timeout
  BY <1>13 DEF Timeout
<1>14. CASE Signal
  BY <1>14, ExitDrain DEF Signal
<1>15. CASE OpenPort
  BY <1>15 DEF OpenPort
<1>16. CASE ClosePort
  BY <1>16 DEF ClosePort
<1>17. ASSUME NEW s \in {"tftp", "http"}, Listen(s) PROVE DrainInv'
  BY <1>17 DEF Listen
<1>18. ASSUME NEW s \in Listeners, LookAtContext(s) PROVE DrainInv'
  BY <1>18 DEF LookAtContext
<1>19. ASSUME NEW s \in Listeners, ReadPacket(s) PROVE DrainInv'
  BY <1>19 DEF ReadPacket
<1>20. ASSUME NEW r \in Requests, Accept(r) PROVE DrainInv'
  BY <1>20 DEF Accept, StageInv
<1>21. ASSUME NEW r \in Requests, Answer(r) PROVE DrainInv'
  BY <1>21 DEF Answer
<1>22. CASE UNCHANGED vars
  BY <1>22 DEF vars
<1> QED
  BY <1>1, <1>2, <1>3, <1>4, <1>5, <1>6, <1>7, <1>8, <1>9, <1>10, <1>11, <1>12,
     <1>13, <1>14, <1>15, <1>16, <1>17, <1>18, <1>19, <1>20, <1>21, <1>22
  DEF Next, Main

-----------------------------------------------------------------------------
(* What passed checks are worth.                                           *)

\* What a check has seen that has passed.
Held(c) ==
  /\ c \in Sockets(cfg) => (disturbed \/ others[cfg.port[c]] = "none")
  /\ c \in cfg.archs => checkBootFile(c)
  /\ c \in {"interface", "data"} => c \in host.there
PassedInv == allOK => \A k \in 1..checked : Held(Order[k])

\* Every check has its place.
LEMMA InOrder ==
  \A c \in Services \cup {"interface", "data", "x86_64", "i386", "bios", "arm64"} :
    \E k \in 1..10 : Order[k] = c
BY DEF Order, Services

LEMMA InitPassed == Init => PassedInv
<1>1. Init => checked = 0
  BY DEF Init
<1> QED
  BY <1>1 DEF PassedInv

\* A check that applies and passes sees what Held says.
LEMMA PassesHeld ==
  ASSUME HostType, NEW c, Applies(c) => Passes(c)
  PROVE  Held(c)
<1>1. cfg.archs \subseteq {"x86_64", "i386", "bios", "arm64"}
  BY ConfigAssumption DEF HostType
<1>2. Sockets(cfg) \subseteq Services
  BY SocketsOf
<1> QED
  BY <1>1, <1>2 DEF Held, Applies, Passes, checkPort, Services

LEMMA HeldStays ==
  ASSUME HostType, [Next]_vars, NEW c, Held(c)
  PROVE  Held(c)'
<1>1. cfg' = cfg /\ host' = host
  BY Frame
<1>2. c \in Sockets(cfg) => disturbed' \/ others'[cfg.port[c]] = "none"
  <2>1. CASE OpenPort
    BY <2>1 DEF OpenPort
  <2>2. CASE ClosePort
    BY <2>2, Frame, SocketsOf DEF ClosePort, HostType, Held
  <2>3. CASE UNCHANGED <<others, disturbed>>
    BY <2>3 DEF Held
  <2> QED
    BY <2>1, <2>2, <2>3, Frame
<1> QED
  BY <1>1, <1>2 DEF Held, checkBootFile

LEMMA PassedStep ==
  ASSUME HostType, ProcessType, PassedInv, [Next]_vars PROVE PassedInv'
<1>1. CASE UNCHANGED <<checked, allOK>>
  BY <1>1, HeldStays DEF PassedInv
<1>2. CASE RunPreflight
  <2> SUFFICES ASSUME allOK', NEW k \in 1..checked' PROVE Held(Order[k])'
    BY DEF PassedInv
  <2>1. checked' = checked + 1 /\ allOK /\ (Applies(Order[checked']) => Passes(Order[checked']))
    BY <1>2 DEF RunPreflight
  <2>2. checked \in Nat
    <3>1. checked \in 0..Len(Order)
      BY DEF ProcessType
    <3> QED
      BY <3>1, OrderLen
  <2>3. CASE k \in 1..checked
    BY <2>1, <2>3, HeldStays DEF PassedInv
  <2>4. CASE k = checked'
    BY <2>1, <2>4, PassesHeld, HeldStays
  <2> QED
    BY <2>1, <2>2, <2>3, <2>4
<1> QED
  BY <1>1, <1>2, Frame

\* Once the checks have passed, each has seen what Held says.
LEMMA AllHeld ==
  ASSUME HostType, PassedInv, Passed
  PROVE  \A c \in Sockets(cfg) \cup cfg.archs \cup {"interface"} : Held(c)
<1>1. \A k \in 1..10 : Held(Order[k])
  BY OrderLen DEF PassedInv, Passed
<1>2. Sockets(cfg) \cup cfg.archs \cup {"interface"}
        \subseteq Services \cup {"interface", "data", "x86_64", "i386", "bios", "arm64"}
  BY SocketsOf, ConfigAssumption DEF HostType
<1> QED
  BY <1>1, <1>2, InOrder

\* Then a bind fails for want of the right to bind to the interface only.
LEMMA FailsForRight ==
  ASSUME HostType, NetType, PassedInv, Passed, Distinct, ~disturbed,
         NEW s \in Sockets(cfg), s \notin bound, MayFail(s)
  PROVE  s \in Listeners /\ "right" \notin host.there
<1>1. others[cfg.port[s]] = "none" /\ "interface" \in host.there
  BY AllHeld DEF Held
<1>2. \A t \in bound : cfg.port[t] # cfg.port[s]
  BY DEF Distinct, NetType
<1> QED
  BY <1>1, <1>2 DEF MayFail, Taken

\* A boot file that has no problems is a good one.
LEMMA ValidIsGood ==
  ASSUME HostType, NEW a \in cfg.archs, checkBootFile(a)
  PROVE  Good(host.files[a], a)
<1> DEFINE f == host.files[a]
<1>1. f \in BootFiles
  BY DEF HostType
<1>2. /\ f.size \in Nat /\ f.peOffset \in Nat
      /\ f.exists \in BOOLEAN /\ f.mz \in BOOLEAN /\ f.pe \in BOOLEAN
  BY <1>1, FileAssumption
<1>3. ValidateBootFile(f, a) = {}
  BY DEF checkBootFile
<1> HIDE DEF f
<1>4. f.exists /\ f.size # 0
  BY <1>3 DEF ValidateBootFile
<1>5. f.size > 0
  BY <1>2, <1>4
<1>6. a # "bios" => f.mz
  BY <1>2, <1>3, <1>4 DEF ValidateBootFile
<1>7. f.mz => validatePE(f, a) = {}
  BY <1>3, <1>4 DEF ValidateBootFile
<1>8. f.mz => /\ ~(Header(f) < MinHeader) /\ ~(f.peOffset + 6 > Header(f))
              /\ f.pe /\ (a # "bios" => f.machine = a)
  BY <1>7 DEF validatePE, archMatches
<1>9. Header(f) \in Nat /\ Header(f) <= f.size
  BY <1>2, BoundAssumption DEF Header
<1>10. f.mz => f.size >= MinHeader /\ f.peOffset + 6 <= f.size
  BY <1>2, <1>8, <1>9, BoundAssumption
<1>11. Good(f, a)
  BY <1>4, <1>5, <1>6, <1>8, <1>10 DEF Good
<1> QED
  BY <1>11 DEF f

\* What no check looks at.
NoRight == Enabled("dhcp") /\ "right" \notin host.there
OnlyUnchecked == /\ how = "error" => NoRight
                 /\ \A s \in Sockets(cfg) : serving[s] = "failed" => Unserved(s)
QuietInv == Passed /\ Distinct /\ ~disturbed => OnlyUnchecked

LEMMA InitQuiet == Init => QuietInv
<1> SUFFICES ASSUME Init PROVE QuietInv
  OBVIOUS
<1>1. how = "" /\ cfg \in Config /\ \A s \in Services : serving[s] = "none"
  BY DEF Init, Services
<1>2. Sockets(cfg) \subseteq Services
  BY <1>1, ConfigAssumption DEF Sockets, Services, Listeners
<1> QED
  BY <1>1, <1>2 DEF QuietInv, OnlyUnchecked

LEMMA QuietStep ==
  ASSUME TypeOK, StageInv, PassedInv, QuietInv, [Next]_vars PROVE QuietInv'
<1> USE DEF TypeOK
<1>0. cfg' = cfg /\ host' = host /\ (Distinct' <=> Distinct)
  BY Frame DEF Distinct
<1> DEFINE Goal == /\ how' = "error" => NoRight
                   /\ \A s \in Sockets(cfg) : serving'[s] = "failed" => Unserved(s)
<1> SUFFICES ASSUME Passed', Distinct, ~disturbed' PROVE Goal
  BY <1>0 DEF QuietInv, OnlyUnchecked, NoRight, Unserved, Enabled
<1>1. CASE RunPreflight
  <2>1. how' = "" /\ serving' = serving /\ pc = "preflight"
    BY <1>1 DEF RunPreflight, ProcessType, Alive, end, net
  <2>2. \A s \in Services : serving[s] # "failed"
    BY <2>1 DEF StageInv, Listeners, Services, Early
  <2> QED
    BY <2>1, <2>2, SocketsOf
<1>2. CASE ~RunPreflight
  <2>1. Passed /\ ~disturbed
    <3>1. checked' = checked /\ allOK' = allOK
      BY <1>2, Frame
    <3>2. ~OpenPort
      BY DEF OpenPort
    <3>3. disturbed' = disturbed
      BY <3>2, Frame
    <3>4. Passed
      BY <1>0, <3>1 DEF Passed
    <3> QED
      BY <3>3, <3>4
  <2>2. /\ how = "error" => NoRight
        /\ \A s \in Sockets(cfg) : serving[s] = "failed" => Unserved(s)
    BY <2>1 DEF QuietInv, OnlyUnchecked
  <2>3. \A s \in Sockets(cfg) : s \notin bound /\ MayFail(s) =>
                                 s \in Listeners /\ "right" \notin host.there
    BY <2>1, FailsForRight
  <2>4. Sockets(cfg) \subseteq Services
    BY SocketsOf
  <2>5. DOMAIN serving = Services
    BY DEF NetType, Services
  <2>6. CASE ListenDHCP
    <3>1. Enabled("dhcp") /\ pc = "dhcp" /\ MayFail("dhcp") => NoRight
      BY <2>3, SocketsOf DEF Enabled, Listeners, StageInv, NoRight
    <3>2. CASE Exit("error")
      <4>1. Enabled("dhcp") /\ pc = "dhcp" /\ MayFail("dhcp")
        BY <2>6, <3>2 DEF ListenDHCP, Step, Exit, ProcessType, Alive, end
      <4>2. \A s \in Sockets(cfg) : serving'[s] # "failed"
        BY <2>4, <2>5, <3>2 DEF Exit
      <4> QED
        BY <3>1, <4>1, <4>2
    <3>3. CASE ~Exit("error")
      BY <2>2, <2>6, <3>3 DEF ListenDHCP, net, end
    <3> QED
      BY <3>2, <3>3
  <2>7. CASE ListenProxy
    <3>1. pc = "proxy" /\ MayFail("proxy") => NoRight
      BY <2>3, SocketsOf DEF Enabled, Listeners, StageInv, NoRight
    <3>2. CASE Exit("error")
      <4>1. pc = "proxy" /\ MayFail("proxy")
        BY <2>7, <3>2 DEF ListenProxy, Step, Exit, ProcessType, Alive, end
      <4>2. \A s \in Sockets(cfg) : serving'[s] # "failed"
        BY <2>4, <2>5, <3>2 DEF Exit
      <4> QED
        BY <3>1, <4>1, <4>2
    <3>3. CASE ~Exit("error")
      <4>1. how' = how /\ \A s \in Services : serving'[s] \in {"check", serving[s]}
        BY <2>5, <2>7, <3>3 DEF ListenProxy, end
      <4> QED
        BY <2>2, <2>4, <4>1
    <3> QED
      BY <3>2, <3>3
  <2>8. ASSUME NEW s \in {"tftp", "http"}, Listen(s) PROVE Goal
    <3>1. ~MayFail(s)
      BY <2>3, <2>8, SocketsOf DEF Listen, StageInv, Listeners
    <3> QED
      BY <2>2, <2>4, <2>5, <2>8, <3>1 DEF Listen, end
  <2>9. CASE PreflightDone
    BY <2>1, <2>2, <2>9 DEF PreflightDone, Passed, net, end
  <2> USE DEF net, end, Exit, Spawn
  <2>10. CASE StartTFTP
    BY <2>2, <2>4, <2>5, <2>10 DEF StartTFTP
  <2>11. CASE StartHTTP
    BY <2>2, <2>4, <2>5, <2>11 DEF StartHTTP
  <2>12. CASE Announce
    BY <2>2, <2>4, <2>5, <2>12 DEF Announce
  <2>13. CASE Notify
    BY <2>2, <2>4, <2>5, <2>13 DEF Notify
  <2>14. CASE Cancel
    BY <2>2, <2>4, <2>5, <2>14 DEF Cancel
  <2>15. CASE Shutdown
    BY <2>2, <2>4, <2>5, <2>15 DEF Shutdown
  <2>16. CASE Drained
    BY <2>2, <2>4, <2>5, <2>16 DEF Drained
  <2>17. CASE Return
    BY <2>2, <2>4, <2>5, <2>17 DEF Return
  <2>18. CASE Timeout
    BY <2>2, <2>4, <2>5, <2>18 DEF Timeout
  <2>19. CASE Signal
    BY <2>2, <2>4, <2>5, <2>19 DEF Signal
  <2>20. CASE OpenPort
    BY <2>2, <2>4, <2>5, <2>20 DEF OpenPort
  <2>21. CASE ClosePort
    BY <2>2, <2>4, <2>5, <2>21 DEF ClosePort
  <2>22. ASSUME NEW s \in Listeners, LookAtContext(s) PROVE Goal
    BY <2>2, <2>4, <2>5, <2>22 DEF LookAtContext
  <2>23. ASSUME NEW s \in Listeners, ReadPacket(s) PROVE Goal
    BY <2>2, <2>4, <2>5, <2>23 DEF ReadPacket
  <2>24. ASSUME NEW r \in Requests, Accept(r) PROVE Goal
    BY <2>2, <2>4, <2>5, <2>24 DEF Accept
  <2>25. ASSUME NEW r \in Requests, Answer(r) PROVE Goal
    BY <2>2, <2>4, <2>5, <2>25 DEF Answer
  <2>26. CASE UNCHANGED vars
    BY <2>2, <2>26 DEF vars
  <2> QED
    BY <1>2, <2>6, <2>7, <2>8, <2>9, <2>10, <2>11, <2>12, <2>13, <2>14, <2>15, <2>16,
       <2>17, <2>18, <2>19, <2>20, <2>21, <2>22, <2>23, <2>24, <2>25, <2>26
    DEF Next, Main
<1> QED
  BY <1>1, <1>2
-----------------------------------------------------------------------------
(* The theorems.                                                           *)

Inv == /\ TypeOK /\ StageInv /\ OwnPorts /\ LateInv /\ DrainInv /\ PassedInv /\ QuietInv

LEMMA InitInv == Init => Inv
BY InitType, InitStage, InitPorts, InitLate, InitDrain, InitPassed, InitQuiet DEF Inv

LEMMA StepInv == Inv /\ [Next]_vars => Inv'
<1> SUFFICES ASSUME Inv, [Next]_vars PROVE Inv'
  OBVIOUS
<1>1. HostType' /\ ProcessType' /\ NetType'
  BY HostStep, ProcessStep, NetStep DEF Inv, TypeOK
<1>2. StageInv' /\ OwnPorts' /\ LateInv' /\ DrainInv'
  BY StageStep, PortsStep, LateStep, DrainStep DEF Inv, TypeOK
<1>3. PassedInv' /\ QuietInv'
  BY PassedStep, QuietStep DEF Inv, TypeOK
<1> QED
  BY <1>1, <1>2, <1>3 DEF Inv, TypeOK

LEMMA InvAlways == Spec => []Inv
BY InitInv, StepInv, PTL DEF Spec

\* Every variable keeps its type.
THEOREM TypeCorrect == Spec => []TypeOK
<1>1. Inv => TypeOK
  BY DEF Inv
<1> QED
  BY <1>1, InvAlways, PTL

\* No port is given to two of our sockets, and no DHCP listener answers alone.
THEOREM Unshared == Spec => []OwnPorts
<1>1. Inv => OwnPorts
  BY DEF Inv
<1> QED
  BY <1>1, InvAlways, PTL

\* Checks that have passed keep their promise while nobody else opens a port: what fails
\* then is what no check looks at (runServe, RunPreflight).
THEOREM ChecksHold == Spec => []PassedAndQuiet
<1>1. Inv => PassedAndQuiet
  <2> SUFFICES ASSUME Inv, Passed, Distinct
      PROVE /\ \A a \in cfg.archs : Good(host.files[a], a)
            /\ ~disturbed =>
                 /\ how = "error" => Enabled("dhcp") /\ "right" \notin host.there
                 /\ \A s \in Sockets(cfg) : /\ serving[s] = "failed" => Unserved(s)
                                            /\ others[cfg.port[s]] = "none"
    BY DEF PassedAndQuiet
  <2>1. \A c \in Sockets(cfg) \cup cfg.archs : Held(c)
    BY AllHeld DEF Inv, TypeOK
  <2>2. \A a \in cfg.archs : Good(host.files[a], a)
    BY <2>1, ValidIsGood DEF Inv, TypeOK, Held
  <2>3. ~disturbed => /\ how = "error" => Enabled("dhcp") /\ "right" \notin host.there
                      /\ \A s \in Sockets(cfg) : serving[s] = "failed" => Unserved(s)
    BY DEF Inv, QuietInv, OnlyUnchecked, NoRight
  <2>4. ~disturbed => \A s \in Sockets(cfg) : others[cfg.port[s]] = "none"
    BY <2>1 DEF Held
  <2> QED
    BY <2>2, <2>3, <2>4
<1> QED
  BY <1>1, InvAlways, PTL

\* A request under way is only cut off when its time is over, or by an early signal.
THEOREM RequestsDrained == Spec => []Drains
<1>1. Inv => Drains
  BY DEF Inv, DrainInv, Drains
<1> QED
  BY <1>1, InvAlways, PTL

\* A DHCP listener reads one packet at the most after the end has begun.
THEOREM LittleLate == Spec => []AtMostOneMore
<1>1. Inv => AtMostOneMore
  BY DEF Inv, LateInv, AtMostOneMore
<1> QED
  BY <1>1, InvAlways, PTL
=============================================================================
