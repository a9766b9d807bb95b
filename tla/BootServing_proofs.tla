-------------------------- MODULE BootServing_proofs --------------------------
(***************************************************************************)
(* Proofs about BootServing, for every set of requests, reloads, MACs and  *)
(* configurations: type correctness, and that an override is in one place. *)
(***************************************************************************)
EXTENDS BootServing, TLAPS

\* The definitions most steps are made of.
USE DEF registry, request, reload, history

-----------------------------------------------------------------------------
(* Type correctness.                                                       *)

LEMMA OverrideFacts ==
  /\ NoOverride \in Override /\ NoOverride.id = 0
  /\ \A o \in Override : o.id \in 0..MaxOverrides
  /\ \A o \in Override : o.id = 0 <=> o = NoOverride
  /\ \A o \in Override : o # NoOverride => o.name \in Name /\ o.id \in 1..MaxOverrides
<1>1. NoOverride \in Override /\ NoOverride.id = 0
  BY DEF Override, NoOverride
<1>2. ASSUME NEW o \in [name : Name, id : 1..MaxOverrides]
      PROVE  o.name \in Name /\ o.id \in 1..MaxOverrides /\ o # NoOverride
  BY <1>1
<1> QED
  BY <1>1, <1>2, BoundAssumption DEF Override

LEMMA AnswerFacts ==
  /\ \A s \in {400, 403, 404, 500} : Refused(s) \in Answer
  /\ \A d \in Seq(Def) : Script("override", d) \in Answer /\ Script("menu", d) \in Answer
BY DEF Answer, Refused, Script

LEMMA ClientFacts ==
  ASSUME NEW c \in Client
  PROVE  c.enabled \in BOOLEAN /\ c.entries \in Seq(Name)
BY DEF Client

LEMMA ConfigFacts ==
  ASSUME NEW cfg \in Config
  PROVE  /\ IsMap(cfg.clients, MAC, Client)
         /\ cfg.wildcard \in Client \cup {NoClient}
         /\ IsMap(cfg.menus, Name, Def)
BY ConfigAssumption DEF IsConfig

LEMMA AnyMACType == AnyMAC \in MAC
BY ConfigAssumption DEF AnyMAC

LEMMA InitTypeOK == Init => TypeOK
<1> SUFFICES ASSUME Init PROVE TypeOK
  OBVIOUS
<1>1. disk \in Config
  BY DEF Init
<1>2. IsMap(clients, MAC, Client) /\ wildcard \in Client \cup {NoClient}
      /\ IsMap(menus, Name, Def)
  BY <1>1, ConfigFacts DEF Init
<1>3. overrides \in [MAC -> Override] /\ override \in [Requests -> Override]
  BY OverrideFacts DEF Init, NoneSet
<1>4. answer \in [Requests -> Answer]
  BY AnswerFacts DEF Init
<1>5. mac \in [Requests -> MAC]
  BY AnyMACType DEF Init
<1>6. issued \in 0..MaxOverrides
  BY BoundAssumption DEF Init
<1>7. result \in [Requests -> Seq(Def)]
  BY DEF Init
<1> QED
  BY <1>1, <1>2, <1>3, <1>4, <1>5, <1>6, <1>7 DEF Init, TypeOK, RequestPC, ReloadPC

LEMMA ReplyType ==
  ASSUME TypeOK, NEW r \in Requests, NEW a \in Answer, Reply(r, a)
  PROVE  /\ pc' \in [Requests -> RequestPC]
         /\ mac' \in [Requests -> MAC]
         /\ client' \in [Requests -> Client \cup {NoClient}]
         /\ override' \in [Requests -> Override]
         /\ result' \in [Requests -> Seq(Def)]
         /\ answer' \in [Requests -> Answer]
         /\ quiet' \subseteq Requests
<1>1. answer' \in [Requests -> Answer] /\ override' \in [Requests -> Override]
      /\ mac' \in [Requests -> MAC]
  BY OverrideFacts, AnyMACType DEF TypeOK, Reply
<1>2. result' \in [Requests -> Seq(Def)]
  BY DEF TypeOK, Reply
<1> QED
  BY <1>1, <1>2 DEF TypeOK, Reply, RequestPC

\* A step that answers a request, whatever the answer.
LEMMA ReplyTypeOK ==
  ASSUME TypeOK, LocalsInv, NEW r \in Requests, NEW a \in Answer, Reply(r, a),
         UNCHANGED <<up, disk, registry, menus, reload, issued, gone, mixed>>,
         served' \subseteq 1..MaxOverrides
  PROVE  TypeOK' /\ LocalsInv'
<1>1. TypeOK'
  BY ReplyType DEF TypeOK, IsMap
<1>2. LocalsInv'
  BY DEF Reply, TypeOK, LocalsInv
<1> QED
  BY <1>1, <1>2

\* The program counter and the override in hand, in every step of a request.
LEMMA StepTypeOK == TypeOK /\ LocalsInv /\ [Next]_vars => TypeOK' /\ LocalsInv'
<1> SUFFICES ASSUME TypeOK, LocalsInv, [Next]_vars PROVE TypeOK' /\ LocalsInv'
  OBVIOUS
<1>1. ASSUME NEW r \in Requests, NEW m \in MAC, Arrive(r, m)
      PROVE  TypeOK' /\ LocalsInv'
  BY <1>1 DEF Arrive, TypeOK, LocalsInv, RequestPC, IsMap
<1>2. ASSUME NEW r \in Requests, RejectMAC(r) PROVE TypeOK' /\ LocalsInv'
  <2>1. Reply(r, Refused(400)) /\ Refused(400) \in Answer
    BY <1>2, AnswerFacts DEF RejectMAC
  <2>2. served' \subseteq 1..MaxOverrides
    BY <1>2 DEF RejectMAC, TypeOK
  <2> QED
    BY <1>2, <2>1, <2>2, ReplyTypeOK DEF RejectMAC
<1>3. ASSUME NEW r \in Requests, Find(r) PROVE TypeOK' /\ LocalsInv'
  <2> DEFINE c == FindClient(mac[r])
  <2>1. c \in Client \cup {NoClient}
    BY DEF TypeOK, FindClient, IsMap
  <2>2. ASSUME NEW s \in {403, 404}, Reply(r, Refused(s)) PROVE TypeOK' /\ LocalsInv'
    <3>1. Refused(s) \in Answer
      BY AnswerFacts
    <3>2. served' \subseteq 1..MaxOverrides
      BY <1>3 DEF Find, TypeOK
    <3> QED
      BY <1>3, <2>2, <3>1, <3>2, ReplyTypeOK DEF Find
  <2>4. CASE /\ c # NoClient
             /\ pc' = [pc EXCEPT ![r] = "consume"]
             /\ client' = [client EXCEPT ![r] = c]
             /\ UNCHANGED <<mac, override, result, answer, quiet>>
    BY <1>3, <2>1, <2>4 DEF Find, TypeOK, LocalsInv, IsMap, RequestPC
  <2> QED
    BY <1>3, <2>2, <2>4 DEF Find
<1>4. ASSUME NEW r \in Requests, Consume(r) PROVE TypeOK' /\ LocalsInv'
  <2>1. /\ overrides' \in [MAC -> Override]
        /\ override' \in [Requests -> Override]
    BY <1>4, OverrideFacts DEF Consume, ConsumeBootOverride, TypeOK
  <2> QED
    BY <1>4, <2>1 DEF Consume, TypeOK, LocalsInv, RequestPC, IsMap
<1>5. ASSUME NEW r \in Requests, FindByName(r) PROVE TypeOK' /\ LocalsInv'
  <2> DEFINE o == override[r]
  <2>1. o.id \in 1..MaxOverrides
    BY <1>5, OverrideFacts DEF FindByName, TypeOK, LocalsInv
  <2>2. CASE o.name \in DOMAIN menus
    <3>1. Script("override", <<menus[o.name]>>) \in Answer
      <4>1. <<menus[o.name]>> \in Seq(Def)
        BY <2>2 DEF TypeOK, IsMap
      <4> QED
        BY <4>1, AnswerFacts
    <3>2. /\ Reply(r, Script("override", <<menus[o.name]>>))
          /\ served' \subseteq 1..MaxOverrides
      BY <1>5, <2>1, <2>2 DEF FindByName, TypeOK
    <3> QED
      BY <1>5, <2>2, <3>1, <3>2, ReplyTypeOK DEF FindByName
  <2>3. CASE o.name \notin DOMAIN menus
    <3>1. /\ pc' = [pc EXCEPT ![r] = "resolve"]
          /\ override' = [override EXCEPT ![r] = NoOverride]
          /\ gone' = gone \cup {o.id}
          /\ UNCHANGED <<mac, client, result, answer, quiet, served>>
          /\ UNCHANGED <<up, disk, registry, menus, reload, issued, mixed>>
      BY <1>5, <2>3 DEF FindByName
    <3>2. gone' \subseteq 1..MaxOverrides
      BY <2>1, <3>1 DEF TypeOK
    <3>3. override' \in [Requests -> Override]
      BY <3>1, OverrideFacts DEF TypeOK
    <3>4. TypeOK'
      BY <3>1, <3>2, <3>3 DEF TypeOK, RequestPC, IsMap
    <3>5. LocalsInv'
      BY <3>1 DEF TypeOK, LocalsInv
    <3> QED
      BY <3>4, <3>5
  <2> QED
    BY <2>2, <2>3
<1>6. ASSUME NEW r \in Requests, Resolve(r) PROVE TypeOK' /\ LocalsInv'
  <2> DEFINE name == client[r].entries[Len(result[r]) + 1]
             found == Append(result[r], menus[name])
  <2>0. served' \subseteq 1..MaxOverrides
    BY <1>6 DEF Resolve, TypeOK
  <2>1. name \in DOMAIN menus => found \in Seq(Def)
    BY DEF TypeOK, IsMap
  <2>2. CASE name \notin DOMAIN menus
    <3>1. Reply(r, Refused(500)) /\ Refused(500) \in Answer
      BY <1>6, <2>2, AnswerFacts DEF Resolve
    <3> QED
      BY <1>6, <2>0, <3>1, ReplyTypeOK DEF Resolve
  <2>3. CASE name \in DOMAIN menus /\ Reply(r, Script("menu", found))
    <3>1. Script("menu", found) \in Answer
      BY <2>1, <2>3, AnswerFacts
    <3> QED
      BY <1>6, <2>0, <2>3, <3>1, ReplyTypeOK DEF Resolve
  <2>4. CASE /\ name \in DOMAIN menus
             /\ result' = [result EXCEPT ![r] = found]
             /\ UNCHANGED <<pc, mac, client, override, answer, quiet>>
    BY <1>6, <2>1, <2>4 DEF Resolve, TypeOK, LocalsInv, IsMap
  <2> QED
    BY <1>6, <2>2, <2>3, <2>4 DEF Resolve
<1>7. ASSUME NEW p \in Reloads, Load(p) PROVE TypeOK' /\ LocalsInv'
  BY <1>7 DEF Load, NoReload, TypeOK, LocalsInv, ReloadPC, IsMap
<1>8. ASSUME NEW p \in Reloads, ReloadRegistry(p) PROVE TypeOK' /\ LocalsInv'
  <2>1. newCfg[p] \in Config
    BY <1>8 DEF ReloadRegistry, LocalsInv
  <2>2. IsMap(clients, MAC, Client)' /\ wildcard' \in Client \cup {NoClient}
    BY <1>8, <2>1, ConfigFacts DEF ReloadRegistry, IsMap
  <2>3. TypeOK'
    BY <1>8, <2>2 DEF ReloadRegistry, TypeOK, ReloadPC, IsMap
  <2> QED
    BY <1>8, <2>3 DEF ReloadRegistry, TypeOK, LocalsInv
<1>9. ASSUME NEW p \in Reloads, ReloadMenus(p) PROVE TypeOK' /\ LocalsInv'
  <2>1. newCfg[p] \in Config
    BY <1>9 DEF ReloadMenus, LocalsInv
  <2>2. DOMAIN newCfg[p].menus \subseteq Name
    BY <2>1, ConfigFacts DEF IsMap
  <2>3. IsMap(menus, Name, Def)'
    BY <1>9 DEF ReloadMenus, IsMap
  <2>4. TypeOK'
    BY <1>9, <2>2, <2>3 DEF ReloadMenus, TypeOK, ReloadPC, IsMap
  <2> QED
    BY <1>9, <2>1, <2>4 DEF ReloadMenus, TypeOK, LocalsInv
<1>10. ASSUME NEW p \in Reloads, FillMenu(p) PROVE TypeOK' /\ LocalsInv'
  <2>1. PICK n \in todo[p] :
          /\ menus' = [k \in DOMAIN menus \cup {n} |->
                         IF k = n THEN newCfg[p].menus[n] ELSE menus[k]]
          /\ todo' = [todo EXCEPT ![p] = @ \ {n}]
    BY <1>10 DEF FillMenu
  <2>2. newCfg[p] \in Config /\ n \in DOMAIN newCfg[p].menus
    BY <1>10 DEF FillMenu, LocalsInv
  <2>3. newCfg[p].menus[n] \in Def /\ n \in Name
    BY <2>2, ConfigFacts DEF IsMap
  <2>4. IsMap(menus, Name, Def)'
    BY <2>1, <2>3 DEF TypeOK, IsMap
  <2>5. TypeOK'
    BY <1>10, <2>1, <2>4 DEF FillMenu, TypeOK, IsMap
  <2> QED
    BY <1>10, <2>1, <2>5 DEF FillMenu, TypeOK, LocalsInv
<1>11. ASSUME NEW p \in Reloads, EndReload(p) PROVE TypeOK' /\ LocalsInv'
  BY <1>11 DEF EndReload, TypeOK, LocalsInv, ReloadPC, IsMap
<1>12. ASSUME NEW m \in MAC, NEW n \in Name, SetBootOverride(m, n)
       PROVE  TypeOK' /\ LocalsInv'
  <2>1. issued' \in 1..MaxOverrides /\ issued' = issued + 1
    BY <1>12, BoundAssumption DEF SetBootOverride, TypeOK
  <2>2. [name |-> n, id |-> issued + 1] \in Override
    BY <2>1 DEF Override
  <2>3. overrides' \in [MAC -> Override]
    BY <1>12, <2>2 DEF SetBootOverride, TypeOK
  <2>4. gone' \subseteq 1..MaxOverrides
    BY <1>12, OverrideFacts DEF SetBootOverride, TypeOK
  <2>5. TypeOK'
    BY <1>12, <2>1, <2>3, <2>4 DEF SetBootOverride, TypeOK, IsMap
  <2> QED
    BY <1>12, <2>5 DEF SetBootOverride, TypeOK, LocalsInv
<1>13. CASE FatalMapRace
  BY <1>13 DEF FatalMapRace, TypeOK, LocalsInv, IsMap
<1>14. CASE Restart
  <2>1. /\ IsMap(clients, MAC, Client)'
        /\ wildcard' \in Client \cup {NoClient}
        /\ IsMap(menus, Name, Def)'
    BY <1>14, ConfigFacts DEF Restart, IsMap
  <2>2. /\ overrides' \in [MAC -> Override]
        /\ override' \in [Requests -> Override]
        /\ mac' \in [Requests -> MAC]
        /\ result' \in [Requests -> Seq(Def)]
    BY <1>14, OverrideFacts, AnyMACType DEF Restart, NoneSet
  <2>3. gone' \subseteq 1..MaxOverrides
    <3>1. gone' = gone \cup Waiting \cup InHand
      BY <1>14 DEF Restart
    <3>2. Waiting \subseteq 1..MaxOverrides
      BY OverrideFacts DEF Waiting, TypeOK
    <3>3. InHand \subseteq 1..MaxOverrides
      BY OverrideFacts DEF InHand, TypeOK
    <3> QED
      BY <3>1, <3>2, <3>3 DEF TypeOK
  <2>4. TypeOK'
    BY <1>14, <2>1, <2>2, <2>3 DEF Restart, TypeOK, RequestPC, ReloadPC
  <2> QED
    BY <1>14, <2>4 DEF Restart, LocalsInv
<1>15. CASE EditDisk
  BY <1>15 DEF EditDisk, TypeOK, LocalsInv, IsMap
<1>16. CASE UNCHANGED vars
  BY <1>16 DEF vars, TypeOK, LocalsInv, IsMap
<1> QED
  BY <1>1, <1>2, <1>3, <1>4, <1>5, <1>6, <1>7, <1>8, <1>9, <1>10, <1>11, <1>12,
     <1>13, <1>14, <1>15, <1>16 DEF Next, ServeStep, ReloadStep

\* Type correctness: in every state of every behaviour the registry, the menus
\* and the locals of every request and reload have the values of their types.
THEOREM TypeCorrect == Spec => [](TypeOK /\ LocalsInv)
<1>1. Init => TypeOK /\ LocalsInv
  BY InitTypeOK DEF Init, LocalsInv
<1> QED
  BY <1>1, StepTypeOK, PTL DEF Spec

-----------------------------------------------------------------------------
(* What a step does to the overrides: nothing, or one of four things.      *)

overrideVars == <<overrides, override, issued, served, gone>>

\* Request r takes the override that waits for its MAC ...
Takes(r) == /\ overrides[mac[r]] # NoOverride
            /\ override[r] = NoOverride
            /\ override' = [override EXCEPT ![r] = overrides[mac[r]]]
            /\ overrides' = [overrides EXCEPT ![mac[r]] = NoOverride]
            /\ UNCHANGED <<issued, served, gone>>

\* ... and serves it or gives it up.
Spends(r) == /\ override[r] # NoOverride
             /\ override' = [override EXCEPT ![r] = NoOverride]
             /\ UNCHANGED <<overrides, issued>>
             /\ \/ served' = served \cup {override[r].id} /\ gone' = gone
                \/ gone' = gone \cup {override[r].id} /\ served' = served

LEMMA OverrideSteps ==
  ASSUME TypeOK, LocalsInv, [Next]_vars
  PROVE  \/ UNCHANGED overrideVars
         \/ \E m \in MAC, n \in Name : SetBootOverride(m, n)
         \/ \E r \in Requests : Takes(r) \/ Spends(r)
         \/ Restart
<1>1. ASSUME NEW r \in Requests, pc[r] # "byname", NEW a, Reply(r, a)
      PROVE  override' = override
  BY <1>1 DEF Reply, TypeOK, LocalsInv
<1>2. ASSUME NEW r \in Requests, NEW m \in MAC, Arrive(r, m)
      PROVE  UNCHANGED overrideVars
  BY <1>2 DEF Arrive, overrideVars
<1>3. ASSUME NEW r \in Requests, RejectMAC(r)
      PROVE  UNCHANGED overrideVars
  BY <1>1, <1>3 DEF RejectMAC, overrideVars
<1>4. ASSUME NEW r \in Requests, Find(r)
      PROVE  UNCHANGED overrideVars
  BY <1>1, <1>4 DEF Find, overrideVars
<1>5. ASSUME NEW r \in Requests, Resolve(r)
      PROVE  UNCHANGED overrideVars
  BY <1>1, <1>5 DEF Resolve, overrideVars
<1>6. ASSUME NEW r \in Requests, Consume(r)
      PROVE  UNCHANGED overrideVars \/ Takes(r)
  <2>1. override[r] = NoOverride
    BY <1>6 DEF Consume, LocalsInv
  <2>2. CASE overrides[mac[r]] = NoOverride
    <3>1. mac[r] \in MAC
      BY DEF TypeOK
    <3>2. override' = override
      BY <1>6, <2>1, <2>2 DEF Consume, TypeOK
    <3>3. overrides' = overrides
      BY <1>6, <2>2, <3>1 DEF Consume, ConsumeBootOverride, TypeOK
    <3> QED
      BY <1>6, <3>2, <3>3 DEF Consume, overrideVars
  <2>3. CASE overrides[mac[r]] # NoOverride
    BY <1>6, <2>1, <2>3 DEF Consume, ConsumeBootOverride, Takes
  <2> QED
    BY <2>2, <2>3
<1>7. ASSUME NEW r \in Requests, FindByName(r)
      PROVE  Spends(r)
  <2>1. override[r] # NoOverride
    BY <1>7 DEF FindByName, LocalsInv
  <2> QED
    BY <1>7, <2>1 DEF FindByName, Reply, Spends
<1>8. ASSUME NEW p \in Reloads, Load(p) \/ ReloadStep(p)
      PROVE  UNCHANGED overrideVars
  BY <1>8 DEF Load, ReloadStep, ReloadRegistry, ReloadMenus, FillMenu, EndReload,
              overrideVars
<1>9. ASSUME FatalMapRace \/ EditDisk \/ UNCHANGED vars
      PROVE  UNCHANGED overrideVars
  BY <1>9 DEF FatalMapRace, EditDisk, vars, overrideVars
<1> QED
  BY <1>2, <1>3, <1>4, <1>5, <1>6, <1>7, <1>8, <1>9 DEF Next, ServeStep

-----------------------------------------------------------------------------
(* One-time overrides.                                                     *)

\* The sets Waiting and InHand, element by element.
LEMMA Members ==
  /\ \A i : i \in Waiting <=> i # 0 /\ \E m \in MAC : overrides[m].id = i
  /\ \A i : i \in InHand <=> i # 0 /\ \E r \in Requests : override[r].id = i
BY DEF Waiting, InHand

LEMMA MembersNext ==
  /\ \A i : i \in Waiting' <=> i # 0 /\ \E m \in MAC : overrides'[m].id = i
  /\ \A i : i \in InHand' <=> i # 0 /\ \E r \in Requests : override'[r].id = i
BY DEF Waiting, InHand

LEMMA SetSets ==
  ASSUME OverrideInv, NEW m \in MAC, NEW n \in Name, SetBootOverride(m, n)
  PROVE  /\ Waiting' = (Waiting \ {overrides[m].id}) \cup {issued + 1}
         /\ InHand' = InHand
<1>1. overrides' = [overrides EXCEPT ![m] = [name |-> n, id |-> issued + 1]]
  BY DEF SetBootOverride
<1>2. issued + 1 # 0
  BY DEF OverrideInv, TypeOK
<1>3. InHand' = InHand
  BY DEF SetBootOverride, InHand
<1>4. \A k \in MAC : overrides'[k].id = IF k = m THEN issued + 1 ELSE overrides[k].id
  BY <1>1 DEF OverrideInv, TypeOK
<1>5. Waiting' = (Waiting \ {overrides[m].id}) \cup {issued + 1}
  BY <1>2, <1>4, Members, MembersNext DEF OverrideInv, OverrideInOnePlace
<1> QED
  BY <1>3, <1>5

LEMMA TakeSets ==
  ASSUME OverrideInv, NEW r \in Requests, Takes(r)
  PROVE  /\ overrides[mac[r]].id \in Waiting
         /\ Waiting' = Waiting \ {overrides[mac[r]].id}
         /\ InHand' = InHand \cup {overrides[mac[r]].id}
<1> DEFINE m == mac[r]
           i == overrides[m].id
<1>1. m \in MAC /\ i # 0
  BY OverrideFacts DEF Takes, OverrideInv, TypeOK
<1>2. \A k \in MAC : overrides'[k].id = IF k = m THEN 0 ELSE overrides[k].id
  BY <1>1, OverrideFacts DEF Takes, OverrideInv, TypeOK
<1>3. override[r].id = 0
  BY OverrideFacts DEF Takes
<1>4. \A q \in Requests : override'[q].id = IF q = r THEN i ELSE override[q].id
  BY DEF Takes, OverrideInv, TypeOK
<1>5. i \in Waiting
  BY <1>1, Members
<1>6. Waiting' = Waiting \ {i}
  BY <1>1, <1>2, Members, MembersNext DEF OverrideInv, OverrideInOnePlace
<1>7. InHand' = InHand \cup {i}
  BY <1>1, <1>3, <1>4, Members, MembersNext
<1> QED
  BY <1>5, <1>6, <1>7

LEMMA SpendSets ==
  ASSUME OverrideInv, NEW r \in Requests, Spends(r)
  PROVE  /\ override[r].id \in InHand
         /\ Waiting' = Waiting
         /\ InHand' = InHand \ {override[r].id}
<1> DEFINE i == override[r].id
<1>1. i # 0
  BY OverrideFacts DEF Spends, OverrideInv, TypeOK
<1>2. \A q \in Requests : override'[q].id = IF q = r THEN 0 ELSE override[q].id
  BY OverrideFacts DEF Spends, OverrideInv, TypeOK
<1>3. Waiting' = Waiting
  BY DEF Spends, Waiting
<1>4. i \in InHand
  BY <1>1, Members
<1>5. InHand' = InHand \ {i}
  BY <1>1, <1>2, Members, MembersNext DEF OverrideInv, OverrideInOnePlace
<1> QED
  BY <1>3, <1>4, <1>5

\* OverrideInOnePlace and NoOverrideVanishes are inductive together.
LEMMA StepOverrideInv == OverrideInv /\ [Next]_vars => OverrideInv'
<1> SUFFICES ASSUME OverrideInv, [Next]_vars PROVE OverrideInv'
  OBVIOUS
<1> USE DEF OverrideInv
<1>1. TypeOK' /\ LocalsInv'
  BY StepTypeOK
<1>2. CASE UNCHANGED overrideVars
  BY <1>1, <1>2 DEF overrideVars, OverrideInOnePlace, NoOverrideVanishes, Waiting, InHand
<1>3. ASSUME NEW m \in MAC, NEW n \in Name, SetBootOverride(m, n)
      PROVE  OverrideInOnePlace' /\ NoOverrideVanishes'
  <2>1. /\ issued' = issued + 1 /\ issued \in Nat
        /\ served' = served
        /\ gone' = gone \cup ({overrides[m].id} \ {0})
        /\ override' = override
    BY <1>3, BoundAssumption DEF SetBootOverride, TypeOK
  <2>2. issued + 1 \notin Waiting \cup InHand \cup served \cup gone
    BY <2>1 DEF NoOverrideVanishes
  <2>3. \A k \in MAC : overrides'[k].id = IF k = m THEN issued + 1 ELSE overrides[k].id
    BY <1>3 DEF SetBootOverride, TypeOK
  <2>4. \A k \in MAC : overrides'[k].id # 0 => overrides[k].id # issued + 1
    BY <2>1, <2>2, Members
  <2>5. overrides[m].id # 0 => overrides[m].id \in Waiting
    BY Members
  <2>6. \A j, k \in MAC : overrides'[j].id = overrides'[k].id /\ overrides'[j].id # 0
                          => j = k
    BY <2>2, <2>3, Members DEF OverrideInOnePlace
  <2>7. OverrideInOnePlace'
    BY <1>3, <2>1, <2>2, <2>5, <2>6, SetSets DEF OverrideInOnePlace
  <2>8. 0 \notin Waiting
    BY Members
  <2>9. 1..(issued + 1) = (1..issued) \cup {issued + 1}
    BY <2>1
  <2>10. NoOverrideVanishes'
    BY <1>3, <2>1, <2>5, <2>8, <2>9, SetSets DEF NoOverrideVanishes
  <2> QED
    BY <2>7, <2>10
<1>4. ASSUME NEW r \in Requests, Takes(r)
      PROVE  OverrideInOnePlace' /\ NoOverrideVanishes'
  <2> DEFINE m == mac[r]
             i == overrides[m].id
  <2>1. /\ m \in MAC /\ i \in Waiting
        /\ UNCHANGED <<issued, served, gone>>
    BY <1>4, TakeSets DEF Takes, TypeOK
  <2>2. \A k \in MAC : overrides'[k].id = IF k = m THEN 0 ELSE overrides[k].id
    BY <1>4, OverrideFacts DEF Takes, TypeOK
  <2>3. \A q \in Requests : override'[q].id = IF q = r THEN i ELSE override[q].id
    BY <1>4 DEF Takes, TypeOK
  <2>4. \A q \in Requests : override[q].id # i
    BY <2>1, Members DEF OverrideInOnePlace
  <2>5. OverrideInOnePlace'
    BY <1>4, <2>1, <2>2, <2>3, <2>4, TakeSets DEF OverrideInOnePlace
  <2>6. NoOverrideVanishes'
    BY <1>4, <2>1, TakeSets DEF NoOverrideVanishes
  <2> QED
    BY <2>5, <2>6
<1>5. ASSUME NEW r \in Requests, Spends(r)
      PROVE  OverrideInOnePlace' /\ NoOverrideVanishes'
  <2> DEFINE i == override[r].id
  <2>1. i \in InHand /\ UNCHANGED <<overrides, issued>>
    BY <1>5, SpendSets DEF Spends
  <2>2. \A q \in Requests : override'[q].id = IF q = r THEN 0 ELSE override[q].id
    BY <1>5, OverrideFacts DEF Spends, TypeOK
  <2>3. \/ served' = served \cup {i} /\ gone' = gone
        \/ gone' = gone \cup {i} /\ served' = served
    BY <1>5 DEF Spends
  <2>4. OverrideInOnePlace'
    BY <1>5, <2>1, <2>2, <2>3, SpendSets DEF OverrideInOnePlace
  <2>5. NoOverrideVanishes'
    BY <1>5, <2>1, <2>3, SpendSets DEF NoOverrideVanishes
  <2> QED
    BY <2>4, <2>5
<1>6. CASE Restart
  <2>1. /\ \A m \in MAC : overrides'[m].id = 0
        /\ \A r \in Requests : override'[r].id = 0
    BY <1>6, OverrideFacts DEF Restart, NoneSet
  <2>2. Waiting' = {} /\ InHand' = {}
    BY <2>1, MembersNext
  <2>3. /\ UNCHANGED <<issued, served>>
        /\ gone' = gone \cup Waiting \cup InHand
    BY <1>6 DEF Restart
  <2> QED
    BY <1>1, <2>1, <2>2, <2>3 DEF OverrideInOnePlace, NoOverrideVanishes
<1> QED
  BY <1>1, <1>2, <1>3, <1>4, <1>5, <1>6, OverrideSteps

LEMMA InitOverrideInv == Init => OverrideInv
<1> SUFFICES ASSUME Init PROVE OverrideInv
  OBVIOUS
<1>1. TypeOK /\ LocalsInv
  BY InitTypeOK DEF Init, LocalsInv
<1>2. Waiting = {} /\ InHand = {}
  BY OverrideFacts, Members DEF Init, NoneSet
<1>3. OverrideInOnePlace
  BY <1>2, OverrideFacts DEF Init, NoneSet, OverrideInOnePlace
<1>4. NoOverrideVanishes
  BY <1>2 DEF Init, NoOverrideVanishes
<1> QED
  BY <1>1, <1>3, <1>4 DEF OverrideInv

\* An override is in one place, and is never lost, in every state of every
\* behaviour: the one-time override of registry.go:47-69 is given to at most
\* one boot request, and a reload forgets none.
THEOREM OneTime == Spec => [](OverrideInOnePlace /\ NoOverrideVanishes)
<1>1. OverrideInv => OverrideInOnePlace /\ NoOverrideVanishes
  BY DEF OverrideInv
<1> QED
  BY <1>1, InitOverrideInv, StepOverrideInv, PTL DEF Spec

-----------------------------------------------------------------------------
(* The registry implements OneTimeOverride.                                *)

\* Every step of the server is a step of the abstract specification or leaves
\* its variables alone.
LEMMA StepRefines ==
  ASSUME OverrideInv, [Next]_vars
  PROVE  [Abstract!Next]_(Abstract!vars)
<1> USE DEF OverrideInv
<1> DEFINE slot == [m \in MAC |-> overrides[m].id]
<1>1. Abstract!Waiting = Waiting
  BY DEF Abstract!Waiting, Waiting
<1>2. CASE UNCHANGED overrideVars
  BY <1>2 DEF overrideVars, Abstract!vars, InHand
<1>3. ASSUME NEW m \in MAC, NEW n \in Name, SetBootOverride(m, n)
      PROVE  Abstract!Set(m)
  <2>1. slot' = [slot EXCEPT ![m] = issued + 1]
    BY <1>3 DEF SetBootOverride, TypeOK
  <2> QED
    BY <1>3, <2>1, SetSets DEF SetBootOverride, Abstract!Set
<1>4. ASSUME NEW r \in Requests, Takes(r)
      PROVE  \E m \in MAC : Abstract!Take(m)
  <2>1. PICK m \in MAC : m = mac[r]
    BY DEF TypeOK
  <2>2. overrides[m].id # 0
    BY <1>4, <2>1, OverrideFacts DEF Takes, TypeOK
  <2>3. slot' = [slot EXCEPT ![m] = 0]
    BY <1>4, <2>1, OverrideFacts DEF Takes, TypeOK
  <2>4. Abstract!Take(m)
    BY <1>4, <2>1, <2>2, <2>3, TakeSets DEF Takes, Abstract!Take
  <2> QED
    BY <2>4
<1>5. ASSUME NEW r \in Requests, Spends(r)
      PROVE  \E i \in InHand : Abstract!Serve(i) \/ Abstract!GiveUp(i)
  <2>1. PICK i \in InHand : i = override[r].id
    BY <1>5, SpendSets
  <2>2. slot' = slot
    BY <1>5 DEF Spends
  <2>3. Abstract!Serve(i) \/ Abstract!GiveUp(i)
    BY <1>5, <2>1, <2>2, SpendSets DEF Spends, Abstract!Serve, Abstract!GiveUp
  <2> QED
    BY <2>3
<1>6. CASE Restart
  <2>1. slot' = [m \in MAC |-> 0]
    BY <1>6, OverrideFacts DEF Restart, NoneSet
  <2>2. \A r \in Requests : override'[r].id = 0
    BY <1>6, OverrideFacts DEF Restart
  <2>3. InHand' = {}
    BY <2>2, MembersNext
  <2> QED
    BY <1>1, <1>6, <2>1, <2>3 DEF Restart, Abstract!Forget, Abstract!Next
<1>7. ASSUME NEW m \in MAC, NEW n \in Name, SetBootOverride(m, n)
      PROVE  Abstract!Next
  BY <1>3, <1>7 DEF Abstract!Next
<1>8. ASSUME NEW r \in Requests, Takes(r) PROVE Abstract!Next
  BY <1>4, <1>8 DEF Abstract!Next
<1>9. ASSUME NEW r \in Requests, Spends(r) PROVE Abstract!Next
  BY <1>5, <1>9 DEF Abstract!Next
<1> QED
  BY <1>2, <1>6, <1>7, <1>8, <1>9, OverrideSteps

\* Whatever requests, reloads and deaths of the process do to it, the registry
\* keeps the promise OneTimeOverride states.
THEOREM Refinement == Spec => ImplementsOneTimeOverride
<1>1. Init => OverrideInv /\ Abstract!Init
  <2> SUFFICES ASSUME Init PROVE OverrideInv /\ Abstract!Init
    OBVIOUS
  <2>1. Waiting = {} /\ InHand = {}
    BY OverrideFacts, Members DEF Init, NoneSet
  <2>2. OverrideInv
    BY InitOverrideInv
  <2>3. [m \in MAC |-> overrides[m].id] = [m \in MAC |-> 0]
    BY OverrideFacts DEF Init, NoneSet
  <2> QED
    BY <2>1, <2>2, <2>3 DEF Init, Abstract!Init
<1> QED
  BY <1>1, StepOverrideInv, StepRefines, PTL
  DEF Spec, ImplementsOneTimeOverride, Abstract!Spec

-----------------------------------------------------------------------------
(* Reloads.                                                                *)

\* The variables a reload works on, and the steps that leave them alone.
reloadVars == <<clients, wildcard, menus, rpc, newCfg, todo, mixed>>

LEMMA ReloadSteps ==
  ASSUME [Next]_vars
  PROVE  \/ UNCHANGED reloadVars
         \/ \E p \in Reloads : Load(p) \/ ReloadStep(p)
         \/ Restart
<1>1. ASSUME NEW r \in Requests, NEW m \in MAC, Arrive(r, m)
      PROVE  UNCHANGED reloadVars
  BY <1>1 DEF Arrive, reloadVars
<1>2. ASSUME NEW r \in Requests, RejectMAC(r) \/ ServeStep(r)
      PROVE  UNCHANGED reloadVars
  BY <1>2 DEF RejectMAC, ServeStep, Find, Consume, ConsumeBootOverride, FindByName,
              Resolve, reloadVars
<1>3. ASSUME NEW m \in MAC, NEW n \in Name, SetBootOverride(m, n)
      PROVE  UNCHANGED reloadVars
  BY <1>3 DEF SetBootOverride, reloadVars
<1>4. ASSUME FatalMapRace \/ EditDisk \/ UNCHANGED vars
      PROVE  UNCHANGED reloadVars
  BY <1>4 DEF FatalMapRace, EditDisk, vars, reloadVars
<1> QED
  BY <1>1, <1>2, <1>3, <1>4 DEF Next

LEMMA StepLoneReload ==
  ASSUME TypeOK, LocalsInv, LoneReloadInv, [Next]_vars
  PROVE  LoneReloadInv'
<1>1. CASE UNCHANGED reloadVars
  <2>1. /\ clients' = clients /\ wildcard' = wildcard /\ menus' = menus
        /\ rpc' = rpc /\ newCfg' = newCfg /\ todo' = todo /\ mixed' = mixed
    BY <1>1 DEF reloadVars
  <2>2. NoReload' = NoReload /\ Settled' = Settled
    BY <2>1 DEF NoReload, Settled, ServesConfig
  <2> QED
    BY <2>1, <2>2 DEF LoneReloadInv
<1>2. CASE Restart
  <2>1. Settled'
    BY <1>2 DEF Restart, Settled, ServesConfig
  <2> QED
    BY <1>2, <2>1 DEF Restart, LoneReloadInv
<1>3. ASSUME NEW p \in Reloads, Load(p) PROVE LoneReloadInv'
  <2>1. CASE NoReload
    <3>1. \A q \in Reloads : rpc'[q] # "idle" => q = p /\ rpc'[q] = "registry"
      BY <1>3, <2>1 DEF Load, NoReload, TypeOK
    <3>2. rpc'[p] = "registry"
      BY <1>3 DEF Load, TypeOK
    <3> QED
      BY <3>1, <3>2 DEF LoneReloadInv, NoReload
  <2>2. CASE ~NoReload
    BY <1>3, <2>2 DEF Load, LoneReloadInv
  <2> QED
    BY <2>1, <2>2
<1>4. ASSUME NEW p \in Reloads, ReloadRegistry(p), ~mixed PROVE LoneReloadInv'
  <2>1. \A q \in Reloads : rpc[q] # "idle" => q = p
    BY <1>4 DEF ReloadRegistry, LoneReloadInv
  <2>2. \A q \in Reloads : rpc'[q] # "idle" => q = p /\ rpc'[q] = "menus"
    BY <1>4, <2>1 DEF ReloadRegistry, TypeOK
  <2>3. ~NoReload'
    BY <1>4 DEF ReloadRegistry, TypeOK, NoReload
  <2> QED
    BY <1>4, <2>2, <2>3 DEF ReloadRegistry, LoneReloadInv
<1>5. ASSUME NEW p \in Reloads, ReloadMenus(p), ~mixed PROVE LoneReloadInv'
  <2>1. \A q \in Reloads : rpc[q] # "idle" => q = p
    BY <1>5 DEF ReloadMenus, LoneReloadInv
  <2>2. /\ \A q \in Reloads : rpc'[q] # "idle" => q = p
        /\ rpc'[p] = "fill"
        /\ todo'[p] = DOMAIN newCfg[p].menus
        /\ UNCHANGED <<newCfg, clients, wildcard>>
    BY <1>5, <2>1 DEF ReloadMenus, TypeOK
  <2>3. clients = newCfg[p].clients /\ wildcard = newCfg[p].wildcard
    BY <1>5 DEF ReloadMenus, LoneReloadInv
  <2>4. menus' = [n \in DOMAIN newCfg'[p].menus \ todo'[p] |-> newCfg'[p].menus[n]]
    BY <1>5, <2>2 DEF ReloadMenus
  <2>5. ~NoReload'
    BY <2>2 DEF NoReload
  <2> QED
    BY <2>2, <2>3, <2>4, <2>5 DEF LoneReloadInv
<1>6. ASSUME NEW p \in Reloads, FillMenu(p), ~mixed PROVE LoneReloadInv'
  <2>1. rpc[p] = "fill" /\ UNCHANGED <<rpc, newCfg, clients, wildcard, mixed>>
    BY <1>6 DEF FillMenu
  <2>2. PICK n \in todo[p] :
          /\ menus' = [k \in DOMAIN menus \cup {n} |->
                         IF k = n THEN newCfg[p].menus[n] ELSE menus[k]]
          /\ todo' = [todo EXCEPT ![p] = @ \ {n}]
    BY <1>6 DEF FillMenu
  <2>3. n \in DOMAIN newCfg[p].menus
    BY <2>1 DEF LocalsInv
  <2>4. menus = [k \in DOMAIN newCfg[p].menus \ todo[p] |-> newCfg[p].menus[k]]
    BY <1>6, <2>1 DEF LoneReloadInv
  <2>5. todo'[p] = todo[p] \ {n}
    BY <2>2 DEF TypeOK
  <2>6. DOMAIN menus \cup {n} = DOMAIN newCfg[p].menus \ todo'[p]
    BY <2>3, <2>4, <2>5
  <2>7. menus' = [k \in DOMAIN newCfg[p].menus \ todo'[p] |-> newCfg[p].menus[k]]
    BY <2>2, <2>4, <2>6
  <2>8. \A q \in Reloads : rpc[q] # "idle" => q = p
    BY <1>6, <2>1 DEF LoneReloadInv
  <2> QED
    BY <1>6, <2>1, <2>7, <2>8 DEF LoneReloadInv, NoReload
<1>7. ASSUME NEW p \in Reloads, EndReload(p), ~mixed PROVE LoneReloadInv'
  <2>1. /\ rpc[p] = "fill" /\ todo[p] = {}
        /\ UNCHANGED <<clients, wildcard, menus>>
    BY <1>7 DEF EndReload
  <2>2. \A q \in Reloads : rpc[q] # "idle" => q = p
    BY <1>7, <2>1 DEF LoneReloadInv
  <2>3. \A q \in Reloads : rpc'[q] = "idle"
    BY <1>7, <2>2 DEF EndReload, TypeOK
  <2>4. newCfg[p] \in Config
    BY <2>1 DEF LocalsInv
  <2>5. newCfg[p].menus = [n \in DOMAIN newCfg[p].menus |-> newCfg[p].menus[n]]
    BY <2>4, ConfigFacts DEF IsMap
  <2>6. ServesConfig(newCfg[p])
    <3>1. clients = newCfg[p].clients /\ wildcard = newCfg[p].wildcard
      BY <1>7, <2>1 DEF LoneReloadInv
    <3>2. menus = [n \in DOMAIN newCfg[p].menus \ todo[p] |-> newCfg[p].menus[n]]
      BY <1>7, <2>1 DEF LoneReloadInv
    <3>3. DOMAIN newCfg[p].menus \ todo[p] = DOMAIN newCfg[p].menus
      BY <2>1
    <3>4. menus = newCfg[p].menus
      BY <2>5, <3>2, <3>3
    <3> QED
      BY <3>1, <3>4 DEF ServesConfig
  <2>7. Settled'
    BY <2>1, <2>4, <2>6 DEF Settled, ServesConfig
  <2> QED
    BY <2>3, <2>7 DEF LoneReloadInv
<1>8. ASSUME NEW p \in Reloads, ReloadStep(p), mixed PROVE LoneReloadInv'
  BY <1>8 DEF ReloadStep, ReloadRegistry, ReloadMenus, FillMenu, EndReload, LoneReloadInv
<1> QED
  BY <1>1, <1>2, <1>3, <1>4, <1>5, <1>6, <1>7, <1>8, ReloadSteps DEF ReloadStep

\* A reload that no other reload overlapped leaves the registry and the menus
\* of one configuration, whatever the interleaving with requests and edits.
THEOREM LoneReload == Spec => []LoneReloadSettles
<1>1. Init => LoneReloadInv
  <2> SUFFICES ASSUME Init PROVE LoneReloadInv
    OBVIOUS
  <2>1. Settled
    BY DEF Init, Settled, ServesConfig
  <2> QED
    BY <2>1 DEF Init, LoneReloadInv
<1>2. LoneReloadInv => LoneReloadSettles
  BY DEF LoneReloadInv, LoneReloadSettles
<1>3. TypeOK /\ LocalsInv /\ LoneReloadInv /\ [Next]_vars => LoneReloadInv'
  BY StepLoneReload
<1> QED
  BY <1>1, <1>2, <1>3, TypeCorrect, PTL DEF Spec

-----------------------------------------------------------------------------
(* Requests that no reload disturbs.                                       *)

\* In a settled server an enabled client has a menu, and every entry of it is
\* in the resolver's map.
LEMMA SettledMenus ==
  ASSUME TypeOK, Settled, NEW m \in MAC, FindClient(m) # NoClient
  PROVE  /\ FindClient(m).entries \in Seq(Name) /\ FindClient(m).entries # <<>>
         /\ \A i \in 1..Len(FindClient(m).entries) :
              FindClient(m).entries[i] \in DOMAIN menus
<1>1. PICK cfg \in Config : ServesConfig(cfg)
  BY DEF Settled
<1>2. FindClient(m) = ConfiguredClient(cfg, m)
  BY <1>1 DEF ServesConfig, FindClient, ConfiguredClient
<1>3. ReferencesResolve(cfg)
  BY ConfigAssumption
<1>4. FindClient(m) \in Client
  BY DEF TypeOK, FindClient, IsMap
<1> QED
  BY <1>1, <1>2, <1>3, <1>4, ClientFacts DEF ReferencesResolve, ServesConfig

\* The variables QuietInv is about.
quietVars == <<clients, wildcard, menus, quiet, pc, mac, client, result, rpc, up>>

LEMMA ReplyQuiet ==
  ASSUME TypeOK, QuietInv, NEW r \in Requests, NEW a, Reply(r, a),
         UNCHANGED <<clients, wildcard, menus, rpc, up>>
  PROVE  QuietInv'
<1>1. quiet' = quiet \ {r} /\ pc'[r] = "idle" /\ result'[r] = <<>>
  BY DEF Reply, TypeOK
<1>2. \A q \in Requests : q # r => /\ pc'[q] = pc[q] /\ mac'[q] = mac[q]
                                  /\ client'[q] = client[q] /\ result'[q] = result[q]
  BY DEF Reply, TypeOK
<1>3. \A q \in Requests : pc'[q] # "resolve" => result'[q] = <<>>
  BY <1>1, <1>2 DEF QuietInv
<1>4. quiet \subseteq Requests
  BY DEF TypeOK
<1> QED
  BY <1>1, <1>2, <1>3, <1>4 DEF QuietInv, Settled, ServesConfig, FindClient

LEMMA StepQuiet ==
  ASSUME TypeOK, LocalsInv, LoneReloadInv, QuietInv, [Next]_vars
  PROVE  QuietInv'
<1>0. quiet \subseteq Requests
  BY DEF TypeOK
<1>1. ASSUME UNCHANGED quietVars PROVE QuietInv'
  BY <1>1 DEF quietVars, QuietInv, Settled, ServesConfig, FindClient
<1>2. ASSUME NEW r \in Requests, NEW m \in MAC, Arrive(r, m) PROVE QuietInv'
  <2>1. /\ pc' = [pc EXCEPT ![r] = "find"] /\ mac' = [mac EXCEPT ![r] = m]
        /\ UNCHANGED <<up, clients, wildcard, menus, client, result, rpc>>
        /\ pc[r] = "idle" /\ up
    BY <1>2 DEF Arrive
  <2>2. /\ pc'[r] = "find" /\ result'[r] = <<>>
        /\ \A q \in Requests : q # r => pc'[q] = pc[q] /\ mac'[q] = mac[q]
    BY <2>1 DEF TypeOK, QuietInv
  <2>3. r \notin quiet
    BY <2>1 DEF QuietInv
  <2>4. \/ quiet' = quiet
        \/ quiet' = quiet \cup {r} /\ NoReload /\ Settled
    BY <1>2 DEF Arrive, LoneReloadInv
  <2>5. quiet' # {} => Settled' /\ \A p \in Reloads : rpc'[p] \in {"idle", "registry"}
    BY <2>1, <2>4 DEF QuietInv, NoReload, Settled, ServesConfig
  <2>6. \A q \in Requests : pc'[q] # "resolve" => result'[q] = <<>>
    BY <2>1, <2>2 DEF QuietInv
  <2> QED
    BY <1>0, <2>1, <2>2, <2>3, <2>4, <2>5, <2>6 DEF QuietInv, FindClient
<1>3. ASSUME NEW r \in Requests, RejectMAC(r) PROVE QuietInv'
  BY <1>3, ReplyQuiet DEF RejectMAC
<1>4. ASSUME NEW r \in Requests, Find(r) PROVE QuietInv'
  <2> DEFINE c == FindClient(mac[r])
  <2>1. ASSUME NEW a, Reply(r, a) PROVE QuietInv'
    BY <1>4, <2>1, ReplyQuiet DEF Find
  <2>2. CASE /\ c # NoClient /\ c.enabled
             /\ pc' = [pc EXCEPT ![r] = "consume"]
             /\ client' = [client EXCEPT ![r] = c]
             /\ UNCHANGED <<mac, override, result, answer, quiet>>
    <3>1. UNCHANGED <<up, clients, wildcard, menus, rpc>> /\ pc[r] = "find"
      BY <1>4 DEF Find
    <3>2. /\ pc'[r] = "consume" /\ client'[r] = c
          /\ \A q \in Requests : q # r => pc'[q] = pc[q] /\ client'[q] = client[q]
      BY <2>2 DEF TypeOK
    <3>3. \A q \in Requests : pc'[q] # "resolve" => result'[q] = <<>>
      BY <2>2, <3>1, <3>2 DEF QuietInv
    <3> QED
      BY <1>0, <2>2, <3>1, <3>2, <3>3 DEF QuietInv, Settled, ServesConfig, FindClient
  <2> QED
    BY <1>4, <2>1, <2>2 DEF Find
<1>5. ASSUME NEW r \in Requests, pc[r] \in {"consume", "byname"},
             pc' = [pc EXCEPT ![r] = "resolve"] \/ pc' = [pc EXCEPT ![r] = "byname"],
             UNCHANGED <<clients, wildcard, menus, quiet, mac, client, result, rpc, up>>
      PROVE  QuietInv'
  <2>1. /\ pc'[r] \in {"resolve", "byname"}
        /\ \A q \in Requests : q # r => pc'[q] = pc[q]
    BY <1>5 DEF TypeOK
  <2>2. result[r] = <<>>
    BY <1>5 DEF QuietInv
  <2>3. r \in quiet => client[r].entries \in Seq(Name) /\ client[r].entries # <<>>
    <3>1. SUFFICES ASSUME r \in quiet
                   PROVE  client[r].entries \in Seq(Name) /\ client[r].entries # <<>>
      OBVIOUS
    <3>2. /\ Settled /\ mac[r] \in MAC
          /\ client[r] = FindClient(mac[r]) /\ client[r] # NoClient
      BY <1>5, <3>1 DEF QuietInv, TypeOK
    <3> QED
      BY <3>2, SettledMenus
  <2>4. r \in quiet => Len(result[r]) < Len(client[r].entries)
    BY <2>2, <2>3
  <2>5. result[r] = [i \in 1..Len(result[r]) |-> menus[client[r].entries[i]]]
    BY <2>2
  <2>6. \A q \in Requests : pc'[q] # "resolve" => result'[q] = <<>>
    BY <1>5, <2>1, <2>2 DEF QuietInv
  <2> QED
    <3>1. \A q \in quiet :
            /\ pc'[q] # "idle"
            /\ pc'[q] \in {"consume", "byname", "resolve"} =>
                 client[q] = FindClient(mac[q]) /\ client[q] # NoClient /\ client[q].enabled
      BY <1>0, <1>5, <2>1 DEF QuietInv
    <3>2. \A q \in quiet : pc'[q] = "resolve" =>
            /\ Len(result[q]) < Len(client[q].entries)
            /\ result[q] = [i \in 1..Len(result[q]) |-> menus[client[q].entries[i]]]
      BY <1>0, <2>1, <2>4, <2>5 DEF QuietInv
    <3>3. quiet # {} => Settled' /\ \A p \in Reloads : rpc[p] \in {"idle", "registry"}
      BY <1>5 DEF QuietInv, Settled, ServesConfig
    <3>4. \A q \in Requests : FindClient(mac[q])' = FindClient(mac[q])
      BY <1>5 DEF FindClient
    <3> QED
      BY <1>0, <1>5, <2>6, <3>1, <3>2, <3>3, <3>4 DEF QuietInv
<1>6. ASSUME NEW r \in Requests, Consume(r) PROVE QuietInv'
  BY <1>5, <1>6 DEF Consume, ConsumeBootOverride
<1>7. ASSUME NEW r \in Requests, FindByName(r) PROVE QuietInv'
  BY <1>5, <1>7, ReplyQuiet DEF FindByName
<1>8. ASSUME NEW r \in Requests, Resolve(r) PROVE QuietInv'
  <2> DEFINE k == Len(result[r]) + 1
             name == client[r].entries[k]
             found == Append(result[r], menus[name])
  <2>1. ASSUME NEW a, Reply(r, a) PROVE QuietInv'
    BY <1>8, <2>1, ReplyQuiet DEF Resolve
  <2>2. CASE /\ name \in DOMAIN menus
             /\ Len(found) < Len(client[r].entries)
             /\ result' = [result EXCEPT ![r] = found]
             /\ UNCHANGED <<pc, mac, client, override, answer, quiet>>
    <3>1. UNCHANGED <<up, clients, wildcard, menus, rpc>> /\ pc[r] = "resolve"
      BY <1>8 DEF Resolve
    <3>2. /\ result'[r] = found
          /\ \A q \in Requests : q # r => result'[q] = result[q]
      BY <2>2 DEF TypeOK
    <3>3. result[r] \in Seq(Def)
      BY DEF TypeOK
    <3>4. Len(found) = k
      BY <3>3
    <3>5. r \in quiet =>
            found = [i \in 1..Len(found) |-> menus[client[r].entries[i]]]
      <4> SUFFICES ASSUME r \in quiet
                   PROVE  found = [i \in 1..Len(found) |-> menus[client[r].entries[i]]]
        OBVIOUS
      <4>1. result[r] = [i \in 1..Len(result[r]) |-> menus[client[r].entries[i]]]
        BY <3>1 DEF QuietInv
      <4>2. Len(result[r]) \in Nat
        BY <3>3
      <4>3. found = [i \in 1..k |-> IF i = k THEN menus[name] ELSE result[r][i]]
        BY <3>3, <4>2
      <4>4. \A i \in 1..k : i # k => i \in 1..Len(result[r])
        BY <4>2
      <4>5. \A i \in 1..k : i # k => result[r][i] = menus[client[r].entries[i]]
        BY <4>1, <4>4
      <4> QED
        BY <3>4, <4>3, <4>5
    <3>6. \A q \in Requests : pc'[q] # "resolve" => result'[q] = <<>>
      BY <2>2, <3>1, <3>2 DEF QuietInv
    <3>7. \A q \in Requests : q \in quiet /\ pc[q] = "resolve" =>
            /\ Len(result'[q]) < Len(client[q].entries)
            /\ result'[q] = [i \in 1..Len(result'[q]) |-> menus[client[q].entries[i]]]
      <4> SUFFICES ASSUME NEW q \in Requests, q \in quiet, pc[q] = "resolve"
                   PROVE  /\ Len(result'[q]) < Len(client[q].entries)
                          /\ result'[q] = [i \in 1..Len(result'[q]) |->
                                            menus[client[q].entries[i]]]
        OBVIOUS
      <4>1. CASE q = r
        BY <2>2, <3>2, <3>5, <4>1
      <4>2. CASE q # r
        BY <3>2, <4>2 DEF QuietInv
      <4> QED
        BY <4>1, <4>2
    <3>8. quiet # {} => Settled' /\ \A p \in Reloads : rpc[p] \in {"idle", "registry"}
      BY <3>1 DEF QuietInv, Settled, ServesConfig
    <3>9. \A q \in Requests : FindClient(mac[q])' = FindClient(mac[q])
      BY <2>2, <3>1 DEF FindClient
    <3> QED
      <4>1. quiet' = quiet /\ pc' = pc /\ client' = client /\ rpc' = rpc /\ up' = up
        BY <2>2, <3>1
      <4>2. \A q \in quiet' :
              /\ pc'[q] # "idle"
              /\ pc'[q] \in {"consume", "byname", "resolve"} =>
                   /\ client'[q] = FindClient(mac[q])'
                   /\ client'[q] # NoClient /\ client'[q].enabled
        BY <1>0, <3>9, <4>1 DEF QuietInv
      <4>3. \A q \in quiet' : pc'[q] = "resolve" =>
              /\ Len(result'[q]) < Len(client'[q].entries)
              /\ result'[q] = [i \in 1..Len(result'[q]) |->
                               menus'[client'[q].entries[i]]]
        BY <1>0, <3>1, <3>7, <4>1
      <4>4. (~up => quiet = {})'
        BY <4>1 DEF QuietInv
      <4> QED
        BY <3>6, <3>8, <4>1, <4>2, <4>3, <4>4 DEF QuietInv
  <2> QED
    BY <1>8, <2>1, <2>2 DEF Resolve
<1>9. ASSUME NEW p \in Reloads, Load(p) PROVE QuietInv'
  <2>1. \A q \in Reloads : rpc'[q] \in {rpc[q], "registry"}
    BY <1>9 DEF Load, TypeOK
  <2> QED
    BY <1>9, <2>1 DEF Load, QuietInv, Settled, ServesConfig, FindClient, request, registry
<1>10. ASSUME NEW p \in Reloads, ReloadRegistry(p) PROVE QuietInv'
  BY <1>10 DEF ReloadRegistry, QuietInv
<1>11. ASSUME NEW p \in Reloads, ReloadMenus(p) \/ FillMenu(p) \/ EndReload(p)
       PROVE  QuietInv'
  <2>1. rpc[p] \in {"menus", "fill"} /\ UNCHANGED <<quiet, pc, result>>
    BY <1>11 DEF ReloadMenus, FillMenu, EndReload
  <2>2. quiet = {}
    BY <2>1 DEF QuietInv
  <2> QED
    BY <2>1, <2>2 DEF QuietInv
<1>12. CASE FatalMapRace
  <2>1. quiet = {}
    BY <1>12 DEF FatalMapRace, MapRace, Writing, QuietInv
  <2> QED
    BY <1>12, <2>1 DEF FatalMapRace, QuietInv
<1>13. CASE Restart
  BY <1>13 DEF Restart, QuietInv
<1>14. ASSUME (\E m \in MAC, n \in Name : SetBootOverride(m, n)) \/ EditDisk
              \/ UNCHANGED vars
       PROVE  QuietInv'
  BY <1>1, <1>14 DEF SetBootOverride, EditDisk, vars, quietVars
<1> QED
  BY <1>2, <1>3, <1>4, <1>6, <1>7, <1>8, <1>9, <1>10, <1>11, <1>12, <1>13, <1>14
  DEF Next, ServeStep, ReloadStep

\* A step that answers a quiet request answers it as Prescribed says.
LEMMA StepAnswer ==
  ASSUME TypeOK, LocalsInv, QuietInv, [Next]_vars,
         NEW r \in quiet, pc[r] # "idle", pc'[r] = "idle"
  PROVE  answer'[r] = Prescribed(r)
<1> DEFINE c == FindClient(mac[r])
<1>0. r \in Requests /\ up /\ mac[r] \in MAC /\ Settled
  BY DEF TypeOK, QuietInv
<1>1. c = ConfiguredClient([clients |-> clients, wildcard |-> wildcard], mac[r])
  BY DEF FindClient, ConfiguredClient
<1>2. ASSUME NEW a, Reply(r, a) PROVE answer'[r] = a
  BY <1>0, <1>2 DEF Reply, TypeOK
<1>3. \/ Find(r) \/ FindByName(r) \/ Resolve(r)
  <2>1. ASSUME NEW q \in Requests, q # r,
               \/ \E m \in MAC : Arrive(q, m)
               \/ RejectMAC(q) \/ ServeStep(q)
        PROVE  pc'[r] = pc[r]
    <3>1. ASSUME NEW x, pc' = [pc EXCEPT ![q] = x] PROVE pc'[r] = pc[r]
      BY <1>0, <2>1, <3>1 DEF TypeOK
    <3>2. ASSUME NEW m \in MAC, Arrive(q, m) PROVE pc'[r] = pc[r]
      BY <3>1, <3>2 DEF Arrive
    <3>3. ASSUME RejectMAC(q) \/ Find(q) PROVE pc'[r] = pc[r]
      BY <3>1, <3>3 DEF RejectMAC, Find, Reply
    <3>4. ASSUME Consume(q) PROVE pc'[r] = pc[r]
      BY <3>1, <3>4 DEF Consume
    <3>5. ASSUME FindByName(q) \/ Resolve(q) PROVE pc'[r] = pc[r]
      BY <3>1, <3>5 DEF FindByName, Resolve, Reply
    <3> QED
      BY <2>1, <3>2, <3>3, <3>4, <3>5 DEF ServeStep
  <2>2. ASSUME \/ \E p \in Reloads : Load(p) \/ ReloadStep(p)
               \/ \E m \in MAC, n \in Name : SetBootOverride(m, n)
               \/ FatalMapRace \/ EditDisk \/ UNCHANGED vars
        PROVE  pc' = pc
    BY <2>2 DEF Load, ReloadStep, ReloadRegistry, ReloadMenus, FillMenu, EndReload,
                SetBootOverride, FatalMapRace, EditDisk, vars
  <2>3. ~(\E m \in MAC : Arrive(r, m)) /\ ~RejectMAC(r) /\ ~Restart
    BY <1>0 DEF Arrive, RejectMAC, Restart
  <2>4. ~Consume(r)
    BY <1>0 DEF Consume, TypeOK
  <2> QED
    BY <2>1, <2>2, <2>3, <2>4 DEF Next, ServeStep
<1>4. CASE Find(r)
  <2>1. ~(c # NoClient /\ c.enabled)
    BY <1>0, <1>4 DEF Find, TypeOK
  <2> QED
    BY <1>1, <1>2, <1>4, <2>1 DEF Find, Prescribed
<1>5. CASE FindByName(r)
  <2>1. c # NoClient /\ c.enabled
    BY <1>0, <1>5 DEF FindByName, QuietInv
  <2>2. override[r].name \in DOMAIN menus
        /\ Reply(r, Script("override", <<menus[override[r].name]>>))
    BY <1>0, <1>5 DEF FindByName, TypeOK
  <2> QED
    BY <1>1, <1>2, <2>1, <2>2 DEF Prescribed
<1>6. CASE Resolve(r)
  <2> DEFINE entries == client[r].entries
             k == Len(result[r]) + 1
             found == Append(result[r], menus[entries[k]])
  <2>1. pc[r] = "resolve"
    BY <1>6 DEF Resolve
  <2>2. /\ c # NoClient /\ c.enabled /\ client[r] = c
        /\ Len(result[r]) < Len(entries)
        /\ result[r] = [i \in 1..Len(result[r]) |-> menus[entries[i]]]
    BY <2>1 DEF QuietInv
  <2>3. override[r].name \notin DOMAIN menus
    <3>1. override[r].name = ""
      <4>1. override[r] = NoOverride
        BY <1>0, <2>1 DEF LocalsInv
      <4>2. NoOverride.name = ""
        BY DEF NoOverride
      <4> QED
        BY <4>1, <4>2
    <3>2. DOMAIN menus \subseteq Name
      BY DEF TypeOK, IsMap
    <3> QED
      BY <3>1, <3>2, ModelValueAssumption
  <2>4. /\ entries \in Seq(Name)
        /\ \A i \in 1..Len(entries) : entries[i] \in DOMAIN menus
    BY <1>0, <2>2, SettledMenus
  <2>5. result[r] \in Seq(Def) /\ Len(result[r]) \in Nat /\ Len(entries) \in Nat
    BY <1>0, <2>4 DEF TypeOK
  <2>6. k \in 1..Len(entries) /\ entries[k] \in DOMAIN menus
    BY <2>2, <2>4, <2>5
  <2>7. Len(found) = Len(entries) /\ Reply(r, Script("menu", found))
    BY <1>0, <1>6, <2>1, <2>6 DEF Resolve, TypeOK
  <2>8. Len(found) = k
    BY <2>5
  <2>9. found = [i \in 1..k |-> IF i = k THEN menus[entries[k]] ELSE result[r][i]]
    BY <2>5
  <2>10. \A i \in 1..k : i # k => i \in 1..Len(result[r])
    BY <2>5
  <2>11. \A i \in 1..k : i # k => result[r][i] = menus[entries[i]]
    BY <2>2, <2>10
  <2>12. found = [i \in 1..Len(entries) |-> menus[entries[i]]]
    BY <2>7, <2>8, <2>9, <2>11
  <2>13. Prescribed(r) = Script("menu", [i \in 1..Len(entries) |-> menus[entries[i]]])
    BY <1>1, <2>2, <2>3 DEF Prescribed
  <2> QED
    BY <1>2, <2>7, <2>12, <2>13
<1> QED
  BY <1>3, <1>4, <1>5, <1>6

\* A boot request that no reload overlapped is answered by one configuration,
\* never with a server error, for all numbers of requests, reloads, MACs.
THEOREM QuietRequests == Spec => QuietAnswer
<1> DEFINE Inv == TypeOK /\ LocalsInv /\ LoneReloadInv /\ QuietInv
           Answers == \A r \in quiet : pc[r] # "idle" /\ pc'[r] = "idle" =>
                                       answer'[r] = Prescribed(r)
<1>1. Init => Inv
  <2> SUFFICES ASSUME Init PROVE Inv
    OBVIOUS
  <2>1. TypeOK /\ LocalsInv
    BY InitTypeOK DEF Init, LocalsInv
  <2>2. Settled
    BY DEF Init, Settled, ServesConfig
  <2>3. LoneReloadInv
    BY <2>2 DEF Init, LoneReloadInv
  <2>4. QuietInv
    BY DEF Init, QuietInv
  <2> QED
    BY <2>1, <2>3, <2>4
<1>2. Inv /\ [Next]_vars => Inv'
  BY StepTypeOK, StepLoneReload, StepQuiet
<1>3. Inv /\ [Next]_vars => Answers
  BY StepAnswer
<1> QED
  BY <1>1, <1>2, <1>3, PTL DEF Spec, QuietAnswer
=============================================================================
