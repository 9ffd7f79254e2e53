------------------------- MODULE ToolCallback_proofs -------------------------
(***************************************************************************)
(* For any tools, agents and modes: the bridge holds no address at which   *)
(* nothing listens, and declarations agree with the registry.  And the     *)
(* condition under which a registered tool is always reachable: the client *)
(* launches its bridge, and a tool that is never removed was registered    *)
(* before its first call.                                                  *)
(***************************************************************************)
EXTENDS ToolCallback, TLAPS

\* The state a client is built in (ClientBuilder::build).
LEMMA InitInv == Init => Inv
<1> SUFFICES ASSUME Init PROVE Inv
  OBVIOUS
<1>1. TypeOK
  <2>1. /\ mode \in {"spawn", "attach"} /\ hasStore \in BOOLEAN
        /\ early \in SUBSET Tools /\ tools \in SUBSET Tools
    BY ToolAssumption DEF Init
  <2>2. reg \in [Tools -> {"no", "inserted", "repointing", "returned", "failed"}]
    BY DEF Init
  <2> QED BY <2>1, <2>2 DEF Init, TypeOK
<1>2. TargetListens /\ FlagListens /\ OnlyConnectedServersStop /\ TargetOutlivesOnlyAttached
  BY DEF Init, TargetListens, FlagListens, OnlyConnectedServersStop, TargetOutlivesOnlyAttached
<1>3. RegisteredTools /\ RegistryKeeps /\ RepointNeedsServer
  BY <1>1 DEF Init, TypeOK, RegisteredTools, RegistryKeeps, RepointNeedsServer
<1>4. DeclaredFromRegistry
  BY DEF Init, DeclaredFromRegistry
<1> QED BY <1>1, <1>2, <1>3, <1>4 DEF Inv

\* The steps of `connect` and the drop of the client.
LEMMA ConnectStep ==
  ASSUME Inv, ConnectStart \/ ServerStarted \/ Connected \/ ConnectFails \/ DropClient
  PROVE  Inv'
<1> USE DEF Inv, clientVars, agentVars
<1>1. TypeOK'
  BY DEF TypeOK, ConnectStart, ServerStarted, Connected, ConnectFails, DropClient
<1>2. /\ TargetListens' /\ FlagListens' /\ OnlyConnectedServersStop'
      /\ TargetOutlivesOnlyAttached'
  BY DEF TypeOK, TargetListens, FlagListens, OnlyConnectedServersStop, TargetOutlivesOnlyAttached,
    ConnectStart, ServerStarted, Connected, ConnectFails, DropClient
<1>3. RegisteredTools' /\ RegistryKeeps' /\ DeclaredFromRegistry'
  BY DEF RegisteredTools, RegistryKeeps, DeclaredFromRegistry,
    ConnectStart, ServerStarted, Connected, ConnectFails, DropClient
<1>4. RepointNeedsServer'
  BY DEF RepointNeedsServer, ConnectStart, ServerStarted, Connected, ConnectFails, DropClient
<1> QED BY <1>1, <1>2, <1>3, <1>4

\* The steps of a registration and a removal.
LEMMA RegistryStep ==
  ASSUME Inv, NEW t \in Tools,
         RegisterInsert(t) \/ RegisterLook(t) \/ Repointed(t) \/ RepointFails(t) \/ Unregister(t)
  PROVE  Inv'
<1> USE DEF Inv, clientVars, agentVars
<1>1. TypeOK'
  <2>1. CASE RegisterInsert(t)
    BY <2>1 DEF TypeOK, RegisterInsert
  <2>2. CASE RegisterLook(t)
    BY <2>2 DEF TypeOK, RegisterLook
  <2>3. CASE Repointed(t)
    BY <2>3 DEF TypeOK, Repointed
  <2>4. CASE RepointFails(t)
    BY <2>4 DEF TypeOK, RepointFails
  <2>5. CASE Unregister(t)
    BY <2>5 DEF TypeOK, Unregister
  <2> QED BY <2>1, <2>2, <2>3, <2>4, <2>5
<1>2. /\ TargetListens' /\ FlagListens' /\ OnlyConnectedServersStop'
      /\ TargetOutlivesOnlyAttached'
  BY DEF TargetListens, FlagListens, OnlyConnectedServersStop, TargetOutlivesOnlyAttached,
    RepointNeedsServer, RegisterInsert, RegisterLook, Repointed, RepointFails, Unregister
<1>3. \A s \in Tools : reg[s] # "no" => reg'[s] # "no"
  BY DEF TypeOK, RegisterInsert, RegisterLook, Repointed, RepointFails, Unregister
<1>5. RegisteredTools' /\ RegistryKeeps'
  <2>1. CASE RegisterInsert(t)
    BY <2>1, <1>3 DEF TypeOK, RegisteredTools, RegistryKeeps, RegisterInsert
  <2>2. CASE RegisterLook(t) \/ Repointed(t) \/ RepointFails(t)
    BY <2>2, <1>3 DEF TypeOK, RegisteredTools, RegistryKeeps, RegisterLook, Repointed, RepointFails
  <2>3. CASE Unregister(t)
    BY <2>3 DEF TypeOK, RegisteredTools, RegistryKeeps, Unregister
  <2> QED BY <2>1, <2>2, <2>3
<1>6. DeclaredFromRegistry'
  <2>1. UNCHANGED <<own, declared>>
    BY DEF RegisterInsert, RegisterLook, Repointed, RepointFails, Unregister
  <2> QED BY <2>1, <1>3 DEF TypeOK, DeclaredFromRegistry
<1>4. RepointNeedsServer'
  BY DEF TypeOK, RepointNeedsServer, RegisterInsert, RegisterLook, Repointed, RepointFails, Unregister
<1> QED BY <1>1, <1>2, <1>4, <1>5, <1>6

\* The steps of an agent, its turns included.
LEMMA AgentStep ==
  ASSUME Inv, NEW a \in Agents,
         PrepareOptions(a) \/ CreateAgent(a) \/ \E t \in Tools : ModelCalls(a, t)
  PROVE  Inv'
<1> USE DEF Inv, clientVars, agentVars
<1>1. TypeOK'
  BY DEF TypeOK, PrepareOptions, CreateAgent, ModelCalls, RunTool, CannotReach
<1>2. /\ TargetListens' /\ FlagListens' /\ OnlyConnectedServersStop'
      /\ TargetOutlivesOnlyAttached' /\ RepointNeedsServer'
  BY DEF TargetListens, FlagListens, OnlyConnectedServersStop, TargetOutlivesOnlyAttached,
    RepointNeedsServer, PrepareOptions, CreateAgent, ModelCalls, RunTool, CannotReach
<1>3. RegisteredTools' /\ RegistryKeeps'
  BY DEF RegisteredTools, RegistryKeeps, PrepareOptions, CreateAgent, ModelCalls, RunTool, CannotReach
<1>4. DeclaredFromRegistry'
  <2>1. CASE PrepareOptions(a)
    <3> PICK mine \in SUBSET Tools : /\ own' = [own EXCEPT ![a] = mine]
                                    /\ declared' = [declared EXCEPT ![a] = mine \cup tools]
      BY <2>1 DEF PrepareOptions
    <3>1. reg' = reg
      BY <2>1 DEF PrepareOptions
    <3> QED BY <3>1 DEF TypeOK, RegisteredTools, DeclaredFromRegistry
  <2>2. CASE CreateAgent(a)
    BY <2>2 DEF CreateAgent, DeclaredFromRegistry
  <2>3. ASSUME NEW t \in Tools, ModelCalls(a, t)
        PROVE  DeclaredFromRegistry'
    BY <2>3 DEF TypeOK, DeclaredFromRegistry, ModelCalls, RunTool, CannotReach
  <2> QED BY <2>1, <2>2, <2>3
<1> QED BY <1>1, <1>2, <1>3, <1>4

LEMMA StepInv == Inv /\ [Next]_vars => Inv'
<1> SUFFICES ASSUME Inv, [Next]_vars PROVE Inv'
  OBVIOUS
<1>1. CASE Next
  BY <1>1, ConnectStep, RegistryStep, AgentStep DEF Next
<1>2. CASE UNCHANGED vars
  BY <1>2 DEF vars, Inv, TypeOK, TargetListens, FlagListens, OnlyConnectedServersStop,
    TargetOutlivesOnlyAttached, RegisteredTools, RegistryKeeps, DeclaredFromRegistry, RepointNeedsServer
<1> QED BY <1>1, <1>2

\* The invariant holds in every reachable state.
THEOREM Invariance == Spec => []Inv
<1>1. Init => Inv
  BY InitInv
<1>2. Inv /\ [Next]_vars => Inv'
  BY StepInv
<1> QED BY <1>1, <1>2, PTL DEF Spec
------------------------------------------------------------------------------
\* Only removed tools, and tools an agent declared itself and nobody ever registered,
\* are answered as unknown (merge_tools and ToolRegistry::call read one registry).
THEOREM DeclaredAreKnown == Spec => DeclaredToolsAreKnown
<1>1. ASSUME Inv, [Next]_vars, NEW a \in Agents, NEW t \in unknown'[a] \ unknown[a]
      PROVE  t \in removed \/ (t \in own[a] /\ reg[t] = "no")
  <2>1. CASE UNCHANGED unknown
    BY <2>1, <1>1
  <2>2. ASSUME NEW b \in Agents, NEW s \in Tools, ModelCalls(b, s)
        PROVE  t \in removed \/ (t \in own[a] /\ reg[t] = "no")
    <3>1. s = t /\ b = a /\ t \notin tools
      BY <1>1, <2>2 DEF ModelCalls, RunTool, CannotReach, Inv, TypeOK
    <3>2. t \in Tools /\ t \in declared[a]
      BY <3>1, <2>2 DEF ModelCalls
    <3>3. t \in own[a] \/ reg[t] # "no"
      BY <1>1, <3>2 DEF Inv, DeclaredFromRegistry
    <3>4. reg[t] # "no" => t \in removed
      BY <1>1, <3>1, <3>2 DEF Inv, RegistryKeeps
    <3> QED BY <3>3, <3>4
  <2>3. CASE ConnectStart \/ ServerStarted \/ Connected \/ ConnectFails \/ DropClient
    BY <2>1, <2>3 DEF ConnectStart, ServerStarted, Connected, ConnectFails, DropClient, agentVars
  <2>4. CASE \E s \in Tools : \/ RegisterInsert(s) \/ RegisterLook(s) \/ Repointed(s)
                              \/ RepointFails(s) \/ Unregister(s)
    BY <2>1, <2>4 DEF RegisterInsert, RegisterLook, Repointed, RepointFails, Unregister, agentVars
  <2>5. CASE \E b \in Agents : PrepareOptions(b) \/ CreateAgent(b)
    BY <2>1, <2>5 DEF PrepareOptions, CreateAgent
  <2>6. CASE UNCHANGED vars
    BY <2>1, <2>6 DEF vars
  <2> QED BY <1>1, <2>2, <2>3, <2>4, <2>5, <2>6 DEF Next
<1>2. Inv /\ [Next]_vars =>
        [\A a \in Agents : \A t \in unknown'[a] \ unknown[a] :
           t \in removed \/ (t \in own[a] /\ reg[t] = "no")]_vars
  BY <1>1
<1> QED BY <1>2, Invariance, PTL DEF Spec, DeclaredToolsAreKnown
------------------------------------------------------------------------------
\* `connect` always finds a tool that was there before the first call and stays.
Early ==
  mode = "spawn" /\ early \ removed # {} =>
    /\ early \ removed \subseteq tools
    /\ conn = "launching" => toolFlag
    /\ conn = "up" => target

LEMMA EarlyStep == Inv /\ Early /\ [Next]_vars => Early'
<1> SUFFICES ASSUME Inv, Early, [Next]_vars PROVE Early'
  OBVIOUS
<1> USE DEF Early, clientVars, agentVars
<1>1. CASE ConnectStart \/ ServerStarted \/ Connected \/ ConnectFails \/ DropClient
  BY <1>1 DEF ConnectStart, ServerStarted, Connected, ConnectFails, DropClient
<1>2. ASSUME NEW t \in Tools,
             RegisterInsert(t) \/ RegisterLook(t) \/ Repointed(t) \/ RepointFails(t)
      PROVE  Early'
  BY <1>2 DEF RegisterInsert, RegisterLook, Repointed, RepointFails
<1>5. ASSUME NEW t \in Tools, Unregister(t) PROVE Early'
  <2>1. UNCHANGED <<mode, early, conn, toolFlag, target>>
    BY <1>5 DEF Unregister
  <2>2. tools' = tools \ {t} /\ removed' = removed \cup {t}
    BY <1>5 DEF Unregister
  <2>3. early' \ removed' \subseteq early \ removed /\ t \notin early' \ removed'
    BY <2>1, <2>2
  <2> QED BY <2>1, <2>2, <2>3
<1>3. CASE \E a \in Agents : PrepareOptions(a) \/ CreateAgent(a) \/ \E t \in Tools : ModelCalls(a, t)
  BY <1>3 DEF PrepareOptions, CreateAgent, ModelCalls, RunTool, CannotReach
<1>4. CASE UNCHANGED vars
  BY <1>4 DEF vars
<1> QED BY <1>1, <1>2, <1>3, <1>4, <1>5 DEF Next

\* A launched bridge can call the tools of a program that registered one before its
\* first call (the callback server and its launch flag in Client::connect).
THEOREM EarlyToolsAreReachable == Spec => []EarlyToolIsReachable
<1>1. Init => Early
  BY DEF Init, Early
<1>2. Inv /\ Early => EarlyToolIsReachable
  BY DEF Inv, Early, TargetListens, EarlyToolIsReachable
<1> QED BY <1>1, <1>2, EarlyStep, Invariance, PTL DEF Spec
==============================================================================
