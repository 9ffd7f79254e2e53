---------------------------- MODULE ToolCallback ----------------------------
(***************************************************************************)
(* How a custom tool becomes callable: the registry (src/src/callback/     *)
(* tools.rs), the callback server (src/src/callback/server.rs), and the    *)
(* part of `connect`, `register_tool` and `prepare_agent_options` in       *)
(* src/src/client.rs that tells the bridge about them.                     *)
(*                                                                         *)
(* The bridge is external.  It calls a tool an agent declared at the       *)
(* endpoint it was given by a launch flag or by SetToolCallback, over a    *)
(* connection it keeps open.  A bridge the client attached to was running  *)
(* before it and goes on after it.                                         *)
(***************************************************************************)
EXTENDS Naturals, FiniteSets

CONSTANTS
  Tools,         \* names a program registers with this client
  InitialTools,  \* the sets of them it may register before any call is made
  Agents,        \* the agents it creates
  Modes,         \* subset of {"spawn", "attach"}
  Stores         \* subset of BOOLEAN: whether a custom agent store is configured

ASSUME ToolAssumption ==
  /\ InitialTools \subseteq SUBSET Tools
  /\ Modes \subseteq {"spawn", "attach"} /\ Stores \subseteq BOOLEAN

VARIABLES
  mode,      \* how the client gets its bridge
  hasStore,  \* Inner.store is Some
  early,     \* the tools registered before any call
  tools,     \* Inner.tools: the names registered
  removed,   \* history: the names ever unregistered
  conn,      \* Inner.connection, and where `connect` is
  toolFlag,  \* local of `connect`: options.tool_callback is Some
  server,    \* the CallbackServer of the connection (or of the attempt)
  target,    \* the bridge calls tools at this client's server
  link,      \* the bridge has a connection to it open
  reg,       \* register_tool, one call per tool
  agent,     \* create_agent, one call per agent
  own,       \* the tools that the options of each agent declare themselves
  declared,  \* the tools each agent was created with
  unknown    \* of each agent, the tools whose last call the server did not know

vars == <<mode, hasStore, early, tools, removed, conn, toolFlag, server, target, link,
          reg, agent, own, declared, unknown>>
clientVars == <<mode, hasStore, early, removed>>
agentVars == <<agent, own, declared, unknown>>

TypeOK ==
  /\ mode \in {"spawn", "attach"} /\ hasStore \in BOOLEAN
  /\ early \in SUBSET Tools /\ tools \in SUBSET Tools /\ removed \in SUBSET Tools
  /\ conn \in {"none", "binding", "launching", "up", "dropped"}
  /\ toolFlag \in BOOLEAN
  /\ server \in {"none", "up", "stopped"}
  /\ target \in BOOLEAN /\ link \in BOOLEAN
  /\ reg \in [Tools -> {"no", "inserted", "repointing", "returned", "failed"}]
  /\ agent \in [Agents -> {"no", "prepared", "live"}]
  /\ own \in [Agents -> SUBSET Tools] /\ declared \in [Agents -> SUBSET Tools]
  /\ unknown \in [Agents -> SUBSET Tools]

Init ==
  /\ mode \in Modes /\ hasStore \in Stores
  /\ early \in InitialTools /\ tools = early /\ removed = {}
  /\ conn = "none" /\ toolFlag = FALSE /\ server = "none"
  /\ target = FALSE /\ link = FALSE
  /\ reg = [t \in Tools |-> IF t \in early THEN "returned" ELSE "no"]
  /\ agent = [a \in Agents |-> "no"]
  /\ own = [a \in Agents |-> {}] /\ declared = [a \in Agents |-> {}]
  /\ unknown = [a \in Agents |-> {}]
------------------------------------------------------------------------------
(* connect, run by the first call that needs the bridge. *)

\* A callback server is started when there is a store or a tool at that moment.
ConnectStart ==
  /\ conn = "none"
  /\ toolFlag' = FALSE
  /\ \/ (hasStore \/ tools # {}) /\ conn' = "binding"
     \/ ~hasStore /\ tools = {} /\ conn' = "launching"
  /\ UNCHANGED <<clientVars, tools, server, target, link, reg, agentVars>>

\* mutant: the bridge is told of the store's server or of the tools', not of both
ServerStarted_StoreOnly ==
  /\ conn = "binding"
  /\ server' = "up"
  /\ toolFlag' = (tools # {} /\ ~hasStore)
  /\ conn' = "launching"
  /\ UNCHANGED <<clientVars, tools, target, link, reg, agentVars>>

\* It listens; whether the bridge is told of it for tools is decided only now.
ServerStarted ==
  /\ conn = "binding"
  /\ server' = "up"
  /\ toolFlag' = (tools # {})
  /\ conn' = "launching"
  /\ UNCHANGED <<clientVars, tools, target, link, reg, agentVars>>

\* mutant: the server is not kept with the connection
Connected_DropsServer ==
  /\ conn = "launching"
  /\ conn' = "up"
  /\ server' = "stopped"
  /\ \/ mode = "spawn" /\ target' = toolFlag
     \/ mode = "attach" /\ ~hasStore /\ UNCHANGED target
  /\ UNCHANGED <<clientVars, tools, toolFlag, link, reg, agentVars>>

\* A bridge that is launched is given the flags; one that is attached to is not,
\* and refuses to combine with a store.
Connected ==
  /\ conn = "launching"
  /\ conn' = "up"
  /\ \/ mode = "spawn" /\ target' = toolFlag
     \/ mode = "attach" /\ ~hasStore /\ UNCHANGED target
  /\ UNCHANGED <<clientVars, tools, toolFlag, server, link, reg, agentVars>>

\* The launch, the attach or the verification failed: the server goes with it.
ConnectFails ==
  /\ conn \in {"binding", "launching"}
  /\ conn' = "none"
  /\ server' = "none"
  /\ UNCHANGED <<clientVars, tools, toolFlag, target, link, reg, agentVars>>

\* The last clone of the client is dropped, and the server with it: its accept
\* loop ends.  A managed bridge is killed; an attached one keeps what it knows.
DropClient ==
  /\ conn = "up"
  /\ \A t \in Tools : reg[t] \notin {"inserted", "repointing"}
  /\ \A a \in Agents : agent[a] # "prepared"
  /\ conn' = "dropped"
  /\ \/ server = "up" /\ server' = "stopped"
     \/ server # "up" /\ UNCHANGED server
  /\ \/ mode = "spawn" /\ target' = FALSE /\ link' = FALSE
     \/ mode = "attach" /\ UNCHANGED <<target, link>>
  /\ UNCHANGED <<clientVars, tools, toolFlag, reg, agentVars>>
------------------------------------------------------------------------------
(* The registry, and Client::register_tool. *)

RegisterInsert(t) ==
  /\ reg[t] \notin {"inserted", "repointing"}
  /\ conn # "dropped"
  /\ tools' = tools \cup {t}
  /\ reg' = [reg EXCEPT ![t] = "inserted"]
  /\ UNCHANGED <<clientVars, conn, toolFlag, server, target, link, agentVars>>

\* A connection that has a callback server is used to repeat its address to the
\* bridge; without either the call is over.
RegisterLook(t) ==
  /\ reg[t] = "inserted"
  /\ \/ conn = "up" /\ server = "up" /\ reg' = [reg EXCEPT ![t] = "repointing"]
     \/ ~(conn = "up" /\ server = "up") /\ reg' = [reg EXCEPT ![t] = "returned"]
  /\ UNCHANGED <<clientVars, tools, conn, toolFlag, server, target, link, agentVars>>

Repointed(t) ==
  /\ reg[t] = "repointing"
  /\ target' = TRUE
  /\ reg' = [reg EXCEPT ![t] = "returned"]
  /\ UNCHANGED <<clientVars, tools, conn, toolFlag, server, link, agentVars>>

\* SetToolCallback failed; the tool stays in the registry.
RepointFails(t) ==
  /\ reg[t] = "repointing"
  /\ reg' = [reg EXCEPT ![t] = "failed"]
  /\ UNCHANGED <<clientVars, tools, conn, toolFlag, server, target, link, agentVars>>

Unregister(t) ==
  /\ t \in tools
  /\ conn # "dropped"
  /\ tools' = tools \ {t}
  /\ removed' = removed \cup {t}
  /\ UNCHANGED <<mode, hasStore, early, conn, toolFlag, server, target, link, reg, agentVars>>
------------------------------------------------------------------------------
(* Agents and their turns. *)

\* create_agent adds the registry to what the agent's options declare themselves
\* (custom_tool, for "one whose handler is registered separately"), before it has,
\* or waits for, a connection ...
PrepareOptions(a) ==
  /\ agent[a] = "no"
  /\ conn # "dropped"
  /\ agent' = [agent EXCEPT ![a] = "prepared"]
  /\ \E mine \in SUBSET Tools :
       /\ own' = [own EXCEPT ![a] = mine]
       /\ declared' = [declared EXCEPT ![a] = mine \cup tools]
  /\ UNCHANGED <<clientVars, tools, conn, toolFlag, server, target, link, reg, unknown>>

\* ... and sends the declarations over it.
CreateAgent(a) ==
  /\ agent[a] = "prepared"
  /\ conn = "up"
  /\ agent' = [agent EXCEPT ![a] = "live"]
  /\ UNCHANGED <<clientVars, tools, conn, toolFlag, server, target, link, reg, own, declared, unknown>>

\* The bridge can reach the server: the accept loop takes a new connection, and
\* the task of one that is open goes on serving it after the loop has ended.
Reachable == target /\ (link \/ server = "up")

\* mutant: the server answers from the tools there were when it was started
RunTool_Snapshot(a, t) ==
  /\ Reachable
  /\ link' \in BOOLEAN
  /\ \/ t \in early /\ unknown' = [unknown EXCEPT ![a] = @ \ {t}]
     \/ t \notin early /\ unknown' = [unknown EXCEPT ![a] = @ \cup {t}]
  /\ UNCHANGED <<clientVars, tools, conn, toolFlag, server, target, reg, agent, own, declared>>

\* serve, handle_tool and ToolRegistry::call: the handler is looked up when the
\* call arrives.  The bridge may keep the connection open.
RunTool(a, t) ==
  /\ Reachable
  /\ link' \in BOOLEAN
  /\ \/ t \in tools /\ unknown' = [unknown EXCEPT ![a] = @ \ {t}]
     \/ t \notin tools /\ unknown' = [unknown EXCEPT ![a] = @ \cup {t}]
  /\ UNCHANGED <<clientVars, tools, conn, toolFlag, server, target, reg, agent, own, declared>>

CannotReach(a, t) ==
  /\ ~Reachable
  /\ unknown' = [unknown EXCEPT ![a] = @ \ {t}]
  /\ UNCHANGED <<clientVars, tools, conn, toolFlag, server, target, link, reg, agent, own, declared>>

\* The model calls a tool its agent declared, while there is a bridge.
ModelCalls(a, t) ==
  /\ agent[a] = "live"
  /\ t \in declared[a]
  /\ conn = "up" \/ mode = "attach"
  /\ RunTool(a, t) \/ CannotReach(a, t)
------------------------------------------------------------------------------
Next ==
  \/ ConnectStart \/ ServerStarted \/ Connected \/ ConnectFails \/ DropClient
  \/ \E t \in Tools :
       \/ RegisterInsert(t) \/ RegisterLook(t) \/ Repointed(t) \/ RepointFails(t)
       \/ Unregister(t)
  \/ \E a \in Agents :
       \/ PrepareOptions(a) \/ CreateAgent(a)
       \/ \E t \in Tools : ModelCalls(a, t)

Spec == Init /\ [][Next]_vars
------------------------------------------------------------------------------
(* Properties. *)

\* A tool that was registered before the first call, and is not removed, is enough
\* for the launched bridge to have the address of a server that listens: whatever
\* else is registered, removed or retried while `connect` is running or later.
EarlyToolIsReachable ==
  mode = "spawn" /\ early \ removed # {} /\ conn = "up" => target /\ server = "up"

\* A call is answered as of an unknown tool only if the program has removed the tool,
\* or if the agent's own options declared it and its handler was never registered.
\* What the registry gave an agent is known until it is removed, and what the agent
\* declared itself is known once it is registered, whenever that is: server, registry
\* and declarations never disagree otherwise (prepare_agent_options, merge_tools, the
\* registry shared by clones and server).
DeclaredToolsAreKnown ==
  [][\A a \in Agents : \A t \in unknown'[a] \ unknown[a] :
       t \in removed \/ (t \in own[a] /\ reg[t] = "no")]_vars

\* The endpoint the bridge holds of a client that still exists is one that listens:
\* the server is started before the launch and kept as long as the connection.
TargetListens == target /\ conn = "up" => server = "up"
FlagListens == toolFlag /\ conn = "launching" => server = "up"
OnlyConnectedServersStop == server = "stopped" => conn = "dropped"
TargetOutlivesOnlyAttached == target => conn \in {"up", "dropped"}
RegistryKeeps == \A t \in Tools : reg[t] # "no" => t \in tools \cup removed
DeclaredFromRegistry ==
  \A a \in Agents : \A t \in declared[a] : t \in own[a] \/ reg[t] # "no"
RegisteredTools == \A t \in tools : reg[t] # "no"
RepointNeedsServer == \A t \in Tools : reg[t] = "repointing" => conn = "up" /\ server = "up"

Inv ==
  /\ TypeOK
  /\ TargetListens /\ FlagListens /\ OnlyConnectedServersStop
  /\ TargetOutlivesOnlyAttached /\ RepointNeedsServer
  /\ RegisteredTools /\ RegistryKeeps /\ DeclaredFromRegistry
------------------------------------------------------------------------------
(* What the documentation says and the code does not do. *)

\* src/src/client.rs:537, of register_tool: "Registering after the bridge is running
\* re-points it at this client's callback server via `SetToolCallback`."  Once a
\* registration has returned Ok the bridge can call the tool.
RegisteredToolIsReachable ==
  conn = "up" /\ (\E t \in tools : reg[t] = "returned") => target /\ server = "up"
==============================================================================
