------------------------------ MODULE Requests ------------------------------
(***************************************************************************)
(* From the calls a program makes on the builders to what the bridge is    *)
(* launched with and what a request carries: ClientBuilder, the filters,   *)
(* connect and prepare_agent_options (src/src/client.rs), the builders of  *)
(* src/src/options.rs and BridgeOptions (src/src/bridge.rs).               *)
(*                                                                         *)
(* A draft is one value of a builder.  Its slots are pairs: a field and    *)
(* "", or a map and the name of an entry.  A slot is unset, or holds the   *)
(* empty value of its type ("", false, no item, the default of an enum; of *)
(* a tool, a schema that is no JSON object) or another one.  On the wire   *)
(* most fields of proto3 cannot tell unset from empty; those the contract  *)
(* wraps or calls optional can, and so can its enums.                      *)
(***************************************************************************)
EXTENDS Naturals, Sequences

CONSTANTS
  Names,        \* keys of maps: tools, servers, variables
  Used,         \* the fields whose methods the program calls
  Durations,    \* of shutdown_grace and shutdown_timeout, in half seconds
  MaxSettings,  \* bound: calls on the ClientBuilder
  MaxCalls      \* bound: calls on one draft

ASSUME RequestsAssumption == "" \notin Names /\ Durations \subseteq Nat

VARIABLES
  client,    \* the ClientBuilder, and once it is built the Client
  settings,  \* calls on it so far
  built,
  registry,  \* ToolRegistry: the schema of each tool
  launched,  \* what the bridge was launched with
  request,   \* in preparation, or answered: see below
  agentCwd   \* Agent.cwd of the agent that was created last

requestVars == <<client, settings, built, registry, launched, request, agentCwd>>

kind == request.kind        \* which request it is
draft == request.draft      \* its builder
calls == request.calls      \* history: the calls on that builder, in order
outcome == request.outcome  \* what became of it
wire == request.wire        \* the slots it was sent with
------------------------------------------------------------------------------
(* The fields of the builders. *)

Bools == {"work_on_current_branch", "auto_create_pr", "skip_reviewer_request",
          "open_as_cursor_github_app"}
AgentFields == {"model", "api_key", "name", "agent_id", "mode", "tools", "disallowed_tools"}
AgentMaps == {"mcp_servers", "sub_agents"}
LocalFields == {"cwd", "dirs", "setting_sources", "sandbox", "store", "auto_review"}
CloudFields == {"env", "repos"} \cup Bools
SendFields == {"model", "force", "enable_deltas", "enable_steps", "mode"}
PromptFields == {"text", "image"}
ListAgentsFields == {"limit", "cursor", "runtime", "in_cwd", "pr_url", "include_archived",
                     "api_key"}

\* "operation": archive, unarchive and delete; the close and the reload of an agent carry
\* no options, and get_agent no directory.
Slots(fields, maps) == (fields \X {""}) \cup (maps \X Names)
RuntimeSlots ==
  [none |-> {}, local |-> Slots(LocalFields, {"custom_tools"}),
   cloud |-> Slots(CloudFields, {"env_vars", "metadata"})]
SlotsOf ==
  [agent     |-> Slots(AgentFields, AgentMaps),
   send      |-> Slots(SendFields \cup PromptFields, {"mcp_servers", "cloud_env_vars"}),
   agents    |-> Slots(ListAgentsFields, {}),
   runs      |-> Slots({"limit", "cursor", "runtime"}, {}),
   messages  |-> Slots({"limit", "offset", "runtime"}, {}),
   operation |-> {},
   catalog   |-> {}]

\* The fields whose absence the wire can tell from their empty value.
\* mutant: the names of `tools` without their ToolList
Optional_BareTools ==
  {"model", "mode", "cwd", "sandbox", "store", "auto_review", "env", "force",
   "image", "include_archived"} \cup Bools
Optional ==
  {"model", "mode", "tools", "cwd", "sandbox", "store", "auto_review", "env", "force",
   "image", "include_archived"} \cup Bools

ValuesOf(field) ==
  CASE field = "store" -> {"sqlite", "custom"}
    [] field = "image" -> {"plain", "sized"}
    [] OTHER           -> {"empty", "full"}

Unset(slots) == [s \in slots |-> "unset"]
Fresh(k, slots) ==
  [kind |-> k, draft |-> Unset(slots), calls |-> <<>>, outcome |-> "none", wire |-> Unset({})]
NoBridge == [is |-> "none", store |-> "unset", storeServer |-> FALSE]

\* ClientBuilder::default: the key of the environment, if it is not empty.
RequestsInit ==
  /\ client \in [store : {FALSE}, local_store : {"unset"}, attach : {FALSE},
                 api_key : {"unset", "full"}, grace : {0}, timeout : {10}]
  /\ settings = 0 /\ built = FALSE
  /\ registry = [n \in Names |-> "unset"] /\ launched = NoBridge
  /\ request = Fresh("none", {}) /\ agentCwd = "unset"
------------------------------------------------------------------------------
(* The client's builder.  Its other methods set one field that nothing here looks at. *)

Setting(next) ==
  /\ ~built /\ settings < MaxSettings /\ settings' = settings + 1
  /\ client' = next
  /\ UNCHANGED <<built, registry, launched, request, agentCwd>>

\* agent_store implies LocalStore::Custom, until local_store says otherwise.
SetAgentStore == Setting([client EXCEPT !.store = TRUE, !.local_store = "custom"])
SetLocalStore == \E s \in {"sqlite", "custom"} : Setting([client EXCEPT !.local_store = s])
SetEndpoint == Setting([client EXCEPT !.attach = TRUE])
SetApiKey == \E v \in {"empty", "full"} : Setting([client EXCEPT !.api_key = v])
SetGrace == \E d \in Durations : Setting([client EXCEPT !.grace = d])
SetTimeout == \E d \in Durations : Setting([client EXCEPT !.timeout = d])

Build ==
  /\ ~built /\ built' = TRUE
  /\ UNCHANGED <<client, settings, registry, launched, request, agentCwd>>

Registry(next) ==
  /\ registry' = next
  /\ UNCHANGED <<client, settings, built, launched, request, agentCwd>>

\* Before or after build, over one of that name; the schema may be no JSON object, which
\* nobody checks yet.
RegisterTool == \E n \in Names, v \in {"empty", "full"} :
  Registry([registry EXCEPT ![n] = v])
UnregisterTool == \E n \in Names : Registry([registry EXCEPT ![n] = "unset"])

\* ClientBuilder::tool_registry: what was registered so far stays with the other one.
ShareRegistry == ~built /\ \E shared \in [Names -> {"unset", "empty", "full"}] : Registry(shared)
------------------------------------------------------------------------------
(* The builders of requests. *)

StartDraft(k) ==
  /\ built /\ (kind = "none" \/ outcome # "none")
  /\ request' = Fresh(k, SlotsOf[k])
  /\ UNCHANGED <<client, settings, built, registry, launched, agentCwd>>

\* Client::agent: a handle on an agent that exists, whose directory nobody knows.
UseHandle ==
  /\ built /\ (kind = "none" \/ outcome # "none")
  /\ agentCwd # "unset" /\ agentCwd' = "unset"
  /\ UNCHANGED <<client, settings, built, registry, launched, request>>

Drafting == kind # "none" /\ outcome = "none" /\ Len(calls) < MaxCalls
Called(next, s, v) ==
  /\ request' = [request EXCEPT !.draft = next,
                               !.calls = Append(calls, [slot |-> s, value |-> v])]
  /\ UNCHANGED <<client, settings, built, registry, launched, agentCwd>>

\* local_options, cloud_options: the runtime there was, and all that was set on it, is gone.
SetRuntime(r) ==
  /\ Drafting /\ kind = "agent"
  /\ Called([s \in SlotsOf.agent \cup RuntimeSlots[r] |->
               IF s \in SlotsOf.agent THEN draft[s] ELSE "unset"], <<"runtime", r>>, "full")

\* Any other method: the field is overwritten, the entry inserted.  LocalAgent::new(cwd)
\* and CloudAgent::new(repository) are a fresh runtime and one such call; of the images
\* of a prompt the slot is the last.
SetSlot(s, v) ==
  /\ Drafting
  /\ s \in DOMAIN draft /\ s[1] \in Used
  /\ Called([draft EXCEPT ![s] = v], s, v)
------------------------------------------------------------------------------
(* The request. *)

Runtime == CHOOSE r \in DOMAIN RuntimeSlots : DOMAIN draft = SlotsOf.agent \cup RuntimeSlots[r]

Value(s) == IF s \in DOMAIN draft THEN draft[s] ELSE "unset"
Key == IF Value(<<"api_key", "">>) = "unset" THEN client.api_key ELSE Value(<<"api_key", "">>)
Empty(v) == v \in {"unset", "empty"}

\* merge_tools: an agent-level declaration wins over the client-wide one.
Merged == [s \in DOMAIN draft |->
  IF s[1] = "custom_tools" /\ draft[s] = "unset" THEN registry[s[2]] ELSE draft[s]]

BadSchema == \E s \in DOMAIN draft : s[1] = "custom_tools" /\ Merged[s] = "empty"

\* mutant: a custom store needs no store of the client
AgentRefusal_AnyStore ==
  IF Empty(Key) THEN "key"
  ELSE IF Runtime = "local" /\ draft[<<"model", "">>] = "unset" THEN "model"
  ELSE IF Runtime = "none" THEN "runtime"
  ELSE IF BadSchema THEN "schema" ELSE "none"

\* prepare_agent_options and AgentOptions::finish, up to their first error.
AgentRefusal ==
  IF Value(<<"store", "">>) = "custom" /\ ~client.store THEN "store"
  ELSE IF Empty(Key) THEN "key"
  ELSE IF Runtime = "local" /\ draft[<<"model", "">>] = "unset" THEN "model"
  ELSE IF Runtime = "none" THEN "runtime"
  ELSE IF BadSchema THEN "schema" ELSE "none"

\* connect, when there is no bridge yet: attached clients serve no store; else validate.
LaunchRefusal ==
  IF client.attach THEN IF client.store THEN "attach" ELSE "none"
  ELSE IF client.grace >= client.timeout /\ client.grace # 0 THEN "grace"
  ELSE IF client.local_store = "custom" /\ ~client.store THEN "store" ELSE "none"

\* The flags about the store.  One that is attached to is told nothing.
Launch ==
  IF client.attach THEN [NoBridge EXCEPT !.is = "attached"]
  ELSE [is |-> "ours", store |-> client.local_store, storeServer |-> client.store]

Connected == launched.is # "none"

\* finish, to_proto: what is absent and cannot be told from empty is empty; the key is the
\* client's if the request has none, the directory that of the agent's handle.
Encoded ==
  LET fields == [s \in DOMAIN draft |->
                   IF Merged[s] = "unset" /\ s[2] = "" /\ s[1] \notin Optional THEN "empty"
                   ELSE Merged[s]]
      key == IF Key = "unset" THEN "empty" ELSE Key
      cwd == IF agentCwd = "unset" THEN "empty" ELSE agentCwd
  IN [s \in DOMAIN draft \cup
            (IF kind = "send" THEN {} ELSE {<<"api_key", "">>}) \cup
            (IF kind \in {"runs", "messages", "operation"} THEN {<<"in_cwd", "">>} ELSE {}) |->
        IF s = <<"api_key", "">> THEN key
        ELSE IF s = <<"in_cwd", "">> /\ kind # "agents" THEN cwd
        ELSE fields[s]]

Refusal ==
  IF kind = "agent" THEN AgentRefusal
  ELSE IF kind = "catalog" /\ Empty(client.api_key) THEN "key" ELSE "none"

\* The request is encoded; then the client connects, unless it has; then it is sent.
Ask ==
  LET cause == IF Refusal # "none" THEN Refusal
               ELSE IF ~Connected THEN LaunchRefusal ELSE "none"
  IN /\ kind # "none" /\ outcome = "none"
     /\ IF cause # "none"
        THEN request' = [request EXCEPT !.outcome = cause] /\ UNCHANGED <<launched, agentCwd>>
        ELSE /\ request' = [request EXCEPT !.outcome = "sent", !.wire = Encoded]
             /\ launched' = IF Connected THEN launched ELSE Launch
             /\ agentCwd' = IF kind = "agent" THEN Value(<<"cwd", "">>) ELSE agentCwd
     /\ UNCHANGED <<client, settings, built, registry>>

RequestsNext ==
  \/ SetAgentStore \/ SetLocalStore \/ SetEndpoint \/ SetApiKey \/ SetGrace \/ SetTimeout
  \/ Build \/ UseHandle \/ Ask
  \/ RegisterTool \/ UnregisterTool \/ ShareRegistry
  \/ \E k \in DOMAIN SlotsOf : StartDraft(k)
  \/ \E r \in {"local", "cloud"} : SetRuntime(r)
  \/ \E s \in DOMAIN draft : \E v \in ValuesOf(s[1]) : SetSlot(s, v)

RequestsSpec == RequestsInit /\ [][RequestsNext]_requestVars
------------------------------------------------------------------------------
(* What was asked, by the history of the calls. *)

OfRuntime(s) == kind = "agent" /\ s \notin SlotsOf.agent
Picks == {i \in DOMAIN calls : calls[i].slot[1] = "runtime" /\ kind = "agent"}
LastPick == IF Picks = {} THEN 0 ELSE CHOOSE i \in Picks : \A j \in Picks : j <= i
PickedRuntime == IF Picks = {} THEN "none" ELSE calls[LastPick].slot[2]
CallsOf(s) == {i \in DOMAIN calls : calls[i].slot = s /\ (OfRuntime(s) => i > LastPick)}
Asked(s) ==
  IF CallsOf(s) = {} THEN "unset"
  ELSE calls[CHOOSE i \in CallsOf(s) : \A j \in CallsOf(s) : j <= i].value
KeyAsked == IF Asked(<<"api_key", "">>) = "unset" THEN client.api_key ELSE Asked(<<"api_key", "">>)
ToolAsked(n) ==
  IF Asked(<<"custom_tools", n>>) = "unset" THEN registry[n] ELSE Asked(<<"custom_tools", n>>)

Faults ==
  {f \in {"key", "runtime", "model", "store", "schema", "attach", "grace"} :
    CASE f = "key"     -> kind \in {"agent", "catalog"} /\ Empty(KeyAsked)
      [] f = "runtime" -> kind = "agent" /\ PickedRuntime = "none"
      [] f = "model"   -> PickedRuntime = "local" /\ Asked(<<"model", "">>) = "unset"
      [] f = "store"   -> /\ ~client.store
                          /\ \/ Asked(<<"store", "">>) = "custom"
                             \/ ~Connected /\ ~client.attach /\ client.local_store = "custom"
      [] f = "schema"  -> PickedRuntime = "local" /\ \E n \in Names : ToolAsked(n) = "empty"
      [] f = "attach"  -> ~Connected /\ client.attach /\ client.store
      [] f = "grace"   -> /\ ~Connected /\ ~client.attach /\ client.grace # 0
                          /\ client.timeout <= client.grace}

Answered == outcome = "none" /\ outcome' # "none"

\* "Fill in the client's defaults, then check what the bridge would reject"
\* (options.rs:754): a request is refused only for a fault of the calls that made it or
\* the client, with nothing sent and no bridge launched; and a request without a fault is
\* sent, whatever was set, overwritten and dropped on the way.  A bridge that was given a
\* custom store of its own, or for the agent, was launched with the address of that store,
\* since it "can only be configured at launch" (bridge.rs:55).
RefusedForCause == [][Answered =>
  \/ /\ outcome' = "sent" /\ Faults = {}
     /\ "custom" \in {launched'.store, Value(<<"store", "">>)} =>
          launched'.is = "ours" /\ launched'.storeServer
  \/ outcome' \in Faults /\ wire' = wire /\ launched' = launched]_requestVars

\* The options "stay distinguishable the way the proto intends" (options.rs:6): each slot
\* carries the last thing said about it since its runtime was picked, else the key or the
\* tool of the client or the directory of the agent, else nothing or what the wire cannot
\* tell from it; and nothing that was said is left out.
Kept == {"tools", "sandbox", "auto_review", "force", "mode", "model"} \cup Bools
CarriesWhatWasAsked == [][Answered /\ outcome' = "sent" =>
  /\ \A i \in DOMAIN calls : Asked(calls[i].slot) # "unset" =>
       i \in Picks \/ calls[i].slot \in DOMAIN wire'
  /\ \A s \in DOMAIN wire' :
       IF Asked(s) # "unset" THEN wire'[s] = Asked(s)
       ELSE IF s[1] = "api_key" /\ client.api_key # "unset" THEN wire'[s] = client.api_key
       ELSE IF s[1] = "custom_tools" THEN wire'[s] = registry[s[2]]
       ELSE IF s[1] = "in_cwd" /\ kind # "agents" /\ agentCwd # "unset" THEN wire'[s] = agentCwd
       ELSE wire'[s] \in IF s[1] \in Kept THEN {"unset"} ELSE {"unset", "empty"}]_requestVars

\* Why: a draft is the last calls on it.  It has the slots of its kind and of the runtime
\* picked last, each holds what the last call on it since then said, and the calls on
\* other slots do not count.  The client does not change once it is built, so the bridge
\* there is was launched by the flags the client would launch it with now.
Values == {"empty", "full", "sqlite", "custom", "plain", "sized"}
AnySlot == ({"runtime"} \X {"local", "cloud"})
  \cup (UNION {SlotsOf[k] : k \in DOMAIN SlotsOf})
  \cup (UNION {RuntimeSlots[r] : r \in DOMAIN RuntimeSlots})

RequestsTypeOK ==
  /\ client \in [store : BOOLEAN, local_store : {"unset", "sqlite", "custom"}, attach : BOOLEAN,
                  api_key : {"unset", "empty", "full"}, grace : Nat, timeout : Nat]
  /\ settings \in Nat /\ built \in BOOLEAN
  /\ registry \in [Names -> {"unset", "empty", "full"}]
  /\ DOMAIN request = {"kind", "draft", "calls", "outcome", "wire"}
  /\ kind \in DOMAIN SlotsOf \cup {"none"}
  /\ calls \in Seq([slot : AnySlot, value : Values])
  /\ agentCwd \in Values \cup {"unset"}

HasLast(places) == places = {} \/ \E i \in places : \A j \in places : j <= i

DraftIsLastCalls ==
  /\ HasLast(Picks) /\ \A i \in Picks : calls[i].slot[2] \in {"local", "cloud"}
  /\ DOMAIN draft = IF kind = "none" THEN {} ELSE IF kind = "agent"
                    THEN SlotsOf.agent \cup RuntimeSlots[PickedRuntime] ELSE SlotsOf[kind]
  /\ \A s \in DOMAIN draft : HasLast(CallsOf(s)) /\ draft[s] = Asked(s)
  /\ \A s \in AnySlot \ DOMAIN draft : CallsOf(s) = {}

LaunchedAsBuilt ==
  /\ kind # "none" \/ Connected => built
  /\ IF Connected THEN launched = Launch /\ LaunchRefusal = "none" ELSE launched = NoBridge

RequestsInv == RequestsTypeOK /\ DraftIsLastCalls /\ LaunchedAsBuilt
==============================================================================
