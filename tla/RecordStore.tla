---------------------------- MODULE RecordStore ----------------------------
(***************************************************************************)
(* The agents, runs and checkpoints substores of MemoryStore               *)
(* (src/src/callback/store.rs), and one listing that follows page cursors  *)
(* to the end, as Client::list_all_agents does through the bridge.         *)
(*                                                                         *)
(* Every request runs under the mutex of the store, so each is one step;   *)
(* what interleaves with a listing are the creates, updates and deletes    *)
(* between its pages.  Ids are numbers because pages are ordered by them;  *)
(* of a document only what the orders and the filters look at is kept.     *)
(***************************************************************************)
EXTENDS Naturals, FiniteSets, Listing

CONSTANTS
  AgentIds, RunIds, BlobIds, \* the string ids, in their order
  Cwds,         \* working directories of agents
  Turns,        \* turn numbers of runs
  Data,         \* checkpoint bytes
  AgentFilters, \* the agentIds a listing asks for; the empty filter is every agent
  MaxTime       \* bound of the clock behind updatedAt

ASSUME RecordAssumption ==
  /\ AgentIds \subseteq Nat /\ RunIds \subseteq Nat /\ BlobIds \subseteq Nat
  /\ Turns \subseteq Nat /\ Limits \subseteq Nat \ {0} /\ MaxTime \in Nat
  /\ AgentFilters \subseteq SUBSET AgentIds
  /\ None \notin Data \cup Cwds \cup Nat \cup (Nat \X Nat)

VARIABLES
  agents,      \* State.agents
  runs,        \* State.runs: the turn of each (agent, run)
  checkpoints, \* State.checkpoints: the bytes of each (agent, blob)
  clock,       \* the time the bridge writes into updatedAt
  listing,     \* the substore that is listed, "none" before the listing starts
  filter,      \* the filter of its requests
  cursor,      \* the cursor of its next request: the two fields it encodes
  complete,    \* its last page had no nextCursor
  listed,      \* history: how often each record was returned
  kept,        \* history: the records that matched the filter ever since it began
  updated      \* history: those that were updated since

vars == <<agents, runs, checkpoints, clock, listing, filter, cursor, complete, listed, kept, updated>>
listingVars == <<listing, filter, cursor, complete, listed>>

RunKeys == AgentIds \X RunIds
BlobKeys == AgentIds \X BlobIds
Docs == [updatedAt : Nat, cwd : Cwds]
NoDoc == [updatedAt |-> 0, cwd |-> None]
Filters == [agentIds : SUBSET AgentIds, runIds : SUBSET RunIds, cwd : Cwds \cup {None}]
NoFilter == [agentIds |-> {}, runIds |-> {}, cwd |-> None]

Init ==
  /\ agents = [a \in AgentIds |-> NoDoc]
  /\ runs = [k \in RunKeys |-> None]
  /\ checkpoints = [k \in BlobKeys |-> None]
  /\ clock = 0
  /\ listing = "none" /\ filter = NoFilter /\ cursor = None /\ complete = FALSE
  /\ listed = [k \in {} |-> 0] /\ kept = {} /\ updated = {}
------------------------------------------------------------------------------
(* Filters. *)

\* id_matches: an id filter that is absent or empty lets everything through.
Selected(ids, id) == ids = {} \/ id \in ids

InCwd(a, cwd) == agents[a] # NoDoc /\ (cwd = None \/ agents[a].cwd = cwd)

AgentsMatching == {a \in AgentIds : InCwd(a, filter.cwd)}
RunsMatching ==
  {k \in RunKeys : runs[k] # None /\ Selected(filter.agentIds, k[1]) /\ Selected(filter.runIds, k[2])}
\* Checkpoints list blob ids, each once however many agents have it.
BlobsMatching ==
  {b \in BlobIds : \E a \in AgentIds : checkpoints[<<a, b>>] # None /\ Selected(filter.agentIds, a)}

Matching ==
  CASE listing = "agents" -> AgentsMatching
    [] listing = "runs" -> RunsMatching
    [] listing = "checkpoints" -> BlobsMatching
    [] OTHER -> {}

Keep == kept' = kept \cap Matching'
Note(substore, k) ==
  \/ listing = substore /\ updated' = updated \cup {k}
  \/ listing # substore /\ UNCHANGED updated
------------------------------------------------------------------------------
(* Creates, updates and deletes.  A create of a record there is, an update of one *)
(* there is not, and a delete that matches no agent are refused; a delete that    *)
(* matches nothing else changes nothing.                                          *)

Tick ==
  /\ clock < MaxTime
  /\ clock' = clock + 1
  /\ UNCHANGED <<agents, runs, checkpoints, listingVars, kept, updated>>

CreateAgent(a, cwd) ==
  /\ agents[a] = NoDoc
  /\ agents' = [agents EXCEPT ![a] = [updatedAt |-> clock, cwd |-> cwd]]
  /\ UNCHANGED <<runs, checkpoints, clock, listingVars, updated>>
  /\ Keep

\* The document is replaced as a whole; its time never goes back.
UpdateAgent(a, cwd, time) ==
  /\ agents[a] # NoDoc
  /\ agents[a].updatedAt <= time /\ time <= clock
  /\ agents' = [agents EXCEPT ![a] = [updatedAt |-> time, cwd |-> cwd]]
  /\ Note("agents", a)
  /\ UNCHANGED <<runs, checkpoints, clock, listingVars>>
  /\ Keep

DeleteAgents(ids, cwd) ==
  LET doomed == {a \in AgentIds : Selected(ids, a) /\ InCwd(a, cwd)}
  IN /\ doomed # {}
     /\ agents' = [a \in AgentIds |-> IF a \in doomed THEN NoDoc ELSE agents[a]]
     /\ UNCHANGED <<runs, checkpoints, clock, listingVars, updated>>
     /\ Keep

CreateRun(k, turn) ==
  /\ runs[k] = None
  /\ runs' = [runs EXCEPT ![k] = turn]
  /\ UNCHANGED <<agents, checkpoints, clock, listingVars, updated>>
  /\ Keep

UpdateRun(k, turn) ==
  /\ runs[k] # None
  /\ runs' = [runs EXCEPT ![k] = turn]
  /\ Note("runs", k)
  /\ UNCHANGED <<agents, checkpoints, clock, listingVars>>
  /\ Keep

DeleteRuns(ids, runIds) ==
  LET doomed == {k \in RunKeys : Selected(ids, k[1]) /\ Selected(runIds, k[2])}
  IN /\ \E k \in doomed : runs[k] # None
     /\ runs' = [k \in RunKeys |-> IF k \in doomed THEN None ELSE runs[k]]
     /\ UNCHANGED <<agents, checkpoints, clock, listingVars, updated>>
     /\ Keep

CreateCheckpoint(k, data) ==
  /\ checkpoints[k] = None
  /\ checkpoints' = [checkpoints EXCEPT ![k] = data]
  /\ UNCHANGED <<agents, runs, clock, listingVars, updated>>
  /\ Keep

\* Nothing a listing of blob ids shows.
UpdateCheckpoint(k, data) ==
  /\ checkpoints[k] # None
  /\ checkpoints' = [checkpoints EXCEPT ![k] = data]
  /\ UNCHANGED <<agents, runs, clock, listingVars, updated>>
  /\ Keep

DeleteCheckpoints(ids, blobIds) ==
  LET doomed == {k \in BlobKeys : Selected(ids, k[1]) /\ Selected(blobIds, k[2])}
  IN /\ \E k \in doomed : checkpoints[k] # None
     /\ checkpoints' = [k \in BlobKeys |-> IF k \in doomed THEN None ELSE checkpoints[k]]
     /\ UNCHANGED <<agents, runs, clock, listingVars, updated>>
     /\ Keep
------------------------------------------------------------------------------
(* Pages. *)

StartListing(substore, request, domain) ==
  /\ listing = "none"
  /\ listing' = substore
  /\ filter' = request
  /\ listed' = [k \in domain |-> 0]
  /\ UNCHANGED <<agents, runs, checkpoints, clock, cursor, complete, updated>>
  /\ kept' = Matching'

StartAgents(cwd) ==
  StartListing("agents", [agentIds |-> {}, runIds |-> {}, cwd |-> cwd], AgentIds)
StartRuns(ids, runIds) ==
  StartListing("runs", [agentIds |-> ids, runIds |-> runIds, cwd |-> None], RunKeys)
StartCheckpoints(ids) ==
  StartListing("checkpoints", [agentIds |-> ids, runIds |-> {}, cwd |-> None], BlobIds)

Below(x, y) == x[1] < y[1] \/ (x[1] = y[1] /\ x[2] < y[2])

Return(records) ==
  listed' = [k \in DOMAIN listed |-> IF k \in records THEN listed[k] + 1 ELSE listed[k]]

\* page: everything that is left, when it fits the limit ...
LastPage(items, limit) ==
  /\ ~complete
  /\ Cardinality(items) <= limit
  /\ Return(items)
  /\ complete' = TRUE
  /\ UNCHANGED <<agents, runs, checkpoints, clock, listing, filter, cursor, kept, updated>>

\* mutant: a page that is exactly full has a cursor
CutPage_WhenFull(items, first, limit, key) ==
  /\ ~complete
  /\ Cardinality(items) >= limit /\ Cardinality(first) = limit
  /\ Return(first)
  /\ cursor' = key
  /\ UNCHANGED <<agents, runs, checkpoints, clock, listing, filter, complete, kept, updated>>

\* ... otherwise as many as the limit, and a cursor taken from the last of them.
CutPage(items, first, limit, key) ==
  /\ ~complete
  /\ Cardinality(items) > limit /\ Cardinality(first) = limit
  /\ Return(first)
  /\ cursor' = key
  /\ UNCHANGED <<agents, runs, checkpoints, clock, listing, filter, complete, kept, updated>>

AgentKey(a) == <<agents[a].updatedAt, a>>

\* mutant: the record of the cursor is returned again
AgentsLeft_Inclusive == {a \in AgentsMatching : cursor = None \/ ~Below(cursor, AgentKey(a))}

\* Agents, the newest first.
AgentsLeft == {a \in AgentsMatching : cursor = None \/ Below(AgentKey(a), cursor)}

ListAgents(limit) ==
  /\ listing = "agents"
  /\ \/ LastPage(AgentsLeft, limit)
     \/ \E last \in AgentsLeft :
          CutPage(AgentsLeft, {a \in AgentsLeft : ~Below(AgentKey(a), AgentKey(last))},
                  limit, AgentKey(last))

RunKey(k) == <<runs[k], k[2]>>

\* mutant: sorted by run id
RunBefore_ById(k, l) == k[2] < l[2] \/ (k[2] = l[2] /\ k[1] < l[1])

RunBefore(k, l) == Below(RunKey(k), RunKey(l)) \/ (RunKey(k) = RunKey(l) /\ k[1] < l[1])

\* mutant: runs of one turn are not told apart
RunsLeft_ByTurn == {k \in RunsMatching : cursor = None \/ cursor[1] < runs[k]}

\* Runs, by turn and run id; the map they are read from puts agents in order.
RunsLeft == {k \in RunsMatching : cursor = None \/ Below(cursor, RunKey(k))}

ListRuns(limit) ==
  /\ listing = "runs"
  /\ \/ LastPage(RunsLeft, limit)
     \/ \E last \in RunsLeft :
          CutPage(RunsLeft, {k \in RunsLeft : ~RunBefore(last, k)}, limit, RunKey(last))

BlobKey(b) == <<b, 0>>

\* Blob ids; the cursor is the id itself.
BlobsLeft == {b \in BlobsMatching : cursor = None \/ Below(cursor, BlobKey(b))}

ListCheckpoints(limit) ==
  /\ listing = "checkpoints"
  /\ \/ LastPage(BlobsLeft, limit)
     \/ \E last \in BlobsLeft :
          CutPage(BlobsLeft, {b \in BlobsLeft : b <= last}, limit, BlobKey(last))
------------------------------------------------------------------------------
Next ==
  \/ Tick
  \/ \E a \in AgentIds, cwd \in Cwds :
       CreateAgent(a, cwd) \/ \E time \in 0..MaxTime : UpdateAgent(a, cwd, time)
  \/ \E ids \in SUBSET AgentIds, cwd \in Cwds \cup {None} : DeleteAgents(ids, cwd)
  \/ \E k \in RunKeys, turn \in Turns : CreateRun(k, turn) \/ UpdateRun(k, turn)
  \/ \E ids \in SUBSET AgentIds, runIds \in SUBSET RunIds : DeleteRuns(ids, runIds)
  \/ \E k \in BlobKeys, data \in Data : CreateCheckpoint(k, data) \/ UpdateCheckpoint(k, data)
  \/ \E ids \in SUBSET AgentIds, blobIds \in SUBSET BlobIds : DeleteCheckpoints(ids, blobIds)
  \/ \E cwd \in Cwds \cup {None} : StartAgents(cwd)
  \/ \E ids \in AgentFilters, runIds \in SUBSET RunIds : StartRuns(ids, runIds)
  \/ \E ids \in AgentFilters : StartCheckpoints(ids)
  \/ \E limit \in Limits : ListAgents(limit) \/ ListRuns(limit) \/ ListCheckpoints(limit)

Spec == Init /\ [][Next]_vars
------------------------------------------------------------------------------
(* Properties. *)

Domain ==
  CASE listing = "agents" -> AgentIds
    [] listing = "runs" -> RunKeys
    [] listing = "checkpoints" -> BlobIds
    [] OTHER -> {}

TypeOK ==
  /\ agents \in [AgentIds -> Docs \cup {NoDoc}]
  /\ runs \in [RunKeys -> Turns \cup {None}]
  /\ checkpoints \in [BlobKeys -> Data \cup {None}]
  /\ clock \in Nat
  /\ listing \in {"none", "agents", "runs", "checkpoints"}
  /\ filter \in Filters
  /\ cursor \in (Nat \X Nat) \cup {None}
  /\ complete \in BOOLEAN
  /\ listed \in [Domain -> Nat]
  /\ kept \subseteq Domain /\ updated \subseteq Domain

\* A listing of runs that is for one agent: the cursor of the runs has no agent in it.
OneAgent == listing = "runs" => \E a \in AgentIds : filter.agentIds = {a}

\* Whatever is created, updated and deleted between the pages, a record that stays
\* in the filter and is not updated is returned by a listing once: never twice, and
\* not missed once there is no cursor (the orders, cursors and limits of list).
UntouchedListedOnce ==
  OneAgent => \A k \in kept \ updated : listed[k] <= 1 /\ (complete => listed[k] = 1)

\* An agent that is updated while agents are listed is not returned again: newest
\* first, an update moves it to pages that were read.
AgentsListedAtMostOnce ==
  listing = "agents" => \A a \in AgentIds : listed[a] <= 1

Left ==
  CASE listing = "agents" -> AgentsLeft
    [] listing = "runs" -> RunsLeft
    [] listing = "checkpoints" -> BlobsLeft
    [] OTHER -> {}

\* A cursor is returned only when the page it asks for is not empty, except for the
\* runs of several agents (the comparison of a full page in page, and the cursors).
CursorMeansAnotherPage == [][OneAgent' /\ cursor' # cursor => Left' # {}]_vars

\* Why: of the records kept as they were, those returned are those before the cursor ...
Placed ==
  /\ kept \subseteq Matching
  /\ OneAgent => \A k \in kept \ updated :
       listed[k] <= 1 /\ (listed[k] = 1 <=> complete \/ k \notin Left)

\* ... and an agent that was returned is before the cursor for good, whenever it is
\* updated or created again.
AgentsPassed ==
  /\ \A a \in AgentIds : agents[a].updatedAt <= clock
  /\ listing = "agents" =>
       /\ cursor # None => cursor[1] <= clock
       /\ \A a \in AgentIds :
            /\ listed[a] <= 1
            /\ listed[a] = 1 /\ ~complete =>
                 /\ cursor # None /\ ~Below(<<clock, a>>, cursor)
                 /\ agents[a] # NoDoc => ~Below(AgentKey(a), cursor)

Fresh == listing = "none" => cursor = None /\ ~complete /\ updated = {}

Inv == TypeOK /\ Placed /\ AgentsPassed /\ Fresh
==============================================================================
