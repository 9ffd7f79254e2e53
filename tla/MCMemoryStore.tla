--------------------------- MODULE MCMemoryStore ---------------------------
(* Small instances of the four substores of MemoryStore: one is populated and  *)
(* listed at a time, since no operation touches two.                           *)
EXTENDS RunEventStore, RecordStore, TLC

TwoIds == 1..2
ThreeIds == 1..3
SmallPages == 1..2
OneTurnOrTwo == 1..2

EitherFilter == {{}, {1}}

\* Directories are only compared.
CwdSymmetry == Permutations(Cwds)

NoAgents == clock = 0 /\ \A a \in AgentIds : agents[a] = NoDoc
NoRuns == \A k \in RunKeys : runs[k] = None
NoCheckpoints == \A k \in BlobKeys : checkpoints[k] = None
NoEvents == deletes = 0 /\ run = None /\ \A r \in Runs : runEvents[r] = <<>>
NoRecords == NoAgents /\ NoRuns /\ NoCheckpoints /\ listing = "none"

StoreInit == Init /\ EventsInit
StoreNext ==
  \/ NoEvents /\ Next /\ UNCHANGED eventVars
  \/ NoRecords /\ EventsNext /\ UNCHANGED vars
StoreSpec == StoreInit /\ [][StoreNext]_<<vars, eventVars>>

\* Three agents, or the runs of one and a run of another, listed for one agent, or the
\* checkpoints of two agents.
OneSubstore ==
  \/ listing \in {"none", "agents"} /\ NoRuns /\ NoCheckpoints
  \/ /\ listing \in {"none", "runs"} /\ OneAgent /\ NoAgents /\ NoCheckpoints
     /\ \A k \in RunKeys : runs[k] # None => k \in {<<1, 1>>, <<1, 2>>, <<2, 1>>}
  \/ /\ listing \in {"none", "checkpoints"} /\ NoAgents /\ NoRuns
     /\ \A k \in BlobKeys : checkpoints[k] # None => k[1] \in TwoIds
==============================================================================
