------------------------------ MODULE MCAgent ------------------------------
EXTENDS Agent, Requests

Sizes == [v1 |-> 2, v2 |-> 1]
TwoVersions == {"v1", "v2"}
Answers == {[sdk |-> "ValidationError", code |-> "internal", status |-> 500],
            [sdk |-> "newer", code |-> "invalid_argument", status |-> 400],
            [sdk |-> "none", code |-> "", status |-> 503],
            [sdk |-> "none", code |-> "", status |-> 408]}
SomeFields == {"model", "api_key", "tools", "store", "cwd", "custom_tools", "force", "limit"}
HalfSeconds == {1, 2}

LifeUntouched == at = [t \in Tasks |-> "idle"] /\ ~closed
DownloadUntouched == down = [d \in Attempts |-> "no"]
RequestsUntouched == settings = 0 /\ ~built /\ registry = [n \in Names |-> "unset"]

\* The three parts share no state: each is checked on its own, from each of its initial
\* states but not from each pair of them.
AllInit == Init /\ RequestsInit /\ (attached <=> client.api_key = "full")
AllNext ==
  \/ RequestsUntouched /\ Next /\ UNCHANGED requestVars
  \/ LifeUntouched /\ DownloadUntouched /\ RequestsNext /\ UNCHANGED vars
AllSpec == AllInit /\ [][AllNext]_<<vars, requestVars>> /\ CloserFairness

OnePart ==
  /\ LifeUntouched \/ DownloadUntouched
  /\ 2 * settings + Len(calls) <= 5
==============================================================================
