------------------------------- MODULE Agent -------------------------------
(***************************************************************************)
(* An agent from its creation to its release, by what a program does with  *)
(* the handle (src/src/agent.rs and the agent calls of src/src/client.rs). *)
(*                                                                         *)
(* A task runs Client::prompt, or creates an agent and leaves its release  *)
(* to an AgentGuard, and may do either again after an error that says it   *)
(* is worth it, as tests/doc_surface.rs does; its creation may carry an    *)
(* idempotency key.  A call is a request on its way to the bridge and an   *)
(* answer on its way back; either may be lost, and a request whose caller  *)
(* has given up may still be carried out.  The bridge is external: it      *)
(* makes one agent per creation, or one per key, and keeps it open until   *)
(* it is told otherwise.                                                   *)
(***************************************************************************)
EXTENDS Errors, FiniteSets, Download

CONSTANTS
  Tasks,     \* tasks of the program
  MaxTries,  \* how often one tries
  Attached,  \* subset of BOOLEAN: whether the bridge is somebody else's
  Failures   \* failed answers of the bridge, see Errors

AgentIds == Tasks \X (1..MaxTries)

ASSUME AgentAssumption ==
  MaxTries \in Nat \ {0} /\ Attached \subseteq BOOLEAN /\ None \notin AgentIds

VARIABLES
  attached,  \* the client did not launch the bridge
  closed,    \* Inner.closed
  use,       \* what the task does
  at,        \* where it is
  tries,     \* which try this is
  answer,    \* the agent in an answer to CreateAgent on its way to the task
  handle,    \* the Agent in the task's hands
  result,    \* what came of the last try
  guard,     \* its AgentGuard
  closer,    \* the task that the drop of the guard spawned
  creates,   \* CreateAgent requests the bridge has not handled
  closes,    \* the agents of CloseAgent requests it has not handled
  made,      \* every agent there ever was
  open,      \* those whose resources the bridge holds
  excused    \* history: agents whose release failed or was given up, told to the program or not

lifeVars == <<attached, closed, use, at, tries, answer, handle, result, guard, closer,
              creates, closes, made, open, excused>>
bridgeVars == <<creates, closes, made, open>>
vars == <<lifeVars, downloadVars>>

RpcErrors == {[error |-> "Rpc", kind |-> KindOfFailure(f), from |-> f] : f \in Failures}
LostErrors == {[error |-> "Transport"], [error |-> "Timeout"]}
Results == {[error |-> "none"], [error |-> "ok"], [error |-> "closed"]}
             \cup RpcErrors \cup LostErrors

TypeOK ==
  /\ attached \in BOOLEAN /\ closed \in BOOLEAN
  /\ use \in [Tasks -> {"none", "prompt", "guard", "keyed"}]
  /\ at \in [Tasks -> {"idle", "creating", "working", "closing", "failed", "returned",
                       "cancelled"}]
  /\ tries \in [Tasks -> 0..MaxTries]
  /\ answer \in [Tasks -> AgentIds \cup {None}]
  /\ handle \in [Tasks -> AgentIds \cup {None}]
  /\ result \in [Tasks -> Results]
  /\ guard \in [Tasks -> {"none", "armed", "taken", "dropped"}]
  /\ closer \in [Tasks -> {"none", "spawned", "calling", "reading", "done"}]
  /\ creates \in SUBSET [agent : AgentIds, key : BOOLEAN]
  /\ closes \in SUBSET AgentIds
  /\ made \in SUBSET AgentIds /\ open \in SUBSET made /\ excused \in SUBSET made

LifeInit ==
  /\ attached \in Attached /\ closed = FALSE
  /\ use = [t \in Tasks |-> "none"] /\ at = [t \in Tasks |-> "idle"]
  /\ tries = [t \in Tasks |-> 0]
  /\ answer = [t \in Tasks |-> None] /\ handle = [t \in Tasks |-> None]
  /\ result = [t \in Tasks |-> [error |-> "none"]]
  /\ guard = [t \in Tasks |-> "none"] /\ closer = [t \in Tasks |-> "none"]
  /\ creates = {} /\ closes = {} /\ made = {} /\ open = {} /\ excused = {}
------------------------------------------------------------------------------
(* Creation: create_agent_with_key, once its options are encoded (Requests). *)

\* mutant: the key is left out of the request
RequestOf_NoKey(t, n, u) == [agent |-> <<t, n>>, key |-> FALSE]
RequestOf(t, n, u) == [agent |-> <<t, n>>, key |-> u = "keyed"]

\* A first try, or another one; a closed client refuses it on the spot.
TryToCreate(t, u) ==
  /\ use' = [use EXCEPT ![t] = u]
  /\ IF closed
     THEN /\ at' = [at EXCEPT ![t] = "failed"]
          /\ result' = [result EXCEPT ![t] = [error |-> "closed"]]
          /\ UNCHANGED <<tries, creates>>
     ELSE /\ at' = [at EXCEPT ![t] = "creating"]
          /\ tries' = [tries EXCEPT ![t] = @ + 1]
          /\ creates' = creates \cup {RequestOf(t, tries[t] + 1, u)}
          /\ UNCHANGED result
  /\ handle' = [handle EXCEPT ![t] = None]
  /\ answer' = [answer EXCEPT ![t] = None]
  /\ UNCHANGED <<attached, closed, guard, closer, closes, made, open, excused>>

Begin(t, u) == at[t] = "idle" /\ TryToCreate(t, u)

\* The documented loop: again if the error says that may help.
Retry(t) ==
  /\ at[t] = "failed" /\ use[t] \in {"prompt", "keyed"}
  /\ IsRetryable(result[t])
  /\ tries[t] < MaxTries
  /\ TryToCreate(t, use[t])

GiveUp(t) ==
  /\ at[t] = "failed"
  /\ at' = [at EXCEPT ![t] = "returned"]
  /\ UNCHANGED <<attached, closed, use, tries, answer, handle, result, guard, closer,
                 bridgeVars, excused>>

\* The bridge makes the agent, or finds the one it made for that key.  Nobody may be
\* waiting for it any more.
BridgeCreates(r) ==
  LET t == r.agent[1]
      sameKey == {a \in made : r.key /\ a[1] = t}
      a == IF sameKey = {} THEN r.agent ELSE CHOOSE x \in sameKey : TRUE
      awaited == at[t] = "creating" /\ tries[t] = r.agent[2]
  IN /\ r \in creates
     /\ creates' = creates \ {r}
     /\ made' = made \cup {a}
     /\ open' = IF a \in made THEN open ELSE open \cup {a}
     /\ answer' = IF awaited THEN [answer EXCEPT ![t] = a] ELSE answer
     /\ excused' = IF awaited \/ a \in made THEN excused ELSE excused \cup {a}
     /\ UNCHANGED <<attached, closed, use, at, tries, handle, result, guard, closer, closes>>

\* prompt goes on to send; the other uses arm a guard first.
CreateReturns(t) ==
  /\ at[t] = "creating" /\ answer[t] # None
  /\ at' = [at EXCEPT ![t] = "working"]
  /\ handle' = [handle EXCEPT ![t] = answer[t]]
  /\ answer' = [answer EXCEPT ![t] = None]
  /\ excused' = excused \ {answer[t]}
  /\ guard' = IF use[t] = "prompt" THEN guard ELSE [guard EXCEPT ![t] = "armed"]
  /\ UNCHANGED <<attached, closed, use, tries, result, closer, bridgeVars>>

\* The bridge refuses; or the connection breaks or the deadline passes, before or after
\* the bridge has made the agent.
CreateFails(t) ==
  /\ at[t] = "creating"
  /\ \/ /\ answer[t] = None
        /\ \E r \in creates, e \in RpcErrors :
             /\ r.agent = <<t, tries[t]>>
             /\ creates' = creates \ {r}
             /\ result' = [result EXCEPT ![t] = e]
     \/ /\ \E e \in LostErrors : result' = [result EXCEPT ![t] = e]
        /\ UNCHANGED creates
  /\ at' = [at EXCEPT ![t] = "failed"]
  /\ excused' = excused \cup ({answer[t]} \ {None})
  /\ answer' = [answer EXCEPT ![t] = None]
  /\ UNCHANGED <<attached, closed, use, tries, handle, guard, closer, closes, made, open>>
------------------------------------------------------------------------------
(* Release. *)

\* agent_lifecycle("CloseAgent"), up to its await: refused by a closed client.
AskToClose(a) ==
  closes' = IF closed THEN closes ELSE closes \cup {a}

\* mutant: an error of send or text leaves prompt at once
TurnEnds_ErrorReturns(t) ==
  /\ at[t] = "working" /\ use[t] = "prompt"
  /\ \E e \in {[error |-> "ok"]} \cup RpcErrors \cup LostErrors :
       /\ result' = [result EXCEPT ![t] = e]
       /\ IF e.error = "ok" THEN at' = [at EXCEPT ![t] = "closing"] /\ AskToClose(handle[t])
          ELSE at' = [at EXCEPT ![t] = "failed"] /\ UNCHANGED closes
  /\ UNCHANGED <<attached, closed, use, tries, answer, handle, guard, closer, creates,
                 made, open, excused>>

\* prompt: the answer or the error of send and text is kept, and the agent closed.
TurnEnds(t) ==
  /\ at[t] = "working" /\ use[t] = "prompt"
  /\ \E e \in {[error |-> "ok"]} \cup RpcErrors \cup LostErrors : result' = [result EXCEPT ![t] = e]
  /\ at' = [at EXCEPT ![t] = "closing"]
  /\ AskToClose(handle[t])
  /\ UNCHANGED <<attached, closed, use, tries, answer, handle, guard, closer, creates,
                 made, open, excused>>

\* mutant: the agent is left in the guard
GuardClose_Cloned(t) ==
  /\ at[t] = "working" /\ guard[t] = "armed"
  /\ at' = [at EXCEPT ![t] = "closing"]
  /\ result' = [result EXCEPT ![t] = [error |-> "ok"]]
  /\ AskToClose(handle[t])
  /\ UNCHANGED <<attached, closed, use, tries, answer, handle, guard, closer, creates, made,
                 open, excused>>

\* AgentGuard::close, polled: the guard has given its agent away.
GuardClose(t) ==
  /\ at[t] = "working" /\ guard[t] = "armed"
  /\ at' = [at EXCEPT ![t] = "closing"]
  /\ guard' = [guard EXCEPT ![t] = "taken"]
  /\ result' = [result EXCEPT ![t] = [error |-> "ok"]]
  /\ AskToClose(handle[t])
  /\ UNCHANGED <<attached, closed, use, tries, answer, handle, closer, creates, made, open,
                 excused>>

BridgeCloses(a) ==
  /\ a \in closes
  /\ closes' = closes \ {a}
  /\ open' = open \ {a}
  /\ UNCHANGED <<attached, closed, use, at, tries, answer, handle, result, guard, closer,
                 creates, made, excused>>

\* What prompt says is what its turn came to, whatever the close did.
AfterClose(t) ==
  at' = [at EXCEPT ![t] = IF result[t].error = "ok" THEN "returned" ELSE "failed"]

CloseReturns(t) ==
  /\ at[t] = "closing" /\ handle[t] \notin closes \cup open
  /\ AfterClose(t)
  /\ UNCHANGED <<attached, closed, use, tries, answer, handle, result, guard, closer,
                 bridgeVars, excused>>

\* Refused, by this side or the other, or lost.
CloseFails(t) ==
  /\ at[t] = "closing"
  /\ AfterClose(t)
  /\ excused' = excused \cup {handle[t]}
  /\ UNCHANGED <<attached, closed, use, tries, answer, handle, result, guard, closer,
                 bridgeVars>>

\* mutant: only a guard that is left on the normal path spawns the close
LeaveScope_CancelledToo(t) ==
  /\ at[t] = "working" /\ guard[t] = "armed"
  /\ guard' = [guard EXCEPT ![t] = "dropped"]
  /\ \/ at' = [at EXCEPT ![t] = "returned"]
        /\ closer' = [closer EXCEPT ![t] = "spawned"] /\ UNCHANGED excused
     \/ at' = [at EXCEPT ![t] = "cancelled"] /\ UNCHANGED <<closer, excused>>
     \/ at' = [at EXCEPT ![t] = "returned"]
        /\ excused' = excused \cup {handle[t]} /\ UNCHANGED closer
  /\ UNCHANGED <<attached, closed, use, tries, answer, handle, result, bridgeVars>>

\* The scope of an armed guard is left, by its end, by `?` or because its future is
\* dropped: Drop spawns the close, if there is a runtime to spawn it on.
LeaveScope(t) ==
  /\ at[t] = "working" /\ guard[t] = "armed"
  /\ at' \in {[at EXCEPT ![t] = "returned"], [at EXCEPT ![t] = "cancelled"]}
  /\ guard' = [guard EXCEPT ![t] = "dropped"]
  /\ \/ closer' = [closer EXCEPT ![t] = "spawned"] /\ UNCHANGED excused
     \/ excused' = excused \cup {handle[t]} /\ UNCHANGED closer
  /\ UNCHANGED <<attached, closed, use, tries, answer, handle, result, bridgeVars>>

\* The spawned task is polled: a closed client ends it at once.
CloserCalls(t) ==
  /\ closer[t] = "spawned"
  /\ AskToClose(handle[t])
  /\ closer' = [closer EXCEPT ![t] = IF closed THEN "done" ELSE "calling"]
  /\ excused' = IF closed THEN excused \cup {handle[t]} ELSE excused
  /\ UNCHANGED <<attached, closed, use, at, tries, answer, handle, result, guard, creates,
                 made, open>>

\* The connection breaks or request_timeout passes, and the close is given up; or the
\* headers of its response are in, after which there is no deadline.
CloserAnswered(t) ==
  /\ closer[t] = "calling"
  /\ \/ closer' = [closer EXCEPT ![t] = "reading"] /\ UNCHANGED excused
     \/ closer' = [closer EXCEPT ![t] = "done"] /\ excused' = excused \cup {handle[t]}
  /\ UNCHANGED <<attached, closed, use, at, tries, answer, handle, result, guard, bridgeVars>>

\* The body is in: the agent is released, or the bridge refused; or the body breaks off.
CloserReturns(t) ==
  /\ closer[t] = "reading"
  /\ closer' = [closer EXCEPT ![t] = "done"]
  /\ \/ handle[t] \notin closes \cup open /\ UNCHANGED excused
     \/ excused' = excused \cup {handle[t]}
  /\ UNCHANGED <<attached, closed, use, at, tries, answer, handle, result, guard, bridgeVars>>

\* Any other future than a guard's scope is dropped at its await.
Cancel(t) ==
  /\ \/ at[t] \in {"creating", "closing"}
     \/ at[t] = "working" /\ use[t] = "prompt"
  /\ at' = [at EXCEPT ![t] = "cancelled"]
  /\ excused' = excused \cup ({answer[t], handle[t]} \ {None})
  /\ answer' = [answer EXCEPT ![t] = None]
  /\ UNCHANGED <<attached, closed, use, tries, handle, result, guard, closer, bridgeVars>>

\* agent_lifecycle("DeleteAgent"); archiving and reloading leave what is modelled.
DeleteAgent(t) ==
  /\ at[t] = "working" /\ ~closed
  /\ open' = open \ {handle[t]}
  /\ UNCHANGED <<attached, closed, use, at, tries, answer, handle, result, guard, closer,
                 creates, closes, made, excused>>

\* Client::close: a bridge that is the client's ends, and all it held with it.
CloseClient ==
  /\ ~closed /\ closed' = TRUE
  /\ IF attached THEN UNCHANGED bridgeVars
     ELSE creates' = {} /\ closes' = {} /\ open' = {} /\ UNCHANGED made
  /\ UNCHANGED <<attached, use, at, tries, answer, handle, result, guard, closer, excused>>

LifeNext ==
  \/ CloseClient
  \/ \E r \in creates : BridgeCreates(r)
  \/ \E a \in closes : BridgeCloses(a)
  \/ \E t \in Tasks :
       \/ \E u \in {"prompt", "guard", "keyed"} : Begin(t, u)
       \/ Retry(t) \/ GiveUp(t) \/ CreateReturns(t) \/ CreateFails(t)
       \/ TurnEnds(t) \/ GuardClose(t) \/ CloseReturns(t) \/ CloseFails(t)
       \/ LeaveScope(t) \/ CloserCalls(t) \/ CloserAnswered(t) \/ CloserReturns(t)
       \/ Cancel(t) \/ DeleteAgent(t)
------------------------------------------------------------------------------
Init == LifeInit /\ DownloadInit
Next ==
  \/ LifeNext /\ UNCHANGED downloadVars
  \/ DownloadNext /\ UNCHANGED lifeVars

\* The runtime polls the task a guard spawned, and the headers of its answer come or
\* request_timeout passes.  Nothing makes the body come.
CloserFairness == \A t \in Tasks : WF_lifeVars(CloserCalls(t)) /\ WF_lifeVars(CloserAnswered(t))

Spec == Init /\ [][Next]_vars /\ CloserFairness
------------------------------------------------------------------------------
\* Whoever is going to release an agent: the task that waits for it or has it, or the
\* task its guard has spawned.
Owned(a) == \E t \in Tasks :
  \/ at[t] = "creating" /\ answer[t] = a
  \/ handle[t] = a /\ (at[t] \in {"working", "closing"} \/ closer[t] \in {"spawned", "calling", "reading"})

\* prompt "should not leak the agent's local resources" (client.rs:1186-1187), and a guard
\* covers every way out of its scope (agent.rs:287): an agent the bridge holds has
\* somebody who will close it, unless the call that would have told of it or closed it
\* failed (which prompt and a guard's drop tell the debug log only), a future was dropped
\* inside prompt or AgentGuard::close, or there was no runtime to drop the guard in.
NoAgentLeaked == \A a \in open : a \in excused \/ Owned(a)

\* create_agent_idempotent (client.rs:878) may be tried again after a lost answer, also
\* when the first request is carried out later than the second: it makes one agent.
KeyedCreateIsOne == \A t \in Tasks :
  use[t] = "keyed" => Cardinality({a \in made : a[1] = t}) <= 1

\* is_retryable (error.rs:118) keeps a program from repeating what the bridge has refused
\* for good, in whatever Connect code and status that refusal came: "Validation and auth
\* failures are never retryable".
PassingCodes == {"UsageLimitExceeded", "RateLimitExceeded", "UpstreamError", "InternalError"}
NoFutileRetry == \A t \in Tasks :
  at[t] = "creating" /\ result[t] \in RpcErrors =>
    \A k \in ErrorKinds : result[t].from.sdk \notin SdkCodesOf(k) \ PassingCodes

\* A guard that is dropped while the runtime lives gets its agent released, or the call
\* that should have done it failed, without the program waiting for it, as long as the
\* close does not stop in the body of its response, which nothing times (transport.rs:137).
GuardReleases == \A t \in Tasks :
  []<>(closer[t] # "reading") =>
    (guard[t] = "dropped" ~> (handle[t] \notin open \/ handle[t] \in excused))

\* The agents of a task are its tries'; a request is known to the bridge as the try it is;
\* a guard is armed as long as its scope lasts and leaves its agent to one closer; what was
\* made for a key is one agent.
LifeInv ==
  /\ TypeOK
  /\ NoAgentLeaked
  /\ NoFutileRetry
  /\ \A t \in Tasks :
       /\ at[t] = "idle" => tries[t] = 0 /\ result[t] = [error |-> "none"]
       /\ answer[t] # None => at[t] = "creating" /\ answer[t] \in made /\ answer[t][1] = t
       /\ handle[t] # None => handle[t] \in made /\ handle[t][1] = t
       /\ at[t] = "creating" => handle[t] = None
       /\ at[t] \in {"working", "closing"} \/ closer[t] # "none" => handle[t] # None
       /\ guard[t] = "armed" <=> at[t] = "working" /\ use[t] # "prompt"
       /\ guard[t] = "dropped" => at[t] \in {"returned", "cancelled"}
       /\ closer[t] # "none" => guard[t] = "dropped"
  /\ \A r \in creates :
       /\ r.agent[2] <= tries[r.agent[1]] /\ r.agent \notin made
       /\ r.key <=> use[r.agent[1]] = "keyed"
       /\ r.agent[2] = tries[r.agent[1]] => answer[r.agent[1]] = None
  /\ \A a \in made :
       /\ a[2] <= tries[a[1]]
       /\ use[a[1]] = "keyed" => \A b \in made : b[1] = a[1] => b = a

Inv == LifeInv /\ DownloadInv
==============================================================================
