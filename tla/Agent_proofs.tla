----------------------------- MODULE Agent_proofs -----------------------------
(***************************************************************************)
(* For any number of tasks, tries and downloads: an agent that the bridge  *)
(* holds has somebody who will release it, or whose release failed or was  *)
(* given up; a key makes one agent; what was refused for good is not tried *)
(* again; and a download that reports success has left the whole artifact  *)
(* in the file.                                                            *)
(*                                                                         *)
(* Inv is inductive.  Its two halves share no variable: LifeInv follows    *)
(* the agents, DownloadInv the pieces of the file.                         *)
(***************************************************************************)
EXTENDS Agent, FiniteSetTheorems, TLAPS

USE DownloadAssumption, AgentAssumption

\* No attempt yet.
LEMMA DownloadInitInv == DownloadInit => DownloadInv
BY DEF DownloadInit, DownloadInv, DownloadTypeOK, Pieces

\* The steps that move only an attempt between its phases.
LEMMA DownloadPhaseStep ==
  ASSUME DownloadInv, NEW d \in Attempts,
         \/ BeginDownload(d) \/ CreateFileFails(d) \/ ArtifactStreamRefused(d)
         \/ ArtifactStreamEnds(d) \/ ArtifactStreamBreaks(d) \/ WriteReported(d)
         \/ Flushed(d) \/ WriteFails(d) \/ CancelDownload(d)
  PROVE  DownloadInv'
<1> USE DEF DownloadInv, DownloadTypeOK, Active, Pieces
<1>1. CASE BeginDownload(d) BY <1>1 DEF BeginDownload
<1>2. CASE CreateFileFails(d) BY <1>2 DEF CreateFileFails
<1>3. CASE ArtifactStreamRefused(d) BY <1>3 DEF ArtifactStreamRefused
<1>4. CASE ArtifactStreamEnds(d) BY <1>4 DEF ArtifactStreamEnds
<1>5. CASE ArtifactStreamBreaks(d) BY <1>5 DEF ArtifactStreamBreaks
<1>6. CASE WriteReported(d) BY <1>6 DEF WriteReported
<1>7. CASE Flushed(d) BY <1>7 DEF Flushed
<1>8. CASE WriteFails(d) BY <1>8 DEF WriteFails
<1>9. CASE CancelDownload(d) BY <1>9 DEF CancelDownload
<1> QED BY <1>1, <1>2, <1>3, <1>4, <1>5, <1>6, <1>7, <1>8, <1>9

\* A file that is truncated is nobody's but its opener's, who has written nothing.
LEMMA TruncateStep ==
  ASSUME DownloadInv, NEW d \in Attempts, Truncate(d)
  PROVE  DownloadInv'
BY DEF Truncate, DownloadInv, DownloadTypeOK, Active, Pieces

\* A stream that opens has given nothing.
LEMMA StreamOpensStep ==
  ASSUME DownloadInv, NEW d \in Attempts, ArtifactStreamOpens(d)
  PROVE  DownloadInv'
BY DEF ArtifactStreamOpens, DownloadInv, DownloadTypeOK, Active, Pieces

\* What is taken is no more than the version has.
LEMMA TakeChunkStep ==
  ASSUME DownloadInv, NEW d \in Attempts, TakeChunk(d)
  PROVE  DownloadInv'
BY DEF TakeChunk, DownloadInv, DownloadTypeOK, Active, Pieces

\* A piece that is written is at its place and counted.
LEMMA WritePieceStep ==
  ASSUME DownloadInv, NEW d \in Attempts, WritePiece(d)
  PROVE  DownloadInv'
BY DEF WritePiece, Writing, DownloadInv, DownloadTypeOK, Active, Pieces

\* Every step of a download.
LEMMA DownloadStep == DownloadInv /\ DownloadNext => DownloadInv'
<1> SUFFICES ASSUME DownloadInv, DownloadNext PROVE DownloadInv'
  OBVIOUS
<1>1. PICK d \in Attempts :
  \/ BeginDownload(d) \/ Truncate(d) \/ CreateFileFails(d)
  \/ ArtifactStreamOpens(d) \/ ArtifactStreamRefused(d) \/ TakeChunk(d)
  \/ ArtifactStreamEnds(d) \/ ArtifactStreamBreaks(d) \/ WriteReported(d) \/ Flushed(d)
  \/ WritePiece(d) \/ WriteFails(d) \/ CancelDownload(d)
  BY DEF DownloadNext
<1> QED BY <1>1, DownloadPhaseStep, TruncateStep, StreamOpensStep, TakeChunkStep, WritePieceStep

\* Steps of the agents leave the downloads alone.
LEMMA DownloadStutter == DownloadInv /\ UNCHANGED downloadVars => DownloadInv'
BY DEF downloadVars, DownloadInv, DownloadTypeOK, Active, Pieces

\* A completed download has written its whole version.
LEMMA WholeFollows == DownloadInv => OkDownloadIsWhole
BY DEF DownloadInv, DownloadTypeOK, OkDownloadIsWhole, Pieces
-------------------------------------------------------------------------------
USE DEF AgentIds

\* No task has begun.
LEMMA LifeInitInv == LifeInit => LifeInv
<1> SUFFICES ASSUME LifeInit PROVE LifeInv
  OBVIOUS
<1> USE DEF LifeInit
<1>1. TypeOK
  <2>1. attached \in BOOLEAN /\ closed \in BOOLEAN
    OBVIOUS
  <2>2. result \in [Tasks -> Results]
    <3>1. [error |-> "none"] \in Results
      BY DEF Results
    <3> QED BY <3>1
  <2>3. tries \in [Tasks -> 0..MaxTries]
    OBVIOUS
  <2> QED BY <2>1, <2>2, <2>3 DEF TypeOK
<1>2. NoAgentLeaked /\ NoFutileRetry
  BY DEF NoAgentLeaked, NoFutileRetry
<1> QED BY <1>1, <1>2 DEF LifeInv

\* An error that may be retried is none the bridge classified as final.
LEMMA RetryableIsPassing ==
  ASSUME NEW e \in RpcErrors, IsRetryable(e), NEW k \in ErrorKinds
  PROVE  e.from.sdk \notin SdkCodesOf(k) \ PassingCodes
<1>1. PICK f \in Failures : e = [error |-> "Rpc", kind |-> KindOfFailure(f), from |-> f]
  BY DEF RpcErrors
<1>2. e.from = f /\ KindOfFailure(f) \in {"RateLimited", "Upstream", "Internal"}
  BY <1>1 DEF IsRetryable
<1>3. SUFFICES ASSUME f.sdk \in SdkCodesOf(k) PROVE f.sdk \in PassingCodes
  BY <1>2
<1>4. k \in KindsBySdkCode(f)
  BY <1>3 DEF KindsBySdkCode
<1>5. KindOfFailure(f) \in KindsBySdkCode(f)
  BY <1>4 DEF KindOfFailure
<1>6. f.sdk \in SdkCodesOf(KindOfFailure(f))
  BY <1>5 DEF KindsBySdkCode
<1> QED BY <1>2, <1>6 DEF SdkCodesOf, PassingCodes

\* A first request, or the next after an error that may pass.
LEMMA TryStep ==
  ASSUME LifeInv, NEW t \in Tasks, NEW u \in {"prompt", "guard", "keyed"},
         TryToCreate(t, u), tries[t] < MaxTries,
         \/ at[t] = "idle"
         \/ at[t] = "failed" /\ u = use[t] /\ IsRetryable(result[t])
  PROVE  LifeInv'
<1> USE DEF LifeInv, TypeOK
<1> DEFINE r0 == RequestOf(t, tries[t] + 1, u)
<1>a. /\ r0 \in [agent : AgentIds, key : BOOLEAN]
      /\ r0.agent = <<t, tries[t] + 1>>
      /\ r0.key <=> u = "keyed"
  <2>1. <<t, tries[t] + 1>> \in AgentIds
    OBVIOUS
  <2> HIDE DEF AgentIds
  <2> QED BY <2>1 DEF RequestOf
<1>b. creates' \subseteq creates \cup {r0}
  BY DEF TryToCreate
<1> HIDE DEF r0
<1>1. TypeOK'
  <2>1. creates' \in SUBSET [agent : AgentIds, key : BOOLEAN]
    BY <1>a, <1>b
  <2>2. result' \in [Tasks -> Results]
    BY DEF TryToCreate, Results
  <2>3. tries' \in [Tasks -> 0..MaxTries]
    BY DEF TryToCreate
  <2> QED BY <2>1, <2>2, <2>3 DEF TryToCreate
<1>2. NoAgentLeaked'
  BY DEF TryToCreate, NoAgentLeaked, Owned
<1>3. NoFutileRetry'
  BY RetryableIsPassing DEF TryToCreate, NoFutileRetry, RpcErrors
<1>4. \A s \in Tasks : at'[s] = "idle" => tries'[s] = 0 /\ result'[s] = [error |-> "none"]
  BY DEF TryToCreate
<1>5. \A s \in Tasks :
        /\ answer'[s] # None => at'[s] = "creating" /\ answer'[s] \in made' /\ answer'[s][1] = s
        /\ handle'[s] # None => handle'[s] \in made' /\ handle'[s][1] = s
        /\ at'[s] = "creating" => handle'[s] = None
        /\ at'[s] \in {"working", "closing"} \/ closer'[s] # "none" => handle'[s] # None
  BY DEF TryToCreate
<1>6. \A s \in Tasks :
        /\ guard'[s] = "armed" <=> at'[s] = "working" /\ use'[s] # "prompt"
        /\ guard'[s] = "dropped" => at'[s] \in {"returned", "cancelled"}
        /\ closer'[s] # "none" => guard'[s] = "dropped"
  BY DEF TryToCreate
<1>7. \A r \in creates' :
       /\ r.agent[2] <= tries'[r.agent[1]] /\ r.agent \notin made'
       /\ r.key <=> use'[r.agent[1]] = "keyed"
       /\ r.agent[2] = tries'[r.agent[1]] => answer'[r.agent[1]] = None
  <2>1. TAKE r \in creates'
  <2>2. CASE r = r0
    <3>1. CASE closed
      <4>1. creates' = creates
        BY <3>1 DEF TryToCreate
      <4>2. r0.agent[2] > tries[t] /\ r0.agent[1] = t
        BY <1>a
      <4> QED BY <2>2, <4>1, <4>2
    <3>2. CASE ~closed
      BY <1>a, <2>2, <3>2 DEF TryToCreate
    <3> QED BY <3>1, <3>2
  <2>3. CASE r # r0
    <3>1. r \in creates
      BY <1>b, <2>3
    <3> QED BY <3>1 DEF TryToCreate
  <2> QED BY <2>2, <2>3
<1>8. \A a \in made' :
       /\ a[2] <= tries'[a[1]]
       /\ use'[a[1]] = "keyed" => \A b \in made' : b[1] = a[1] => b = a
  BY DEF TryToCreate
<1> QED BY <1>1, <1>2, <1>3, <1>4, <1>5, <1>6, <1>7, <1>8

\* The task returns the error.
LEMMA GiveUpStep ==
  ASSUME LifeInv, NEW t \in Tasks, GiveUp(t)
  PROVE  LifeInv'
<1> USE DEF LifeInv, TypeOK, GiveUp, AskToClose, AfterClose, bridgeVars
<1>1. TypeOK'
  BY DEF Results
<1>2. NoAgentLeaked'
  BY DEF NoAgentLeaked, Owned
<1>3. NoFutileRetry'
  BY DEF NoFutileRetry
<1>4. \A s \in Tasks :
       /\ at'[s] = "idle" => tries'[s] = 0 /\ result'[s] = [error |-> "none"]
       /\ answer'[s] # None => at'[s] = "creating" /\ answer'[s] \in made' /\ answer'[s][1] = s
       /\ handle'[s] # None => handle'[s] \in made' /\ handle'[s][1] = s
       /\ at'[s] = "creating" => handle'[s] = None
       /\ at'[s] \in {"working", "closing"} \/ closer'[s] # "none" => handle'[s] # None
       /\ guard'[s] = "armed" <=> at'[s] = "working" /\ use'[s] # "prompt"
       /\ guard'[s] = "dropped" => at'[s] \in {"returned", "cancelled"}
       /\ closer'[s] # "none" => guard'[s] = "dropped"
  OBVIOUS
<1>5. \A r \in creates' : r.agent[2] = tries'[r.agent[1]] => answer'[r.agent[1]] = None
  OBVIOUS
<1> QED BY <1>1, <1>2, <1>3, <1>4, <1>5

\* What waited for its answer is in the task's hands.
LEMMA CreateReturnsStep ==
  ASSUME LifeInv, NEW t \in Tasks, CreateReturns(t)
  PROVE  LifeInv'
<1> USE DEF LifeInv, TypeOK, CreateReturns, AskToClose, AfterClose, bridgeVars
<1>1. TypeOK'
  BY DEF Results
<1>2. NoAgentLeaked'
  BY DEF NoAgentLeaked, Owned
<1>3. NoFutileRetry'
  BY DEF NoFutileRetry
<1>4. \A s \in Tasks :
       /\ at'[s] = "idle" => tries'[s] = 0 /\ result'[s] = [error |-> "none"]
       /\ answer'[s] # None => at'[s] = "creating" /\ answer'[s] \in made' /\ answer'[s][1] = s
       /\ handle'[s] # None => handle'[s] \in made' /\ handle'[s][1] = s
       /\ at'[s] = "creating" => handle'[s] = None
       /\ at'[s] \in {"working", "closing"} \/ closer'[s] # "none" => handle'[s] # None
       /\ guard'[s] = "armed" <=> at'[s] = "working" /\ use'[s] # "prompt"
       /\ guard'[s] = "dropped" => at'[s] \in {"returned", "cancelled"}
       /\ closer'[s] # "none" => guard'[s] = "dropped"
  OBVIOUS
<1>5. \A r \in creates' : r.agent[2] = tries'[r.agent[1]] => answer'[r.agent[1]] = None
  OBVIOUS
<1> QED BY <1>1, <1>2, <1>3, <1>4, <1>5

\* An answer that is lost excuses its agent.
LEMMA CreateFailsStep ==
  ASSUME LifeInv, NEW t \in Tasks, CreateFails(t)
  PROVE  LifeInv'
<1> USE DEF LifeInv, TypeOK, CreateFails, AskToClose, AfterClose, bridgeVars
<1>1. TypeOK'
  BY DEF Results
<1>2. NoAgentLeaked'
  <2> SUFFICES ASSUME NEW a \in open, a \notin excused' PROVE Owned(a)'
    BY DEF NoAgentLeaked
  <2>1. PICK s \in Tasks :
          \/ at[s] = "creating" /\ answer[s] = a
          \/ /\ handle[s] = a
             /\ at[s] \in {"working", "closing"} \/ closer[s] \in {"spawned", "calling", "reading"}
    BY DEF NoAgentLeaked, Owned
  <2>2. a # None
    OBVIOUS
  <2>3. s # t
    BY <2>1, <2>2
  <2> QED BY <2>1, <2>3 DEF Owned
<1>3. NoFutileRetry'
  BY DEF NoFutileRetry
<1>4. \A s \in Tasks :
       /\ at'[s] = "idle" => tries'[s] = 0 /\ result'[s] = [error |-> "none"]
       /\ answer'[s] # None => at'[s] = "creating" /\ answer'[s] \in made' /\ answer'[s][1] = s
       /\ handle'[s] # None => handle'[s] \in made' /\ handle'[s][1] = s
       /\ at'[s] = "creating" => handle'[s] = None
       /\ at'[s] \in {"working", "closing"} \/ closer'[s] # "none" => handle'[s] # None
       /\ guard'[s] = "armed" <=> at'[s] = "working" /\ use'[s] # "prompt"
       /\ guard'[s] = "dropped" => at'[s] \in {"returned", "cancelled"}
       /\ closer'[s] # "none" => guard'[s] = "dropped"
  OBVIOUS
<1>5. \A r \in creates' : r.agent[2] = tries'[r.agent[1]] => answer'[r.agent[1]] = None
  OBVIOUS
<1> QED BY <1>1, <1>2, <1>3, <1>4, <1>5

\* prompt keeps the result and asks for the close.
LEMMA TurnEndsStep ==
  ASSUME LifeInv, NEW t \in Tasks, TurnEnds(t)
  PROVE  LifeInv'
<1> USE DEF LifeInv, TypeOK, TurnEnds, AskToClose, AfterClose, bridgeVars
<1>1. TypeOK'
  BY DEF Results
<1>2. NoAgentLeaked'
  BY DEF NoAgentLeaked, Owned
<1>3. NoFutileRetry'
  BY DEF NoFutileRetry
<1>4. \A s \in Tasks :
       /\ at'[s] = "idle" => tries'[s] = 0 /\ result'[s] = [error |-> "none"]
       /\ answer'[s] # None => at'[s] = "creating" /\ answer'[s] \in made' /\ answer'[s][1] = s
       /\ handle'[s] # None => handle'[s] \in made' /\ handle'[s][1] = s
       /\ at'[s] = "creating" => handle'[s] = None
       /\ at'[s] \in {"working", "closing"} \/ closer'[s] # "none" => handle'[s] # None
       /\ guard'[s] = "armed" <=> at'[s] = "working" /\ use'[s] # "prompt"
       /\ guard'[s] = "dropped" => at'[s] \in {"returned", "cancelled"}
       /\ closer'[s] # "none" => guard'[s] = "dropped"
  OBVIOUS
<1>5. \A r \in creates' : r.agent[2] = tries'[r.agent[1]] => answer'[r.agent[1]] = None
  OBVIOUS
<1> QED BY <1>1, <1>2, <1>3, <1>4, <1>5

\* The guard gives its agent to the call that closes it.
LEMMA GuardCloseStep ==
  ASSUME LifeInv, NEW t \in Tasks, GuardClose(t)
  PROVE  LifeInv'
<1> USE DEF LifeInv, TypeOK, GuardClose, AskToClose, AfterClose, bridgeVars
<1>1. TypeOK'
  BY DEF Results
<1>2. NoAgentLeaked'
  BY DEF NoAgentLeaked, Owned
<1>3. NoFutileRetry'
  BY DEF NoFutileRetry
<1>4. \A s \in Tasks :
       /\ at'[s] = "idle" => tries'[s] = 0 /\ result'[s] = [error |-> "none"]
       /\ answer'[s] # None => at'[s] = "creating" /\ answer'[s] \in made' /\ answer'[s][1] = s
       /\ handle'[s] # None => handle'[s] \in made' /\ handle'[s][1] = s
       /\ at'[s] = "creating" => handle'[s] = None
       /\ at'[s] \in {"working", "closing"} \/ closer'[s] # "none" => handle'[s] # None
       /\ guard'[s] = "armed" <=> at'[s] = "working" /\ use'[s] # "prompt"
       /\ guard'[s] = "dropped" => at'[s] \in {"returned", "cancelled"}
       /\ closer'[s] # "none" => guard'[s] = "dropped"
  OBVIOUS
<1>5. \A r \in creates' : r.agent[2] = tries'[r.agent[1]] => answer'[r.agent[1]] = None
  OBVIOUS
<1> QED BY <1>1, <1>2, <1>3, <1>4, <1>5

\* The bridge has released the agent.
LEMMA CloseReturnsStep ==
  ASSUME LifeInv, NEW t \in Tasks, CloseReturns(t)
  PROVE  LifeInv'
<1> USE DEF LifeInv, TypeOK, CloseReturns, AskToClose, AfterClose, bridgeVars
<1>1. TypeOK'
  BY DEF Results
<1>2. NoAgentLeaked'
  BY DEF NoAgentLeaked, Owned
<1>3. NoFutileRetry'
  BY DEF NoFutileRetry
<1>4. \A s \in Tasks :
       /\ at'[s] = "idle" => tries'[s] = 0 /\ result'[s] = [error |-> "none"]
       /\ answer'[s] # None => at'[s] = "creating" /\ answer'[s] \in made' /\ answer'[s][1] = s
       /\ handle'[s] # None => handle'[s] \in made' /\ handle'[s][1] = s
       /\ at'[s] = "creating" => handle'[s] = None
       /\ at'[s] \in {"working", "closing"} \/ closer'[s] # "none" => handle'[s] # None
       /\ guard'[s] = "armed" <=> at'[s] = "working" /\ use'[s] # "prompt"
       /\ guard'[s] = "dropped" => at'[s] \in {"returned", "cancelled"}
       /\ closer'[s] # "none" => guard'[s] = "dropped"
  OBVIOUS
<1>5. \A r \in creates' : r.agent[2] = tries'[r.agent[1]] => answer'[r.agent[1]] = None
  OBVIOUS
<1> QED BY <1>1, <1>2, <1>3, <1>4, <1>5

\* A failed close excuses its agent.
LEMMA CloseFailsStep ==
  ASSUME LifeInv, NEW t \in Tasks, CloseFails(t)
  PROVE  LifeInv'
<1> USE DEF LifeInv, TypeOK, CloseFails, AskToClose, AfterClose, bridgeVars
<1>1. TypeOK'
  BY DEF Results
<1>2. NoAgentLeaked'
  BY DEF NoAgentLeaked, Owned
<1>3. NoFutileRetry'
  BY DEF NoFutileRetry
<1>4. \A s \in Tasks :
       /\ at'[s] = "idle" => tries'[s] = 0 /\ result'[s] = [error |-> "none"]
       /\ answer'[s] # None => at'[s] = "creating" /\ answer'[s] \in made' /\ answer'[s][1] = s
       /\ handle'[s] # None => handle'[s] \in made' /\ handle'[s][1] = s
       /\ at'[s] = "creating" => handle'[s] = None
       /\ at'[s] \in {"working", "closing"} \/ closer'[s] # "none" => handle'[s] # None
       /\ guard'[s] = "armed" <=> at'[s] = "working" /\ use'[s] # "prompt"
       /\ guard'[s] = "dropped" => at'[s] \in {"returned", "cancelled"}
       /\ closer'[s] # "none" => guard'[s] = "dropped"
  OBVIOUS
<1>5. \A r \in creates' : r.agent[2] = tries'[r.agent[1]] => answer'[r.agent[1]] = None
  OBVIOUS
<1> QED BY <1>1, <1>2, <1>3, <1>4, <1>5

\* The guard's agent goes to the closer, or there is no runtime.
LEMMA LeaveScopeStep ==
  ASSUME LifeInv, NEW t \in Tasks, LeaveScope(t)
  PROVE  LifeInv'
<1> USE DEF LifeInv, TypeOK, LeaveScope, AskToClose, AfterClose, bridgeVars
<1>1. TypeOK'
  BY DEF Results
<1>2. NoAgentLeaked'
  BY DEF NoAgentLeaked, Owned
<1>3. NoFutileRetry'
  BY DEF NoFutileRetry
<1>4. \A s \in Tasks :
       /\ at'[s] = "idle" => tries'[s] = 0 /\ result'[s] = [error |-> "none"]
       /\ answer'[s] # None => at'[s] = "creating" /\ answer'[s] \in made' /\ answer'[s][1] = s
       /\ handle'[s] # None => handle'[s] \in made' /\ handle'[s][1] = s
       /\ at'[s] = "creating" => handle'[s] = None
       /\ at'[s] \in {"working", "closing"} \/ closer'[s] # "none" => handle'[s] # None
       /\ guard'[s] = "armed" <=> at'[s] = "working" /\ use'[s] # "prompt"
       /\ guard'[s] = "dropped" => at'[s] \in {"returned", "cancelled"}
       /\ closer'[s] # "none" => guard'[s] = "dropped"
  OBVIOUS
<1>5. \A r \in creates' : r.agent[2] = tries'[r.agent[1]] => answer'[r.agent[1]] = None
  OBVIOUS
<1> QED BY <1>1, <1>2, <1>3, <1>4, <1>5

\* The closer asks for the close.
LEMMA CloserCallsStep ==
  ASSUME LifeInv, NEW t \in Tasks, CloserCalls(t)
  PROVE  LifeInv'
<1> USE DEF LifeInv, TypeOK, CloserCalls, AskToClose, AfterClose, bridgeVars
<1>1. TypeOK'
  BY DEF Results
<1>2. NoAgentLeaked'
  BY DEF NoAgentLeaked, Owned
<1>3. NoFutileRetry'
  BY DEF NoFutileRetry
<1>4. \A s \in Tasks :
       /\ at'[s] = "idle" => tries'[s] = 0 /\ result'[s] = [error |-> "none"]
       /\ answer'[s] # None => at'[s] = "creating" /\ answer'[s] \in made' /\ answer'[s][1] = s
       /\ handle'[s] # None => handle'[s] \in made' /\ handle'[s][1] = s
       /\ at'[s] = "creating" => handle'[s] = None
       /\ at'[s] \in {"working", "closing"} \/ closer'[s] # "none" => handle'[s] # None
       /\ guard'[s] = "armed" <=> at'[s] = "working" /\ use'[s] # "prompt"
       /\ guard'[s] = "dropped" => at'[s] \in {"returned", "cancelled"}
       /\ closer'[s] # "none" => guard'[s] = "dropped"
  OBVIOUS
<1>5. \A r \in creates' : r.agent[2] = tries'[r.agent[1]] => answer'[r.agent[1]] = None
  OBVIOUS
<1> QED BY <1>1, <1>2, <1>3, <1>4, <1>5

\* The closer gives up, or reads on.
LEMMA CloserAnsweredStep ==
  ASSUME LifeInv, NEW t \in Tasks, CloserAnswered(t)
  PROVE  LifeInv'
<1> USE DEF LifeInv, TypeOK, CloserAnswered, AskToClose, AfterClose, bridgeVars
<1>1. TypeOK'
  BY DEF Results
<1>2. NoAgentLeaked'
  BY DEF NoAgentLeaked, Owned
<1>3. NoFutileRetry'
  BY DEF NoFutileRetry
<1>4. \A s \in Tasks :
       /\ at'[s] = "idle" => tries'[s] = 0 /\ result'[s] = [error |-> "none"]
       /\ answer'[s] # None => at'[s] = "creating" /\ answer'[s] \in made' /\ answer'[s][1] = s
       /\ handle'[s] # None => handle'[s] \in made' /\ handle'[s][1] = s
       /\ at'[s] = "creating" => handle'[s] = None
       /\ at'[s] \in {"working", "closing"} \/ closer'[s] # "none" => handle'[s] # None
       /\ guard'[s] = "armed" <=> at'[s] = "working" /\ use'[s] # "prompt"
       /\ guard'[s] = "dropped" => at'[s] \in {"returned", "cancelled"}
       /\ closer'[s] # "none" => guard'[s] = "dropped"
  OBVIOUS
<1>5. \A r \in creates' : r.agent[2] = tries'[r.agent[1]] => answer'[r.agent[1]] = None
  OBVIOUS
<1> QED BY <1>1, <1>2, <1>3, <1>4, <1>5

\* The closer is done.
LEMMA CloserReturnsStep ==
  ASSUME LifeInv, NEW t \in Tasks, CloserReturns(t)
  PROVE  LifeInv'
<1> USE DEF LifeInv, TypeOK, CloserReturns, AskToClose, AfterClose, bridgeVars
<1>1. TypeOK'
  BY DEF Results
<1>2. NoAgentLeaked'
  BY DEF NoAgentLeaked, Owned
<1>3. NoFutileRetry'
  BY DEF NoFutileRetry
<1>4. \A s \in Tasks :
       /\ at'[s] = "idle" => tries'[s] = 0 /\ result'[s] = [error |-> "none"]
       /\ answer'[s] # None => at'[s] = "creating" /\ answer'[s] \in made' /\ answer'[s][1] = s
       /\ handle'[s] # None => handle'[s] \in made' /\ handle'[s][1] = s
       /\ at'[s] = "creating" => handle'[s] = None
       /\ at'[s] \in {"working", "closing"} \/ closer'[s] # "none" => handle'[s] # None
       /\ guard'[s] = "armed" <=> at'[s] = "working" /\ use'[s] # "prompt"
       /\ guard'[s] = "dropped" => at'[s] \in {"returned", "cancelled"}
       /\ closer'[s] # "none" => guard'[s] = "dropped"
  OBVIOUS
<1>5. \A r \in creates' : r.agent[2] = tries'[r.agent[1]] => answer'[r.agent[1]] = None
  OBVIOUS
<1> QED BY <1>1, <1>2, <1>3, <1>4, <1>5

\* A dropped future excuses what it waited for and what it had.
LEMMA CancelStep ==
  ASSUME LifeInv, NEW t \in Tasks, Cancel(t)
  PROVE  LifeInv'
<1> USE DEF LifeInv, TypeOK, Cancel, AskToClose, AfterClose, bridgeVars
<1>1. TypeOK'
  BY DEF Results
<1>2. NoAgentLeaked'
  <2> SUFFICES ASSUME NEW a \in open, a \notin excused' PROVE Owned(a)'
    BY DEF NoAgentLeaked
  <2>1. PICK s \in Tasks :
          \/ at[s] = "creating" /\ answer[s] = a
          \/ /\ handle[s] = a
             /\ at[s] \in {"working", "closing"} \/ closer[s] \in {"spawned", "calling", "reading"}
    BY DEF NoAgentLeaked, Owned
  <2>2. a # None
    OBVIOUS
  <2>3. s # t
    BY <2>1, <2>2
  <2> QED BY <2>1, <2>3 DEF Owned
<1>3. NoFutileRetry'
  BY DEF NoFutileRetry
<1>4. \A s \in Tasks :
       /\ at'[s] = "idle" => tries'[s] = 0 /\ result'[s] = [error |-> "none"]
       /\ answer'[s] # None => at'[s] = "creating" /\ answer'[s] \in made' /\ answer'[s][1] = s
       /\ handle'[s] # None => handle'[s] \in made' /\ handle'[s][1] = s
       /\ at'[s] = "creating" => handle'[s] = None
       /\ at'[s] \in {"working", "closing"} \/ closer'[s] # "none" => handle'[s] # None
       /\ guard'[s] = "armed" <=> at'[s] = "working" /\ use'[s] # "prompt"
       /\ guard'[s] = "dropped" => at'[s] \in {"returned", "cancelled"}
       /\ closer'[s] # "none" => guard'[s] = "dropped"
  OBVIOUS
<1>5. \A r \in creates' : r.agent[2] = tries'[r.agent[1]] => answer'[r.agent[1]] = None
  OBVIOUS
<1> QED BY <1>1, <1>2, <1>3, <1>4, <1>5

\* A deleted agent is not open.
LEMMA DeleteAgentStep ==
  ASSUME LifeInv, NEW t \in Tasks, DeleteAgent(t)
  PROVE  LifeInv'
<1> USE DEF LifeInv, TypeOK, DeleteAgent, AskToClose, AfterClose, bridgeVars
<1>1. TypeOK'
  BY DEF Results
<1>2. NoAgentLeaked'
  BY DEF NoAgentLeaked, Owned
<1>3. NoFutileRetry'
  BY DEF NoFutileRetry
<1>4. \A s \in Tasks :
       /\ at'[s] = "idle" => tries'[s] = 0 /\ result'[s] = [error |-> "none"]
       /\ answer'[s] # None => at'[s] = "creating" /\ answer'[s] \in made' /\ answer'[s][1] = s
       /\ handle'[s] # None => handle'[s] \in made' /\ handle'[s][1] = s
       /\ at'[s] = "creating" => handle'[s] = None
       /\ at'[s] \in {"working", "closing"} \/ closer'[s] # "none" => handle'[s] # None
       /\ guard'[s] = "armed" <=> at'[s] = "working" /\ use'[s] # "prompt"
       /\ guard'[s] = "dropped" => at'[s] \in {"returned", "cancelled"}
       /\ closer'[s] # "none" => guard'[s] = "dropped"
  OBVIOUS
<1>5. \A r \in creates' : r.agent[2] = tries'[r.agent[1]] => answer'[r.agent[1]] = None
  OBVIOUS
<1> QED BY <1>1, <1>2, <1>3, <1>4, <1>5

\* The bridge's step: it releases an agent.
LEMMA BridgeClosesStep ==
  ASSUME LifeInv, NEW a \in closes, BridgeCloses(a)
  PROVE  LifeInv'
<1> USE DEF LifeInv, TypeOK, BridgeCloses, AskToClose, AfterClose, bridgeVars
<1>1. TypeOK'
  BY DEF Results
<1>2. NoAgentLeaked'
  BY DEF NoAgentLeaked, Owned
<1>3. NoFutileRetry'
  BY DEF NoFutileRetry
<1>4. \A s \in Tasks :
       /\ at'[s] = "idle" => tries'[s] = 0 /\ result'[s] = [error |-> "none"]
       /\ answer'[s] # None => at'[s] = "creating" /\ answer'[s] \in made' /\ answer'[s][1] = s
       /\ handle'[s] # None => handle'[s] \in made' /\ handle'[s][1] = s
       /\ at'[s] = "creating" => handle'[s] = None
       /\ at'[s] \in {"working", "closing"} \/ closer'[s] # "none" => handle'[s] # None
       /\ guard'[s] = "armed" <=> at'[s] = "working" /\ use'[s] # "prompt"
       /\ guard'[s] = "dropped" => at'[s] \in {"returned", "cancelled"}
       /\ closer'[s] # "none" => guard'[s] = "dropped"
  OBVIOUS
<1>5. \A r \in creates' : r.agent[2] = tries'[r.agent[1]] => answer'[r.agent[1]] = None
  OBVIOUS
<1> QED BY <1>1, <1>2, <1>3, <1>4, <1>5

\* A bridge that ends holds nothing.
LEMMA CloseClientStep ==
  ASSUME LifeInv, CloseClient
  PROVE  LifeInv'
<1> USE DEF LifeInv, TypeOK, CloseClient, AskToClose, AfterClose, bridgeVars
<1>1. TypeOK'
  BY DEF Results
<1>2. NoAgentLeaked'
  BY DEF NoAgentLeaked, Owned
<1>3. NoFutileRetry'
  BY DEF NoFutileRetry
<1>4. \A s \in Tasks :
       /\ at'[s] = "idle" => tries'[s] = 0 /\ result'[s] = [error |-> "none"]
       /\ answer'[s] # None => at'[s] = "creating" /\ answer'[s] \in made' /\ answer'[s][1] = s
       /\ handle'[s] # None => handle'[s] \in made' /\ handle'[s][1] = s
       /\ at'[s] = "creating" => handle'[s] = None
       /\ at'[s] \in {"working", "closing"} \/ closer'[s] # "none" => handle'[s] # None
       /\ guard'[s] = "armed" <=> at'[s] = "working" /\ use'[s] # "prompt"
       /\ guard'[s] = "dropped" => at'[s] \in {"returned", "cancelled"}
       /\ closer'[s] # "none" => guard'[s] = "dropped"
  OBVIOUS
<1>5. \A r \in creates' : r.agent[2] = tries'[r.agent[1]] => answer'[r.agent[1]] = None
  OBVIOUS
<1> QED BY <1>1, <1>2, <1>3, <1>4, <1>5

\* The bridge's step: the agent it makes is new to everybody, or the one of the key; the
\* task that gets the answer is waiting for this very request.
LEMMA BridgeCreatesStep ==
  ASSUME LifeInv, NEW r \in creates, BridgeCreates(r)
  PROVE  LifeInv'
<1> USE DEF LifeInv, TypeOK
<1> DEFINE t == r.agent[1]
           sameKey == {x \in made : r.key /\ x[1] = t}
           a == IF sameKey = {} THEN r.agent ELSE CHOOSE x \in sameKey : TRUE
           awaited == at[t] = "creating" /\ tries[t] = r.agent[2]
<1>1. /\ creates' = creates \ {r} /\ made' = made \cup {a}
      /\ open' = IF a \in made THEN open ELSE open \cup {a}
      /\ answer' = IF awaited THEN [answer EXCEPT ![t] = a] ELSE answer
      /\ excused' = IF awaited \/ a \in made THEN excused ELSE excused \cup {a}
      /\ UNCHANGED <<attached, closed, use, at, tries, handle, result, guard, closer, closes>>
  BY DEF BridgeCreates
<1>2. r.agent \in AgentIds /\ t \in Tasks /\ r.agent[2] \in Nat
  OBVIOUS
<1>3. /\ a \in AgentIds /\ a[1] = t /\ a[2] <= tries[t]
      /\ a = r.agent \/ a \in made
      /\ \A b \in made : use[t] = "keyed" /\ b[1] = t => b = a
  <2>1. CASE sameKey = {}
    <3>1. a = r.agent
      BY <2>1
    <3> HIDE DEF a
    <3> QED BY <1>2, <2>1, <3>1
  <2>2. CASE sameKey # {}
    <3>1. a \in sameKey
      BY <2>2
    <3> HIDE DEF a
    <3> QED BY <1>2, <3>1
  <2> QED BY <2>1, <2>2
<1>4. a # None
  BY <1>3
<1>5. awaited => answer[t] = None
  OBVIOUS
<1> HIDE DEF a, sameKey
<1>6. \A q \in creates' : q.agent # r.agent
  <2> SUFFICES ASSUME NEW q \in creates, q.agent = r.agent PROVE q = r
    BY <1>1
  <2>1. q.key <=> r.key
    BY <1>2
  <2> QED BY <2>1
<1>7. TypeOK'
  BY <1>1, <1>2, <1>3
<1>8. NoAgentLeaked'
  <2> SUFFICES ASSUME NEW b \in open', b \notin excused' PROVE Owned(b)'
    BY DEF NoAgentLeaked
  <2>1. CASE b = a /\ a \notin made
    <3>1. awaited /\ answer'[t] = a /\ at'[t] = "creating"
      BY <1>1, <1>2, <2>1
    <3> QED BY <1>2, <2>1, <3>1 DEF Owned
  <2>2. CASE b \in open
    <3>1. PICK s \in Tasks :
            \/ at[s] = "creating" /\ answer[s] = b
            \/ /\ handle[s] = b
               /\ at[s] \in {"working", "closing"} \/ closer[s] \in {"spawned", "calling", "reading"}
      BY <1>1, <2>2 DEF NoAgentLeaked, Owned
    <3>2. b # None
      BY <2>2
    <3>3. CASE at[s] = "creating" /\ answer[s] = b
      BY <1>1, <1>5, <3>2, <3>3 DEF Owned
    <3>4. CASE handle[s] = b /\ (at[s] \in {"working", "closing"} \/ closer[s] \in {"spawned", "calling", "reading"})
      BY <1>1, <3>4 DEF Owned
    <3> QED BY <3>1, <3>3, <3>4
  <2> QED BY <1>1, <2>1, <2>2
<1>9. NoFutileRetry'
  BY <1>1 DEF NoFutileRetry
<1>10. \A s \in Tasks :
         /\ at'[s] = "idle" => tries'[s] = 0 /\ result'[s] = [error |-> "none"]
         /\ answer'[s] # None => at'[s] = "creating" /\ answer'[s] \in made' /\ answer'[s][1] = s
         /\ handle'[s] # None => handle'[s] \in made' /\ handle'[s][1] = s
         /\ at'[s] = "creating" => handle'[s] = None
         /\ at'[s] \in {"working", "closing"} \/ closer'[s] # "none" => handle'[s] # None
         /\ guard'[s] = "armed" <=> at'[s] = "working" /\ use'[s] # "prompt"
         /\ guard'[s] = "dropped" => at'[s] \in {"returned", "cancelled"}
         /\ closer'[s] # "none" => guard'[s] = "dropped"
  BY <1>1, <1>2, <1>3
<1>11. \A q \in creates' :
         /\ q.agent[2] <= tries'[q.agent[1]] /\ q.agent \notin made'
         /\ q.key <=> use'[q.agent[1]] = "keyed"
         /\ q.agent[2] = tries'[q.agent[1]] => answer'[q.agent[1]] = None
  <2> TAKE q \in creates'
  <2>1. q \in creates /\ q.agent # r.agent /\ q.agent \in AgentIds
    BY <1>1, <1>6
  <2>2. q.agent \notin made'
    BY <1>1, <1>3, <2>1
  <2>3. ASSUME q.agent[2] = tries'[q.agent[1]] PROVE answer'[q.agent[1]] = None
    <3>1. q.agent[1] = t => ~awaited
      BY <1>1, <1>2, <2>1, <2>3
    <3> QED BY <1>1, <2>1, <2>3, <3>1
  <2> QED BY <1>1, <2>1, <2>2, <2>3
<1>12. \A b \in made' :
         /\ b[2] <= tries'[b[1]]
         /\ use'[b[1]] = "keyed" => \A c \in made' : c[1] = b[1] => c = b
  BY <1>1, <1>3
<1> QED BY <1>7, <1>8, <1>9, <1>10, <1>11, <1>12

\* Every step of an agent's life.
LEMMA LifeStep == LifeInv /\ LifeNext => LifeInv'
<1> SUFFICES ASSUME LifeInv, LifeNext PROVE LifeInv'
  OBVIOUS
<1>1. CASE CloseClient
  BY <1>1, CloseClientStep
<1>2. CASE \E r \in creates : BridgeCreates(r)
  BY <1>2, BridgeCreatesStep
<1>3. CASE \E a \in closes : BridgeCloses(a)
  BY <1>3, BridgeClosesStep
<1>4. ASSUME NEW t \in Tasks, NEW u \in {"prompt", "guard", "keyed"}, Begin(t, u)
      PROVE  LifeInv'
  BY <1>4, TryStep DEF Begin, LifeInv, TypeOK
<1>5. ASSUME NEW t \in Tasks, Retry(t) PROVE LifeInv'
  BY <1>5, TryStep DEF Retry
<1>6. ASSUME NEW t \in Tasks,
             \/ GiveUp(t) \/ CreateReturns(t) \/ CreateFails(t) \/ TurnEnds(t)
             \/ GuardClose(t) \/ CloseReturns(t) \/ CloseFails(t) \/ LeaveScope(t)
             \/ CloserCalls(t) \/ CloserAnswered(t) \/ CloserReturns(t) \/ Cancel(t)
             \/ DeleteAgent(t)
      PROVE  LifeInv'
  BY <1>6, GiveUpStep, CreateReturnsStep, CreateFailsStep, TurnEndsStep, GuardCloseStep,
     CloseReturnsStep, CloseFailsStep, LeaveScopeStep, CloserCallsStep, CloserAnsweredStep,
     CloserReturnsStep, CancelStep, DeleteAgentStep
<1> QED BY <1>1, <1>2, <1>3, <1>4, <1>5, <1>6 DEF LifeNext

\* Steps of the downloads leave the agents alone.
LEMMA LifeStutter == LifeInv /\ UNCHANGED lifeVars => LifeInv'
BY DEF lifeVars, LifeInv, TypeOK, NoAgentLeaked, Owned, NoFutileRetry
-------------------------------------------------------------------------------
\* The inductive invariant: the states of the agents and of the downloads.
THEOREM Invariance == Spec => []Inv
<1>1. Init => Inv
  BY LifeInitInv, DownloadInitInv DEF Init, Inv
<1>2. Inv /\ [Next]_vars => Inv'
  <2>1. LifeInv /\ (LifeNext \/ UNCHANGED lifeVars) => LifeInv'
    BY LifeStep, LifeStutter
  <2>2. DownloadInv /\ (DownloadNext \/ UNCHANGED downloadVars) => DownloadInv'
    BY DownloadStep, DownloadStutter
  <2> QED BY <2>1, <2>2 DEF Inv, Next, vars
<1> QED BY <1>1, <1>2, PTL DEF Spec

\* An agent is left open only by a call that failed, a future that was dropped, or a guard
\* dropped outside a runtime.
THEOREM NothingLeaks == Spec => []NoAgentLeaked
<1>1. Inv => NoAgentLeaked
  BY DEF Inv, LifeInv
<1> QED BY <1>1, Invariance, PTL

\* A key makes one agent, whatever is lost and however late the bridge handles a request.
THEOREM OneAgentPerKey == Spec => []KeyedCreateIsOne
<1>1. Inv => KeyedCreateIsOne
  <2> SUFFICES ASSUME Inv, NEW t \in Tasks, use[t] = "keyed"
               PROVE  Cardinality({a \in made : a[1] = t}) <= 1
    BY DEF KeyedCreateIsOne
  <2> DEFINE S == {a \in made : a[1] = t}
  <2>1. \A a, b \in S : a = b
    BY DEF Inv, LifeInv
  <2>2. CASE S = {}
    <3>1. Cardinality({}) = 0
      BY FS_EmptySet
    <3> HIDE DEF S
    <3>2. Cardinality(S) = 0
      BY <2>2, <3>1
    <3> QED BY <3>2 DEF S
  <2>3. CASE S # {}
    <3>1. PICK a \in S : TRUE
      BY <2>3
    <3>2. S = {a}
      BY <2>1, <3>1
    <3> HIDE DEF S
    <3>3. Cardinality(S) = 1
      BY <3>2, FS_Singleton
    <3> QED BY <3>3 DEF S
  <2> QED BY <2>2, <2>3
<1> QED BY <1>1, Invariance, PTL

\* What the bridge refused for good is not tried again.
THEOREM RetriesAreHopeful == Spec => []NoFutileRetry
<1>1. Inv => NoFutileRetry
  BY DEF Inv, LifeInv
<1> QED BY <1>1, Invariance, PTL

\* A download that says it is done has left the artifact in the file.
THEOREM DownloadsAreWhole == Spec => []OkDownloadIsWhole
<1>1. Inv => OkDownloadIsWhole
  BY WholeFollows DEF Inv
<1> QED BY <1>1, Invariance, PTL
===============================================================================
