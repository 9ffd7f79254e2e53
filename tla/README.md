# Verification of cursor-sdk (Rust)

TLA+ models of the concurrent and fault-prone parts of the `cursor-sdk` crate, model-checked with TLC on small
instances, with the main safety results proved by TLAPS for every value of the constants. Paths are relative to the
repository root; `src/src/run.rs` is the crate's `run.rs`.

1. [The system](#1-the-system) · 2. [The models](#2-the-models-and-the-code) · 3. [The runs](#3-the-runs) ·
4. [Fairness](#4-fairness) · 5. [The proofs](#5-the-proofs) ·
6. [Where the documentation and the code disagree](#6-where-the-documentation-and-the-code-disagree) ·
7. [What is not modelled](#7-what-is-not-modelled) · 8. [Plan](#8-plan)

## 1. The system

A program embeds the crate. A `Client`, whose clones share one `Inner`, launches a *bridge* process on its first call,
or attaches to one, and speaks Connect-RPC to it over HTTP. The bridge runs agents. Each `send` starts a *run*, whose
events come back on a server stream; the durable ones are also kept in a log that can be replayed later. The bridge
calls back into the program: custom tools and, if configured, the agent store are served by a loopback HTTP server in
the client.

```
 caller tasks --> Client --(unary calls, server streams)--> bridge process --> agents, runs
                    |                                            |
                    +--- CallbackServer <--(tool calls, store calls)
                              |
                    ToolRegistry, MemoryStore
```

The components, the state each keeps, and what makes it correct:

| component | state | operations | hard part | correct when |
|---|---|---|---|---|
| run handle (`run.rs`, with `Agent::send` and `Client::observe_run`) | stream, last offset and which numbering it is of, outcome, last status text, run id | next_event, resume, wait, cancel | streams cut at any point; a live and a durable stream number the same events differently; calls that fail half-way | no durable event is skipped, only durable offsets are sent, the outcome is that of the log, `wait` returns |
| client and bridge (`client.rs`, `bridge.rs`) | the `closed` flag, the `OnceCell` of the connection, the child process, the registry of the exit guard | first call, close, clone, drop, signal | first calls race, futures are dropped at any await, a process must always have an owner | one bridge, none left behind, none taken away, no call hangs |
| tools and callback server (`callback/tools.rs`, `callback/server.rs`, `client.rs`) | registry, server, what the bridge was told | register, unregister, connect, create an agent, a tool call | four places have to agree, and a launch takes seconds | the bridge has the address of a server that listens and that knows the tools agents declared |
| run-event store (`callback/store.rs`) | logs and the idempotency map | append, list, delete | repeated appends; readers between appends | one event per key, one answer per key, readers miss nothing |
| agent, run and checkpoint stores (`callback/store.rs`), `list_all_agents` | three maps | create, update, delete, list | an order that updates change, cursors over changing data | untouched records are listed once |
| Connect transport (`transport.rs`) | one call; a reader in the middle of a frame | unary, server_stream, next | deadlines, cuts after any piece, dropped reads | messages in order, the end is never a cut, the verdict is final |
| installer (`bridge-fetch`), and the clients that launch what it installs (`bridge.rs`, `manifest.rs`) | the install directory, staging and what was moved aside, by process id | download, verify, extract, swap; resolve, preflight, spawn | deaths and other installers between two renames, ids used again, two looks at one path | what is installed is one verified release, an old install is never lost, installers do not undo each other |
| agents (`agent.rs`, `Client::prompt`, `create_agent_with_key`), with the error taxonomy (`error.rs`) | the handle, the guard armed or not, the task that its drop spawns, what the bridge holds open | create, prompt, close, delete, retry | requests carried out after their caller gave up, futures dropped, errors that are worth a retry and errors that are not | an agent the bridge holds has somebody who will close it, or its release failed or was given up, a key makes one agent, what is refused for good is not retried |
| artifacts (`agent.rs`) | the destination file, the thread that writes it | download to memory, to a file | a stream that breaks half-way, write errors told of late, threads that outlive their future | Ok means the whole artifact |
| options and requests (`options.rs`, `client.rs`, `bridge.rs`) | the builders, the registry of tools, what the bridge was launched with | the builders' methods, merge, check, encode, launch | any order of calls, unset and empty, defaults of the client, a store that can be given at launch only | refused for a cause or sent, with what was asked |

The components meet in calls (a `Run` reads a `ServerStream`; `register_tool` looks at the connection the lifecycle
fills), in shared state (the registry and the store are shared by clones and the server), and through the bridge, which
is external to this code and is modelled by what it may do.

## 2. The models and the code

Every component has one module with its state as variables and one action per operation, or per part of an operation
between two awaits. A call that awaits is two or more actions, and everything else may happen between them. Actions
name the function they model; `PROJECT.json` has the lines of each.

| module | models | checked by | proved in |
|---|---|---|---|
| `RunStream` | a run's log, its live and replayed streams, the network, the `Run` handle | `MCRunStream` | `RunStream_proofs` |
| `DurableReader` | abstract: what a `Run` promises about the log | as a property of `RunStream` | |
| `BridgeLifecycle` | the connection cell, the process and its owners, close, clones, the exit guard | `MCBridge` | `BridgeLifecycle_proofs` |
| `SharedBridge` | abstract: the one bridge the clones of a client see | as a property of `BridgeLifecycle` | |
| `ToolCallback` | registry, callback server, connect's flags, SetToolCallback, agents | `MCTool` | `ToolCallback_proofs` |
| `RunEventStore` | the runEvents substore and a reader that pages and polls | `MCMemoryStore` | `MemoryStore_proofs` |
| `EventLog` | abstract: the log a bridge may take that substore for | as a property of `RunEventStore` | |
| `RecordStore` | the other three substores and one listing to its end | `MCMemoryStore` | `MemoryStore_proofs` |
| `Listing` | the constants the two share | | |
| `Transport` | one call, and the framed stream and its reader | `MCTransport` | `Transport_proofs` |
| `Install` | installers in their directories, the swap, clients that launch the binary | `MCInstall` | `Install_proofs` |
| `InstallRegister` | abstract: the install directory as a register with gaps | as a property of `Install` | |
| `MessageStream` | abstract: what a `ServerStream` promises its reader | as a property of `Transport` | |
| `Agent` | an agent from its creation to its release, the guard, the retry loop of a program | `MCAgent` | `Agent_proofs` |
| `Errors` | the classes of failures and `is_retryable`, as operators of `Agent` | | |
| `Download` | attempts at one artifact, to memory and to one file, as a part of `Agent` | `MCAgent` | `Agent_proofs` |
| `Requests` | the builders, the check and the encoding of a request, the launch flags about the store | `MCAgent` | `Requests_proofs` |

**RunStream.** `stream` is `Run.stream` together with what is behind it: the connection is live (`Send`), durable
(`ObserveRun`), over, or broken. A message carries its kind and its offset, which the client sees, and the place of
its stream in the log when it was sent, which the client does not see: the properties compare the two. A live stream
counts all its messages, deltas included, and a durable one the events of the log; that is why `resume` may send the
last offset only when `offset_source` says it is durable. `ResumeStart` and `ResumeOk` are the two sides of
`resume`'s await; `ResumeFails` covers an error and a dropped future, and leaves the handle as it was. `wait` is the
loop (`Wait`, then the same read actions `next_event` uses), `Settle` after it, and the fallback. `pos`, `base` and
`got` are history.

**BridgeLifecycle.** `child[c]` is the process that the future of caller `c` owns, `cell` that of the connection;
`managed` says in which of them the `Child` is inside the registered `ManagedProcess` (from the accepted ready line to
`wait_for_exit`, which takes it). `Cancel` is the drop of a call's future at any await, with what that future owns at
that moment. A clone goes with `Drop`, the last one takes the connection with it. `SharedBridge` knows of none of this:
it has the processes (`Fate`), the shared one, whether it was given up, and whether the last clone is gone. There is a
client, so `BridgeAssumption` says `Callers # {}`.

**ToolCallback.** `connect` is three actions, because what it reads is read at three moments: whether a server is
needed, whether the bridge is told of it for tools, and what the launch makes of it. `register_tool` inserts first and
looks at the connection later. An agent is created with the tools its own options declare and those of the registry at
that moment (`PrepareOptions`): `own` and `declared`. An own one may never have been registered, or only later.
`unknown` has the tools whose last call was answered as unknown. `link` is a connection the bridge keeps open, which the server's task goes on serving
after the accept loop has ended.

**RunEventStore, RecordStore.** Every request runs under the mutex of the store, so each is one step; the
interleavings that matter are of requests, between the pages of a reader. Ids are numbers because pages are ordered by
them. A cursor is the pair it encodes. A page of events is read by places: the n-th of those that follow the
offset, up to the limit (`Following`, `Nth`). `EventLog` keeps of a log only the keys, in order, and of the answers and
of what the reader was given only the places; sequence numbers, offsets and the idempotency map are how the code does
it. A delete that removes nothing changes nothing and is left out as a step.

**Transport.** A frame is two pieces, header and payload, as `read_frame` reads it with two `read_exact`; the body may
end or break after any piece. `Abandon` drops a pending `next`: between frames that loses nothing; inside one the
stream is torn, and later bytes are taken for what they are not (`Misread`). What the safety properties say they say
of streams that are not torn, and `Fused` of all.

**Install.** A directory is a function from its files to the release each is from: the manifest, the executable, the
archive while it is there, and `extra`, which stands for whatever one release has and another has not (`Larger`). So a
tree that is half of one release and half of another, lacks a file, or has one that is not its own, can be told from a
whole one. An installer is its process id: when it ends or dies the id is free, and the next run may find what the last
one left in the directories of that name. Renames are atomic and refused onto a directory with files, as on Unix.
`remove_dir_all`, whose errors the code ignores, may leave any files, the archive too (`Remains`), and `remove_file` may
leave the archive in the tree that is installed (`Stage`); what is unpacked goes over what is there. `failures` counts
the removals that left something. `CommitFails` and `Restore` are the error arm of the second rename; `MoveAsideFails` is
the first rename's, which leaves the staging directory behind. A download that does not match is not a step, only a
reason for `Discard`. A client looks at the path three times: `Resolve`, `Preflight`, `Spawn`; with
`CURSOR_SDK_BRIDGE_SKIP_MANIFEST_CHECK=1` the second does not look (`"unchecked"`). The releases the preflight refuses
are those not in `Supported`; what is in the archive of a release without a checksum is not known. To `InstallRegister`
an installer has what it moved aside until it has put something in place (`Taken`), and what it was asked for until it is
in place (`Asked`); staging, process ids that come again and the removal of what was moved aside are behind it, and a
tree counts as a release when it has all its files (`ReleaseTrees`).

**Agent.** A call is three steps: the request is on its way (`creates`, `closes`), the bridge carries it out, the answer
comes back. It fails at any of them, and a request whose caller has given up stays on its way. `TurnEnds` stands for
what `prompt` does between the creation and the close, whose streams are `RunStream`. `guard` is what `AgentGuard`
holds; its drop spawns `closer`, a task of its own: its call is refused by a closed client or sent (`CloserCalls`), gives
up or gets its headers (`CloserAnswered`), and then reads a body that nothing times (`"reading"`, `CloserReturns`).
`excused` is history: the agents whose release failed, or was given up. The program need not have been told: `prompt`
and the spawned task write the error of a close to the debug log only. `Retry` is the documented loop, and asks `IsRetryable` of the error as `Errors`
classifies it: the code of the bridge first, then the Connect code of the body, then the HTTP status.

**Download.** An attempt truncates the file (`Truncate`), opens the stream, takes chunks of any number of pieces, and
flushes. The pieces are written by a thread (`WritePiece`), at the place of that attempt's own handle, also after the
attempt was dropped. What is read is a `MessageStream`: an end is the end, and a break may come after any chunk.

**Requests.** A draft is one value of a builder; the methods of the builders are `SetRuntime`, which replaces all of a
runtime, and `SetSlot`, which overwrites one field or one entry of a map. `Ask` is `prepare_agent_options`, `finish`,
`connect` and the encoding, in that order, up to the first error. `Encoded` knows which fields the wire carries with
presence. `calls` is history, and the properties are stated about it and not about the draft.

## 3. The runs

Bounds are named in each module. They are chosen so that each hazard listed in `PROJECT.json` happens: the mutants
there, one for each property, are bugs at those places, and the run of each property finds its mutant.

| run | properties | bounds, and why they are enough |
|---|---|---|
| `run_stream` | `NoEventSkipped`, `SentOffsetIsDurable`, `OutcomeTellsLastStatus`, `WaitKeepsSeenOutcome`, `Inv` | a log of 4 (the first event, two of any kind, the result), one delta, which is what makes the numberings differ, two cuts, so that a resumed stream is cut too, handles opened live or after 0, 1 or 2 events |
| `run_wait` | `ReaderSpec`, `WaitReturns`, `PatientCallerSeesOutcome` | a log of 3, two cuts, handles opened live or at the start; liveness |
| `bridge_lifecycle` | `SharedBridgeSpec`, `NoBridgeLeftBehind`, `GracefulCloseIsFinal`, `OpenClientKeepsItsBridge`, `Inv`, `CallsReturn` | three callers (one that connects, one that waits for it, one that closes or drops), two launches (one that fails or is cancelled, one after it) |
| `tool_callback` | `EarlyToolIsReachable`, `DeclaredToolsAreKnown`, `Inv` | two tools (one early, one late), two agents, each declaring any tools of its own, both modes, with and without a store |
| `memory_store` | `EventLogSpec`, `ReaderSeesPrefix`, `UntouchedListedOnce`, `AgentsListedAtMostOnce`, `CursorMeansAnotherPage`, `Inv` | one substore at a time. Run events: two runs, two keys, appends without a key, three events, one delete, so that a key outlives its run if it can. Records: three agents in two directories and two times, or three runs of two agents with equal and different turns, or two blob ids of two agents. Pages of one and two, so a listing has up to three pages |
| `transport` | `ErrorMeansFault`, `PromisedStream`, `PendingReadAnswers`, `Inv` | three frames of any kind, so that one is before, one in, and one after what goes wrong; four answers, so that one comes after the verdict |
| `install` | `PinnedInstallIsWhole`, `PreviousInstallRecoverable`, `InstallRegisterSpec`, `PreflightVouches`, `Inv` | two process ids and three runs, so that two installers meet and one id is used again; two pinned releases, of which one is refused by the preflight and has a file the other has not, and one without a checksum, which stands for any other bytes; one removal that fails, which is enough to leave a dead installer's file, or the archive, in an install; one client; a checksum is waived only while the client does not launch and no removal has failed (`WaivedAlone`): a file left by a release without a checksum is met as the one left by the larger release |
| `agents` | `NoAgentLeaked`, `KeyedCreateIsOne`, `NoFutileRetry`, `GuardReleases`, `OkDownloadIsWhole`, `RefusedForCause`, `CarriesWhatWasAsked`, `Inv` | the three parts one at a time. Agents: one task (tasks share only `closed`) with three tries, so that a late request meets two newer ones; a bridge of its own and an attached one; four failed answers, which differ in what classifies them. Downloads: three attempts, one of them to memory, so that two write one file; two versions, of two pieces and of one. Requests: two settings of the client, three calls on a builder, one name of a tool, eight fields of which some carry presence and some do not, durations on both sides of the second |

`run_replay`, `bridge_close`, `tool_late` and `transport_unary` check what a comment or a document
says and find it violated: section 6. Their instances are the smallest that show it.

`CHECK_DEADLOCK FALSE` is in the runs of systems that may really stop: a run that is over and waited for, a client
whose clones are gone, installers at their bounds, a program that has tried often enough. `memory_store` and
`transport` check for deadlock.

`memory_store` uses a constraint, `OneSubstore`, because no operation touches two substores, `install` one, `WaivedAlone`
(see its row), and `agents` one, `OnePart`,
because agents, downloads and requests share no state: what they leave out is the product of independent states.
`OnePart` also trades settings of the client for calls on the builder (`2 * settings + Len(calls) <= 5`): with one
setting, such as a store, each request may have three calls, which a local agent with a model and a custom store takes,
also when an earlier request has launched the bridge. Symmetry is used for directories there, for callers in `bridge_close`, for
tools and agents in `tool_callback` and for process ids in `install`, all compared only for equality and all in runs
without liveness.

## 4. Fairness

* **Run handle** (`WaitFairness`). The reads of `wait`'s loop, `Settle` and the reply are steps of one future that the
  runtime polls: weak fairness. The bridge goes on executing a run and feeding and ending an open stream, and answers
  WaitLiveRun. Nothing makes the network fail, and nothing makes it fail only finitely often but the bound
  `MaxDrops`. A connection that is half open and silent for ever is not in this model: a stream has no read timeout,
  so against a peer that is silent for ever nothing can be promised.
* **Patient caller** (`Patience`, the hypothesis of `PatientCallerSeesOutcome`). From some point on the caller resumes
  only when its stream is gone and it has no outcome, does so if it may, and `resume` succeeds if it is tried again
  and again (strong fairness of `ResumeOk`). These are assumptions about the program and its network and are stated in
  the property, not in the specification.
* **Bridge** (`CallFairness`). Each await of a call is bounded: the handshake by `startup_timeout`, the exit by
  `shutdown_timeout`, an RPC up to its headers by `request_timeout`; the short body of Ping, GetVersion and Shutdown is
  taken to arrive or to break, which the code does not enforce (see `UnaryMeetsDeadline`): a Shutdown whose body stalls
  holds the lock of the bridge for ever, and `CallsReturn` says nothing of it. That is weak fairness of
  `Proceed`. Strong fairness of `Acquire`: a caller that waits for the cell does so in the FIFO queue of tokio's
  semaphore, so it gets a turn however often others fail before it. No fairness for the process, the guard, or any
  caller that starts something.
* **Installer**. None: a download has no timeout (`main.rs:345`), and nothing is promised of an installer that hangs.
* **Transport**. The timer fires and the reader's task is polled. Neither the bridge nor the network owes anything.
* **Agents** (`CloserFairness`). The runtime polls the task that the drop of a guard spawned, and the headers of its
  call's answer come or `request_timeout` passes. A runtime that shuts down is the guard dropped without one
  (`LeaveScope`). There the timeout ends (`transport.rs:129`): a bridge that stalls in the body leaves the spawned task
  hanging and the agent, if it has not released it, open for ever. So `GuardReleases` has a hypothesis about the bridge
  and the network, in the property: the closer does not stay in the body for ever.

## 5. The proofs

The proof modules hold for all constants that satisfy the assumptions named in the modules: any number of callers,
launches, tools, agents, ids, events, frames, cuts and calls on builders. Each first proves an inductive invariant, the
definition `Inv` that TLC checks too (of requests `RequestsInv`, which holds in the states of `agents` and is in no
`.cfg`), and takes the properties from it.

| theorem | says | why an invariant is needed |
|---|---|---|
| `RunStream_proofs!NothingIsSkipped`, `OnlyDurableOffsetsAreSent`, `ReadsOnExactlyAfter`, `RunInvariant` | `NoEventSkipped`, `SentOffsetIsDurable`, `ReadsOnAfterLastOffset`, `Inv` | what is in flight continues the log from where the handle is (`WireInOrder`), an open stream has got as far as its last message (`OpenStreamAtWireEnd`), a live stream is at the end of the log, and an offset that is called durable is a place in the log (`DurableOffsetsArePlaces`) |
| `RunStream_proofs!OutcomeIsOfTheLog`, `SeenOutcomeIsKept` | `OutcomeTellsLastStatus`, `WaitKeepsSeenOutcome` | the status that is remembered is the last of the part of the log that was read (`StatusIsRemembered`), although an older reading may have left a later one; the result is the log's last event (`ResultEndsLog`), what is in flight is what the log has (`WireTellsLog`), and a handle with an outcome goes back only to where its reading began (`ReplayKeepsBase`) |
| `RunStream_proofs!ImplementsReader` | `ReaderSpec`, for handles opened live or at the start (`ObserveAfter \subseteq {0}`) | `run_replay` shows the assumption to be needed |
| `BridgeLifecycle_proofs!OneBridgeAtMost`, `NothingIsLeftBehind`, `CloseIsFinal`, `BridgeIsKept` | the four safety properties | every live process has an owner (`OneOwner`), one caller at a time fills the cell and only while it is empty (`OneInitializer`), one close gets past the flag (`OneCloser`) |
| `BridgeLifecycle_proofs!ImplementsSharedBridge` | `SharedBridgeSpec` | the same: a launch happens when nothing runs, because whatever runs before the cell is full belongs to the caller that fills it, and that one is alone; a kill spares the shared process, because only a closer has it |
| `ToolCallback_proofs!EarlyToolsAreReachable`, `DeclaredAreKnown` | `EarlyToolIsReachable`, `DeclaredToolsAreKnown` | the server listens from before the flag is set until the client goes, and a registration re-points only over a connection that has one; a declared tool is the agent's own or has been registered (`DeclaredFromRegistry`), and what was registered is there or was removed (`RegistryKeeps`) |
| `MemoryStore_proofs!OneAnswer`, `RecordedOnce` | `RepliesAgree`, `KeyUsedOnce` | logs are numbered by their indexes (`Numbered`), the map says what the logs say (`KeysMatchLog`) |
| `MemoryStore_proofs!ReaderIsGivenPrefix` | `ReaderSeesPrefix` | the offset the reader asks for is the number of events it was given (`ReaderInv`); since logs are numbered by their indexes, those that follow the offset are those at the places after it, and the n-th of them is at the n-th such place |
| `MemoryStore_proofs!ImplementsEventLog` | `EventLogSpec` | both: an append is told the place where its key is, a page is places in order |
| `MemoryStore_proofs!NoEmptyPage` | `CursorMeansAnotherPage` | a page is cut because more items match than it has room for, and those it leaves out are what its cursor leaves to the next; the types, and the ids that tell the records of one agent apart |
| `MemoryStore_proofs!UntouchedOnce`, `AgentsOnce` | `UntouchedListedOnce`, `AgentsListedAtMostOnce` | of the untouched records the returned ones are those the cursor excludes (`Placed`); a returned agent stays excluded whenever it is updated, because time does not go back (`AgentsPassed`) |
| `Transport_proofs!StreamSafety` | `GivenInOrder`, `CleanEndMeansAll`, `ErrorMeansFault`, `Fused` | the reader keeps step with the frames (`InStep`), `finished` is what it was told (`FinishedMeansVerdict`), no read is in a torn frame (`ReadsWhileOpen`) |
| `Transport_proofs!Implements` | `PromisedStream` | the same; every step maps to a step of `MessageStream` or a stutter |
| `Install_proofs!VerifiedInstall`, `InstallInvariant` | `VerifiedStaging`, `PinnedInstallIsWhole`, `Inv` | a staged tree has all of what was asked for, and as long as no removal has failed a directory has nothing else from its download on (`CleanStaging`); an old install that may be put back is as good as the one in place (`NothingUnverified`) |
| `Install_proofs!OldInstallKept` | `PreviousInstallRecoverable` | where an installer is about to remove the old install, there is a bridge in place or with an installer that is not about to remove it (`RemovalIsSafe`) |
| `Install_proofs!InstallersLeaveInstall`, `SpawnIsVouchedFor` | `InstallStaysInPlace`, `PreflightVouches` | the renames move trees with a bridge in them (`SwapHasBridges`); what a checked client saw is still there (`CheckedIsAccepted`) |
| `Install_proofs!ImplementsRegister` | `InstallRegisterSpec` | an installer that runs was asked for something (`AskedWhileRunning`), and what it has staged or taken is a tree (`VerifiedStaging`, `SwapHasBridges`) |
| `Agent_proofs!NothingLeaks`, `OneAgentPerKey`, `RetriesAreHopeful` | `NoAgentLeaked`, `KeyedCreateIsOne`, `NoFutileRetry` | a request is known to the bridge as the try it is, an answer is for the task that waits, a guard is armed as long as its scope lasts and leaves its agent to one closer, and what was made for a key is one agent (`LifeInv`) |
| `Agent_proofs!DownloadsAreWhole` | `OkDownloadIsWhole` | the pieces in the file are at their places and of an attempt that wrote since the last truncation, and what an attempt has landed is there (`DownloadInv`) |
| `Requests_proofs!RequestsAreRefusedForCause`, `RequestsCarryWhatWasAsked` | `RefusedForCause`, `CarriesWhatWasAsked` | a draft has the slots of its kind and of the runtime picked last, each holds what the last call on it since then said, and what is no slot of it was not asked for (`DraftIsLastCalls`); a bridge was launched as the client, which no longer changes, would launch it now (`LaunchedAsBuilt`) |

`ReadsOnAfterLastOffset`, `KeyUsedOnce`, `RepliesAgree`, `OneBridge`, `InstallStaysInPlace`, `GivenInOrder`,
`CleanEndMeansAll` and `Fused` are proved and are not checked by a run of their own: each follows from a property or
the invariant some run checks.

Only model-checked: the liveness properties (`WaitReturns`, `PatientCallerSeesOutcome`, `CallsReturn`,
`PendingReadAnswers`, `GuardReleases`), since fairness and ENABLED are outside the prover's reach. Every other property
of the passing runs is stated by a theorem. The proofs do without induction over data: what a page or a log has is said
place by place, and not by a recursive definition.

## 6. Where the documentation and the code disagree

Shown by a run:

* `run_replay`: `src/src/run.rs:340` says a run that reads the durable log "resumes exactly after its last offset". A
  handle opened with `observe_run(id, Some(n))` and cut before its first event resumes from the beginning, because
  `last_offset` starts empty (`run.rs:193`).
* `bridge_close`: `src/src/client.rs:697` says `close` stops the bridge. A close that overtakes another caller's
  connect finds the cell empty and returns, the connect then publishes a bridge on a closed client, and later closes
  return at once. The drop of the last clone still kills it (`NoBridgeLeftBehind`).
* `tool_late`: `src/src/client.rs:537` says that a registration after the bridge is running re-points the bridge. When
  the connect needed no callback server, there is none to point to, and `register_tool` returns Ok.
* `transport_unary`: `src/docs/cursor-sdk-rust.md:1235` gives a unary RPC a deadline. The timeout ends when the headers
  are in, and the body is collected without one. A close that a guard's drop spawned may hang there (`GuardReleases`).

Met while modelling, visible in the models' reachable states, and not given a run:

* `src/src/callback/store.rs:355` says a cursor is emitted only when there is another page. The cursor of runs is made
  of turn and run id; two runs of different agents that agree in both have one cursor, and in a listing of all agents
  whose page ends between them the second is never listed. `CursorMeansAnotherPage` is about listings of one agent.
* `swap_into_place` keeps the old install "recoverable until the new one is committed" (`main.rs:486`), but a process
  with the id of one that died between the renames, which a container gives readily, removes it before its own renames
  (`main.rs:491`). `PreviousInstallRecoverable` excepts this (`cleared`); nothing puts back what a dead installer moved
  aside, and the next installer of another id leaves it lying.
* "The final move is a rename" of one release (`main.rs:269`), but the staging directory may hold more: the error of
  `remove_dir_all` is ignored (`main.rs:279`) and the archive is unpacked over what a dead installer of that id left, so
  a file the new release has not gets into the install, and so does the archive itself if it cannot be removed
  (`main.rs:302`). Every file of the new release is there all the same. `PinnedInstallIsWhole` has both halves:
  nothing else is in an install unless some removal has failed.
* Preflight is to catch a wrong binary before it is spawned (`bridge.rs:307`), unless it is told not to, but it and the
  spawn look at the path one after the other: a binary installed in between is spawned unchecked (`stirred` in `PreflightVouches`).
* An install without `--force` that another one overtakes replaces it, since whether there is an install is asked at the
  start only (`main.rs:111`, `main.rs:493`); and the first rename's error leaves the staging directory (`main.rs:495`).
* `Run::last_offset` ("the last durable offset seen", `run.rs:214`) also returns the numbers of a live stream.
* `wait_live_run` ("block until a live run reaches a terminal status", `client.rs:1093`) is under `request_timeout`,
  so the fallback of `wait` may time out while the run goes on.
* `kill_all_bridges` ("every bridge this process spawned", `bridge.rs:237`) does not know a process before its ready
  line was accepted, nor one that a `close` waits for.
* With a store, a first tool that is registered while `connect` is between its look at the registry and its end is
  neither in the launch flags nor re-pointed (`client.rs:601`, `client.rs:547`).
* A connection the bridge holds open to a dropped callback server is still served ("dropping it stops the server",
  `callback/server.rs:48`).
* `list_all_agents` ("every agent matching the filter", `client.rs:1008`) misses an agent that is updated after the
  listing began and before its page was read: the listing is ordered by update time.
* A download that is refused, cut or cancelled has already emptied the old file (`agent.rs:247` runs before the request
  of line 250), and a cancelled one may still truncate it, or write to it, after a later download has begun.
* The documented loop around `prompt` (`src/tests/doc_surface.rs`) may run a turn twice: an answer that was lost is a
  `Transport` error, which is retryable, and `prompt` sends no key. `Error::Timeout` and HTTP 408 are not retryable.
* A dropped `AgentGuard::close()` future leaves the agent open, since the guard has given it away by then; so does a
  guard dropped after `Client::close` of an attached client, whose spawned close is refused on this side.
* New codes of the bridge "land in `Unknown`" by the documentation of `ErrorKind` (`error.rs:145`), but a code this crate
  does not know leaves the class of the Connect code (`KindOfFailure`).
* `agent_store(s)` followed by `local_store(Sqlite)` drops the custom store without a word, and an attached client ignores
  `local_store` altogether; both are in the states `RefusedForCause` is about, which promises a store only to a bridge
  that was told of one.
* A key given in `AgentOptions` is used for the creation only; the operations of the agent use the client's. An explicit
  empty key does not fall back to the client's and is refused.
* A registered tool whose schema is no JSON object is taken by `register_tool` and makes every creation of a local
  agent fail; `tool_registry` drops the tools registered on the builder before it.
* `shutdown_grace` below a second is sent as zero seconds; `model("")` passes the check that a local agent has a model.

## 7. What is not modelled

* Contents: what events, documents, servers, schemas and images say, and how offsets and cursors are written.
* Conversions of answers (`types.rs`, `json.rs`, `proto.rs`): functions without behaviour over time, except
  `RunOutcome::from_stream_result`, which `RunStream` has.
* Usage, artifact lists, `get_run` and `run_conversation`: fixed fields, one unary call each.
* What an error carries besides its class (messages, hints, request ids), and the fields a manifest is compared by:
  `Install` knows the releases that pass.
* Other places a bridge may be found (an explicit path, the environment, `PATH`), Windows' renames, and the power
  failing between a write and the disk.
* What catalog and account calls return: each is one request (`Requests`) over one unary call (`Transport`).
* The logging store, which logs each call and passes it on.
* Authorization and HTTP details of the callback server, and `handle_store`, which hands a request to the store.
* Time, other than that a deadline passes, and limits of zero.
* `verify_on_connect` is taken to be on, its default; without it `VerifyFails` does not happen.
* Generated code, examples and tests, which were read as statements of intended use.

## 8. Plan

Done: `RunStream` with its reader, the lifecycle with its shared bridge, the callbacks, the stores with their event
log, the transport with its stream, the installer with its register, agents with their errors and downloads, and
requests, each with an inductive invariant and its proofs. What is left, in this order:

1. `RunStream` over `MessageStream`: the connection of a `Run` as an instance of the abstract stream, so that what
   `Transport` implements is what `RunStream` assumes; the same for `Download`.
2. `BridgeLifecycle` with `ToolCallback`: close and drop with a callback server in use; and with `Install`: what a
   launch finds.
3. An abstract specification of agents (created at most once, held, released) that `Agent` implements, and its proof.
