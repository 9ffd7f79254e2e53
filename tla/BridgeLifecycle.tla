--------------------------- MODULE BridgeLifecycle ---------------------------
(***************************************************************************)
(* The bridge process of one Client, from its launch on the first call to  *)
(* its end (src/src/client.rs: connection, connect, verify, close, and the *)
(* drop of the last clone; src/src/bridge.rs: spawn, wait_for_exit, Drop,  *)
(* the exit guard).                                                        *)
(*                                                                         *)
(* Callers are tasks that share the client; each holds a clone and has at  *)
(* most one call in progress, whose future may be dropped at any await.    *)
(* The connection lives in a OnceCell that one caller at a time tries to   *)
(* fill; the others wait for it and take over when it fails.  A child      *)
(* process is owned in turn by the future that launched it, by the         *)
(* connection, and by the close that waits for its exit.                   *)
(***************************************************************************)
EXTENDS Naturals, FiniteSets

CONSTANTS
  Callers,      \* the tasks that hold a clone of the client
  MaxLaunches   \* bound: processes spawned, the failed launches included

ASSUME BridgeAssumption == MaxLaunches \in Nat /\ Callers # {}

VARIABLES
  closed,         \* Inner.closed
  cell,           \* Inner.connection: the process of the connection, or NoProc
  phase,          \* what each caller is in the middle of
  child,          \* the process the future of a caller owns, or NoProc
  proc,           \* the state of each process
  managed,        \* processes whose Child is in a registered ManagedProcess
  guard,          \* install_exit_guard: not called, armed, or fired
  closeReturned   \* history: some close() has returned Ok

NoProc == 0
Procs == 1..MaxLaunches
vars == <<closed, cell, phase, child, proc, managed, guard, closeReturned>>

Phases == {"idle", "admitted", "connecting", "verifying", "calling", "asking",
           "closing", "shutdown", "waiting", "gone"}
ProcStates == {"unborn", "starting", "ready", "stillborn", "exited", "killed"}

TypeOK ==
  /\ closed \in BOOLEAN
  /\ cell \in Procs \cup {NoProc}
  /\ phase \in [Callers -> Phases]
  /\ child \in [Callers -> Procs \cup {NoProc}]
  /\ proc \in [Procs -> ProcStates]
  /\ managed \in SUBSET Procs
  /\ guard \in {"off", "armed", "fired"}
  /\ closeReturned \in BOOLEAN

Init ==
  /\ closed = FALSE /\ cell = NoProc
  /\ phase = [c \in Callers |-> "idle"]
  /\ child = [c \in Callers |-> NoProc]
  /\ proc = [p \in Procs |-> "unborn"]
  /\ managed = {} /\ guard = "off" /\ closeReturned = FALSE

Alive == {p \in Procs : proc[p] \in {"starting", "ready"}}
Initializing(c) == phase[c] \in {"connecting", "verifying"}
LockHeld == \E c \in Callers : phase[c] \in {"shutdown", "waiting"}

To(c, next) == phase' = [phase EXCEPT ![c] = next]
Kill(procs) == proc' = [p \in Procs |-> IF p \in procs \cap Alive THEN "killed" ELSE proc[p]]
------------------------------------------------------------------------------
(* A call that needs the bridge. *)

\* Client::connection: a closed client refuses, or the caller enters the cell.
Call(c) ==
  /\ phase[c] = "idle"
  /\ ~closed
  /\ To(c, "admitted")
  /\ UNCHANGED <<closed, cell, child, proc, managed, guard, closeReturned>>

\* get_or_try_init: a filled cell is used ...
Enter(c) ==
  /\ phase[c] = "admitted"
  /\ cell # NoProc
  /\ To(c, "calling")
  /\ UNCHANGED <<closed, cell, child, proc, managed, guard, closeReturned>>

\* mutant: every caller that finds the cell empty launches
Launch_Concurrent(c) ==
  /\ phase[c] = "admitted"
  /\ cell = NoProc
  /\ \E p \in Procs :
       /\ proc[p] = "unborn"
       /\ proc' = [proc EXCEPT ![p] = "starting"]
       /\ child' = [child EXCEPT ![c] = p]
  /\ To(c, "connecting")
  /\ UNCHANGED <<closed, cell, managed, guard, closeReturned>>

\* ... and of the callers that find it empty one at a time runs `connect`, which
\* resolves and checks the binary and spawns it (the client's options may be
\* invalid, the binary missing, the exec refused).
Launch(c) ==
  /\ phase[c] = "admitted"
  /\ cell = NoProc
  /\ \A d \in Callers : ~Initializing(d)
  /\ \E p \in Procs :
       /\ proc[p] = "unborn"
       /\ proc' = [proc EXCEPT ![p] = "starting"]
       /\ child' = [child EXCEPT ![c] = p]
  /\ To(c, "connecting")
  /\ UNCHANGED <<closed, cell, managed, guard, closeReturned>>

LaunchFails(c) ==
  /\ phase[c] = "admitted"
  /\ cell = NoProc
  /\ \A d \in Callers : ~Initializing(d)
  /\ To(c, "idle")
  /\ UNCHANGED <<closed, cell, child, proc, managed, guard, closeReturned>>

\* The ready line was read and accepted: from here on the exit guard knows the
\* process.
Handshake(c) ==
  /\ phase[c] = "connecting"
  /\ proc[child[c]] \in {"ready", "exited"}
  /\ managed' = managed \cup {child[c]}
  /\ To(c, "verifying")
  /\ UNCHANGED <<closed, cell, child, proc, guard, closeReturned>>

\* mutant: no startup timeout
HandshakeFails_NoTimeout(c) ==
  /\ phase[c] = "connecting"
  /\ proc[child[c]] # "starting"
  /\ Kill({child[c]})
  /\ child' = [child EXCEPT ![c] = NoProc]
  /\ To(c, "idle")
  /\ UNCHANGED <<closed, cell, managed, guard, closeReturned>>

\* The process exited before its ready line, was too slow, or wrote a line this
\* client cannot use: the Child is dropped, which kills it.
HandshakeFails(c) ==
  /\ phase[c] = "connecting"
  /\ Kill({child[c]})
  /\ child' = [child EXCEPT ![c] = NoProc]
  /\ To(c, "idle")
  /\ UNCHANGED <<closed, cell, managed, guard, closeReturned>>

\* Ping and GetVersion were answered: the connection is published.
Verify(c) ==
  /\ phase[c] = "verifying"
  /\ proc[child[c]] = "ready"
  /\ cell' = child[c]
  /\ child' = [child EXCEPT ![c] = NoProc]
  /\ To(c, "calling")
  /\ UNCHANGED <<closed, proc, managed, guard, closeReturned>>

\* They were not: the Connection is dropped, and Bridge::drop kills.
VerifyFails(c) ==
  /\ phase[c] = "verifying"
  /\ Kill({child[c]})
  /\ managed' = managed \ {child[c]}
  /\ child' = [child EXCEPT ![c] = NoProc]
  /\ To(c, "idle")
  /\ UNCHANGED <<closed, cell, guard, closeReturned>>

\* The RPC ends, well or not ...
Return(c) ==
  /\ phase[c] = "calling"
  /\ To(c, "idle")
  /\ UNCHANGED <<closed, cell, child, proc, managed, guard, closeReturned>>

\* ... or the call is bridge_info, which takes the lock that close holds.
Ask(c) ==
  /\ phase[c] = "calling"
  /\ To(c, "asking")
  /\ UNCHANGED <<closed, cell, child, proc, managed, guard, closeReturned>>

Info(c) ==
  /\ phase[c] = "asking"
  /\ ~LockHeld
  /\ To(c, "idle")
  /\ UNCHANGED <<closed, cell, child, proc, managed, guard, closeReturned>>
------------------------------------------------------------------------------
(* The end of the bridge. *)

\* mutant: the flag is set, but not exchanged: every close goes on
Close_Again(c) ==
  /\ phase[c] = "idle"
  /\ closed' = TRUE
  /\ \/ cell = NoProc /\ closeReturned' = TRUE /\ UNCHANGED phase
     \/ cell # NoProc /\ To(c, "closing") /\ UNCHANGED closeReturned
  /\ UNCHANGED <<cell, child, proc, managed, guard>>

\* Client::close: only the first one goes on, and only if there is a connection.
Close(c) ==
  /\ phase[c] = "idle"
  /\ closed' = TRUE
  /\ \/ (closed \/ cell = NoProc) /\ closeReturned' = TRUE /\ UNCHANGED phase
     \/ ~closed /\ cell # NoProc /\ To(c, "closing") /\ UNCHANGED closeReturned
  /\ UNCHANGED <<cell, child, proc, managed, guard>>

\* It takes the bridge's lock and sends Shutdown ...
SendShutdown(c) ==
  /\ phase[c] = "closing"
  /\ ~LockHeld
  /\ To(c, "shutdown")
  /\ UNCHANGED <<closed, cell, child, proc, managed, guard, closeReturned>>

\* ... and, answered or not, takes the Child to wait for its exit.
TakeChild(c) ==
  /\ phase[c] = "shutdown"
  /\ managed' = managed \ {cell}
  /\ child' = [child EXCEPT ![c] = cell]
  /\ To(c, "waiting")
  /\ UNCHANGED <<closed, cell, proc, guard, closeReturned>>

\* mutant: a process that overstays is left to itself
Exited_NoKill(c) ==
  /\ phase[c] = "waiting"
  /\ child' = [child EXCEPT ![c] = NoProc]
  /\ closeReturned' = TRUE
  /\ To(c, "idle")
  /\ UNCHANGED <<closed, cell, proc, managed, guard>>

\* wait_for_exit: the process is gone, or is killed when it overstays.
Exited(c) ==
  /\ phase[c] = "waiting"
  /\ Kill({child[c]})
  /\ child' = [child EXCEPT ![c] = NoProc]
  /\ closeReturned' = TRUE
  /\ To(c, "idle")
  /\ UNCHANGED <<closed, cell, managed, guard>>

\* mutant: no kill_on_drop
Cancel_LeavesChild(c) ==
  /\ phase[c] \notin {"idle", "gone"}
  /\ managed' = managed \ {child[c]}
  /\ child' = [child EXCEPT ![c] = NoProc]
  /\ To(c, "idle")
  /\ UNCHANGED <<closed, cell, proc, guard, closeReturned>>

\* The future of a call is dropped at an await, with what it owns: the Child of a
\* launch or of a close in its last wait, the whole Connection while it verifies.
Cancel(c) ==
  /\ phase[c] \notin {"idle", "gone"}
  /\ Kill({child[c]})
  /\ managed' = managed \ {child[c]}
  /\ child' = [child EXCEPT ![c] = NoProc]
  /\ To(c, "idle")
  /\ UNCHANGED <<closed, cell, guard, closeReturned>>

\* mutant: every clone that is dropped stops the bridge
Drop_AnyClone(c) ==
  /\ phase[c] = "idle"
  /\ To(c, "gone")
  /\ Kill({cell} \cap managed)
  /\ managed' = managed \ {cell}
  /\ UNCHANGED <<closed, cell, child, guard, closeReturned>>

\* A clone is dropped; the last one drops the connection, and Bridge::drop kills
\* the process unless a close has taken it.
Drop(c) ==
  /\ phase[c] = "idle"
  /\ To(c, "gone")
  /\ \/ /\ \A d \in Callers \ {c} : phase[d] = "gone"
        /\ Kill({cell} \cap managed)
        /\ managed' = managed \ {cell}
     \/ /\ \E d \in Callers \ {c} : phase[d] # "gone"
        /\ UNCHANGED <<proc, managed>>
  /\ UNCHANGED <<closed, cell, child, guard, closeReturned>>

InstallGuard ==
  /\ guard = "off"
  /\ guard' = "armed"
  /\ UNCHANGED <<closed, cell, phase, child, proc, managed, closeReturned>>

\* The first SIGINT or SIGTERM after that: kill_all_bridges, and the guard's task
\* is over.
Signal ==
  /\ guard = "armed"
  /\ guard' = "fired"
  /\ Kill(managed)
  /\ UNCHANGED <<closed, cell, phase, child, managed, closeReturned>>
------------------------------------------------------------------------------
(* The process itself. *)

BridgeReady(p) ==
  /\ proc[p] = "starting"
  /\ proc' = [proc EXCEPT ![p] = "ready"]
  /\ UNCHANGED <<closed, cell, phase, child, managed, guard, closeReturned>>

\* It obeys Shutdown, or crashes, at any time.
BridgeExits(p) ==
  /\ \/ proc[p] = "starting" /\ proc' = [proc EXCEPT ![p] = "stillborn"]
     \/ proc[p] = "ready" /\ proc' = [proc EXCEPT ![p] = "exited"]
  /\ UNCHANGED <<closed, cell, phase, child, managed, guard, closeReturned>>
------------------------------------------------------------------------------
Next ==
  \/ \E c \in Callers :
       \/ Call(c) \/ Enter(c) \/ Launch(c) \/ LaunchFails(c)
       \/ Handshake(c) \/ HandshakeFails(c) \/ Verify(c) \/ VerifyFails(c)
       \/ Return(c) \/ Ask(c) \/ Info(c)
       \/ Close(c) \/ SendShutdown(c) \/ TakeChild(c) \/ Exited(c)
       \/ Cancel(c) \/ Drop(c)
  \/ InstallGuard \/ Signal
  \/ \E p \in Procs : BridgeReady(p) \/ BridgeExits(p)

Spec == Init /\ [][Next]_vars

\* Every await of a call is bounded: the handshake by startup_timeout, the exit by
\* shutdown_timeout, an RPC up to its response headers by request_timeout; the
\* short body that follows is taken to arrive or to break.  The cell's semaphore is a FIFO
\* queue, so a caller that waits for it gets its turn however often others fail.
Acquire(c) == Enter(c) \/ Launch(c) \/ LaunchFails(c)
Proceed(c) ==
  \/ Handshake(c) \/ HandshakeFails(c) \/ Verify(c) \/ VerifyFails(c)
  \/ Return(c) \/ Info(c)
  \/ SendShutdown(c) \/ TakeChild(c) \/ Exited(c)

CallFairness == \A c \in Callers : SF_vars(Acquire(c)) /\ WF_vars(Proceed(c))

FairSpec == Spec /\ CallFairness
------------------------------------------------------------------------------
(* Properties. *)

Waiting == \E c \in Callers : phase[c] = "waiting"
Gone == \A c \in Callers : phase[c] = "gone"

\* One bridge at most runs for a client, however many first calls, failed
\* launches and cancelled calls race (get_or_try_init, kill_on_drop).
OneBridge == \A p, q \in Alive : p = q

\* When the last clone of the client is gone no bridge is left: every process is
\* always owned by something whose drop kills it (Bridge::drop, kill_on_drop).
NoBridgeLeftBehind == Gone => Alive = {}

\* A close that got as far as the Child leaves nothing running and nothing is
\* launched afterwards, cancelled or not (wait_for_exit, the cell stays full).
GracefulCloseIsFinal == cell # NoProc /\ cell \notin managed /\ ~Waiting => Alive = {}

\* The client kills the bridge of a connection only when the connection is given
\* up by a close, by the drop of the last clone, or by the exit guard; no failed,
\* cancelled or dropped call of one caller takes it from the others.
OpenClientKeepsItsBridge ==
  cell # NoProc /\ proc[cell] = "killed" => closed \/ Gone \/ guard = "fired"

\* However its callers race, fail and are cancelled, they have the bridge SharedBridge
\* describes.
Fate(state) ==
  IF state \in {"starting", "ready"} THEN "running"
  ELSE IF state = "stillborn" THEN "exited" ELSE state

Bridge == INSTANCE SharedBridge
            WITH proc <- [p \in Procs |-> Fate(proc[p])], shared <- cell,
                 released <- closed \/ guard = "fired", gone <- Gone

SharedBridgeSpec == Bridge!Spec

\* No call hangs: not on the cell, not on the bridge's lock, not on a process that
\* never becomes ready or never exits.
CallsReturn ==
  \A c \in Callers : (phase[c] \notin {"idle", "gone"}) ~> (phase[c] \in {"idle", "gone"})

\* Why: a live process has an owner; one caller at a time fills the cell; only one
\* close ever gets past the flag.
HasOwner(p) == (p = cell /\ p \in managed) \/ \E c \in Callers : child[c] = p
Ending(c) == phase[c] \in {"closing", "shutdown", "waiting"}

OneOwner ==
  /\ \A p \in Alive : HasOwner(p)
  /\ \A c \in Callers : child[c] # NoProc <=> Initializing(c) \/ phase[c] = "waiting"
  /\ \A c \in Callers : phase[c] = "verifying" => child[c] \in managed
  /\ cell \in managed => ~Waiting /\ ~Gone

OneInitializer ==
  /\ \A c \in Callers : Initializing(c) => cell = NoProc
  /\ \A c, d \in Callers : Initializing(c) /\ Initializing(d) => c = d

OneCloser ==
  /\ \A c \in Callers : Ending(c) => closed /\ cell # NoProc
  /\ \A c \in Callers : phase[c] = "waiting" => child[c] = cell
  /\ \A c, d \in Callers : Ending(c) /\ Ending(d) => c = d

Inv == TypeOK /\ OneOwner /\ OneInitializer /\ OneCloser /\ OpenClientKeepsItsBridge
------------------------------------------------------------------------------
(* What the documentation says and the code does not do. *)

\* src/src/client.rs:697, of close: "Stop the bridge: `Shutdown`, then wait, then
\* kill."  Once a close has returned Ok and no call is in progress any more, no
\* bridge runs.
CloseStopsBridge ==
  closeReturned /\ (\A c \in Callers : phase[c] = "idle") => Alive = {}
==============================================================================
