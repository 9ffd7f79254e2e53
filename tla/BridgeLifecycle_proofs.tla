------------------------ MODULE BridgeLifecycle_proofs ------------------------
(***************************************************************************)
(* For any number of callers and launches: at most one bridge runs, it     *)
(* always has an owner that will stop it, and a graceful close is final.   *)
(*                                                                         *)
(* Inv is inductive.  The facts about the bridge follow from it: a live    *)
(* process is owned by the connection or by the future of one caller, and  *)
(* no two of these owners can exist together.                              *)
(***************************************************************************)
EXTENDS BridgeLifecycle, TLAPS

USE DEF NoProc

\* Killing leaves alive what was alive and not killed (start_kill, kill_on_drop).
LEMMA KillEffect ==
  ASSUME TypeOK, NEW S, Kill(S)
  PROVE  /\ proc' \in [Procs -> ProcStates]
         /\ Alive' = Alive \ S
         /\ \A p \in Procs : proc'[p] = "killed" => p \in S \/ proc[p] = "killed"
         /\ \A p \in Procs : p \notin S => proc'[p] = proc[p]
BY DEF TypeOK, Kill, Alive, ProcStates

LEMMA ProcsAreNotNone == NoProc \notin Procs
BY DEF Procs

\* The state a client is built in (ClientBuilder::build).
LEMMA InitInv == Init => Inv
BY ProcsAreNotNone DEF Init, Inv, TypeOK, Phases, ProcStates, OneOwner, OneInitializer, OneCloser, Alive,
  HasOwner, Ending, Initializing, Waiting, Gone, OpenClientKeepsItsBridge

\* The actions that move only the caller between phases in which it owns nothing.
LEMMA QuietStep ==
  ASSUME Inv, NEW c \in Callers, NEW next \in Phases,
         phase' = [phase EXCEPT ![c] = next],
         UNCHANGED <<closed, cell, child, proc, managed, guard, closeReturned>>,
         phase[c] \in {"idle", "admitted", "calling", "asking"},
         next \in {"idle", "admitted", "calling", "asking"}
  PROVE  Inv'
BY ProcsAreNotNone DEF Inv, TypeOK, OneOwner, OneInitializer, OneCloser, Alive,
  HasOwner, Ending, Initializing, Waiting, Gone, OpenClientKeepsItsBridge

\* A caller gives up a process it owned by itself, and the process is killed.
LEMMA GiveUp ==
  ASSUME Inv, NEW c \in Callers,
         phase[c] \notin {"idle", "gone"},
         Kill({child[c]}),
         managed' = managed \ {child[c]} \/ (managed' = managed /\ phase[c] \in {"connecting", "waiting"}),
         child' = [child EXCEPT ![c] = NoProc],
         phase' = [phase EXCEPT ![c] = "idle"],
         closeReturned' \in BOOLEAN,
         UNCHANGED <<closed, cell, guard>>
  PROVE  Inv'
<1> USE DEF Inv
<1>1. /\ proc' \in [Procs -> ProcStates]
      /\ Alive' = Alive \ {child[c]}
      /\ \A p \in Procs : proc'[p] = "killed" => p = child[c] \/ proc[p] = "killed"
  BY KillEffect
<1>2. TypeOK'
  BY <1>1 DEF TypeOK, Phases
<1>3. cell # NoProc => child[c] # cell \/ phase[c] = "waiting"
  BY DEF OneOwner, OneInitializer, TypeOK
<1>4. cell \in managed' => cell \in managed
  OBVIOUS
<1>5. cell \in managed /\ cell # child[c] => cell \in managed'
  OBVIOUS
<1>6. OneOwner'
  <2>1. ASSUME NEW p \in Alive' PROVE HasOwner(p)'
    <3>1. p \in Alive /\ p # child[c] /\ HasOwner(p)
      BY <1>1 DEF OneOwner
    <3>2. CASE p = cell /\ p \in managed
      BY <3>1, <3>2, <1>5 DEF HasOwner
    <3>3. CASE \E d \in Callers : child[d] = p
      <4>1. PICK d \in Callers : child[d] = p
        BY <3>3
      <4>2. d # c
        BY <4>1, <3>1
      <4>3. child'[d] = p
        BY <4>1, <4>2 DEF TypeOK
      <4> QED BY <4>3 DEF HasOwner
    <3> QED BY <3>1, <3>2, <3>3 DEF HasOwner
  <2>2. \A d \in Callers : child'[d] # NoProc <=> (Initializing(d) \/ phase[d] = "waiting")'
    BY DEF OneOwner, TypeOK, Initializing
  <2>3. ASSUME NEW d \in Callers, phase'[d] = "verifying" PROVE child'[d] \in managed'
    <3>1. d # c /\ phase[d] = "verifying" /\ child'[d] = child[d] /\ child[d] \in managed
      BY <2>3 DEF OneOwner, TypeOK
    <3>2. child[d] # child[c] \/ managed' = managed
      <4>1. CASE phase[c] = "waiting"
        BY <4>1, <3>1 DEF OneCloser, OneInitializer, Ending, Initializing
      <4>2. CASE Initializing(c)
        BY <4>2, <3>1 DEF OneInitializer, Initializing
      <4>3. CASE ~(phase[c] = "waiting") /\ ~Initializing(c)
        BY <4>3, <3>1, ProcsAreNotNone DEF OneOwner, TypeOK
      <4> QED BY <4>1, <4>2, <4>3
    <3> QED BY <3>1, <3>2
  <2>4. cell \in managed' => ~Waiting' /\ ~Gone'
    BY <1>4 DEF OneOwner, Waiting, Gone, TypeOK
  <2> QED BY <2>1, <2>2, <2>3, <2>4 DEF OneOwner
<1>7. OneInitializer'
  BY DEF OneInitializer, Initializing, TypeOK
<1>8. OneCloser'
  BY DEF OneCloser, Ending, TypeOK
<1>9. OpenClientKeepsItsBridge'
  <2> SUFFICES ASSUME cell # NoProc, proc'[cell] = "killed" PROVE (closed \/ Gone \/ guard = "fired")'
    BY DEF OpenClientKeepsItsBridge
  <2>1. CASE proc[cell] = "killed"
    <3>1. ~Gone
      BY DEF Gone
    <3> QED BY <2>1, <3>1 DEF OpenClientKeepsItsBridge
  <2>2. CASE proc[cell] # "killed"
    BY <2>2, <1>1, <1>3 DEF OneCloser, Ending, TypeOK
  <2> QED BY <2>1, <2>2
<1> QED BY <1>2, <1>6, <1>7, <1>8, <1>9

\* Every step of the client, of its guard and of the process keeps Inv.
LEMMA StepInv == Inv /\ [Next]_vars => Inv'
<1> SUFFICES ASSUME Inv, [Next]_vars PROVE Inv'
  OBVIOUS
<1> USE DEF Inv
<1>1. ASSUME NEW c \in Callers, Call(c) \/ Enter(c) \/ LaunchFails(c) \/ Return(c) \/ Ask(c) \/ Info(c)
      PROVE  Inv'
  BY <1>1, QuietStep DEF Call, Enter, LaunchFails, Return, Ask, Info, To, Phases
<1>2. ASSUME NEW c \in Callers, Launch(c) PROVE Inv'
  <2>1. PICK p \in Procs : /\ proc[p] = "unborn"
                           /\ proc' = [proc EXCEPT ![p] = "starting"]
                           /\ child' = [child EXCEPT ![c] = p]
    BY <1>2 DEF Launch
  <2>2. /\ phase[c] = "admitted" /\ cell = NoProc /\ \A d \in Callers : ~Initializing(d)
        /\ phase' = [phase EXCEPT ![c] = "connecting"]
        /\ UNCHANGED <<closed, cell, managed, guard, closeReturned>>
    BY <1>2 DEF Launch, To
  <2>3. TypeOK'
    BY <2>1, <2>2 DEF TypeOK, Phases, ProcStates
  <2>4. OneOwner'
    <3>1. ASSUME NEW q \in Alive' PROVE HasOwner(q)'
      <4>1. CASE q = p
        <5>1. child'[c] = p
          BY <2>1 DEF TypeOK
        <5> QED BY <4>1, <5>1 DEF HasOwner
      <4>2. CASE q # p
        <5>1. q \in Alive
          BY <4>2, <2>1 DEF Alive, TypeOK
        <5>2. PICK d \in Callers : child[d] = q
          BY <5>1, <2>2, ProcsAreNotNone DEF OneOwner, HasOwner, Alive
        <5>3. d # c
          BY <5>2, <2>2, <5>1, ProcsAreNotNone DEF OneOwner, Initializing, Alive
        <5>4. child'[d] = q
          BY <5>2, <5>3, <2>1 DEF TypeOK
        <5> QED BY <5>4 DEF HasOwner
      <4> QED BY <4>1, <4>2
    <3>2. \A d \in Callers : child'[d] # NoProc <=> (Initializing(d) \/ phase[d] = "waiting")'
      BY <2>1, <2>2, ProcsAreNotNone DEF OneOwner, TypeOK, Initializing
    <3>3. \A d \in Callers : phase'[d] # "verifying"
      BY <2>2 DEF Initializing, TypeOK
    <3>4. cell' \notin managed'
      BY <2>2, ProcsAreNotNone DEF TypeOK
    <3> QED BY <3>1, <3>2, <3>3, <3>4 DEF OneOwner
  <2>5. OneInitializer'
    BY <2>1, <2>2 DEF OneInitializer, Initializing, TypeOK
  <2>6. OneCloser'
    BY <2>1, <2>2 DEF OneCloser, Ending, TypeOK
  <2>7. OpenClientKeepsItsBridge'
    BY <2>2 DEF OpenClientKeepsItsBridge
  <2> QED BY <2>3, <2>4, <2>5, <2>6, <2>7
<1>3. ASSUME NEW c \in Callers, Handshake(c) PROVE Inv'
  <2>1. /\ phase[c] = "connecting"
        /\ managed' = managed \cup {child[c]}
        /\ phase' = [phase EXCEPT ![c] = "verifying"]
        /\ UNCHANGED <<closed, cell, child, proc, guard, closeReturned>>
    BY <1>3 DEF Handshake, To
  <2>2. child[c] \in Procs /\ cell = NoProc
    BY <2>1 DEF OneOwner, OneInitializer, Initializing, TypeOK
  <2>3. TypeOK'
    BY <2>1, <2>2 DEF TypeOK, Phases
  <2>4. OneOwner'
    <3>1. \A p \in Alive' : HasOwner(p)'
      BY <2>1 DEF OneOwner, HasOwner, Alive
    <3>2. \A d \in Callers : child'[d] # NoProc <=> (Initializing(d) \/ phase[d] = "waiting")'
      BY <2>1 DEF OneOwner, TypeOK, Initializing
    <3>3. \A d \in Callers : phase'[d] = "verifying" => child'[d] \in managed'
      BY <2>1 DEF OneOwner, TypeOK
    <3>4. cell' \notin managed'
      BY <2>1, <2>2, <2>3, ProcsAreNotNone DEF TypeOK
    <3> QED BY <3>1, <3>2, <3>3, <3>4 DEF OneOwner
  <2>5. OneInitializer'
    BY <2>1 DEF OneInitializer, Initializing, TypeOK
  <2>6. OneCloser'
    BY <2>1 DEF OneCloser, Ending, TypeOK
  <2>7. OpenClientKeepsItsBridge'
    BY <2>1, <2>2 DEF OpenClientKeepsItsBridge
  <2> QED BY <2>3, <2>4, <2>5, <2>6, <2>7
<1>4. ASSUME NEW c \in Callers, HandshakeFails(c) \/ VerifyFails(c) \/ Exited(c) \/ Cancel(c) PROVE Inv'
  <2>1. closeReturned' \in BOOLEAN
    BY <1>4 DEF HandshakeFails, VerifyFails, Exited, Cancel, TypeOK
  <2> QED BY <1>4, <2>1, GiveUp DEF HandshakeFails, VerifyFails, Exited, Cancel, To
<1>5. ASSUME NEW c \in Callers, Verify(c) PROVE Inv'
  <2>1. /\ phase[c] = "verifying" /\ proc[child[c]] = "ready"
        /\ cell' = child[c]
        /\ child' = [child EXCEPT ![c] = NoProc]
        /\ phase' = [phase EXCEPT ![c] = "calling"]
        /\ UNCHANGED <<closed, proc, managed, guard, closeReturned>>
    BY <1>5 DEF Verify, To
  <2>2. cell = NoProc /\ child[c] \in Procs /\ child[c] \in managed
    BY <2>1 DEF OneOwner, OneInitializer, Initializing, TypeOK
  <2>3. \A d \in Callers : d # c => ~Initializing(d)
    BY <2>1 DEF OneInitializer, Initializing
  <2>4. \A d \in Callers : ~Ending(d)
    BY <2>2 DEF OneCloser
  <2>5. TypeOK'
    BY <2>1, <2>2 DEF TypeOK, Phases
  <2>6. OneOwner'
    <3>1. ASSUME NEW p \in Alive' PROVE HasOwner(p)'
      <4>1. p \in Alive
        BY <2>1 DEF Alive
      <4>2. PICK d \in Callers : child[d] = p
        BY <4>1, <2>2, ProcsAreNotNone DEF OneOwner, HasOwner, Alive
      <4>3. d = c
        BY <4>1, <4>2, <2>3, <2>4, ProcsAreNotNone DEF OneOwner, Ending, Alive
      <4> QED BY <4>2, <4>3, <2>1, <2>2 DEF HasOwner
    <3>2. \A d \in Callers : child'[d] # NoProc <=> (Initializing(d) \/ phase[d] = "waiting")'
      BY <2>1 DEF OneOwner, TypeOK, Initializing
    <3>3. \A d \in Callers : phase'[d] # "verifying"
      BY <2>1, <2>3 DEF Initializing, TypeOK
    <3>4. ~Waiting' /\ ~Gone'
      BY <2>1, <2>4 DEF Waiting, Gone, Ending, TypeOK
    <3> QED BY <3>1, <3>2, <3>3, <3>4 DEF OneOwner
  <2>7. OneInitializer'
    BY <2>1, <2>3 DEF OneInitializer, Initializing, TypeOK
  <2>8. OneCloser'
    BY <2>1, <2>4 DEF OneCloser, Ending, TypeOK
  <2>9. OpenClientKeepsItsBridge'
    BY <2>1 DEF OpenClientKeepsItsBridge
  <2> QED BY <2>5, <2>6, <2>7, <2>8, <2>9
<1>6. ASSUME NEW c \in Callers, Close(c) PROVE Inv'
  <2>1. CASE UNCHANGED phase
    BY <1>6, <2>1, ZenonT(60) DEF Close, TypeOK, OneOwner, OneInitializer, OneCloser, Alive, HasOwner, Ending,
      Initializing, Waiting, Gone, OpenClientKeepsItsBridge
  <2>2. CASE ~closed /\ cell # NoProc /\ phase' = [phase EXCEPT ![c] = "closing"] /\ UNCHANGED closeReturned
    <3>1. /\ phase[c] = "idle" /\ closed' = TRUE
          /\ UNCHANGED <<cell, child, proc, managed, guard>>
      BY <1>6 DEF Close
    <3>2. \A d \in Callers : ~Ending(d) /\ ~Initializing(d)
      BY <2>2 DEF OneCloser, OneInitializer
    <3>3. TypeOK'
      BY <2>2, <3>1 DEF TypeOK, Phases
    <3>4. OneOwner'
      BY <2>2, <3>1 DEF OneOwner, TypeOK, Alive, HasOwner, Initializing, Waiting, Gone
    <3>5. OneInitializer'
      BY <2>2, <3>1, <3>2 DEF OneInitializer, Initializing, TypeOK
    <3>6. OneCloser'
      BY <2>2, <3>1, <3>2 DEF OneCloser, Ending, TypeOK
    <3>7. OpenClientKeepsItsBridge'
      BY <3>1 DEF OpenClientKeepsItsBridge
    <3> QED BY <3>3, <3>4, <3>5, <3>6, <3>7
  <2> QED BY <1>6, <2>1, <2>2 DEF Close, To
<1>7. ASSUME NEW c \in Callers, SendShutdown(c) PROVE Inv'
  <2>1. /\ phase[c] = "closing"
        /\ phase' = [phase EXCEPT ![c] = "shutdown"]
        /\ UNCHANGED <<closed, cell, child, proc, managed, guard, closeReturned>>
    BY <1>7 DEF SendShutdown, To
  <2>2. TypeOK'
    BY <2>1 DEF TypeOK, Phases
  <2>3. OneOwner'
    BY <2>1 DEF OneOwner, TypeOK, Alive, HasOwner, Initializing, Waiting, Gone
  <2>4. OneInitializer' /\ OneCloser'
    BY <2>1 DEF OneInitializer, OneCloser, Ending, Initializing, TypeOK
  <2>5. OpenClientKeepsItsBridge'
    BY <2>1 DEF OpenClientKeepsItsBridge, Gone, TypeOK
  <2> QED BY <2>2, <2>3, <2>4, <2>5
<1>8. ASSUME NEW c \in Callers, TakeChild(c) PROVE Inv'
  <2>1. /\ phase[c] = "shutdown"
        /\ managed' = managed \ {cell}
        /\ child' = [child EXCEPT ![c] = cell]
        /\ phase' = [phase EXCEPT ![c] = "waiting"]
        /\ UNCHANGED <<closed, cell, proc, guard, closeReturned>>
    BY <1>8 DEF TakeChild, To
  <2>2. cell # NoProc /\ closed /\ \A d \in Callers : d # c => ~Ending(d)
    BY <2>1 DEF OneCloser, Ending
  <2>3. \A d \in Callers : ~Initializing(d)
    BY <2>2 DEF OneInitializer
  <2>4. TypeOK'
    BY <2>1, <2>2 DEF TypeOK, Phases
  <2>5. OneOwner'
    <3>1. ASSUME NEW p \in Alive' PROVE HasOwner(p)'
      <4>1. p \in Alive /\ HasOwner(p)
        BY <2>1 DEF Alive, OneOwner
      <4>2. p = cell
        BY <4>1, <2>1, <2>2, <2>3, ProcsAreNotNone DEF HasOwner, OneOwner, OneCloser, Ending, Alive
      <4>3. child'[c] = cell
        BY <2>1 DEF TypeOK
      <4> QED BY <4>2, <4>3 DEF HasOwner
    <3>2. \A d \in Callers : child'[d] # NoProc <=> (Initializing(d) \/ phase[d] = "waiting")'
      BY <2>1, <2>2 DEF OneOwner, TypeOK, Initializing
    <3>3. \A d \in Callers : phase'[d] # "verifying"
      BY <2>1, <2>3 DEF Initializing, TypeOK
    <3> QED BY <2>1, <3>1, <3>2, <3>3 DEF OneOwner
  <2>6. OneInitializer'
    BY <2>1, <2>3 DEF OneInitializer, Initializing, TypeOK
  <2>7. OneCloser'
    BY <2>1, <2>2 DEF OneCloser, Ending, TypeOK
  <2>8. OpenClientKeepsItsBridge'
    BY <2>1, <2>2 DEF OpenClientKeepsItsBridge
  <2> QED BY <2>4, <2>5, <2>6, <2>7, <2>8
<1>9. ASSUME NEW c \in Callers, Drop(c) PROVE Inv'
  <2>1. /\ phase[c] = "idle" /\ phase' = [phase EXCEPT ![c] = "gone"]
        /\ UNCHANGED <<closed, cell, child, guard, closeReturned>>
    BY <1>9 DEF Drop, To
  <2>2. \A d \in Callers : phase'[d] \in {"idle", "gone"} => phase[d] \in {"idle", "gone"}
    BY <2>1 DEF TypeOK
  <2>3. CASE /\ \A d \in Callers \ {c} : phase[d] = "gone"
             /\ Kill({cell} \cap managed) /\ managed' = managed \ {cell}
    <3>1. /\ proc' \in [Procs -> ProcStates]
          /\ Alive' = Alive \ ({cell} \cap managed)
      BY <2>3, KillEffect
    <3>2. Gone'
      BY <2>1, <2>3 DEF Gone, TypeOK
    <3>3. TypeOK'
      BY <2>1, <2>3, <3>1 DEF TypeOK, Phases
    <3>4. \A d \in Callers : phase'[d] = "gone" /\ phase[d] \in {"idle", "gone"}
      BY <2>1, <3>2, <2>2 DEF Gone
    <3>5. OneOwner'
      BY <2>1, <2>3, <3>1, <3>4 DEF OneOwner, HasOwner, Initializing, TypeOK
    <3>6. OneInitializer' /\ OneCloser'
      BY <3>4 DEF OneInitializer, OneCloser, Initializing, Ending
    <3> QED BY <3>2, <3>3, <3>5, <3>6 DEF OpenClientKeepsItsBridge
  <2>4. CASE (\E d \in Callers \ {c} : phase[d] # "gone") /\ UNCHANGED <<proc, managed>>
    <3>1. TypeOK'
      BY <2>1, <2>4 DEF TypeOK, Phases
    <3>2. ~Gone' /\ ~Gone
      BY <2>1, <2>4 DEF Gone, TypeOK
    <3>3. OneOwner'
      BY <2>1, <2>4, <3>2 DEF OneOwner, HasOwner, Initializing, Alive, Waiting, TypeOK
    <3>4. OneInitializer' /\ OneCloser'
      BY <2>1, <2>4 DEF OneInitializer, OneCloser, Initializing, Ending, TypeOK
    <3>5. OpenClientKeepsItsBridge'
      BY <2>1, <2>4, <3>2 DEF OpenClientKeepsItsBridge
    <3> QED BY <3>1, <3>3, <3>4, <3>5
  <2> QED BY <1>9, <2>3, <2>4 DEF Drop
<1>10. CASE InstallGuard
  BY <1>10 DEF InstallGuard, TypeOK, OneOwner, OneInitializer, OneCloser, Alive, HasOwner, Ending,
    Initializing, Waiting, Gone, OpenClientKeepsItsBridge
<1>11. CASE Signal
  <2>1. /\ guard' = "fired" /\ Kill(managed)
        /\ UNCHANGED <<closed, cell, phase, child, managed, closeReturned>>
    BY <1>11 DEF Signal
  <2>2. /\ proc' \in [Procs -> ProcStates]
        /\ Alive' = Alive \ managed
    BY <2>1, KillEffect
  <2> QED BY <2>1, <2>2 DEF TypeOK, OneOwner, OneInitializer, OneCloser, HasOwner, Ending,
    Initializing, Waiting, Gone, OpenClientKeepsItsBridge
<1>12. ASSUME NEW p \in Procs, BridgeReady(p) \/ BridgeExits(p) PROVE Inv'
  <2>1. UNCHANGED <<closed, cell, phase, child, managed, guard, closeReturned>>
    BY <1>12 DEF BridgeReady, BridgeExits
  <2>2. /\ proc' \in [Procs -> ProcStates]
        /\ \A q \in Alive' : q \in Alive
        /\ \A q \in Procs : proc'[q] = "killed" => proc[q] = "killed"
    BY <1>12 DEF BridgeReady, BridgeExits, TypeOK, ProcStates, Alive
  <2> QED BY <2>1, <2>2 DEF TypeOK, OneOwner, OneInitializer, OneCloser, HasOwner, Ending,
    Initializing, Waiting, Gone, OpenClientKeepsItsBridge
<1>13. CASE UNCHANGED vars
  BY <1>13 DEF vars, TypeOK, OneOwner, OneInitializer, OneCloser, Alive, HasOwner, Ending,
    Initializing, Waiting, Gone, OpenClientKeepsItsBridge
<1> QED BY <1>1, <1>2, <1>3, <1>4, <1>5, <1>6, <1>7, <1>8, <1>9, <1>10, <1>11, <1>12, <1>13 DEF Next

\* The invariant holds in every reachable state.
THEOREM Invariance == Spec => []Inv
<1>1. Init => Inv
  BY InitInv
<1>2. Inv /\ [Next]_vars => Inv'
  BY StepInv
<1> QED BY <1>1, <1>2, PTL DEF Spec
------------------------------------------------------------------------------
\* What the invariant says of the bridge.
LEMMA OwnersExclude ==
  ASSUME Inv
  PROVE  OneBridge /\ NoBridgeLeftBehind /\ GracefulCloseIsFinal
<1> USE DEF Inv
<1>1. ASSUME NEW p \in Alive, NEW c \in Callers, child[c] = p
      PROVE  Initializing(c) \/ (phase[c] = "waiting" /\ p = cell)
  BY <1>1, ProcsAreNotNone DEF OneOwner, OneCloser, Alive
<1>2. OneBridge
  <2> SUFFICES ASSUME NEW p \in Alive, NEW q \in Alive PROVE p = q
    BY DEF OneBridge
  <2>1. HasOwner(p) /\ HasOwner(q)
    BY DEF OneOwner
  <2>2. ASSUME NEW r \in Alive, NEW s \in Alive, NEW c \in Callers, child[c] = r, s = cell, s \in managed
        PROVE r = s
    BY <2>2, <1>1, ProcsAreNotNone DEF OneInitializer, Alive
  <2>3. ASSUME NEW c \in Callers, NEW d \in Callers, child[c] = p, child[d] = q PROVE p = q
    BY <2>3, <1>1, ProcsAreNotNone DEF OneInitializer, Alive
  <2> QED BY <2>1, <2>2, <2>3 DEF HasOwner
<1>3. NoBridgeLeftBehind
  BY <1>1 DEF NoBridgeLeftBehind, OneOwner, HasOwner, Gone, Initializing
<1>4. GracefulCloseIsFinal
  BY <1>1 DEF GracefulCloseIsFinal, OneOwner, OneInitializer, HasOwner, Waiting
<1> QED BY <1>2, <1>3, <1>4

\* The type invariant.
THEOREM TypeCorrect == Spec => []TypeOK
<1>1. Inv => TypeOK
  BY DEF Inv
<1> QED BY <1>1, Invariance, PTL

\* Whatever races, one bridge at most runs (get_or_try_init in Client::connection).
THEOREM OneBridgeAtMost == Spec => []OneBridge
<1>1. Inv => OneBridge
  BY OwnersExclude
<1> QED BY <1>1, Invariance, PTL

\* No bridge outlives the last clone of its client (Bridge::drop, kill_on_drop).
THEOREM NothingIsLeftBehind == Spec => []NoBridgeLeftBehind
<1>1. Inv => NoBridgeLeftBehind
  BY OwnersExclude
<1> QED BY <1>1, Invariance, PTL

\* After a close that took the Child nothing runs any more (Client::close).
THEOREM CloseIsFinal == Spec => []GracefulCloseIsFinal
<1>1. Inv => GracefulCloseIsFinal
  BY OwnersExclude
<1> QED BY <1>1, Invariance, PTL

\* No caller's failure or cancellation takes the bridge away from the others.
THEOREM BridgeIsKept == Spec => []OpenClientKeepsItsBridge
<1>1. Inv => OpenClientKeepsItsBridge
  BY DEF Inv
<1> QED BY <1>1, Invariance, PTL
------------------------------------------------------------------------------
(* The abstract bridge. *)

\* What is alive here runs there, and what is killed here is killed there.
LEMMA KillIsKilled ==
  ASSUME TypeOK
  PROVE  /\ Bridge!Running = Alive
         /\ \A S : Kill(S) => Bridge!Killed(S)
<1>1. proc \in [Procs -> ProcStates]
  BY DEF TypeOK
<1>2. Bridge!Running = Alive
  BY <1>1 DEF Bridge!Running, Alive, Fate, ProcStates
<1>3. ASSUME NEW S, Kill(S) PROVE Bridge!Killed(S)
  <2>1. \A p \in Procs : Fate(proc'[p]) = IF p \in S \cap Alive THEN "killed" ELSE Fate(proc[p])
    BY <1>3 DEF Kill, Fate
  <2>2. \A p \in Procs : [q \in Procs |-> Fate(proc[q])][p] = Fate(proc[p])
    OBVIOUS
  <2> QED BY <1>2, <2>1, <2>2 DEF Bridge!Killed
<1> QED BY <1>2, <1>3

\* Before a process is shared, the only one that runs is that of the caller that fills
\* the cell.
LEMMA UnsharedRunsForOne ==
  ASSUME Inv, cell = NoProc, NEW p \in Alive
  PROVE  \E c \in Callers : Initializing(c) /\ child[c] = p
BY ProcsAreNotNone DEF Inv, OneOwner, OneCloser, HasOwner, Alive, Ending

\* A caller that is not gone takes a step of its own and stays.
LEMMA CallerStays ==
  ASSUME TypeOK, NEW c \in Callers, NEW next \in Phases \ {"gone"}, phase[c] # "gone", To(c, next)
  PROVE  ~Gone /\ UNCHANGED Gone
BY DEF TypeOK, To, Gone

\* Each action is one step of SharedBridge, or none.
LEMMA SharedBridgeStep ==
  Inv /\ [Next]_vars => [Bridge!Next]_(Bridge!bridgeVars)
<1> SUFFICES ASSUME Inv, [Next]_vars PROVE [Bridge!Next]_(Bridge!bridgeVars)
  OBVIOUS
<1> DEFINE seen == [p \in Procs |-> Fate(proc[p])]
<1> USE ProcsAreNotNone DEF Phases
<1>t. TypeOK /\ proc \in [Procs -> ProcStates]
  BY DEF Inv, TypeOK
<1>r. Bridge!Running = Alive /\ \A S : Kill(S) => Bridge!Killed(S)
  BY <1>t, KillIsKilled
\* What moves a caller and nothing the others see.
<1>1. ASSUME NEW c \in Callers, NEW next \in Phases \ {"gone"}, phase[c] # "gone", To(c, next),
             UNCHANGED <<closed, cell, proc, guard>>
      PROVE  UNCHANGED Bridge!bridgeVars
  <2>1. ~Gone /\ UNCHANGED Gone
    BY <1>1, <1>t, CallerStays
  <2>2. seen' = seen
    BY <1>1, Zenon
  <2>3. (closed \/ guard = "fired")' = (closed \/ guard = "fired")
    BY <1>1
  <2> QED BY <1>1, <2>1, <2>2, <2>3, Zenon DEF Bridge!bridgeVars
<1>2. ASSUME NEW c \in Callers,
             \/ Call(c) \/ Enter(c) \/ LaunchFails(c) \/ Handshake(c) \/ Return(c) \/ Ask(c) \/ Info(c)
             \/ SendShutdown(c) \/ TakeChild(c)
      PROVE  UNCHANGED Bridge!bridgeVars
  BY <1>1, <1>2 DEF Call, Enter, LaunchFails, Handshake, Return, Ask, Info, SendShutdown, TakeChild
<1>3. ASSUME NEW c \in Callers, Launch(c) PROVE \E p \in Procs : Bridge!Launch(p)
  <2>1. PICK p \in Procs : proc[p] = "unborn" /\ proc' = [proc EXCEPT ![p] = "starting"]
    BY <1>3 DEF Launch
  <2>2. cell = NoProc /\ Alive = {}
    BY <1>3, UnsharedRunsForOne DEF Launch
  <2>3. ~Gone /\ UNCHANGED Gone
    BY <1>3, <1>t, CallerStays DEF Launch
  <2>4. seen' = [seen EXCEPT ![p] = "running"] /\ seen[p] = "unborn"
    BY <1>t, <2>1 DEF Fate
  <2> QED BY <1>3, <1>r, <2>2, <2>3, <2>4 DEF Launch, Bridge!Launch
<1>4. ASSUME NEW c \in Callers, Verify(c) PROVE \E p \in Procs : Bridge!Share(p)
  <2>1. ~Gone /\ UNCHANGED Gone
    BY <1>4, <1>t, CallerStays DEF Verify
  <2>2. cell = NoProc
    BY <1>4 DEF Verify, Inv, OneInitializer, Initializing
  <2>3. child[c] \in Alive
    BY <1>4 DEF Verify, Inv, OneOwner, Initializing, TypeOK, Alive
  <2>4. child[c] \in Procs
    BY <2>3 DEF Alive
  <2> QED BY <1>4, <1>r, <2>1, <2>2, <2>3, <2>4 DEF Verify, Bridge!Share
<1>5. ASSUME NEW c \in Callers, HandshakeFails(c) \/ VerifyFails(c) \/ Exited(c) \/ Cancel(c)
      PROVE  \E S \in SUBSET Procs : Bridge!Kill(S)
  <2>1. Kill({child[c]}) /\ To(c, "idle") /\ phase[c] # "gone" /\ UNCHANGED <<closed, cell, guard>>
    BY <1>5 DEF HandshakeFails, VerifyFails, Exited, Cancel
  <2>2. ~Gone /\ UNCHANGED Gone
    BY <2>1, <1>t, CallerStays
  <2>3. child[c] = cell /\ cell # NoProc => closed
    BY DEF Inv, OneOwner, OneInitializer, OneCloser, Ending
  <2>4. Kill({child[c]} \cap Procs)
    BY <2>1 DEF Kill, Alive
  <2>5. Bridge!Killed({child[c]} \cap Procs)
    BY <1>r, <2>4
  <2>6. (closed \/ guard = "fired") \/ cell \notin {child[c]} \cap Procs
    BY <2>3
  <2>7. {child[c]} \cap Procs \in SUBSET Procs
    OBVIOUS
  <2> QED BY <2>1, <2>2, <2>5, <2>6, <2>7 DEF Bridge!Kill
<1>6. ASSUME NEW c \in Callers, Close(c) PROVE Bridge!Release({})
  <2>1. closed' /\ UNCHANGED Gone /\ UNCHANGED <<proc, cell>>
    BY <1>6, <1>t DEF Close, To, Gone, TypeOK
  <2> QED BY <2>1 DEF Bridge!Release, Bridge!Killed
<1>7. ASSUME NEW c \in Callers, Drop(c) PROVE Bridge!Leave \/ UNCHANGED Bridge!bridgeVars
  <2>1. phase[c] = "idle" /\ phase' = [phase EXCEPT ![c] = "gone"] /\ UNCHANGED <<closed, cell, guard>>
    BY <1>7 DEF Drop, To
  <2>2. CASE \A d \in Callers \ {c} : phase[d] = "gone"
    <3>1. Kill({cell} \cap managed)
      BY <1>7, <2>2 DEF Drop
    <3>2. \A p \in Alive : p \in {cell} \cap managed
      <4>1. \A d \in Callers : child[d] = NoProc
        BY <2>1, <2>2 DEF Inv, OneOwner, Initializing
      <4> QED BY <4>1 DEF Inv, OneOwner, HasOwner, Alive
    <3>3. Kill(Procs)
      BY <3>1, <3>2 DEF Kill, Alive
    <3>4. Gone'
      BY <1>t, <2>1, <2>2 DEF Gone, TypeOK
    <3> QED BY <1>r, <2>1, <3>3, <3>4 DEF Bridge!Leave
  <2>3. CASE \E d \in Callers \ {c} : phase[d] # "gone"
    <3>1. UNCHANGED Gone
      BY <1>t, <2>1, <2>3 DEF Gone, TypeOK
    <3>2. proc' = proc
      BY <1>7, <2>3 DEF Drop
    <3> QED BY <2>1, <3>1, <3>2 DEF Bridge!bridgeVars
  <2> QED BY <2>2, <2>3
<1>8. CASE InstallGuard
  BY <1>8 DEF InstallGuard, Gone, Bridge!bridgeVars
<1>9. CASE Signal
  <2>1. managed \in SUBSET Procs /\ Gone' = Gone
    BY <1>t, <1>9 DEF TypeOK, Signal, Gone
  <2>2. Bridge!Release(managed)
    BY <1>9, <1>r, <2>1 DEF Signal, Bridge!Release
  <2> QED BY <2>1, <2>2 DEF Bridge!Next
<1>10. ASSUME NEW p \in Procs, BridgeReady(p) PROVE UNCHANGED Bridge!bridgeVars
  <2>1. seen' = seen
    BY <1>10, <1>t DEF BridgeReady, Fate
  <2> QED BY <1>10, <2>1 DEF BridgeReady, Gone, Bridge!bridgeVars
<1>11. ASSUME NEW p \in Procs, BridgeExits(p) PROVE Bridge!Exit(p)
  <2>1. p \in Alive /\ seen' = [seen EXCEPT ![p] = "exited"]
    BY <1>11, <1>t DEF BridgeExits, Alive, Fate
  <2> QED BY <1>11, <1>r, <2>1 DEF BridgeExits, Gone, Bridge!Exit
<1>12. CASE UNCHANGED vars
  BY <1>12 DEF vars, Gone, Bridge!bridgeVars
<1>13. {} \in SUBSET Procs
  OBVIOUS
<1> HIDE DEF seen
<1> QED BY <1>2, <1>3, <1>4, <1>5, <1>6, <1>7, <1>8, <1>9, <1>10, <1>11, <1>12, <1>13
        DEF Next, Bridge!Next

\* However many callers race, fail, are cancelled, close or leave, they have one bridge,
\* and keep it (Client::connection, close, Bridge::drop, the exit guard).
THEOREM ImplementsSharedBridge == Spec => SharedBridgeSpec
<1>1. Init => Bridge!Init
  BY BridgeAssumption DEF Init, Gone, Fate, Bridge!Init
<1> QED BY <1>1, SharedBridgeStep, Invariance, PTL DEF Spec, SharedBridgeSpec, Bridge!Spec
==============================================================================
