----------------------------- MODULE SharedBridge -----------------------------
(***************************************************************************)
(* What the clones of a Client may rely on about its bridge, whoever       *)
(* launches it and whatever is cancelled: no two processes run at a time;  *)
(* one of them at most is ever shared, and once one is no other is started;*)
(* the client does not take the shared one away before somebody gave it up,*)
(* by a close or a signal, or the last clone is gone; and then nothing     *)
(* runs, for good.                                                         *)
(***************************************************************************)
CONSTANTS
  Procs,   \* the processes that may be launched
  NoProc   \* none of them

VARIABLES
  proc,      \* each process: "unborn", "running", "exited" by itself, or "killed"
  shared,    \* the process all clones use, NoProc until there is one
  released,  \* it was given up
  gone       \* the last clone was dropped

bridgeVars == <<proc, shared, released, gone>>

Running == {p \in Procs : proc[p] = "running"}

Killed(procs) == proc' = [p \in Procs |-> IF p \in procs \cap Running THEN "killed" ELSE proc[p]]

Init ==
  /\ proc = [p \in Procs |-> "unborn"]
  /\ shared = NoProc /\ released = FALSE /\ gone = FALSE

Launch(p) ==
  /\ ~gone
  /\ shared = NoProc /\ Running = {}
  /\ proc[p] = "unborn"
  /\ proc' = [proc EXCEPT ![p] = "running"]
  /\ UNCHANGED <<shared, released, gone>>

Share(p) ==
  /\ ~gone
  /\ shared = NoProc
  /\ p \in Running
  /\ shared' = p
  /\ UNCHANGED <<proc, released, gone>>

Exit(p) ==
  /\ p \in Running
  /\ proc' = [proc EXCEPT ![p] = "exited"]
  /\ UNCHANGED <<shared, released, gone>>

Kill(procs) ==
  /\ released \/ shared \notin procs
  /\ Killed(procs)
  /\ UNCHANGED <<shared, released, gone>>

Release(procs) ==
  /\ released' = TRUE
  /\ Killed(procs)
  /\ UNCHANGED <<shared, gone>>

Leave ==
  /\ gone' = TRUE
  /\ Killed(Procs)
  /\ UNCHANGED <<shared, released>>

Next ==
  \/ \E p \in Procs : Launch(p) \/ Share(p) \/ Exit(p)
  \/ \E procs \in SUBSET Procs : Kill(procs) \/ Release(procs)
  \/ Leave

Spec == Init /\ [][Next]_bridgeVars
===============================================================================
