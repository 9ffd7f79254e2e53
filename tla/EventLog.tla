------------------------------- MODULE EventLog -------------------------------
(***************************************************************************)
(* What the runEvents substore promises the bridge that keeps the events of*)
(* its runs there: one log for each run, in which an event is known by its *)
(* place; a keyed append happens once, however often it is asked for, and  *)
(* is always told that place; a reader is given the places of its run one  *)
(* after the other, none left out and none twice.  A run that is deleted   *)
(* begins again as if it had never been, and whoever was reading it is     *)
(* promised nothing any more.                                              *)
(***************************************************************************)
EXTENDS Naturals, Sequences

CONSTANTS
  Runs, Keys, \* the runs, and the keys an append may have
  None        \* no key; no run

VARIABLES
  log,      \* the events of each run, each one its key or None
  answers,  \* the places each (run, key) was told of
  reading,  \* the run of the reader
  lost,     \* it was deleted under the reader
  given     \* the places the reader was given

logVars == <<log, answers, reading, lost, given>>

Recorded(r, key) == \E place \in 1..Len(log[r]) : log[r][place] = key

Init ==
  /\ log = [r \in Runs |-> <<>>]
  /\ answers = [p \in Runs \X Keys |-> {}]
  /\ reading = None /\ lost = FALSE /\ given = <<>>

\* An event is added at the end, a keyed one if its key is new.
Record(r, key) ==
  /\ key # None => ~Recorded(r, key)
  /\ log' = [log EXCEPT ![r] = Append(@, key)]
  /\ answers' = IF key = None THEN answers ELSE [answers EXCEPT ![<<r, key>>] = {Len(log[r]) + 1}]
  /\ UNCHANGED <<reading, lost, given>>

Repeat(r, key) ==
  /\ \E place \in 1..Len(log[r]) :
       /\ log[r][place] = key
       /\ answers' = [answers EXCEPT ![<<r, key>>] = @ \cup {place}]
  /\ UNCHANGED <<log, reading, lost, given>>

Forget(doomed) ==
  /\ log' = [r \in Runs |-> IF r \in doomed THEN <<>> ELSE log[r]]
  /\ answers' = [p \in Runs \X Keys |-> IF p[1] \in doomed THEN {} ELSE answers[p]]
  /\ lost' = (lost \/ reading \in doomed)
  /\ UNCHANGED <<reading, given>>

Start(r) ==
  /\ reading = None
  /\ reading' = r
  /\ UNCHANGED <<log, answers, lost, given>>

\* Some of the places that follow, those up to the last of them.
Read ==
  /\ reading # None /\ ~lost
  /\ \E last \in Len(given)..Len(log[reading]) : given' = [place \in 1..last |-> place]
  /\ UNCHANGED <<log, answers, reading, lost>>

Stray ==
  /\ lost
  /\ UNCHANGED <<log, answers, reading, lost>>

Next ==
  \/ \E doomed \in SUBSET Runs : Forget(doomed)
  \/ \E r \in Runs, key \in Keys \cup {None} : Record(r, key)
  \/ \E r \in Runs, key \in Keys : Repeat(r, key)
  \/ \E r \in Runs : Start(r)
  \/ Read \/ Stray

Spec == Init /\ [][Next]_logVars
===============================================================================
