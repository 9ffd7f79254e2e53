---------------------------- MODULE DurableReader ----------------------------
(***************************************************************************)
(* What `Run` promises a caller about a run's durable event log, whatever  *)
(* happens to the streams that carry it: the events are read in log order  *)
(* with none skipped; a handle that was streaming live may go back to the  *)
(* beginning, once, and a handle that reads the durable log never does.    *)
(* RunStream, with its connections, offsets and failures, implements this. *)
(***************************************************************************)
EXTENDS Naturals, Sequences

CONSTANT StartOffsets   \* the offsets a caller may open a durable handle at

VARIABLES
  log,      \* the run's durable events, append-only
  source,   \* "unopened", "Live" or "Durable"
  pos       \* how many events of the log the reader has behind it

readerVars == <<log, source, pos>>

Init ==
  /\ log = <<>>
  /\ source = "unopened"
  /\ pos = 0

\* The run goes on whether or not anybody reads it.
Extend ==
  /\ Len(log') = Len(log) + 1
  /\ \A i \in 1..Len(log) : log'[i] = log[i]
  /\ UNCHANGED <<source, pos>>

Open ==
  /\ source = "unopened"
  /\ \/ source' = "Live" /\ pos' = 0
     \/ source' = "Durable" /\ pos' \in StartOffsets /\ pos' <= Len(log)
  /\ UNCHANGED log

ReadNext ==
  /\ source # "unopened"
  /\ pos < Len(log)
  /\ pos' = pos + 1
  /\ UNCHANGED <<log, source>>

\* The only way back: from the live stream to the start of the durable log.
Replay ==
  /\ source = "Live"
  /\ source' = "Durable"
  /\ pos' = 0
  /\ UNCHANGED log

Next == Extend \/ Open \/ ReadNext \/ Replay

Spec == Init /\ [][Next]_readerVars
==============================================================================
