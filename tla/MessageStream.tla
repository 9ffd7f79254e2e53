---------------------------- MODULE MessageStream ----------------------------
(***************************************************************************)
(* What a `ServerStream` promises its reader, and what `Run` builds on:    *)
(* the messages the bridge wrote, one by one and in order, then one        *)
(* verdict; `Done` only if the bridge ended the stream there.  The reader  *)
(* may ask again after the verdict and learns nothing new.  A reader that  *)
(* drops a read inside a frame has torn the stream: from there on nothing  *)
(* is promised but that the verdict, whatever it is, is the last.          *)
(***************************************************************************)
EXTENDS Naturals, Sequences

CONSTANTS
  Done,     \* `next` answered None
  Failed,   \* `next` answered an error
  Garbage,  \* `next` answered a message that was never written
  CleanEnd  \* the kinds of frame that end a stream without an error

VARIABLES
  wire,     \* the frames the bridge wrote, each one its kind
  given,    \* what `next` answered: the place of a message in wire, or a verdict
  torn      \* the reader lost part of a frame

streamVars == <<wire, given, torn>>

Judged == \E i \in 1..Len(given) : given[i] \in {Done, Failed}

Upcoming == Len(given) + 1

Init == wire = <<>> /\ given = <<>> /\ torn = FALSE

Write ==
  /\ Len(wire') = Len(wire) + 1
  /\ \A i \in 1..Len(wire) : wire'[i] = wire[i]
  /\ UNCHANGED <<given, torn>>

Give ==
  /\ ~torn
  /\ ~Judged
  /\ Upcoming <= Len(wire)
  /\ given' = Append(given, Upcoming)
  /\ UNCHANGED <<wire, torn>>

End ==
  /\ ~torn
  /\ ~Judged
  /\ Upcoming <= Len(wire)
  /\ wire[Upcoming] \in CleanEnd
  /\ given' = Append(given, Done)
  /\ UNCHANGED <<wire, torn>>

Fail ==
  /\ ~Judged
  /\ given' = Append(given, Failed)
  /\ UNCHANGED <<wire, torn>>

Tear ==
  /\ torn' = TRUE
  /\ UNCHANGED <<wire, given>>

Stray ==
  /\ torn
  /\ ~Judged
  /\ \E item \in {Garbage, Done} : given' = Append(given, item)
  /\ UNCHANGED <<wire, torn>>

Repeat ==
  /\ Judged
  /\ given' = Append(given, Done)
  /\ UNCHANGED <<wire, torn>>

Next == Write \/ Give \/ End \/ Fail \/ Tear \/ Stray \/ Repeat

Spec == Init /\ [][Next]_streamVars
==============================================================================
