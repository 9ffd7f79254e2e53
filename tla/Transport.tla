------------------------------ MODULE Transport ------------------------------
(***************************************************************************)
(* One RPC to the bridge (src/src/transport.rs): a unary call, or a server *)
(* stream and the `ServerStream` its caller reads.                         *)
(*                                                                         *)
(* The bridge and the network are external.  The bridge answers with       *)
(* headers, then with a body; on a stream the body is a sequence of        *)
(* length-prefixed frames that arrive in pieces, a header and a payload,   *)
(* and the body may end or break after any of them.                        *)
(*                                                                         *)
(* `next` reads a frame with two `read_exact` calls into locals.  A caller *)
(* may drop a `next` that is pending; what it had read goes with it.       *)
(***************************************************************************)
EXTENDS Naturals, Sequences

CONSTANTS
  Done, Failed,   \* what `next` answers: None, an error
  Garbage,        \* a message made of bytes that were not one
  MaxFrames,      \* bound: frames on the stream
  MaxAsked        \* bound: answers of `next`

ASSUME TransportAssumption ==
  /\ Done \notin Nat /\ Failed \notin Nat /\ Garbage \notin Nat
  /\ Done # Failed /\ Garbage \notin {Done, Failed}
  /\ MaxFrames \in Nat /\ MaxAsked \in Nat

\* Frames by what the client makes of them.  `keepalive` and `bareEnd` have no
\* payload; `garbledEnd` is an end frame whose JSON does not parse.
MessageKinds == {"message", "keepalive"}
CleanEnd == {"bareEnd", "end", "garbledEnd"}
FaultyKinds == {"undecodable", "compressed", "errorEnd"}
FrameKinds == MessageKinds \cup CleanEnd \cup FaultyKinds
Bare == {"keepalive", "bareEnd"}
Ends == CleanEnd \cup {"errorEnd"}

VARIABLES
  call,       \* "unary" or "stream"
  phase,      \* where the call is
  late,       \* request_timeout has passed since the request was made
  status,     \* the HTTP status of the response: "none" yet, "ok" or "error"
  result,     \* what the call returned, "none" before it has
  wire,       \* the frames the bridge has written
  arrived,    \* how many pieces have reached the client, two to a frame
  connection, \* the response body: "open", "closed" (end of file) or "broken"
  taken,      \* how many pieces the reader has consumed
  reading,    \* `next`: not running, or which `read_exact` it is in
  finished,   \* ServerStream.finished
  given,      \* history: the answers of `next`
  torn        \* history: a `next` was dropped with part of a frame in its locals

callVars == <<call, phase, late, status, result>>
bodyVars == <<wire, arrived, connection>>
readerVars == <<taken, reading, finished, given, torn>>
vars == <<callVars, bodyVars, readerVars>>

Phases == {"headers", "body", "streaming", "over"}
Results == {"none", "timeout", "transport", "rpcError", "decode", "value", "stream"}
Answers == Nat \cup {Done, Failed, Garbage}

TypeOK ==
  /\ call \in {"unary", "stream"}
  /\ phase \in Phases
  /\ late \in BOOLEAN
  /\ status \in {"none", "ok", "error"}
  /\ result \in Results
  /\ wire \in Seq(FrameKinds)
  /\ arrived \in Nat
  /\ connection \in {"open", "closed", "broken"}
  /\ taken \in Nat
  /\ reading \in {"idle", "header", "payload"}
  /\ finished \in BOOLEAN
  /\ given \in Seq(Answers)
  /\ torn \in BOOLEAN

Init ==
  /\ call \in {"unary", "stream"}
  /\ phase = "headers" /\ late = FALSE /\ status = "none" /\ result = "none"
  /\ wire = <<>> /\ arrived = 0 /\ connection = "open"
  /\ taken = 0 /\ reading = "idle" /\ finished = FALSE /\ given = <<>> /\ torn = FALSE
------------------------------------------------------------------------------
(* The call: the deadline, the headers, and the body of anything but a     *)
(* stream that opened.                                                      *)

DeadlinePasses ==
  /\ ~late
  /\ phase # "over"
  /\ late' = TRUE
  /\ UNCHANGED <<call, phase, status, result, bodyVars, readerVars>>

Return(outcome) ==
  /\ phase' = "over"
  /\ result' = outcome

\* The deadline covers the request up to its response headers, and no more.
TimesOut ==
  /\ phase = "headers"
  /\ late
  /\ Return("timeout")
  /\ UNCHANGED <<call, late, status, bodyVars, readerVars>>

RequestFails ==
  /\ phase = "headers"
  /\ Return("transport")
  /\ UNCHANGED <<call, late, status, bodyVars, readerVars>>

HeadersOfBody ==
  /\ phase = "headers"
  /\ status' \in {"ok", "error"}
  /\ call = "stream" => status' = "error"
  /\ phase' = "body"
  /\ UNCHANGED <<call, late, result, bodyVars, readerVars>>

StreamOpens ==
  /\ phase = "headers"
  /\ call = "stream"
  /\ status' = "ok"
  /\ phase' = "streaming"
  /\ result' = "stream"
  /\ UNCHANGED <<call, late, bodyVars, readerVars>>

BodyArrives ==
  /\ phase = "body"
  /\ \/ status = "error" /\ Return("rpcError")
     \/ status = "ok" /\ (Return("value") \/ Return("decode"))
  /\ UNCHANGED <<call, late, status, bodyVars, readerVars>>

BodyBreaks ==
  /\ phase = "body"
  /\ Return("transport")
  /\ UNCHANGED <<call, late, status, bodyVars, readerVars>>
------------------------------------------------------------------------------
(* The body of a stream: the bridge writes it, the network carries it.     *)

WriteFrame(kind) ==
  /\ phase = "streaming"
  /\ connection = "open"
  /\ Len(wire) < MaxFrames
  /\ \A i \in 1..Len(wire) : wire[i] \notin Ends
  /\ wire' = Append(wire, kind)
  /\ UNCHANGED <<callVars, arrived, connection, readerVars>>

\* A bare frame is all header: nothing is left to arrive after it.
Arrive ==
  /\ phase = "streaming"
  /\ connection = "open"
  /\ arrived < 2 * Len(wire)
  /\ arrived' \in {arrived + 1, arrived + 2}
  /\ arrived' <= 2 * Len(wire)
  /\ arrived' % 2 = 1 => wire[(arrived' \div 2) + 1] \notin Bare
  /\ UNCHANGED <<callVars, wire, connection, readerVars>>

BodyStops ==
  /\ phase = "streaming"
  /\ connection = "open"
  /\ connection' \in {"closed", "broken"}
  /\ UNCHANGED <<callVars, wire, arrived, readerVars>>
------------------------------------------------------------------------------
(* The reader.                                                             *)

Ask ==
  /\ phase = "streaming"
  /\ reading = "idle"
  /\ ~finished
  /\ Len(given) < MaxAsked
  /\ reading' = "header"
  /\ UNCHANGED <<callVars, bodyVars, taken, finished, given, torn>>

\* Asking after the verdict.
AskAgain ==
  /\ phase = "streaming"
  /\ reading = "idle"
  /\ finished
  /\ Len(given) < MaxAsked
  /\ given' = Append(given, Done)
  /\ UNCHANGED <<callVars, bodyVars, taken, reading, finished, torn>>

\* `next` answers; anything but a message is final.
Answer(item) ==
  /\ given' = Append(given, item)
  /\ finished' = (item \in {Done, Failed})
  /\ reading' = "idle"

ReadHeader ==
  /\ reading = "header"
  /\ ~torn
  /\ taken < arrived
  /\ taken' = taken + 1
  /\ reading' = "payload"
  /\ UNCHANGED <<callVars, bodyVars, finished, given, torn>>

\* The frame whose header the reader has.
Frame == (taken + 1) \div 2

\* mutant: a message that does not decode is passed over
ReadPayload_Skips ==
  /\ reading = "payload"
  /\ taken < arrived
  /\ taken' = taken + 1
  /\ \/ wire[Frame] \in FaultyKinds \ {"undecodable"} /\ Answer(Failed)
     \/ wire[Frame] \in CleanEnd /\ Answer(Done)
     \/ wire[Frame] \in MessageKinds /\ Answer(Frame)
     \/ wire[Frame] = "undecodable" /\ reading' = "header" /\ UNCHANGED <<finished, given>>
  /\ UNCHANGED <<callVars, bodyVars, torn>>

\* mutant: the error of an end frame is not looked at
ReadPayload_EndIsEnd ==
  /\ reading = "payload"
  /\ taken < arrived
  /\ taken' = taken + 1
  /\ \/ wire[Frame] \in FaultyKinds \ Ends /\ Answer(Failed)
     \/ wire[Frame] \in Ends /\ Answer(Done)
     \/ wire[Frame] \in MessageKinds /\ Answer(Frame)
  /\ UNCHANGED <<callVars, bodyVars, torn>>

\* mutant: a frame without a payload is taken for a cut one
ReadPayload_BareFails ==
  /\ reading = "payload"
  /\ taken < arrived
  /\ taken' = taken + 1
  /\ \/ wire[Frame] \in FaultyKinds \cup Bare /\ Answer(Failed)
     \/ wire[Frame] \in CleanEnd \ Bare /\ Answer(Done)
     \/ wire[Frame] \in MessageKinds \ Bare /\ Answer(Frame)
  /\ UNCHANGED <<callVars, bodyVars, torn>>

\* The payload is here: what the frame says is decided in the order of the code.
ReadPayload ==
  /\ reading = "payload"
  /\ taken < arrived
  /\ taken' = taken + 1
  /\ \/ wire[Frame] \in FaultyKinds /\ Answer(Failed)
     \/ wire[Frame] \in CleanEnd /\ Answer(Done)
     \/ wire[Frame] \in MessageKinds /\ Answer(Frame)
  /\ UNCHANGED <<callVars, bodyVars, torn>>

\* mutant: a frame cut after its header is waited for
ReadFails_HeaderOnly ==
  /\ reading = "header"
  /\ taken = arrived
  /\ connection # "open"
  /\ Answer(Failed)
  /\ UNCHANGED <<callVars, bodyVars, taken, torn>>

\* `read_exact` meets the end of the body, or its error, before it has enough.
ReadFails ==
  /\ reading \in {"header", "payload"}
  /\ taken = arrived
  /\ connection # "open"
  /\ Answer(Failed)
  /\ UNCHANGED <<callVars, bodyVars, taken, torn>>

\* Once a frame was torn, bytes are taken for what they are not.
Misread ==
  /\ reading = "header"
  /\ torn
  /\ taken < arrived
  /\ taken' \in (taken + 1)..arrived
  /\ \E item \in {Garbage, Done, Failed} : Answer(item)
  /\ UNCHANGED <<callVars, bodyVars, torn>>

\* The caller drops a `next` that waits for bytes: it tears the frame it has a header,
\* or a part of one, of.
Abandon ==
  /\ reading \in {"header", "payload"}
  /\ taken = arrived
  /\ connection = "open"
  /\ reading' = "idle"
  /\ \/ reading = "header" /\ UNCHANGED torn
     \/ (reading = "payload" \/ arrived < 2 * Len(wire)) /\ torn' = TRUE
  /\ UNCHANGED <<callVars, bodyVars, taken, finished, given>>

\* Dropping the stream, with any read that is pending, closes the connection.
DropStream ==
  /\ phase = "streaming"
  /\ phase' = "over"
  /\ reading' = "idle"
  /\ UNCHANGED <<call, late, status, result, bodyVars, taken, finished, given, torn>>

Stopped == phase = "over" /\ UNCHANGED vars

NetworkStep == Arrive \/ BodyStops \/ (\E kind \in FrameKinds : WriteFrame(kind))
CallStep ==
  TimesOut \/ RequestFails \/ HeadersOfBody \/ StreamOpens \/ BodyArrives \/ BodyBreaks
ReadStep == ReadHeader \/ ReadPayload \/ ReadFails \/ Misread

Next ==
  \/ DeadlinePasses \/ CallStep \/ NetworkStep
  \/ Ask \/ AskAgain \/ ReadStep \/ Abandon \/ DropStream \/ Stopped

Spec == Init /\ [][Next]_vars

\* The timer fires and the reader's task is polled; neither the bridge nor the
\* network owes anything.
FairSpec ==
  /\ Spec
  /\ WF_vars(TimesOut)
  /\ WF_vars(ReadHeader) /\ WF_vars(ReadPayload) /\ WF_vars(ReadFails)
------------------------------------------------------------------------------
(* Safety. *)

Verdicts == {Done, Failed}

\* Up to the verdict, the reader is given the bridge's messages in the order
\* they were written, none skipped and none twice, also by a reader that drops
\* pending reads between frames (transport.rs:246-260, 273-324).
GivenInOrder ==
  ~torn => \A i \in 1..Len(given) :
             (\A j \in 1..i : given[j] \notin Verdicts) => given[i] = i

\* A stream that ends with None was ended by the bridge, and everything the
\* bridge wrote before its end frame was given: a cut is never taken for an end
\* (transport.rs:275-283, 307-318).
CleanEndMeansAll ==
  ~torn => \A i \in 1..Len(given) :
             (given[i] = Done /\ \A j \in 1..(i - 1) : given[j] \notin Verdicts)
               => /\ i <= Len(wire)
                  /\ wire[i] \in CleanEnd
                  /\ \A j \in 1..(i - 1) : given[j] = j /\ wire[j] \in MessageKinds

\* An error is somebody's: the bridge wrote a frame that says so or cannot be
\* read, or the body stopped (transport.rs:275-305, 313-323).
ErrorMeansFault ==
  ~torn => \A i \in 1..Len(given) :
             given[i] = Failed =>
               connection # "open" \/ (i <= Len(wire) /\ wire[i] \in FaultyKinds)

\* The verdict is final, even for bytes out of step: no message and no second
\* error follows it (transport.rs:247-259).
Fused ==
  \A i, j \in 1..Len(given) : i < j /\ given[i] \in Verdicts => given[j] = Done

\* The reader keeps step with the frames: it has consumed those it has answered
\* for, and the header of the next one while it reads that one's payload.
Pieces == taken <= arrived /\ arrived <= 2 * Len(wire)

InStep ==
  ~torn /\ ~finished /\ phase # "over" =>
    /\ reading = "payload" => taken = 2 * Len(given) + 1
    /\ reading # "payload" => taken = 2 * Len(given)
    /\ \A i \in 1..Len(given) : given[i] = i /\ wire[i] \in MessageKinds

\* `next` borrows the stream, so it runs only while there is one; a torn frame was
\* given up.
ReadsWhileOpen ==
  /\ reading # "idle" => phase = "streaming"
  /\ torn => reading # "payload"

\* The flag of the stream is what its reader was told.
FinishedMeansVerdict ==
  /\ finished => reading = "idle" /\ \E i \in 1..Len(given) : given[i] \in Verdicts
  /\ ~finished => \A i \in 1..Len(given) : given[i] \notin Verdicts

\* What a step relies on.
Inv == TypeOK /\ Pieces /\ InStep /\ ReadsWhileOpen /\ FinishedMeansVerdict

\* The caller sees the stream MessageStream promises, torn when it dropped a read
\* inside a frame and only then.
Promise == INSTANCE MessageStream
PromisedStream == Promise!Spec
------------------------------------------------------------------------------
(* Liveness. *)

\* A body that stops never leaves a reader waiting: the `next` that is pending
\* answers (transport.rs:275-294).
PendingReadAnswers ==
  (reading # "idle" /\ connection # "open" /\ ~torn) ~> (reading = "idle")

\* src/docs/cursor-sdk-rust.md:1235: "Deadline for a unary RPC, and for a
\* stream's response headers."  The unary RPC has the same deadline as a stream:
\* its body is collected without one (transport.rs:137-146).
UnaryMeetsDeadline == (call = "unary" /\ late) ~> (phase = "over")
==============================================================================
