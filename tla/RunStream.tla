------------------------------ MODULE RunStream ------------------------------
(***************************************************************************)
(* One run of an agent, the streams that carry its events, and the client's*)
(* `Run` handle on it (src/src/run.rs).                                    *)
(*                                                                         *)
(* The bridge is external: it executes the run, appends its durable events *)
(* to a log, pushes them, interleaved with events that are not durable, on *)
(* a live `Send` stream, and replays the log on an `ObserveRun` stream.    *)
(* The two kinds of stream number their messages differently, so the same  *)
(* token means different places on them.  The network may cut a stream at  *)
(* any time and lose what was in flight.                                   *)
(*                                                                         *)
(* The handle reads one stream at a time, remembers the last offset, can   *)
(* be resumed on a new stream, and can be waited on, which falls back to   *)
(* the WaitLiveRun call when the stream ends without a result.             *)
(***************************************************************************)
EXTENDS Naturals, Sequences

CONSTANTS
  None,          \* an absent Option
  ObserveAfter,  \* the offsets a caller may open a durable handle at (0: unset)
  MaxLog,        \* bound: durable events of the run, its result included
  MaxDeltas,     \* bound: live events that are not durable
  MaxDrops,      \* bound: streams cut by the network
  WireCap        \* bound: messages in flight before the bridge stops adding
                 \* keepalives and replayed events

Statuses == {"finished", "error", "cancelled"}

ASSUME RunStreamAssumption ==
  /\ None \notin Nat /\ None \notin Statuses
  /\ ObserveAfter \subseteq Nat
  /\ MaxLog \in Nat /\ MaxDeltas \in Nat /\ MaxDrops \in Nat /\ WireCap \in Nat

VARIABLES
  log,              \* the run's durable events: a sequence of LogKinds
  final,            \* the run's terminal status, None while it executes
  cancelRequested,  \* CancelRun has reached the bridge
  deltas,           \* live events so far that are not in the log
  wire,             \* messages sent on the current stream and not yet read
  fed,              \* the place in the log the current stream has got to
  drops,            \* streams cut so far
  stream,           \* Run.stream: "none", or what the connection behind it is
  runId,            \* Run.run_id is known
  lastOffset,       \* Run.last_offset
  offsetSource,     \* Run.offset_source
  outcome,          \* Run.outcome
  lastStatus,       \* Run.last_status_message: the log index of its event
  phase,            \* where the caller is: between calls, or inside which one
  after,            \* local of `resume`: the offset it asked ObserveRun for
  result,           \* what `wait` returned
  pos,              \* history: how much of the log the handle has behind it
  base,             \* history: where its present reading of the log began
  got               \* history: the durable events its caller has consumed

bridgeVars == <<log, final, cancelRequested, deltas>>
runVars == <<runId, lastOffset, offsetSource, outcome, lastStatus>>
callVars == <<phase, after, result>>
vars == <<bridgeVars, wire, fed, drops, stream, runVars, callVars, pos, base, got>>

LogKinds == {"system", "message", "status", "result"}
Kinds == LogKinds \cup {"delta", "keepalive", "done"}
Sources == {"Live", "Durable"}
Streams == {"none", "live", "durable", "ended", "broken"}
Phases == {"unopened", "idle", "resuming", "waiting", "settling", "waitLive", "returned"}

\* A RunStreamMessage.  `at` is the place in the log its stream had got to when
\* it was sent, itself included; the client sees `kind` and `offset` only.
Messages == [kind : Kinds, at : Nat, offset : Nat \cup {None}]
Outcomes == [status : Statuses, failureMessage : Nat \cup {None}]
Failures == [error : {"noRunId", "timeout", "transport"}]

TypeOK ==
  /\ log \in Seq(LogKinds)
  /\ final \in Statuses \cup {None}
  /\ cancelRequested \in BOOLEAN
  /\ deltas \in Nat
  /\ wire \in Seq(Messages)
  /\ fed \in Nat
  /\ drops \in Nat
  /\ stream \in Streams
  /\ runId \in BOOLEAN
  /\ lastOffset \in Nat \cup {None}
  /\ offsetSource \in Sources
  /\ outcome \in Outcomes \cup {None}
  /\ lastStatus \in Nat \cup {None}
  /\ phase \in Phases
  /\ after \in Nat \cup {None}
  /\ result \in Outcomes \cup Failures \cup {None}
  /\ pos \in Nat
  /\ base \in Nat
  /\ got \in SUBSET Nat

Init ==
  /\ log = <<>> /\ final = None /\ cancelRequested = FALSE /\ deltas = 0
  /\ wire = <<>> /\ fed = 0 /\ drops = 0 /\ stream = "none"
  /\ runId = FALSE /\ lastOffset = None /\ offsetSource = "Live"
  /\ outcome = None /\ lastStatus = None
  /\ phase = "unopened" /\ after = None /\ result = None
  /\ pos = 0 /\ base = 0 /\ got = {}
------------------------------------------------------------------------------
(* The bridge and the network. *)

Message(kind, at, offset) == [kind |-> kind, at |-> at, offset |-> offset]

\* A live stream carries every durable event as it happens, numbered among all
\* the events of that stream.
PublishEvent(kind) ==
  /\ log' = Append(log, kind)
  /\ \/ /\ stream = "live"
        /\ wire' = Append(wire, Message(kind, Len(log) + 1, Len(log) + 1 + deltas))
        /\ fed' = Len(log) + 1
     \/ stream # "live" /\ UNCHANGED <<wire, fed>>

Execute ==
  /\ final = None
  /\ Len(log) + 1 < MaxLog
  /\ \E kind \in LogKinds \ {"result"} :
       /\ (kind = "system") <=> (log = <<>>)
       /\ PublishEvent(kind)
  /\ UNCHANGED <<final, cancelRequested, deltas, drops, stream, runVars, callVars, pos, base, got>>

Terminate ==
  /\ final = None
  /\ log # <<>>
  /\ final' \in IF cancelRequested THEN Statuses ELSE Statuses \ {"cancelled"}
  /\ PublishEvent("result")
  /\ UNCHANGED <<cancelRequested, deltas, drops, stream, runVars, callVars, pos, base, got>>

EmitDelta ==
  /\ stream = "live"
  /\ final = None
  /\ deltas < MaxDeltas
  /\ deltas' = deltas + 1
  /\ wire' = Append(wire, Message("delta", fed, Len(log) + deltas + 1))
  /\ UNCHANGED <<log, final, cancelRequested, fed, drops, stream, runVars, callVars, pos, base, got>>

\* ObserveRun replays the log; there an offset is an index of the log.
Feed ==
  /\ stream = "durable"
  /\ fed < Len(log)
  /\ Len(wire) < WireCap
  /\ fed' = fed + 1
  /\ wire' = Append(wire, Message(log[fed + 1], fed + 1, fed + 1))
  /\ UNCHANGED <<bridgeVars, drops, stream, runVars, callVars, pos, base, got>>

\* A stream with nothing to carry gets an empty message, which has no offset.
Keepalive ==
  /\ stream \in {"live", "durable"}
  /\ final = None
  /\ fed >= Len(log)
  /\ Len(wire) < WireCap
  /\ wire' = Append(wire, Message("keepalive", fed, None))
  /\ UNCHANGED <<bridgeVars, fed, drops, stream, runVars, callVars, pos, base, got>>

\* After the result the bridge ends the stream, with or without a `done`.
EndStream ==
  /\ stream \in {"live", "durable"}
  /\ final # None
  /\ fed >= Len(log)
  /\ \/ wire' = Append(wire, Message("done", fed, None))
     \/ UNCHANGED wire
  /\ stream' = "ended"
  /\ UNCHANGED <<bridgeVars, fed, drops, runVars, callVars, pos, base, got>>

\* The network fails, or the bridge closes the stream early: whatever is in
\* flight may be lost, and the client sees an error or a bare end of stream.
Drop ==
  /\ stream \in {"live", "durable", "ended"}
  /\ drops < MaxDrops
  /\ drops' = drops + 1
  /\ \E kept \in 0..Len(wire) : wire' = SubSeq(wire, 1, kept)
  /\ stream' \in {"broken", "ended"}
  /\ UNCHANGED <<bridgeVars, fed, runVars, callVars, pos, base, got>>
------------------------------------------------------------------------------
(* The Run handle. *)

\* Agent::send returns Run::live on the stream of a run it has just started.
Send ==
  /\ phase = "unopened"
  /\ log = <<>>
  /\ phase' = "idle"
  /\ stream' = "live"
  /\ offsetSource' = "Live"
  /\ UNCHANGED <<bridgeVars, wire, fed, drops, runId, lastOffset, outcome,
                 lastStatus, after, result, pos, base, got>>

\* Client::observe_run returns Run::durable; its last_offset starts empty even
\* when the caller gave an offset.
Observe(offset) ==
  /\ phase = "unopened"
  /\ log # <<>>
  /\ offset <= Len(log)
  /\ phase' = "idle"
  /\ stream' = "durable"
  /\ fed' = offset
  /\ offsetSource' = "Durable"
  /\ runId' = TRUE
  /\ pos' = offset
  /\ base' = offset
  /\ got' = 1..offset
  /\ UNCHANGED <<bridgeVars, wire, drops, lastOffset, outcome, lastStatus, after, result>>

\* next_event may run: a call of the caller's own, or the loop inside `wait`.
Reading == phase \in {"idle", "waiting"}

\* mutant: a keepalive, which has no offset, wipes the one that is remembered
TakeMessage_WipesOffset(m) ==
  /\ wire' = Tail(wire)
  /\ lastOffset' = m.offset
  /\ pos' = IF m.kind \in LogKinds THEN m.at ELSE pos
  /\ got' = IF m.kind \in LogKinds THEN got \cup {m.at} ELSE got

\* What next_event does with any message: the offset is kept if there is one.
TakeMessage(m) ==
  /\ wire' = Tail(wire)
  /\ lastOffset' = IF m.offset # None THEN m.offset ELSE lastOffset
  /\ pos' = IF m.kind \in LogKinds THEN m.at ELSE pos
  /\ got' = IF m.kind \in LogKinds THEN got \cup {m.at} ELSE got

\* No envelope: the loop goes on to the next message.
ReadKeepalive ==
  /\ Reading /\ stream # "none" /\ wire # <<>>
  /\ Head(wire).kind = "keepalive"
  /\ TakeMessage(Head(wire))
  /\ UNCHANGED <<bridgeVars, fed, drops, stream, runId, offsetSource, outcome, lastStatus,
                 callVars, base>>

\* mutant: the first status message is kept, not the last
ReadMessage_FirstStatus ==
  /\ Reading /\ stream # "none" /\ wire # <<>>
  /\ Head(wire).kind \in {"system", "message", "status"}
  /\ TakeMessage(Head(wire))
  /\ runId' = (runId \/ Head(wire).kind = "system")
  /\ lastStatus' = IF Head(wire).kind = "status" /\ lastStatus = None
                   THEN Head(wire).at ELSE lastStatus
  /\ UNCHANGED <<bridgeVars, fed, drops, stream, offsetSource, outcome, callVars, base>>

\* SdkMessage: the first one names the run, a status is remembered.
ReadMessage ==
  /\ Reading /\ stream # "none" /\ wire # <<>>
  /\ Head(wire).kind \in {"system", "message", "status"}
  /\ TakeMessage(Head(wire))
  /\ runId' = (runId \/ Head(wire).kind = "system")
  /\ lastStatus' = IF Head(wire).kind = "status" THEN Head(wire).at ELSE lastStatus
  /\ UNCHANGED <<bridgeVars, fed, drops, stream, offsetSource, outcome, callVars, base>>

\* InteractionUpdate or Step.
ReadDelta ==
  /\ Reading /\ stream # "none" /\ wire # <<>>
  /\ Head(wire).kind = "delta"
  /\ TakeMessage(Head(wire))
  /\ UNCHANGED <<bridgeVars, fed, drops, stream, runId, offsetSource, outcome, lastStatus,
                 callVars, base>>

\* Result: the outcome is kept and the stream stays open.
ReadResult ==
  /\ Reading /\ stream # "none" /\ wire # <<>>
  /\ Head(wire).kind = "result"
  /\ TakeMessage(Head(wire))
  /\ runId' = TRUE
  /\ outcome' = [status |-> final, failureMessage |-> lastStatus]
  /\ UNCHANGED <<bridgeVars, fed, drops, stream, offsetSource, lastStatus, callVars, base>>

\* The stream is dropped; a `wait` leaves its loop, a caller gets its turn back.
CloseStream ==
  /\ stream' = "none"
  /\ wire' = <<>>
  /\ phase' = IF phase = "waiting" THEN "settling" ELSE "idle"

ReadDone ==
  /\ Reading /\ stream # "none" /\ wire # <<>>
  /\ Head(wire).kind = "done"
  /\ runId' = TRUE
  /\ CloseStream
  /\ UNCHANGED <<bridgeVars, fed, drops, lastOffset, offsetSource, outcome, lastStatus,
                 after, result, pos, base, got>>

\* mutant: the loop of `wait` goes on after the end of the stream
ReadEnd_Continues ==
  /\ Reading
  /\ \/ stream = "none"
     \/ stream \in {"broken", "ended"} /\ wire = <<>>
  /\ UNCHANGED vars

\* The stream failed (an error) or is over (None, also when there is none).
ReadEnd ==
  /\ Reading
  /\ \/ stream = "none"
     \/ stream \in {"broken", "ended"} /\ wire = <<>>
  /\ CloseStream
  /\ UNCHANGED <<bridgeVars, fed, drops, runVars, after, result, pos, base, got>>

\* mutants: any offset is sent; the source is switched before the stream is open;
\* the offset is taken for the next event's
ResumeStart_AnyOffset ==
  /\ phase = "idle" /\ runId
  /\ phase' = "resuming"
  /\ after' = lastOffset
  /\ UNCHANGED <<bridgeVars, wire, fed, drops, stream, runVars, result, pos, base, got>>

ResumeStart_SwitchesEarly ==
  /\ phase = "idle" /\ runId
  /\ phase' = "resuming"
  /\ after' = IF offsetSource = "Durable" THEN lastOffset ELSE None
  /\ offsetSource' = "Durable"
  /\ UNCHANGED <<bridgeVars, wire, fed, drops, stream, runId, lastOffset, outcome, lastStatus,
                 result, pos, base, got>>

ResumeStart_OffByOne ==
  /\ phase = "idle" /\ runId
  /\ phase' = "resuming"
  /\ after' = IF offsetSource = "Durable" /\ lastOffset # None THEN lastOffset + 1 ELSE None
  /\ UNCHANGED <<bridgeVars, wire, fed, drops, stream, runVars, result, pos, base, got>>

\* Run::resume, up to its await: it needs the run id, and only an offset of the
\* durable log is sent.
ResumeStart ==
  /\ phase = "idle"
  /\ runId
  /\ phase' = "resuming"
  /\ after' = IF offsetSource = "Durable" THEN lastOffset ELSE None
  /\ UNCHANGED <<bridgeVars, wire, fed, drops, stream, runVars, result, pos, base, got>>

\* mutant: the handle still takes its offsets for those of a live stream
ResumeOk_StaysLive ==
  /\ phase = "resuming"
  /\ phase' = "idle"
  /\ stream' = "durable"
  /\ wire' = <<>>
  /\ \/ after = None /\ lastOffset' = None /\ fed' = 0 /\ pos' = 0 /\ base' = 0
     \/ after # None /\ fed' = after /\ UNCHANGED <<lastOffset, pos, base>>
  /\ after' = None
  /\ UNCHANGED <<bridgeVars, drops, runId, offsetSource, outcome, lastStatus, result, got>>

\* ... and after it: nothing of the handle changes before the stream is open.
ResumeOk ==
  /\ phase = "resuming"
  /\ phase' = "idle"
  /\ stream' = "durable"
  /\ wire' = <<>>
  /\ offsetSource' = "Durable"
  /\ \/ after = None /\ lastOffset' = None /\ fed' = 0 /\ pos' = 0 /\ base' = 0
     \/ after # None /\ fed' = after /\ UNCHANGED <<lastOffset, pos, base>>
  /\ after' = None
  /\ UNCHANGED <<bridgeVars, drops, runId, outcome, lastStatus, result, got>>

\* ObserveRun failed, or the caller dropped the future of `resume`.
ResumeFails ==
  /\ phase = "resuming"
  /\ phase' = "idle"
  /\ after' = None
  /\ UNCHANGED <<bridgeVars, wire, fed, drops, stream, runVars, result, pos, base, got>>

\* Run::cancel needs the run id too.
Cancel ==
  /\ phase = "idle"
  /\ runId
  /\ cancelRequested' = TRUE
  /\ UNCHANGED <<log, final, deltas, wire, fed, drops, stream, runVars, callVars, pos, base, got>>

\* Run::wait consumes the handle and reads to the end of the stream ...
Wait ==
  /\ phase = "idle"
  /\ phase' = "waiting"
  /\ UNCHANGED <<bridgeVars, wire, fed, drops, stream, runVars, after, result, pos, base, got>>

\* mutant: the fallback is asked first
Settle_AsksFirst ==
  /\ phase = "settling"
  /\ \/ runId /\ phase' = "waitLive" /\ UNCHANGED result
     \/ ~runId /\ result' = [error |-> "noRunId"] /\ phase' = "returned"
  /\ UNCHANGED <<bridgeVars, wire, fed, drops, stream, runVars, after, pos, base, got>>

\* ... then returns the outcome it saw, or falls back to WaitLiveRun.
Settle ==
  /\ phase = "settling"
  /\ \/ outcome # None /\ result' = outcome /\ phase' = "returned"
     \/ outcome = None /\ ~runId /\ result' = [error |-> "noRunId"] /\ phase' = "returned"
     \/ outcome = None /\ runId /\ phase' = "waitLive" /\ UNCHANGED result
  /\ UNCHANGED <<bridgeVars, wire, fed, drops, stream, runVars, after, pos, base, got>>

WaitLiveReply ==
  /\ phase = "waitLive"
  /\ final # None
  /\ result' = [status |-> final, failureMessage |-> lastStatus]
  /\ phase' = "returned"
  /\ UNCHANGED <<bridgeVars, wire, fed, drops, stream, runVars, after, pos, base, got>>

\* WaitLiveRun is a unary call: it fails, or outlives the request timeout.
WaitLiveFails ==
  /\ phase = "waitLive"
  /\ result' \in [error : {"timeout", "transport"}]
  /\ phase' = "returned"
  /\ UNCHANGED <<bridgeVars, wire, fed, drops, stream, runVars, after, pos, base, got>>
------------------------------------------------------------------------------
Read == \/ ReadKeepalive \/ ReadMessage \/ ReadDelta
        \/ ReadResult \/ ReadDone \/ ReadEnd

Next ==
  \/ Execute \/ Terminate \/ EmitDelta
  \/ Feed \/ Keepalive \/ EndStream \/ Drop
  \/ Send
  \/ \E offset \in ObserveAfter : Observe(offset)
  \/ ReadKeepalive \/ ReadMessage \/ ReadDelta
  \/ ReadResult \/ ReadDone \/ ReadEnd
  \/ ResumeStart \/ ResumeOk \/ ResumeFails
  \/ Cancel
  \/ Wait \/ Settle \/ WaitLiveReply \/ WaitLiveFails

Spec == Init /\ [][Next]_vars

\* The loop of `wait` and its fallback are driven by the runtime until they
\* finish; the bridge goes on executing the run, feeding an open stream and
\* ending it; it answers WaitLiveRun.  Nothing obliges the network to fail.
WaitFairness ==
  /\ WF_vars(Read) /\ WF_vars(Settle) /\ WF_vars(WaitLiveReply)
  /\ WF_vars(Execute) /\ WF_vars(Terminate)
  /\ WF_vars(Feed) /\ WF_vars(EndStream)

FairSpec == Spec /\ WaitFairness
------------------------------------------------------------------------------
(* Properties. *)

\* Nothing is skipped: when the caller has been given a durable event it has
\* been given (or said it had, by the offset it opened the handle at) every
\* earlier one, whatever was cut, resumed, failed to resume or overlapped
\* (next_event's offset bookkeeping and resume's choice of `after`).
NoEventSkipped == \A i \in got : 1..i \subseteq got

\* The offset `resume` sends to ObserveRun is the place the handle has reached
\* in the durable log; the number of a live stream is never sent.
SentOffsetIsDurable == phase = "resuming" /\ after # None => after = pos

\* A handle on the durable log reads on exactly after the offset it remembers,
\* on the same stream or on a later one (`resume`, OffsetSource::Durable).
ReadsOnAfterLastOffset ==
  [][offsetSource = "Durable" /\ lastOffset # None /\ pos' # pos => pos' = lastOffset + 1]_vars

\* What a failed run says of its failure is the last status message of its log,
\* although the messages and the result may have come on different streams
\* (Run.last_status_message survives a drop and a resume).
LastStatusFrom(first) ==
  LET places == {i \in first..Len(log) : log[i] = "status"}
  IN  IF places = {} THEN None ELSE CHOOSE i \in places : \A j \in places : j <= i

OutcomeTellsLastStatus ==
  outcome # None => outcome = [status |-> final, failureMessage |-> LastStatusFrom(base + 1)]

\* `wait` never loses a result the handle has seen: an error of the stream that
\* comes after the result, or a failed fallback, does not replace it.
WaitKeepsSeenOutcome == phase = "returned" /\ outcome # None => result = outcome

\* `wait` returns: a cut or finished stream cannot leave it in its loop.
WaitReturns == (phase = "waiting") ~> (phase = "returned")

\* The whole handle implements the reader DurableReader describes.
Reader == INSTANCE DurableReader
            WITH StartOffsets <- ObserveAfter,
                 source <- IF phase = "unopened" THEN "unopened" ELSE offsetSource

ReaderSpec == Reader!Spec

\* Why: the messages in flight continue the log from where the handle is, a
\* stream that is open has got as far as the last of them, and on the durable log
\* an offset is a place in it.
Step(m) == IF m.kind \in LogKinds THEN 1 ELSE 0
WireEnd(w, place) == IF w = <<>> THEN place ELSE w[Len(w)].at
InOrder(w, place) ==
  \A i \in 1..Len(w) : w[i].at = (IF i = 1 THEN place ELSE w[i - 1].at) + Step(w[i])

ResultsAreFinal ==
  /\ \A i \in 1..Len(log) : log[i] = "result" => final # None
  /\ \A i \in 1..Len(wire) : wire[i].kind = "result" => final # None

WireInOrder ==
  /\ InOrder(wire, pos)
  /\ \A i \in 1..Len(wire) : wire[i].at <= Len(log)

OpenStreamAtWireEnd == stream \in {"live", "durable"} => fed = WireEnd(wire, pos)

LiveStreamAtLogEnd == stream = "live" => fed = Len(log) /\ offsetSource = "Live"

DurableOffsetsArePlaces ==
  /\ stream = "durable" => offsetSource = "Durable"
  /\ offsetSource = "Durable" =>
       /\ \A i \in 1..Len(wire) :
            wire[i].offset = IF wire[i].kind \in LogKinds THEN wire[i].at ELSE None
       /\ lastOffset = pos \/ (lastOffset = None /\ pos = base)

ResumesWithLastOffset ==
  phase = "resuming" => after = IF offsetSource = "Durable" THEN lastOffset ELSE None

NothingBeforeOpening ==
  /\ stream = "none" => wire = <<>>
  /\ phase = "unopened" => stream = "none" /\ fed = 0 /\ pos = 0 /\ lastOffset = None

ReadPrefix == pos <= Len(log) /\ base <= pos /\ 1..pos \subseteq got

InStep ==
  /\ ResultsAreFinal /\ WireInOrder /\ OpenStreamAtWireEnd /\ LiveStreamAtLogEnd
  /\ DurableOffsetsArePlaces /\ ResumesWithLastOffset
  /\ NothingBeforeOpening /\ ReadPrefix /\ NoEventSkipped

\* Why the outcome is that of the log: what is in flight is what the log has at its
\* place, the result is the log's last event, and the status that is remembered is
\* in the part of the log being read, no earlier than any status read of it.  A
\* reading starts over from the beginning only if it began there.
WireTellsLog ==
  \A i \in 1..Len(wire) :
    wire[i].kind \in LogKinds => wire[i].at \in 1..Len(log) /\ log[wire[i].at] = wire[i].kind

ResultEndsLog == \A i \in 1..Len(log) : log[i] = "result" => i = Len(log)

StatusIsRemembered ==
  /\ lastStatus # None => lastStatus \in base + 1..Len(log) /\ log[lastStatus] = "status"
  /\ \A i \in base + 1..pos : log[i] = "status" => lastStatus # None /\ i <= lastStatus

ReplayKeepsBase ==
  /\ offsetSource = "Live" => base = 0
  /\ outcome # None => final # None /\ (base = 0 \/ lastOffset # None)
  /\ phase = "unopened" => lastStatus = None /\ outcome = None

FallbackHasNoOutcome == phase = "waitLive" => outcome = None

OutcomeInStep ==
  /\ WireTellsLog /\ ResultEndsLog /\ StatusIsRemembered /\ ReplayKeepsBase
  /\ FallbackHasNoOutcome /\ OutcomeTellsLastStatus /\ WaitKeepsSeenOutcome

Inv == TypeOK /\ InStep /\ OutcomeInStep
==============================================================================
