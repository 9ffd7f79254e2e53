--------------------------- MODULE RunStream_proofs ---------------------------
(***************************************************************************)
(* Proofs about RunStream for every log, every number of deltas and drops  *)
(* and every set of opening offsets.                                       *)
(***************************************************************************)
EXTENDS RunStream, SequenceTheorems, TLAPS

\* A message is a record of its three fields, whatever they are.
LEMMA MessageType ==
  ASSUME NEW kind \in Kinds, NEW at \in Nat, NEW offset \in Nat \cup {None}
  PROVE  Message(kind, at, offset) \in Messages
BY DEF Message, Messages

\* What the operations of the network and of next_event do to messages in order:
\* one more that continues them, the first one taken, the tail lost.
LEMMA AppendInOrder ==
  ASSUME NEW w \in Seq(Messages), NEW m \in Messages, NEW p \in Nat,
         InOrder(w, p), m.at = WireEnd(w, p) + Step(m)
  PROVE  /\ InOrder(Append(w, m), p)
         /\ WireEnd(Append(w, m), p) = m.at
<1> DEFINE v == Append(w, m)
<1>1. /\ v \in Seq(Messages) /\ v # <<>> /\ v[Len(w) + 1] = m
      /\ Len(w) \in Nat /\ Len(v) = Len(w) + 1
  BY AppendProperties
<1>2. \A i \in 1..Len(w) : v[i] = w[i]
  BY AppendProperties
<1>3. w = <<>> <=> Len(w) = 0
  BY EmptySeq
<1> HIDE DEF v
<1>5. InOrder(v, p)
  <2> SUFFICES ASSUME NEW i \in 1..Len(v)
               PROVE  v[i].at = (IF i = 1 THEN p ELSE v[i - 1].at) + Step(v[i])
    BY DEF InOrder
  <2>1. CASE i \in 1..Len(w)
    <3>1. i # 1 => v[i - 1] = w[i - 1]
      BY <2>1, <1>2
    <3>2. QED
      BY <2>1, <3>1, <1>2 DEF InOrder
  <2>2. CASE i = Len(w) + 1
    <3>1. CASE Len(w) = 0
      BY <2>2, <3>1, <1>1, <1>3 DEF WireEnd
    <3>2. CASE Len(w) # 0
      <4>1. i # 1 /\ i - 1 = Len(w) /\ v[i - 1] = w[Len(w)]
        BY <2>2, <3>2, <1>2
      <4>2. QED
        BY <2>2, <3>2, <4>1, <1>1, <1>3 DEF WireEnd
    <3>3. QED
      BY <3>1, <3>2
  <2>3. QED
    BY <2>1, <2>2, <1>1
<1>6. QED
  BY <1>1, <1>5 DEF v, WireEnd

LEMMA TailInOrder ==
  ASSUME NEW w \in Seq(Messages), NEW p \in Nat, InOrder(w, p), w # <<>>
  PROVE  /\ Head(w).at = p + Step(Head(w))
         /\ InOrder(Tail(w), Head(w).at)
         /\ WireEnd(Tail(w), Head(w).at) = WireEnd(w, p)
         /\ \A i \in 1..Len(Tail(w)) : i + 1 \in 1..Len(w) /\ Tail(w)[i] = w[i + 1]
<1> DEFINE t == Tail(w)
<1>1. /\ Len(w) \in Nat /\ Len(w) >= 1 /\ Head(w) = w[1]
      /\ t \in Seq(Messages) /\ Len(t) = Len(w) - 1
  BY HeadTailProperties, EmptySeq
<1>2. \A i \in 1..Len(t) : i + 1 \in 1..Len(w) /\ t[i] = w[i + 1]
  BY <1>1, HeadTailProperties
<1>3. t = <<>> <=> Len(t) = 0
  BY <1>1, EmptySeq
<1> HIDE DEF t
<1>4. Head(w).at = p + Step(Head(w))
  BY <1>1 DEF InOrder
<1>5. InOrder(t, Head(w).at)
  <2> SUFFICES ASSUME NEW i \in 1..Len(t)
               PROVE  t[i].at = (IF i = 1 THEN w[1].at ELSE t[i - 1].at) + Step(t[i])
    BY <1>1 DEF InOrder
  <2>1. w[i + 1].at = w[i].at + Step(w[i + 1])
    <3>1. i + 1 \in 1..Len(w) /\ i + 1 # 1 /\ (i + 1) - 1 = i
      BY <1>1, <1>2
    <3>2. QED
      BY <3>1 DEF InOrder
  <2>2. i # 1 => t[i - 1] = w[i]
    BY <1>1, <1>2
  <2>3. QED
    BY <2>1, <2>2, <1>2
<1>6. WireEnd(t, Head(w).at) = WireEnd(w, p)
  <2>1. CASE Len(t) = 0
    <3>1. Len(w) = 1
      BY <2>1, <1>1
    <3>2. QED
      BY <2>1, <3>1, <1>1, <1>3 DEF WireEnd
  <2>2. CASE Len(t) # 0
    <3>1. t[Len(t)] = w[Len(w)]
      BY <2>2, <1>1, <1>2
    <3>2. QED
      BY <2>2, <3>1, <1>3 DEF WireEnd
  <2>3. QED
    BY <2>1, <2>2
<1>7. QED
  BY <1>2, <1>4, <1>5, <1>6 DEF t

LEMMA PrefixInOrder ==
  ASSUME NEW w \in Seq(Messages), NEW p \in Nat, InOrder(w, p), NEW kept \in 0..Len(w)
  PROVE  /\ SubSeq(w, 1, kept) \in Seq(Messages)
         /\ InOrder(SubSeq(w, 1, kept), p)
         /\ Len(SubSeq(w, 1, kept)) = kept
         /\ \A i \in 1..kept : SubSeq(w, 1, kept)[i] = w[i]
<1> DEFINE s == SubSeq(w, 1, kept)
<1>1. s \in Seq(Messages) /\ Len(s) = kept /\ \A i \in 1..kept : s[i] = w[i]
  BY SubSeqProperties
<1> HIDE DEF s
<1>2. InOrder(s, p)
  BY <1>1 DEF InOrder
<1>3. QED
  BY <1>1, <1>2 DEF s
-------------------------------------------------------------------------------

(* Types. *)

LEMMA InitTyped == Init => TypeOK /\ ResultsAreFinal
<1> SUFFICES ASSUME Init PROVE TypeOK /\ ResultsAreFinal
  OBVIOUS
<1>1. log \in Seq(LogKinds) /\ wire \in Seq(Messages)
  BY DEF Init
<1>2. phase \in Phases /\ stream \in Streams /\ offsetSource \in Sources
  BY DEF Init, Sources, Streams, Phases
<1>3. TypeOK
  BY <1>1, <1>2 DEF Init, TypeOK
<1>4. Len(log) = 0 /\ Len(wire) = 0
  BY DEF Init
<1>5. QED
  BY <1>3, <1>4 DEF ResultsAreFinal

LEMMA StepTyped ==
  ASSUME TypeOK, ResultsAreFinal, [Next]_vars
  PROVE  TypeOK'
<1> USE RunStreamAssumption DEF TypeOK
<1>1. ASSUME NEW kind \in LogKinds, PublishEvent(kind)
      PROVE  log' \in Seq(LogKinds) /\ wire' \in Seq(Messages) /\ fed' \in Nat
  <2>1. kind \in Kinds /\ Len(log) + 1 \in Nat /\ Len(log) + 1 + deltas \in Nat
    BY DEF Kinds
  <2>2. Message(kind, Len(log) + 1, Len(log) + 1 + deltas) \in Messages
    BY <2>1, MessageType
  <2>3. log' \in Seq(LogKinds)
    BY <1>1 DEF PublishEvent
  <2>4. CASE stream = "live"
    <3>1. wire' = Append(wire, Message(kind, Len(log) + 1, Len(log) + 1 + deltas))
          /\ fed' = Len(log) + 1
      BY <1>1, <2>4 DEF PublishEvent
    <3>2. QED
      BY <3>1, <2>1, <2>2, <2>3, AppendProperties
  <2>5. CASE stream # "live"
    BY <1>1, <2>3, <2>5 DEF PublishEvent
  <2>6. QED
    BY <2>4, <2>5, <2>3
<1>2. CASE Execute
  BY <1>2, <1>1 DEF Execute, runVars, callVars
<1>3. CASE Terminate
  BY <1>3, <1>1 DEF Terminate, runVars, callVars, LogKinds, Statuses
<1>4. CASE EmitDelta
  <2>1. "delta" \in Kinds /\ Len(log) + deltas + 1 \in Nat
    BY DEF Kinds
  <2> Message("delta", fed, Len(log) + deltas + 1) \in Messages
    BY <2>1, MessageType
  <2>2. QED
    BY <1>4, <2>1 DEF EmitDelta, runVars, callVars
<1>5. CASE Feed
  <2>1. log[fed + 1] \in LogKinds
    BY <1>5 DEF Feed
  <2>2. Message(log[fed + 1], fed + 1, fed + 1) \in Messages
    BY <2>1, MessageType DEF Kinds
  <2>3. QED
    BY <1>5, <2>2 DEF Feed, bridgeVars, runVars, callVars
<1>6. CASE Keepalive
  <2>1. Message("keepalive", fed, None) \in Messages
    BY MessageType DEF Kinds
  <2>2. QED
    BY <1>6, <2>1 DEF Keepalive, bridgeVars, runVars, callVars
<1>7. CASE EndStream
  <2>1. Message("done", fed, None) \in Messages
    BY MessageType DEF Kinds
  <2>2. QED
    BY <1>7, <2>1 DEF EndStream, Streams, bridgeVars, runVars, callVars
<1>8. CASE Drop
  <2>1. ASSUME NEW kept \in 0..Len(wire)
        PROVE  SubSeq(wire, 1, kept) \in Seq(Messages)
    BY SubSeqProperties
  <2>2. QED
    BY <1>8, <2>1 DEF Drop, Streams, bridgeVars, runVars, callVars
<1>9. CASE Send
  BY <1>9 DEF Send, Streams, Phases, Sources, bridgeVars
<1>10. ASSUME NEW offset \in ObserveAfter, Observe(offset)
       PROVE  TypeOK'
  BY <1>10 DEF Observe, Streams, Phases, Sources, bridgeVars
<1>11. ASSUME wire # <<>>, TakeMessage(Head(wire))
       PROVE  /\ Head(wire) \in Messages
              /\ wire' \in Seq(Messages) /\ lastOffset' \in Nat \cup {None}
              /\ pos' \in Nat /\ got' \in SUBSET Nat
  <2>1. Head(wire) \in Messages /\ Tail(wire) \in Seq(Messages)
    BY <1>11
  <2>2. Head(wire).at \in Nat /\ Head(wire).offset \in Nat \cup {None}
    BY <2>1 DEF Messages
  <2>3. QED
    BY <1>11, <2>1, <2>2 DEF TakeMessage
<1>12. CASE ReadKeepalive
  BY <1>12, <1>11 DEF ReadKeepalive, bridgeVars, callVars
<1>13. CASE ReadMessage
  BY <1>13, <1>11 DEF ReadMessage, bridgeVars, callVars, Messages
<1>14. CASE ReadDelta
  BY <1>14, <1>11 DEF ReadDelta, bridgeVars, callVars
<1>15. CASE ReadResult
  <2>1. final \in Statuses
    BY <1>15 DEF ReadResult, ResultsAreFinal
  <2>2. QED
    BY <1>15, <1>11, <2>1 DEF ReadResult, bridgeVars, callVars, Outcomes
<1>16. CASE ReadDone
  BY <1>16 DEF ReadDone, CloseStream, Streams, Phases, bridgeVars
<1>17. CASE ReadEnd
  BY <1>17 DEF ReadEnd, CloseStream, Streams, Phases, bridgeVars, runVars
<1>18. CASE ResumeStart
  BY <1>18 DEF ResumeStart, Phases, bridgeVars, runVars
<1>19. CASE ResumeOk
  BY <1>19 DEF ResumeOk, Streams, Phases, Sources, bridgeVars
<1>20. CASE ResumeFails
  BY <1>20 DEF ResumeFails, Phases, bridgeVars, runVars
<1>21. CASE Cancel
  BY <1>21 DEF Cancel, runVars, callVars
<1>22. CASE Wait
  BY <1>22 DEF Wait, Phases, bridgeVars, runVars
<1>23. CASE Settle
  BY <1>23 DEF Settle, Phases, Failures, bridgeVars, runVars
<1>24. CASE WaitLiveReply
  BY <1>24 DEF WaitLiveReply, Phases, Outcomes, bridgeVars, runVars
<1>25. CASE WaitLiveFails
  BY <1>25 DEF WaitLiveFails, Phases, Failures, bridgeVars, runVars
<1>26. CASE UNCHANGED vars
  BY <1>26 DEF vars, bridgeVars, runVars, callVars
<1>27. QED
  BY <1>2, <1>3, <1>4, <1>5, <1>6, <1>7, <1>8, <1>9, <1>10, <1>12, <1>13, <1>14,
     <1>15, <1>16, <1>17, <1>18, <1>19, <1>20, <1>21, <1>22, <1>23, <1>24, <1>25,
     <1>26 DEF Next
-------------------------------------------------------------------------------
(* The inductive invariant. *)

\* The offset a message would carry on the durable log.
Place(m) == IF m.kind \in LogKinds THEN m.at ELSE None

\* A message added to an open stream continues it.
LEMMA PushStep ==
  ASSUME TypeOK, InStep, NEW m \in Messages, wire' = Append(wire, m), pos' = pos,
         stream \in {"live", "durable"}, m.at = fed + Step(m),
         log' \in Seq(LogKinds), Len(log) <= Len(log'), m.at <= Len(log'),
         final # None => final' # None, m.kind = "result" => final' # None
  PROVE  /\ WireInOrder'
         /\ WireEnd(wire', pos') = m.at
         /\ \A i \in 1..Len(wire') : wire'[i].kind = "result" => final' # None
         /\ offsetSource = "Durable" /\ m.offset = Place(m) =>
              \A i \in 1..Len(wire') : wire'[i].offset = Place(wire'[i])
<1> USE DEF TypeOK, InStep
<1>1. WireEnd(wire, pos) = fed /\ InOrder(wire, pos)
  BY DEF OpenStreamAtWireEnd, WireInOrder
<1>2. InOrder(wire', pos') /\ WireEnd(wire', pos') = m.at
  BY <1>1, AppendInOrder
<1>3. /\ Len(wire') = Len(wire) + 1 /\ wire'[Len(wire) + 1] = m
      /\ \A i \in 1..Len(wire) : wire'[i] = wire[i]
  BY AppendProperties
<1>4. \A i \in 1..Len(wire') : i \in 1..Len(wire) \/ i = Len(wire) + 1
  BY <1>3
<1>5. \A i \in 1..Len(wire') : wire'[i].at <= Len(log')
  <2>1. \A i \in 1..Len(wire) : wire[i].at \in Nat /\ wire[i].at <= Len(log)
    <3>1. \A i \in 1..Len(wire) : wire[i] \in Messages
      OBVIOUS
    <3>2. QED
      BY <3>1 DEF WireInOrder, Messages
  <2>2. Len(log) \in Nat /\ Len(log') \in Nat
    OBVIOUS
  <2>3. QED
    BY <2>1, <2>2, <1>3, <1>4
<1>6. \A i \in 1..Len(wire') : wire'[i].kind = "result" => final' # None
  BY <1>3, <1>4 DEF ResultsAreFinal
<1>7. offsetSource = "Durable" /\ m.offset = Place(m) =>
        \A i \in 1..Len(wire') : wire'[i].offset = Place(wire'[i])
  BY <1>3, <1>4 DEF DurableOffsetsArePlaces, Place
<1>8. QED
  BY <1>2, <1>5, <1>6, <1>7 DEF WireInOrder

\* A message taken off the wire brings the handle to its place; a durable event
\* is the next one.
LEMMA TakeStep ==
  ASSUME TypeOK, InStep, Reading, wire # <<>>, TakeMessage(Head(wire)), Head(wire).kind # "done",
         UNCHANGED <<log, final, fed, stream, offsetSource, phase, after, base>>
  PROVE  /\ Head(wire) = wire[1] /\ 1 \in 1..Len(wire) /\ Head(wire) \in Messages
         /\ pos' = Head(wire).at
         /\ Head(wire).at = pos + Step(Head(wire))
         /\ InStep'
<1> USE DEF TypeOK, InStep
<1> DEFINE m == Head(wire)
<1>1. m = wire[1] /\ 1 \in 1..Len(wire) /\ m \in Messages
  BY HeadTailProperties, EmptySeq
<1>2. /\ m.at = pos + Step(m) /\ InOrder(Tail(wire), m.at)
      /\ WireEnd(Tail(wire), m.at) = WireEnd(wire, pos)
      /\ \A i \in 1..Len(Tail(wire)) : i + 1 \in 1..Len(wire) /\ Tail(wire)[i] = wire[i + 1]
  BY TailInOrder DEF WireInOrder
<1>3. m.at \in Nat /\ m.at <= Len(log) /\ m.offset \in Nat \cup {None}
  BY <1>1 DEF WireInOrder, Messages
<1>4. wire' = Tail(wire) /\ lastOffset' = (IF m.offset # None THEN m.offset ELSE lastOffset)
  BY DEF TakeMessage
<1>5. /\ pos' = m.at
      /\ m.kind \in LogKinds => m.at = pos + 1 /\ got' = got \cup {m.at}
      /\ m.kind \notin LogKinds => pos' = pos /\ got' = got
  BY <1>2 DEF TakeMessage, Step
<1> HIDE DEF m
<1>6. ResultsAreFinal' /\ WireInOrder' /\ OpenStreamAtWireEnd' /\ LiveStreamAtLogEnd'
  BY <1>2, <1>4, <1>5
     DEF ResultsAreFinal, WireInOrder, OpenStreamAtWireEnd, LiveStreamAtLogEnd
<1>7. DurableOffsetsArePlaces'
  <2>1. CASE offsetSource = "Durable"
    <3>1. m.offset = IF m.kind \in LogKinds THEN m.at ELSE None
      BY <2>1, <1>1 DEF DurableOffsetsArePlaces
    <3>2. lastOffset' = pos' \/ (lastOffset' = None /\ pos' = base')
      BY <3>1, <2>1, <1>3, <1>4, <1>5, RunStreamAssumption DEF DurableOffsetsArePlaces
    <3>3. QED
      BY <3>2, <2>1, <1>2, <1>4 DEF DurableOffsetsArePlaces
  <2>2. CASE offsetSource # "Durable"
    BY <2>2 DEF DurableOffsetsArePlaces
  <2>3. QED
    BY <2>1, <2>2
<1>8. ReadPrefix' /\ NoEventSkipped'
  <2>1. CASE m.kind \in LogKinds
    <3>1. 1..pos' \subseteq got'
      BY <2>1, <1>5 DEF ReadPrefix
    <3>2. NoEventSkipped'
      BY <2>1, <3>1, <1>5 DEF NoEventSkipped
    <3>3. QED
      BY <2>1, <3>1, <3>2, <1>3, <1>5 DEF ReadPrefix
  <2>2. CASE m.kind \notin LogKinds
    BY <2>2, <1>3, <1>5 DEF ReadPrefix, NoEventSkipped
  <2>3. QED
    BY <2>1, <2>2
<1>9. ResumesWithLastOffset' /\ NothingBeforeOpening'
  BY DEF Reading, ResumesWithLastOffset, NothingBeforeOpening
<1>10. QED
  BY <1>1, <1>2, <1>5, <1>6, <1>7, <1>8, <1>9 DEF m

LEMMA InitInv == Init => InStep
<1> SUFFICES ASSUME Init PROVE InStep
  OBVIOUS
<1>1. Len(log) = 0 /\ Len(wire) = 0
  BY DEF Init
<1>2. QED
  BY <1>1 DEF Init, InStep, ResultsAreFinal, WireInOrder, InOrder, OpenStreamAtWireEnd,
     LiveStreamAtLogEnd, DurableOffsetsArePlaces, ResumesWithLastOffset,
     NothingBeforeOpening, ReadPrefix, NoEventSkipped

LEMMA StepInv ==
  ASSUME TypeOK, TypeOK', InStep, [Next]_vars
  PROVE  InStep'
<1> USE RunStreamAssumption DEF TypeOK, InStep
\* the log grows, with or without a live stream to carry the event
<1>1. ASSUME NEW kind \in LogKinds, PublishEvent(kind), kind = "result" => final' # None,
             final # None => final' # None, UNCHANGED <<stream, runVars, callVars, pos, base, got>>
      PROVE  InStep'
  <2>1. /\ log' \in Seq(LogKinds) /\ Len(log') = Len(log) + 1 /\ Len(log) \in Nat
        /\ \A i \in 1..Len(log') :
             (i \in 1..Len(log) /\ log'[i] = log[i]) \/ log'[i] = kind
    BY <1>1, AppendProperties DEF PublishEvent
  <2>2. \A i \in 1..Len(log') : log'[i] = "result" => final' # None
    BY <2>1, <1>1 DEF ResultsAreFinal
  <2>3. ResumesWithLastOffset' /\ NoEventSkipped'
    BY <1>1 DEF ResumesWithLastOffset, NoEventSkipped, runVars, callVars
  <2>4. ReadPrefix'
    BY <2>1, <1>1 DEF ReadPrefix
  <2>5. CASE stream = "live"
    <3> DEFINE m == Message(kind, Len(log) + 1, Len(log) + 1 + deltas)
    <3>1. wire' = Append(wire, m) /\ fed' = Len(log) + 1
      BY <1>1, <2>5 DEF PublishEvent
    <3>2. m.kind = kind /\ m.at = Len(log) + 1 /\ m.at = fed + Step(m)
      BY <2>5 DEF Message, Step, LiveStreamAtLogEnd
    <3>3. m \in Messages
      BY <2>1, MessageType DEF Kinds
    <3> HIDE DEF m
    <3>4. /\ WireInOrder' /\ WireEnd(wire', pos') = m.at
          /\ \A i \in 1..Len(wire') : wire'[i].kind = "result" => final' # None
      <4>1. m.at <= Len(log') /\ Len(log) <= Len(log') /\ pos' = pos
        BY <3>2, <2>1, <1>1
      <4>2. m.kind = "result" => final' # None
        BY <3>2, <1>1
      <4>3. stream \in {"live", "durable"}
        BY <2>5
      <4>4. QED
        BY <3>1, <3>2, <3>3, <4>1, <4>2, <4>3, <2>1, <1>1, PushStep
    <3>5. offsetSource = "Live" /\ phase # "unopened"
      BY <2>5 DEF LiveStreamAtLogEnd, NothingBeforeOpening
    <3>6. QED
      BY <2>5, <3>1, <3>2, <3>4, <3>5, <2>1, <2>2, <2>3, <2>4, <1>1
         DEF ResultsAreFinal, OpenStreamAtWireEnd, LiveStreamAtLogEnd,
             DurableOffsetsArePlaces, NothingBeforeOpening, runVars, callVars
  <2>6. CASE stream # "live"
    <3>1. UNCHANGED <<wire, fed>>
      BY <1>1, <2>6 DEF PublishEvent
    <3>2. ResultsAreFinal'
      BY <3>1, <2>2, <1>1 DEF ResultsAreFinal
    <3>3. WireInOrder'
      <4>1. \A i \in 1..Len(wire) : wire[i] \in Messages
        OBVIOUS
      <4>2. \A i \in 1..Len(wire) : wire[i].at \in Nat /\ wire[i].at <= Len(log)
        BY <4>1 DEF WireInOrder, Messages
      <4> \A i \in 1..Len(wire) : wire[i].at <= Len(log')
        BY <4>2, <2>1, SMTT(60)
      <4>3. QED
        BY <3>1, <1>1 DEF WireInOrder
    <3>4. QED
      BY <2>6, <3>1, <3>2, <3>3, <2>3, <2>4, <1>1
         DEF OpenStreamAtWireEnd, LiveStreamAtLogEnd, DurableOffsetsArePlaces,
             NothingBeforeOpening, runVars, callVars
  <2>7. QED
    BY <2>5, <2>6
<1>2. CASE Execute
  BY <1>2, <1>1 DEF Execute
<1>3. CASE Terminate
  <2>1. final' # None
    BY <1>3 DEF Terminate, Statuses
  <2>2. QED
    BY <1>3, <1>1, <2>1 DEF Terminate, LogKinds
\* a message that is not a new durable event is added to an open stream
<1>4. ASSUME NEW m \in Messages, wire' = Append(wire, m), stream \in {"live", "durable"},
             m.at = fed + Step(m), fed' = m.at, m.at <= Len(log),
             m.kind = "result" => final # None, m.offset = Place(m) \/ stream = "live",
             stream = "live" => fed' = fed,
             stream' \in {stream, "ended"},
             UNCHANGED <<log, final, runVars, callVars, pos, base, got>>
      PROVE  InStep'
  <2>1. /\ WireInOrder' /\ WireEnd(wire', pos') = m.at
        /\ \A i \in 1..Len(wire') : wire'[i].kind = "result" => final' # None
        /\ offsetSource = "Durable" /\ m.offset = Place(m) =>
             \A i \in 1..Len(wire') : wire'[i].offset = Place(wire'[i])
    BY <1>4, PushStep, SMTT(60)
  <2>2. stream # "none" /\ phase # "unopened" /\ (stream = "live" => offsetSource = "Live")
    BY <1>4 DEF NothingBeforeOpening, LiveStreamAtLogEnd
  <2>3. DurableOffsetsArePlaces'
    BY <2>1, <2>2, <1>4 DEF DurableOffsetsArePlaces, Place, runVars
  <2>4. QED
    BY <2>1, <2>2, <2>3, <1>4
       DEF ResultsAreFinal, OpenStreamAtWireEnd, LiveStreamAtLogEnd, ResumesWithLastOffset,
           NothingBeforeOpening, ReadPrefix, NoEventSkipped, runVars, callVars
<1>5. fed \in Nat /\ (stream \in {"live", "durable"} => fed <= Len(log))
  <2>1. CASE wire = <<>>
    BY <2>1 DEF OpenStreamAtWireEnd, WireEnd, ReadPrefix
  <2>2. CASE wire # <<>>
    <3>1. Len(wire) \in 1..Len(wire)
      BY <2>2, EmptySeq
    <3>2. QED
      BY <2>2, <3>1 DEF OpenStreamAtWireEnd, WireEnd, WireInOrder
  <2>3. QED
    BY <2>1, <2>2
<1>6. CASE EmitDelta
  <2> DEFINE m == Message("delta", fed, Len(log) + deltas + 1)
  <2>1. "delta" \in Kinds /\ Len(log) + deltas + 1 \in Nat
    BY DEF Kinds
  <2>2. m \in Messages
    BY <2>1, <1>5, MessageType
  <2>3. m.kind = "delta" /\ m.at = fed /\ Step(m) = 0
    BY DEF Message, Step, LogKinds
  <2>4. QED
    BY <1>6, <2>2, <2>3, <1>4, <1>5 DEF EmitDelta
<1>7. CASE Feed
  <2> DEFINE m == Message(log[fed + 1], fed + 1, fed + 1)
  <2>1. fed + 1 \in 1..Len(log) /\ log[fed + 1] \in LogKinds
    BY <1>7, <1>5 DEF Feed
  <2>2. m \in Messages
    BY <2>1, <1>5, MessageType DEF Kinds
  <2>3. m.kind = log[fed + 1] /\ m.at = fed + 1 /\ Step(m) = 1 /\ m.offset = Place(m)
    BY <2>1 DEF Message, Step, Place
  <2>4. m.kind = "result" => final # None
    BY <2>1, <2>3 DEF ResultsAreFinal
  <2> HIDE DEF m
  <2>5. wire' = Append(wire, m)
    BY <1>7 DEF Feed, m
  <2>6. QED
    BY <1>7, <2>1, <2>2, <2>3, <2>4, <2>5, <1>4 DEF Feed, bridgeVars
<1>8. CASE Keepalive
  <2> DEFINE m == Message("keepalive", fed, None)
  <2>1. m \in Messages
    BY <1>5, MessageType DEF Kinds
  <2>2. m.kind = "keepalive" /\ m.at = fed /\ Step(m) = 0 /\ m.offset = Place(m)
    BY DEF Message, Step, Place, LogKinds
  <2>3. QED
    BY <1>8, <2>1, <2>2, <1>4, <1>5 DEF Keepalive, bridgeVars
<1>9. CASE EndStream
  <2> DEFINE m == Message("done", fed, None)
  <2>1. m \in Messages
    BY <1>5, MessageType DEF Kinds
  <2>2. m.kind = "done" /\ m.at = fed /\ Step(m) = 0 /\ m.offset = Place(m)
    BY DEF Message, Step, Place, LogKinds
  <2>3. CASE wire' = Append(wire, m)
    BY <1>9, <2>1, <2>2, <2>3, <1>4, <1>5 DEF EndStream, bridgeVars
  <2>4. CASE UNCHANGED wire
    BY <1>9, <2>4
       DEF EndStream, bridgeVars, runVars, callVars, ResultsAreFinal, WireInOrder,
           OpenStreamAtWireEnd, LiveStreamAtLogEnd, DurableOffsetsArePlaces,
           ResumesWithLastOffset, NothingBeforeOpening, ReadPrefix, NoEventSkipped
  <2>5. QED
    BY <1>9, <2>3, <2>4 DEF EndStream
<1>10. CASE Drop
  <2>1. PICK kept \in 0..Len(wire) : wire' = SubSeq(wire, 1, kept)
    BY <1>10 DEF Drop
  <2>2. /\ InOrder(wire', pos') /\ Len(wire') = kept
        /\ \A i \in 1..Len(wire') : i \in 1..Len(wire) /\ wire'[i] = wire[i]
    BY <1>10, <2>1, PrefixInOrder DEF Drop, WireInOrder
  <2>3. ResultsAreFinal' /\ WireInOrder'
    BY <1>10, <2>2 DEF Drop, bridgeVars, ResultsAreFinal, WireInOrder
  <2>4. DurableOffsetsArePlaces'
    BY <1>10, <2>2 DEF Drop, runVars, DurableOffsetsArePlaces
  <2>5. QED
    BY <1>10, <2>3, <2>4
       DEF Drop, bridgeVars, runVars, callVars, OpenStreamAtWireEnd, LiveStreamAtLogEnd,
           ResumesWithLastOffset, NothingBeforeOpening, ReadPrefix, NoEventSkipped
\* a stream is opened on an empty wire
<1>11. CASE Send
  <2>1. wire = <<>> /\ Len(wire) = 0 /\ fed = 0 /\ pos = 0 /\ Len(log) = 0
    BY <1>11 DEF Send, NothingBeforeOpening
  <2>2. QED
    BY <1>11, <2>1
       DEF Send, bridgeVars, ResultsAreFinal, WireInOrder, InOrder, OpenStreamAtWireEnd,
           WireEnd, LiveStreamAtLogEnd, DurableOffsetsArePlaces, ResumesWithLastOffset,
           NothingBeforeOpening, ReadPrefix, NoEventSkipped
<1>12. ASSUME NEW offset \in ObserveAfter, Observe(offset)
       PROVE  InStep'
  <2>1. wire = <<>> /\ Len(wire) = 0 /\ offset \in Nat /\ offset <= Len(log)
    BY <1>12 DEF Observe, NothingBeforeOpening
  <2>2. QED
    BY <1>12, <2>1
       DEF Observe, bridgeVars, ResultsAreFinal, WireInOrder, InOrder, OpenStreamAtWireEnd,
           WireEnd, LiveStreamAtLogEnd, DurableOffsetsArePlaces, ResumesWithLastOffset,
           NothingBeforeOpening, ReadPrefix, NoEventSkipped
<1>13. CASE ResumeOk
  <2>1. /\ wire' = <<>> /\ Len(wire') = 0 /\ stream' = "durable" /\ phase' = "idle"
        /\ offsetSource' = "Durable" /\ UNCHANGED <<log, final, got>>
    BY <1>13 DEF ResumeOk, bridgeVars
  <2>2. after # None => after = pos /\ lastOffset = pos
    BY <1>13 DEF ResumeOk, ResumesWithLastOffset, DurableOffsetsArePlaces
  <2>3. fed' = pos' /\ pos' <= pos /\ base' <= pos' /\ (lastOffset' = pos' \/ (lastOffset' = None /\ pos' = base'))
    BY <1>13, <2>2 DEF ResumeOk, ReadPrefix
  <2>4. QED
    BY <2>1, <2>3
       DEF ResultsAreFinal, WireInOrder, InOrder, OpenStreamAtWireEnd,
           WireEnd, LiveStreamAtLogEnd, DurableOffsetsArePlaces, ResumesWithLastOffset,
           NothingBeforeOpening, ReadPrefix, NoEventSkipped
\* messages are taken off the wire
<1>14. CASE ReadKeepalive
  BY <1>14, TakeStep DEF ReadKeepalive, bridgeVars, callVars
<1>15. CASE ReadMessage
  BY <1>15, TakeStep DEF ReadMessage, bridgeVars, callVars
<1>16. CASE ReadDelta
  BY <1>16, TakeStep DEF ReadDelta, bridgeVars, callVars
<1>17. CASE ReadResult
  BY <1>17, TakeStep DEF ReadResult, bridgeVars, callVars
\* a stream is closed
<1>18. ASSUME CloseStream, Reading,
              UNCHANGED <<log, final, fed, lastOffset, offsetSource, pos, base, got>>
       PROVE  InStep'
  <2>1. Len(wire') = 0
    BY <1>18 DEF CloseStream
  <2>2. QED
    BY <1>18, <2>1
       DEF CloseStream, Reading, ResultsAreFinal, WireInOrder, InOrder, OpenStreamAtWireEnd,
           LiveStreamAtLogEnd, DurableOffsetsArePlaces, ResumesWithLastOffset,
           NothingBeforeOpening, ReadPrefix, NoEventSkipped
<1>19. CASE ReadDone
  BY <1>18, <1>19 DEF ReadDone, bridgeVars
<1>20. CASE ReadEnd
  BY <1>18, <1>20 DEF ReadEnd, bridgeVars, runVars
\* the caller moves and the streams do not
<1>21. ASSUME UNCHANGED <<log, final, wire, fed, stream, lastOffset, offsetSource, pos, base, got>>,
              phase' = "unopened" => phase = "unopened",
              phase' = "resuming" => after' = IF offsetSource = "Durable" THEN lastOffset ELSE None
       PROVE  InStep'
  BY <1>21 DEF ResultsAreFinal, WireInOrder, OpenStreamAtWireEnd, LiveStreamAtLogEnd,
     DurableOffsetsArePlaces, ResumesWithLastOffset, NothingBeforeOpening, ReadPrefix,
     NoEventSkipped
<1>22. CASE ResumeStart
  BY <1>21, <1>22 DEF ResumeStart, bridgeVars, runVars
<1>23. CASE ResumeFails
  BY <1>21, <1>23 DEF ResumeFails, bridgeVars, runVars
<1>24. CASE Cancel
  BY <1>21, <1>24 DEF Cancel, runVars, callVars, ResumesWithLastOffset
<1>25. CASE Wait
  BY <1>21, <1>25 DEF Wait, bridgeVars, runVars
<1>26. CASE Settle
  BY <1>21, <1>26 DEF Settle, bridgeVars, runVars
<1>27. CASE WaitLiveReply
  BY <1>21, <1>27 DEF WaitLiveReply, bridgeVars, runVars
<1>28. CASE WaitLiveFails
  BY <1>21, <1>28 DEF WaitLiveFails, bridgeVars, runVars
<1>29. CASE UNCHANGED vars
  BY <1>21, <1>29 DEF vars, bridgeVars, runVars, callVars, ResumesWithLastOffset
<1>30. QED
  BY <1>2, <1>3, <1>6, <1>7, <1>8, <1>9, <1>10, <1>11, <1>12, <1>13, <1>14, <1>15, <1>16,
     <1>17, <1>19, <1>20, <1>22, <1>23, <1>24, <1>25, <1>26, <1>27, <1>28, <1>29 DEF Next
-------------------------------------------------------------------------------
(* The outcome. *)

\* The log changes only while the run executes, by an event at its end.
LEMMA LogStep ==
  ASSUME TypeOK, [Next]_vars
  PROVE  \/ UNCHANGED <<log, final>>
         \/ /\ final = None
            /\ UNCHANGED <<outcome, lastStatus, lastOffset, offsetSource, phase, result, pos, base>>
            /\ \E kind \in LogKinds : PublishEvent(kind) /\ (kind = "result" => final' # None)
<1>1. CASE Execute
  BY <1>1 DEF Execute, runVars, callVars
<1>2. CASE Terminate
  BY <1>2, RunStreamAssumption DEF Terminate, runVars, callVars, LogKinds, Statuses
<1>3. CASE EmitDelta \/ Feed \/ Keepalive \/ EndStream \/ Drop \/ Cancel \/ UNCHANGED vars
  BY <1>3 DEF EmitDelta, Feed, Keepalive, EndStream, Drop, Cancel, vars, bridgeVars
<1>4. CASE Send \/ (\E offset \in ObserveAfter : Observe(offset)) \/ ResumeOk
  BY <1>4 DEF Send, Observe, ResumeOk, bridgeVars
<1>5. CASE ReadKeepalive \/ ReadMessage \/ ReadDelta \/ ReadResult \/ ReadDone \/ ReadEnd
  BY <1>5 DEF ReadKeepalive, ReadMessage, ReadDelta, ReadResult, ReadDone, ReadEnd, bridgeVars
<1>6. CASE ResumeStart \/ ResumeFails \/ Wait \/ Settle \/ WaitLiveReply \/ WaitLiveFails
  BY <1>6 DEF ResumeStart, ResumeFails, Wait, Settle, WaitLiveReply, WaitLiveFails, bridgeVars
<1>7. QED
  BY <1>1, <1>2, <1>3, <1>4, <1>5, <1>6 DEF Next

\* An event at the end of the log leaves the others where they are.
LEMMA PublishStep ==
  ASSUME TypeOK, NEW kind \in LogKinds, PublishEvent(kind)
  PROVE  /\ Len(log) \in Nat /\ Len(log') = Len(log) + 1
         /\ log'[Len(log) + 1] = kind
         /\ \A i \in 1..Len(log) : i \in 1..Len(log') /\ log'[i] = log[i]
BY AppendProperties DEF TypeOK, PublishEvent

\* What is in flight is what the log has at its place.
LEMMA WireTellsLogStep ==
  ASSUME TypeOK, InStep, WireTellsLog, [Next]_vars
  PROVE  WireTellsLog'
<1> USE DEF TypeOK
<1>1. ASSUME NEW m \in Messages, wire' = Append(wire, m), UNCHANGED log,
             m.kind \in LogKinds => m.at \in 1..Len(log) /\ log[m.at] = m.kind
      PROVE  WireTellsLog'
  <2>1. /\ Len(wire') = Len(wire) + 1 /\ wire'[Len(wire) + 1] = m
        /\ \A i \in 1..Len(wire) : wire'[i] = wire[i]
    BY <1>1, AppendProperties
  <2>2. \A i \in 1..Len(wire') : i \in 1..Len(wire) \/ i = Len(wire) + 1
    BY <2>1
  <2>3. QED
    BY <1>1, <2>1, <2>2 DEF WireTellsLog
<1>2. fed \in Nat /\ "delta" \in Kinds /\ "keepalive" \in Kinds /\ "done" \in Kinds
      /\ {"delta", "keepalive", "done"} \cap LogKinds = {} /\ LogKinds \subseteq Kinds
  BY DEF Kinds, LogKinds
<1>3. ASSUME NEW kind \in LogKinds, PublishEvent(kind)
      PROVE  WireTellsLog'
  <2>1. /\ Len(log) \in Nat /\ Len(log') = Len(log) + 1 /\ log'[Len(log) + 1] = kind
        /\ \A i \in 1..Len(log) : i \in 1..Len(log') /\ log'[i] = log[i]
    BY <1>3, PublishStep
  <2>2. \A i \in 1..Len(wire) : wire[i].kind \in LogKinds =>
          wire[i].at \in 1..Len(log') /\ log'[wire[i].at] = wire[i].kind
    BY <2>1 DEF WireTellsLog
  <2>3. CASE stream = "live"
    <3> DEFINE m == Message(kind, Len(log) + 1, Len(log) + 1 + deltas)
    <3>1. wire' = Append(wire, m)
      BY <1>3, <2>3 DEF PublishEvent
    <3>2. m \in Messages /\ m.kind = kind /\ m.at = Len(log) + 1
      BY <1>2, <2>1, MessageType DEF Message
    <3> HIDE DEF m
    <3>3. /\ Len(wire') = Len(wire) + 1 /\ wire'[Len(wire) + 1] = m
          /\ \A i \in 1..Len(wire) : wire'[i] = wire[i]
      BY <3>1, <3>2, AppendProperties
    <3>4. \A i \in 1..Len(wire') : i \in 1..Len(wire) \/ i = Len(wire) + 1
      BY <3>3
    <3>5. m.at \in 1..Len(log') /\ log'[m.at] = m.kind
      BY <2>1, <3>2
    <3>6. QED
      BY <2>2, <3>3, <3>4, <3>5 DEF WireTellsLog
  <2>4. CASE stream # "live"
    BY <1>3, <2>2, <2>4 DEF PublishEvent, WireTellsLog
  <2>5. QED
    BY <2>3, <2>4
<1>4. CASE Execute \/ Terminate
  BY <1>3, <1>4 DEF Execute, Terminate, LogKinds
<1>5. CASE EmitDelta
  <2>1. Len(log) + deltas + 1 \in Nat
    OBVIOUS
  <2>2. Message("delta", fed, Len(log) + deltas + 1) \in Messages
    BY <1>2, <2>1, MessageType
  <2>3. QED
    BY <1>1, <1>2, <1>5, <2>2 DEF EmitDelta, Message
<1>6. CASE Feed
  <2>1. fed + 1 \in 1..Len(log) /\ log[fed + 1] \in LogKinds
    BY <1>6 DEF Feed
  <2>2. Message(log[fed + 1], fed + 1, fed + 1) \in Messages
    BY <1>2, <2>1, MessageType
  <2>3. QED
    BY <1>1, <1>6, <2>1, <2>2 DEF Feed, bridgeVars, Message
<1>7. CASE Keepalive
  <2>1. Message("keepalive", fed, None) \in Messages
    BY <1>2, MessageType
  <2>2. QED
    BY <1>1, <1>2, <1>7, <2>1 DEF Keepalive, bridgeVars, Message
<1>8. CASE EndStream
  <2>1. Message("done", fed, None) \in Messages
    BY <1>2, MessageType
  <2>2. CASE wire' = Append(wire, Message("done", fed, None))
    BY <1>1, <1>2, <1>8, <2>1, <2>2 DEF EndStream, bridgeVars, Message
  <2>3. CASE UNCHANGED wire
    BY <1>8, <2>3 DEF EndStream, bridgeVars, WireTellsLog
  <2>4. QED
    BY <1>8, <2>2, <2>3 DEF EndStream
<1>9. CASE Drop
  <2>1. PICK kept \in 0..Len(wire) : wire' = SubSeq(wire, 1, kept)
    BY <1>9 DEF Drop
  <2>2. \A i \in 1..Len(wire') : i \in 1..Len(wire) /\ wire'[i] = wire[i]
    BY <2>1, PrefixInOrder DEF InStep, WireInOrder
  <2>3. QED
    BY <1>9, <2>2 DEF Drop, bridgeVars, WireTellsLog
<1>10. ASSUME wire # <<>>, wire' = Tail(wire), UNCHANGED log
       PROVE  WireTellsLog'
  <2>1. \A i \in 1..Len(wire') : i + 1 \in 1..Len(wire) /\ wire'[i] = wire[i + 1]
    BY <1>10, TailInOrder DEF InStep, WireInOrder
  <2>2. QED
    BY <1>10, <2>1 DEF WireTellsLog
<1>11. CASE ReadKeepalive \/ ReadMessage \/ ReadDelta \/ ReadResult
  BY <1>10, <1>11
     DEF ReadKeepalive, ReadMessage, ReadDelta, ReadResult, TakeMessage, bridgeVars
<1>12. ASSUME wire' = <<>> PROVE WireTellsLog'
  BY <1>12 DEF WireTellsLog
<1>13. CASE ReadDone \/ ReadEnd \/ ResumeOk
  BY <1>12, <1>13 DEF ReadDone, ReadEnd, ResumeOk, CloseStream
<1>14. ASSUME UNCHANGED <<log, wire>> PROVE WireTellsLog'
  BY <1>14 DEF WireTellsLog
<1>15. CASE Send \/ \E offset \in ObserveAfter : Observe(offset)
  BY <1>14, <1>15 DEF Send, Observe, bridgeVars
<1>16. CASE ResumeStart \/ ResumeFails \/ Cancel \/ Wait \/ Settle \/ WaitLiveReply
            \/ WaitLiveFails \/ UNCHANGED vars
  BY <1>14, <1>16 DEF ResumeStart, ResumeFails, Cancel, Wait, Settle, WaitLiveReply,
     WaitLiveFails, vars, bridgeVars
<1>17. QED
  BY <1>4, <1>5, <1>6, <1>7, <1>8, <1>9, <1>11, <1>13, <1>15, <1>16 DEF Next

\* The result is the last event of the log.
LEMMA ResultEndsLogStep ==
  ASSUME TypeOK, InStep, ResultEndsLog, [Next]_vars
  PROVE  ResultEndsLog'
<1>1. CASE UNCHANGED <<log, final>>
  BY <1>1 DEF ResultEndsLog
<1>2. ASSUME final = None, NEW kind \in LogKinds, PublishEvent(kind)
      PROVE  ResultEndsLog'
  <2>1. /\ Len(log) \in Nat /\ Len(log') = Len(log) + 1
        /\ \A i \in 1..Len(log) : log'[i] = log[i]
    BY <1>2, PublishStep
  <2>2. \A i \in 1..Len(log) : log[i] # "result"
    BY <1>2 DEF InStep, ResultsAreFinal
  <2>3. \A i \in 1..Len(log') : i \in 1..Len(log) \/ i = Len(log')
    BY <2>1
  <2>4. QED
    BY <2>1, <2>2, <2>3 DEF ResultEndsLog
<1>3. QED
  BY <1>1, <1>2, LogStep

\* What the handle's own operations do to the place of its reading: nothing, or it
\* takes a message, is opened, or is resumed.
LEMMA HandleStep ==
  ASSUME TypeOK, [Next]_vars, UNCHANGED <<log, final>>
  PROVE  \/ UNCHANGED <<pos, base, lastStatus, outcome, offsetSource>>
            /\ (phase' = "unopened" => phase = "unopened")
            /\ (lastOffset' = lastOffset)
         \/ ReadKeepalive \/ ReadMessage \/ ReadDelta \/ ReadResult
         \/ Send
         \/ \E offset \in ObserveAfter : Observe(offset)
         \/ ResumeOk
<1>1. CASE Execute \/ Terminate \/ EmitDelta \/ Feed \/ Keepalive \/ EndStream \/ Drop \/ Cancel
           \/ UNCHANGED vars
  BY <1>1 DEF Execute, Terminate, EmitDelta, Feed, Keepalive, EndStream, Drop, Cancel, vars,
     runVars, callVars
<1>2. CASE ReadDone \/ ReadEnd
  BY <1>2 DEF ReadDone, ReadEnd, CloseStream, runVars
<1>3. CASE ResumeStart \/ ResumeFails \/ Wait \/ Settle \/ WaitLiveReply \/ WaitLiveFails
  BY <1>3 DEF ResumeStart, ResumeFails, Wait, Settle, WaitLiveReply, WaitLiveFails, runVars
<1>4. QED
  BY <1>1, <1>2, <1>3 DEF Next

\* A message taken tells the log's event at the place it brings the handle to.
LEMMA TakenTellsLog ==
  ASSUME TypeOK, InStep, WireTellsLog, wire # <<>>, TakeMessage(Head(wire))
  PROVE  /\ Head(wire) \in Messages
         /\ Head(wire).kind \notin LogKinds => pos' = pos
         /\ Head(wire).kind \in LogKinds =>
              /\ pos' = pos + 1 /\ Head(wire).at = pos + 1
              /\ pos + 1 \in 1..Len(log) /\ log[pos + 1] = Head(wire).kind
<1>1. Head(wire) = wire[1] /\ 1 \in 1..Len(wire) /\ Head(wire) \in Messages
  BY HeadTailProperties, EmptySeq DEF TypeOK
<1>2. Head(wire).at = pos + Step(Head(wire))
  BY TailInOrder DEF TypeOK, InStep, WireInOrder
<1>3. QED
  BY <1>1, <1>2 DEF TakeMessage, Step, WireTellsLog

\* The status that is remembered is the last one of the part of the log that was read.
LEMMA StatusStep ==
  ASSUME TypeOK, InStep, WireTellsLog, StatusIsRemembered, ReplayKeepsBase, [Next]_vars
  PROVE  StatusIsRemembered'
<1>1. /\ pos \in Nat /\ base \in Nat /\ base <= pos /\ pos <= Len(log) /\ Len(log) \in Nat
      /\ lastStatus \in Nat \cup {None} /\ None \notin Nat
  BY RunStreamAssumption DEF TypeOK, InStep, ReadPrefix
<1>2. ASSUME NEW kind \in LogKinds, PublishEvent(kind), UNCHANGED <<pos, base, lastStatus>>
      PROVE  StatusIsRemembered'
  <2>1. /\ Len(log') = Len(log) + 1
        /\ \A i \in 1..Len(log) : log'[i] = log[i]
    BY <1>2, PublishStep
  <2>2. QED
    BY <1>1, <1>2, <2>1 DEF StatusIsRemembered
<1>3. ASSUME UNCHANGED <<log, pos, base, lastStatus>> PROVE StatusIsRemembered'
  BY <1>3 DEF StatusIsRemembered
<1>4. CASE Send
  BY <1>3, <1>4 DEF Send, bridgeVars
<1>5. CASE ReadKeepalive \/ ReadDelta
  <2>1. pos' = pos
    BY <1>5, TakenTellsLog DEF ReadKeepalive, ReadDelta, LogKinds
  <2>2. QED
    BY <1>3, <1>5, <2>1 DEF ReadKeepalive, ReadDelta, bridgeVars
<1>6. CASE ReadMessage
  <2>1. /\ UNCHANGED <<log, base>>
        /\ lastStatus' = IF Head(wire).kind = "status" THEN Head(wire).at ELSE lastStatus
        /\ pos' = pos + 1 /\ Head(wire).at = pos + 1
        /\ pos + 1 \in 1..Len(log) /\ log[pos + 1] = Head(wire).kind
    BY <1>6, TakenTellsLog DEF ReadMessage, bridgeVars, LogKinds
  <2>2. CASE Head(wire).kind = "status"
    BY <1>1, <2>1, <2>2 DEF StatusIsRemembered
  <2>3. CASE Head(wire).kind # "status"
    BY <1>1, <2>1, <2>3 DEF StatusIsRemembered
  <2>4. QED
    BY <2>2, <2>3
<1>7. CASE ReadResult
  <2>1. /\ UNCHANGED <<log, base, lastStatus>>
        /\ pos' = pos + 1 /\ log[pos + 1] = "result"
    BY <1>7, TakenTellsLog DEF ReadResult, bridgeVars, LogKinds
  <2>2. QED
    BY <1>1, <2>1 DEF StatusIsRemembered
<1>8. ASSUME NEW offset \in ObserveAfter, Observe(offset)
      PROVE  StatusIsRemembered'
  <2>1. lastStatus' = None /\ base' = offset /\ pos' = offset /\ offset \in Nat
    BY <1>8, RunStreamAssumption DEF Observe, ReplayKeepsBase
  <2>2. QED
    BY <2>1 DEF StatusIsRemembered
<1>9. CASE ResumeOk
  <2>1. CASE after = None
    <3>1. base' = 0 /\ pos' = 0 /\ UNCHANGED <<log, lastStatus>>
      BY <1>9, <2>1 DEF ResumeOk, bridgeVars
    <3>2. QED
      BY <1>1, <3>1 DEF StatusIsRemembered
  <2>2. CASE after # None
    BY <1>3, <1>9, <2>2 DEF ResumeOk, bridgeVars
  <2>3. QED
    BY <2>1, <2>2
<1>10. QED
  BY <1>2, <1>3, <1>4, <1>5, <1>6, <1>7, <1>8, <1>9, LogStep, HandleStep

\* A handle that has seen its outcome replays the log from where its reading began.
LEMMA BaseStep ==
  ASSUME TypeOK, InStep, ReplayKeepsBase, [Next]_vars
  PROVE  /\ ReplayKeepsBase'
         /\ outcome # None => UNCHANGED <<log, final, base>>
<1>1. CASE final = None /\ UNCHANGED <<outcome, lastStatus, lastOffset, offsetSource, phase, base>>
  BY <1>1 DEF ReplayKeepsBase
<1>2. ASSUME UNCHANGED <<log, final>>
      PROVE  ReplayKeepsBase' /\ (outcome # None => UNCHANGED base)
  <2>1. CASE UNCHANGED <<base, lastStatus, outcome, offsetSource, lastOffset>>
             /\ (phase' = "unopened" => phase = "unopened")
    BY <1>2, <2>1 DEF ReplayKeepsBase
  <2>2. CASE Send
    BY <2>2 DEF Send, bridgeVars, ReplayKeepsBase, InStep, NothingBeforeOpening, ReadPrefix, TypeOK
  <2>3. ASSUME NEW offset \in ObserveAfter, Observe(offset)
        PROVE  ReplayKeepsBase' /\ (outcome # None => UNCHANGED base)
    BY <2>3 DEF Observe, bridgeVars, ReplayKeepsBase
  <2>4. ASSUME wire # <<>>, TakeMessage(Head(wire))
        PROVE  /\ lastOffset # None => lastOffset' # None
    BY <2>4 DEF TakeMessage
  <2>5. CASE ReadKeepalive \/ ReadMessage \/ ReadDelta
    BY <1>2, <2>4, <2>5
       DEF ReadKeepalive, ReadMessage, ReadDelta, callVars, Reading, ReplayKeepsBase
  <2>6. CASE ReadResult
    <3>1. Head(wire) = wire[1] /\ 1 \in 1..Len(wire)
      BY <2>6, HeadTailProperties, EmptySeq DEF ReadResult, TypeOK
    <3>2. final # None
      BY <2>6, <3>1 DEF ReadResult, InStep, ResultsAreFinal
    <3>3. offsetSource = "Durable" => lastOffset' # None
      <4>1. wire[1].at \in Nat
        <5>1. wire[1] \in Messages
          BY <3>1 DEF TypeOK
        <5>2. QED
          BY <5>1 DEF Messages
      <4>2. offsetSource = "Durable" => wire[1].offset = wire[1].at
        BY <2>6, <3>1 DEF ReadResult, InStep, DurableOffsetsArePlaces, LogKinds
      <4>3. lastOffset' = IF wire[1].offset # None THEN wire[1].offset ELSE lastOffset
        BY <2>6, <3>1 DEF ReadResult, TakeMessage
      <4>4. QED
        BY <4>1, <4>2, <4>3, RunStreamAssumption
    <3>4. UNCHANGED <<base, phase, offsetSource>> /\ phase # "unopened"
      BY <2>6 DEF ReadResult, callVars, Reading
    <3>5. QED
      BY <1>2, <3>2, <3>3, <3>4 DEF ReplayKeepsBase, TypeOK, Sources
  <2>7. CASE ResumeOk
    <3>1. after = None => base' = 0 /\ lastOffset' = None
      BY <2>7, RunStreamAssumption DEF ResumeOk
    <3>2. after # None => UNCHANGED <<base, lastOffset>>
      BY <2>7 DEF ResumeOk
    <3>3. after = None /\ outcome # None => base = 0
      BY <2>7 DEF ResumeOk, InStep, ResumesWithLastOffset, ReplayKeepsBase, TypeOK, Sources
    <3>4. UNCHANGED outcome /\ phase' = "idle" /\ offsetSource' = "Durable"
      BY <2>7 DEF ResumeOk
    <3>5. QED
      BY <1>2, <3>1, <3>2, <3>3, <3>4 DEF ReplayKeepsBase
  <2>8. QED
    BY <1>2, <2>1, <2>2, <2>3, <2>5, <2>6, <2>7, HandleStep
<1>3. QED
  BY <1>1, <1>2, LogStep DEF ReplayKeepsBase

\* The last status of a part of the log, if there is one, is the one that is not
\* before any other.
LEMMA LastStatusIs ==
  ASSUME TypeOK, NEW first \in Nat
  PROVE  /\ (\A i \in first..Len(log) : log[i] # "status") => LastStatusFrom(first) = None
         /\ \A last \in first..Len(log) :
              log[last] = "status" /\ (\A i \in first..Len(log) : log[i] = "status" => i <= last)
                => LastStatusFrom(first) = last
<1> DEFINE places == {i \in first..Len(log) : log[i] = "status"}
<1>1. LastStatusFrom(first) =
        IF places = {} THEN None ELSE CHOOSE i \in places : \A j \in places : j <= i
  BY DEF LastStatusFrom
<1>2. ASSUME NEW last \in places, \A j \in places : j <= last
      PROVE  (CHOOSE i \in places : \A j \in places : j <= i) = last
  <2>1. PICK x : x = CHOOSE i \in places : \A j \in places : j <= i
    OBVIOUS
  <2>2. x \in places /\ \A j \in places : j <= x
    BY <1>2, <2>1
  <2>3. x \in Int /\ last \in Int /\ x <= last /\ last <= x
    BY <1>2, <2>2
  <2>4. QED
    BY <2>1, <2>3
<1>3. QED
  BY <1>1, <1>2

\* The outcome is that of the log, status text included.
LEMMA OutcomeStep ==
  ASSUME TypeOK, InStep, OutcomeInStep, [Next]_vars
  PROVE  OutcomeTellsLastStatus'
<1> USE DEF OutcomeInStep
<1>1. CASE UNCHANGED outcome
  BY <1>1, BaseStep DEF OutcomeTellsLastStatus, LastStatusFrom
<1>2. CASE ReadResult
  <2>1. /\ UNCHANGED <<log, final, base>>
        /\ outcome' = [status |-> final, failureMessage |-> lastStatus]
        /\ pos + 1 \in 1..Len(log) /\ log[pos + 1] = "result"
    BY <1>2, TakenTellsLog DEF ReadResult, bridgeVars, LogKinds
  <2>2. /\ pos \in Nat /\ base \in Nat /\ base <= pos /\ Len(log) \in Nat /\ pos + 1 = Len(log)
    BY <2>1 DEF TypeOK, InStep, ReadPrefix, ResultEndsLog
  <2>3. \A i \in base + 1..Len(log) : log[i] = "status" => i \in base + 1..pos
    BY <2>1, <2>2
  <2>4. lastStatus = LastStatusFrom(base + 1)
    <3>1. base + 1 \in Nat
      BY <2>2
    <3>2. CASE lastStatus = None
      BY <2>3, <3>1, <3>2, LastStatusIs DEF StatusIsRemembered
    <3>3. CASE lastStatus # None
      BY <2>3, <3>1, <3>3, LastStatusIs DEF StatusIsRemembered
    <3>4. QED
      BY <3>2, <3>3
  <2>5. QED
    BY <2>1, <2>4 DEF OutcomeTellsLastStatus, LastStatusFrom
<1>3. QED
  BY <1>1, <1>2, LogStep, HandleStep
     DEF ReadKeepalive, ReadMessage, ReadDelta, Send, Observe, ResumeOk, runVars

\* The fallback is asked only without an outcome, so no outcome is lost to it.
LEMMA WaitStep ==
  ASSUME TypeOK, OutcomeInStep, [Next]_vars
  PROVE  FallbackHasNoOutcome' /\ WaitKeepsSeenOutcome'
<1> USE DEF OutcomeInStep, FallbackHasNoOutcome, WaitKeepsSeenOutcome
<1>1. ASSUME UNCHANGED <<phase, outcome, result>> PROVE FallbackHasNoOutcome' /\ WaitKeepsSeenOutcome'
  BY <1>1
<1>2. CASE Execute \/ Terminate \/ EmitDelta \/ Feed \/ Keepalive \/ EndStream \/ Drop \/ Cancel
           \/ UNCHANGED vars
  BY <1>1, <1>2 DEF Execute, Terminate, EmitDelta, Feed, Keepalive, EndStream, Drop, Cancel, vars,
     runVars, callVars
<1>3. CASE Send \/ (\E offset \in ObserveAfter : Observe(offset)) \/ ResumeStart \/ ResumeOk
           \/ ResumeFails \/ Wait
  BY <1>3 DEF Send, Observe, ResumeStart, ResumeOk, ResumeFails, Wait
<1>4. CASE ReadKeepalive \/ ReadMessage \/ ReadDelta \/ ReadResult
  BY <1>4 DEF ReadKeepalive, ReadMessage, ReadDelta, ReadResult, Reading, callVars
<1>5. CASE ReadDone \/ ReadEnd
  BY <1>5 DEF ReadDone, ReadEnd, CloseStream
<1>6. CASE Settle
  BY <1>6 DEF Settle, runVars
<1>7. CASE WaitLiveReply \/ WaitLiveFails
  BY <1>7 DEF WaitLiveReply, WaitLiveFails, runVars
<1>8. QED
  BY <1>2, <1>3, <1>4, <1>5, <1>6, <1>7 DEF Next

LEMMA InitOutcome == Init => OutcomeInStep
<1> SUFFICES ASSUME Init PROVE OutcomeInStep
  OBVIOUS
<1>1. Len(log) = 0 /\ Len(wire) = 0
  BY DEF Init
<1>2. QED
  BY <1>1 DEF Init, OutcomeInStep, WireTellsLog, ResultEndsLog, StatusIsRemembered,
     ReplayKeepsBase, FallbackHasNoOutcome, OutcomeTellsLastStatus, WaitKeepsSeenOutcome
-------------------------------------------------------------------------------
(* Theorems. *)

\* The inductive invariant holds: in every state, whatever is in flight
\* continues the log from the place the Run handle has reached.
LEMMA Invariance == Spec => [](TypeOK /\ InStep)
<1>1. Init => TypeOK /\ InStep
  BY InitTyped, InitInv
<1>2. TypeOK /\ InStep /\ [Next]_vars => (TypeOK /\ InStep)'
  <2> SUFFICES ASSUME TypeOK, InStep, [Next]_vars PROVE TypeOK' /\ InStep'
    OBVIOUS
  <2>1. TypeOK'
    BY StepTyped DEF InStep
  <2>2. QED
    BY <2>1, StepInv
<1>3. QED
  BY <1>1, <1>2, PTL DEF Spec

\* Every variable keeps its type, what is in flight is in step with the handle, and
\* what the handle remembers of the run is what the log says.
THEOREM RunInvariant == Spec => []Inv
<1>1. Init => OutcomeInStep
  BY InitOutcome
<1>2. TypeOK /\ InStep /\ OutcomeInStep /\ [Next]_vars => OutcomeInStep'
  <2> SUFFICES ASSUME TypeOK, InStep, OutcomeInStep, [Next]_vars PROVE OutcomeInStep'
    OBVIOUS
  <2>1. WireTellsLog' /\ ResultEndsLog' /\ StatusIsRemembered' /\ ReplayKeepsBase'
    BY WireTellsLogStep, ResultEndsLogStep, StatusStep, BaseStep DEF OutcomeInStep
  <2>2. QED
    BY <2>1, OutcomeStep, WaitStep DEF OutcomeInStep
<1>3. QED
  BY <1>1, <1>2, Invariance, PTL DEF Spec, Inv

\* What a failed run is reported to say of its failure is the last status message of
\* its log, however many streams it took to read it.
THEOREM OutcomeIsOfTheLog == Spec => []OutcomeTellsLastStatus
<1>1. Inv => OutcomeTellsLastStatus
  BY DEF Inv, OutcomeInStep
<1>2. QED
  BY <1>1, RunInvariant, PTL

\* `wait` returns the outcome the handle has seen, if it has seen one.
THEOREM SeenOutcomeIsKept == Spec => []WaitKeepsSeenOutcome
<1>1. Inv => WaitKeepsSeenOutcome
  BY DEF Inv, OutcomeInStep
<1>2. QED
  BY <1>1, RunInvariant, PTL

\* The caller of next_event is given no durable event before an earlier one,
\* through any number of drops, resumes and failed resumes.
THEOREM NothingIsSkipped == Spec => []NoEventSkipped
<1>1. InStep => NoEventSkipped
  BY DEF InStep
<1>2. QED
  BY <1>1, Invariance, PTL

\* `resume` sends ObserveRun the place the handle has reached in the durable log,
\* or nothing: never the number of a live event.
THEOREM OnlyDurableOffsetsAreSent == Spec => []SentOffsetIsDurable
<1>1. TypeOK /\ InStep => SentOffsetIsDurable
  BY DEF InStep, SentOffsetIsDurable, ResumesWithLastOffset, DurableOffsetsArePlaces
<1>2. QED
  BY <1>1, Invariance, PTL

\* What a step does to the handle's place in the log: it stays, a durable event
\* is read, the handle is opened, or the log is replayed from its start.
LEMMA StepMovesPlace ==
  ASSUME TypeOK, InStep, [Next]_vars
  PROVE  \/ pos' = pos
         \/ Reading /\ pos' = pos + 1 /\ pos' <= Len(log) /\ UNCHANGED <<log, offsetSource, phase>>
         \/ \E offset \in ObserveAfter : Observe(offset)
         \/ ResumeOk /\ after = None
<1> USE DEF InStep
<1>1. ASSUME Reading, wire # <<>>, TakeMessage(Head(wire)), UNCHANGED <<log, offsetSource, phase>>
      PROVE  \/ pos' = pos
             \/ Reading /\ pos' = pos + 1 /\ pos' <= Len(log)
  <2>1. Head(wire).at = pos + Step(Head(wire)) /\ Head(wire) = wire[1] /\ 1 \in 1..Len(wire)
    BY <1>1, TailInOrder, EmptySeq DEF TypeOK, WireInOrder
  <2>2. QED
    BY <1>1, <2>1 DEF TakeMessage, Step, WireInOrder
<1>2. CASE ReadKeepalive \/ ReadMessage \/ ReadDelta \/ ReadResult
  BY <1>1, <1>2
     DEF ReadKeepalive, ReadMessage, ReadDelta, ReadResult, bridgeVars, callVars
<1>3. CASE Execute \/ Terminate \/ EmitDelta \/ Feed \/ Keepalive \/ EndStream \/ Drop \/ Send
  BY <1>3 DEF Execute, Terminate, EmitDelta, Feed, Keepalive, EndStream, Drop, Send
<1>4. CASE ReadDone \/ ReadEnd \/ ResumeStart \/ ResumeFails \/ Cancel \/ Wait \/ Settle
           \/ WaitLiveReply \/ WaitLiveFails
  BY <1>4 DEF ReadDone, ReadEnd, ResumeStart, ResumeFails, Cancel, Wait, Settle,
     WaitLiveReply, WaitLiveFails
<1>5. CASE ResumeOk
  BY <1>5 DEF ResumeOk
<1>6. CASE UNCHANGED vars
  BY <1>6 DEF vars
<1>7. QED
  BY <1>2, <1>3, <1>4, <1>5, <1>6 DEF Next

\* A handle on the durable log reads on exactly after its last offset.
THEOREM ReadsOnExactlyAfter == Spec => ReadsOnAfterLastOffset
<1>1. TypeOK /\ InStep /\ [Next]_vars =>
        (offsetSource = "Durable" /\ lastOffset # None /\ pos' # pos => pos' = lastOffset + 1)
  <2> SUFFICES ASSUME TypeOK, InStep, [Next]_vars,
                      offsetSource = "Durable", lastOffset # None, pos' # pos
               PROVE  pos' = lastOffset + 1
    OBVIOUS
  <2>1. lastOffset = pos
    BY DEF InStep, DurableOffsetsArePlaces
  <2>2. ~ \E offset \in ObserveAfter : Observe(offset)
    BY DEF InStep, NothingBeforeOpening, Observe
  <2>3. ~ (ResumeOk /\ after = None)
    BY DEF InStep, ResumesWithLastOffset, ResumeOk
  <2>4. QED
    BY <2>1, <2>2, <2>3, StepMovesPlace
<1>2. QED
  BY <1>1, Invariance, PTL DEF Spec, ReadsOnAfterLastOffset

\* A handle opened without an offset implements the reader of DurableReader: it
\* goes through the log in order and goes back, to the start, once at most, when
\* it leaves the live stream.
THEOREM ImplementsReader ==
  ASSUME ObserveAfter \subseteq {0}
  PROVE  Spec => ReaderSpec
<1> DEFINE source == IF phase = "unopened" THEN "unopened" ELSE offsetSource
<1>1. Init => Reader!Init /\ base = 0
  BY DEF Init, Reader!Init
<1>2. base = 0 /\ [Next]_vars => (base = 0)'
  <2> SUFFICES ASSUME base = 0, [Next]_vars PROVE base' = 0
    OBVIOUS
  <2>1. ASSUME NEW offset \in ObserveAfter, Observe(offset) PROVE base' = 0
    BY <2>1 DEF Observe
  <2>2. CASE ResumeOk
    BY <2>2 DEF ResumeOk
  <2>3. CASE UNCHANGED base
    BY <2>3
  <2>4. QED
    BY <2>1, <2>2, <2>3
       DEF Next, vars, Execute, Terminate, EmitDelta, Feed, Keepalive, EndStream, Drop, Send,
           ReadKeepalive, ReadMessage, ReadDelta, ReadResult, ReadDone, ReadEnd, ResumeStart,
           ResumeFails, Cancel, Wait, Settle, WaitLiveReply, WaitLiveFails
<1>3. TypeOK /\ InStep /\ base = 0 /\ [Next]_vars => [Reader!Next]_(Reader!readerVars)
  <2> SUFFICES ASSUME TypeOK, InStep, base = 0, [Next]_vars
               PROVE  Reader!Next \/ UNCHANGED <<log, source, pos>>
    BY DEF Reader!readerVars
  <2>1. ASSUME NEW kind, PublishEvent(kind), UNCHANGED <<runVars, callVars, pos>>
        PROVE  Reader!Extend
    <3>1. Len(log') = Len(log) + 1 /\ \A i \in 1..Len(log) : log'[i] = log[i]
      BY <2>1 DEF PublishEvent, TypeOK
    <3>2. QED
      BY <2>1, <3>1 DEF Reader!Extend, runVars, callVars
  <2>2. CASE Execute \/ Terminate
    BY <2>1, <2>2 DEF Execute, Terminate, Reader!Next
  <2>3. CASE Send
    BY <2>3 DEF Send, bridgeVars, Reader!Next, Reader!Open, InStep, NothingBeforeOpening
  <2>4. ASSUME NEW offset \in ObserveAfter, Observe(offset)
        PROVE  Reader!Next
    BY <2>4 DEF Observe, bridgeVars, Reader!Next, Reader!Open
  <2>5. CASE ResumeOk
    <3>1. source # "unopened" /\ source = offsetSource /\ source' = "Durable" /\ log' = log
      BY <2>5 DEF ResumeOk, bridgeVars, TypeOK, Sources
    <3>2. CASE offsetSource = "Live"
      <4>1. after = None
        BY <2>5, <3>2 DEF ResumeOk, InStep, ResumesWithLastOffset
      <4>2. pos' = 0
        BY <2>5, <4>1 DEF ResumeOk
      <4>3. QED
        BY <3>1, <3>2, <4>2 DEF Reader!Next, Reader!Replay
    <3>3. CASE offsetSource = "Durable"
      <4>1. after = lastOffset /\ (lastOffset = pos \/ (lastOffset = None /\ pos = 0))
        BY <2>5, <3>3 DEF ResumeOk, InStep, ResumesWithLastOffset, DurableOffsetsArePlaces
      <4>2. pos' = pos
        BY <2>5, <4>1, RunStreamAssumption DEF ResumeOk, TypeOK
      <4>3. QED
        BY <3>1, <3>3, <4>2
    <3>4. QED
      BY <3>2, <3>3 DEF TypeOK, Sources
  <2>6. CASE Reading /\ pos' = pos + 1 /\ pos' <= Len(log) /\ UNCHANGED <<log, offsetSource, phase>>
    <3>1. source # "unopened" /\ source' = source
      BY <2>6 DEF Reading, TypeOK, Sources
    <3>2. pos < Len(log)
      BY <2>6 DEF TypeOK
    <3>3. QED
      BY <2>6, <3>1, <3>2 DEF Reader!Next, Reader!ReadNext
  <2>7. CASE pos' = pos /\ UNCHANGED <<log, offsetSource>> /\ (phase = "unopened" <=> phase' = "unopened")
    BY <2>7
  <2>8. ASSUME pos' = pos, ~Execute, ~Terminate, ~Send, ~ResumeOk,
               ~ \E offset \in ObserveAfter : Observe(offset)
        PROVE  UNCHANGED <<log, offsetSource>> /\ (phase = "unopened" <=> phase' = "unopened")
    <3>1. CASE EmitDelta \/ Feed \/ Keepalive \/ EndStream \/ Drop \/ Cancel \/ UNCHANGED vars
      BY <3>1 DEF EmitDelta, Feed, Keepalive, EndStream, Drop, Cancel,
         vars, bridgeVars, runVars, callVars
    <3>2. CASE ReadKeepalive \/ ReadMessage \/ ReadDelta \/ ReadResult
      BY <3>2 DEF ReadKeepalive, ReadMessage, ReadDelta, ReadResult, bridgeVars, callVars
    <3>3. CASE ReadDone \/ ReadEnd
      BY <3>3 DEF ReadDone, ReadEnd, CloseStream, Reading, bridgeVars, runVars
    <3>4. CASE ResumeStart \/ ResumeFails \/ Wait \/ Settle \/ WaitLiveReply \/ WaitLiveFails
      BY <3>4 DEF ResumeStart, ResumeFails, Wait, Settle, WaitLiveReply, WaitLiveFails,
         bridgeVars, runVars
    <3>5. QED
      BY <2>8, <3>1, <3>2, <3>3, <3>4 DEF Next
  <2>9. QED
    BY <2>2, <2>3, <2>4, <2>5, <2>6, <2>7, <2>8, StepMovesPlace
<1>4. QED
  BY <1>1, <1>2, <1>3, Invariance, PTL DEF Spec, ReaderSpec, Reader!Spec
===============================================================================
