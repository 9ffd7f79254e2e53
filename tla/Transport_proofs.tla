-------------------------- MODULE Transport_proofs --------------------------
(***************************************************************************)
(* For any number of frames and of answers: what the reader of a stream is *)
(* given follows what the bridge wrote, the verdict included, and the      *)
(* whole stream implements MessageStream.                                  *)
(*                                                                         *)
(* The reader keeps step with the frames (InStep): from it, StepShape says *)
(* all that a step may do to the answers, and each property follows.       *)
(***************************************************************************)
EXTENDS Transport, SequenceTheorems, TLAPS

\* What Append does, for the sequences of this module.
LEMMA AppendFacts ==
  ASSUME NEW S, NEW s \in Seq(S), NEW x \in S
  PROVE  /\ Append(s, x) \in Seq(S)
         /\ Len(Append(s, x)) = Len(s) + 1
         /\ \A i \in 1..Len(s) : Append(s, x)[i] = s[i]
         /\ Append(s, x)[Len(s) + 1] = x
<1> QED BY AppendProperties

LEMMA InitInv == Init => Inv
<1> SUFFICES ASSUME Init PROVE Inv
  OBVIOUS
<1>1. wire \in Seq(FrameKinds) /\ given \in Seq(Answers) /\ Len(wire) = 0 /\ Len(given) = 0
  BY DEF Init
<1>2. TypeOK
  BY <1>1 DEF Init, TypeOK, Phases, Results
<1> QED BY <1>1, <1>2 DEF Init, Inv, Pieces, InStep, ReadsWhileOpen, FinishedMeansVerdict

\* The call and its deadline do not touch the reader.
LEMMA CallInv ==
  ASSUME Inv, DeadlinePasses \/ CallStep
  PROVE  Inv'
<1> USE DEF DeadlinePasses, CallStep, TimesOut, RequestFails, HeadersOfBody, StreamOpens,
            BodyArrives, BodyBreaks, Return, bodyVars, readerVars, callVars, Inv
<1>1. TypeOK'
  BY DEF TypeOK, Phases, Results
<1>2. Pieces' /\ ReadsWhileOpen' /\ FinishedMeansVerdict'
  BY DEF Pieces, ReadsWhileOpen, FinishedMeansVerdict
<1>3. InStep'
  BY DEF InStep
<1> QED BY <1>1, <1>2, <1>3

\* The network adds frames and pieces behind the reader's back.
LEMMA NetworkInv ==
  ASSUME Inv, NetworkStep
  PROVE  Inv'
<1> USE DEF Inv
<1>1. ASSUME NEW kind \in FrameKinds, WriteFrame(kind) PROVE Inv'
  <2>1. /\ wire' \in Seq(FrameKinds)
        /\ Len(wire') = Len(wire) + 1
        /\ \A i \in 1..Len(wire) : wire'[i] = wire[i]
    BY <1>1, AppendFacts DEF WriteFrame, TypeOK
  <2>2. TypeOK'
    BY <1>1, <2>1 DEF WriteFrame, TypeOK, callVars, readerVars
  <2>3. Pieces' /\ ReadsWhileOpen' /\ FinishedMeansVerdict'
    BY <1>1, <2>1 DEF WriteFrame, TypeOK, Pieces, ReadsWhileOpen, FinishedMeansVerdict,
      callVars, readerVars
  <2>4. InStep'
    <3>1. ~torn /\ ~finished /\ phase # "over" => Len(given) <= Len(wire)
      BY DEF TypeOK, Pieces, InStep
    <3> QED BY <1>1, <2>1, <3>1 DEF WriteFrame, TypeOK, InStep, callVars, readerVars
  <2> QED BY <2>2, <2>3, <2>4
<1>2. CASE Arrive \/ BodyStops
  <2>1. /\ wire' = wire /\ UNCHANGED callVars /\ UNCHANGED readerVars
        /\ arrived' \in Nat /\ arrived <= arrived' /\ arrived' <= 2 * Len(wire)
        /\ connection' \in {"open", "closed", "broken"}
    BY <1>2 DEF Arrive, BodyStops, TypeOK, Pieces
  <2>2. TypeOK'
    BY <2>1 DEF TypeOK, callVars, readerVars
  <2>3. Pieces' /\ InStep' /\ ReadsWhileOpen' /\ FinishedMeansVerdict'
    BY <2>1 DEF TypeOK, Pieces, InStep, ReadsWhileOpen, FinishedMeansVerdict, callVars, readerVars
  <2> QED BY <2>2, <2>3
<1> QED BY <1>1, <1>2 DEF NetworkStep

------------------------------------------------------------------------------
(* The reader. *)

Upcoming == Len(given) + 1

\* Every answer so far is a message, in step with the frames.
AllGiven == \A j \in 1..Len(given) : given[j] = j /\ wire[j] \in MessageKinds

\* The next answer is what the frames and the body say.
Earned(item) ==
  \/ item = Upcoming /\ Upcoming <= Len(wire) /\ wire[Upcoming] \in MessageKinds
  \/ item = Done /\ Upcoming <= Len(wire) /\ wire[Upcoming] \in CleanEnd
  \/ /\ item = Failed
     /\ connection # "open" \/ (Upcoming <= Len(wire) /\ wire[Upcoming] \in FaultyKinds)

\* The frame of the header that was read is the next one to answer for.
LEMMA FrameIsNext ==
  ASSUME Inv, ~torn, reading = "payload"
  PROVE  Frame = Upcoming /\ taken = 2 * Len(given) + 1
<1>1. Len(given) \in Nat /\ taken = 2 * Len(given) + 1
  BY DEF Inv, TypeOK, FinishedMeansVerdict, ReadsWhileOpen, InStep
<1>2. taken + 1 = 2 * (Len(given) + 1)
  BY <1>1
<1>3. \A n \in Nat : (2 * n) \div 2 = n
  OBVIOUS
<1>4. Frame = Len(given) + 1
  BY <1>1, <1>2, <1>3 DEF Frame
<1> QED BY <1>1, <1>4 DEF Upcoming

\* What an answer of a reader in step is.
LEMMA AnswerShape ==
  ASSUME Inv, ~torn, ReadPayload \/ ReadFails
  PROVE  /\ ~finished /\ AllGiven
         /\ UNCHANGED <<callVars, bodyVars, torn>>
         /\ taken <= taken' /\ taken' <= arrived /\ reading' = "idle"
         /\ \E item \in Answers :
              /\ Earned(item) /\ Answer(item)
              /\ item = Upcoming => taken' = 2 * Upcoming
<1>1. reading # "idle" /\ ~finished /\ phase = "streaming"
  BY DEF ReadPayload, ReadFails, Inv, FinishedMeansVerdict, ReadsWhileOpen
<1>2. AllGiven
  BY <1>1 DEF Inv, InStep, AllGiven
<1>3. Upcoming \in Nat /\ Done \in Answers /\ Failed \in Answers /\ Upcoming \in Answers
      /\ Upcoming \notin Verdicts /\ Done # Failed
  BY TransportAssumption DEF Inv, TypeOK, Upcoming, Answers, Verdicts
<1>4. CASE ReadPayload
  <2>1. Frame = Upcoming /\ taken = 2 * Len(given) + 1
    BY <1>4, FrameIsNext DEF ReadPayload
  <2>2. taken < arrived /\ taken' = taken + 1 /\ arrived <= 2 * Len(wire)
    BY <1>4 DEF ReadPayload, Inv, Pieces
  <2>3. Upcoming <= Len(wire) /\ taken' = 2 * Upcoming /\ taken <= taken' /\ taken' <= arrived
    BY <2>1, <2>2 DEF Inv, TypeOK, Upcoming
  <2>4. \E item \in {Failed, Done, Upcoming} : Earned(item) /\ Answer(item)
    BY <1>4, <2>1, <2>3 DEF ReadPayload, Earned
  <2>5. reading' = "idle"
    BY <2>4 DEF Answer
  <2>6. UNCHANGED <<callVars, bodyVars, torn>>
    BY <1>4 DEF ReadPayload
  <2> QED BY <1>1, <1>2, <1>3, <2>3, <2>4, <2>5, <2>6
<1>5. CASE ReadFails
  <2>1. Answer(Failed) /\ Earned(Failed) /\ taken' = taken /\ taken <= arrived
    BY <1>5 DEF ReadFails, Earned, Inv, TypeOK, Pieces
  <2>2. reading' = "idle" /\ Failed # Upcoming /\ taken \in Nat
    BY <1>3, <2>1 DEF Answer, Verdicts, Inv, TypeOK
  <2>3. UNCHANGED <<callVars, bodyVars, torn>>
    BY <1>5 DEF ReadFails
  <2> QED BY <1>1, <1>2, <1>3, <2>1, <2>2, <2>3
<1> QED BY <1>4, <1>5

LEMMA AnswerIsBoolean ==
  ASSUME NEW item, Answer(item)
  PROVE  finished' \in BOOLEAN
<1>1. finished' = (item \in {Done, Failed})
  BY DEF Answer
<1>2. (item \in {Done, Failed}) \in BOOLEAN
  OBVIOUS
<1> QED BY <1>1, <1>2, Zenon

\* An answer is an append, and the stream is finished when it is a verdict.
LEMMA AnswerAppends ==
  ASSUME Inv, ~finished, NEW item \in Answers, Answer(item)
  PROVE  /\ given' \in Seq(Answers)
         /\ Len(given') = Upcoming
         /\ \A i \in 1..Len(given) : given'[i] = given[i]
         /\ given'[Upcoming] = item
         /\ FinishedMeansVerdict'
<1>1. given' = Append(given, item) /\ given \in Seq(Answers) /\ Len(given) \in Nat
  BY DEF Answer, Inv, TypeOK
<1>2. /\ given' \in Seq(Answers) /\ Len(given') = Upcoming /\ given'[Upcoming] = item
      /\ \A i \in 1..Len(given) : given'[i] = given[i]
  BY <1>1, AppendFacts DEF Upcoming
<1>3. finished' = (item \in Verdicts) /\ reading' = "idle"
  BY DEF Answer, Verdicts
<1>4. \A i \in 1..Len(given) : given[i] \notin Verdicts
  BY DEF Inv, FinishedMeansVerdict
<1>5. FinishedMeansVerdict'
  <2>1. CASE item \in Verdicts
    <3>1. Upcoming \in 1..Len(given') /\ given'[Upcoming] \in Verdicts
      BY <1>1, <1>2, <2>1 DEF Upcoming
    <3>2. finished'
      BY <1>3, <2>1
    <3> QED BY <1>3, <3>1, <3>2 DEF FinishedMeansVerdict
  <2>2. CASE item \notin Verdicts
    <3>1. ~finished'
      BY <1>3, <2>2
    <3>2. \A i \in 1..Len(given') : given'[i] \notin Verdicts
      BY <1>1, <1>2, <1>4, <2>2 DEF Upcoming
    <3> QED BY <3>1, <3>2 DEF FinishedMeansVerdict
  <2> QED BY <2>1, <2>2
<1> QED BY <1>2, <1>5

\* Out of step, what a `next` answers is not a message of the stream.
LEMMA StrayAnswer ==
  ASSUME Inv, torn, ReadPayload \/ ReadFails \/ Misread
  PROVE  \E item \in {Garbage, Done, Failed} : item \in Answers /\ Answer(item)
<1>1. Done \in Answers /\ Failed \in Answers /\ Garbage \in Answers
  BY DEF Answers
<1>2. ~ReadPayload
  BY DEF ReadPayload, Inv, ReadsWhileOpen
<1>3. CASE ReadFails
  BY <1>1, <1>3 DEF ReadFails
<1>4. CASE Misread
  BY <1>1, <1>4 DEF Misread
<1> QED BY <1>2, <1>3, <1>4

LEMMA ReadInv ==
  ASSUME Inv, ReadStep
  PROVE  Inv'
<1>1. CASE ReadHeader
  <2>1. /\ UNCHANGED <<callVars, bodyVars, finished, given, torn>> /\ ~torn
        /\ reading = "header" /\ reading' = "payload" /\ taken' = taken + 1 /\ taken < arrived
    BY <1>1 DEF ReadHeader
  <2> QED BY <2>1 DEF Inv, TypeOK, Pieces, InStep, ReadsWhileOpen, FinishedMeansVerdict,
        callVars, bodyVars
<1>2. CASE ~torn /\ (ReadPayload \/ ReadFails)
  <2>1. PICK item \in Answers : /\ Earned(item) /\ Answer(item)
                                /\ item = Upcoming => taken' = 2 * Upcoming
    BY <1>2, AnswerShape
  <2>2. /\ ~finished /\ AllGiven /\ UNCHANGED <<callVars, bodyVars, torn>>
        /\ taken <= taken' /\ taken' <= arrived /\ reading' = "idle"
    BY <1>2, AnswerShape
  <2>3. /\ given' \in Seq(Answers) /\ Len(given') = Upcoming /\ given'[Upcoming] = item
        /\ \A i \in 1..Len(given) : given'[i] = given[i]
        /\ FinishedMeansVerdict'
    BY <2>1, <2>2, AnswerAppends
  <2>4. ~finished' => item = Upcoming /\ wire[Upcoming] \in MessageKinds
    BY <2>1 DEF Answer, Earned
  <2>5. taken' \in Nat
    BY <1>2 DEF ReadPayload, ReadFails, Inv, TypeOK
  <2>6. TypeOK'
    BY <2>1, <2>2, <2>3, <2>5, AnswerIsBoolean DEF Inv, TypeOK, callVars, bodyVars
  <2>7. Pieces' /\ ReadsWhileOpen'
    BY <2>2 DEF Inv, Pieces, ReadsWhileOpen, bodyVars
  <2>8. InStep'
    <3> SUFFICES ASSUME ~finished' PROVE taken' = 2 * Len(given') /\ AllGiven'
      BY <2>2 DEF InStep, AllGiven
    <3>1. item = Upcoming /\ wire[Upcoming] \in MessageKinds /\ taken' = 2 * Upcoming
      BY <2>1, <2>4
    <3>2. wire' = wire /\ Len(given) \in Nat
      BY <2>2 DEF bodyVars, Inv, TypeOK
    <3> QED BY <2>2, <2>3, <3>1, <3>2 DEF AllGiven, Upcoming
  <2> QED BY <2>3, <2>6, <2>7, <2>8 DEF Inv
<1>3. CASE torn /\ (ReadPayload \/ ReadFails \/ Misread)
  <2>1. PICK item \in Answers : Answer(item)
    BY <1>3, StrayAnswer
  <2>2. ~finished
    BY <1>3 DEF ReadPayload, ReadFails, Misread, Inv, FinishedMeansVerdict
  <2>3. given' \in Seq(Answers) /\ FinishedMeansVerdict'
    BY <2>1, <2>2, AnswerAppends
  <2>4. reading' = "idle" /\ finished' \in BOOLEAN
    BY <2>1, AnswerIsBoolean DEF Answer
  <2>5. UNCHANGED <<callVars, bodyVars, torn>> /\ taken' \in Nat /\ taken' <= arrived
    <3>1. UNCHANGED <<callVars, bodyVars, torn>>
      BY <1>3 DEF ReadPayload, ReadFails, Misread
    <3>2. taken \in Nat /\ arrived \in Nat /\ taken <= arrived
      BY DEF Inv, TypeOK, Pieces
    <3>3. \/ taken < arrived /\ taken' = taken + 1
          \/ taken' = taken
          \/ taken' \in (taken + 1)..arrived
      BY <1>3 DEF ReadPayload, ReadFails, Misread
    <3>4. taken' \in Nat /\ taken' <= arrived
      BY <3>2, <3>3
    <3> QED BY <3>1, <3>4
  <2>6. TypeOK'
    BY <2>3, <2>4, <2>5 DEF Inv, TypeOK, callVars, bodyVars
  <2>7. Pieces' /\ ReadsWhileOpen' /\ InStep'
    BY <1>3, <2>4, <2>5 DEF Inv, Pieces, ReadsWhileOpen, InStep, bodyVars
  <2> QED BY <2>3, <2>6, <2>7 DEF Inv
<1> QED BY <1>1, <1>2, <1>3 DEF ReadStep, Misread

LEMMA CallerInv ==
  ASSUME Inv, Ask \/ AskAgain \/ Abandon \/ DropStream
  PROVE  Inv'
<1> USE DEF Inv
<1>1. CASE Ask
  BY <1>1 DEF Ask, TypeOK, Pieces, InStep, ReadsWhileOpen, FinishedMeansVerdict, callVars, bodyVars
<1>2. CASE AskAgain
  <2>1. Done \in Answers /\ given \in Seq(Answers) /\ given' = Append(given, Done) /\ finished
    BY <1>2 DEF AskAgain, Answers, TypeOK
  <2>2. /\ given' \in Seq(Answers) /\ Len(given') = Len(given) + 1 /\ Len(given) \in Nat
        /\ \A i \in 1..Len(given) : given'[i] = given[i]
    BY <2>1, AppendFacts
  <2>3. UNCHANGED <<callVars, bodyVars, taken, reading, finished, torn>>
    BY <1>2 DEF AskAgain
  <2>4. TypeOK'
    BY <2>2, <2>3 DEF TypeOK, callVars, bodyVars
  <2>5. Pieces' /\ InStep' /\ ReadsWhileOpen' /\ FinishedMeansVerdict'
    BY <2>1, <2>2, <2>3 DEF TypeOK, Pieces, InStep, ReadsWhileOpen, FinishedMeansVerdict, callVars, bodyVars
  <2> QED BY <2>4, <2>5
<1>3. CASE Abandon
  <2>1. reading' = "idle" /\ UNCHANGED <<callVars, bodyVars, taken, finished, given>>
    BY <1>3 DEF Abandon
  <2>2. (reading = "header" /\ torn' = torn) \/ torn' = TRUE
    BY <1>3, Zenon DEF Abandon
  <2>3. TypeOK'
    BY <2>1, <2>2 DEF TypeOK, callVars, bodyVars
  <2>4. Pieces' /\ ReadsWhileOpen' /\ FinishedMeansVerdict'
    BY <2>1 DEF Pieces, ReadsWhileOpen, FinishedMeansVerdict, callVars, bodyVars
  <2>5. InStep'
    BY <2>1, <2>2 DEF InStep, callVars, bodyVars
  <2> QED BY <2>3, <2>4, <2>5
<1>4. CASE DropStream
  BY <1>4 DEF DropStream, TypeOK, Phases, Pieces, InStep, ReadsWhileOpen, FinishedMeansVerdict,
    callVars, bodyVars
<1> QED BY <1>1, <1>2, <1>3, <1>4

LEMMA StepInv == Inv /\ [Next]_vars => Inv'
<1> SUFFICES ASSUME Inv, [Next]_vars PROVE Inv'
  OBVIOUS
<1>1. CASE UNCHANGED vars
  BY <1>1 DEF vars, callVars, bodyVars, readerVars, Inv, TypeOK, Pieces, InStep, ReadsWhileOpen,
    FinishedMeansVerdict
<1>2. CASE Next
  BY <1>1, <1>2, CallInv, NetworkInv, ReadInv, CallerInv DEF Next, Stopped
<1> QED BY <1>1, <1>2

\* The reader keeps step with the frames in every reachable state.
THEOREM Invariance == Spec => []Inv
<1> QED BY InitInv, StepInv, PTL DEF Spec
------------------------------------------------------------------------------
(* What a step does to the answers. *)

\* Nothing that was written is taken back.
Grows ==
  /\ Len(wire) \in Nat /\ Len(wire') \in Nat /\ Len(wire) <= Len(wire')
  /\ \A i \in 1..Len(wire) : wire'[i] = wire[i]
  /\ connection # "open" => connection' # "open"
  /\ torn => torn'

Appended(item) ==
  /\ given' \in Seq(Answers)
  /\ Len(given) \in Nat
  /\ Len(given') = Upcoming
  /\ \A i \in 1..Len(given) : given'[i] = given[i]
  /\ given'[Upcoming] = item
  /\ given' = Append(given, item)

LEMMA StepGrows ==
  ASSUME Inv, [Next]_vars
  PROVE  Grows
<1>1. Len(wire) \in Nat
  BY DEF Inv, TypeOK
<1>2. CASE wire' = wire /\ (connection # "open" => connection' # "open") /\ (torn => torn')
  BY <1>1, <1>2 DEF Grows
<1>3. ASSUME NEW kind \in FrameKinds, WriteFrame(kind) PROVE Grows
  <2>1. wire' = Append(wire, kind) /\ connection' = connection /\ torn' = torn
    BY <1>3 DEF WriteFrame, readerVars
  <2>2. Len(wire') = Len(wire) + 1 /\ \A i \in 1..Len(wire) : wire'[i] = wire[i]
    BY <2>1, AppendFacts DEF Inv, TypeOK
  <2> QED BY <1>1, <2>1, <2>2 DEF Grows
<1>4. CASE DeadlinePasses \/ CallStep
  BY <1>2, <1>4 DEF DeadlinePasses, CallStep, TimesOut, RequestFails, HeadersOfBody, StreamOpens,
    BodyArrives, BodyBreaks, bodyVars, readerVars
<1>5. CASE Arrive \/ BodyStops
  BY <1>2, <1>5 DEF Arrive, BodyStops, readerVars
<1>6. CASE Ask \/ AskAgain \/ ReadStep \/ Abandon \/ DropStream
  BY <1>2, <1>6 DEF Ask, AskAgain, ReadStep, ReadHeader, ReadPayload, ReadFails, Misread,
    Abandon, DropStream, bodyVars
<1>7. CASE UNCHANGED vars
  BY <1>2, <1>7 DEF vars, bodyVars, readerVars
<1> QED BY <1>3, <1>4, <1>5, <1>6, <1>7 DEF Next, NetworkStep, Stopped

\* The answers grow by one, by a repetition after the verdict or, before it, by
\* what a reader in step has earned.
LEMMA StepShape ==
  ASSUME Inv, [Next]_vars
  PROVE  \/ given' = given
         \/ finished /\ Appended(Done) /\ UNCHANGED <<wire, torn>>
         \/ /\ ~finished
            /\ UNCHANGED <<wire, torn>>
            /\ \E item \in Answers :
                 /\ Appended(item)
                 /\ ~torn => AllGiven /\ Earned(item)
                 /\ torn => item \in {Garbage, Done, Failed}
<1>1. CASE UNCHANGED given
  BY <1>1
<1>2. CASE AskAgain
  <2>1. finished /\ given' = Append(given, Done) /\ Done \in Answers /\ UNCHANGED <<wire, torn>>
    BY <1>2 DEF AskAgain, Answers, bodyVars
  <2>2. Appended(Done)
    BY <2>1, AppendFacts DEF Appended, Upcoming, Inv, TypeOK
  <2> QED BY <2>1, <2>2
<1>3. ASSUME ~finished, UNCHANGED <<wire, torn>>,
             NEW item \in Answers, Answer(item), ~torn => AllGiven /\ Earned(item),
             torn => item \in {Garbage, Done, Failed}
      PROVE  /\ ~finished /\ UNCHANGED <<wire, torn>>
             /\ \E other \in Answers :
                  /\ Appended(other)
                  /\ ~torn => AllGiven /\ Earned(other)
                  /\ torn => other \in {Garbage, Done, Failed}
  <2>1. Appended(item)
    BY <1>3, AnswerAppends DEF Appended, Answer, Inv, TypeOK
  <2> QED BY <1>3, <2>1
<1>4. CASE ~torn /\ (ReadPayload \/ ReadFails)
  <2>1. ~finished /\ AllGiven /\ UNCHANGED <<wire, torn>>
    BY <1>4, AnswerShape DEF bodyVars
  <2>2. PICK item \in Answers : Earned(item) /\ Answer(item)
    BY <1>4, AnswerShape
  <2> QED BY <1>3, <1>4, <2>1, <2>2
<1>5. CASE torn /\ (ReadPayload \/ ReadFails \/ Misread)
  <2>1. ~finished /\ UNCHANGED <<wire, torn>>
    BY <1>5 DEF ReadPayload, ReadFails, Misread, Inv, FinishedMeansVerdict, bodyVars
  <2>2. PICK item \in {Garbage, Done, Failed} : item \in Answers /\ Answer(item)
    BY <1>5, StrayAnswer
  <2> QED BY <1>3, <1>5, <2>1, <2>2
<1>6. CASE DeadlinePasses \/ CallStep
  BY <1>1, <1>6 DEF DeadlinePasses, CallStep, TimesOut, RequestFails, HeadersOfBody, StreamOpens,
    BodyArrives, BodyBreaks, readerVars
<1>7. CASE NetworkStep
  BY <1>1, <1>7 DEF NetworkStep, Arrive, BodyStops, WriteFrame, readerVars
<1>8. CASE Ask \/ ReadHeader \/ Abandon \/ DropStream \/ UNCHANGED vars
  BY <1>1, <1>8 DEF Ask, ReadHeader, Abandon, DropStream, vars, readerVars
<1>9. Misread => torn
  BY DEF Misread
<1> QED BY <1>2, <1>4, <1>5, <1>6, <1>7, <1>8, <1>9 DEF Next, ReadStep, Stopped
------------------------------------------------------------------------------
(* The properties. *)

Safety == GivenInOrder /\ CleanEndMeansAll /\ ErrorMeansFault /\ Fused

\* Nothing but the frames, the body or the history moves: the answers stay true.
LEMMA UnansweredSafe ==
  ASSUME Inv, Safety, Grows, given' = given
  PROVE  Safety'
<1>1. Len(given) \in Nat
  BY DEF Inv, TypeOK
<1>2. GivenInOrder' /\ Fused'
  BY DEF Safety, GivenInOrder, Fused, Grows
<1>3. CleanEndMeansAll'
  BY <1>1 DEF Safety, CleanEndMeansAll, Grows
<1>4. ErrorMeansFault'
  BY <1>1 DEF Safety, ErrorMeansFault, Grows
<1> QED BY <1>2, <1>3, <1>4 DEF Safety

\* An answer after the verdict.
LEMMA RepeatSafe ==
  ASSUME Inv, Safety, Grows, finished, Appended(Done)
  PROVE  Safety'
<1>1. PICK v \in 1..Len(given) : given[v] \in Verdicts
  BY DEF Inv, FinishedMeansVerdict
<1>2. v \in 1..Len(given') /\ given'[v] \in Verdicts /\ v < Upcoming /\ Upcoming \in Nat
  BY <1>1 DEF Appended, Upcoming
<1>3. \A i \in 1..Len(given') : i \in 1..Len(given) \/ i = Upcoming
  BY DEF Appended, Upcoming
<1>4. Done \in Verdicts /\ Done # Failed
  BY TransportAssumption DEF Verdicts
<1>5. GivenInOrder'
  BY <1>2, <1>3 DEF Safety, GivenInOrder, Grows, Appended
<1>6. CleanEndMeansAll'
  <2> SUFFICES ASSUME ~torn', NEW i \in 1..Len(given'),
                      given'[i] = Done, \A j \in 1..(i - 1) : given'[j] \notin Verdicts
               PROVE  /\ i <= Len(wire') /\ wire'[i] \in CleanEnd
                      /\ \A j \in 1..(i - 1) : given'[j] = j /\ wire'[j] \in MessageKinds
    BY DEF CleanEndMeansAll
  <2>1. i \in 1..Len(given)
    BY <1>2, <1>3
  <2>2. ~torn /\ given[i] = Done /\ \A j \in 1..(i - 1) : given[j] \notin Verdicts
    BY <2>1 DEF Grows, Appended
  <2>3. /\ i <= Len(wire) /\ wire[i] \in CleanEnd
        /\ \A j \in 1..(i - 1) : given[j] = j /\ wire[j] \in MessageKinds
    BY <2>1, <2>2 DEF Safety, CleanEndMeansAll
  <2>4. i \in 1..Len(wire) /\ Len(wire) <= Len(wire') /\ Len(wire) \in Nat /\ Len(wire') \in Nat
    BY <2>1, <2>3 DEF Grows
  <2>5. \A j \in 1..i : j \in 1..Len(wire) /\ wire'[j] = wire[j]
    BY <2>4 DEF Grows
  <2>6. \A j \in 1..(i - 1) : given'[j] = given[j] /\ j \in 1..i
    BY <2>1 DEF Appended
  <2> QED BY <2>3, <2>4, <2>5, <2>6
<1>7. ErrorMeansFault'
  BY <1>3, <1>4 DEF Safety, ErrorMeansFault, Grows, Appended
<1>8. Fused'
  BY <1>2, <1>3 DEF Safety, Fused, Appended
<1> QED BY <1>5, <1>6, <1>7, <1>8 DEF Safety

\* The answer of a reader that has given no verdict yet.
LEMMA AnswerSafe ==
  ASSUME Inv, Safety, Grows, ~finished, UNCHANGED wire,
         NEW item \in Answers, Appended(item), ~torn => AllGiven /\ Earned(item)
  PROVE  Safety'
<1>1. \A i \in 1..Len(given) : given[i] \notin Verdicts
  BY DEF Inv, FinishedMeansVerdict
<1>2. \A i \in 1..Len(given') : i \in 1..Len(given) \/ i = Upcoming
  BY DEF Appended, Upcoming
<1>3. Upcoming \in Nat /\ Upcoming \notin Verdicts /\ Done # Failed /\ Upcoming = Len(given) + 1
  BY TransportAssumption DEF Appended, Upcoming, Verdicts
<1>4. \A i \in 1..Len(given) : given'[i] = given[i] /\ given'[i] \notin Verdicts
  BY <1>1 DEF Appended
<1>5. given'[Upcoming] = item /\ Len(given') = Upcoming /\ wire' = wire
  BY DEF Appended
<1>6. GivenInOrder'
  <2> SUFFICES ASSUME ~torn', NEW i \in 1..Len(given'), given'[i] \notin Verdicts
               PROVE  given'[i] = i
    BY <1>3 DEF GivenInOrder
  <2>1. AllGiven /\ Earned(item)
    BY DEF Grows
  <2>2. CASE i \in 1..Len(given)
    BY <2>1, <2>2, <1>4 DEF AllGiven
  <2>3. CASE i = Upcoming
    BY <2>1, <2>3, <1>5 DEF Earned, Verdicts
  <2> QED BY <1>2, <2>2, <2>3
<1>7. CleanEndMeansAll'
  <2> SUFFICES ASSUME ~torn', NEW i \in 1..Len(given'), given'[i] = Done
               PROVE  /\ i <= Len(wire') /\ wire'[i] \in CleanEnd
                      /\ \A j \in 1..(i - 1) : given'[j] = j /\ wire'[j] \in MessageKinds
    BY DEF CleanEndMeansAll
  <2>1. AllGiven /\ Earned(item)
    BY DEF Grows
  <2>2. i = Upcoming /\ item = Done
    BY <1>2, <1>4, <1>5 DEF Verdicts
  <2>3. Upcoming <= Len(wire) /\ wire[Upcoming] \in CleanEnd
    BY <2>1, <2>2, <1>3 DEF Earned, Verdicts
  <2>4. \A j \in 1..Len(given) : given'[j] = j /\ wire'[j] \in MessageKinds
    BY <2>1, <1>4, <1>5 DEF AllGiven
  <2>5. 1..(i - 1) = 1..Len(given)
    BY <2>2, <1>3 DEF Appended
  <2>6. i <= Len(wire') /\ wire'[i] \in CleanEnd
    BY <2>2, <2>3, <1>5
  <2> QED BY <2>4, <2>5, <2>6
<1>8. ErrorMeansFault'
  <2> SUFFICES ASSUME ~torn', NEW i \in 1..Len(given'), given'[i] = Failed
               PROVE  connection' # "open" \/ (i <= Len(wire') /\ wire'[i] \in FaultyKinds)
    BY DEF ErrorMeansFault
  <2>1. Earned(item)
    BY DEF Grows
  <2>2. i = Upcoming /\ item = Failed
    BY <1>2, <1>4, <1>5 DEF Verdicts
  <2> QED BY <2>1, <2>2, <1>3, <1>5 DEF Earned, Verdicts, Grows
<1>9. Fused'
  BY <1>2, <1>3, <1>4, <1>5 DEF Fused, Appended
<1> QED BY <1>6, <1>7, <1>8, <1>9 DEF Safety

LEMMA SafetyStep == Inv /\ Safety /\ [Next]_vars => Safety'
<1> SUFFICES ASSUME Inv, Safety, [Next]_vars PROVE Safety'
  OBVIOUS
<1>1. Grows
  BY StepGrows
<1> QED BY <1>1, StepShape, UnansweredSafe, RepeatSafe, AnswerSafe

\* Order, completeness, blame and finality, in every reachable state.
THEOREM StreamSafety == Spec => [](GivenInOrder /\ CleanEndMeansAll /\ ErrorMeansFault /\ Fused)
<1>1. Init => Safety
  BY DEF Init, Safety, GivenInOrder, CleanEndMeansAll, ErrorMeansFault, Fused
<1>2. Safety => GivenInOrder /\ CleanEndMeansAll /\ ErrorMeansFault /\ Fused
  BY DEF Safety
<1> QED BY <1>1, <1>2, SafetyStep, Invariance, PTL DEF Spec
------------------------------------------------------------------------------
(* The abstract stream. *)

\* Run, and every other reader, may rely on MessageStream and nothing else.
THEOREM Implements == Spec => PromisedStream
<1> USE DEF Promise!Upcoming, Upcoming
<1>1. Init => Promise!Init
  BY DEF Init, Promise!Init
<1>2. Inv /\ [Next]_vars => [Promise!Next]_(Promise!streamVars)
  <2> SUFFICES ASSUME Inv, [Next]_vars
               PROVE  [Promise!Next]_(Promise!streamVars)
    OBVIOUS
  <2>1. Promise!Judged <=> finished
    BY DEF Promise!Judged, Inv, FinishedMeansVerdict, Verdicts
  <2>2. CASE given' = given
    <3>1. CASE UNCHANGED <<wire, torn>>
      BY <2>2, <3>1 DEF Promise!streamVars
    <3>2. ASSUME NEW kind \in FrameKinds, WriteFrame(kind) PROVE Promise!Write
      <4>1. wire' = Append(wire, kind) /\ wire \in Seq(FrameKinds) /\ torn' = torn
        BY <3>2 DEF WriteFrame, readerVars, Inv, TypeOK
      <4> QED BY <2>2, <4>1, AppendFacts DEF Promise!Write
    <3>3. CASE Abandon
      <4>1. UNCHANGED <<wire, given>> /\ (torn' = torn \/ torn' = TRUE)
        BY <3>3 DEF Abandon, bodyVars, Inv, TypeOK
      <4> QED BY <4>1 DEF Promise!Tear, Promise!Next, Promise!streamVars
    <3>4. Promise!Write => Promise!Next
      BY DEF Promise!Next
    <3> QED BY <3>1, <3>2, <3>3, <3>4 DEF vars, callVars, bodyVars, readerVars, Next, DeadlinePasses,
          CallStep, TimesOut, RequestFails, HeadersOfBody, StreamOpens, BodyArrives, BodyBreaks,
          NetworkStep, Arrive, BodyStops, Ask, AskAgain, ReadStep, ReadHeader, ReadPayload, ReadFails,
          Misread, DropStream, Stopped
  <2>3. CASE finished /\ Appended(Done) /\ UNCHANGED <<wire, torn>>
    BY <2>1, <2>3 DEF Appended, Promise!Repeat, Promise!Next
  <2>4. ASSUME ~finished, UNCHANGED <<wire, torn>>, NEW item \in Answers, Appended(item),
               ~torn => Earned(item), torn => item \in {Garbage, Done, Failed}
        PROVE  Promise!Next
    <3>1. given' = Append(given, item) /\ ~Promise!Judged
      BY <2>1, <2>4 DEF Appended
    <3>2. CASE ~torn
      BY <2>4, <3>1, <3>2 DEF Earned, Promise!Give, Promise!End, Promise!Fail, Promise!Next
    <3>3. CASE torn
      BY <2>4, <3>1, <3>3 DEF Promise!Stray, Promise!Fail, Promise!Next
    <3> QED BY <3>2, <3>3
  <2> QED BY <2>2, <2>3, <2>4, StepShape
<1> QED BY <1>1, <1>2, Invariance, PTL DEF Spec, PromisedStream, Promise!Spec
==============================================================================
