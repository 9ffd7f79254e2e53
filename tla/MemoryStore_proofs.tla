------------------------- MODULE MemoryStore_proofs -------------------------
(***************************************************************************)
(* RunEventStore: for any runs, keys and lengths a keyed append is         *)
(* recorded once and answered the same each time, a reader that pages is   *)
(* given every event once and in order, and the whole implements EventLog. *)
(* What makes it inductive: the numbers of a log are its indexes (so the   *)
(* page after an offset is an interval of places), and the idempotency map *)
(* holds, for each key, the one event of the log that has it.              *)
(*                                                                         *)
(* RecordStore: for any ids, documents, page sizes and interleavings a     *)
(* listing returns what is not touched meanwhile exactly once, no agent    *)
(* twice, and a cursor only to a page that is not empty. What makes it     *)
(* inductive is Placed, that among the untouched records those returned    *)
(* are the ones the cursor excludes, and AgentsPassed, that an agent once  *)
(* excluded stays so as times do not go back.                              *)
(***************************************************************************)
EXTENDS RunEventStore, RecordStore, SequenceTheorems, FiniteSetTheorems, TLAPS
-------------------------------------------------------------------------------
(* The run events. *)

\* The store a program builds (MemoryStore::new).
LEMMA InitLog == EventsInit => LogInv
<1> SUFFICES ASSUME EventsInit PROVE LogInv
  OBVIOUS
<1>1. LogTypeOK
  BY EmptySeq DEF EventsInit, LogTypeOK, Events
<1>2. Numbered /\ KeysMatchLog
  BY DEF EventsInit, Numbered, KeysMatchLog, Pairs
<1> QED BY <1>1, <1>2 DEF LogInv

\* Appending adds one event after those there were.
LEMMA AppendEffect ==
  ASSUME LogInv, NEW r \in Runs, NEW e \in Events,
         runEvents' = [runEvents EXCEPT ![r] = Append(@, e)]
  PROVE  /\ runEvents' \in [Runs -> Seq(Events)]
         /\ \A s \in Runs : s # r => runEvents'[s] = runEvents[s]
         /\ Len(runEvents'[r]) = Len(runEvents[r]) + 1
         /\ \A i \in 1..Len(runEvents[r]) : runEvents'[r][i] = runEvents[r][i]
         /\ runEvents'[r][Len(runEvents[r]) + 1] = e
<1>1. runEvents \in [Runs -> Seq(Events)]
  BY DEF LogInv, LogTypeOK
<1>2. runEvents'[r] = Append(runEvents[r], e)
  BY <1>1
<1> QED BY <1>1, <1>2, AppendProperties

\* The number an append gives is the next index.
LEMMA NextIsNext ==
  ASSUME LogInv, NEW r \in Runs, NEW key \in Keys \cup {None}
  PROVE  /\ NextEvent(r, key) \in Events
         /\ NextEvent(r, key).seq = Len(runEvents[r]) + 1
         /\ NextEvent(r, key).key = key
<1>1. runEvents[r] \in Seq(Events)
  BY DEF LogInv, LogTypeOK
<1>2. LastSeq(r) = Len(runEvents[r])
  BY <1>1, EmptySeq DEF LastSeq, LogInv, Numbered
<1> QED BY <1>1, <1>2 DEF NextEvent, Events

\* ... so a log stays numbered by its indexes.
LEMMA AppendNumbered ==
  ASSUME LogInv, NEW r \in Runs, NEW e \in Events, e.seq = Len(runEvents[r]) + 1,
         runEvents' = [runEvents EXCEPT ![r] = Append(@, e)]
  PROVE  Numbered'
<1> SUFFICES ASSUME NEW s \in Runs, NEW i \in 1..Len(runEvents'[s]) PROVE runEvents'[s][i].seq = i
  BY DEF Numbered
<1>0. Len(runEvents[r]) \in Nat
  BY DEF LogInv, LogTypeOK
<1>1. CASE s # r
  BY <1>1, AppendEffect DEF LogInv, Numbered
<1>2. CASE s = r /\ i \in 1..Len(runEvents[r])
  BY <1>2, AppendEffect DEF LogInv, Numbered
<1>3. CASE s = r /\ i = Len(runEvents[r]) + 1
  BY <1>3, AppendEffect
<1> QED BY <1>0, <1>1, <1>2, <1>3, AppendEffect

\* Every operation of the substore keeps LogInv.
LEMMA StepLog == LogInv /\ [EventsNext]_eventVars => LogInv'
<1> SUFFICES ASSUME LogInv, [EventsNext]_eventVars PROVE LogInv'
  OBVIOUS
<1> USE StoreAssumption
<1>t. /\ runEvents \in [Runs -> Seq(Events)]
      /\ idempotency \in [Pairs -> Events \cup {NoEvent}]
      /\ replies \in [Pairs -> SUBSET Events]
      /\ \A r \in Runs : runEvents[r] \in Seq(Events) /\ Len(runEvents[r]) \in Nat
  BY DEF LogInv, LogTypeOK
<1>n. NoEvent \notin Events
  BY DEF NoEvent, Events
<1>1. ASSUME NEW r \in Runs, AppendAnonymous(r) PROVE LogInv'
  <2> DEFINE e == NextEvent(r, None)
  <2>1. e \in Events /\ e.seq = Len(runEvents[r]) + 1 /\ e.key = None
    BY NextIsNext
  <2>2. /\ runEvents' = [runEvents EXCEPT ![r] = Append(@, e)]
        /\ UNCHANGED <<idempotency, replies, deletes>>
    BY <1>1 DEF AppendAnonymous
  <2> HIDE DEF e
  <2>3. LogTypeOK'
    BY <2>1, <2>2, AppendEffect DEF LogInv, LogTypeOK
  <2>4. Numbered'
    BY <2>1, <2>2, AppendNumbered
  <2>5. KeysMatchLog'
    <3> SUFFICES ASSUME NEW p \in Pairs
                 PROVE  /\ idempotency[p] # NoEvent =>
                             /\ idempotency[p].key = p[2]
                             /\ \E i \in 1..Len(runEvents'[p[1]]) : runEvents'[p[1]][i] = idempotency[p]
                        /\ \A i \in 1..Len(runEvents'[p[1]]) :
                             runEvents'[p[1]][i].key = p[2] => runEvents'[p[1]][i] = idempotency[p]
                        /\ replies[p] \subseteq {idempotency[p]} \ {NoEvent}
      BY <2>2, SMTT(60) DEF KeysMatchLog
    <3>1. p[1] \in Runs /\ p[2] \in Keys
      BY DEF Pairs
    <3>2. /\ idempotency[p] # NoEvent =>
               /\ idempotency[p].key = p[2]
               /\ \E i \in 1..Len(runEvents[p[1]]) : runEvents[p[1]][i] = idempotency[p]
          /\ \A i \in 1..Len(runEvents[p[1]]) :
               runEvents[p[1]][i].key = p[2] => runEvents[p[1]][i] = idempotency[p]
          /\ replies[p] \subseteq {idempotency[p]} \ {NoEvent}
      BY DEF LogInv, KeysMatchLog
    <3>3. CASE p[1] # r
      BY <3>1, <3>2, <3>3, <2>1, <2>2, AppendEffect
    <3>4. CASE p[1] = r
      <4>1. /\ Len(runEvents'[r]) = Len(runEvents[r]) + 1
            /\ \A i \in 1..Len(runEvents[r]) : runEvents'[r][i] = runEvents[r][i]
            /\ runEvents'[r][Len(runEvents[r]) + 1] = e
        BY <2>1, <2>2, AppendEffect
      <4>2. e.key # p[2]
        BY <2>1, <3>1
      <4>3. Len(runEvents[r]) \in Nat
        BY <1>t
      <4>4. \A i \in 1..Len(runEvents'[r]) : runEvents'[r][i].key = p[2] => i \in 1..Len(runEvents[r])
        BY <4>1, <4>2, <4>3
      <4>5. \A i \in 1..Len(runEvents[r]) : i \in 1..Len(runEvents'[r])
        BY <4>1, <4>3
      <4> QED BY <3>2, <3>4, <4>1, <4>4, <4>5
    <3> QED BY <3>3, <3>4
  <2> QED BY <2>3, <2>4, <2>5 DEF LogInv
<1>2. ASSUME NEW r \in Runs, NEW key \in Keys, AppendKeyed(r, key) PROVE LogInv'
  <2> DEFINE e == NextEvent(r, key)
             q == <<r, key>>
  <2>1. e \in Events /\ e.seq = Len(runEvents[r]) + 1 /\ e.key = key
    BY NextIsNext
  <2>2. /\ idempotency[q] = NoEvent
        /\ runEvents' = [runEvents EXCEPT ![r] = Append(@, e)]
        /\ idempotency' = [idempotency EXCEPT ![q] = e]
        /\ replies' = [replies EXCEPT ![q] = @ \cup {e}]
        /\ UNCHANGED deletes
    BY <1>2 DEF AppendKeyed
  <2> HIDE DEF e
  <2>q. q \in Pairs /\ q[1] = r /\ q[2] = key
    BY DEF Pairs
  <2>3. LogTypeOK'
    <3>1. replies' \in [Pairs -> SUBSET Events]
      BY <2>1, <2>2, <2>q, <1>t
    <3>2. idempotency' \in [Pairs -> Events \cup {NoEvent}]
      BY <2>1, <2>2, <2>q, <1>t
    <3> QED BY <2>1, <2>2, <3>1, <3>2, AppendEffect DEF LogInv, LogTypeOK
  <2>4. Numbered'
    BY <2>1, <2>2, AppendNumbered
  <2>5. KeysMatchLog'
    <3> SUFFICES ASSUME NEW p \in Pairs
                 PROVE  /\ idempotency'[p] # NoEvent =>
                             /\ idempotency'[p].key = p[2]
                             /\ \E i \in 1..Len(runEvents'[p[1]]) : runEvents'[p[1]][i] = idempotency'[p]
                        /\ \A i \in 1..Len(runEvents'[p[1]]) :
                             runEvents'[p[1]][i].key = p[2] => runEvents'[p[1]][i] = idempotency'[p]
                        /\ replies'[p] \subseteq {idempotency'[p]} \ {NoEvent}
      BY DEF KeysMatchLog
    <3>1. p[1] \in Runs /\ p[2] \in Keys /\ p = <<p[1], p[2]>>
      BY DEF Pairs
    <3>2. /\ idempotency[p] # NoEvent =>
               /\ idempotency[p].key = p[2]
               /\ \E i \in 1..Len(runEvents[p[1]]) : runEvents[p[1]][i] = idempotency[p]
          /\ \A i \in 1..Len(runEvents[p[1]]) :
               runEvents[p[1]][i].key = p[2] => runEvents[p[1]][i] = idempotency[p]
          /\ replies[p] \subseteq {idempotency[p]} \ {NoEvent}
      BY DEF LogInv, KeysMatchLog
    <3>3. /\ Len(runEvents'[r]) = Len(runEvents[r]) + 1
          /\ \A i \in 1..Len(runEvents[r]) : runEvents'[r][i] = runEvents[r][i]
          /\ runEvents'[r][Len(runEvents[r]) + 1] = e
          /\ Len(runEvents[r]) \in Nat
      BY <2>1, <2>2, <1>t, AppendEffect
    <3>4. CASE p = q
      <4>1. idempotency'[p] = e /\ replies'[p] = {e} /\ idempotency[p] = NoEvent
        BY <3>4, <3>2, <2>2, <1>t, <2>q
      <4>2. \A i \in 1..Len(runEvents[r]) : runEvents[r][i].key # key
        <5>1. \A i \in 1..Len(runEvents[r]) : runEvents[r][i] \in Events
          BY <1>t
        <5> QED BY <5>1, <4>1, <3>2, <3>4, <1>n, <2>q
      <4>3. e # NoEvent
        BY <2>1, <1>n
      <4>4. Len(runEvents[r]) + 1 \in 1..Len(runEvents'[r])
        BY <3>3
      <4>5. \A i \in 1..Len(runEvents'[r]) : i \in 1..Len(runEvents[r]) \/ i = Len(runEvents[r]) + 1
        BY <3>3
      <4> QED BY <4>1, <4>2, <4>3, <4>4, <4>5, <3>3, <3>4, <2>1, <2>q
    <3>5. CASE p # q
      <4>1. idempotency'[p] = idempotency[p] /\ replies'[p] = replies[p]
        BY <3>5, <2>2, <1>t, <2>q
      <4>2. CASE p[1] # r
        BY <4>1, <4>2, <3>1, <3>2, <2>1, <2>2, AppendEffect
      <4>3. CASE p[1] = r
        <5>1. e.key # p[2]
          BY <4>3, <3>1, <3>5, <2>1
        <5>2. \A i \in 1..Len(runEvents'[r]) : runEvents'[r][i].key = p[2] => i \in 1..Len(runEvents[r])
          BY <5>1, <3>3
        <5>3. \A i \in 1..Len(runEvents[r]) : i \in 1..Len(runEvents'[r])
          BY <3>3
        <5> QED BY <4>1, <4>3, <3>2, <3>3, <5>2, <5>3
      <4> QED BY <4>2, <4>3
    <3> QED BY <3>4, <3>5
  <2> QED BY <2>3, <2>4, <2>5 DEF LogInv
<1>3. ASSUME NEW r \in Runs, NEW key \in Keys, AppendAgain(r, key) PROVE LogInv'
  <2> DEFINE q == <<r, key>>
  <2>1. /\ q \in Pairs
        /\ idempotency[q] # NoEvent
        /\ replies' = [replies EXCEPT ![q] = @ \cup {idempotency[q]}]
        /\ UNCHANGED <<runEvents, idempotency, deletes>>
    BY <1>3 DEF AppendAgain, Pairs
  <2>2. idempotency[q] \in Events
    BY <2>1, <1>t
  <2>3. LogTypeOK'
    BY <2>1, <2>2, <1>t DEF LogInv, LogTypeOK
  <2>4. \A p \in Pairs : replies'[p] \subseteq {idempotency[p]} \ {NoEvent}
    BY <2>1, <1>t DEF LogInv, KeysMatchLog
  <2>5. KeysMatchLog'
    BY <2>1, <2>4 DEF LogInv, KeysMatchLog
  <2>6. Numbered'
    BY <2>1 DEF LogInv, Numbered
  <2> QED BY <2>3, <2>5, <2>6 DEF LogInv
<1>4. ASSUME NEW ids \in SUBSET Runs, Delete(ids) PROVE LogInv'
  <2> DEFINE doomed == {r \in Runs : (ids = {} \/ r \in ids) /\ runEvents[r] # <<>>}
  <2>1. /\ deletes' = deletes + 1
        /\ runEvents' = [r \in Runs |-> IF r \in doomed THEN <<>> ELSE runEvents[r]]
        /\ idempotency' = [p \in Pairs |-> IF p[1] \in doomed THEN NoEvent ELSE idempotency[p]]
        /\ replies' = [p \in Pairs |-> IF p[1] \in doomed THEN {} ELSE replies[p]]
    BY <1>4 DEF Delete
  <2> HIDE DEF doomed
  <2>2. LogTypeOK'
    <3>1. runEvents' \in [Runs -> Seq(Events)]
      BY <2>1, <1>t, EmptySeq
    <3>2. /\ idempotency' \in [Pairs -> Events \cup {NoEvent}]
          /\ replies' \in [Pairs -> SUBSET Events]
      BY <2>1, <1>t
    <3>3. deletes' \in Nat
      BY <2>1 DEF LogInv, LogTypeOK
    <3> QED BY <3>1, <3>2, <3>3 DEF LogTypeOK
  <2>3. Numbered'
    BY <2>1 DEF LogInv, Numbered
  <2>4. KeysMatchLog'
    <3> SUFFICES ASSUME NEW p \in Pairs
                 PROVE  /\ idempotency'[p] # NoEvent =>
                             /\ idempotency'[p].key = p[2]
                             /\ \E i \in 1..Len(runEvents'[p[1]]) : runEvents'[p[1]][i] = idempotency'[p]
                        /\ \A i \in 1..Len(runEvents'[p[1]]) :
                             runEvents'[p[1]][i].key = p[2] => runEvents'[p[1]][i] = idempotency'[p]
                        /\ replies'[p] \subseteq {idempotency'[p]} \ {NoEvent}
      BY DEF KeysMatchLog
    <3>1. p[1] \in Runs
      BY DEF Pairs
    <3>2. CASE p[1] \in doomed
      BY <2>1, <3>1, <3>2
    <3>3. CASE p[1] \notin doomed
      BY <2>1, <3>1, <3>3 DEF LogInv, KeysMatchLog
    <3> QED BY <3>2, <3>3
  <2> QED BY <2>2, <2>3, <2>4 DEF LogInv
<1>5. CASE UNCHANGED <<runEvents, idempotency, replies, deletes>>
  BY <1>5 DEF LogInv, LogTypeOK, Numbered, KeysMatchLog
<1>6. ASSUME NEW r \in Runs, StartReading(r) PROVE LogInv'
  BY <1>6, <1>5 DEF StartReading
<1>7. ASSUME NEW limit \in Limits, ReadPage(limit) PROVE LogInv'
  BY <1>7, <1>5 DEF ReadPage
<1>8. CASE UNCHANGED eventVars
  BY <1>8, <1>5 DEF eventVars
<1> QED BY <1>1, <1>2, <1>3, <1>4, <1>6, <1>7, <1>8 DEF EventsNext

\* The log and the idempotency map agree in every reachable state.
THEOREM LogInvariance == EventsSpec => []LogInv
<1>1. EventsInit => LogInv
  BY InitLog
<1>2. LogInv /\ [EventsNext]_eventVars => LogInv'
  BY StepLog
<1> QED BY <1>1, <1>2, PTL DEF EventsSpec

\* However often a keyed append is repeated, it has one answer (append).
THEOREM OneAnswer == EventsSpec => []RepliesAgree
<1>1. LogInv => RepliesAgree
  <2> SUFFICES ASSUME LogInv, NEW p \in Pairs
               PROVE  /\ \A e, f \in replies[p] : e = f
                      /\ \A e \in replies[p] : \E i \in 1..Len(runEvents[p[1]]) : runEvents[p[1]][i] = e
    BY DEF RepliesAgree
  <2>1. \A e \in replies[p] : e = idempotency[p] /\ e # NoEvent
    BY DEF LogInv, KeysMatchLog
  <2> QED BY <2>1 DEF LogInv, KeysMatchLog
<1> QED BY <1>1, LogInvariance, PTL

\* ... and is recorded once.
THEOREM RecordedOnce == EventsSpec => []KeyUsedOnce
<1>1. LogInv => KeyUsedOnce
  <2> SUFFICES ASSUME LogInv, NEW r \in Runs,
                      NEW i \in 1..Len(runEvents[r]), NEW j \in 1..Len(runEvents[r]),
                      runEvents[r][i].key # None, runEvents[r][i].key = runEvents[r][j].key
               PROVE  i = j
    BY DEF KeyUsedOnce
  <2> DEFINE p == <<r, runEvents[r][i].key>>
  <2>1. runEvents[r] \in Seq(Events)
    BY DEF LogInv, LogTypeOK
  <2>2. runEvents[r][i] \in Events
    BY <2>1
  <2>3. p \in Pairs /\ p[1] = r /\ p[2] = runEvents[r][i].key
    BY <2>2 DEF Pairs, Events
  <2>4. runEvents[r][i] = runEvents[r][j]
    BY <2>3 DEF LogInv, KeysMatchLog
  <2> QED BY <2>4 DEF LogInv, Numbered
<1> QED BY <1>1, LogInvariance, PTL

\* What follows an offset in a log that is numbered by its indexes.
LEMMA FollowingIs ==
  ASSUME LogInv, run \in Runs, after \in Nat, after <= Len(runEvents[run])
  PROVE  /\ Len(runEvents[run]) \in Nat
         /\ Cardinality(Following) = Len(runEvents[run]) - after
         /\ \A n \in 1..(Len(runEvents[run]) - after) : Nth(n) = after + n
<1> DEFINE last == Len(runEvents[run])
<1>1. last \in Nat
  BY DEF LogInv, LogTypeOK
<1>2. \A i \in 1..last : runEvents[run][i].seq = i
  BY DEF LogInv, Numbered
<1> HIDE DEF last
<1>3. Following = (after + 1)..last
  BY <1>1, <1>2 DEF Following, last
<1>4. Cardinality(Following) = last - after
  <2>1. Cardinality((after + 1)..last) = IF after + 1 > last THEN 0 ELSE last - (after + 1) + 1
    BY <1>1, FS_Interval
  <2> QED BY <1>1, <1>3, <2>1 DEF last
<1>5. ASSUME NEW i \in Following
      PROVE  Cardinality({j \in Following : j <= i}) = i - after
  <2>1. i \in Int /\ i > after /\ i <= last
    BY <1>1, <1>3
  <2>2. {j \in Following : j <= i} = (after + 1)..i
    BY <1>1, <1>3, <2>1
  <2>3. Cardinality((after + 1)..i) = IF after + 1 > i THEN 0 ELSE i - (after + 1) + 1
    BY <2>1, FS_Interval
  <2>4. Cardinality((after + 1)..i) = i - after
    BY <2>1, <2>3
  <2> QED BY <2>2, <2>4, Zenon
<1>6. ASSUME NEW n \in 1..(last - after) PROVE Nth(n) = after + n
  <2>1. after + n \in Following
    BY <1>1, <1>3
  <2>2. Cardinality({j \in Following : j <= after + n}) = n
    BY <1>5, <2>1
  <2>3. \A i \in Following : Cardinality({j \in Following : j <= i}) = n => i = after + n
    BY <1>1, <1>3, <1>5
  <2>4. Nth(n) \in Following /\ Cardinality({j \in Following : j <= Nth(n)}) = n
    BY <2>1, <2>2 DEF Nth
  <2> HIDE DEF Nth
  <2> QED BY <2>3, <2>4
<1> QED BY <1>1, <1>4, <1>6 DEF last

\* A page goes on where the reader is.
LEMMA ReadPageEffect ==
  ASSUME LogInv, ReaderInv, ~stale, NEW limit \in Limits, ReadPage(limit)
  PROVE  \E count \in Nat :
           /\ after' = after + count /\ after' <= Len(runEvents[run])
           /\ got' = [i \in 1..after' |-> i]
           /\ count = Shorter(limit, Len(runEvents[run]) - after)
<1> DEFINE count == Shorter(limit, Cardinality(Following))
           offsets == [n \in 1..count |-> runEvents[run][Nth(n)].seq]
<1>1. /\ run # None /\ run \in Runs /\ after \in Nat
      /\ after <= Len(runEvents[run]) /\ got = [i \in 1..after |-> i]
  BY DEF ReadPage, ReaderInv, ReaderSeesPrefix
<1>2. /\ Len(runEvents[run]) \in Nat /\ Cardinality(Following) = Len(runEvents[run]) - after
      /\ \A n \in 1..(Len(runEvents[run]) - after) : Nth(n) = after + n
  BY <1>1, FollowingIs
<1>3. count \in Nat /\ count <= Len(runEvents[run]) - after
  BY <1>1, <1>2, StoreAssumption DEF Shorter
<1>4. /\ got' = got \o offsets
      /\ \/ count = 0 /\ UNCHANGED after
         \/ count > 0 /\ after' = offsets[count]
  BY DEF ReadPage
<1> HIDE DEF count
<1>5. ASSUME NEW n \in 1..count PROVE runEvents[run][Nth(n)].seq = after + n
  <2>1. n \in 1..(Len(runEvents[run]) - after)
    BY <1>1, <1>2, <1>3
  <2>2. Nth(n) = after + n
    BY <1>2, <2>1, Zenon
  <2>3. after + n \in 1..Len(runEvents[run])
    BY <1>1, <1>2, <1>3
  <2> QED BY <1>1, <2>2, <2>3 DEF LogInv, Numbered
<1>6. offsets = [n \in 1..count |-> after + n]
  BY <1>5
<1>7. after' = after + count
  BY <1>1, <1>3, <1>4, <1>6
<1>8. got' = [i \in 1..(after + count) |-> i]
  <2> DEFINE s == [i \in 1..after |-> i]
             t == [n \in 1..count |-> after + n]
             u == [i \in 1..(after + count) |-> i]
  <2>1. s \in Seq(Nat) /\ Len(s) = after
    BY <1>1
  <2>2. t \in Seq(Nat) /\ Len(t) = count
    BY <1>1, <1>3
  <2>3. u \in Seq(Nat) /\ Len(u) = after + count
    BY <1>1, <1>3
  <2>4. \A i \in 1..after : s[i] = i
    OBVIOUS
  <2>5. \A n \in 1..count : t[n] = after + n
    OBVIOUS
  <2>6. \A i \in 1..(after + count) : u[i] = i
    OBVIOUS
  <2>7. got' = s \o t
    BY <1>1, <1>4, <1>6
  <2> HIDE DEF s, t, u
  <2>8. /\ s \o t \in Seq(Nat) /\ Len(s \o t) = after + count
        /\ \A i \in 1..(after + count) : (s \o t)[i] = IF i <= after THEN s[i] ELSE t[i - after]
    BY <2>1, <2>2, ConcatProperties
  <2>9. \A i \in 1..(after + count) : (s \o t)[i] = u[i]
    BY <1>1, <1>3, <2>4, <2>5, <2>6, <2>8
  <2>10. s \o t = u
    BY <2>3, <2>8, <2>9, SeqEqual
  <2> QED BY <2>7, <2>10 DEF u
<1> QED BY <1>1, <1>2, <1>3, <1>7, <1>8 DEF count

LEMMA StepReader == LogInv /\ ReaderInv /\ [EventsNext]_eventVars => ReaderInv'
<1> SUFFICES ASSUME LogInv, ReaderInv, [EventsNext]_eventVars PROVE ReaderInv'
  OBVIOUS
\* The log of the run only grows, unless it is deleted.
<1>1. ASSUME UNCHANGED readerVars,
             \A r \in Runs : Len(runEvents[r]) \in Nat /\ Len(runEvents'[r]) \in Nat
                           /\ Len(runEvents[r]) <= Len(runEvents'[r])
      PROVE  ReaderInv'
  <2>1. run' = run /\ after' = after /\ got' = got /\ stale' = stale
    BY <1>1 DEF readerVars
  <2>2. run # None /\ ~stale => after <= Len(runEvents'[run])
    BY <1>1 DEF ReaderInv, ReaderSeesPrefix
  <2> QED BY <2>1, <2>2 DEF ReaderInv, ReaderSeesPrefix
<1>2. \A r \in Runs : Len(runEvents[r]) \in Nat
  BY DEF LogInv, LogTypeOK
<1>3. ASSUME NEW r \in Runs, NEW key \in Keys \cup {None}, UNCHANGED readerVars,
             runEvents' = [runEvents EXCEPT ![r] = Append(@, NextEvent(r, key))]
      PROVE  ReaderInv'
  <2>1. \A s \in Runs : Len(runEvents'[s]) = IF s = r THEN Len(runEvents[s]) + 1 ELSE Len(runEvents[s])
    BY <1>3, NextIsNext, AppendEffect
  <2> QED BY <1>1, <1>2, <1>3, <2>1
<1>4. ASSUME NEW r \in Runs, AppendAnonymous(r) PROVE ReaderInv'
  BY <1>3, <1>4 DEF AppendAnonymous
<1>5. ASSUME NEW r \in Runs, NEW key \in Keys, AppendKeyed(r, key) PROVE ReaderInv'
  BY <1>3, <1>5 DEF AppendKeyed
<1>6. ASSUME NEW r \in Runs, NEW key \in Keys, AppendAgain(r, key) PROVE ReaderInv'
  BY <1>1, <1>2, <1>6 DEF AppendAgain
<1>7. ASSUME NEW ids \in SUBSET Runs, Delete(ids) PROVE ReaderInv'
  <2> DEFINE doomed == {r \in Runs : (ids = {} \/ r \in ids) /\ runEvents[r] # <<>>}
  <2>1. /\ runEvents' = [r \in Runs |-> IF r \in doomed THEN <<>> ELSE runEvents[r]]
        /\ stale' = (stale \/ run \in doomed)
        /\ UNCHANGED <<run, after, got>>
    BY <1>7 DEF Delete
  <2>d. None \notin doomed
    BY StoreAssumption
  <2> HIDE DEF doomed
  <2>2. run # None /\ ~stale' => ~stale /\ runEvents'[run] = runEvents[run]
    BY <2>1 DEF ReaderInv
  <2>3. (~stale' => ~stale) /\ (run = None => ~stale')
    BY <2>1, <2>d DEF ReaderInv
  <2> QED BY <2>1, <2>2, <2>3 DEF ReaderInv, ReaderSeesPrefix
<1>8. ASSUME NEW r \in Runs, StartReading(r) PROVE ReaderInv'
  <2>1. /\ run' = r /\ after' = 0 /\ got' = <<>> /\ ~stale' /\ runEvents' = runEvents
    BY <1>8 DEF StartReading, ReaderInv
  <2>2. <<>> = [i \in 1..0 |-> i]
    OBVIOUS
  <2> QED BY <1>2, <2>1, <2>2 DEF ReaderInv, ReaderSeesPrefix
<1>9. ASSUME NEW limit \in Limits, ReadPage(limit) PROVE ReaderInv'
  <2>1. run' = run /\ run # None /\ stale' = stale /\ runEvents' = runEvents
    BY <1>9 DEF ReadPage
  <2>2. CASE stale
    BY <2>1, <2>2 DEF ReaderInv, ReaderSeesPrefix
  <2>3. CASE ~stale
    <3>1. PICK count \in Nat : /\ after' = after + count /\ after' <= Len(runEvents[run])
                               /\ got' = [i \in 1..after' |-> i]
      BY <1>9, <2>3, ReadPageEffect
    <3>2. after' \in Nat
      BY <2>3, <3>1 DEF ReaderInv
    <3> QED BY <2>1, <2>3, <3>1, <3>2 DEF ReaderInv, ReaderSeesPrefix
  <2> QED BY <2>2, <2>3
<1>10. CASE UNCHANGED eventVars
  BY <1>1, <1>2, <1>10 DEF eventVars, readerVars
<1> QED BY <1>4, <1>5, <1>6, <1>7, <1>8, <1>9, <1>10 DEF EventsNext

LEMMA ReaderInvariance == EventsSpec => []ReaderInv
<1>1. EventsInit => ReaderInv
  BY DEF EventsInit, ReaderInv, ReaderSeesPrefix
<1> QED BY <1>1, StepReader, LogInvariance, PTL DEF EventsSpec

\* A reader is given the events of its run once and in order, over any pages and polls
\* (run_events, list), as long as nobody deletes the run.
THEOREM ReaderIsGivenPrefix == EventsSpec => []ReaderSeesPrefix
<1>1. ReaderInv => ReaderSeesPrefix
  BY DEF ReaderInv
<1> QED BY <1>1, ReaderInvariance, PTL
------------------------------------------------------------------------------
(* The abstract log. *)

\* The keys of a log to which an event is appended.
LEMMA KeysOfAppend ==
  ASSUME NEW s \in Seq(Events), NEW e \in Events
  PROVE  [i \in 1..Len(Append(s, e)) |-> Append(s, e)[i].key] = Append([i \in 1..Len(s) |-> s[i].key], e.key)
<1> DEFINE K == Keys \cup {None}
           t == [i \in 1..Len(s) |-> s[i].key]
           u == [i \in 1..Len(Append(s, e)) |-> Append(s, e)[i].key]
<1>1. Len(s) \in Nat /\ \A i \in 1..Len(s) : s[i] \in Events
  OBVIOUS
<1>2. \A f \in Events : f.key \in K
  BY DEF Events
<1>3. /\ Append(s, e) \in Seq(Events) /\ Len(Append(s, e)) = Len(s) + 1
      /\ \A i \in 1..Len(s) : Append(s, e)[i] = s[i]
      /\ Append(s, e)[Len(s) + 1] = e
  BY AppendProperties
<1>4. t \in Seq(K) /\ Len(t) = Len(s) /\ \A i \in 1..Len(s) : t[i] = s[i].key
  <2>1. t \in [1..Len(s) -> K]
    BY <1>1, <1>2
  <2> QED BY <1>1, <2>1
<1>5. \A i \in 1..(Len(s) + 1) : i \in 1..Len(s) \/ i = Len(s) + 1
  BY <1>1
<1>6. \A i \in 1..(Len(s) + 1) : Append(s, e)[i] \in Events
  BY <1>1, <1>3, <1>5
<1>7. u \in Seq(K) /\ Len(u) = Len(s) + 1 /\ \A i \in 1..(Len(s) + 1) : u[i] = Append(s, e)[i].key
  <2>1. u \in [1..(Len(s) + 1) -> K]
    BY <1>2, <1>3, <1>6
  <2> QED BY <1>1, <1>3, <2>1
<1> HIDE DEF K, t, u
<1>8. e.key \in K
  BY <1>2
<1>9. /\ Append(t, e.key) \in Seq(K) /\ Len(Append(t, e.key)) = Len(t) + 1
      /\ \A i \in 1..Len(t) : Append(t, e.key)[i] = t[i]
      /\ Append(t, e.key)[Len(t) + 1] = e.key
  BY <1>4, <1>8, AppendProperties
<1>10. \A i \in 1..(Len(s) + 1) : u[i] = Append(t, e.key)[i]
  BY <1>3, <1>4, <1>5, <1>7, <1>9
<1>11. u = Append(t, e.key)
  BY <1>4, <1>7, <1>9, <1>10, SeqEqual
<1> QED BY <1>11 DEF t, u

\* An append adds its key to the log of its run, and to no other.
LEMMA KeyLogsGrow ==
  ASSUME LogInv, NEW r \in Runs, NEW e \in Events,
         runEvents' = [runEvents EXCEPT ![r] = Append(@, e)]
  PROVE  KeyLogs' = [KeyLogs EXCEPT ![r] = Append(@, e.key)]
<1> DEFINE KeysOf(s) == [i \in 1..Len(s) |-> s[i].key]
<1>1. runEvents[r] \in Seq(Events)
  BY DEF LogInv, LogTypeOK
<1>2. runEvents'[r] = Append(runEvents[r], e) /\ \A q \in Runs : q # r => runEvents'[q] = runEvents[q]
  BY DEF LogInv, LogTypeOK
<1>3. KeysOf(Append(runEvents[r], e)) = Append(KeysOf(runEvents[r]), e.key)
  BY <1>1, KeysOfAppend
<1>4. KeyLogs = [q \in Runs |-> KeysOf(runEvents[q])] /\ KeyLogs' = [q \in Runs |-> KeysOf(runEvents'[q])]
  BY DEF KeyLogs
<1> HIDE DEF KeysOf
<1> QED BY <1>2, <1>3, <1>4

\* Each request is one step of EventLog.
LEMMA EventLogStep ==
  LogInv /\ ReaderInv /\ [EventsNext]_eventVars => [Log!Next]_(Log!logVars)
<1> SUFFICES ASSUME LogInv, ReaderInv, [EventsNext]_eventVars
             PROVE  [Log!Next]_(Log!logVars)
  OBVIOUS
<1>1. /\ runEvents \in [Runs -> Seq(Events)] /\ replies \in [Pairs -> SUBSET Events]
      /\ \A r \in Runs : /\ Len(runEvents[r]) \in Nat /\ Len(KeyLogs[r]) = Len(runEvents[r])
                         /\ \A i \in 1..Len(runEvents[r]) : KeyLogs[r][i] = runEvents[r][i].key
  BY DEF LogInv, LogTypeOK, KeyLogs
<1>2. ASSUME NEW r \in Runs, AppendAnonymous(r) PROVE Log!Record(r, None)
  <2>1. NextEvent(r, None) \in Events /\ NextEvent(r, None).key = None
    BY NextIsNext DEF NextEvent
  <2>2. KeyLogs' = [KeyLogs EXCEPT ![r] = Append(@, None)]
    BY <1>2, <2>1, KeyLogsGrow DEF AppendAnonymous
  <2>3. Told' = Told
    BY <1>2 DEF AppendAnonymous, Told
  <2> QED BY <1>2, <2>2, <2>3 DEF AppendAnonymous, readerVars, Log!Record
<1>3. ASSUME NEW r \in Runs, NEW key \in Keys, AppendKeyed(r, key) PROVE Log!Record(r, key)
  <2> DEFINE p == <<r, key>>
             event == NextEvent(r, key)
  <2>1. /\ event \in Events /\ event.key = key /\ event.seq = Len(runEvents[r]) + 1 /\ p \in Pairs
    BY NextIsNext DEF NextEvent, Pairs
  <2>2. KeyLogs' = [KeyLogs EXCEPT ![r] = Append(@, key)]
    BY <1>3, <2>1, KeyLogsGrow DEF AppendKeyed
  <2>3. ~Log!Recorded(r, key)
    <3> SUFFICES ASSUME NEW i \in 1..Len(runEvents[r]), runEvents[r][i].key = key PROVE FALSE
      BY <1>1 DEF Log!Recorded
    <3>1. runEvents[r][i] = NoEvent /\ runEvents[r][i].seq = i
      BY <1>3, <2>1 DEF AppendKeyed, LogInv, KeysMatchLog, Numbered
    <3> QED BY <3>1 DEF NoEvent
  <2>4. Told' = [Told EXCEPT ![p] = {Len(runEvents[r]) + 1}]
    <3>1. replies[p] = {}
      BY <1>3, <2>1 DEF AppendKeyed, LogInv, KeysMatchLog
    <3>2. replies' = [replies EXCEPT ![p] = {event}]
      BY <1>3, <3>1 DEF AppendKeyed
    <3> HIDE DEF event
    <3> QED BY <1>1, <2>1, <3>2 DEF Told
  <2> QED BY <1>1, <1>3, <2>2, <2>3, <2>4, StoreAssumption DEF AppendKeyed, readerVars, Log!Record
<1>4. ASSUME NEW r \in Runs, NEW key \in Keys, AppendAgain(r, key) PROVE Log!Repeat(r, key)
  <2> DEFINE p == <<r, key>>
  <2>1. p \in Pairs /\ idempotency[p] # NoEvent
    BY <1>4 DEF AppendAgain, Pairs
  <2>2. PICK i \in 1..Len(runEvents[r]) : runEvents[r][i] = idempotency[p]
    BY <2>1 DEF LogInv, KeysMatchLog
  <2>3. KeyLogs[r][i] = key /\ idempotency[p].seq = i
    BY <1>1, <2>1, <2>2 DEF LogInv, KeysMatchLog, Numbered
  <2>4. Told' = [Told EXCEPT ![p] = @ \cup {i}]
    <3>1. replies' = [replies EXCEPT ![p] = @ \cup {idempotency[p]}]
      BY <1>4 DEF AppendAgain
    <3>2. /\ replies'[p] = replies[p] \cup {idempotency[p]}
          /\ \A q \in Pairs : q # p => replies'[q] = replies[q]
      BY <1>1, <2>1, <3>1
    <3> HIDE DEF p
    <3>3. {e.seq : e \in replies'[p]} = Told[p] \cup {i}
      BY <2>1, <2>3, <3>2 DEF Told
    <3>4. Told' = [q \in Pairs |-> IF q = p THEN Told[p] \cup {i} ELSE Told[q]]
      BY <3>2, <3>3 DEF Told
    <3>5. Told = [q \in Pairs |-> Told[q]]
      BY DEF Told
    <3> QED BY <2>1, <3>4, <3>5
  <2>5. KeyLogs' = KeyLogs
    BY <1>4 DEF AppendAgain, KeyLogs
  <2> QED BY <1>1, <1>4, <2>3, <2>4, <2>5 DEF AppendAgain, readerVars, Log!Repeat
<1>5. ASSUME NEW ids \in SUBSET Runs, Delete(ids) PROVE \E doomed \in SUBSET Runs : Log!Forget(doomed)
  <2> DEFINE doomed == {r \in Runs : (ids = {} \/ r \in ids) /\ runEvents[r] # <<>>}
  <2>1. /\ runEvents' = [r \in Runs |-> IF r \in doomed THEN <<>> ELSE runEvents[r]]
        /\ replies' = [p \in Pairs |-> IF p[1] \in doomed THEN {} ELSE replies[p]]
        /\ stale' = (stale \/ run \in doomed) /\ UNCHANGED <<run, got>>
    BY <1>5 DEF Delete
  <2>2. doomed \in SUBSET Runs
    OBVIOUS
  <2> HIDE DEF doomed
  <2>3. KeyLogs' = [r \in Runs |-> IF r \in doomed THEN <<>> ELSE KeyLogs[r]]
    <3>1. <<>> = [i \in 1..Len(<<>>) |-> <<>>[i].key]
      OBVIOUS
    <3> QED BY <2>1, <3>1 DEF KeyLogs
  <2>4. Told' = [p \in Pairs |-> IF p[1] \in doomed THEN {} ELSE Told[p]]
    BY <2>1 DEF Told
  <2> QED BY <2>1, <2>2, <2>3, <2>4 DEF Log!Forget, Pairs
<1>6. ASSUME NEW r \in Runs, StartReading(r) PROVE Log!Start(r)
  <2>1. KeyLogs' = KeyLogs /\ Told' = Told
    BY <1>6 DEF StartReading, KeyLogs, Told
  <2> QED BY <1>6, <2>1 DEF StartReading, Log!Start
<1>7. ASSUME NEW limit \in Limits, ReadPage(limit) PROVE Log!Read \/ Log!Stray
  <2>1. /\ KeyLogs' = KeyLogs /\ Told' = Told /\ UNCHANGED <<run, stale>> /\ run # None
    BY <1>7 DEF ReadPage, KeyLogs, Told
  <2>2. CASE stale
    BY <2>1, <2>2 DEF Log!Stray
  <2>3. CASE ~stale
    <3>1. /\ run \in Runs /\ after \in Nat /\ Len(got) = after
      BY <2>1, <2>3 DEF ReaderInv, ReaderSeesPrefix
    <3>2. PICK count \in Nat : /\ after' = after + count /\ after' <= Len(runEvents[run])
                               /\ got' = [i \in 1..after' |-> i]
      BY <1>7, <2>3, ReadPageEffect
    <3>3. after' \in Len(got)..Len(KeyLogs[run])
      BY <1>1, <3>1, <3>2
    <3> QED BY <2>1, <2>3, <3>2, <3>3 DEF Log!Read
  <2> QED BY <2>2, <2>3
<1>8. CASE UNCHANGED eventVars
  BY <1>8 DEF eventVars, KeyLogs, Told, Log!logVars
<1> QED BY <1>2, <1>3, <1>4, <1>5, <1>6, <1>7, <1>8 DEF EventsNext, Log!Next

\* Repeated and racing appends, deletions and a reader that pages: for any runs, keys and
\* sizes of pages all of it is what EventLog allows (run_events).
THEOREM ImplementsEventLog == EventsSpec => EventLogSpec
<1>1. EventsInit => Log!Init
  BY DEF EventsInit, KeyLogs, Told, Pairs, Log!Init
<1>2. EventsSpec => [](LogInv /\ ReaderInv)
  BY LogInvariance, ReaderInvariance, PTL
<1> QED BY <1>1, <1>2, EventLogStep, PTL DEF EventsSpec, EventLogSpec, Log!Spec

-------------------------------------------------------------------------------
(* Agents, runs and checkpoints. *)

\* What each listing looks at.
LEMMA Substores ==
  /\ listing = "none" => Matching = {} /\ Left = {} /\ Domain = {}
  /\ listing = "agents" => Matching = AgentsMatching /\ Left = AgentsLeft /\ Domain = AgentIds
  /\ listing = "runs" => Matching = RunsMatching /\ Left = RunsLeft /\ Domain = RunKeys
  /\ listing = "checkpoints" => Matching = BlobsMatching /\ Left = BlobsLeft /\ Domain = BlobIds
BY DEF Matching, Left, Domain

\* The pairs cursors are compared as are totally ordered.
LEMMA BelowOrder ==
  ASSUME NEW x \in Nat \X Nat, NEW y \in Nat \X Nat, NEW z \in Nat \X Nat
  PROVE  /\ ~Below(x, x)
         /\ Below(x, y) /\ Below(y, z) => Below(x, z)
         /\ Below(x, y) \/ Below(y, x) \/ x = y
BY DEF Below

\* An empty store, and no listing.
LEMMA InitInv == Init => Inv
<1> SUFFICES ASSUME Init PROVE Inv
  OBVIOUS
<1> USE RecordAssumption
<1>1. listing = "none" /\ Matching = {} /\ Domain = {}
  BY Substores DEF Init
<1>2. TypeOK
  <2>1. agents \in [AgentIds -> Docs \cup {NoDoc}] /\ runs \in [RunKeys -> Turns \cup {None}]
        /\ checkpoints \in [BlobKeys -> Data \cup {None}]
    BY DEF Init
  <2>2. listed \in [Domain -> Nat] /\ kept \subseteq Domain /\ updated \subseteq Domain
    BY <1>1 DEF Init
  <2>3. filter \in Filters
    BY DEF Init, Filters, NoFilter
  <2> QED BY <2>1, <2>2, <2>3 DEF Init, TypeOK
<1>3. Placed /\ Fresh
  BY <1>1 DEF Init, Placed, Fresh
<1>4. AgentsPassed
  BY DEF Init, AgentsPassed, NoDoc
<1> QED BY <1>2, <1>3, <1>4 DEF Inv

\* Steps that change no document but leave Inv's parts about types to be shown.
LEMMA TypeOfDocStep ==
  ASSUME Inv, UNCHANGED <<listing, filter, cursor, complete, listed>>,
         agents' \in [AgentIds -> Docs \cup {NoDoc}],
         runs' \in [RunKeys -> Turns \cup {None}],
         checkpoints' \in [BlobKeys -> Data \cup {None}],
         clock' \in Nat, kept' \subseteq kept, updated' \subseteq Domain,
         listing = "none" => updated' = updated
  PROVE  TypeOK' /\ Fresh'
<1>1. Domain' = Domain
  BY DEF Domain
<1> QED BY <1>1 DEF Inv, TypeOK, Fresh

\* A create, update or delete leaves the untouched records where they are.
LEMMA PlacedDocStep ==
  ASSUME Inv, UNCHANGED <<listing, filter, cursor, complete, listed>>,
         kept' = kept \cap Matching', updated \subseteq updated',
         listing = "agents" => \A a \in kept' \ updated' : agents'[a] = agents[a],
         listing = "runs" => \A k \in kept' \ updated' : runs'[k] = runs[k]
  PROVE  Placed'
<1>1. kept' \subseteq Matching'
  OBVIOUS
<1>2. ASSUME OneAgent, NEW k \in kept' \ updated'
      PROVE  listed[k] <= 1 /\ (listed[k] = 1 <=> complete \/ k \notin Left')
  <2>1. k \in kept \ updated /\ k \in Matching /\ k \in Matching'
    BY DEF Inv, Placed
  <2>2. listed[k] <= 1 /\ (listed[k] = 1 <=> complete \/ k \notin Left)
    BY <1>2, <2>1 DEF Inv, Placed
  <2>3. k \in Left <=> k \in Left'
    <3>0. listing \in {"none", "agents", "runs", "checkpoints"}
      BY DEF Inv, TypeOK
    <3>1. CASE listing = "none"
      BY <3>1, <2>1, Substores
    <3>2. CASE listing = "agents"
      <4>1. Matching = AgentsMatching /\ Left = AgentsLeft
        BY <3>2, Substores
      <4>2. Matching' = AgentsMatching' /\ Left' = AgentsLeft'
        BY <3>2 DEF Matching, Left
      <4>3. agents'[k] = agents[k]
        BY <3>2, <1>2
      <4> QED BY <2>1, <4>1, <4>2, <4>3 DEF AgentsLeft, AgentKey
    <3>3. CASE listing = "runs"
      <4>1. Matching = RunsMatching /\ Left = RunsLeft
        BY <3>3, Substores
      <4>2. Matching' = RunsMatching' /\ Left' = RunsLeft'
        BY <3>3 DEF Matching, Left
      <4>3. runs'[k] = runs[k]
        BY <3>3, <1>2
      <4> QED BY <2>1, <4>1, <4>2, <4>3 DEF RunsLeft, RunKey
    <3>4. CASE listing = "checkpoints"
      <4>1. Matching = BlobsMatching /\ Left = BlobsLeft
        BY <3>4, Substores
      <4>2. Matching' = BlobsMatching' /\ Left' = BlobsLeft'
        BY <3>4 DEF Matching, Left
      <4> QED BY <2>1, <4>1, <4>2 DEF BlobsLeft, BlobKey
    <3> QED BY <3>0, <3>1, <3>2, <3>3, <3>4
  <2> QED BY <2>2, <2>3
<1>3. OneAgent' <=> OneAgent
  BY DEF OneAgent
<1> QED BY <1>1, <1>2, <1>3 DEF Placed

\* Times that do not go back keep an agent that was passed where it is.
LEMMA PassedDocStep ==
  ASSUME Inv, UNCHANGED <<listing, cursor, complete, listed>>,
         clock' \in Nat, clock <= clock',
         agents' \in [AgentIds -> Docs \cup {NoDoc}],
         \A a \in AgentIds :
           \/ agents'[a] = agents[a] \/ agents'[a] = NoDoc
           \/ agents[a] = NoDoc /\ agents'[a].updatedAt = clock
           \/ agents[a] # NoDoc /\ agents[a].updatedAt <= agents'[a].updatedAt
              /\ agents'[a].updatedAt <= clock
  PROVE  AgentsPassed'
<1> USE RecordAssumption
<1>1. /\ clock \in Nat
      /\ \A a \in AgentIds : a \in Nat /\ agents[a].updatedAt \in Nat /\ agents'[a].updatedAt \in Nat
      /\ cursor # None => cursor \in Nat \X Nat
  BY DEF Inv, TypeOK, Docs, NoDoc
<1>2. \A a \in AgentIds : agents'[a].updatedAt <= clock'
  <2> SUFFICES ASSUME NEW a \in AgentIds PROVE agents'[a].updatedAt <= clock'
    OBVIOUS
  <2>1. agents[a].updatedAt <= clock
    BY DEF Inv, AgentsPassed
  <2>2. CASE agents'[a] = agents[a]
    BY <1>1, <2>1, <2>2
  <2>3. CASE agents'[a] = NoDoc
    <3>1. agents'[a].updatedAt = 0
      BY <2>3 DEF NoDoc
    <3> QED BY <1>1, <3>1
  <2>4. CASE agents'[a].updatedAt = clock
    BY <1>1, <2>4
  <2>5. CASE agents'[a].updatedAt <= clock
    BY <1>1, <2>5
  <2> QED BY <2>2, <2>3, <2>4, <2>5
<1>3. ASSUME listing = "agents", NEW a \in AgentIds, listed[a] = 1, ~complete
      PROVE  /\ ~Below(<<clock', a>>, cursor)
             /\ agents'[a] # NoDoc => ~Below(<<agents'[a].updatedAt, a>>, cursor)
  <2>1. /\ cursor \in Nat \X Nat
        /\ ~Below(<<clock, a>>, cursor)
        /\ agents[a] # NoDoc => ~Below(<<agents[a].updatedAt, a>>, cursor)
    BY <1>1, <1>3 DEF Inv, AgentsPassed, AgentKey
  <2>2. ~Below(<<clock', a>>, cursor)
    BY <1>1, <2>1 DEF Below
  <2>3. ASSUME agents'[a] # NoDoc PROVE ~Below(<<agents'[a].updatedAt, a>>, cursor)
    <3>1. \/ agents'[a] = agents[a]
          \/ agents[a] = NoDoc /\ agents'[a].updatedAt = clock
          \/ agents[a] # NoDoc /\ agents[a].updatedAt <= agents'[a].updatedAt
      BY <2>3
    <3> QED BY <1>1, <2>1, <2>3, <3>1 DEF Below
  <2> QED BY <2>2, <2>3
<1>4. ASSUME listing = "agents", cursor # None PROVE cursor[1] <= clock'
  <2>1. cursor[1] <= clock /\ cursor[1] \in Nat
    BY <1>1, <1>4 DEF Inv, AgentsPassed
  <2> QED BY <1>1, <2>1
<1>6. listing = "agents" => \A a \in AgentIds : listed[a] <= 1
  BY DEF Inv, AgentsPassed
<1>5. listing = "agents" => \A a \in AgentIds : listed[a] = 1 /\ ~complete => cursor # None
  BY DEF Inv, AgentsPassed
<1> QED BY <1>2, <1>3, <1>4, <1>5, <1>6 DEF AgentsPassed, AgentKey

\* A page that returns everything that is left.
LEMMA LastPageStep ==
  ASSUME Inv, NEW limit, listing # "none", LastPage(Left, limit)
  PROVE  Inv'
<1>1. /\ ~complete /\ complete' = TRUE
      /\ listed' = [k \in Domain |-> IF k \in Left THEN listed[k] + 1 ELSE listed[k]]
      /\ UNCHANGED <<agents, runs, checkpoints, clock, listing, filter, cursor, kept, updated>>
  BY DEF LastPage, Return, Inv, TypeOK
<1>2. Domain' = Domain /\ Matching' = Matching /\ (OneAgent' <=> OneAgent)
  BY <1>1 DEF Domain, Matching, AgentsMatching, InCwd, RunsMatching, BlobsMatching, OneAgent
<1>3. listed \in [Domain -> Nat]
  BY DEF Inv, TypeOK
<1>4. TypeOK' /\ Fresh'
  <2>1. listed' \in [Domain' -> Nat]
    BY <1>1, <1>2, <1>3
  <2> QED BY <1>1, <1>2, <2>1 DEF Inv, TypeOK, Fresh
<1>5. Placed'
  <2>1. ASSUME OneAgent, NEW k \in kept \ updated PROVE listed'[k] = 1
    <3>1. k \in Domain /\ listed[k] <= 1 /\ (listed[k] = 1 <=> k \notin Left) /\ listed[k] \in Nat
      BY <1>1, <1>3, <2>1 DEF Inv, Placed, TypeOK
    <3>2. listed[k] # 1 => listed[k] = 0
      BY <3>1
    <3> QED BY <1>1, <3>1, <3>2
  <2> QED BY <1>1, <1>2, <2>1 DEF Inv, Placed
<1>6. AgentsPassed'
  <2>1. ASSUME listing = "agents", NEW a \in AgentIds PROVE listed'[a] <= 1
    <3>1. Left = AgentsLeft /\ Domain = AgentIds
      BY <2>1, Substores
    <3>2. listed[a] \in Nat /\ listed[a] <= 1
      BY <1>3, <2>1, <3>1 DEF Inv, AgentsPassed
    <3>3. a \in Left => listed[a] # 1
      BY <1>1, <2>1, <3>1 DEF Inv, AgentsPassed, AgentsLeft, AgentsMatching, InCwd
    <3> QED BY <1>1, <3>1, <3>2, <3>3
  <2> QED BY <1>1, <2>1 DEF Inv, AgentsPassed
<1> QED BY <1>4, <1>5, <1>6 DEF Inv

\* A page that ends before the rest, when its cursor excludes just what it returned;
\* as it returned fewer than there were, some are left.
LEMMA CutPageStep ==
  ASSUME Inv, NEW limit \in Nat, NEW first, NEW key \in Nat \X Nat, listing # "none",
         CutPage(Left, first, limit, key), first \subseteq Left,
         OneAgent => \A k \in Left : k \in Left' <=> k \notin first,
         Left' \subseteq Left
  PROVE  TypeOK' /\ Fresh' /\ Placed' /\ (OneAgent => Left' # {})
<1> USE RecordAssumption
<1>1. /\ ~complete /\ cursor' = key
      /\ listed' = [k \in Domain |-> IF k \in first THEN listed[k] + 1 ELSE listed[k]]
      /\ UNCHANGED <<agents, runs, checkpoints, clock, listing, filter, complete, kept, updated>>
  BY DEF CutPage, Return, Inv, TypeOK
<1>2. Domain' = Domain /\ Matching' = Matching /\ (OneAgent' <=> OneAgent)
  BY <1>1 DEF Domain, Matching, AgentsMatching, InCwd, RunsMatching, BlobsMatching, OneAgent
<1>3. listed \in [Domain -> Nat]
  BY DEF Inv, TypeOK
<1>4. TypeOK' /\ Fresh'
  <2>1. listed' \in [Domain' -> Nat]
    BY <1>1, <1>2, <1>3
  <2> QED BY <1>1, <1>2, <2>1 DEF Inv, TypeOK, Fresh
<1>5. Placed'
  <2>1. ASSUME OneAgent, NEW k \in kept \ updated
        PROVE  listed'[k] <= 1 /\ (listed'[k] = 1 <=> k \notin Left')
    <3>1. k \in Domain /\ listed[k] <= 1 /\ (listed[k] = 1 <=> k \notin Left) /\ listed[k] \in Nat
      BY <1>1, <1>3, <2>1 DEF Inv, Placed, TypeOK
    <3>2. CASE k \in first
      BY <1>1, <2>1, <3>1, <3>2
    <3>3. CASE k \notin first
      BY <1>1, <2>1, <3>1, <3>3
    <3> QED BY <3>2, <3>3
  <2> QED BY <1>1, <1>2, <2>1 DEF Inv, Placed
<1>6. Left # first
  BY DEF CutPage
<1> QED BY <1>4, <1>5, <1>6

\* Agents: newest first.
LEMMA ListAgentsStep ==
  ASSUME Inv, NEW limit \in Limits, ListAgents(limit)
  PROVE  Inv' /\ (OneAgent /\ cursor' # cursor => Left' # {})
<1> USE RecordAssumption
<1>1. listing = "agents" /\ Left = AgentsLeft /\ Matching = AgentsMatching /\ Domain = AgentIds
  BY Substores DEF ListAgents
<1>2. CASE LastPage(AgentsLeft, limit)
  BY <1>1, <1>2, LastPageStep DEF LastPage
<1>3. CASE \E last \in AgentsLeft :
        CutPage(AgentsLeft, {a \in AgentsLeft : ~Below(AgentKey(a), AgentKey(last))},
                limit, AgentKey(last))
  <2> PICK last \in AgentsLeft :
        CutPage(AgentsLeft, {a \in AgentsLeft : ~Below(AgentKey(a), AgentKey(last))},
                limit, AgentKey(last))
    BY <1>3
  <2> DEFINE first == {a \in AgentsLeft : ~Below(AgentKey(a), AgentKey(last))}
             key == AgentKey(last)
  <2>1. \A a \in AgentIds : AgentKey(a) \in Nat \X Nat
    BY DEF AgentKey, Inv, TypeOK, Docs, NoDoc
  <2>2. last \in AgentIds /\ key \in Nat \X Nat
    BY <2>1 DEF AgentsLeft, AgentsMatching
  <2>3. /\ ~complete /\ complete' = complete /\ cursor' = key /\ listing' = listing
        /\ listed' = [k \in AgentIds |-> IF k \in first THEN listed[k] + 1 ELSE listed[k]]
        /\ UNCHANGED <<agents, clock, filter>>
    BY <1>1 DEF CutPage, Return, Inv, TypeOK
  <2>4. Left' = {a \in AgentsMatching : Below(AgentKey(a), key)}
    <3>1. Left' = AgentsLeft'
      BY <1>1, <2>3 DEF Left
    <3>2. AgentsMatching' = AgentsMatching
      BY <2>3 DEF AgentsMatching, InCwd
    <3>3. key # None
      BY <2>2
    <3> QED BY <2>3, <3>1, <3>2, <3>3 DEF AgentsLeft, AgentKey
  <2>5. cursor # None => cursor \in Nat \X Nat /\ Below(key, cursor)
    BY DEF AgentsLeft, Inv, TypeOK
  <2>6. Left' = Left \ first
    <3>1. ASSUME NEW a \in AgentsMatching, Below(AgentKey(a), key) PROVE a \in AgentsLeft
      <4>1. AgentKey(a) \in Nat \X Nat
        BY <2>1 DEF AgentsMatching
      <4> QED BY <2>2, <2>5, <3>1, <4>1, BelowOrder DEF AgentsLeft
    <3> QED BY <1>1, <2>4, <3>1 DEF AgentsLeft
  <2>7. TypeOK' /\ Fresh' /\ Placed' /\ (OneAgent => Left' # {})
    BY <1>1, <2>2, <2>6, CutPageStep
  <2>8. AgentsPassed'
    <3>1. agents[last].updatedAt <= clock
      BY <2>2 DEF Inv, AgentsPassed
    <3>2. key[1] <= clock
      BY <3>1 DEF AgentKey
    <3>3. ASSUME NEW a \in AgentIds
          PROVE  /\ listed'[a] <= 1
                 /\ listed'[a] = 1 => /\ ~Below(<<clock, a>>, key)
                                      /\ agents[a] # NoDoc => ~Below(AgentKey(a), key)
      <4>1. /\ listed[a] \in Nat /\ listed[a] <= 1
            /\ listed[a] = 1 =>
                 /\ cursor # None /\ ~Below(<<clock, a>>, cursor)
                 /\ agents[a] # NoDoc => ~Below(AgentKey(a), cursor)
            /\ agents[a].updatedAt <= clock /\ agents[a].updatedAt \in Nat /\ clock \in Nat /\ a \in Nat
        BY <1>1, <2>3 DEF Inv, AgentsPassed, TypeOK, Docs, NoDoc
      <4>2. CASE a \in first
        <5>1. listed[a] # 1
          BY <4>1, <4>2 DEF AgentsLeft, AgentsMatching, InCwd
        <5>2. ~Below(AgentKey(a), key)
          BY <4>2
        <5>3. ~Below(<<clock, a>>, key)
          BY <2>2, <4>1, <5>2 DEF Below, AgentKey
        <5> QED BY <2>3, <4>1, <4>2, <5>1, <5>2, <5>3
      <4>3. CASE a \notin first /\ listed[a] = 1
        <5>1. cursor \in Nat \X Nat /\ Below(key, cursor)
          BY <2>5, <4>1, <4>3
        <5>2. <<clock, a>> \in Nat \X Nat /\ AgentKey(a) \in Nat \X Nat
          BY <2>1, <4>1
        <5>3. /\ ~Below(<<clock, a>>, key)
              /\ agents[a] # NoDoc => ~Below(AgentKey(a), key)
          BY <2>2, <4>1, <4>3, <5>1, <5>2, BelowOrder
        <5> QED BY <2>3, <4>1, <4>3, <5>3
      <4>4. CASE a \notin first /\ listed[a] # 1
        BY <2>3, <4>1, <4>4
      <4> QED BY <4>2, <4>3, <4>4
    <3>4. \A a \in AgentIds : agents'[a].updatedAt <= clock' /\ AgentKey(a)' = AgentKey(a)
      BY <2>3 DEF Inv, AgentsPassed, AgentKey
    <3>5. key # None
      BY <2>2
    <3> HIDE DEF key, first
    <3> QED BY <2>3, <3>2, <3>3, <3>4, <3>5 DEF AgentsPassed
  <2> QED BY <2>7, <2>8 DEF Inv
<1> QED BY <1>2, <1>3 DEF ListAgents

\* Runs: by turn and run id, which tell the runs of one agent apart.
LEMMA ListRunsStep ==
  ASSUME Inv, NEW limit \in Limits, ListRuns(limit)
  PROVE  Inv' /\ (OneAgent /\ cursor' # cursor => Left' # {})
<1> USE RecordAssumption
<1>1. listing = "runs" /\ Left = RunsLeft /\ Matching = RunsMatching
  BY Substores DEF ListRuns
<1>2. CASE LastPage(RunsLeft, limit)
  BY <1>1, <1>2, LastPageStep DEF LastPage
<1>3. CASE \E last \in RunsLeft :
        CutPage(RunsLeft, {k \in RunsLeft : ~RunBefore(last, k)}, limit, RunKey(last))
  <2> PICK last \in RunsLeft :
        CutPage(RunsLeft, {k \in RunsLeft : ~RunBefore(last, k)}, limit, RunKey(last))
    BY <1>3
  <2> DEFINE first == {k \in RunsLeft : ~RunBefore(last, k)}
             key == RunKey(last)
  <2>1. \A k \in RunsMatching :
          RunKey(k) \in Nat \X Nat /\ k[1] \in AgentIds /\ k[1] \in Nat /\ k = <<k[1], k[2]>>
    <3> SUFFICES ASSUME NEW k \in RunsMatching
                 PROVE  RunKey(k) \in Nat \X Nat /\ k[1] \in AgentIds /\ k[1] \in Nat /\ k = <<k[1], k[2]>>
      OBVIOUS
    <3>1. k \in RunKeys /\ runs[k] # None
      BY DEF RunsMatching
    <3>2. runs[k] \in Turns
      BY <3>1 DEF Inv, TypeOK
    <3>3. k[1] \in AgentIds /\ k[2] \in RunIds /\ k = <<k[1], k[2]>>
      BY <3>1 DEF RunKeys
    <3> QED BY <3>2, <3>3 DEF RunKey
  <2>2. last \in RunsMatching /\ key \in Nat \X Nat
    BY <2>1 DEF RunsLeft
  <2>3. /\ ~complete /\ complete' = complete /\ cursor' = key
        /\ UNCHANGED <<agents, runs, clock, listing, filter>>
    BY DEF CutPage
  <2>4. Left' = {k \in RunsMatching : Below(key, RunKey(k))}
    <3>1. Left' = RunsLeft'
      BY <1>1, <2>3 DEF Left
    <3>2. RunsMatching' = RunsMatching
      BY <2>3 DEF RunsMatching
    <3>3. key # None
      BY <2>2
    <3> QED BY <2>3, <3>1, <3>2, <3>3 DEF RunsLeft, RunKey
  <2>5. cursor # None => cursor \in Nat \X Nat /\ Below(cursor, key)
    BY DEF RunsLeft, Inv, TypeOK
  <2>6. Left' \subseteq Left
    <3>1. ASSUME NEW k \in RunsMatching, Below(key, RunKey(k)) PROVE k \in RunsLeft
      BY <2>1, <2>2, <2>5, <3>1, BelowOrder DEF RunsLeft
    <3> QED BY <1>1, <2>4, <3>1
  <2>7. ASSUME OneAgent, NEW k \in Left PROVE k \in Left' <=> k \notin first
    <3>1. k \in RunsMatching
      BY <1>1 DEF RunsLeft
    <3>2. k[1] = last[1]
      <4> PICK a \in AgentIds : filter.agentIds = {a}
        BY <1>1, <2>7 DEF OneAgent
      <4> QED BY <2>2, <3>1 DEF RunsMatching, Selected
    <3>3. RunBefore(last, k) <=> Below(key, RunKey(k))
      BY <2>1, <2>2, <3>1, <3>2 DEF RunBefore
    <3> QED BY <1>1, <2>4, <3>1, <3>3
  <2>8. TypeOK' /\ Fresh' /\ Placed' /\ (OneAgent => Left' # {})
    BY <1>1, <2>2, <2>6, <2>7, CutPageStep
  <2>9. AgentsPassed'
    BY <1>1, <2>3 DEF Inv, AgentsPassed
  <2> QED BY <2>8, <2>9 DEF Inv
<1> QED BY <1>2, <1>3 DEF ListRuns

\* Checkpoints: by blob id.
LEMMA ListCheckpointsStep ==
  ASSUME Inv, NEW limit \in Limits, ListCheckpoints(limit)
  PROVE  Inv' /\ (OneAgent /\ cursor' # cursor => Left' # {})
<1> USE RecordAssumption
<1>1. listing = "checkpoints" /\ Left = BlobsLeft /\ Matching = BlobsMatching
  BY Substores DEF ListCheckpoints
<1>2. CASE LastPage(BlobsLeft, limit)
  BY <1>1, <1>2, LastPageStep DEF LastPage
<1>3. CASE \E last \in BlobsLeft :
        CutPage(BlobsLeft, {b \in BlobsLeft : b <= last}, limit, BlobKey(last))
  <2> PICK last \in BlobsLeft :
        CutPage(BlobsLeft, {b \in BlobsLeft : b <= last}, limit, BlobKey(last))
    BY <1>3
  <2> DEFINE first == {b \in BlobsLeft : b <= last}
             key == BlobKey(last)
  <2>1. \A b \in BlobsMatching : b \in Nat /\ BlobKey(b) \in Nat \X Nat
    BY DEF BlobKey, BlobsMatching
  <2>2. last \in BlobsMatching /\ key \in Nat \X Nat
    BY <2>1 DEF BlobsLeft
  <2>3. /\ ~complete /\ complete' = complete /\ cursor' = key
        /\ UNCHANGED <<agents, checkpoints, clock, listing, filter>>
    BY DEF CutPage
  <2>4. Left' = {b \in BlobsMatching : Below(key, BlobKey(b))}
    <3>1. Left' = BlobsLeft'
      BY <1>1, <2>3 DEF Left
    <3>2. BlobsMatching' = BlobsMatching
      BY <2>3 DEF BlobsMatching
    <3>3. key # None
      BY <2>2
    <3> QED BY <2>3, <3>1, <3>2, <3>3 DEF BlobsLeft, BlobKey
  <2>5. cursor # None => cursor \in Nat \X Nat /\ Below(cursor, key)
    BY DEF BlobsLeft, Inv, TypeOK
  <2>6. Left' = Left \ first
    <3>1. ASSUME NEW b \in BlobsMatching PROVE Below(key, BlobKey(b)) <=> ~(b <= last)
      <4>1. b \in Nat /\ last \in Nat
        BY <2>1, <2>2
      <4> QED BY <4>1 DEF Below, BlobKey
    <3>2. ASSUME NEW b \in BlobsMatching, Below(key, BlobKey(b)) PROVE b \in BlobsLeft
      BY <2>1, <2>2, <2>5, <3>2, BelowOrder DEF BlobsLeft
    <3> QED BY <1>1, <2>4, <3>1, <3>2 DEF BlobsLeft
  <2>7. TypeOK' /\ Fresh' /\ Placed' /\ (OneAgent => Left' # {})
    BY <1>1, <2>2, <2>6, CutPageStep
  <2>8. AgentsPassed'
    BY <1>1, <2>3 DEF Inv, AgentsPassed
  <2> QED BY <2>7, <2>8 DEF Inv
<1> QED BY <1>2, <1>3 DEF ListCheckpoints

\* Starting a listing puts every record that matches on the pages to come.
LEMMA StartStep ==
  ASSUME Inv, listing = "none", NEW substore \in {"agents", "runs", "checkpoints"},
         listing' = substore, filter' \in Filters,
         listed' = [k \in Domain' |-> 0], kept' = Matching',
         UNCHANGED <<agents, runs, checkpoints, clock, cursor, complete, updated>>
  PROVE  Inv'
<1>1. cursor' = None /\ ~complete' /\ updated' = {}
  BY DEF Inv, Fresh
<1>2. TypeOK'
  <2>1. kept' \subseteq Domain'
    BY DEF Matching, Domain, AgentsMatching, RunsMatching, BlobsMatching
  <2>2. listed' \in [Domain' -> Nat]
    OBVIOUS
  <2> QED BY <1>1, <2>1, <2>2 DEF Inv, TypeOK
<1>3. Left' = Matching' /\ Matching' \subseteq Domain'
  BY <1>1 DEF Left, Matching, Domain, AgentsLeft, RunsLeft, BlobsLeft,
              AgentsMatching, RunsMatching, BlobsMatching
<1>4. Placed'
  BY <1>1, <1>3 DEF Placed
<1>5. AgentsPassed'
  <2>1. listing' = "agents" => Domain' = AgentIds
    BY DEF Domain
  <2>2. listing' = "agents" => \A a \in AgentIds : listed'[a] = 0
    BY <2>1
  <2> QED BY <1>1, <2>2 DEF Inv, AgentsPassed
<1>6. Fresh'
  BY DEF Fresh
<1> QED BY <1>2, <1>4, <1>5, <1>6 DEF Inv

\* A create, update or delete of an agent ...
LEMMA AgentsDocStep ==
  ASSUME Inv, UNCHANGED <<runs, checkpoints, clock, listingVars>>, Keep,
         agents' \in [AgentIds -> Docs \cup {NoDoc}],
         updated \subseteq updated', updated' \subseteq Domain, listing # "agents" => updated' = updated,
         \A a \in AgentIds :
           \/ agents'[a] = agents[a] \/ agents'[a] = NoDoc
           \/ agents[a] = NoDoc /\ agents'[a].updatedAt = clock
           \/ /\ listing = "agents" => a \in updated'
              /\ agents[a] # NoDoc /\ agents[a].updatedAt <= agents'[a].updatedAt
              /\ agents'[a].updatedAt <= clock
  PROVE  Inv'
<1>1. kept' = kept \cap Matching' /\ UNCHANGED <<listing, filter, cursor, complete, listed>>
  BY DEF Keep, listingVars
<1>2. TypeOK' /\ Fresh'
  BY <1>1, TypeOfDocStep DEF Inv, TypeOK
<1>3. Placed'
  <2>1. ASSUME listing = "agents", NEW a \in kept' \ updated' PROVE agents'[a] = agents[a]
    <3>1. a \in AgentsMatching
      BY <1>1, <2>1, Substores DEF Inv, Placed
    <3>2. a \in AgentsMatching'
      BY <1>1, <2>1 DEF Matching
    <3> QED BY <2>1, <3>1, <3>2 DEF AgentsMatching, InCwd
  <2> QED BY <1>1, <2>1, PlacedDocStep
<1>4. AgentsPassed'
  <2>1. clock \in Nat /\ clock' = clock
    BY DEF Inv, TypeOK
  <2>2. clock <= clock'
    BY <2>1
  <2> QED BY <1>1, <2>1, <2>2, PassedDocStep
<1> QED BY <1>2, <1>3, <1>4 DEF Inv

\* ... of a run ...
LEMMA RunsDocStep ==
  ASSUME Inv, UNCHANGED <<agents, checkpoints, clock, listingVars>>, Keep,
         runs' \in [RunKeys -> Turns \cup {None}],
         updated \subseteq updated', updated' \subseteq Domain, listing # "runs" => updated' = updated,
         \A k \in RunKeys :
           runs'[k] = runs[k] \/ runs'[k] = None \/ runs[k] = None \/ (listing = "runs" => k \in updated')
  PROVE  Inv'
<1>1. kept' = kept \cap Matching' /\ UNCHANGED <<listing, filter, cursor, complete, listed>>
  BY DEF Keep, listingVars
<1>2. TypeOK' /\ Fresh'
  BY <1>1, TypeOfDocStep DEF Inv, TypeOK
<1>3. Placed'
  <2>1. ASSUME listing = "runs", NEW k \in kept' \ updated' PROVE runs'[k] = runs[k]
    <3>1. k \in RunsMatching
      BY <1>1, <2>1, Substores DEF Inv, Placed
    <3>2. k \in RunsMatching'
      BY <1>1, <2>1 DEF Matching
    <3> QED BY <2>1, <3>1, <3>2 DEF RunsMatching
  <2> QED BY <1>1, <2>1, PlacedDocStep
<1>4. AgentsPassed'
  BY <1>1 DEF Inv, AgentsPassed, AgentKey
<1> QED BY <1>2, <1>3, <1>4 DEF Inv

\* ... and of a checkpoint.
LEMMA BlobsDocStep ==
  ASSUME Inv, UNCHANGED <<agents, runs, clock, listingVars, updated>>, Keep,
         checkpoints' \in [BlobKeys -> Data \cup {None}]
  PROVE  Inv'
<1>1. kept' = kept \cap Matching' /\ UNCHANGED <<listing, filter, cursor, complete, listed>>
  BY DEF Keep, listingVars
<1>2. TypeOK' /\ Fresh'
  BY <1>1, TypeOfDocStep DEF Inv, TypeOK
<1>3. Placed'
  BY <1>1, PlacedDocStep
<1>4. AgentsPassed'
  BY <1>1 DEF Inv, AgentsPassed, AgentKey
<1> QED BY <1>2, <1>3, <1>4 DEF Inv

\* Every operation keeps Inv.
LEMMA StepInv == Inv /\ [Next]_vars => Inv'
<1> SUFFICES ASSUME Inv, [Next]_vars PROVE Inv'
  OBVIOUS
<1> USE RecordAssumption
<1>t. /\ agents \in [AgentIds -> Docs \cup {NoDoc}] /\ runs \in [RunKeys -> Turns \cup {None}]
      /\ checkpoints \in [BlobKeys -> Data \cup {None}]
      /\ clock \in Nat /\ updated \subseteq Domain
      /\ \A a \in AgentIds : agents[a].updatedAt <= clock
  BY DEF Inv, TypeOK, AgentsPassed
<1>n. ASSUME NEW substore, NEW k, Note(substore, k), listing = substore => k \in Domain
      PROVE  updated \subseteq updated' /\ updated' \subseteq Domain
             /\ (listing # substore => updated' = updated) /\ (listing = substore => k \in updated')
  BY <1>t, <1>n DEF Note
<1>1. CASE Tick
  <2>1. /\ clock' = clock + 1
        /\ UNCHANGED <<agents, runs, checkpoints, listing, filter, cursor, complete, listed, kept, updated>>
    BY <1>1 DEF Tick, listingVars
  <2>2. kept' = kept \cap Matching'
    <3>1. Matching' = Matching
      BY <2>1 DEF Matching, AgentsMatching, InCwd, RunsMatching, BlobsMatching
    <3> QED BY <2>1, <3>1 DEF Inv, Placed
  <2>3. TypeOK' /\ Fresh'
    BY <2>1, <1>t, TypeOfDocStep
  <2>4. Placed'
    BY <2>1, <2>2, PlacedDocStep
  <2>5. AgentsPassed'
    <3>1. clock' \in Nat /\ clock <= clock'
      BY <2>1, <1>t
    <3> QED BY <2>1, <3>1, <1>t, PassedDocStep
  <2> QED BY <2>3, <2>4, <2>5 DEF Inv
<1>2. ASSUME NEW a \in AgentIds, NEW cwd \in Cwds, CreateAgent(a, cwd) PROVE Inv'
  <2>1. [updatedAt |-> clock, cwd |-> cwd] \in Docs
    BY <1>t DEF Docs
  <2>2. agents' \in [AgentIds -> Docs \cup {NoDoc}]
    BY <1>2, <2>1, <1>t DEF CreateAgent
  <2>3. agents[a] = NoDoc /\ agents'[a].updatedAt = clock /\ \A b \in AgentIds : b # a => agents'[b] = agents[b]
    BY <1>2, <1>t DEF CreateAgent
  <2> QED BY <1>2, <2>2, <2>3, <1>t, AgentsDocStep DEF CreateAgent
<1>3. ASSUME NEW a \in AgentIds, NEW cwd \in Cwds, NEW time \in 0..MaxTime, UpdateAgent(a, cwd, time)
      PROVE  Inv'
  <2>1. [updatedAt |-> time, cwd |-> cwd] \in Docs
    BY DEF Docs
  <2>2. agents' \in [AgentIds -> Docs \cup {NoDoc}]
    BY <1>3, <2>1, <1>t DEF UpdateAgent
  <2>3. /\ agents[a] # NoDoc /\ agents'[a].updatedAt = time /\ agents[a].updatedAt <= time /\ time <= clock
        /\ \A b \in AgentIds : b # a => agents'[b] = agents[b]
    BY <1>3, <1>t DEF UpdateAgent
  <2>4. listing = "agents" => a \in Domain
    BY Substores
  <2>5. /\ updated \subseteq updated' /\ updated' \subseteq Domain
        /\ listing # "agents" => updated' = updated
        /\ listing = "agents" => a \in updated'
    BY <1>3, <2>4, <1>n DEF UpdateAgent
  <2> QED BY <1>3, <2>2, <2>3, <2>5, AgentsDocStep DEF UpdateAgent
<1>4. ASSUME NEW ids \in SUBSET AgentIds, NEW cwd \in Cwds \cup {None}, DeleteAgents(ids, cwd) PROVE Inv'
  <2>1. \A a \in AgentIds : agents'[a] = NoDoc \/ agents'[a] = agents[a]
    BY <1>4 DEF DeleteAgents
  <2>2. agents' \in [AgentIds -> Docs \cup {NoDoc}]
    BY <1>4, <1>t DEF DeleteAgents
  <2> QED BY <1>4, <2>1, <2>2, <1>t, AgentsDocStep DEF DeleteAgents
<1>5. ASSUME NEW k \in RunKeys, NEW turn \in Turns, CreateRun(k, turn) PROVE Inv'
  <2>1. runs' \in [RunKeys -> Turns \cup {None}]
    BY <1>5, <1>t DEF CreateRun
  <2>2. runs[k] = None /\ \A l \in RunKeys : l # k => runs'[l] = runs[l]
    BY <1>5, <1>t DEF CreateRun
  <2> QED BY <1>5, <2>1, <2>2, <1>t, RunsDocStep DEF CreateRun
<1>6. ASSUME NEW k \in RunKeys, NEW turn \in Turns, UpdateRun(k, turn) PROVE Inv'
  <2>1. runs' \in [RunKeys -> Turns \cup {None}]
    BY <1>6, <1>t DEF UpdateRun
  <2>2. \A l \in RunKeys : l # k => runs'[l] = runs[l]
    BY <1>6, <1>t DEF UpdateRun
  <2>3. listing = "runs" => k \in Domain
    BY Substores
  <2>4. /\ updated \subseteq updated' /\ updated' \subseteq Domain
        /\ listing # "runs" => updated' = updated
        /\ listing = "runs" => k \in updated'
    BY <1>6, <2>3, <1>n DEF UpdateRun
  <2> QED BY <1>6, <2>1, <2>2, <2>4, RunsDocStep DEF UpdateRun
<1>7. ASSUME NEW ids \in SUBSET AgentIds, NEW runIds \in SUBSET RunIds, DeleteRuns(ids, runIds) PROVE Inv'
  <2>1. runs' \in [RunKeys -> Turns \cup {None}]
    BY <1>7, <1>t DEF DeleteRuns
  <2>2. \A k \in RunKeys : runs'[k] = None \/ runs'[k] = runs[k]
    BY <1>7 DEF DeleteRuns
  <2> QED BY <1>7, <2>1, <2>2, <1>t, RunsDocStep DEF DeleteRuns
<1>8. ASSUME NEW k \in BlobKeys, NEW data \in Data, CreateCheckpoint(k, data) \/ UpdateCheckpoint(k, data)
      PROVE  Inv'
  BY <1>8, <1>t, BlobsDocStep DEF CreateCheckpoint, UpdateCheckpoint
<1>9. ASSUME NEW ids \in SUBSET AgentIds, NEW blobIds \in SUBSET BlobIds, DeleteCheckpoints(ids, blobIds)
      PROVE  Inv'
  BY <1>9, <1>t, BlobsDocStep DEF DeleteCheckpoints
<1>10. ASSUME NEW cwd \in Cwds \cup {None}, StartAgents(cwd) PROVE Inv'
  <2>1. filter' \in Filters /\ Domain' = AgentIds
    BY <1>10 DEF StartAgents, StartListing, Filters, Domain
  <2> QED BY <1>10, <2>1, StartStep DEF StartAgents, StartListing
<1>11. ASSUME NEW ids \in AgentFilters, NEW runIds \in SUBSET RunIds, StartRuns(ids, runIds) PROVE Inv'
  <2>1. filter' \in Filters /\ Domain' = RunKeys
    BY <1>11 DEF StartRuns, StartListing, Filters, Domain
  <2> QED BY <1>11, <2>1, StartStep DEF StartRuns, StartListing
<1>12. ASSUME NEW ids \in AgentFilters, StartCheckpoints(ids) PROVE Inv'
  <2>1. filter' \in Filters /\ Domain' = BlobIds
    BY <1>12 DEF StartCheckpoints, StartListing, Filters, Domain
  <2> QED BY <1>12, <2>1, StartStep DEF StartCheckpoints, StartListing
<1>13. ASSUME NEW limit \in Limits, ListAgents(limit) \/ ListRuns(limit) \/ ListCheckpoints(limit) PROVE Inv'
  BY <1>13, ListAgentsStep, ListRunsStep, ListCheckpointsStep, Zenon
<1>14. CASE UNCHANGED vars
  BY <1>14, ZenonT(60) DEF vars, Inv, TypeOK, Placed, AgentsPassed, Fresh, Domain, Matching, Left, OneAgent,
               AgentsMatching, InCwd, RunsMatching, BlobsMatching,
               AgentsLeft, RunsLeft, BlobsLeft, AgentKey, RunKey
<1> QED BY <1>1, <1>2, <1>3, <1>4, <1>5, <1>6, <1>7, <1>8, <1>9, <1>10, <1>11, <1>12, <1>13, <1>14 DEF Next

\* The listing agrees with its cursor in every reachable state.
THEOREM Invariance == Spec => []Inv
<1>1. Inv /\ [Next]_vars => Inv'
  BY StepInv
<1> QED BY <1>1, InitInv, PTL DEF Spec

\* What is not touched while it is listed is returned exactly once (list's orders and
\* cursors, page).
THEOREM UntouchedOnce == Spec => []UntouchedListedOnce
<1>1. Inv => UntouchedListedOnce
  BY DEF Inv, Placed, UntouchedListedOnce
<1> QED BY <1>1, Invariance, PTL

\* No agent is returned twice, updates included.
THEOREM AgentsOnce == Spec => []AgentsListedAtMostOnce
<1>1. Inv => AgentsListedAtMostOnce
  BY DEF Inv, AgentsPassed, AgentsListedAtMostOnce
<1> QED BY <1>1, Invariance, PTL

\* A cursor asks for a page that is not empty: only a page that was cut has one, and
\* what it left out is what its cursor leaves (page's comparison of a full page).
THEOREM NoEmptyPage == Spec => CursorMeansAnotherPage
<1> DEFINE A == OneAgent' /\ cursor' # cursor => Left' # {}
<1>1. Inv /\ [Next]_vars => [A]_vars
  <2> SUFFICES ASSUME Inv, Next, OneAgent', cursor' # cursor PROVE Left' # {}
    BY DEF vars
  <2>1. PICK limit \in Limits : ListAgents(limit) \/ ListRuns(limit) \/ ListCheckpoints(limit)
    BY DEF Next, Tick, CreateAgent, UpdateAgent, DeleteAgents, CreateRun, UpdateRun, DeleteRuns,
           CreateCheckpoint, UpdateCheckpoint, DeleteCheckpoints, listingVars,
           StartAgents, StartRuns, StartCheckpoints, StartListing
  <2>2. OneAgent
    BY <2>1 DEF ListAgents, ListRuns, ListCheckpoints, LastPage, CutPage, OneAgent
  <2> QED BY <2>1, <2>2, ListAgentsStep, ListRunsStep, ListCheckpointsStep, Zenon
<1> QED BY <1>1, Invariance, PTL DEF Spec, CursorMeansAnotherPage
===============================================================================
