---------------------------- MODULE RunEventStore ----------------------------
(***************************************************************************)
(* The runEvents substore of MemoryStore (src/src/callback/store.rs), the  *)
(* log a bridge keeps a run's durable events in when the program supplies  *)
(* the agent store, and a reader that pages through one run by offset.     *)
(*                                                                         *)
(* The bridge is external: it appends on behalf of several requests, sends *)
(* one again when it did not see the reply, reads in pages, polls again    *)
(* from where it is, and deletes.  Every operation runs under the mutex of *)
(* the store, so each is one step.                                         *)
(***************************************************************************)
EXTENDS Naturals, Sequences, FiniteSets, Listing

CONSTANTS
  Runs,      \* run ids
  Keys,      \* idempotency keys; an append may have None
  MaxSeq,    \* bound: events of one run
  MaxDeletes \* bound: deletions

ASSUME StoreAssumption ==
  /\ None \notin Keys \cup Runs /\ Limits \subseteq Nat \ {0}
  /\ MaxSeq \in Nat /\ MaxDeletes \in Nat

VARIABLES
  runEvents,    \* State.run_events: the log of each run
  idempotency,  \* State.idempotency: the (run, key) pairs known, with their event
  replies,      \* history: the events returned for each pair since its run began
  deletes,      \* deletions so far
  run,          \* the run the reader is on, None before it starts
  after,        \* the offset it asks for next
  got,          \* history: the sequence numbers it was given
  stale         \* history: its run was deleted after it started

eventVars == <<runEvents, idempotency, replies, deletes, run, after, got, stale>>
readerVars == <<run, after, got, stale>>

Events == [seq : Nat \ {0}, key : Keys \cup {None}]
Pairs == Runs \X Keys
NoEvent == [seq |-> 0, key |-> None]

LogTypeOK ==
  /\ runEvents \in [Runs -> Seq(Events)]
  /\ idempotency \in [Pairs -> Events \cup {NoEvent}]
  /\ replies \in [Pairs -> SUBSET Events]
  /\ deletes \in Nat

EventsInit ==
  /\ runEvents = [r \in Runs |-> <<>>]
  /\ idempotency = [p \in Pairs |-> NoEvent]
  /\ replies = [p \in Pairs |-> {}]
  /\ deletes = 0
  /\ run = None /\ after = 0 /\ got = <<>> /\ stale = FALSE
------------------------------------------------------------------------------
LastSeq(r) == IF runEvents[r] = <<>> THEN 0 ELSE runEvents[r][Len(runEvents[r])].seq

\* append: the next event of the run, numbered after its last one.
NextEvent(r, key) == [seq |-> LastSeq(r) + 1, key |-> key]

AppendAnonymous(r) ==
  /\ LastSeq(r) < MaxSeq
  /\ runEvents' = [runEvents EXCEPT ![r] = Append(@, NextEvent(r, None))]
  /\ UNCHANGED <<idempotency, replies, deletes, readerVars>>

AppendKeyed(r, key) ==
  LET event == NextEvent(r, key)
  IN /\ idempotency[<<r, key>>] = NoEvent
     /\ LastSeq(r) < MaxSeq
     /\ runEvents' = [runEvents EXCEPT ![r] = Append(@, event)]
     /\ idempotency' = [idempotency EXCEPT ![<<r, key>>] = event]
     /\ replies' = [replies EXCEPT ![<<r, key>>] = @ \cup {event}]
     /\ UNCHANGED <<deletes, readerVars>>

\* A key that was used returns the event it produced then.
AppendAgain(r, key) ==
  /\ idempotency[<<r, key>>] # NoEvent
  /\ replies' = [replies EXCEPT ![<<r, key>>] = @ \cup {idempotency[<<r, key>>]}]
  /\ UNCHANGED <<runEvents, idempotency, deletes, readerVars>>

\* mutant: the keys of a deleted run are kept
Delete_KeepsKeys(ids) ==
  LET doomed == {r \in Runs : (ids = {} \/ r \in ids) /\ runEvents[r] # <<>>}
  IN /\ deletes < MaxDeletes
     /\ deletes' = deletes + 1
     /\ runEvents' = [r \in Runs |-> IF r \in doomed THEN <<>> ELSE runEvents[r]]
     /\ replies' = [p \in Pairs |-> IF p[1] \in doomed THEN {} ELSE replies[p]]
     /\ stale' = (stale \/ run \in doomed)
     /\ UNCHANGED <<idempotency, run, after, got>>

\* delete: the runs of the filter, or all of them when it names none, with the
\* keys they used.
Delete(ids) ==
  LET doomed == {r \in Runs : (ids = {} \/ r \in ids) /\ runEvents[r] # <<>>}
  IN /\ deletes < MaxDeletes
     /\ deletes' = deletes + 1
     /\ runEvents' = [r \in Runs |-> IF r \in doomed THEN <<>> ELSE runEvents[r]]
     /\ idempotency' = [p \in Pairs |-> IF p[1] \in doomed THEN NoEvent ELSE idempotency[p]]
     /\ replies' = [p \in Pairs |-> IF p[1] \in doomed THEN {} ELSE replies[p]]
     /\ stale' = (stale \/ run \in doomed)
     /\ UNCHANGED <<run, after, got>>
------------------------------------------------------------------------------
(* The reader. *)

StartReading(r) ==
  /\ run = None
  /\ run' = r
  /\ UNCHANGED <<runEvents, idempotency, replies, deletes, after, got, stale>>

\* list: the places in the log of the events that follow afterOffset, the n-th of them ...
Following == {i \in 1..Len(runEvents[run]) : runEvents[run][i].seq > after}
Nth(n) == CHOOSE i \in Following : Cardinality({j \in Following : j <= i}) = n
Shorter(m, n) == IF m < n THEN m ELSE n

\* mutant: the next page starts after the event that follows this one
ReadPage_OffByOne(limit) ==
  LET count == Shorter(limit, Cardinality(Following))
      offsets == [n \in 1..count |-> runEvents[run][Nth(n)].seq]
  IN /\ run # None
     /\ got' = got \o offsets
     /\ \/ count = 0 /\ UNCHANGED after
        \/ count > 0 /\ after' = offsets[count] + 1
     /\ UNCHANGED <<runEvents, idempotency, replies, deletes, run, stale>>

\* ... cut at the limit, with nextOffset when something is left; a reader polls
\* again from its last offset when nothing is.
ReadPage(limit) ==
  LET count == Shorter(limit, Cardinality(Following))
      offsets == [n \in 1..count |-> runEvents[run][Nth(n)].seq]
  IN /\ run # None
     /\ got' = got \o offsets
     /\ \/ count = 0 /\ UNCHANGED after
        \/ count > 0 /\ after' = offsets[count]
     /\ UNCHANGED <<runEvents, idempotency, replies, deletes, run, stale>>
------------------------------------------------------------------------------
EventsNext ==
  \/ \E r \in Runs : AppendAnonymous(r) \/ StartReading(r)
  \/ \E r \in Runs, key \in Keys : AppendKeyed(r, key) \/ AppendAgain(r, key)
  \/ \E ids \in SUBSET Runs : Delete(ids)
  \/ \E limit \in Limits : ReadPage(limit)

EventsSpec == EventsInit /\ [][EventsNext]_eventVars
------------------------------------------------------------------------------
(* Properties. *)

\* A request that is sent again is answered with the same event each time, one that
\* is in the log, whatever was appended or deleted in between (append's idempotency
\* map, which delete must clear together with the events).
RepliesAgree ==
  \A p \in Pairs :
    /\ \A e, f \in replies[p] : e = f
    /\ \A e \in replies[p] : \E i \in 1..Len(runEvents[p[1]]) : runEvents[p[1]][i] = e

\* ... and is recorded once: a log never has two events of one key.
KeyUsedOnce ==
  \A r \in Runs : \A i, j \in 1..Len(runEvents[r]) :
    runEvents[r][i].key # None /\ runEvents[r][i].key = runEvents[r][j].key => i = j

\* A reader is given every event of its run once and in order, over pages of any size
\* and polls at any time, and asks on from where that has taken it, as long as the run is
\* not deleted under it (list's afterOffset and nextOffset, append's numbering).
ReaderSeesPrefix ==
  run # None /\ ~stale =>
    /\ got = [i \in 1..after |-> i]
    /\ after <= Len(runEvents[run])

\* The whole substore, with its numbers and its map of keys, implements the logs EventLog
\* describes, in which an event is its place and a key is looked up in the log.
KeyLogs == [r \in Runs |-> [i \in 1..Len(runEvents[r]) |-> runEvents[r][i].key]]
Told == [p \in Pairs |-> {e.seq : e \in replies[p]}]

Log == INSTANCE EventLog
         WITH log <- KeyLogs, answers <- Told, reading <- run, lost <- stale, given <- got

EventLogSpec == Log!Spec

\* Why: the numbers of a log are its indexes, and the keys known are those in it.
Numbered == \A r \in Runs : \A i \in 1..Len(runEvents[r]) : runEvents[r][i].seq = i

KeysMatchLog ==
  \A p \in Pairs :
    /\ idempotency[p] # NoEvent =>
         /\ idempotency[p].key = p[2]
         /\ \E i \in 1..Len(runEvents[p[1]]) : runEvents[p[1]][i] = idempotency[p]
    /\ \A i \in 1..Len(runEvents[p[1]]) :
         runEvents[p[1]][i].key = p[2] => runEvents[p[1]][i] = idempotency[p]
    /\ replies[p] \subseteq {idempotency[p]} \ {NoEvent}

LogInv == LogTypeOK /\ Numbered /\ KeysMatchLog

\* ... and a reader that did not start was given nothing.
ReaderInv ==
  /\ run \in Runs \cup {None}
  /\ run = None => after = 0 /\ got = <<>> /\ ~stale
  /\ ~stale => after \in Nat
  /\ ReaderSeesPrefix
==============================================================================
