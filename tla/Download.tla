------------------------------ MODULE Download ------------------------------
(***************************************************************************)
(* Agent::download_artifact_to and Agent::download_artifact (src/src/      *)
(* agent.rs), and the stream they read (src/src/client.rs).  Attempts at   *)
(* one artifact, at once or one after the other, to one destination.       *)
(*                                                                         *)
(* The destination is truncated before the bridge is asked.  A tokio file  *)
(* hands what is written to a thread that writes it at the place of its    *)
(* own handle; it takes the next chunk when that is done, tells of an      *)
(* error at the next write or at the flush, and neither that thread nor    *)
(* the one that truncates stops when the future is dropped.  The stream    *)
(* does what MessageStream promises.                                       *)
(***************************************************************************)
EXTENDS Naturals

CONSTANTS
  Attempts,  \* calls of the two functions
  ToMemory,  \* those of download_artifact
  Versions,  \* what the artifact may be when a stream is opened
  Size,      \* the pieces of each version, from which its chunks are made
  MaxSize,
  None

ASSUME DownloadAssumption ==
  /\ ToMemory \subseteq Attempts /\ None \notin Attempts \cup Versions
  /\ MaxSize \in Nat /\ Size \in [Versions -> 0..MaxSize]

VARIABLES
  down,       \* where each attempt is
  served,     \* the version its stream carries
  got,        \* the pieces it took from the stream
  landed,     \* the pieces its handle has written, so its place in the file
  diskError,  \* a write of it failed, and nobody was told yet
  creating,   \* the attempts whose File::create runs
  file,       \* the destination: the version each piece is from
  opened,     \* history: the attempt that truncated it last
  strangers   \* history: the versions other attempts have written since

downloadVars == <<down, served, got, landed, diskError, creating, file, opened, strangers>>

Active == {"opening", "open", "reading", "flushing"}
Pieces == 1..MaxSize
Writing(d) == landed[d] < got[d] /\ ~diskError[d]

DownloadTypeOK ==
  /\ down \in [Attempts -> Active \cup {"no", "ok", "failed", "cancelled"}]
  /\ served \in [Attempts -> Versions \cup {None}]
  /\ got \in [Attempts -> 0..MaxSize] /\ landed \in [Attempts -> 0..MaxSize]
  /\ diskError \in [Attempts -> BOOLEAN] /\ creating \in SUBSET Attempts
  /\ file \in [Pieces -> Versions \cup {None}]
  /\ opened \in Attempts \cup {None} /\ strangers \in SUBSET Versions

DownloadInit ==
  /\ down = [d \in Attempts |-> "no"]
  /\ served = [d \in Attempts |-> None]
  /\ got = [d \in Attempts |-> 0] /\ landed = [d \in Attempts |-> 0]
  /\ diskError = [d \in Attempts |-> FALSE] /\ creating = {}
  /\ file = [i \in Pieces |-> None] /\ opened = None /\ strangers = {}
------------------------------------------------------------------------------
\* The directories are made and the file is created, or the stream is asked for at once.
BeginDownload(d) ==
  /\ down[d] = "no"
  /\ \/ d \in ToMemory /\ down' = [down EXCEPT ![d] = "open"] /\ UNCHANGED creating
     \/ /\ d \notin ToMemory
        /\ down' = [down EXCEPT ![d] = "opening"] /\ creating' = creating \cup {d}
  /\ UNCHANGED <<served, got, landed, diskError, file, opened, strangers>>

\* The thread of File::create truncates, also for a future that was dropped meanwhile.
Truncate(d) ==
  /\ d \in creating
  /\ creating' = creating \ {d}
  /\ file' = [i \in Pieces |-> None] /\ opened' = d /\ strangers' = {}
  /\ down' = [down EXCEPT ![d] = IF @ = "opening" THEN "open" ELSE @]
  /\ UNCHANGED <<served, got, landed, diskError>>

CreateFileFails(d) ==
  /\ d \in creating
  /\ creating' = creating \ {d}
  /\ down' = [down EXCEPT ![d] = IF @ = "opening" THEN "failed" ELSE @]
  /\ UNCHANGED <<served, got, landed, diskError, file, opened, strangers>>

ArtifactStreamOpens(d) ==
  /\ down[d] = "open"
  /\ down' = [down EXCEPT ![d] = "reading"]
  /\ \E v \in Versions : served' = [served EXCEPT ![d] = v]
  /\ UNCHANGED <<got, landed, diskError, creating, file, opened, strangers>>

ArtifactStreamRefused(d) ==
  /\ down[d] = "open"
  /\ down' = [down EXCEPT ![d] = "failed"]
  /\ UNCHANGED <<served, got, landed, diskError, creating, file, opened, strangers>>

\* A chunk of any number of pieces is taken; the file takes it when the last is written.
TakeChunk(d) ==
  /\ down[d] = "reading"
  /\ landed[d] = got[d]
  /\ \E n \in (got[d] + 1)..Size[served[d]] :
       /\ got' = [got EXCEPT ![d] = n]
       /\ landed' = IF d \in ToMemory THEN [landed EXCEPT ![d] = n] ELSE landed
  /\ UNCHANGED <<down, served, diskError, creating, file, opened, strangers>>

\* mutant: the file is not flushed
ArtifactStreamEnds_NoFlush(d) ==
  /\ down[d] = "reading"
  /\ got[d] = Size[served[d]]
  /\ down' = [down EXCEPT ![d] = "ok"]
  /\ UNCHANGED <<served, got, landed, diskError, creating, file, opened, strangers>>

\* The bridge ended the stream, so that was the whole artifact; the flush is next.
ArtifactStreamEnds(d) ==
  /\ down[d] = "reading"
  /\ got[d] = Size[served[d]]
  /\ down' = [down EXCEPT ![d] = IF d \in ToMemory THEN "ok" ELSE "flushing"]
  /\ UNCHANGED <<served, got, landed, diskError, creating, file, opened, strangers>>

\* A cut or an error of the bridge, after any chunk.
ArtifactStreamBreaks(d) ==
  /\ down[d] = "reading"
  /\ down' = [down EXCEPT ![d] = "failed"]
  /\ UNCHANGED <<served, got, landed, diskError, creating, file, opened, strangers>>

\* The error of the write before is the answer of the next one, or of the flush.
WriteReported(d) ==
  /\ diskError[d]
  /\ down[d] \in {"reading", "flushing"}
  /\ down[d] = "reading" => got[d] < Size[served[d]]
  /\ down' = [down EXCEPT ![d] = "failed"]
  /\ UNCHANGED <<served, got, landed, diskError, creating, file, opened, strangers>>

Flushed(d) ==
  /\ down[d] = "flushing"
  /\ landed[d] = got[d]
  /\ down' = [down EXCEPT ![d] = "ok"]
  /\ UNCHANGED <<served, got, landed, diskError, creating, file, opened, strangers>>

\* The file's thread, which goes on after its attempt has returned or was dropped.
WritePiece(d) ==
  /\ Writing(d)
  /\ landed' = [landed EXCEPT ![d] = @ + 1]
  /\ file' = [file EXCEPT ![landed[d] + 1] = served[d]]
  /\ strangers' = IF d = opened THEN strangers ELSE strangers \cup {served[d]}
  /\ UNCHANGED <<down, served, got, diskError, creating, opened>>

WriteFails(d) ==
  /\ Writing(d)
  /\ diskError' = [diskError EXCEPT ![d] = TRUE]
  /\ UNCHANGED <<down, served, got, landed, creating, file, opened, strangers>>

CancelDownload(d) ==
  /\ down[d] \in Active
  /\ down' = [down EXCEPT ![d] = "cancelled"]
  /\ UNCHANGED <<served, got, landed, diskError, creating, file, opened, strangers>>

DownloadNext == \E d \in Attempts :
  \/ BeginDownload(d) \/ Truncate(d) \/ CreateFileFails(d)
  \/ ArtifactStreamOpens(d) \/ ArtifactStreamRefused(d) \/ TakeChunk(d)
  \/ ArtifactStreamEnds(d) \/ ArtifactStreamBreaks(d) \/ WriteReported(d) \/ Flushed(d)
  \/ WritePiece(d) \/ WriteFails(d) \/ CancelDownload(d)
------------------------------------------------------------------------------
\* What an Ok means (agent.rs:259): the whole artifact was received, and the file is
\* that artifact and nothing else, unless another download has opened the same file
\* since, or was writing another version of the artifact into it.  That other downloads
\* failed, or were dropped with a write on its way, before it or meanwhile, is no
\* exception.
OkDownloadIsWhole ==
  /\ \A d \in Attempts : down[d] = "ok" => got[d] = Size[served[d]]
  /\ \A d \in Attempts :
       (d = opened /\ down[d] = "ok" /\ strangers \subseteq {served[d]}) =>
         \A i \in Pieces : file[i] = IF i <= Size[served[d]] THEN served[d] ELSE None

\* What is in the file: pieces at their places, of the attempt that opened it and of the
\* others that wrote since; and how far each attempt can be at each of its steps.
DownloadInv ==
  /\ DownloadTypeOK
  /\ \A i \in Pieces : file[i] # None => i <= Size[file[i]]
  /\ opened # None =>
       /\ opened \notin ToMemory
       /\ \A i \in Pieces : file[i] # None => file[i] \in strangers \cup {served[opened]}
       /\ \A i \in 1..landed[opened] : file[i] # None
  /\ \A d \in Attempts :
       /\ landed[d] <= got[d]
       /\ served[d] = None => got[d] = 0
       /\ served[d] # None => got[d] <= Size[served[d]]
       /\ d \in ToMemory => landed[d] = got[d]
       /\ d \in creating =>
            d \notin ToMemory /\ served[d] = None /\ down[d] \in {"opening", "cancelled"}
       /\ down[d] \in {"no", "opening", "open"} => served[d] = None
       /\ down[d] \in {"reading", "flushing", "ok"} => served[d] # None
       /\ down[d] \in {"flushing", "ok"} => got[d] = Size[served[d]]
       /\ down[d] = "ok" => landed[d] = got[d]
==============================================================================
