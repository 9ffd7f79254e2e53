---------------------------- MODULE Install_proofs ----------------------------
(***************************************************************************)
(* For any number of installers, deaths and clients: what is installed with*)
(* a checksum is all of one release, and nothing else as long as removals  *)
(* succeed; an install is not lost to installers that meet, fail or die;   *)
(* and preflight vouches for what is spawned.                              *)
(*                                                                         *)
(* The invariant adds to these what each installer has in its directories  *)
(* at each of its steps: before the renames a verified tree, between them  *)
(* the old install, and after them an old install that nobody needs.       *)
(***************************************************************************)
EXTENDS Install, TLAPS

\* What a client past preflight has seen, as long as nobody moved the install.
CheckedIsAccepted ==
  ~waived => \A c \in Clients : launch[c] = "checked" /\ c \notin stirred =>
    dest["bin"] \in Supported \cup {NoFile}

Safe == Inv /\ PinnedInstallIsWhole /\ PreviousInstallRecoverable /\ InstallStaysInPlace
IInv == Safe /\ CheckedIsAccepted

Staging(p) == Begin(p) \/ Download(p) \/ Unpack(p) \/ Stage(p) \/ Discard(p)

\* Directories.
LEMMA EmptyDirectory == Empty \in Directory /\ ~HasBridge(Empty) /\ Empty["bin"] = NoFile
BY DEF Directory, Names, Empty, HasBridge

LEMMA FilesAreNames ==
  ASSUME NEW r
  PROVE  /\ Files(r) \subseteq Names /\ "archive" \notin Files(r)
         /\ "bin" \in Files(r) /\ "manifest" \in Files(r)
BY DEF Files, Names

LEMMA WholeDirectory ==
  ASSUME NEW r \in Releases
  PROVE  Whole(r) \in Directory /\ Holds(Whole(r), r)
BY FilesAreNames DEF Whole, Holds, Directory

LEMMA HeldDirectory ==
  ASSUME NEW dir \in Directory, NEW r \in Releases, Holds(dir, r)
  PROVE  HasBridge(dir) /\ dir["bin"] = r /\ dir["manifest"] = r
BY FilesAreNames, InstallAssumption DEF Holds, HasBridge

LEMMA PinnedDirectory ==
  ASSUME NEW dir \in Directory, IsPinned(dir)
  PROVE  HasBridge(dir) /\ dir["bin"] \in Pinned /\ dir["manifest"] = dir["bin"]
<1>1. PICK r \in Pinned : Holds(dir, r)
  BY DEF IsPinned, IsInstall
<1> QED BY <1>1, HeldDirectory, InstallAssumption

\* A removal that fails leaves no file that was not there (remove_dir_all).
LEMMA RemainsDirectory ==
  ASSUME NEW dir \in Directory, NEW left \in Remains(dir)
  PROVE  left \in Directory /\ (HasBridge(left) => HasBridge(dir))
BY DEF Remains, Present, Directory, Names, HasBridge

\* A directory that has all files of a release has them without the archive too, and
\* is that release if nothing else is there.
LEMMA CompleteDirectory ==
  ASSUME NEW dir \in Directory, NEW r, Holds(dir, r)
  PROVE  /\ Holds([dir EXCEPT !["archive"] = NoFile], r)
         /\ (\A n \in Names \ Files(r) : n # "archive" => dir[n] = NoFile) =>
              [dir EXCEPT !["archive"] = NoFile] = Whole(r)
BY FilesAreNames DEF Holds, Whole, Directory

\* Failed removals are counted.
LEMMA FailuresStep ==
  ASSUME failures \in 0..MaxFailures, [Next]_vars
  PROVE  failures' \in 0..MaxFailures /\ (failures' = 0 => failures = 0)
<1>1. RemovalFails => failures' \in 0..MaxFailures /\ (failures' = 0 => failures = 0)
  BY InstallAssumption DEF RemovalFails
<1>2. \A left : Removal(left) => failures' \in 0..MaxFailures /\ (failures' = 0 => failures = 0)
  BY <1>1 DEF Removal
<1>3. ASSUME NEW p \in Pids,
             Begin(p) \/ Discard(p) \/ ClearRetired(p) \/ CommitFails(p) \/ Restore(p) \/ CleanUp(p)
      PROVE  failures' = failures \/ \E left : Removal(left)
  BY <1>3 DEF Begin, Discard, ClearRetired, CommitFails, Restore, CleanUp
<1>4. ASSUME NEW p \in Pids, Stage(p) PROVE failures' = failures \/ RemovalFails
  BY <1>4 DEF Stage
<1>5. ASSUME NEW p \in Pids, Download(p) \/ Unpack(p) \/ Look(p) \/ MoveAside(p) \/ MoveAsideFails(p)
                             \/ Commit(p) \/ Crash(p)
      PROVE  failures' = failures
  BY <1>5 DEF Download, Unpack, Look, MoveAside, MoveAsideFails, Commit, Crash
<1>6. ASSUME NEW c \in Clients, Client(c) PROVE failures' = failures
  BY <1>6 DEF Client, Resolve, Preflight, Spawn
<1>7. CASE UNCHANGED vars
  BY <1>7 DEF vars
<1> QED BY <1>1, <1>2, <1>3, <1>4, <1>5, <1>6, <1>7 DEF Next, Installer

LEMMA InitIInv == Init => IInv
<1> SUFFICES ASSUME Init PROVE IInv
  OBVIOUS
<1>1. dest \in Directory /\ (dest = Empty \/ (IsPinned(dest) /\ HasBridge(dest)))
  <2>1. CASE dest = Empty
    BY <2>1, EmptyDirectory
  <2>2. ASSUME NEW r \in Pinned, dest = Whole(r)
        PROVE  dest \in Directory /\ IsPinned(dest) /\ HasBridge(dest)
    BY <2>2, WholeDirectory, HeldDirectory, InstallAssumption DEF IsPinned, IsInstall
  <2> QED BY <2>1, <2>2 DEF Init
<1>2. installed \in BOOLEAN
  BY Zenon DEF Init, HasBridge
<1>3. TypeOK
  <2>1. /\ staging \in [Pids -> Directory] /\ retired \in [Pids -> Directory]
        /\ at \in [Pids -> Steps] /\ want \in [Pids -> Releases \cup {NoFile}]
    BY EmptyDirectory DEF Init, Steps
  <2>2. /\ launch \in [Clients -> {"idle", "resolved", "checked", "unchecked"}]
        /\ runs \in 0..MaxRuns /\ failures \in 0..MaxFailures
    BY InstallAssumption DEF Init
  <2>3. /\ waived \in BOOLEAN /\ mishap \in BOOLEAN /\ cleared \in BOOLEAN
        /\ stirred \in SUBSET Clients
    BY Zenon DEF Init
  <2> QED BY <1>1, <1>2, <2>1, <2>2, <2>3 DEF TypeOK
<1>4. Inv
  BY <1>1, <1>3, InstallAssumption DEF Init, Inv, AskedWhileRunning, VerifiedStaging, CleanStaging,
    SwapHasBridges, NothingUnverified, RemovalIsSafe, Ready, HoldsOld
<1>5. PinnedInstallIsWhole /\ PreviousInstallRecoverable /\ InstallStaysInPlace
  BY <1>1 DEF Init, PinnedInstallIsWhole, PreviousInstallRecoverable, InstallStaysInPlace, Kept
<1>6. CheckedIsAccepted
  BY DEF Init, CheckedIsAccepted
<1> QED BY <1>3, <1>4, <1>5, <1>6 DEF IInv, Safe

LEMMA TypeStep == TypeOK /\ [Next]_vars => TypeOK'
<1> SUFFICES ASSUME TypeOK, [Next]_vars PROVE TypeOK'
  OBVIOUS
<1> USE DEF TypeOK
<1>0. failures' \in 0..MaxFailures
  BY FailuresStep
<1>1. ASSUME NEW p \in Pids, Begin(p) PROVE TypeOK'
  BY <1>0, <1>1, RemainsDirectory, InstallAssumption DEF Begin, To, Steps
<1>2. ASSUME NEW p \in Pids, Download(p) PROVE TypeOK'
  BY <1>0, <1>2 DEF Download, To, Steps, Directory, Names, history
<1>3. ASSUME NEW p \in Pids, Unpack(p) PROVE TypeOK'
  BY <1>0, <1>3 DEF Unpack, Entries, Files, Directory, Names, history
<1>4. ASSUME NEW p \in Pids, Stage(p) PROVE TypeOK'
  <2>1. staging' \in [Pids -> Directory]
    <3>1. staging' = [staging EXCEPT ![p]["archive"] = NoFile] \/ staging' = staging
      BY <1>4 DEF Stage
    <3>2. [staging[p] EXCEPT !["archive"] = NoFile] \in Directory
      BY DEF Directory, Names
    <3> QED BY <3>1, <3>2
  <2>2. UNCHANGED <<dest, retired, want, launch, runs, history>> /\ To(p, "staged")
    BY <1>4 DEF Stage
  <2> QED BY <1>0, <2>1, <2>2 DEF To, Steps, history
<1>5. ASSUME NEW p \in Pids, Discard(p) PROVE TypeOK'
  BY <1>0, <1>5, RemainsDirectory DEF Discard, End, To, Steps, history
<1>6. ASSUME NEW p \in Pids, ClearRetired(p) PROVE TypeOK'
  BY <1>0, <1>6, RemainsDirectory DEF ClearRetired, To, Steps
<1>7. ASSUME NEW p \in Pids, Look(p) \/ MoveAsideFails(p) \/ Crash(p) PROVE TypeOK'
  BY <1>0, <1>7 DEF Look, MoveAsideFails, Crash, End, To, Steps, dirs, history
<1>8. ASSUME NEW p \in Pids, MoveAside(p) PROVE TypeOK'
  BY <1>0, <1>8, EmptyDirectory DEF MoveAside, Stir, To, Steps
<1>9. ASSUME NEW p \in Pids, Commit(p) PROVE TypeOK'
  BY <1>0, <1>9, EmptyDirectory DEF Commit, Stir, To, Steps
<1>10. ASSUME NEW p \in Pids, CommitFails(p) PROVE TypeOK'
  BY <1>0, <1>10, RemainsDirectory DEF CommitFails, End, To, Steps, history
<1>11. ASSUME NEW p \in Pids, Restore(p) PROVE TypeOK'
  <2>1. dest' \in Directory /\ retired' \in [Pids -> Directory]
    <3>1. CASE dest' = retired[p] /\ retired' = [retired EXCEPT ![p] = Empty]
      BY <3>1, EmptyDirectory
    <3>2. CASE UNCHANGED <<dest, retired>>
      BY <3>2
    <3> QED BY <1>11, <3>1, <3>2 DEF Restore
  <2>2. stirred' \in SUBSET Clients
    BY <1>11 DEF Restore, Stir
  <2>3. mishap' \in BOOLEAN
    BY <1>11, Zenon DEF Restore
  <2>4. staging' \in [Pids -> Directory]
    BY <1>11, RemainsDirectory DEF Restore
  <2>5. at' \in [Pids -> Steps] /\ want' \in [Pids -> Releases \cup {NoFile}]
    BY <1>11 DEF Restore, End, To, Steps
  <2>6. UNCHANGED <<launch, runs, installed, waived, cleared>>
    BY <1>11 DEF Restore
  <2> QED BY <1>0, <2>1, <2>2, <2>3, <2>4, <2>5, <2>6
<1>12. ASSUME NEW p \in Pids, CleanUp(p) PROVE TypeOK'
  BY <1>0, <1>12, RemainsDirectory DEF CleanUp, End, To, Steps, history
<1>13. ASSUME NEW c \in Clients, Client(c) PROVE TypeOK'
  BY <1>0, <1>13 DEF Client, Resolve, Preflight, Spawn, Go, dirs, history
<1>14. CASE UNCHANGED vars
  BY <1>0, <1>14 DEF vars, dirs, history
<1> QED BY <1>1, <1>2, <1>3, <1>4, <1>5, <1>6, <1>7, <1>8, <1>9, <1>10, <1>11, <1>12, <1>13, <1>14
     DEF Next, Installer

\* An installer that runs was asked for a release.
LEMMA AskedStep ==
  ASSUME TypeOK, AskedWhileRunning, [Next]_vars
  PROVE  AskedWhileRunning'
<1> USE DEF TypeOK, AskedWhileRunning
<1>1. ASSUME NEW p \in Pids, Begin(p) PROVE AskedWhileRunning'
  BY <1>1, InstallAssumption DEF Begin, To
<1>2. ASSUME NEW p \in Pids, \/ Download(p) \/ Unpack(p) \/ Stage(p) \/ Discard(p) \/ ClearRetired(p)
                             \/ Look(p) \/ MoveAside(p) \/ MoveAsideFails(p) \/ Commit(p)
      PROVE  AskedWhileRunning'
  BY <1>2 DEF Download, Unpack, Stage, Discard, ClearRetired, Look, MoveAside, MoveAsideFails, Commit,
    End, To
<1>3. ASSUME NEW p \in Pids, CommitFails(p) \/ Restore(p) \/ CleanUp(p) \/ Crash(p)
      PROVE  AskedWhileRunning'
  BY <1>3 DEF CommitFails, Restore, CleanUp, Crash, End, To
<1>4. ASSUME NEW c \in Clients, Client(c) PROVE AskedWhileRunning'
  BY <1>4 DEF Client, Resolve, Preflight, Spawn
<1>5. CASE UNCHANGED vars
  BY <1>5 DEF vars
<1> QED BY <1>1, <1>2, <1>3, <1>4, <1>5 DEF Next, Installer

\* What an installer has in its staging directory is what it was asked for: only a
\* download that matches goes on, and staging is its own.
LEMMA VerifiedStep ==
  ASSUME TypeOK, VerifiedStaging, CleanStaging, [Next]_vars
  PROVE  VerifiedStaging' /\ CleanStaging'
<1> USE DEF TypeOK, VerifiedStaging, CleanStaging, Ready, IsInstall
<1>0. failures' = 0 => failures = 0
  BY FailuresStep
<1>1. ASSUME NEW p \in Pids, Begin(p) PROVE VerifiedStaging' /\ CleanStaging'
  <2>1. PICK left : Removal(left) /\ staging' = [staging EXCEPT ![p] = left]
    BY <1>1 DEF Begin
  <2>2. failures' = 0 => staging'[p] = Empty
    BY <2>1, InstallAssumption DEF Removal, RemovalFails
  <2>3. at'[p] = "downloading"
    BY <1>1 DEF Begin, To
  <2>4. \A q \in Pids \ {p} : staging'[q] = staging[q] /\ at'[q] = at[q] /\ want'[q] = want[q]
    BY <1>1 DEF Begin, To
  <2> QED BY <1>0, <2>2, <2>3, <2>4
<1>2. ASSUME NEW p \in Pids, Download(p) PROVE VerifiedStaging' /\ CleanStaging'
  <2>1. PICK b \in Releases : ChecksumMatches(p, b) /\ staging' = [staging EXCEPT ![p]["archive"] = b]
    BY <1>2 DEF Download
  <2>2. at[p] = "downloading" /\ at'[p] = "extracting" /\ want' = want
    BY <1>2 DEF Download, To
  <2>3. want[p] \in Pinned => staging'[p]["archive"] = want[p]
    BY <2>1 DEF ChecksumMatches, Directory, Names
  <2>4. failures = 0 => \A n \in Names : n # "archive" => staging'[p][n] = NoFile
    BY <2>1, <2>2 DEF Empty
  <2>5. \A q \in Pids \ {p} : staging'[q] = staging[q] /\ at'[q] = at[q]
    BY <1>2, <2>1 DEF Download, To
  <2> QED BY <1>0, <2>2, <2>3, <2>4, <2>5
<1>3. ASSUME NEW p \in Pids, Unpack(p) PROVE VerifiedStaging' /\ CleanStaging'
  <2>1. PICK n \in Entries(staging[p]["archive"]) :
             staging' = [staging EXCEPT ![p][n] = staging[p]["archive"]]
    BY <1>3 DEF Unpack
  <2>2. at[p] = "extracting" /\ UNCHANGED <<at, want>>
    BY <1>3 DEF Unpack
  <2>3. want[p] \in Pinned => n \in Files(want[p]) /\ staging'[p]["archive"] = want[p]
    BY <2>1, <2>2, FilesAreNames DEF Entries, Directory, Names
  <2>4. \A m \in Names : m # n => staging'[p][m] = staging[p][m]
    BY <2>1
  <2>5. \A q \in Pids \ {p} : staging'[q] = staging[q]
    BY <2>1
  <2> QED BY <1>0, <2>2, <2>3, <2>4, <2>5
<1>4. ASSUME NEW p \in Pids, Stage(p) PROVE VerifiedStaging' /\ CleanStaging'
  <2>1. ASSUME want[p] \in Pinned
        PROVE  Holds(staging'[p], want[p]) /\ (failures' = 0 => staging'[p] = Whole(want[p]))
    <3>1. at[p] = "extracting" /\ Holds(staging[p], want[p])
      BY <1>4, <2>1 DEF Stage, Complete
    <3>2. CASE staging' = [staging EXCEPT ![p]["archive"] = NoFile]
      <4>1. staging'[p] = [staging[p] EXCEPT !["archive"] = NoFile]
        BY <3>2
      <4> QED BY <1>0, <2>1, <3>1, <4>1, CompleteDirectory
    <3>3. CASE UNCHANGED staging /\ RemovalFails
      BY <3>1, <3>3 DEF RemovalFails
    <3> QED BY <1>4, <3>2, <3>3 DEF Stage
  <2>2. at'[p] = "staged" /\ want' = want
    BY <1>4 DEF Stage, To
  <2>3. \A q \in Pids \ {p} : staging'[q] = staging[q] /\ at'[q] = at[q]
    BY <1>4 DEF Stage, To
  <2> QED BY <1>0, <2>1, <2>2, <2>3
<1>5. ASSUME NEW p \in Pids, Discard(p) \/ MoveAsideFails(p) \/ Crash(p) \/ CleanUp(p)
      PROVE  VerifiedStaging' /\ CleanStaging'
  BY <1>0, <1>5, InstallAssumption DEF Discard, MoveAsideFails, Crash, CleanUp, End, To, dirs
<1>6. ASSUME NEW p \in Pids, ClearRetired(p) \/ Look(p) \/ MoveAside(p)
      PROVE  VerifiedStaging' /\ CleanStaging'
  BY <1>0, <1>6 DEF ClearRetired, Look, MoveAside, To, dirs
<1>7. ASSUME NEW p \in Pids, Commit(p) PROVE VerifiedStaging' /\ CleanStaging'
  BY <1>0, <1>7 DEF Commit, To
<1>8. ASSUME NEW p \in Pids, CommitFails(p) PROVE VerifiedStaging' /\ CleanStaging'
  BY <1>0, <1>8, InstallAssumption DEF CommitFails, End, To
<1>9. ASSUME NEW p \in Pids, Restore(p) PROVE VerifiedStaging' /\ CleanStaging'
  BY <1>0, <1>9, InstallAssumption DEF Restore, End, To
<1>10. ASSUME NEW c \in Clients, Client(c) PROVE VerifiedStaging' /\ CleanStaging'
  BY <1>0, <1>10 DEF Client, Resolve, Preflight, Spawn, dirs
<1>11. CASE UNCHANGED vars
  BY <1>11 DEF vars, dirs
<1> QED BY <1>1, <1>2, <1>3, <1>4, <1>5, <1>6, <1>7, <1>8, <1>9, <1>10, <1>11 DEF Next, Installer

\* The renames move trees with a bridge in them.
LEMMA SwapStep ==
  ASSUME TypeOK, SwapHasBridges, [Next]_vars
  PROVE  SwapHasBridges'
<1> USE DEF TypeOK, SwapHasBridges, Ready, HoldsOld, HasBridge
<1>1. ASSUME NEW p \in Pids, Staging(p) PROVE SwapHasBridges'
  <2>1. CASE Begin(p) \/ Download(p) \/ Discard(p)
    BY <2>1 DEF Begin, Download, Discard, End, To
  <2>2. CASE Unpack(p)
    BY <2>2 DEF Unpack
  <2>3. CASE Stage(p)
    BY <2>3 DEF Stage, Complete, To, Directory, Names
  <2> QED BY <1>1, <2>1, <2>2, <2>3 DEF Staging
<1>2. ASSUME NEW p \in Pids, ClearRetired(p) \/ Look(p) \/ MoveAsideFails(p) \/ Crash(p) \/ CleanUp(p)
      PROVE  SwapHasBridges'
  BY <1>2 DEF ClearRetired, Look, MoveAsideFails, Crash, CleanUp, End, To, dirs
<1>3. ASSUME NEW p \in Pids, MoveAside(p) PROVE SwapHasBridges'
  BY <1>3 DEF MoveAside, To
<1>4. ASSUME NEW p \in Pids, Commit(p) PROVE SwapHasBridges'
  BY <1>4 DEF Commit, To
<1>5. ASSUME NEW p \in Pids, CommitFails(p) PROVE SwapHasBridges'
  BY <1>5 DEF CommitFails, End, To
<1>6. ASSUME NEW p \in Pids, Restore(p) PROVE SwapHasBridges'
  BY <1>6 DEF Restore, End, To
<1>7. ASSUME NEW c \in Clients, Client(c) PROVE SwapHasBridges'
  BY <1>7 DEF Client, Resolve, Preflight, Spawn, dirs
<1>8. CASE UNCHANGED vars
  BY <1>8 DEF vars, dirs
<1> QED BY <1>1, <1>2, <1>3, <1>4, <1>5, <1>6, <1>7, <1>8 DEF Next, Installer, Staging

\* As long as no checksum was waived, what is in place and what was moved aside are
\* trees of one release.
LEMMA WholeStep ==
  ASSUME TypeOK, VerifiedStaging, SwapHasBridges, NothingUnverified, PinnedInstallIsWhole, [Next]_vars
  PROVE  NothingUnverified' /\ PinnedInstallIsWhole'
<1> USE DEF TypeOK, NothingUnverified, PinnedInstallIsWhole, IsPinned, IsInstall, HoldsOld
<1>0. failures' = 0 => failures = 0
  BY FailuresStep
<1>1. ASSUME NEW p \in Pids, Begin(p) PROVE NothingUnverified' /\ PinnedInstallIsWhole'
  <2>1. ~waived' => ~waived /\ want'[p] \in Pinned
    BY <1>0, <1>1 DEF Begin
  <2>2. at'[p] = "downloading" /\ retired' = retired /\ dest' = dest
    BY <1>0, <1>1 DEF Begin, To
  <2>3. \A q \in Pids \ {p} : at'[q] = at[q] /\ want'[q] = want[q]
    BY <1>0, <1>1 DEF Begin, To
  <2> QED BY <1>0, <2>1, <2>2, <2>3
<1>2. ASSUME NEW p \in Pids, Download(p) \/ Unpack(p) \/ Stage(p) \/ Discard(p)
      PROVE  NothingUnverified' /\ PinnedInstallIsWhole'
  BY <1>0, <1>2 DEF Download, Unpack, Stage, Discard, End, To, history
<1>3. ASSUME NEW p \in Pids, ClearRetired(p) \/ Look(p) \/ MoveAsideFails(p) \/ Crash(p) \/ CleanUp(p)
      PROVE  NothingUnverified' /\ PinnedInstallIsWhole'
  BY <1>0, <1>3 DEF ClearRetired, Look, MoveAsideFails, Crash, CleanUp, End, To, dirs, history
<1>4. ASSUME NEW p \in Pids, MoveAside(p) PROVE NothingUnverified' /\ PinnedInstallIsWhole'
  BY <1>0, <1>4 DEF MoveAside, To
<1>5. ASSUME NEW p \in Pids, Commit(p) PROVE NothingUnverified' /\ PinnedInstallIsWhole'
  <2>1. ~waived => want[p] \in Pinned /\ IsInstall(staging[p], want[p])
    BY <1>0, <1>5 DEF Commit, VerifiedStaging, Ready
  <2> QED BY <1>0, <1>5, <2>1 DEF Commit, To
<1>6. ASSUME NEW p \in Pids, CommitFails(p) PROVE NothingUnverified' /\ PinnedInstallIsWhole'
  BY <1>0, <1>6 DEF CommitFails, End, To, history
<1>7. ASSUME NEW p \in Pids, Restore(p) PROVE NothingUnverified' /\ PinnedInstallIsWhole'
  BY <1>0, <1>7 DEF Restore, End, To
<1>8. ASSUME NEW c \in Clients, Client(c) PROVE NothingUnverified' /\ PinnedInstallIsWhole'
  BY <1>0, <1>8 DEF Client, Resolve, Preflight, Spawn, dirs, history
<1>9. CASE UNCHANGED vars
  BY <1>0, <1>9 DEF vars, dirs, history
<1> QED BY <1>1, <1>2, <1>3, <1>4, <1>5, <1>6, <1>7, <1>8, <1>9 DEF Next, Installer

\* Where some bridge is kept that nobody is about to remove, one is kept after any
\* step that does not clear what a dead installer moved aside.
SafelyKept == HasBridge(dest) \/ \E q \in Pids : at[q] # "cleaning" /\ HasBridge(retired[q])

LEMMA RemovalStep ==
  ASSUME TypeOK, SwapHasBridges, SafelyKept, ~cleared', [Next]_vars
  PROVE  SafelyKept'
<1> USE DEF TypeOK, SafelyKept
<1>1. ASSUME NEW p \in Pids,
             Staging(p) \/ Look(p) \/ MoveAsideFails(p) \/ Crash(p) \/ CommitFails(p)
      PROVE  SafelyKept'
  <2>1. dest' = dest /\ retired' = retired
    BY <1>1 DEF Staging, Begin, Download, Unpack, Stage, Discard, Look, MoveAsideFails, Crash,
      CommitFails, dirs
  <2>2. at'[p] # "cleaning" \/ at'[p] = at[p]
    BY <1>1 DEF Staging, Begin, Download, Unpack, Stage, Discard, Look, MoveAsideFails, Crash,
      CommitFails, End, To
  <2>3. \A q \in Pids \ {p} : at'[q] = at[q]
    BY <1>1 DEF Staging, Begin, Download, Unpack, Stage, Discard, Look, MoveAsideFails, Crash,
      CommitFails, End, To
  <2> QED BY <2>1, <2>2, <2>3
<1>2. ASSUME NEW p \in Pids, ClearRetired(p) PROVE SafelyKept'
  <2>1. dest' = dest /\ at'[p] = "swapping" /\ \A q \in Pids \ {p} : at'[q] = at[q] /\ retired'[q] = retired[q]
    BY <1>2 DEF ClearRetired, To
  <2>2. HasBridge(retired[p]) => HasBridge(retired'[p])
    <3>1. PICK left : retired' = [retired EXCEPT ![p] = left]
                      /\ cleared' = (cleared \/ (HasBridge(retired[p]) /\ ~HasBridge(left)))
      BY <1>2 DEF ClearRetired
    <3>2. retired'[p] = left
      BY <3>1
    <3> QED BY <3>1, <3>2
  <2> QED BY <2>1, <2>2
<1>3. ASSUME NEW p \in Pids, MoveAside(p) PROVE SafelyKept'
  <2>1. HasBridge(dest) /\ retired'[p] = dest /\ at'[p] = "moved"
    BY <1>3 DEF MoveAside, SwapHasBridges, To
  <2> QED BY <2>1
<1>4. ASSUME NEW p \in Pids, Commit(p) PROVE SafelyKept'
  BY <1>4 DEF Commit, SwapHasBridges, Ready
<1>5. ASSUME NEW p \in Pids, Restore(p) PROVE SafelyKept'
  <2>1. CASE dest' = retired[p]
    BY <1>5, <2>1 DEF Restore, SwapHasBridges, HoldsOld
  <2>2. CASE dest' = dest /\ retired' = retired
    BY <1>5, <2>2 DEF Restore, End, To
  <2> QED BY <1>5, <2>1, <2>2 DEF Restore
<1>6. ASSUME NEW p \in Pids, CleanUp(p) PROVE SafelyKept'
  BY <1>6 DEF CleanUp, End, To
<1>7. ASSUME NEW c \in Clients, Client(c) PROVE SafelyKept'
  BY <1>7 DEF Client, Resolve, Preflight, Spawn, dirs
<1>8. CASE UNCHANGED vars
  BY <1>8 DEF vars, dirs
<1> QED BY <1>1, <1>2, <1>3, <1>4, <1>5, <1>6, <1>7, <1>8 DEF Next, Installer, Staging

\* The flags of the history: cleared is never reset, and only Commit sets installed,
\* makes an installer clean up, or ends with a bridge where there was none.
LEMMA HistoryStep ==
  ASSUME TypeOK, SwapHasBridges, [Next]_vars
  PROVE  /\ cleared => cleared'
         /\ \/ HasBridge(dest')
            \/ /\ installed' = installed
               /\ \A p \in Pids : at'[p] = "cleaning" => at[p] = "cleaning"
<1> USE DEF TypeOK
<1>1. ASSUME NEW p \in Pids, Installer(p), ~Commit(p), ~ClearRetired(p)
      PROVE  cleared' = cleared /\ installed' = installed
  BY <1>1 DEF Installer, Begin, Download, Unpack, Stage, Discard, Look, MoveAside, MoveAsideFails,
    CommitFails, Restore, CleanUp, Crash, history
<1>2. ASSUME NEW p \in Pids, Installer(p), ~Commit(p)
      PROVE  \A q \in Pids : at'[q] = "cleaning" => at[q] = "cleaning"
  BY <1>2 DEF Installer, Begin, Download, Unpack, Stage, Discard, ClearRetired, Look, MoveAside,
    MoveAsideFails, CommitFails, Restore, CleanUp, Crash, End, To
<1>3. ASSUME NEW p \in Pids, Commit(p) PROVE HasBridge(dest') /\ cleared' = cleared
  BY <1>3 DEF Commit, SwapHasBridges, Ready
<1>4. ASSUME NEW p \in Pids, ClearRetired(p) PROVE installed' = installed /\ (cleared => cleared')
  BY <1>4 DEF ClearRetired
<1>5. ASSUME NEW c \in Clients, Client(c)
      PROVE  cleared' = cleared /\ installed' = installed /\ at' = at
  BY <1>5 DEF Client, Resolve, Preflight, Spawn, history
<1>6. CASE UNCHANGED vars
  BY <1>6 DEF vars, history
<1> QED BY <1>1, <1>2, <1>3, <1>4, <1>5, <1>6 DEF Next

\* The old install is removed only when there is another, and a bridge that was
\* once installed is kept somewhere.
LEMMA KeptStep ==
  ASSUME TypeOK, SwapHasBridges, RemovalIsSafe, PreviousInstallRecoverable, [Next]_vars
  PROVE  RemovalIsSafe' /\ PreviousInstallRecoverable'
<1>1. /\ cleared => cleared'
      /\ \/ HasBridge(dest')
         \/ installed' = installed /\ \A p \in Pids : at'[p] = "cleaning" => at[p] = "cleaning"
  BY HistoryStep
<1>2. RemovalIsSafe'
  <2> SUFFICES ASSUME ~cleared', NEW p \in Pids, at'[p] = "cleaning" PROVE SafelyKept'
    BY DEF RemovalIsSafe, SafelyKept
  <2>1. CASE HasBridge(dest')
    BY <2>1 DEF SafelyKept
  <2>2. CASE at[p] = "cleaning"
    <3>1. SafelyKept
      BY <1>1, <2>2 DEF RemovalIsSafe, SafelyKept
    <3> QED BY <3>1, RemovalStep
  <2> QED BY <1>1, <2>1, <2>2
<1>3. PreviousInstallRecoverable'
  <2> SUFFICES ASSUME installed', ~cleared' PROVE Kept'
    BY DEF PreviousInstallRecoverable
  <2>1. CASE HasBridge(dest')
    BY <2>1 DEF Kept
  <2>2. CASE ~HasBridge(dest')
    <3>1. Kept
      BY <1>1, <2>2 DEF PreviousInstallRecoverable
    <3>2. SafelyKept
      BY <3>1, <1>1 DEF Kept, SafelyKept, RemovalIsSafe
    <3>3. SafelyKept'
      BY <3>2, RemovalStep
    <3> QED BY <3>3 DEF SafelyKept, Kept
  <2> QED BY <2>1, <2>2
<1> QED BY <1>2, <1>3

\* Between the renames of one installer there may be nothing in place; when it is
\* done there is, and a rename that is refused has found an install.
LEMMA StaysStep ==
  ASSUME TypeOK, SwapHasBridges, InstallStaysInPlace, [Next]_vars
  PROVE  InstallStaysInPlace'
<1> USE DEF TypeOK, InstallStaysInPlace, HoldsOld
<1>1. ASSUME NEW p \in Pids, Staging(p) \/ ClearRetired(p) \/ Look(p) \/ MoveAsideFails(p) \/ CleanUp(p)
      PROVE  InstallStaysInPlace'
  <2>1. dest' = dest /\ installed' = installed /\ mishap' = mishap
    BY <1>1 DEF Staging, Begin, Download, Unpack, Stage, Discard, ClearRetired, Look, MoveAsideFails,
      CleanUp, dirs, history
  <2>2. at[p] \notin {"moved", "restoring"} /\ \A q \in Pids \ {p} : at'[q] = at[q]
    BY <1>1 DEF Staging, Begin, Download, Unpack, Stage, Discard, ClearRetired, Look, MoveAsideFails,
      CleanUp, End, To
  <2> QED BY <2>1, <2>2
<1>2. ASSUME NEW p \in Pids, MoveAside(p) PROVE InstallStaysInPlace'
  BY <1>2 DEF MoveAside, To
<1>3. ASSUME NEW p \in Pids, Commit(p) PROVE InstallStaysInPlace'
  BY <1>3 DEF Commit, SwapHasBridges, Ready
<1>4. ASSUME NEW p \in Pids, CommitFails(p) PROVE InstallStaysInPlace'
  BY <1>4 DEF CommitFails, End, To, history
<1>5. ASSUME NEW p \in Pids, Restore(p) PROVE InstallStaysInPlace'
  <2>1. HasBridge(dest') \/ mishap' \/ HasBridge(dest)
    BY <1>5 DEF Restore, SwapHasBridges
  <2>2. HasBridge(dest) => HasBridge(dest')
    BY <1>5, EmptyDirectory DEF Restore
  <2> QED BY <2>1, <2>2
<1>6. ASSUME NEW p \in Pids, Crash(p) PROVE InstallStaysInPlace'
  BY <1>6 DEF Crash, End, To, dirs
<1>7. ASSUME NEW c \in Clients, Client(c) PROVE InstallStaysInPlace'
  BY <1>7 DEF Client, Resolve, Preflight, Spawn, dirs, history
<1>8. CASE UNCHANGED vars
  BY <1>8 DEF vars, dirs, history
<1> QED BY <1>1, <1>2, <1>3, <1>4, <1>5, <1>6, <1>7, <1>8 DEF Next, Installer, Staging

\* What preflight read holds until the install is moved.
LEMMA CheckedStep ==
  ASSUME TypeOK, PinnedInstallIsWhole, CheckedIsAccepted, [Next]_vars
  PROVE  CheckedIsAccepted'
<1> USE DEF TypeOK, CheckedIsAccepted
<1>1. ASSUME NEW p \in Pids, Staging(p) \/ ClearRetired(p) \/ Look(p) \/ MoveAsideFails(p) \/ CleanUp(p)
                             \/ CommitFails(p) \/ Crash(p)
      PROVE  CheckedIsAccepted'
  <2>1. dest' = dest /\ launch' = launch /\ stirred' = stirred /\ (waived => waived')
    BY <1>1 DEF Staging, Begin, Download, Unpack, Stage, Discard, ClearRetired, Look, MoveAsideFails,
      CleanUp, CommitFails, Crash, dirs, history
  <2> QED BY <2>1
<1>2. ASSUME NEW p \in Pids, MoveAside(p) \/ Commit(p) PROVE CheckedIsAccepted'
  BY <1>2 DEF MoveAside, Commit, Stir
<1>3. ASSUME NEW p \in Pids, Restore(p) PROVE CheckedIsAccepted'
  BY <1>3 DEF Restore, Stir
<1>4. ASSUME NEW c \in Clients, Preflight(c) PROVE CheckedIsAccepted'
  <2>1. ASSUME ~waived, Accepted(dest["manifest"]) PROVE dest["bin"] \in Supported \cup {NoFile}
    <3>1. CASE dest = Empty
      BY <3>1, EmptyDirectory
    <3>2. CASE IsPinned(dest)
      <4>1. dest["manifest"] = dest["bin"] /\ dest["bin"] \in Pinned
        BY <3>2, PinnedDirectory
      <4> QED BY <4>1, <2>1, InstallAssumption DEF Accepted
    <3> QED BY <2>1, <3>1, <3>2 DEF PinnedInstallIsWhole
  <2>2. dest' = dest /\ waived' = waived /\ stirred' = stirred
    BY <1>4 DEF Preflight, dirs, history
  <2>3. launch'[c] = "checked" => Accepted(dest["manifest"])
    BY <1>4 DEF Preflight, Go
  <2>4. \A d \in Clients \ {c} : launch'[d] = launch[d]
    BY <1>4 DEF Preflight, Go
  <2> QED BY <2>1, <2>2, <2>3, <2>4
<1>5. ASSUME NEW c \in Clients, Resolve(c) \/ Spawn(c) PROVE CheckedIsAccepted'
  BY <1>5 DEF Resolve, Spawn, Go, dirs, history
<1>6. CASE UNCHANGED vars
  BY <1>6 DEF vars, dirs, history
<1> QED BY <1>1, <1>2, <1>3, <1>4, <1>5, <1>6 DEF Next, Installer, Client, Staging

LEMMA StepIInv == IInv /\ [Next]_vars => IInv'
<1> SUFFICES ASSUME IInv, [Next]_vars PROVE IInv'
  OBVIOUS
<1> USE DEF IInv, Safe, Inv
<1>1. TypeOK' /\ AskedWhileRunning'
  BY TypeStep, AskedStep
<1>2. VerifiedStaging' /\ CleanStaging' /\ SwapHasBridges'
  BY VerifiedStep, SwapStep
<1>3. NothingUnverified' /\ PinnedInstallIsWhole'
  BY WholeStep
<1>4. RemovalIsSafe' /\ PreviousInstallRecoverable'
  BY KeptStep
<1>5. InstallStaysInPlace' /\ CheckedIsAccepted'
  BY StaysStep, CheckedStep
<1> QED BY <1>1, <1>2, <1>3, <1>4, <1>5

LEMMA Invariance == Spec => []IInv
BY InitIInv, StepIInv, PTL DEF Spec

\* The types, and what every installer has in its directories at each of its steps
\* (install, swap_into_place).
THEOREM InstallInvariant == Spec => []Inv
<1>1. IInv => Inv
  BY DEF IInv, Safe
<1> QED BY <1>1, Invariance, PTL

\* What is put into place is what was asked for (install, extract), and an install
\* nobody waived the checksum for has all of one release, and nothing else unless a
\* removal has failed (swap_into_place).
THEOREM VerifiedInstall == Spec => []VerifiedStaging /\ []PinnedInstallIsWhole
<1>1. IInv => VerifiedStaging /\ PinnedInstallIsWhole
  BY DEF IInv, Safe, Inv
<1> QED BY <1>1, Invariance, PTL

\* The old install is recoverable until the new one is in place, whatever fails and
\* whoever dies, except for a later process of a dead one's id (swap_into_place).
THEOREM OldInstallKept == Spec => []PreviousInstallRecoverable
<1>1. IInv => PreviousInstallRecoverable
  BY DEF IInv, Safe
<1> QED BY <1>1, Invariance, PTL

\* Any number of installers leave an install in place when none is between its
\* renames (swap_into_place).
THEOREM InstallersLeaveInstall == Spec => []InstallStaysInPlace
<1>1. IInv => InstallStaysInPlace
  BY DEF IInv, Safe
<1> QED BY <1>1, Invariance, PTL

\* What preflight accepted is what is spawned, unless the check was skipped or the
\* install was changed in between (Bridge::spawn, preflight).
THEOREM SpawnIsVouchedFor == Spec => PreflightVouches
<1>1. IInv => [\A c \in Clients : Spawn(c) /\ launch[c] = "checked" /\ c \notin stirred /\ ~waived
                 => dest["bin"] \in Supported \cup {NoFile}]_vars
  BY DEF IInv, CheckedIsAccepted, Spawn
<1> QED BY <1>1, Invariance, PTL DEF PreflightVouches
------------------------------------------------------------------------------
(* The register. *)

\* A step of an installer changes what that one has and is to do.
LEMMA OnlyItsOwn ==
  ASSUME TypeOK, NEW p \in Pids, Installer(p)
  PROVE  /\ Taken' = [Taken EXCEPT ![p] = IF at'[p] \in {"moved", "restoring"} THEN retired'[p] ELSE Empty]
         /\ Asked' = [Asked EXCEPT ![p] = IF at'[p] = "cleaning" THEN NoFile ELSE want'[p]]
<1>1. \A q \in Pids \ {p} : at'[q] = at[q] /\ want'[q] = want[q] /\ retired'[q] = retired[q]
  <2> USE DEF TypeOK, End, To, dirs
  <2>1. CASE Begin(p) \/ Download(p) \/ Unpack(p) \/ Stage(p) \/ Discard(p)
    BY <2>1 DEF Begin, Download, Unpack, Stage, Discard
  <2>2. CASE ClearRetired(p) \/ Look(p) \/ MoveAside(p) \/ MoveAsideFails(p) \/ Commit(p)
    BY <2>2 DEF ClearRetired, Look, MoveAside, MoveAsideFails, Commit
  <2>3. CASE CommitFails(p) \/ Restore(p) \/ CleanUp(p) \/ Crash(p)
    BY <2>3 DEF CommitFails, Restore, CleanUp, Crash
  <2> QED BY <2>1, <2>2, <2>3 DEF Installer
<1>2. Taken' = [Taken EXCEPT ![p] = IF at'[p] \in {"moved", "restoring"} THEN retired'[p] ELSE Empty]
  BY <1>1 DEF Taken, HoldsOld
<1>3. Asked' = [Asked EXCEPT ![p] = IF at'[p] = "cleaning" THEN NoFile ELSE want'[p]]
  BY <1>1 DEF Asked
<1> QED BY <1>2, <1>3

\* A step that leaves an installer what it has and is to do leaves the register.
LEMMA RegisterStays ==
  ASSUME TypeOK, NEW p \in Pids, Installer(p),
         (IF at'[p] \in {"moved", "restoring"} THEN retired'[p] ELSE Empty) = Taken[p],
         (IF at'[p] = "cleaning" THEN NoFile ELSE want'[p]) = Asked[p],
         UNCHANGED <<dest, waived, mishap>>
  PROVE  UNCHANGED Register!registerVars
<1>1. Taken' = [Taken EXCEPT ![p] = Taken[p]] /\ Asked' = [Asked EXCEPT ![p] = Asked[p]]
  BY OnlyItsOwn
<1>2. Taken' = Taken /\ Asked' = Asked
  BY <1>1 DEF Taken, Asked
<1> QED BY <1>2 DEF Register!registerVars

\* A step by which an installer is done, with what it was asked for or without.
LEMMA RegisterDone ==
  ASSUME TypeOK, NEW p \in Pids, Installer(p), Asked[p] # NoFile, UNCHANGED waived,
         at'[p] = "cleaning" \/ (at'[p] = "idle" /\ want'[p] = NoFile),
         Register!Put(p) \/ Register!GiveBack(p) \/ Register!GiveUp(p)
  PROVE  Register!Finish(p)
<1>1. Taken' = [Taken EXCEPT ![p] = Empty] /\ Asked' = [Asked EXCEPT ![p] = NoFile]
  BY OnlyItsOwn
<1> QED BY <1>1 DEF Register!Finish

\* Each action is one step of the register, or none.
LEMMA RegisterStep ==
  IInv /\ [Next]_vars => [Register!Next]_(Register!registerVars)
<1> SUFFICES ASSUME IInv, [Next]_vars PROVE [Register!Next]_(Register!registerVars)
  OBVIOUS
<1>t. TypeOK /\ AskedWhileRunning /\ VerifiedStaging /\ SwapHasBridges
  BY DEF IInv, Safe, Inv
<1>v. \A p \in Pids :
        /\ Taken[p] = (IF HoldsOld(p) THEN retired[p] ELSE Empty)
        /\ Asked[p] = (IF at[p] = "cleaning" THEN NoFile ELSE want[p])
  BY DEF Taken, Asked
<1>b. \A p \in Pids : at[p] \in Steps /\ (at[p] \notin {"idle", "cleaning"} => Asked[p] # NoFile)
  BY <1>t, <1>v DEF TypeOK, AskedWhileRunning
<1>h. \A p \in Pids : HoldsOld(p) => Taken[p] # Empty
  BY <1>t, <1>v, EmptyDirectory DEF SwapHasBridges
\* It is asked.
<1>1. ASSUME NEW p \in Pids, Begin(p) PROVE Register!Ask(p)
  <2>1. PICK r \in Releases : want' = [want EXCEPT ![p] = r] /\ waived' = (waived \/ r \notin Pinned)
    BY <1>1 DEF Begin
  <2>2. at[p] = "idle" /\ at'[p] = "downloading" /\ want'[p] = r /\ UNCHANGED <<dest, mishap>>
    BY <1>1, <1>t, <2>1 DEF Begin, To, TypeOK
  <2>3. Asked[p] = NoFile /\ Taken[p] = Empty
    BY <1>t, <1>v, <2>2 DEF AskedWhileRunning, HoldsOld
  <2>4. Taken' = [Taken EXCEPT ![p] = Empty] /\ Asked' = [Asked EXCEPT ![p] = r]
    BY <1>1, <1>t, <2>2, OnlyItsOwn DEF Installer
  <2>5. Taken' = Taken /\ Asked'[p] = r
    BY <2>3, <2>4 DEF Taken, Asked
  <2> QED BY <2>1, <2>2, <2>3, <2>4, <2>5 DEF Register!Ask
\* What changes no more than its own directories, or its step.
<1>2. ASSUME NEW p \in Pids, Download(p) \/ Unpack(p) \/ Stage(p) \/ ClearRetired(p) \/ Look(p)
      PROVE  UNCHANGED Register!registerVars
  <2>1. /\ ~HoldsOld(p) /\ at[p] # "cleaning" /\ at'[p] \notin {"moved", "restoring", "cleaning"}
        /\ want'[p] = want[p] /\ UNCHANGED <<dest, waived, mishap>>
    BY <1>2, <1>t DEF Download, Unpack, Stage, ClearRetired, Look, HoldsOld, To, TypeOK, history, dirs
  <2> QED BY <1>2, <1>t, <1>v, <2>1, RegisterStays DEF Installer
<1>3. ASSUME NEW p \in Pids, MoveAside(p) PROVE Register!Take(p)
  <2>1. /\ at[p] = "moving" /\ at'[p] = "moved" /\ retired'[p] = dest /\ want' = want
        /\ dest # Empty /\ dest' = Empty /\ UNCHANGED <<waived, mishap>>
    BY <1>3, <1>t DEF MoveAside, To, TypeOK
  <2>2. Taken' = [Taken EXCEPT ![p] = dest] /\ Asked' = [Asked EXCEPT ![p] = Asked[p]]
    BY <1>3, <1>t, <1>v, <2>1, OnlyItsOwn DEF Installer
  <2>3. Asked' = Asked
    BY <2>2 DEF Asked
  <2>4. Asked[p] # NoFile /\ Taken[p] = Empty
    BY <1>b, <1>v, <2>1 DEF HoldsOld
  <2> QED BY <2>1, <2>2, <2>3, <2>4 DEF Register!Take
\* The new tree is put in: the one that was asked for, if that has a checksum.
<1>4. ASSUME NEW p \in Pids, Commit(p) PROVE Register!Finish(p)
  <2>1. /\ at[p] \in {"moved", "placing"} /\ at'[p] = "cleaning" /\ dest = Empty /\ dest' = staging[p]
        /\ UNCHANGED <<waived, mishap>>
    BY <1>4, <1>t DEF Commit, To, TypeOK
  <2>2. staging[p] \in Directory /\ HasBridge(staging[p])
    BY <1>t, <2>1 DEF TypeOK, SwapHasBridges, Ready
  <2>3. want[p] \in Pinned => staging[p] \in ReleaseTrees[want[p]]
    BY <1>t, <2>1, <2>2, InstallAssumption DEF VerifiedStaging, IsInstall, ReleaseTrees, Ready
  <2>4. Asked[p] = want[p]
    BY <1>v, <2>1
  <2>5. Register!Put(p)
    BY <2>1, <2>2, <2>3, <2>4 DEF BridgeTrees, Register!Put
  <2> QED BY <1>4, <1>t, <1>b, <2>1, <2>5, RegisterDone DEF Installer
\* It has nothing and gives up.
<1>5. ASSUME NEW p \in Pids, Discard(p) \/ MoveAsideFails(p) \/ (CommitFails(p) /\ at[p] = "placing")
      PROVE  Register!Finish(p)
  <2>1. /\ ~HoldsOld(p) /\ at[p] \notin {"idle", "cleaning"} /\ at'[p] = "idle" /\ want'[p] = NoFile
        /\ UNCHANGED <<dest, waived, mishap>>
    BY <1>5, <1>t DEF Discard, MoveAsideFails, CommitFails, HoldsOld, End, To, TypeOK, history, dirs
  <2>2. Register!GiveUp(p)
    BY <1>v, <2>1 DEF Register!GiveUp
  <2> QED BY <1>5, <1>t, <1>b, <2>1, <2>2, RegisterDone DEF Installer
<1>6. ASSUME NEW p \in Pids, CommitFails(p) /\ at[p] # "placing" PROVE UNCHANGED Register!registerVars
  <2>1. /\ at[p] = "moved" /\ at'[p] = "restoring" /\ want' = want /\ retired' = retired
        /\ UNCHANGED <<dest, waived, mishap>>
    BY <1>6, <1>t DEF CommitFails, To, TypeOK, history
  <2> QED BY <1>6, <1>t, <1>v, <2>1, RegisterStays DEF Installer, HoldsOld
\* What it took goes back, or stays aside.
<1>7. ASSUME NEW p \in Pids, Restore(p) PROVE Register!Finish(p)
  <2>1. at[p] = "restoring" /\ at'[p] = "idle" /\ want'[p] = NoFile /\ UNCHANGED waived
    BY <1>7, <1>t DEF Restore, End, To, TypeOK
  <2>2. HoldsOld(p) /\ Taken[p] = retired[p]
    BY <1>v, <2>1 DEF HoldsOld
  <2>3. CASE dest = Empty /\ dest' = retired[p] /\ UNCHANGED mishap
    <3>1. Register!GiveBack(p)
      BY <1>h, <2>2, <2>3 DEF Register!GiveBack
    <3> QED BY <1>7, <1>t, <1>b, <2>1, <3>1, RegisterDone DEF Installer
  <2>4. CASE mishap' = (mishap \/ dest = Empty) /\ UNCHANGED dest
    <3>1. IF dest = Empty THEN mishap' = TRUE ELSE mishap' = mishap
      BY <1>t, <2>4 DEF TypeOK
    <3>2. Register!GiveUp(p)
      BY <1>h, <2>2, <2>4, <3>1 DEF Register!GiveUp
    <3> QED BY <1>7, <1>t, <1>b, <2>1, <3>2, RegisterDone DEF Installer
  <2> QED BY <1>7, <2>3, <2>4 DEF Restore
<1>8. ASSUME NEW p \in Pids, CleanUp(p) \/ (Crash(p) /\ at[p] = "cleaning")
      PROVE  UNCHANGED Register!registerVars
  <2>1. /\ at[p] = "cleaning" /\ at'[p] = "idle" /\ want'[p] = NoFile /\ UNCHANGED <<dest, waived>>
    BY <1>8, <1>t DEF CleanUp, Crash, End, To, TypeOK, history, dirs
  <2>2. UNCHANGED mishap
    BY <1>8, <1>t, <2>1 DEF CleanUp, Crash, HoldsOld, TypeOK, history
  <2> QED BY <1>8, <1>t, <1>v, <2>1, <2>2, RegisterStays DEF Installer, HoldsOld
\* It dies, with what it took.
<1>9. ASSUME NEW p \in Pids, Crash(p) /\ at[p] # "cleaning" PROVE Register!Finish(p)
  <2>1. /\ at[p] # "idle" /\ at'[p] = "idle" /\ want'[p] = NoFile /\ UNCHANGED <<dest, waived>>
    BY <1>9, <1>t DEF Crash, End, To, TypeOK, dirs
  <2>2. IF HoldsOld(p) THEN mishap' = TRUE ELSE mishap' = mishap
    BY <1>9, <1>t DEF Crash, TypeOK
  <2>3. Register!GiveUp(p)
    BY <1>v, <1>h, <2>1, <2>2 DEF Register!GiveUp
  <2> QED BY <1>9, <1>t, <1>b, <2>1, <2>3, RegisterDone DEF Installer
<1>10. CASE (\E c \in Clients : Client(c)) \/ UNCHANGED vars
  <2>1. UNCHANGED <<dest, retired, at, want, waived, mishap>>
    BY <1>10 DEF Client, Resolve, Preflight, Spawn, vars, dirs, history
  <2>2. Taken' = Taken /\ Asked' = Asked
    BY <2>1 DEF Taken, Asked, HoldsOld
  <2> QED BY <2>1, <2>2 DEF Register!registerVars
<1> QED BY <1>1, <1>2, <1>3, <1>4, <1>5, <1>6, <1>7, <1>8, <1>9, <1>10
        DEF Next, Installer, Register!Next

\* The install directory is a register to whoever looks at it: what is put in is one
\* whole tree, into a gap, and what was taken out is given back or the loss is known
\* (install, swap_into_place).
THEOREM ImplementsRegister == Spec => InstallRegisterSpec
<1>1. Init => Register!Init
  <2> SUFFICES ASSUME Init PROVE Register!Init
    OBVIOUS
  <2>1. Taken = [p \in Pids |-> Empty] /\ Asked = [p \in Pids |-> NoFile]
    BY DEF Init, Taken, Asked, HoldsOld
  <2>2. dest \in {Empty} \cup UNION {ReleaseTrees[v] : v \in Pinned}
    <3>1. \A r \in Pinned : Whole(r) \in ReleaseTrees[r]
      BY WholeDirectory, InstallAssumption DEF ReleaseTrees
    <3> QED BY <3>1 DEF Init
  <2> QED BY <2>1, <2>2 DEF Init, Register!Init
<1> QED BY <1>1, RegisterStep, Invariance, PTL DEF Spec, InstallRegisterSpec, Register!Spec
==============================================================================
