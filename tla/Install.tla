------------------------------- MODULE Install -------------------------------
(***************************************************************************)
(* The installation of the bridge binary (bridge-fetch/src/main.rs:        *)
(* install, download, extract, swap_into_place) while other installers run,*)
(* die and start again, and clients look for the binary, check its manifest*)
(* and spawn it (src/src/bridge.rs: resolve_binary, spawn;                 *)
(* src/src/manifest.rs: preflight).                                        *)
(*                                                                         *)
(* An installer downloads into a staging directory, checks the checksum,   *)
(* unpacks there, moves the old install aside and its own into place; the  *)
(* staging and the retired directory are named for its process id, and a   *)
(* later process may have the id of a dead one.  A directory is the release*)
(* each of its files is from; one without files is like none.  Releases do *)
(* not all have the same files, and what is unpacked goes over what a      *)
(* removal has left.  Renames are those of Unix: atomic, and refused onto a*)
(* directory with files.                                                   *)
(***************************************************************************)
EXTENDS Naturals

CONSTANTS
  Releases,    \* what can be asked for with --version, and be downloaded
  Pinned,      \* those with a checksum for this platform in PINNED; what is in the
               \* archives of the others is not known
  Larger,      \* of those, the ones with a file the others do not have
  Supported,   \* those whose manifest the client's preflight accepts
  NoFile,      \* in place of a file that is not there
  Pids,        \* process ids of installers
  Clients,     \* programs that launch the installed binary
  MaxRuns,     \* bound: installers started
  MaxFailures  \* bound: removals that fail

ASSUME InstallAssumption ==
  /\ Pinned \subseteq Releases /\ Larger \subseteq Pinned
  /\ NoFile \notin Releases
  /\ MaxRuns \in Nat /\ MaxFailures \in Nat

VARIABLES
  dest,       \* the install root
  staging,    \* of each process id, its staging directory
  retired,    \* of each process id, where it moves the old install
  at,         \* where the installer of each process id is; "idle": there is none
  want,       \* the release it installs; NoFile when there is none
  launch,     \* where each client is
  runs,       \* installers started
  failures,   \* removals that left something: they failed, or their process died
  installed,  \* history: there has been an install
  waived,     \* history: a run had --allow-unpinned and needed it
  mishap,     \* history: an installer died, or an operation on the disk failed
  cleared,    \* history: a run removed the install a dead one had moved aside
  stirred     \* history: clients that are past preflight and had dest changed since

dirs == <<dest, staging, retired>>
history == <<installed, waived, mishap, cleared, stirred>>
vars == <<dirs, at, want, launch, runs, failures, history>>

Names == {"archive", "manifest", "bin", "extra"}
Directory == [Names -> Releases \cup {NoFile}]
Empty == [n \in Names |-> NoFile]
HasBridge(dir) == dir["bin"] # NoFile

\* What a release with a checksum consists of, and nothing else ...
Files(r) == {"manifest", "bin"} \cup (IF r \in Larger THEN {"extra"} ELSE {})
Whole(r) == [n \in Names |-> IF n \in Files(r) THEN r ELSE NoFile]

\* ... or with other files next to it.
Holds(dir, r) == \A n \in Files(r) : dir[n] = r

\* remove_dir_all, whose errors are ignored, may leave any of the files; so does a
\* process that is killed in it.
Present(dir) == {n \in Names : dir[n] # NoFile}
Remains(dir) ==
  {[n \in Names |-> IF n \in left THEN dir[n] ELSE NoFile] : left \in SUBSET Present(dir)}

RemovalFails == failures < MaxFailures /\ failures' = failures + 1
Removal(left) ==
  \/ left = Empty /\ UNCHANGED failures
  \/ left # Empty /\ RemovalFails

Steps == {"idle", "downloading", "extracting", "staged", "swapping",
          "moving", "moved", "placing", "restoring", "cleaning"}

TypeOK ==
  /\ dest \in Directory
  /\ staging \in [Pids -> Directory]
  /\ retired \in [Pids -> Directory]
  /\ at \in [Pids -> Steps]
  /\ want \in [Pids -> Releases \cup {NoFile}]
  /\ launch \in [Clients -> {"idle", "resolved", "checked", "unchecked"}]
  /\ runs \in 0..MaxRuns /\ failures \in 0..MaxFailures
  /\ installed \in BOOLEAN /\ waived \in BOOLEAN
  /\ mishap \in BOOLEAN /\ cleared \in BOOLEAN
  /\ stirred \in SUBSET Clients

Init ==
  /\ dest \in {Empty} \cup {Whole(r) : r \in Pinned}
  /\ staging = [p \in Pids |-> Empty] /\ retired = [p \in Pids |-> Empty]
  /\ at = [p \in Pids |-> "idle"]
  /\ want = [p \in Pids |-> NoFile]
  /\ launch = [c \in Clients |-> "idle"]
  /\ runs = 0 /\ failures = 0
  /\ installed = HasBridge(dest)
  /\ waived = FALSE /\ mishap = FALSE /\ cleared = FALSE /\ stirred = {}

HoldsOld(p) == at[p] \in {"moved", "restoring"}
To(p, step) == at' = [at EXCEPT ![p] = step]
End(p) == To(p, "idle") /\ want' = [want EXCEPT ![p] = NoFile]
Stir == stirred' = stirred \cup {c \in Clients : launch[c] = "checked"}
------------------------------------------------------------------------------
(* An installer, in its own staging directory. *)

\* mutant: what is in the staging directory is left there
Begin_Reuses(p) ==
  /\ at[p] = "idle"
  /\ runs < MaxRuns
  /\ runs' = runs + 1
  /\ \E r \in Releases :
       /\ want' = [want EXCEPT ![p] = r]
       /\ waived' = (waived \/ r \notin Pinned)
  /\ To(p, "downloading")
  /\ UNCHANGED <<dest, staging, retired, launch, failures, installed, mishap, cleared, stirred>>

\* A run that finds the executable in place, and has no --force, ends before this;
\* a release without a checksum needs --allow-unpinned.  What an earlier process of
\* this id left in the staging directory is removed.
Begin(p) ==
  /\ at[p] = "idle"
  /\ runs < MaxRuns
  /\ runs' = runs + 1
  /\ \E r \in Releases :
       /\ want' = [want EXCEPT ![p] = r]
       /\ waived' = (waived \/ r \notin Pinned)
  /\ \E left \in Remains(staging[p]) : Removal(left) /\ staging' = [staging EXCEPT ![p] = left]
  /\ To(p, "downloading")
  /\ UNCHANGED <<dest, retired, launch, installed, mishap, cleared, stirred>>

\* mutant: any digest in the table will do
ChecksumMatches_Listed(p, b) == want[p] \in Pinned => b \in Pinned

\* The digest of the bytes is that of the release asked for, unless there is none
\* to compare.
ChecksumMatches(p, b) == want[p] \in Pinned => b = want[p]

\* The whole body is on disk, and the digest of what was written is right.
Download(p) ==
  /\ at[p] = "downloading"
  /\ \E b \in Releases :
       /\ ChecksumMatches(p, b)
       /\ staging' = [staging EXCEPT ![p]["archive"] = b]
  /\ To(p, "extracting")
  /\ UNCHANGED <<dest, retired, want, launch, runs, failures, history>>

\* What may be in an archive.
Entries(b) == IF b \in Pinned THEN Files(b) ELSE Names \ {"archive"}

\* One entry of the archive is unpacked over what is there.
Unpack(p) ==
  /\ at[p] = "extracting"
  /\ \E n \in Entries(staging[p]["archive"]) :
       staging' = [staging EXCEPT ![p][n] = staging[p]["archive"]]
  /\ UNCHANGED <<dest, retired, at, want, launch, runs, failures, history>>

\* All entries are unpacked, and the executable is among the files.
Complete(p) ==
  /\ HasBridge(staging[p])
  /\ staging[p]["archive"] \in Pinned => Holds(staging[p], staging[p]["archive"])

\* The archive is removed, if that can be done, and the executable made one.
Stage(p) ==
  /\ at[p] = "extracting"
  /\ Complete(p)
  /\ \/ staging' = [staging EXCEPT ![p]["archive"] = NoFile] /\ UNCHANGED failures
     \/ UNCHANGED staging /\ RemovalFails
  /\ To(p, "staged")
  /\ UNCHANGED <<dest, retired, want, launch, runs, history>>

\* The download, the checksum, an entry, a check fails: staging is removed and the error returned.
Discard(p) ==
  /\ at[p] \in {"downloading", "extracting"}
  /\ \E left \in Remains(staging[p]) : Removal(left) /\ staging' = [staging EXCEPT ![p] = left]
  /\ End(p)
  /\ UNCHANGED <<dest, retired, launch, runs, history>>
------------------------------------------------------------------------------
(* swap_into_place. *)

\* What an earlier process of this id moved aside is removed ...
ClearRetired(p) ==
  /\ at[p] = "staged"
  /\ \E left \in Remains(retired[p]) :
       /\ Removal(left)
       /\ retired' = [retired EXCEPT ![p] = left]
       /\ cleared' = (cleared \/ (HasBridge(retired[p]) /\ ~HasBridge(left)))
  /\ To(p, "swapping")
  /\ UNCHANGED <<dest, staging, want, launch, runs, installed, waived, mishap, stirred>>

\* ... and `dest.exists()` says whether there is an install to move aside.
Look(p) ==
  /\ at[p] = "swapping"
  /\ To(p, IF dest = Empty THEN "placing" ELSE "moving")
  /\ UNCHANGED <<dirs, want, launch, runs, failures, history>>

MoveAside(p) ==
  /\ at[p] = "moving"
  /\ dest # Empty /\ retired[p] = Empty
  /\ retired' = [retired EXCEPT ![p] = dest]
  /\ dest' = Empty
  /\ Stir
  /\ To(p, "moved")
  /\ UNCHANGED <<staging, want, launch, runs, failures, installed, waived, mishap, cleared>>

\* Another installer was faster, or the rename is refused: the error leaves the
\* staging directory behind.
MoveAsideFails(p) ==
  /\ at[p] = "moving"
  /\ End(p)
  /\ UNCHANGED <<dirs, launch, runs, failures, history>>

\* The staged tree becomes the install.
Commit(p) ==
  /\ at[p] \in {"moved", "placing"}
  /\ dest = Empty
  /\ dest' = staging[p]
  /\ staging' = [staging EXCEPT ![p] = Empty]
  /\ installed' = TRUE
  /\ Stir
  /\ To(p, "cleaning")
  /\ UNCHANGED <<retired, want, launch, runs, failures, waived, mishap, cleared>>

\* mutant: the old install is removed on the way out of a failed move too
CommitFails_Clean(p) ==
  /\ at[p] \in {"moved", "placing"}
  /\ To(p, "cleaning")
  /\ UNCHANGED <<dirs, want, launch, runs, failures, history>>

\* mutant: a failed move returns at once, as the other two renames do
CommitFails_Return(p) ==
  /\ at[p] \in {"moved", "placing"}
  /\ End(p)
  /\ UNCHANGED <<dirs, launch, runs, failures, history>>

\* There is an install again, or the rename is refused: an old install that was
\* moved aside is put back, and staging is removed.
CommitFails(p) ==
  /\ \/ /\ at[p] = "moved"
        /\ To(p, "restoring")
        /\ UNCHANGED <<staging, want, failures>>
     \/ /\ at[p] = "placing"
        /\ End(p)
        /\ \E left \in Remains(staging[p]) : Removal(left) /\ staging' = [staging EXCEPT ![p] = left]
  /\ UNCHANGED <<dest, retired, launch, runs, history>>

Restore(p) ==
  /\ at[p] = "restoring"
  /\ \/ /\ dest = Empty
        /\ dest' = retired[p]
        /\ retired' = [retired EXCEPT ![p] = Empty]
        /\ Stir
        /\ UNCHANGED mishap
     \/ /\ mishap' = (mishap \/ dest = Empty)
        /\ UNCHANGED <<dest, retired, stirred>>
  /\ \E left \in Remains(staging[p]) : Removal(left) /\ staging' = [staging EXCEPT ![p] = left]
  /\ End(p)
  /\ UNCHANGED <<launch, runs, installed, waived, cleared>>

\* The old install is removed, if that can be done.
CleanUp(p) ==
  /\ at[p] = "cleaning"
  /\ \E left \in Remains(retired[p]) : Removal(left) /\ retired' = [retired EXCEPT ![p] = left]
  /\ End(p)
  /\ UNCHANGED <<dest, staging, launch, runs, history>>

\* The process is killed; what it wrote stays.
Crash(p) ==
  /\ at[p] # "idle"
  /\ mishap' = (mishap \/ HoldsOld(p))
  /\ End(p)
  /\ UNCHANGED <<dirs, launch, runs, failures, installed, waived, cleared, stirred>>
------------------------------------------------------------------------------
(* A client that launches the bridge. *)

Go(c, step) == launch' = [launch EXCEPT ![c] = step]

\* resolve_binary comes to the per-user directory and finds the executable.
Resolve(c) ==
  /\ launch[c] = "idle"
  /\ HasBridge(dest)
  /\ Go(c, "resolved")
  /\ UNCHANGED <<dirs, at, want, runs, failures, history>>

\* mutant: a manifest that names another protocol is no reason to stop
Accepted_All(manifest) == TRUE

\* No manifest is as good as one that fits.
Accepted(manifest) == manifest \in Supported \cup {NoFile}

\* CURSOR_SDK_BRIDGE_SKIP_MANIFEST_CHECK=1 in the environment of the client skips
\* the check.
Preflight(c) ==
  /\ launch[c] = "resolved"
  /\ \/ Go(c, IF Accepted(dest["manifest"]) THEN "checked" ELSE "idle")
     \/ Go(c, "unchecked")
  /\ UNCHANGED <<dirs, at, want, runs, failures, history>>

\* Command::spawn looks the path up again; there may be nothing by now.
Spawn(c) ==
  /\ launch[c] \in {"checked", "unchecked"}
  /\ Go(c, "idle")
  /\ stirred' = stirred \ {c}
  /\ UNCHANGED <<dirs, at, want, runs, failures, installed, waived, mishap, cleared>>
------------------------------------------------------------------------------
Installer(p) ==
  \/ Begin(p) \/ Download(p) \/ Unpack(p) \/ Stage(p) \/ Discard(p)
  \/ ClearRetired(p) \/ Look(p) \/ MoveAside(p) \/ MoveAsideFails(p)
  \/ Commit(p) \/ CommitFails(p) \/ Restore(p) \/ CleanUp(p) \/ Crash(p)

Client(c) == Resolve(c) \/ Preflight(c) \/ Spawn(c)

Next == (\E p \in Pids : Installer(p)) \/ (\E c \in Clients : Client(c))

Spec == Init /\ [][Next]_vars
------------------------------------------------------------------------------
(* Properties. *)

Ready(p) == at[p] \in {"staged", "swapping", "moving", "moved", "placing"}

\* The tree of a release is in the directory, with nothing else unless a removal of
\* some installer has failed.
IsInstall(dir, r) == Holds(dir, r) /\ (failures = 0 => dir = Whole(r))
IsPinned(dir) == \E r \in Pinned : IsInstall(dir, r)

\* What an installer puts into place has every file of the release it was asked for,
\* when that has a checksum, whatever was downloaded and whatever a dead installer
\* left in the directory (install, "the download was discarded").  Other files are
\* next to them only if some removal has failed.
VerifiedStaging ==
  \A p \in Pids : want[p] \in Pinned =>
    /\ at[p] = "extracting" => staging[p]["archive"] = want[p]
    /\ Ready(p) => IsInstall(staging[p], want[p])

\* Until it is staged, a directory has only what this installer wrote.
CleanStaging ==
  failures = 0 => \A p \in Pids :
    /\ at[p] = "downloading" => staging[p] = Empty
    /\ at[p] = "extracting" /\ want[p] \in Pinned =>
         \A n \in Names \ Files(want[p]) : n # "archive" => staging[p][n] = NoFile

\* An install that nobody waived the checksum for has all the files of one release
\* with a checksum, whoever is installing, dying or putting back what was there, and
\* whatever could not be removed before (swap_into_place, "so the final move is a
\* rename on the same filesystem, not a copy that can half-finish").  If every
\* removal has succeeded it has no other file, none of a dead installer either.
PinnedInstallIsWhole == ~waived => dest = Empty \/ IsPinned(dest)

Kept == HasBridge(dest) \/ \E p \in Pids : HasBridge(retired[p])

\* swap_into_place, "keeping any previous install recoverable until the new one
\* is committed": once there was an install, a bridge is in place or aside at
\* every moment, over any deaths and failures of any number of installers, as
\* long as no process with the id of a dead one has cleared what that one moved
\* aside.
PreviousInstallRecoverable == installed /\ ~cleared => Kept

\* Installers that meet do not undo each other: once there was an install, there
\* is one in place whenever no installer is between its renames, unless one died
\* there or could not put the old one back (swap_into_place, the match on the
\* second rename).
InstallStaysInPlace ==
  installed /\ ~mishap => HasBridge(dest) \/ \E p \in Pids : HoldsOld(p)

\* The rest of the invariant that the steps keep: a bridge is there wherever the
\* swap is about to move one, an old install that may be put back is as good as the
\* one in place, and where an installer is about to remove the old install there
\* is a bridge that nobody is about to remove.
SwapHasBridges ==
  /\ dest = Empty \/ HasBridge(dest)
  /\ \A p \in Pids : (Ready(p) => HasBridge(staging[p])) /\ (HoldsOld(p) => HasBridge(retired[p]))

NothingUnverified ==
  ~waived => \A p \in Pids :
    /\ at[p] # "idle" => want[p] \in Pinned
    /\ HoldsOld(p) => IsPinned(retired[p])

RemovalIsSafe ==
  ~cleared => \A p \in Pids : at[p] = "cleaning" =>
    HasBridge(dest) \/ \E q \in Pids : at[q] # "cleaning" /\ HasBridge(retired[q])

\* A process that installs was asked for something.
AskedWhileRunning == \A p \in Pids : at[p] = "idle" <=> want[p] = NoFile

Inv ==
  /\ TypeOK /\ AskedWhileRunning /\ VerifiedStaging /\ CleanStaging
  /\ SwapHasBridges /\ NothingUnverified /\ RemovalIsSafe

\* An installer has what it moved aside, and what it was asked for is done when its
\* own tree is in place.
Taken == [p \in Pids |-> IF HoldsOld(p) THEN retired[p] ELSE Empty]
Asked == [p \in Pids |-> IF at[p] = "cleaning" THEN NoFile ELSE want[p]]

ReleaseTrees == [r \in Releases |-> {dir \in Directory : Holds(dir, r)}]
BridgeTrees == {dir \in Directory : HasBridge(dir)}

Register ==
  INSTANCE InstallRegister
    WITH Installers <- Pids, Versions <- Releases, Checked <- Pinned, NoVersion <- NoFile,
         Trees <- ReleaseTrees, Anything <- BridgeTrees,
         Nothing <- Empty, place <- dest, taken <- Taken, asked <- Asked, lost <- mishap

\* Whoever looks at the install directory sees the register InstallRegister
\* describes, however many installers write it, fail, die and start again: a tree
\* comes whole and into a gap only, and is the one this installer was asked for, or
\* the very one it took out (install, swap_into_place).
InstallRegisterSpec == Register!Spec

\* A client that was not told to skip the check runs a release its preflight would
\* refuse only when the install was changed between the preflight and the spawn,
\* which look at the path one after the other (bridge.rs Bridge::spawn, "Catch a wrong-platform or wrong-contract
\* binary here").
PreflightVouches ==
  [][\A c \in Clients : Spawn(c) /\ launch[c] = "checked" /\ c \notin stirred /\ ~waived
        => dest["bin"] \in Supported \cup {NoFile}]_vars
==============================================================================
