--------------------------- MODULE InstallRegister ---------------------------
(***************************************************************************)
(* The install directory as a register that installers write.  A version   *)
(* is there, or there is a gap; a writer takes out what is there, puts in  *)
(* the version it was asked for, once, and only into a gap.  A writer that *)
(* gives up gives back what it took, and if it cannot the gap is a loss.   *)
(***************************************************************************)
CONSTANTS
  Installers,
  Versions,    \* what can be asked for
  Checked,     \* those whose contents are known beforehand
  NoVersion,   \* nothing is asked for
  Trees,       \* of each version, the contents that have all of it
  Anything,    \* the contents of a version that is not checked
  Nothing      \* none

VARIABLES
  place,       \* what is in the register
  taken,       \* of each installer, what it took out and has not done with
  asked,       \* of each installer, the version it is to put in
  waived,      \* a version that is not checked was asked for
  lost         \* an installer may have lost what it took

registerVars == <<place, taken, asked, waived, lost>>

Init ==
  /\ place \in {Nothing} \cup UNION {Trees[v] : v \in Checked}
  /\ taken = [i \in Installers |-> Nothing]
  /\ asked = [i \in Installers |-> NoVersion]
  /\ waived = FALSE /\ lost = FALSE

Ask(i) ==
  /\ asked[i] = NoVersion /\ asked'[i] \in Versions
  /\ asked' = [asked EXCEPT ![i] = asked'[i]]
  /\ waived' = (waived \/ asked'[i] \notin Checked)
  /\ UNCHANGED <<place, taken, lost>>

Take(i) ==
  /\ asked[i] # NoVersion
  /\ place # Nothing /\ place' = Nothing
  /\ taken[i] = Nothing
  /\ taken' = [taken EXCEPT ![i] = place]
  /\ UNCHANGED <<asked, waived, lost>>

Put(i) ==
  /\ place = Nothing /\ place' \in Anything
  /\ asked[i] \in Checked => place' \in Trees[asked[i]]
  /\ UNCHANGED lost

GiveBack(i) ==
  /\ place = Nothing /\ place' = taken[i]
  /\ taken[i] # Nothing
  /\ UNCHANGED lost

GiveUp(i) ==
  /\ \/ UNCHANGED lost /\ (taken[i] = Nothing \/ place # Nothing)
     \/ taken[i] # Nothing /\ lost' = TRUE
  /\ UNCHANGED place

\* What it was asked for is done, or not, and it has nothing any more.
Finish(i) ==
  /\ asked[i] # NoVersion
  /\ asked' = [asked EXCEPT ![i] = NoVersion]
  /\ taken' = [taken EXCEPT ![i] = Nothing]
  /\ Put(i) \/ GiveBack(i) \/ GiveUp(i)
  /\ UNCHANGED waived

Next == \E i \in Installers : Ask(i) \/ Take(i) \/ Finish(i)

Spec == Init /\ [][Next]_registerVars
==============================================================================
