------------------------------ MODULE MCInstall ------------------------------
(* Instances of Install for TLC: two process ids, of which the runs of a     *)
(* configuration make one be used again, and one client.                     *)
EXTENDS Install, TLC

Symmetry == Permutations(Pids)

\* A checksum is waived while nobody launches and no removal has failed: what is not known
\* is for the installers.
WaivedAlone ==
  waived => failures = 0 /\ \A c \in Clients : launch[c] = "idle"
==============================================================================
