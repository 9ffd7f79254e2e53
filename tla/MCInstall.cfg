SPECIFICATION Spec
CONSTANTS
  Releases = {current, other, beta}
  Pinned = {current, other}
  Larger = {other}
  Supported = {current, beta}
  NoFile = NoFile
  Pids = {p1, p2}
  Clients = {c1}
  MaxRuns = 3
  MaxFailures = 1
CONSTRAINT WaivedAlone
SYMMETRY Symmetry
CHECK_DEADLOCK FALSE
INVARIANTS
  Inv
  PinnedInstallIsWhole
  PreviousInstallRecoverable
PROPERTIES
  PreflightVouches
  InstallRegisterSpec
