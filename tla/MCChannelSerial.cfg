SPECIFICATION Spec
CONSTANTS
  Requests = {r1, r2, r3, r4}
  Boot = Boot
  None = None
  Attempts = 2
  Kind = "socket"
  Ops = {"create", "disable", "patchOn", "patchOff", "patchConfig", "delete"}
  Overlap = FALSE
  WithBoot = FALSE
  WithHeartbeat = FALSE
  r1 = r1
  r2 = r2
  r3 = r3
  r4 = r4
SYMMETRY Symmetry
INVARIANTS
  NoOrphanLink
  DisabledMeansDown
  StatusIsTrue
