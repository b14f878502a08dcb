SPECIFICATION Spec
CONSTANTS
  Requests = {r1, r2, r3}
  Boot = Boot
  None = None
  Attempts = 2
  Kind = "process"
  Ops = {"enable", "disable", "patchConfig"}
  Overlap = TRUE
  WithBoot = FALSE
  WithHeartbeat = FALSE
  r1 = r1
  r2 = r2
  r3 = r3
SYMMETRY Symmetry
INVARIANTS
  TypeOK
  RunningTaskTracked
