SPECIFICATION Spec
CONSTANTS
  Requests = {r1}
  Boot = Boot
  None = None
  Attempts = 1
  Kind = "process"
  Ops = {"disable"}
  Overlap = FALSE
  WithBoot = TRUE
  WithHeartbeat = FALSE
  r1 = r1
INVARIANT DownAtRest
