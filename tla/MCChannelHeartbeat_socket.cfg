SPECIFICATION FairSpec
CONSTANTS
  Requests = {r1, r2}
  Boot = Boot
  None = None
  Attempts = 2
  Kind = "socket"
  Ops = {"disable", "enable"}
  Overlap = TRUE
  WithBoot = TRUE
  WithHeartbeat = TRUE
  r1 = r1
  r2 = r2
PROPERTIES LostLinkRecovers ConnectingEnds
