SPECIFICATION Spec
CONSTANTS
  Keys = {k}
  Calls = {c1, c2, c3, c4}
  None = None
  Ops = {"create", "append", "update", "run", "history", "reset", "discard", "delete"}
  Overlap = "readers"
  Expiry = TRUE
  Crashes = 1
  TornRewrite = FALSE
INVARIANTS TypeOK CacheHonest DiskCurrent AnsweredKept
SYMMETRY Symmetry
CHECK_DEADLOCK FALSE
