SPECIFICATION Spec
CONSTANTS
  None = None Nowhere = Nowhere
  Chars = {"a", "b"} Astral = {"S"} Me = "me" Others = {"other"}
  DeltaOps <- AllOps MaxPosition = 2 Sessions <- AllSessions
INVARIANTS TypeOK CursorsInside CursorsOfOthers
PROPERTIES PlainEditsLand
CHECK_DEADLOCK FALSE
