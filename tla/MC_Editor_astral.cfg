SPECIFICATION Spec
CONSTANTS
  None = None Nowhere = Nowhere
  Chars = {"a", "b"} Astral = {"S"} Me = "me" Others = {"other"}
  DeltaOps <- TextOps MaxPosition = 2 Sessions <- TwoDeltas
PROPERTIES NothingWrittenBack
CHECK_DEADLOCK FALSE
