CONSTANTS
  Last = 4
  Slopes = {"default", "other"}
  Layouts = {"default"}
  BaseWaits = FALSE
  Graphs <- SmallGraphs
SPECIFICATION Spec
INVARIANT FusionPreservesValues
CHECK_DEADLOCK FALSE
