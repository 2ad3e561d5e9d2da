CONSTANTS
  Last = 5
  Slopes = {"default", "other"}
  Layouts = {"default", "other"}
  BaseWaits = TRUE
  Graphs <- SmallGraphs
SPECIFICATION Spec
INVARIANT NamesResolve
INVARIANT ChangesComeFromLosses
INVARIANT ControlDepsSurvive
CHECK_DEADLOCK FALSE
