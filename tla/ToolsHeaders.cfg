SPECIFICATION Spec
CONSTANTS
  v21 = v21
  v22 = v22
  t1 = t1
  t2 = t2
  m1 = m1
  m2 = m2
  Pin = v21
  Versions <- MCVersions
  Trees <- MCTrees
  Gpus <- MCGpus
  HasUnifiedMemory <- MCHasUnifiedMemory
  Exports <- MCExports
  OpDefs <- MCOpDefs
  TensorFlowsOwn <- MCTensorFlowsOwn
  Sources <- MCSources
  CheckedIn <- MCCheckedIn
  Selections <- MCSelections
  Answers <- MCAnswers
  Wanted <- MCWanted
  NoType = NoType
  NoTensorFlow = NoTensorFlow
  NoLibrary = NoLibrary
  NoProcess = NoProcess
  NoTool = NoTool
  NoSnapshot = NoSnapshot
  Raised = Raised
  NotCalled = NotCalled
INVARIANT OffersToItsBuildOnly
