SPECIFICATION FairSpec
CONSTANTS
  WorldSize = 3
  MaxCrashes = 1
  StepCounts = {0, 2}
  Backends = {"gloo"}
  OutDirs = {FALSE}
  Cuda = FALSE
  NLayer = 4
  Microbatches = 2
  Buffered = FALSE
  Sample <- MCSample
  InitW <- MCInitW
  Grad <- MCGrad
  ApplyModule <- MCApplyModule
INVARIANTS Lockstep
PROPERTIES TrainsAsOneModel Success
