SPECIFICATION FairSpec
CONSTANTS
  WorldSize = 2
  MaxCrashes = 1
  StepCounts = {0, 1, 2}
  Backends = {"auto", "nccl"}
  OutDirs = {FALSE, TRUE}
  Cuda = FALSE
  NLayer = 3
  Microbatches = 2
  Buffered = TRUE
  Sample <- MCSample
  InitW <- MCInitW
  Grad <- MCGrad
  ApplyModule <- MCApplyModule
INVARIANTS TypeOK NothingInFlight
PROPERTIES LaunchContract Termination
