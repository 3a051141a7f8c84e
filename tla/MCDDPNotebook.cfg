SPECIFICATION NbSpec
CONSTANTS
  WorldSize = 2
  MaxCrashes = 1
  StepCounts = {1}
  Backends = {"nccl"}
  OutDirs = {TRUE}
  Cuda = TRUE
  GradSync = FALSE
  Batch = {b1, b2}
  InitW <- MCInitW
  Grad <- MCGrad
  Apply <- MCApply
  Fingerprint <- MCFingerprint
  GpuCounts = {0, 1, 2}
  MaxRuns = 2
INVARIANTS SuccessMeansInSync SummaryOfOneGoodRun
PROPERTIES NotebookEnds
