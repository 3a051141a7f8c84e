SPECIFICATION Spec
CONSTANTS
  WorldSize = 2
  MaxCrashes = 0
  StepCounts = {1}
  Backends = {"gloo"}
  OutDirs = {FALSE}
  Cuda = FALSE
  Strategies = {"FULL_SHARD"}
  Faults = {"reduce"}
  Batch = {b1, b2}
  InitW <- MCInitW
  Chunk <- MCChunk
  Grad <- MCGrad
  ApplyChunk <- MCApplyChunk
  Fingerprint <- MCFingerprint
INVARIANTS SuccessMeansInSync
