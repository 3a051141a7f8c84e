SPECIFICATION FairSpec
CONSTANTS
  WorldSize = 2
  MaxCrashes = 0
  StepCounts = {1}
  Backends = {"nccl"}
  OutDirs = {FALSE}
  Cuda = TRUE
  Faults = {"none"}
  NHead = 6
  DModel = 6
  Sample <- MCSample
  InitW <- MCInitW
  RepOf <- MCRepOf
  ShardOf <- MCShardOf
  Logits <- MCLogits
  Grad <- MCGrad
  ApplyPart <- MCApplyPart
  Fingerprint <- MCFingerprint
PROPERTIES RealRunSucceeds
