SPECIFICATION FairSpec
CONSTANTS
  WorldSize = 2
  MaxCrashes = 1
  StepCounts = {0, 1, 2}
  Backends = {"auto", "gloo"}
  OutDirs = {FALSE, TRUE}
  Cuda = TRUE
  Faults = {"none", "forward", "backward"}
  NHead = 6
  DModel = 6
  Sample <- MCSample
  InitW <- MCInitW
  RepOf <- MCRepOf
  ShardOf <- MCShardOf
  Logits <- MCLogits
  Grad <- MCGrad
  ApplyPart <- MCApplyPart
  Fingerprint <- MCFingerprint
INVARIANTS TypeOK ReplicatedInSync SuccessMeansTrained NoStepOnWrongForward
PROPERTIES LaunchContract TrainsAsOneModel Success Termination
