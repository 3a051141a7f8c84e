SPECIFICATION FairSpec
CONSTANTS
  WorldSize = 2
  MaxCrashes = 1
  StepCounts = {0, 1, 2}
  Backends = {"auto", "nccl"}
  OutDirs = {FALSE, TRUE}
  Cuda = FALSE
  GradSync = TRUE
  Batch = {b1, b2}
  InitW <- MCInitW
  Grad <- MCGrad
  Apply <- MCApply
  Fingerprint <- MCFingerprint
INVARIANTS TypeOK SameCollectives Lockstep ReplicasAgree
PROPERTIES ArtifactsLast LaunchContract TrainsAsOneModel Success
