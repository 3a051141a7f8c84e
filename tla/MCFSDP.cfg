SPECIFICATION FairSpec
CONSTANTS
  WorldSize = 2
  MaxCrashes = 1
  StepCounts = {0, 2}
  Backends = {"auto", "nccl"}
  OutDirs = {FALSE, TRUE}
  Cuda = FALSE
  Strategies = {"FULL_SHARD", "NO_SHARD"}
  Faults = {"none", "reduce"}
  Batch = {b1, b2}
  InitW <- MCInitW
  Chunk <- MCChunk
  Grad <- MCGrad
  ApplyChunk <- MCApplyChunk
  Fingerprint <- MCFingerprint
INVARIANTS TypeOK ChunksInSync NoShardCheckDetects
PROPERTIES LaunchContract TrainsAsOneModel Termination
