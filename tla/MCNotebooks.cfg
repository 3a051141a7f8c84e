SPECIFICATION Spec
CONSTANTS
  Artifact = {"history", "profile"}
  GpuCounts = {0, 1, 2}
  MaxRuns = 2
INVARIANTS SummaryOfThisRun
PROPERTIES NotebookEnds
