SPECIFICATION Spec
CONSTANTS
  w1 = w1
  w2 = w2
  Worker = {w1, w2}
  Project = {"p", "q"}
  Default = "p"
  PipelineEvent <- MCPipelineEvent
  GroundTruth <- MCGroundTruth
  NoText = "none"
  Typed = "typed"
  Now0 = 10
  MaxRequests = 2
  Gain <- MCGain
INVARIANTS
  TypeOK
  
  ChunkViewsPartition
  ReplaysKeepContext
  JudgesPipelineAnswer
  MetricsMeasureRankings
SYMMETRY MCSymmetry
CHECK_DEADLOCK FALSE
