SPECIFICATION Spec
CONSTANTS
  absent = absent
  Absent = absent
  Nodes <- MCNodes
  Edges <- MCEdges
  Relations <- MCRelations
  Rank <- MCRank
  SymbolRank <- MCSymbolRank
  NodeRank <- MCNodeRank
  QueryRank <- MCQueryRank
  KeyRank <- MCKeyRank
  TraceRank <- MCTraceRank
  Channels <- MCChannels
  Knowledge <- MCKnowledge
  TraceAnswer <- MCTraceAnswer
  Setups <- MCSetups
  MaxRanges = 4
  MaxFilesPerSide = 1
  MaxSymbolsPerFile = 2
  MaxCandidatesPerRange = 2
  Width = 2
  MaxBacking = 9
  Large = {}
INVARIANTS
  StoppedOrComplete
  EditsAreAnchored
  BudgetsHold
  ContextIsSound
  NothingLostInSilence
  FactsAreKept
CHECK_DEADLOCK FALSE
