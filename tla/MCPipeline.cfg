CONSTANTS
  MaxBatch = 2
  MaxRows = 3
  Peers = {"me", "ann", "bob", "cyd"}
  Broadcast = "*"
  HandleOf <- MCHandleOf
  HashOf <- MCHandleOf
  Reportable <- MCReportable
  Source = "me"
  Others = {"cyd"}
  BodyAllowlist = {"ping"}
  HostOf <- MCHostOf
  MaxStreams = 2
SPECIFICATION PipelineSpec
INVARIANTS
  EachRowOnceInOrder
  NothingRawLeaves
  HandlesTellPeers
  RowsEndOnce
PROPERTY
  StagedRowsLeave
