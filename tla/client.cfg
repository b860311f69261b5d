SPECIFICATION FairSpec
CONSTANTS
  NoStandby = NoStandby
  Undecodable = Undecodable
  None = None
  ReadSize = 8
  BufferLimit = 12
  Ops = {"a", "b"}
  Requests = {"get_source", "get_volume", "set"}
  Answers <- Streams
  MaxFrames = 2
INVARIANTS TypeOK RightAnswer MalformedHasReason ReadsWhatWasSet LittleBuffered OneConnection
PROPERTIES LineKept OperationsEnd CloseEnds
CHECK_DEADLOCK FALSE
