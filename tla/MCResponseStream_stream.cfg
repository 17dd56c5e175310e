\* Two V4 replies and a V3 reply, over LF and CR LF, cut into deltas and chunks anywhere.
CONSTANTS
  CallTags = {"call1", "call2"}
  ParamTags = {"path", "body"}
  None = "none"
  Absent = "absent"
  Replies <- MCReplies
  V3Replies <- MCV3Replies
  LineEnds <- MCLineEnds
  MaxChunk = 5
  MaxDelta = 2
  MaxWire = 1
SPECIFICATION Spec
INVARIANTS
  CallsIntact
  ReplyDelivered
CHECK_DEADLOCK FALSE
