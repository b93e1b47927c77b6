SPECIFICATION StreamSpec
CONSTANTS
  ToolIds = {"t1", "t2"}
  Menu <- MCMention
  MaxEmptyRetries = 2
  RepeatTrip = 3
  MaxInvokeHold = 5
INVARIANT InvokeAtLineStart
CHECK_DEADLOCK FALSE
