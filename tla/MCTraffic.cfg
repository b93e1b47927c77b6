INIT TrafficInit
NEXT TrafficNext
CONSTANTS
  Null = Null
  Explained = 7
  LowerCase <- MCLowerCase
  ShortName <- MCShortName
  Weight <- MCWeight
  Requests <- MCRequests
  MinRecentTurns = 2
  MaxTrimIters = 2
  Limits = {0, 8}
  Pictures = {"png"}
  OtherPictures = {"svg"}
  MaxField = 4
  MaxMessages = 5
  MaxBudgetTokens = 24576
  Callers = {c1, c2}
  Prompts <- MCPrompts
  NoSeed = "none"
  ShortTtl = 1
  LongTtl = 2
  Grace = 1
  Capacity = 3
  MaxTime = 2
  MaxCalls = 2
  MaxRestarts = 1
  Joined <- MCJoined
  AsJson = "json"
  MaxRounds = 1
  MaxTurns = 2
  Answers <- MCAnswers
  Declared <- MCDeclared
  Added <- MCAdded
  LengthSize = 1
  PreludeSize = 2
  MinMessageSize = 3
  MaxMessageSize = 6
  MaxBufferSize = 10
  MaxErrors = 2
  FrameSize = 4
  FrameCounts = {1, 3}
  Garbage = {1, 6, 9}
INVARIANTS
  RequestIsLegal SaidIsSent CallsComeBack ThinkingIsAskedOnce FilterKeepsInstructions
  CacheIsTrue BillsAddUp LoopIsTrue ReplayIsVerbatim AnswersTellTheSame
  OnlyDamagedFramesAreLost
SYMMETRY Symmetry
CHECK_DEADLOCK FALSE
