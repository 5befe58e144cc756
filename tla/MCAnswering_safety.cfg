SPECIFICATION Spec
CONSTANTS
  m1 = m1
  m2 = m2
  guide = guide
  Sources <- MCSources
  Contents <- MCContents
  ChunkMax = 3
  ChunkOverlap = 1
  SepLen = 1
  MaxEvents = 4
  Messages <- MCMessages
  InputsOf <- MCInputsOf
  Replies <- MCReplies
  OperatorTexts <- MCOperatorTexts
  MaxContextMessages = 2
  MaxContextTokens = 10
  LongTokens = 7
  TopK = 2
  MaxContextSize = 6
INVARIANTS TypeOK ForcedRunIsCurrent NoAmountFromBot ExcerptsAreClean HistoryIsLongestRecent HaggledIsALead
CHECK_DEADLOCK FALSE
