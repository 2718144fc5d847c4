SPECIFICATION Spec
CONSTANTS
  StopWords <- MCStopWords
  ExcludedAuthors <- MCExcludedAuthors
  HighKeywords <- MCHighKeywords
  LowKeywords <- MCLowKeywords
  MinLength <- MCMinLength
  Threshold <- MCThreshold
  Chats <- MCChats
  Authors <- MCAuthors
  Texts <- MCTexts
  MaxLength = 4
  Topics <- MCTopics
  Window = 1
  MaxDisruptions = 1
INVARIANT FinalFlushDrainsBuffer
CHECK_DEADLOCK FALSE
