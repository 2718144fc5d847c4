SPECIFICATION FairSpec
CONSTANTS
  StopWords <- MCStopWords
  ExcludedAuthors <- MCExcludedAuthors
  HighKeywords <- MCHighKeywords
  LowKeywords <- MCLowKeywords
  MinLength <- MCMinLength
  Threshold <- MCThreshold
  Chats <- MCChats
  Authors <- MCAuthors
  Texts <- MCTexts
  MaxLength = 4
  Topics <- MCTopics
  Window = 1
  MaxDisruptions = 2
INVARIANTS
  TypeOK
  BufferStamped
  NothingLost
  NothingTwice
  RecordsFaithful
PROPERTIES
  ChannelSpec
  EventuallyPublished
  ShutdownEnds
\* The topic is finite: a drained agent has nothing left to do.
CHECK_DEADLOCK FALSE
