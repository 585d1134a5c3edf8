SPECIFICATION DecoderSpec
CONSTANTS
  Absent = Absent
  Empty = Empty
  GgaSentences <- MCGga
  RmcSentences <- MCRmc
  GllSentences <- MCGll
INVARIANTS
  DecoderTypeOK
  ValidIffParsed
  PositionOfOneSentence
\* parse returns
CHECK_DEADLOCK FALSE
