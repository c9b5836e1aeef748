CONSTANTS
  Alphabet <- MCAlphabet
  Scripts <- MCScripts
  MaxSends = 2
  MaxActs = 2
  MaxStored = 3
SPECIFICATION FairSpec
INVARIANTS
  TypeOK
  NoForeignText
  NoLeakedStream
  NoStuckMessage
  CompletedTextIsWhole
PROPERTIES
  LeavingSaves
  AnswerEnds
CHECK_DEADLOCK FALSE
