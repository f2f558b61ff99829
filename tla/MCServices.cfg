SPECIFICATION Spec
CONSTANTS
  Header = 2
  MaxLabel = 3
  MaxName = 8
  Answer = 3
  MsgMax = 17
  OptMax = 40
  Messages <- MCMessages
  Stacks <- MCStacks
  Slots = {0, 1}
  Browsers = {b1, b2}
INVARIANTS AnswerFits AnswersOwnAddress ReplyAnswersRequest
PROPERTY LinkDoesWhatItSays
