\* Two dialogs and two workers; every statement and every reply is one packet.
SPECIFICATION FairSpec
CONSTANTS
  Dialogs = {c1, c2}
  Workers = {w1, w2}
  NUL = NUL
  Empty = ""
  LenSize = 2
  DataLen = 30
  BuffSize = 4
  ClearSize = 2
  ReplySize = 40
  StatementLen <- Lengths
  MaxClicks = 2
  InitialDbs <- One
  Numeral <- Values
  StuNumbers = {"", "1", "01"}
  StuNames = {"", "Li"}
  CourseNumbers = {"", "7"}
  CourseNames = {"C"}
  ClassNames = {"A"}
INVARIANTS TypeOK InStep OneWorkerEach AsSent
PROPERTIES Served OneAtATime DialogReturns
\* Nothing is clicked once MaxClicks statements were sent.
CHECK_DEADLOCK FALSE
