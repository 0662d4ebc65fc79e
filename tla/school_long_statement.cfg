\* A list sets what memset leaves of pBuff, and a shorter update follows it.
SPECIFICATION Spec
CONSTANTS
  Dialogs = {c1}
  Workers = {w1}
  NUL = NUL
  Empty = ""
  LenSize = 2
  DataLen = 30
  BuffSize = 4
  ClearSize = 2
  ReplySize = 40
  StatementLen <- LongLengths
  MaxClicks = 2
  InitialDbs <- One
  Numeral <- Values
  StuNumbers = {"", "1", "01"}
  StuNames = {"", "Li"}
  CourseNumbers = {"", "7"}
  CourseNames = {"C"}
  ClassNames = {"A"}
INVARIANT AsSent
CHECK_DEADLOCK FALSE
