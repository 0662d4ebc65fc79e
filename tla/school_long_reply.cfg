\* A packet holds five symbols: the list of the students takes several.
SPECIFICATION Spec
CONSTANTS
  Dialogs = {c1}
  Workers = {w1}
  NUL = NUL
  Empty = ""
  LenSize = 2
  DataLen = 5
  BuffSize = 4
  ClearSize = 2
  ReplySize = 40
  StatementLen <- Lengths
  MaxClicks = 1
  InitialDbs <- One
  Numeral <- Values
  StuNumbers = {"", "1", "01"}
  StuNames = {"", "Li"}
  CourseNumbers = {"", "7"}
  CourseNames = {"C"}
  ClassNames = {"A"}
INVARIANT ShownIsTheAnswer
CHECK_DEADLOCK FALSE
