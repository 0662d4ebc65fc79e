\* The class field is empty, or names the only class.
SPECIFICATION Spec
CONSTANTS
  Dialogs = {c1}
  Workers = {w1}
  NUL = NUL
  Empty = ""
  LenSize = 2
  DataLen = 30
  BuffSize = 4
  ClearSize = 2
  ReplySize = 40
  StatementLen <- Lengths
  MaxClicks = 1
  InitialDbs <- One
  Numeral <- Values
  StuNumbers = {"", "1", "01"}
  StuNames = {"", "Li"}
  CourseNumbers = {"", "7"}
  CourseNames = {"C"}
  ClassNames = {"", "A"}
PROPERTY KeepsAClass
CHECK_DEADLOCK FALSE
