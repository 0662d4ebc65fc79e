------------------------------- MODULE School --------------------------------
(***************************************************************************)
(* The button handlers of CUserDlg (UserDlg.cpp): what each makes of the   *)
(* edit fields it reads, and when it returns without a statement.  With    *)
(* RequestReply they are the whole of the school management system above   *)
(* its transport.                                                          *)
(***************************************************************************)
EXTENDS RequestReply

CONSTANTS  \* the texts a user may type, Empty among them
  StuNumbers, StuNames, CourseNumbers, CourseNames, ClassNames

\* The conditions of a query: only fields that are filled in count.
Given(fields) ==
  [col \in {x \in DOMAIN fields : fields[x] # Empty} |-> fields[col]]

-----------------------------------------------------------------------------
(***************************************************************************)
(* Students.                                                               *)
(***************************************************************************)
\* Defect: a column is forgotten.
AddNameless(c) ==
  \E number \in StuNumbers \ {Empty} :
    DealMessage(c, Insertion("t_stu", [stu_number |-> number,
                                       stu_class  |-> Null]))

AddStudent(c) ==
  \E number \in StuNumbers, name \in StuNames :
    /\ number # Empty /\ name # Empty
    /\ DealMessage(c, Insertion("t_stu", [stu_number |-> number,
                                          stu_name   |-> name,
                                          stu_class  |-> Null]))

\* Defect: no WHERE clause.
ModifyAll(c) ==
  \E name \in StuNames :
    DealMessage(c, Change("t_stu", [stu_name |-> name], <<>>))

ModifyStudent(c) ==
  \E number \in StuNumbers, name \in StuNames :
    DealMessage(c, Change("t_stu", [stu_name |-> name],
                          [stu_number |-> number]))

DelStudent(c) ==
  \E number \in StuNumbers :
    DealMessage(c, Deletion("t_stu", [stu_number |-> number]))

CheckStudent(c) ==
  \E number \in StuNumbers, name \in StuNames :
    DealMessage(c, Selection("t_stu", <<"stu_number", "stu_name">>,
                             Given([stu_number |-> number,
                                    stu_name   |-> name])))

-----------------------------------------------------------------------------
(***************************************************************************)
(* Courses.                                                                *)
(***************************************************************************)
AddCourse(c) ==
  \E number \in CourseNumbers, name \in CourseNames :
    /\ number # Empty /\ name # Empty
    /\ DealMessage(c, Insertion("t_course", [course_number |-> number,
                                             course_name   |-> name]))

ModifyCourse(c) ==
  \E number \in CourseNumbers, name \in CourseNames :
    DealMessage(c, Change("t_course", [course_name |-> name],
                          [course_number |-> number]))

DelCourse(c) ==
  \E number \in CourseNumbers :
    DealMessage(c, Deletion("t_course", [course_number |-> number]))

CheckCourse(c) ==
  \E number \in CourseNumbers, name \in CourseNames :
    DealMessage(c, Selection("t_course", <<"course_number", "course_name">>,
                             Given([course_number |-> number,
                                    course_name   |-> name])))

-----------------------------------------------------------------------------
(***************************************************************************)
(* Classes, known by their names.                                          *)
(***************************************************************************)
AddClass(c) ==
  \E name \in ClassNames :
    /\ name # Empty
    /\ DealMessage(c, Insertion("t_class", [class_name |-> name]))

ModifyClass(c) ==
  \E name, newName \in ClassNames :
    DealMessage(c, Change("t_class", [class_name |-> newName],
                          [class_name |-> name]))

DelClass(c) ==
  \E name \in ClassNames :
    DealMessage(c, Deletion("t_class", [class_name |-> name]))

CheckClass(c) ==
  \E name \in ClassNames :
    DealMessage(c, Selection("t_class", <<"class_name">>,
                             Given([class_name |-> name])))

-----------------------------------------------------------------------------
(***************************************************************************)
(* The class and the courses of a student.                                 *)
(***************************************************************************)
\* An empty field is warned about, and the statement is sent all the same.
GiveClass(c) ==
  \E number \in StuNumbers, class \in ClassNames :
    DealMessage(c, GiftOfClass(number, class))

\* The first field that is filled in is the condition.
CheckGiveclass(c) ==
  \E number \in StuNumbers, name \in StuNames, class \in ClassNames :
    /\ {number, name, class} # {Empty}
    /\ DealMessage(c,
         Selection("classmates", <<"stu_number", "stu_name", "class_name">>,
                   IF number # Empty THEN [stu_number |-> number]
                   ELSE IF name # Empty THEN [stu_name |-> name]
                   ELSE [class_name |-> class]))

GiveCourse(c) ==
  \E number \in StuNumbers, course \in CourseNumbers :
    /\ number # Empty /\ course # Empty
    /\ DealMessage(c, GiftOfCourse(number, course))

DelGivecourse(c) ==
  \E number \in StuNumbers, course \in CourseNumbers :
    /\ number # Empty /\ course # Empty
    /\ DealMessage(c, LossOfCourse(number, course))

\* With an empty field there is no statement, and DealMessage is called with
\* the empty text.
CheckStuCourse(c) ==
  \E number \in StuNumbers :
    DealMessage(c,
      IF number = Empty THEN NoStatement
      ELSE ChoiceList("sel_stu_id", <<"stu_number", "stu_name", "course_number",
                                   "course_name">>, number))

CheckCourseStu(c) ==
  \E number \in CourseNumbers :
    DealMessage(c,
      IF number = Empty THEN NoStatement
      ELSE ChoiceList("sel_course_id", <<"course_number", "course_name",
                                      "stu_number", "stu_name">>, number))

-----------------------------------------------------------------------------
Click(c) ==
  \/ AddStudent(c) \/ ModifyStudent(c) \/ DelStudent(c) \/ CheckStudent(c)
  \/ AddCourse(c) \/ ModifyCourse(c) \/ DelCourse(c) \/ CheckCourse(c)
  \/ AddClass(c) \/ ModifyClass(c) \/ DelClass(c) \/ CheckClass(c)
  \/ GiveClass(c) \/ CheckGiveclass(c)
  \/ GiveCourse(c) \/ DelGivecourse(c)
  \/ CheckStuCourse(c) \/ CheckCourseStu(c)

Next ==
  \/ \E c \in Dialogs : Click(c)
  \/ DialogStep
  \/ LineStep
  \/ ServerStep

Spec == Init /\ [][Next]_vars
=============================================================================
