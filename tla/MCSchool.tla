------------------------------ MODULE MCSchool -------------------------------
(***************************************************************************)
(* Instances of the whole system for TLC.                                  *)
(***************************************************************************)
EXTENDS SchoolInv

\* Two students, of which one has a class and a course.
Populated ==
  [t_stu       |-> {[id |-> 1, stu_number |-> "1", stu_name |-> "Wu",
                     stu_class |-> 1],
                    [id |-> 2, stu_number |-> "2", stu_name |-> "Wu",
                     stu_class |-> Null]},
   t_class     |-> {[id |-> 1, class_name |-> "A"]},
   t_course    |-> {[id |-> 1, course_number |-> "7", course_name |-> "C"]},
   t_selcourse |-> {[sel_stu_id |-> 1, sel_course_id |-> 1]}]

\* Every statement is shorter than what is cleared of pBuff, or the longest.
Lengths == [kind \in Kinds |->
              CASE kind = "nothing" -> 0
                [] kind \in {"insert", "delete", "choices"} -> 1
                [] OTHER -> 3]

\* A select writes where memset does not, and an update ends there.
LongLengths == [Lengths EXCEPT !.update = 2]

One == {Populated}

Values == [x \in {"1", "01", "2", "7"} |->
             CASE x \in {"1", "01"} -> 1 [] x = "2" -> 2 [] x = "7" -> 7]

\* The instances are such as the theorems speak of.
ASSUME LengthsAssumption == StatementLen = Lengths => StatementsFit

ASSUME CellsAssumption == NamesAreCells
=============================================================================
