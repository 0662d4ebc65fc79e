------------------------------ MODULE SchoolDb ------------------------------
(***************************************************************************)
(* The database db_stu_mag, and the statements CUserDlg writes, each a     *)
(* record.  MySQL executes a statement as a whole or refuses it.           *)
(*                                                                         *)
(* A table is a set of rows.  Keys and references are those of the design  *)
(* document: numbers and class names are unique, deleting a student or a   *)
(* course deletes its selections, a class with students cannot be deleted. *)
(***************************************************************************)
EXTENDS Naturals, FiniteSets

CONSTANT Numeral  \* [texts that are numerals -> their values]

Null == 0   \* an id that no row has

Insertion(table, row) == [do |-> "insert", table |-> table, row |-> row]

Change(table, new, where) ==
  [do |-> "update", table |-> table, new |-> new, where |-> where]

Deletion(table, where) == [do |-> "delete", table |-> table, where |-> where]

Selection(view, columns, where) ==
  [do |-> "select", view |-> view, columns |-> columns, where |-> where]

\* Statements with a subselect: give a class, give or drop a course, list the
\* courses of a student or the students of a course.
GiftOfClass(number, class) ==
  [do |-> "giveClass", number |-> number, class |-> class]

GiftOfCourse(number, course) ==
  [do |-> "giveCourse", number |-> number, course |-> course]

LossOfCourse(number, course) ==
  [do |-> "dropCourse", number |-> number, course |-> course]

ChoiceList(of, columns, text) ==
  [do |-> "choices", of |-> of, columns |-> columns, text |-> text]

\* An empty text is no statement.
NoStatement == [do |-> "nothing"]

-----------------------------------------------------------------------------
(***************************************************************************)
(* Rows, and what MySQL answers: an error, or a result with the names of   *)
(* its columns (none for a statement that is not a selection) and a set of *)
(* rows.                                                                   *)
(***************************************************************************)
Matches(row, where) == \A col \in DOMAIN where : row[col] = where[col]

\* The row with these columns written over it or beside it.
With(row, new) ==
  [col \in DOMAIN row \union DOMAIN new |->
     IF col \in DOMAIN new THEN new[col] ELSE row[col]]

Where(rows, where) == {row \in rows : Matches(row, where)}

Ids(rows) == {row.id : row \in rows}

\* The value of a subselect.
Scalar(ids) == IF ids = {} THEN Null ELSE CHOOSE id \in ids : TRUE

Fresh(rows) == CHOOSE id \in 1 .. Cardinality(rows) + 1 : id \notin Ids(rows)

Failed(db) == [ok |-> FALSE, db |-> db, head |-> <<>>, rows |-> {}]

Done(db) == [ok |-> TRUE, db |-> db, head |-> <<>>, rows |-> {}]

Listed(db, columns, rows) ==
  [ok |-> TRUE, db |-> db, head |-> columns,
   rows |-> {[i \in DOMAIN columns |-> row[columns[i]]] : row \in rows}]

\* What the callback of ExcuSql is called with: nErrCode and res.
Answer(result) == [ok |-> result.ok, head |-> result.head, rows |-> result.rows]

Key == [t_stu |-> "stu_number", t_class |-> "class_name",
        t_course |-> "course_number"]

KeysDiffer(table, rows) ==
  \A r, q \in rows : r[Key[table]] = q[Key[table]] => r = q

-----------------------------------------------------------------------------
(***************************************************************************)
(* The execution of each kind of statement.                                *)
(***************************************************************************)
Insert(db, table, row) ==
  LET rows == db[table] \union {With(row, [id |-> Fresh(db[table])])}
  IN  IF KeysDiffer(table, rows) THEN Done([db EXCEPT ![table] = rows])
                                 ELSE Failed(db)

Update(db, table, new, where) ==
  LET rows == {IF Matches(r, where) THEN With(r, new) ELSE r : r \in db[table]}
  IN  IF KeysDiffer(table, rows) THEN Done([db EXCEPT ![table] = rows])
                                 ELSE Failed(db)

\* ON DELETE CASCADE for selections, RESTRICT for the class of a student.
Delete(db, table, where) ==
  LET gone == Where(db[table], where)
      Goes(sel) == \/ table = "t_stu" /\ sel.sel_stu_id \in Ids(gone)
                   \/ table = "t_course" /\ sel.sel_course_id \in Ids(gone)
      used == table = "t_class" /\ \E s \in db.t_stu : s.stu_class \in Ids(gone)
  IN  IF used THEN Failed(db)
      ELSE Done([db EXCEPT ![table] = @ \ gone,
                           !.t_selcourse = {sel \in @ : ~Goes(sel)}])

\* The joins of the handlers.
StudentsInClass(db) ==
  {With(p[1], [class_name |-> p[2].class_name]) :
     p \in {q \in db.t_stu \X db.t_class : q[1].stu_class = q[2].id}}

Chosen(db) ==
  {With(With(p[2], p[1]), p[3]) :
     p \in {q \in db.t_stu \X db.t_course \X db.t_selcourse :
              q[3] = [sel_stu_id |-> q[1].id, sel_course_id |-> q[2].id]}}

View(db, view) == CASE view = "classmates" -> StudentsInClass(db)
                    [] OTHER -> db[view]

\* The row of t_selcourse that two subselects name.
SelectionOf(db, number, course) ==
  [sel_stu_id    |-> Scalar(Ids(Where(db.t_stu, [stu_number |-> number]))),
   sel_course_id |-> Scalar(Ids(Where(db.t_course, [course_number |-> course])))]

InsertSelection(db, sel) ==
  IF Null \in {sel.sel_stu_id, sel.sel_course_id} \/ sel \in db.t_selcourse
  THEN Failed(db)
  ELSE Done([db EXCEPT !.t_selcourse = @ \union {sel}])

\* Without quotes around it the text is a number, which a text column is
\* compared with by value, or it is no expression at all; and a subselect
\* with more than one row is an error.
ValueOf(text) == IF text \in DOMAIN Numeral THEN Numeral[text] ELSE 0

ListChoices(db, of, columns, text) ==
  LET table == IF of = "sel_stu_id" THEN "t_stu" ELSE "t_course"
      ids   == Ids({r \in db[table] : ValueOf(r[Key[table]]) = ValueOf(text)})
  IN  IF text \notin DOMAIN Numeral \/ Cardinality(ids) > 1
      THEN Failed(db)
      ELSE Listed(db, columns, {r \in Chosen(db) : r[of] \in ids})

Execute(s, db) ==
  CASE s.do = "insert" -> Insert(db, s.table, s.row)
    [] s.do = "update" -> Update(db, s.table, s.new, s.where)
    [] s.do = "delete" -> Delete(db, s.table, s.where)
    [] s.do = "select" ->
         Listed(db, s.columns, Where(View(db, s.view), s.where))
    [] s.do = "giveClass" ->
         LET class == Where(db.t_class, [class_name |-> s.class])
         IN  Update(db, "t_stu", [stu_class |-> Scalar(Ids(class))],
                    [stu_number |-> s.number])
    [] s.do = "giveCourse" ->
         InsertSelection(db, SelectionOf(db, s.number, s.course))
    [] s.do = "dropCourse" ->
         Done([db EXCEPT !.t_selcourse =
                 @ \ {SelectionOf(db, s.number, s.course)}])
    [] s.do = "choices" -> ListChoices(db, s.of, s.columns, s.text)
=============================================================================
