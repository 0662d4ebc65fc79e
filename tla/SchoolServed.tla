---------------------------- MODULE SchoolServed -----------------------------
(***************************************************************************)
(* Proofs about what the system does for the people at the dialogs, from   *)
(* three invariants of SchoolInv: IInv (SchoolProofs), TablesInv and       *)
(* Contents.  First what each kind of statement does to the tables and     *)
(* what its answer looks like, whatever the tables hold; then that nothing *)
(* but the statements of the handlers reaches the database; then what the  *)
(* replies under way say, what a dialog makes of them (ReplyTextProofs),   *)
(* and that every step is one of SchoolService or none.                    *)
(***************************************************************************)
EXTENDS SchoolProofs, ReplyTextProofs

-----------------------------------------------------------------------------
(***************************************************************************)
(* Rows.                                                                   *)
(***************************************************************************)
LEMMA WithColumns ==
  ASSUME NEW row, NEW new
  PROVE  /\ DOMAIN With(row, new) = DOMAIN row \union DOMAIN new
         /\ \A col \in DOMAIN row \union DOMAIN new :
              With(row, new)[col]
                = IF col \in DOMAIN new THEN new[col] ELSE row[col]
  BY DEF With

LEMMA TableNames ==
  /\ DOMAIN Columns = {"t_stu", "t_class", "t_course", "t_selcourse"}
  /\ DOMAIN TextColumns = DOMAIN Columns
  /\ DOMAIN Key = {"t_stu", "t_class", "t_course"}
  /\ \A table \in DOMAIN Columns :
       TextColumns[table] \subseteq Columns[table] \ {"id"}
  /\ \A table \in DOMAIN Key :
       Key[table] \in TextColumns[table] /\ "id" \in Columns[table]
  BY DEF Columns, TextColumns, Key

\* The image of a finite set under a function.
LEMMA FiniteImage ==
  ASSUME NEW S, IsFiniteSet(S), NEW f, DOMAIN f = S
  PROVE  IsFiniteSet({f[x] : x \in S})
<1> DEFINE T == {f[x] : x \in S}
<1>1. PICK g : g = [x \in S |-> f[x]]
  OBVIOUS
<1>2. g \in [S -> T] /\ \A t \in T : \E x \in S : g[x] = t
  BY <1>1
<1>3. g \in Surjection(S, T)
  BY <1>2 DEF Surjection
<1> QED
  BY <1>3, FS_Surjection

\* At most one id.
LEMMA AtMostOne ==
  ASSUME NEW S, NEW r, S \subseteq {r}
  PROVE  Cardinality(Ids(S)) <= 1
<1>1. Ids(S) = {} \/ Ids(S) = {r.id}
  BY DEF Ids
<1>2. Cardinality({}) = 0 /\ Cardinality({r.id}) = 1
  <2>1. PICK x : x = r.id
    OBVIOUS
  <2>2. Cardinality({x}) = 1
    BY FS_Singleton
  <2> QED
    BY <2>1, <2>2, FS_EmptySet
<1> QED
  BY <1>1, <1>2

-----------------------------------------------------------------------------
(***************************************************************************)
(* Statements that change the tables.                                      *)
(***************************************************************************)
\* A database in which one table has other rows.
LEMMA OtherRows ==
  ASSUME NEW d, DbInv(d), NEW table \in DOMAIN Columns, NEW rows,
         IsFiniteSet(rows), \A r \in rows : IsRow(table, r),
         table \in DOMAIN Key => KeysDiffer(table, rows)
  PROVE  /\ DbInv([d EXCEPT ![table] = rows])
         /\ [d EXCEPT ![table] = rows][table] = rows
         /\ \A other \in DOMAIN Columns \ {table} :
              [d EXCEPT ![table] = rows][other] = d[other]
<1> DEFINE e == [d EXCEPT ![table] = rows]
<1>1. /\ DOMAIN d = DOMAIN Columns /\ DOMAIN e = DOMAIN Columns
      /\ e[table] = rows
      /\ \A other \in DOMAIN Columns \ {table} : e[other] = d[other]
  BY DEF DbInv
<1> HIDE DEF e
<1>2. ASSUME NEW other \in DOMAIN Columns
      PROVE  /\ IsFiniteSet(e[other]) /\ \A r \in e[other] : IsRow(other, r)
             /\ other \in DOMAIN Key => KeysDiffer(other, e[other])
  <2>1. CASE other = table
    BY <1>1, <2>1
  <2>2. CASE other # table
    BY <1>1, <2>2 DEF DbInv
  <2> QED
    BY <2>1, <2>2
<1>3. DbInv(e)
  BY <1>1, <1>2, TableNames DEF DbInv
<1> QED
  BY <1>1, <1>3 DEF e

\* At most one row of the table is not kept, and all of the other tables are.
Changes(d, e, table) ==
  /\ DbInv(e)
  /\ \E r : d[table] \ e[table] \subseteq {r}
  /\ \A other \in DOMAIN Key \ {table} : e[other] = d[other]

LEMMA InsertDb ==
  ASSUME NEW d, DbInv(d), NEW table \in DOMAIN Key, NEW row,
         DOMAIN row = Columns[table] \ {"id"}, HasTexts(row, table)
  PROVE  Changes(d, Insert(d, table, row).db, table)
<1> DEFINE new == With(row, [id |-> Fresh(d[table])])
           rows == d[table] \union {new}
<1>1. table \in DOMAIN Columns
  BY TableNames
<1>2. IsRow(table, new)
  <2>1. PICK n : n = [id |-> Fresh(d[table])]
    OBVIOUS
  <2>2. DOMAIN n = {"id"}
    BY <2>1
  <2>3. new = With(row, n)
    BY <2>1
  <2> HIDE DEF new
  <2>4. /\ DOMAIN new = Columns[table]
        /\ \A col \in DOMAIN row : new[col] = row[col]
    <3>1. /\ DOMAIN new = DOMAIN row \union {"id"}
          /\ \A col \in DOMAIN row \union {"id"} :
               new[col] = IF col \in {"id"} THEN n[col] ELSE row[col]
      BY <2>2, <2>3, WithColumns
    <3>2. "id" \in Columns[table]
      BY TableNames
    <3> QED
      BY <3>1, <3>2
  <2> QED
    BY <1>1, <2>4, TableNames DEF IsRow, HasTexts
<1> HIDE DEF new
<1>3. IsFiniteSet(rows) /\ \A r \in rows : IsRow(table, r)
  BY <1>1, <1>2, FS_AddElement DEF DbInv
<1>4. \/ /\ KeysDiffer(table, rows)
         /\ Insert(d, table, row).db = [d EXCEPT ![table] = rows]
      \/ Insert(d, table, row).db = d
  BY DEF Insert, Done, Failed, new
<1>5. d[table] \ rows = {}
  OBVIOUS
<1> HIDE DEF rows
<1>6. KeysDiffer(table, rows) =>
        /\ DbInv([d EXCEPT ![table] = rows])
        /\ [d EXCEPT ![table] = rows][table] = rows
        /\ \A other \in DOMAIN Columns \ {table} :
             [d EXCEPT ![table] = rows][other] = d[other]
  BY <1>1, <1>3, OtherRows
<1> QED
  BY <1>4, <1>5, <1>6, TableNames DEF Changes

LEMMA UpdateDb ==
  ASSUME NEW d, DbInv(d), NEW table \in DOMAIN Key, NEW new, NEW where,
         DOMAIN new \subseteq Columns[table] \ {"id"}, HasTexts(new, table),
         DOMAIN where = {Key[table]}
  PROVE  Changes(d, Update(d, table, new, where).db, table)
<1> DEFINE f == [r \in d[table] |-> IF Matches(r, where) THEN With(r, new) ELSE r]
           rows == {f[r] : r \in d[table]}
<1>1. table \in DOMAIN Columns /\ IsFiniteSet(d[table])
      /\ \A r \in d[table] : IsRow(table, r)
      /\ KeysDiffer(table, d[table])
  BY TableNames DEF DbInv
<1>2. ASSUME NEW r \in d[table] PROVE IsRow(table, f[r])
  <2>1. IsRow(table, With(r, new))
    <3>1. PICK q : q = With(r, new)
      OBVIOUS
    <3>2. /\ DOMAIN q = Columns[table]
          /\ \A col \in Columns[table] :
               q[col] = IF col \in DOMAIN new THEN new[col] ELSE r[col]
      <4>1. DOMAIN r \union DOMAIN new = Columns[table]
        BY <1>1 DEF IsRow
      <4> QED
        BY <3>1, <4>1, WithColumns
    <3> QED
      BY <1>1, <3>1, <3>2, TableNames DEF IsRow, HasTexts
  <2> QED
    BY <1>1, <2>1
<1>3. IsFiniteSet(rows) /\ \A r \in rows : IsRow(table, r)
  <2>1. DOMAIN f = d[table]
    OBVIOUS
  <2> HIDE DEF f
  <2> QED
    BY <1>1, <1>2, <2>1, FiniteImage
<1>4. \/ /\ KeysDiffer(table, rows)
         /\ Update(d, table, new, where).db = [d EXCEPT ![table] = rows]
      \/ Update(d, table, new, where).db = d
  <2>1. rows = {IF Matches(r, where) THEN With(r, new) ELSE r : r \in d[table]}
    OBVIOUS
  <2> HIDE DEF rows
  <2> QED
    BY <2>1 DEF Update, Done, Failed
<1>5. \E r : d[table] \ rows \subseteq {r}
  <2>1. \A r, q \in d[table] : Matches(r, where) /\ Matches(q, where) => r = q
    BY <1>1 DEF Matches, KeysDiffer
  <2>2. \A r \in d[table] \ rows : Matches(r, where)
    OBVIOUS
  <2> HIDE DEF rows
  <2> QED
    BY <2>1, <2>2
<1> HIDE DEF rows, f
<1>6. KeysDiffer(table, rows) =>
        /\ DbInv([d EXCEPT ![table] = rows])
        /\ [d EXCEPT ![table] = rows][table] = rows
        /\ \A other \in DOMAIN Columns \ {table} :
             [d EXCEPT ![table] = rows][other] = d[other]
  BY <1>1, <1>3, OtherRows
<1> QED
  BY <1>4, <1>5, <1>6, TableNames DEF Changes

LEMMA FewerRows ==
  ASSUME NEW d, DbInv(d), NEW e, DOMAIN e = DOMAIN Columns,
         \A table \in DOMAIN Columns : e[table] \subseteq d[table]
  PROVE  DbInv(e)
<1>1. \A table \in DOMAIN Columns : IsFiniteSet(e[table])
  BY FS_Subset DEF DbInv
<1>2. \A table \in DOMAIN Key : KeysDiffer(table, e[table])
  BY TableNames DEF DbInv, KeysDiffer
<1> QED
  BY <1>1, <1>2 DEF DbInv

LEMMA DeleteDb ==
  ASSUME NEW d, DbInv(d), NEW table \in DOMAIN Key, NEW where,
         DOMAIN where = {Key[table]}
  PROVE  Changes(d, Delete(d, table, where).db, table)
<1> DEFINE gone == Where(d[table], where)
           Goes(sel) == \/ table = "t_stu" /\ sel.sel_stu_id \in Ids(gone)
                        \/ table = "t_course" /\ sel.sel_course_id \in Ids(gone)
           left == {sel \in d.t_selcourse : ~Goes(sel)}
           e == [d EXCEPT ![table] = d[table] \ gone, !.t_selcourse = left]
<1>1. /\ DOMAIN d = DOMAIN Columns /\ table \in DOMAIN Columns
      /\ table # "t_selcourse" /\ "t_selcourse" \in DOMAIN Columns
      /\ "t_selcourse" \notin DOMAIN Key /\ DOMAIN Key \subseteq DOMAIN Columns
      /\ KeysDiffer(table, d[table])
  BY TableNames DEF DbInv
<1>2. Delete(d, table, where).db = d \/ Delete(d, table, where).db = e
  <2>1. [d EXCEPT ![table] = @ \ gone, !.t_selcourse = {sel \in @ : ~Goes(sel)}] = e
    BY <1>1
  <2> HIDE DEF e
  <2> QED
    BY <2>1 DEF Delete, Failed, Done
<1>3. left \subseteq d["t_selcourse"]
  OBVIOUS
<1>4. \E r : gone \subseteq {r}
  <2>1. \A r, q \in gone : r = q
    BY <1>1 DEF Where, Matches, KeysDiffer
  <2> HIDE DEF gone
  <2> QED
    BY <2>1
<1> HIDE DEF left, gone
<1>5. /\ DOMAIN e = DOMAIN Columns
      /\ e[table] = d[table] \ gone
      /\ e["t_selcourse"] = left
      /\ \A other \in DOMAIN Columns \ {table, "t_selcourse"} : e[other] = d[other]
  BY <1>1
<1> HIDE DEF e
<1>6. DbInv(e)
  BY <1>1, <1>3, <1>5, FewerRows
<1>7. d[table] \ e[table] \subseteq gone /\ \A r : d[table] \ d[table] \subseteq {r}
  BY <1>5
<1> QED
  BY <1>1, <1>2, <1>4, <1>5, <1>6, <1>7 DEF Changes

LEMMA SelectionRow ==
  ASSUME NEW d, NEW number, NEW course
  PROVE  IsRow("t_selcourse", SelectionOf(d, number, course))
<1>1. DOMAIN SelectionOf(d, number, course) = {"sel_stu_id", "sel_course_id"}
  BY DEF SelectionOf
<1> QED
  BY <1>1 DEF IsRow, Columns, TextColumns

LEMMA SelectionsDb ==
  ASSUME NEW d, DbInv(d), NEW rows, rows \subseteq d.t_selcourse
                  \/ \E r : IsRow("t_selcourse", r) /\ rows = d.t_selcourse \union {r}
  PROVE  /\ DbInv([d EXCEPT !.t_selcourse = rows])
         /\ \A table \in DOMAIN Key :
              [d EXCEPT !.t_selcourse = rows][table] = d[table]
<1>1. /\ "t_selcourse" \in DOMAIN Columns \ DOMAIN Key
      /\ DOMAIN Key \subseteq DOMAIN Columns \ {"t_selcourse"}
  BY TableNames
<1>2. /\ IsFiniteSet(d["t_selcourse"])
      /\ \A r \in d["t_selcourse"] : IsRow("t_selcourse", r)
  BY <1>1 DEF DbInv
<1>3. IsFiniteSet(rows)
  BY <1>2, FS_Subset, FS_AddElement
<1>4. \A r \in rows : IsRow("t_selcourse", r)
  BY <1>2
<1>5. PICK other : other = "t_selcourse"
  OBVIOUS
<1>6. /\ DbInv([d EXCEPT ![other] = rows])
      /\ \A table \in DOMAIN Columns \ {other} :
           [d EXCEPT ![other] = rows][table] = d[table]
  BY <1>1, <1>3, <1>4, <1>5, OtherRows
<1> QED
  BY <1>1, <1>5, <1>6

\* What a handler asks for keeps the columns and the keys, and at most one row
\* of a table is changed or goes.
LEMMA ExecuteDb ==
  ASSUME NEW d, DbInv(d), NEW s, Proper(s)
  PROVE  /\ DbInv(Execute(s, d).db)
         /\ \A table \in DOMAIN Key :
              \E r : d[table] \ Execute(s, d).db[table] \subseteq {r}
<1> DEFINE e == Execute(s, d).db
           Keeps(x) == \A table \in DOMAIN Key : \E r : d[table] \ x[table] \subseteq {r}
<1>1. \A x : (\A table \in DOMAIN Key : x[table] = d[table]) => Keeps(x)
  OBVIOUS
<1>2. \A x : \A table \in DOMAIN Key : Changes(d, x, table) => DbInv(x) /\ Keeps(x)
  <2>1. \A rows : \A r : rows \ rows \subseteq {r}
    OBVIOUS
  <2> QED
    BY <2>1 DEF Changes
<1>3. CASE s.do \in {"insert", "update", "delete"}
  <2>1. PICK table, row, new, where :
          table = s.table /\ row = s.row /\ new = s.new /\ where = s.where
    OBVIOUS
  <2>2. table \in DOMAIN Key
    BY <1>3, <2>1 DEF Proper
  <2>3. ASSUME s.do = "insert" PROVE Changes(d, e, table)
    <3>1. e = Insert(d, table, row).db
      BY <2>1, <2>3 DEF Execute
    <3>2. DOMAIN row = Columns[table] \ {"id"} /\ HasTexts(row, table)
      BY <2>1, <2>3 DEF Proper
    <3> HIDE DEF e
    <3> QED
      BY <2>2, <3>1, <3>2, InsertDb
  <2>4. ASSUME s.do = "update" PROVE Changes(d, e, table)
    <3>1. e = Update(d, table, new, where).db
      BY <2>1, <2>4 DEF Execute
    <3>2. /\ DOMAIN new \subseteq Columns[table] \ {"id"}
          /\ HasTexts(new, table) /\ DOMAIN where = {Key[table]}
      BY <2>1, <2>4 DEF Proper
    <3> HIDE DEF e
    <3> QED
      BY <2>2, <3>1, <3>2, UpdateDb
  <2>5. ASSUME s.do = "delete" PROVE Changes(d, e, table)
    <3>1. e = Delete(d, table, where).db
      BY <2>1, <2>5 DEF Execute
    <3>2. DOMAIN where = {Key[table]}
      BY <2>1, <2>5 DEF Proper
    <3> HIDE DEF e
    <3> QED
      BY <2>2, <3>1, <3>2, DeleteDb
  <2> HIDE DEF e
  <2>6. Changes(d, e, table)
    BY <1>3, <2>3, <2>4, <2>5
  <2> QED
    BY <1>2, <2>2, <2>6 DEF e
<1>4. CASE s.do \in {"select", "choices"}
  <2>1. e = d
    <3>1. CASE s.do = "select"
      BY <3>1 DEF Execute, Listed
    <3>2. CASE s.do = "choices"
      BY <3>2 DEF Execute, ListChoices, Listed, Failed
    <3> QED
      BY <1>4, <3>1, <3>2
  <2> QED
    BY <1>1, <2>1
<1>5. CASE s.do = "giveClass"
  <2> DEFINE class == Where(d.t_class, [class_name |-> s.class])
  <2>1. PICK new, where : /\ new = [stu_class |-> Scalar(Ids(class))]
                          /\ where = [stu_number |-> s.number]
    OBVIOUS
  <2>2. e = Update(d, "t_stu", new, where).db
    BY <1>5, <2>1 DEF Execute
  <2>3. /\ "t_stu" \in DOMAIN Key /\ DOMAIN new = {"stu_class"}
        /\ Columns["t_stu"] = {"id", "stu_number", "stu_name", "stu_class"}
        /\ TextColumns["t_stu"] = {"stu_number", "stu_name"}
        /\ DOMAIN where = {"stu_number"} /\ Key["t_stu"] = "stu_number"
    BY <2>1 DEF Key, Columns, TextColumns
  <2>4. PICK table : table = "t_stu"
    OBVIOUS
  <2>5. /\ table \in DOMAIN Key /\ DOMAIN where = {Key[table]}
        /\ DOMAIN new \subseteq Columns[table] \ {"id"} /\ HasTexts(new, table)
        /\ e = Update(d, table, new, where).db
    BY <2>2, <2>3, <2>4 DEF HasTexts
  <2>6. Changes(d, e, table)
    BY <2>5, UpdateDb
  <2> QED
    BY <1>2, <2>5, <2>6
<1>6. CASE s.do = "giveCourse"
  <2>1. PICK sel : sel = SelectionOf(d, s.number, s.course)
    OBVIOUS
  <2>2. IsRow("t_selcourse", sel)
    BY <2>1, SelectionRow
  <2>3. e = d \/ e = [d EXCEPT !.t_selcourse = d.t_selcourse \union {sel}]
    BY <1>6, <2>1 DEF Execute, InsertSelection, Done, Failed
  <2> HIDE DEF e
  <2>4. DbInv(e) /\ \A table \in DOMAIN Key : e[table] = d[table]
    BY <2>2, <2>3, SelectionsDb
  <2> QED
    BY <1>1, <2>4 DEF e
<1>7. CASE s.do = "dropCourse"
  <2>1. PICK rows : rows = d.t_selcourse \ {SelectionOf(d, s.number, s.course)}
    OBVIOUS
  <2>2. e = [d EXCEPT !.t_selcourse = rows] /\ rows \subseteq d.t_selcourse
    BY <1>7, <2>1 DEF Execute, Done
  <2> HIDE DEF e
  <2>3. DbInv(e) /\ \A table \in DOMAIN Key : e[table] = d[table]
    BY <2>2, SelectionsDb
  <2> QED
    BY <1>1, <2>3 DEF e
<1>8. s.do \in Kinds \ {"nothing"}
  BY DEF Proper
<1> QED
  BY <1>3, <1>4, <1>5, <1>6, <1>7, <1>8 DEF Kinds
-----------------------------------------------------------------------------
(***************************************************************************)
(* Statements that list.                                                   *)
(***************************************************************************)
LEMMA ListedAnswer ==
  ASSUME NEW d, NEW C \in SUBSET ListColumns,
         NEW columns \in Seq(C), columns # <<>>,
         NEW rows, IsFiniteSet(rows), \A r \in rows : \A col \in C : r[col] \in Texts
  PROVE  IsAnswer(Answer(Listed(d, columns, rows)))
<1> DEFINE f == [row \in rows |-> [i \in DOMAIN columns |-> row[columns[i]]]]
           a == Answer(Listed(d, columns, rows))
<1>1. a.head = columns /\ a.rows = {f[row] : row \in rows}
  BY DEF Answer, Listed
<1>2. IsFiniteSet({f[row] : row \in rows})
  <2>1. DOMAIN f = rows
    OBVIOUS
  <2> HIDE DEF f
  <2> QED
    BY <2>1, FiniteImage
<1>3. \A row \in rows : f[row] \in Seq(Texts) \ {<<>>}
  <2>1. /\ Len(columns) \in Nat \ {0} /\ DOMAIN columns = 1 .. Len(columns)
        /\ \A i \in 1 .. Len(columns) : columns[i] \in C
    BY EmptySeq, LenProperties, ElementOfSeq
  <2>2. PICK n \in Nat \ {0} : n = Len(columns)
    BY <2>1
  <2>3. \A row \in rows : \A i \in 1 .. n : row[columns[i]] \in Texts
    BY <2>1, <2>2
  <2>4. ASSUME NEW row \in rows PROVE f[row] \in Seq(Texts) \ {<<>>}
    <3>1. PICK g : g = [i \in 1 .. n |-> row[columns[i]]]
      OBVIOUS
    <3>2. g \in [1 .. n -> Texts]
      BY <2>3, <3>1
    <3>3. g \in Seq(Texts) /\ Len(g) = n
      BY <3>2
    <3>4. g # <<>>
      BY <3>3
    <3> QED
      BY <2>1, <2>2, <3>1, <3>3, <3>4
  <2> QED
    BY <2>4
<1>4. columns \in Seq(ListColumns) \ {<<>>}
  BY SeqMonotonic
<1> HIDE DEF f, a
<1> QED
  BY <1>1, <1>2, <1>3, <1>4 DEF IsAnswer, a

LEMMA SilentAnswer ==
  ASSUME NEW d
  PROVE  IsAnswer(Answer(Done(d))) /\ IsAnswer(Answer(Failed(d)))
  BY DEF IsAnswer, Answer, Done, Failed

LEMMA ListColumnNames ==
  /\ ListColumns = {"stu_number", "stu_name", "class_name", "course_number",
                    "course_name"}
  /\ \A table \in DOMAIN TextColumns : TextColumns[table] \subseteq ListColumns
<1>1. DOMAIN TextColumns = {"t_stu", "t_class", "t_course", "t_selcourse"}
  BY DEF TextColumns
<1>2. /\ TextColumns["t_stu"] = {"stu_number", "stu_name"}
      /\ TextColumns["t_class"] = {"class_name"}
      /\ TextColumns["t_course"] = {"course_number", "course_name"}
      /\ TextColumns["t_selcourse"] = {}
  BY DEF TextColumns
<1>3. \A x : x \in ListColumns <=> \E table \in DOMAIN TextColumns : x \in TextColumns[table]
  BY DEF ListColumns
<1> QED
  BY <1>1, <1>2, <1>3

\* The join of students and classes.
LEMMA ClassmatesRows ==
  ASSUME NEW d, DbInv(d)
  PROVE  /\ IsFiniteSet(StudentsInClass(d))
         /\ \A r \in StudentsInClass(d) :
              \A col \in TextColumns.t_stu \union TextColumns.t_class : r[col] \in Texts
<1> DEFINE P == d.t_stu \X d.t_class
           Q == {q \in P : q[1].stu_class = q[2].id}
           f == [p \in Q |-> With(p[1], [class_name |-> p[2].class_name])]
<1>1. /\ IsFiniteSet(d.t_stu) /\ IsFiniteSet(d.t_class)
      /\ \A r \in d.t_stu : IsRow("t_stu", r)
      /\ \A r \in d.t_class : IsRow("t_class", r)
  BY TableNames DEF DbInv
<1>2. IsFiniteSet(Q)
  <2>1. IsFiniteSet(P)
    BY <1>1, FS_Product
  <2>2. Q \in SUBSET P
    OBVIOUS
  <2> HIDE DEF P, Q
  <2> QED
    BY <2>1, <2>2, FS_Subset
<1>3. StudentsInClass(d) = {f[p] : p \in Q}
  BY DEF StudentsInClass
<1>4. IsFiniteSet({f[p] : p \in Q})
  <2>1. DOMAIN f = Q
    OBVIOUS
  <2> HIDE DEF f, Q
  <2> QED
    BY <1>2, <2>1, FiniteImage
<1>5. ASSUME NEW p \in Q,
             NEW col \in TextColumns.t_stu \union TextColumns.t_class
      PROVE  f[p][col] \in Texts
  <2>1. PICK r, q, new : /\ r = p[1] /\ q = p[2]
                         /\ new = [class_name |-> q.class_name]
    OBVIOUS
  <2>2. IsRow("t_stu", r) /\ IsRow("t_class", q) /\ DOMAIN new = {"class_name"}
    BY <1>1, <2>1
  <2>3. /\ DOMAIN r = {"id", "stu_number", "stu_name", "stu_class"}
        /\ r["stu_number"] \in Texts /\ r["stu_name"] \in Texts
        /\ q["class_name"] \in Texts
        /\ col \in {"stu_number", "stu_name", "class_name"}
    BY <2>2 DEF IsRow, Columns, TextColumns
  <2>4. With(r, new)[col] = IF col \in {"class_name"} THEN new[col] ELSE r[col]
    BY <2>2, <2>3, WithColumns
  <2>5. f[p] = With(r, new) /\ new["class_name"] = q["class_name"]
    BY <2>1
  <2> QED
    BY <2>3, <2>4, <2>5
<1> HIDE DEF f, Q
<1> QED
  BY <1>3, <1>4, <1>5

\* A set of triples.
LEMMA TriplesFinite ==
  ASSUME NEW A, NEW B, NEW C, IsFiniteSet(A), IsFiniteSet(B), IsFiniteSet(C)
  PROVE  IsFiniteSet(A \X B \X C)
<1> DEFINE P == (A \X B) \X C
           f == [p \in P |-> <<p[1][1], p[1][2], p[2]>>]
<1>1. IsFiniteSet(P)
  <2>1. IsFiniteSet(A \X B)
    BY FS_Product
  <2> DEFINE D == A \X B
  <2> HIDE DEF D
  <2>2. IsFiniteSet(D \X C)
    BY <2>1, FS_Product DEF D
  <2> QED
    BY <2>2 DEF D
<1>2. A \X B \X C = {f[p] : p \in P}
  <2>1. \A p \in P : f[p] \in A \X B \X C
    OBVIOUS
  <2>2. ASSUME NEW t \in A \X B \X C PROVE \E p \in P : t = f[p]
    <3>1. <<<<t[1], t[2]>>, t[3]>> \in P
      OBVIOUS
    <3>2. t = f[<<<<t[1], t[2]>>, t[3]>>]
      BY <3>1
    <3> QED
      BY <3>1, <3>2
  <2> QED
    BY <2>1, <2>2
<1>3. DOMAIN f = P
  OBVIOUS
<1> HIDE DEF f, P
<1> QED
  BY <1>1, <1>2, <1>3, FiniteImage

\* The join of students, courses and selections.
LEMMA ChosenRows ==
  ASSUME NEW d, DbInv(d)
  PROVE  /\ IsFiniteSet(Chosen(d))
         /\ \A r \in Chosen(d) :
              \A col \in TextColumns.t_stu \union TextColumns.t_course :
                r[col] \in Texts
<1> DEFINE P == d.t_stu \X d.t_course \X d.t_selcourse
           Q == {q \in P : q[3] = [sel_stu_id |-> q[1].id, sel_course_id |-> q[2].id]}
           f == [p \in Q |-> With(With(p[2], p[1]), p[3])]
<1>1. /\ IsFiniteSet(d.t_stu) /\ IsFiniteSet(d.t_course) /\ IsFiniteSet(d.t_selcourse)
      /\ \A r \in d.t_stu : IsRow("t_stu", r)
      /\ \A r \in d.t_course : IsRow("t_course", r)
      /\ \A r \in d.t_selcourse : IsRow("t_selcourse", r)
  BY TableNames DEF DbInv
<1>2. IsFiniteSet(Q)
  <2>1. IsFiniteSet(P)
    BY <1>1, TriplesFinite
  <2>2. Q \in SUBSET P
    OBVIOUS
  <2> HIDE DEF P, Q
  <2> QED
    BY <2>1, <2>2, FS_Subset
<1>3. Chosen(d) = {f[p] : p \in Q}
  BY DEF Chosen
<1>4. IsFiniteSet({f[p] : p \in Q})
  <2>1. DOMAIN f = Q
    OBVIOUS
  <2> HIDE DEF f, Q
  <2> QED
    BY <1>2, <2>1, FiniteImage
<1>5. ASSUME NEW p \in Q,
             NEW col \in TextColumns.t_stu \union TextColumns.t_course
      PROVE  f[p][col] \in Texts
  <2>1. PICK r, q, sel, both : /\ r = p[1] /\ q = p[2] /\ sel = p[3]
                               /\ both = With(q, r)
    OBVIOUS
  <2>2. f[p] = With(both, sel)
    BY <2>1
  <2>3. /\ DOMAIN r = {"id", "stu_number", "stu_name", "stu_class"}
        /\ DOMAIN q = {"id", "course_number", "course_name"}
        /\ DOMAIN sel = {"sel_stu_id", "sel_course_id"}
        /\ r["stu_number"] \in Texts /\ r["stu_name"] \in Texts
        /\ q["course_number"] \in Texts /\ q["course_name"] \in Texts
        /\ col \in {"stu_number", "stu_name", "course_number", "course_name"}
    <3>1. IsRow("t_stu", r) /\ IsRow("t_course", q) /\ IsRow("t_selcourse", sel)
      BY <1>1, <2>1
    <3> QED
      BY <3>1 DEF IsRow, Columns, TextColumns
  <2> HIDE DEF P, Q, f
  <2>4. both = With(q, r)
    BY <2>1
  <2>5. DOMAIN both = DOMAIN q \union DOMAIN r
    BY <2>4, WithColumns
  <2>6. col \in DOMAIN q \union DOMAIN r /\ col \notin DOMAIN sel
    BY <2>3
  <2>7. both[col] = IF col \in DOMAIN r THEN r[col] ELSE q[col]
    BY <2>4, <2>6, WithColumns
  <2>8. With(both, sel)[col] = IF col \in DOMAIN sel THEN sel[col] ELSE both[col]
    <3>1. \A x \in DOMAIN both \union DOMAIN sel :
            With(both, sel)[x] = IF x \in DOMAIN sel THEN sel[x] ELSE both[x]
      BY WithColumns
    <3> QED
      BY <2>5, <2>6, <3>1
  <2> QED
    BY <2>2, <2>3, <2>6, <2>7, <2>8
<1> HIDE DEF f, Q
<1> QED
  BY <1>3, <1>4, <1>5

\* What a handler asks for is answered with a list of texts, or with none.
LEMMA ExecuteAnswer ==
  ASSUME NEW d, DbInv(d), NEW s, Proper(s)
  PROVE  IsAnswer(Answer(Execute(s, d)))
<1>1. \A e : IsAnswer(Answer(Done(e))) /\ IsAnswer(Answer(Failed(e)))
  BY SilentAnswer
<1>2. CASE s.do \in {"insert", "update", "delete", "giveClass"}
  <2>1. \E e : Execute(s, d) \in {Done(e), Failed(e)}
    <3>1. \A table, row : \E e : Insert(d, table, row) \in {Done(e), Failed(e)}
      BY DEF Insert
    <3>2. \A table, new, where : \E e : Update(d, table, new, where) \in {Done(e), Failed(e)}
      BY DEF Update
    <3>3. \A table, where : \E e : Delete(d, table, where) \in {Done(e), Failed(e)}
      BY DEF Delete
    <3>4. CASE s.do = "insert"
      BY <3>1, <3>4 DEF Execute
    <3>5. CASE s.do = "update"
      BY <3>2, <3>5 DEF Execute
    <3>6. CASE s.do = "delete"
      BY <3>3, <3>6 DEF Execute
    <3>7. CASE s.do = "giveClass"
      BY <3>2, <3>7 DEF Execute
    <3> QED
      BY <1>2, <3>4, <3>5, <3>6, <3>7
  <2> QED
    BY <1>1, <2>1
<1>3. CASE s.do \in {"giveCourse", "dropCourse"}
  <2>1. \E e : Execute(s, d) \in {Done(e), Failed(e)}
    <3>1. CASE s.do = "giveCourse"
      BY <3>1 DEF Execute, InsertSelection
    <3>2. CASE s.do = "dropCourse"
      BY <3>2 DEF Execute
    <3> QED
      BY <1>3, <3>1, <3>2
  <2> QED
    BY <1>1, <2>1
<1>4. CASE s.do = "select"
  <2>1. PICK columns, rows, view :
          /\ columns = s.columns /\ rows = Where(view, s.where)
          /\ view = View(d, s.view)
    OBVIOUS
  <2>2. Execute(s, d) = Listed(d, columns, rows)
    BY <1>4, <2>1 DEF Execute
  <2>3. PICK C : /\ C \subseteq ListColumns /\ columns \in Seq(C)
                 /\ IsFiniteSet(view) /\ \A r \in view : \A col \in C : r[col] \in Texts
    <3>1. CASE s.view \in DOMAIN Key
      <4>1. s.columns \in Seq(TextColumns[s.view])
        BY <1>4, <3>1 DEF Proper, Key
      <4>2. s.view \in DOMAIN Columns /\ TextColumns[s.view] \subseteq ListColumns
        BY <3>1, TableNames, ListColumnNames
      <4>3. view = d[s.view]
        BY <2>1, <3>1 DEF View, Key
      <4>4. /\ IsFiniteSet(view)
            /\ \A r \in view : \A col \in TextColumns[s.view] : r[col] \in Texts
        BY <4>2, <4>3 DEF DbInv, IsRow
      <4> QED
        BY <2>1, <4>1, <4>2, <4>4
    <3>2. CASE s.view \notin DOMAIN Key
      <4>1. /\ s.view = "classmates"
            /\ s.columns \in Seq(TextColumns.t_stu \union TextColumns.t_class)
        BY <1>4, <3>2 DEF Proper
      <4>2. TextColumns.t_stu \union TextColumns.t_class \subseteq ListColumns
        BY TableNames, ListColumnNames
      <4>3. view = StudentsInClass(d)
        BY <2>1, <4>1 DEF View
      <4> QED
        BY <2>1, <4>1, <4>2, <4>3, ClassmatesRows
    <3> QED
      BY <3>1, <3>2
  <2>4. IsFiniteSet(rows) /\ \A r \in rows : \A col \in C : r[col] \in Texts
    <3>1. rows \in SUBSET view
      BY <2>1 DEF Where
    <3> QED
      BY <2>3, <3>1, FS_Subset
  <2>5. columns # <<>> /\ C \in SUBSET ListColumns
    BY <1>4, <2>1, <2>3 DEF Proper
  <2> QED
    BY <2>2, <2>3, <2>4, <2>5, ListedAnswer
<1>5. CASE s.do = "choices"
  <2> DEFINE C == TextColumns.t_stu \union TextColumns.t_course
  <2>1. \/ Execute(s, d) = Failed(d)
        \/ \E ids : Execute(s, d)
                      = Listed(d, s.columns, {r \in Chosen(d) : r[s.of] \in ids})
    BY <1>5 DEF Execute, ListChoices
  <2>2. C \in SUBSET ListColumns
    BY TableNames, ListColumnNames
  <2>3. s.columns \in Seq(C) /\ s.columns # <<>>
    BY <1>5 DEF Proper
  <2>4. /\ IsFiniteSet(Chosen(d))
        /\ \A r \in Chosen(d) : \A col \in C : r[col] \in Texts
    BY ChosenRows
  <2> HIDE DEF C
  <2>5. ASSUME NEW ids
        PROVE  IsAnswer(Answer(Listed(d, s.columns, {r \in Chosen(d) : r[s.of] \in ids})))
    <3>1. PICK columns, rows :
            columns = s.columns /\ rows = {r \in Chosen(d) : r[s.of] \in ids}
      OBVIOUS
    <3>2. rows \in SUBSET Chosen(d)
      BY <3>1
    <3>3. IsFiniteSet(rows) /\ \A r \in rows : \A col \in C : r[col] \in Texts
      BY <2>4, <3>2, FS_Subset
    <3> QED
      BY <2>2, <2>3, <3>1, <3>3, ListedAnswer
  <2> QED
    BY <1>1, <2>1, <2>5
<1> QED
  BY <1>2, <1>3, <1>4, <1>5 DEF Proper, Kinds
-----------------------------------------------------------------------------
(***************************************************************************)
(* Bytes on their way to the database.                                     *)
(***************************************************************************)
\* A text is written with bytes of a set.
LEMMA CarriesSeq ==
  ASSUME NEW t
  PROVE  Carries(t) <=> \E B : t \in Seq(B) /\ \A b \in B : IsByte(b)
<1>1. ASSUME Carries(t) PROVE \E B : t \in Seq(B) /\ \A b \in B : IsByte(b)
  <2>1. PICK B : B = {t[i] : i \in DOMAIN t}
    OBVIOUS
  <2> QED
    BY <1>1, <2>1 DEF Carries, IsText
<1>2. ASSUME NEW B, t \in Seq(B), \A b \in B : IsByte(b) PROVE Carries(t)
  <2>1. IsText(t)
    BY <1>2, TextOfSeq
  <2>2. \A i \in DOMAIN t : t[i] \in B
    BY <1>2, ElementOfSeq, LenProperties
  <2> QED
    BY <1>2, <2>1, <2>2 DEF Carries
<1> QED
  BY <1>1, <1>2

LEMMA CarriesConcat ==
  ASSUME NEW t, Carries(t), NEW u, Carries(u) PROVE Carries(t \o u)
<1>1. PICK B : t \in Seq(B) /\ \A b \in B : IsByte(b)
  BY CarriesSeq
<1>2. PICK C : u \in Seq(C) /\ \A b \in C : IsByte(b)
  BY CarriesSeq
<1> DEFINE D == B \union C
<1>3. t \in Seq(D) /\ u \in Seq(D) /\ \A b \in D : IsByte(b)
  BY <1>1, <1>2, SeqMonotonic
<1> HIDE DEF D
<1>4. t \o u \in Seq(D)
  BY <1>3, ConcatProperties
<1> QED
  BY <1>3, <1>4, CarriesSeq

LEMMA CarriesCut ==
  ASSUME NEW t, Carries(t), NEW m \in Nat \ {0}, NEW n \in 0 .. Len(t)
  PROVE  Carries(SubSeq(t, m, n))
<1>1. PICK B : t \in Seq(B) /\ \A b \in B : IsByte(b)
  BY CarriesSeq
<1>2. \A i \in m .. n : t[i] \in B
  <2>1. Len(t) \in Nat /\ \A i \in m .. n : i \in 1 .. Len(t)
    BY <1>1, LenProperties
  <2> QED
    BY <1>1, <2>1, ElementOfSeq
<1>3. m \in Int /\ n \in Int
  BY <1>1, LenProperties
<1>4. SubSeq(t, m, n) \in Seq(B)
  BY <1>2, <1>3, SubSeqProperties
<1> QED
  BY <1>1, <1>4, CarriesSeq

LEMMA Product == \A a, b \in Nat : a * b \in Nat
  OBVIOUS

LEMMA CarriesNothing == Carries(<<>>)
<1>1. DOMAIN <<>> = {}
  OBVIOUS
<1> QED
  BY <1>1, EmptyText DEF Carries

LEMMA ProperKnown ==
  ASSUME NEW s, Proper(s) PROVE Known(s) /\ s # NoStatement
  BY DEF Proper, Known, Kinds, NoStatement

LEMMA CarriesStatement ==
  ASSUME NEW s, Proper(s) PROVE Carries(Statement(s))
<1>1. IsText(Statement(s))
  BY ProperKnown, StatementText
<1>2. \A i \in DOMAIN Statement(s) : Statement(s)[i] = [of |-> s, at |-> i]
  BY DEF Statement
<1>3. \A i : IsByte([of |-> s, at |-> i])
  BY DEF IsByte
<1> QED
  BY <1>1, <1>2, <1>3 DEF Carries

\* What is read up to the first NUL.
LEMMA CarriesCString ==
  ASSUME NEW size \in Nat, NEW buff, DOMAIN buff = 1 .. size,
         buff = [i \in 1 .. size |-> buff[i]],
         \A i \in 1 .. size : IsByte(buff[i])
  PROVE  Carries(CString(buff))
<1> DEFINE B == {buff[i] : i \in 1 .. size}
           k == Find(buff, NUL)
           P == Positions(buff, NUL)
<1>1. buff \in Seq(B) /\ Len(buff) = size /\ \A b \in B : IsByte(b)
  <2>1. buff \in [1 .. size -> B]
    OBVIOUS
  <2>2. \A b \in B : IsByte(b)
    OBVIOUS
  <2> HIDE DEF B
  <2> QED
    BY <2>1, <2>2
<1> HIDE DEF B
<1>2. Carries(buff)
  BY <1>1, CarriesSeq
<1>3. k = 0 \/ k \in 1 .. size
  <2>1. ASSUME P # {} PROVE k \in P
    <3>1. P \subseteq Nat /\ P \in SUBSET (1 .. size)
      BY DEF Positions
    <3>2. PICK m \in P : \A j \in P : m <= j
      <4>1. PICK m \in P : \A j \in P : <<j, m>> \notin OpToRel(<, Nat)
        BY <2>1, <3>1, NatLessThanWellFounded, WFMin
      <4>2. \A j \in P : ~(j < m)
        BY <3>1, <4>1 DEF OpToRel
      <4>3. \A j \in P : m <= j
        BY <3>1, <4>2
      <4> QED
        BY <4>3
    <3>3. k = CHOOSE i \in P : \A j \in P : i <= j
      BY <2>1 DEF Find
    <3> HIDE DEF P, k
    <3> QED
      BY <3>2, <3>3, Zenon
  <2>2. P = {} => k = 0
    BY DEF Find
  <2> QED
    BY <2>1, <2>2 DEF Positions
<1>4. CASE k = 0
  BY <1>2, <1>4 DEF CString
<1>5. CASE k \in 1 .. size
  <2>1. k # 0 /\ 1 \in Nat \ {0} /\ k - 1 \in 0 .. Len(buff)
    BY <1>1, <1>5
  <2>2. CString(buff) = SubSeq(buff, 1, k - 1)
    BY <2>1 DEF CString
  <2> HIDE DEF k
  <2> QED
    BY <1>2, <2>1, <2>2, CarriesCut
<1> QED
  BY <1>3, <1>4, <1>5
-----------------------------------------------------------------------------
(***************************************************************************)
(* What the handlers send.                                                 *)
(***************************************************************************)
LEMMA ProperChanges ==
  ASSUME NEW table \in DOMAIN Key, NEW row, NEW where
  PROVE  /\ DOMAIN row = Columns[table] \ {"id"} /\ HasTexts(row, table)
              => Proper(Insertion(table, row))
         /\ DOMAIN row \subseteq Columns[table] \ {"id"}
              /\ HasTexts(row, table) /\ DOMAIN where = {Key[table]}
              => Proper(Change(table, row, where))
         /\ DOMAIN where = {Key[table]} => Proper(Deletion(table, where))
<1>1. DOMAIN row = Columns[table] \ {"id"} /\ HasTexts(row, table)
        => Proper(Insertion(table, row))
  BY DEF Proper, Insertion, Kinds
<1>2. DOMAIN row \subseteq Columns[table] \ {"id"}
        /\ HasTexts(row, table) /\ DOMAIN where = {Key[table]}
        => Proper(Change(table, row, where))
  BY DEF Proper, Change, Kinds
<1>3. DOMAIN where = {Key[table]} => Proper(Deletion(table, where))
  BY DEF Proper, Deletion, Kinds
<1> QED
  BY <1>1, <1>2, <1>3

LEMMA ProperSelections ==
  ASSUME NEW columns, columns # <<>>, NEW where
  PROVE  /\ \A view \in DOMAIN Key :
              columns \in Seq(TextColumns[view])
                => Proper(Selection(view, columns, where))
         /\ columns \in Seq(TextColumns.t_stu \union TextColumns.t_class)
              => Proper(Selection("classmates", columns, where))
         /\ \A of, text :
              columns \in Seq(TextColumns.t_stu \union TextColumns.t_course)
                => Proper(ChoiceList(of, columns, text))
<1>1. ASSUME NEW view \in DOMAIN Key, columns \in Seq(TextColumns[view])
      PROVE  Proper(Selection(view, columns, where))
  BY <1>1 DEF Proper, Selection, Kinds
<1>2. ASSUME columns \in Seq(TextColumns.t_stu \union TextColumns.t_class)
      PROVE  Proper(Selection("classmates", columns, where))
  BY <1>2 DEF Proper, Selection, Kinds
<1>3. ASSUME NEW of, NEW text,
             columns \in Seq(TextColumns.t_stu \union TextColumns.t_course)
      PROVE  Proper(ChoiceList(of, columns, text))
  BY <1>3 DEF Proper, ChoiceList, Kinds
<1> QED
  BY <1>1, <1>2, <1>3

LEMMA ProperGifts ==
  \A number, other :
    /\ Proper(GiftOfClass(number, other)) /\ Proper(GiftOfCourse(number, other))
    /\ Proper(LossOfCourse(number, other))
  BY DEF Proper, GiftOfClass, GiftOfCourse, LossOfCourse, Kinds

LEMMA TypedTexts ==
  /\ StuNumbers \subseteq Texts /\ StuNames \subseteq Texts
  /\ CourseNumbers \subseteq Texts /\ CourseNames \subseteq Texts
  /\ ClassNames \subseteq Texts
  BY DEF Texts

LEMMA ClickProper ==
  ASSUME NEW c, Click(c)
  PROVE  \E s : (Proper(s) \/ s = NoStatement) /\ DealMessage(c, s)
<1> DEFINE Goal == \E s : (Proper(s) \/ s = NoStatement) /\ DealMessage(c, s)
<1>1. \A s : Proper(s) /\ DealMessage(c, s) => Goal
  OBVIOUS
<1>2. /\ {"t_stu", "t_class", "t_course"} = DOMAIN Key
      /\ Key["t_stu"] = "stu_number" /\ Key["t_class"] = "class_name"
      /\ Key["t_course"] = "course_number"
      /\ Columns["t_stu"] = {"id", "stu_number", "stu_name", "stu_class"}
      /\ Columns["t_class"] = {"id", "class_name"}
      /\ Columns["t_course"] = {"id", "course_number", "course_name"}
      /\ TextColumns["t_stu"] = {"stu_number", "stu_name"}
      /\ TextColumns["t_class"] = {"class_name"}
      /\ TextColumns["t_course"] = {"course_number", "course_name"}
  BY DEF Key, Columns, TextColumns
<1>3. ASSUME NEW table \in DOMAIN Key, NEW row, NEW where
      PROVE  /\ DOMAIN row = Columns[table] \ {"id"} /\ HasTexts(row, table)
                  => Proper(Insertion(table, row))
             /\ DOMAIN row \subseteq Columns[table] \ {"id"}
                  /\ HasTexts(row, table) /\ DOMAIN where = {Key[table]}
                  => Proper(Change(table, row, where))
             /\ DOMAIN where = {Key[table]} => Proper(Deletion(table, where))
  BY ProperChanges
<1> HIDE DEF Goal
<1>4. CASE AddStudent(c)
  <2>1. PICK number, name, row :
          /\ number \in StuNumbers /\ name \in StuNames
          /\ row = [stu_number |-> number, stu_name |-> name, stu_class |-> Null]
          /\ DealMessage(c, Insertion("t_stu", row))
    BY <1>4, Zenon DEF AddStudent
  <2>2. DOMAIN row = Columns["t_stu"] \ {"id"} /\ HasTexts(row, "t_stu")
    BY <1>2, <2>1, TypedTexts DEF HasTexts
  <2> QED
    BY <1>1, <1>2, <1>3, <2>1, <2>2
<1>5. CASE AddCourse(c)
  <2>1. PICK number, name, row :
          /\ number \in CourseNumbers /\ name \in CourseNames
          /\ row = [course_number |-> number, course_name |-> name]
          /\ DealMessage(c, Insertion("t_course", row))
    BY <1>5, Zenon DEF AddCourse
  <2>2. DOMAIN row = Columns["t_course"] \ {"id"} /\ HasTexts(row, "t_course")
    BY <1>2, <2>1, TypedTexts DEF HasTexts
  <2> QED
    BY <1>1, <1>2, <1>3, <2>1, <2>2
<1>6. CASE AddClass(c)
  <2>1. PICK name, row :
          /\ name \in ClassNames
          /\ row = [class_name |-> name] /\ DealMessage(c, Insertion("t_class", row))
    BY <1>6, Zenon DEF AddClass
  <2>2. DOMAIN row = Columns["t_class"] \ {"id"} /\ HasTexts(row, "t_class")
    BY <1>2, <2>1, TypedTexts DEF HasTexts
  <2> QED
    BY <1>1, <1>2, <1>3, <2>1, <2>2
<1>7. CASE ModifyStudent(c)
  <2>1. PICK number, name, new, where :
          /\ number \in StuNumbers /\ name \in StuNames
          /\ new = [stu_name |-> name] /\ where = [stu_number |-> number]
          /\ DealMessage(c, Change("t_stu", new, where))
    BY <1>7, Zenon DEF ModifyStudent
  <2>2. /\ DOMAIN new \subseteq Columns["t_stu"] \ {"id"} /\ HasTexts(new, "t_stu")
        /\ DOMAIN where = {Key["t_stu"]}
    BY <1>2, <2>1, TypedTexts DEF HasTexts
  <2> QED
    BY <1>1, <1>2, <1>3, <2>1, <2>2
<1>8. CASE ModifyCourse(c)
  <2>1. PICK number, name, new, where :
          /\ number \in CourseNumbers /\ name \in CourseNames
          /\ new = [course_name |-> name] /\ where = [course_number |-> number]
          /\ DealMessage(c, Change("t_course", new, where))
    BY <1>8, Zenon DEF ModifyCourse
  <2>2. /\ DOMAIN new \subseteq Columns["t_course"] \ {"id"}
        /\ HasTexts(new, "t_course") /\ DOMAIN where = {Key["t_course"]}
    BY <1>2, <2>1, TypedTexts DEF HasTexts
  <2> QED
    BY <1>1, <1>2, <1>3, <2>1, <2>2
<1>9. CASE ModifyClass(c)
  <2>1. PICK name, newName, new, where :
          /\ name \in ClassNames /\ newName \in ClassNames
          /\ new = [class_name |-> newName] /\ where = [class_name |-> name]
          /\ DealMessage(c, Change("t_class", new, where))
    BY <1>9, Zenon DEF ModifyClass
  <2>2. /\ DOMAIN new \subseteq Columns["t_class"] \ {"id"}
        /\ HasTexts(new, "t_class") /\ DOMAIN where = {Key["t_class"]}
    BY <1>2, <2>1, TypedTexts DEF HasTexts
  <2> QED
    BY <1>1, <1>2, <1>3, <2>1, <2>2
<1>10. CASE DelStudent(c) \/ DelCourse(c) \/ DelClass(c)
  <2>1. PICK table, where :
          /\ table \in DOMAIN Key
          /\ DOMAIN where = {Key[table]} /\ DealMessage(c, Deletion(table, where))
    <3>1. CASE DelStudent(c)
      <4>1. PICK number, where : /\ where = [stu_number |-> number]
                                 /\ DealMessage(c, Deletion("t_stu", where))
        BY <3>1, Zenon DEF DelStudent
      <4>2. DOMAIN where = {Key["t_stu"]}
        BY <1>2, <4>1
      <4> QED
        BY <1>2, <4>1, <4>2
    <3>2. CASE DelCourse(c)
      <4>1. PICK number, where : /\ where = [course_number |-> number]
                                 /\ DealMessage(c, Deletion("t_course", where))
        BY <3>2, Zenon DEF DelCourse
      <4>2. DOMAIN where = {Key["t_course"]}
        BY <1>2, <4>1
      <4> QED
        BY <1>2, <4>1, <4>2
    <3>3. CASE DelClass(c)
      <4>1. PICK name, where : /\ where = [class_name |-> name]
                               /\ DealMessage(c, Deletion("t_class", where))
        BY <3>3, Zenon DEF DelClass
      <4>2. DOMAIN where = {Key["t_class"]}
        BY <1>2, <4>1
      <4> QED
        BY <1>2, <4>1, <4>2
    <3> QED
      BY <1>10, <3>1, <3>2, <3>3
  <2> QED
    BY <1>1, <1>3, <2>1
<1>11. CASE CheckStudent(c) \/ CheckCourse(c) \/ CheckClass(c)
  <2>1. PICK view, columns, where :
          /\ view \in DOMAIN Key /\ columns \in Seq(TextColumns[view])
          /\ columns # <<>> /\ DealMessage(c, Selection(view, columns, where))
    <3>1. CASE CheckStudent(c)
      <4>1. PICK columns, where : /\ columns = <<"stu_number", "stu_name">>
                                  /\ DealMessage(c, Selection("t_stu", columns, where))
        BY <3>1, Zenon DEF CheckStudent
      <4>2. columns \in Seq(TextColumns["t_stu"]) /\ columns # <<>>
        BY <1>2, <4>1
      <4> QED
        BY <1>2, <4>1, <4>2
    <3>2. CASE CheckCourse(c)
      <4>1. PICK columns, where : /\ columns = <<"course_number", "course_name">>
                                  /\ DealMessage(c, Selection("t_course", columns, where))
        BY <3>2, Zenon DEF CheckCourse
      <4>2. columns \in Seq(TextColumns["t_course"]) /\ columns # <<>>
        BY <1>2, <4>1
      <4> QED
        BY <1>2, <4>1, <4>2
    <3>3. CASE CheckClass(c)
      <4>1. PICK columns, where : /\ columns = <<"class_name">>
                                  /\ DealMessage(c, Selection("t_class", columns, where))
        BY <3>3, Zenon DEF CheckClass
      <4>2. columns \in Seq(TextColumns["t_class"]) /\ columns # <<>>
        BY <1>2, <4>1
      <4> QED
        BY <1>2, <4>1, <4>2
    <3> QED
      BY <1>11, <3>1, <3>2, <3>3
  <2>2. Proper(Selection(view, columns, where))
    BY <2>1, ProperSelections
  <2> QED
    BY <1>1, <2>1, <2>2
<1>12. CASE CheckGiveclass(c)
  <2>1. PICK columns, where :
          /\ columns = <<"stu_number", "stu_name", "class_name">>
          /\ DealMessage(c, Selection("classmates", columns, where))
    BY <1>12, Zenon DEF CheckGiveclass
  <2>2. /\ columns \in Seq(TextColumns.t_stu \union TextColumns.t_class)
        /\ columns # <<>>
    BY <1>2, <2>1
  <2> QED
    BY <1>1, <2>1, <2>2, ProperSelections
<1>13. CASE GiveClass(c)
  BY <1>1, <1>13, ProperGifts, Zenon DEF GiveClass
<1>14. CASE GiveCourse(c) \/ DelGivecourse(c)
  BY <1>1, <1>14, ProperGifts, Zenon DEF GiveCourse, DelGivecourse
<1>15. ASSUME NEW of, NEW columns, NEW number,
              columns \in Seq(TextColumns.t_stu \union TextColumns.t_course),
              columns # <<>>,
              DealMessage(c, IF number = Empty THEN NoStatement
                             ELSE ChoiceList(of, columns, number))
       PROVE  Goal
  <2>1. CASE number = Empty
    BY <1>15, <2>1, Zenon DEF Goal
  <2>2. CASE number # Empty
    <3>1. DealMessage(c, ChoiceList(of, columns, number))
      BY <1>15, <2>2, Zenon
    <3>2. Proper(ChoiceList(of, columns, number))
      BY <1>15, ProperSelections
    <3> QED
      BY <1>1, <3>1, <3>2
  <2> QED
    BY <2>1, <2>2
<1>16. CASE CheckStuCourse(c)
  <2>1. PICK of, columns, number :
          /\ of = "sel_stu_id"
          /\ columns = <<"stu_number", "stu_name", "course_number", "course_name">>
          /\ DealMessage(c, IF number = Empty THEN NoStatement
                            ELSE ChoiceList(of, columns, number))
    BY <1>16, Zenon DEF CheckStuCourse
  <2>2. /\ columns \in Seq(TextColumns.t_stu \union TextColumns.t_course)
        /\ columns # <<>>
    BY <1>2, <2>1
  <2> QED
    BY <1>15, <2>1, <2>2 DEF Goal
<1>17. CASE CheckCourseStu(c)
  <2>1. PICK of, columns, number :
          /\ of = "sel_course_id"
          /\ columns = <<"course_number", "course_name", "stu_number", "stu_name">>
          /\ DealMessage(c, IF number = Empty THEN NoStatement
                            ELSE ChoiceList(of, columns, number))
    BY <1>17, Zenon DEF CheckCourseStu
  <2>2. /\ columns \in Seq(TextColumns.t_stu \union TextColumns.t_course)
        /\ columns # <<>>
    BY <1>2, <2>1
  <2> QED
    BY <1>15, <2>1, <2>2 DEF Goal
<1> QED
  BY <1>4, <1>5, <1>6, <1>7, <1>8, <1>9, <1>10, <1>11, <1>12, <1>13, <1>14,
     <1>16, <1>17 DEF Click, Goal
-----------------------------------------------------------------------------
(***************************************************************************)
(* Queues: what is put at the end and what is left.                        *)
(***************************************************************************)
LEMMA TextIn ==
  ASSUME NEW t, IsText(t), NEW S, \A i \in DOMAIN t : t[i] \in S
  PROVE  t \in Seq(S)
<1> DEFINE R == {t[i] : i \in DOMAIN t}
<1>1. R \subseteq S
  OBVIOUS
<1>2. t \in Seq(R)
  BY DEF IsText
<1> HIDE DEF R
<1> QED
  BY <1>1, <1>2

LEMMA TextAppend ==
  ASSUME NEW t, IsText(t), NEW x
  PROVE  /\ IsText(Append(t, x)) /\ Append(t, x) = t \o <<x>>
         /\ \A i \in DOMAIN Append(t, x) :
              Append(t, x)[i] = x \/ \E j \in DOMAIN t : Append(t, x)[i] = t[j]
<1> DEFINE R == {t[i] : i \in DOMAIN t}
<1> DEFINE S == R \union {x}
<1>1. R \subseteq S /\ x \in S
  OBVIOUS
<1>2. t \in Seq(R)
  BY DEF IsText
<1>3. \A y \in S : y = x \/ \E j \in DOMAIN t : y = t[j]
  OBVIOUS
<1> HIDE DEF R, S
<1>4. t \in Seq(S)
  BY <1>1, <1>2
<1>5. Append(t, x) \in Seq(S) /\ Append(t, x) = t \o <<x>>
  BY <1>1, <1>4
<1>6. \A i \in DOMAIN Append(t, x) : Append(t, x)[i] \in S
  BY <1>5
<1>7. IsText(Append(t, x))
  BY <1>5, TextOfSeq
<1> QED
  BY <1>3, <1>5, <1>6, <1>7

LEMMA TextTail ==
  ASSUME NEW t, IsText(t), t # <<>>
  PROVE  /\ IsText(Tail(t))
         /\ 1 \in DOMAIN t /\ Head(t) = t[1]
         /\ \A i \in DOMAIN Tail(t) : \E j \in DOMAIN t : Tail(t)[i] = t[j]
<1> DEFINE R == {t[i] : i \in DOMAIN t}
<1>1. t \in Seq(R)
  BY DEF IsText
<1>2. \A y \in R : \E j \in DOMAIN t : y = t[j]
  OBVIOUS
<1> HIDE DEF R
<1>3. Tail(t) \in Seq(R) /\ Head(t) = t[1] /\ 1 \in DOMAIN t
  BY <1>1
<1>4. \A i \in DOMAIN Tail(t) : Tail(t)[i] \in R
  BY <1>3
<1>5. IsText(Tail(t))
  BY <1>3, TextOfSeq
<1> QED
  BY <1>2, <1>3, <1>4, <1>5

-----------------------------------------------------------------------------
(***************************************************************************)
(* No step harms the tables.                                               *)
(***************************************************************************)
\* What TypeOK says beyond the rows.
Variables ==
  /\ ui \in [Dialogs -> {"idle", "length", "data"}]
  /\ at \in [Workers -> {"idle", "query", "length", "data", "failure"}]
  /\ DOMAIN asked = Dialogs /\ DOMAIN first = Dialogs /\ DOMAIN shown = Dialogs
  /\ DOMAIN toServer = Dialogs /\ DOMAIN atServer = Dialogs
  /\ DOMAIN toDialog = Dialogs /\ DOMAIN atDialog = Dialogs
  /\ DOMAIN answers = Dialogs /\ DOMAIN pBuff = Dialogs
  /\ \A c \in Dialogs : DOMAIN pBuff[c] = 1 .. BuffSize
  /\ \A i \in DOMAIN workQue : workQue[i].dialog \in Dialogs
  /\ \A w \in Workers : at[w] = "idle" <=> job[w] = NoTask
  /\ DOMAIN reply = Workers /\ DOMAIN job = Workers
  /\ clicks \in 0 .. MaxClicks

LEMMA TablesParts == TablesInv <=> Variables /\ DbInv(db) /\ Requests
<1>1. DbInv(db) =>
        /\ \A r \in db.t_stu :
             DOMAIN r = {"id", "stu_number", "stu_name", "stu_class"}
        /\ \A r \in db.t_course : DOMAIN r = {"id", "course_number", "course_name"}
        /\ \A r \in db.t_class : DOMAIN r = {"id", "class_name"}
        /\ \A r \in db.t_selcourse : DOMAIN r = {"sel_stu_id", "sel_course_id"}
  BY DEF DbInv, IsRow, Columns
<1>2. {DOMAIN asked, DOMAIN first, DOMAIN shown, DOMAIN toServer,
       DOMAIN atServer, DOMAIN toDialog, DOMAIN atDialog, DOMAIN answers,
       DOMAIN pBuff} = {Dialogs}
      <=> /\ DOMAIN asked = Dialogs /\ DOMAIN first = Dialogs
          /\ DOMAIN shown = Dialogs
          /\ DOMAIN toServer = Dialogs /\ DOMAIN atServer = Dialogs
          /\ DOMAIN toDialog = Dialogs /\ DOMAIN atDialog = Dialogs
          /\ DOMAIN answers = Dialogs /\ DOMAIN pBuff = Dialogs
  OBVIOUS
<1> QED
  BY <1>1, <1>2 DEF TablesInv, TypeOK, Variables

LEMMA InitTables == ASSUME Init PROVE TablesInv
<1>1. DbInv(db)
  <2>1. db \in InitialDbs
    BY DEF Init
  <2>2. ASSUME NEW table \in DOMAIN Columns, NEW r \in db[table],
               NEW col \in TextColumns[table]
        PROVE  r[col] \in Texts
    <3> DEFINE U(d, t) == UNION {{q[k] : q \in d[t]} : k \in TextColumns[t]}
               All == {U(d, t) : d \in InitialDbs, t \in DOMAIN TextColumns}
    <3>1. r[col] \in U(db, table)
      BY <2>2
    <3>2. table \in DOMAIN TextColumns
      BY DEF Columns, TextColumns
    <3>3. UNION All \subseteq Texts
      BY DEF Texts
    <3> HIDE DEF U
    <3>4. U(db, table) \in All
      BY <2>1, <3>2
    <3> QED
      BY <3>1, <3>3, <3>4
  <2> QED
    BY <2>1, <2>2, DatabaseAssumption DEF DbInv, IsRow
<1>2. Requests
  BY CarriesNothing, EmptyText DEF Init, Requests, IsByte
<1>3. Variables
  <2>1. clicks \in 0 .. MaxClicks
    BY BoundAssumption DEF Init
  <2> QED
    BY <2>1 DEF Init, Variables, NoTask
<1> QED
  BY <1>1, <1>2, <1>3, TablesParts

LEMMA TablesLater == Variables' /\ DbInv(db)' /\ Requests' => TablesInv'
BY TablesParts, PTL

LEMMA SameTables == ASSUME DbInv(db), UNCHANGED db PROVE DbInv(db)'
BY DEF DbInv, IsRow, KeysDiffer

\* Packets join packets.
LEMMA CarriedConcat ==
  ASSUME NEW t, IsText(t), \A k \in DOMAIN t : Carries(t[k]),
         NEW u, IsText(u), \A k \in DOMAIN u : Carries(u[k])
  PROVE  IsText(t \o u) /\ \A k \in DOMAIN (t \o u) : Carries((t \o u)[k])
<1> DEFINE R == {t[i] : i \in DOMAIN t}
           U == {u[i] : i \in DOMAIN u}
           S == R \union U
<1>1. t \in Seq(R) /\ u \in Seq(U)
  BY DEF IsText
<1>2. \A x \in S : Carries(x)
  OBVIOUS
<1> HIDE DEF R, U
<1>3. t \in Seq(S) /\ u \in Seq(S)
  BY <1>1, SeqMonotonic
<1> HIDE DEF S
<1>4. t \o u \in Seq(S)
  BY <1>3, ConcatProperties
<1>5. \A k \in DOMAIN (t \o u) : (t \o u)[k] \in S
  BY <1>4, ElementOfSeq, LenProperties
<1> QED
  BY <1>2, <1>4, <1>5, TextOfSeq

\* However long a text is, its packets hold its bytes and no others.
LEMMA CarriesPackets ==
  ASSUME NEW text, Carries(text)
  PROVE  /\ IsText(Packets(text))
         /\ \A k \in DOMAIN Packets(text) : Carries(Packets(text)[k])
<1> DEFINE n == Len(text)
           q == (n + DataLen - 1) \div DataLen
<1>1. n \in Nat /\ DataLen \in Nat \ {0}
  BY TextLength, SchoolAssumption DEF Carries
<1>2. q \in Int /\ n + DataLen - 1 < DataLen * q + DataLen
  BY <1>1
<1>3. Packets(text) =
        [k \in 1 .. q |->
           SubSeq(text, (k - 1) * DataLen + 1, Shorter(k * DataLen, n))]
  BY DEF Packets
<1> HIDE DEF q, n
<1>4. q \in Nat
  <2>1. q <= -1 => DataLen * q <= DataLen * (-1)
    BY <1>1, <1>2
  <2> QED
    BY <1>1, <1>2, <2>1
<1>5. DOMAIN Packets(text) = 1 .. q
  BY <1>3
<1>6. ASSUME NEW k \in 1 .. q PROVE Carries(Packets(text)[k])
  <2>1. PICK a, b : a = (k - 1) * DataLen + 1 /\ b = Shorter(k * DataLen, n)
    OBVIOUS
  <2>2. k - 1 \in Nat /\ k \in Nat
    BY <1>4
  <2>3. (k - 1) * DataLen \in Nat /\ k * DataLen \in Nat
    BY <1>1, <2>2, Product
  <2>4. a \in Nat \ {0} /\ b \in 0 .. n
    BY <1>1, <2>1, <2>3 DEF Shorter
  <2>5. Packets(text)[k] = SubSeq(text, a, b)
    BY <1>3, <2>1
  <2> QED
    BY <2>4, <2>5, CarriesCut DEF n
<1>7. Packets(text) \in Seq({Packets(text)[k] : k \in 1 .. q})
  <2> DEFINE S == {Packets(text)[k] : k \in 1 .. q}
  <2>1. PICK P : P = Packets(text)
    OBVIOUS
  <2>2. P = [k \in 1 .. q |-> P[k]]
    BY <1>3, <2>1
  <2>3. P \in [1 .. q -> {P[k] : k \in 1 .. q}]
    BY <2>2
  <2> QED
    BY <1>4, <2>1, <2>3
<1> QED
  BY <1>5, <1>6, <1>7, TextOfSeq

LEMMA DealMessageTables ==
  ASSUME TablesInv, NEW c \in Dialogs, NEW s, Proper(s) \/ s = NoStatement,
         DealMessage(c, s)
  PROVE  TablesInv'
<1>1. DbInv(db)'
  BY SameTables, TablesParts DEF DealMessage
<1>2. Requests'
  <2>1. Carries(Statement(s))
    BY CarriesStatement, CarriesNothing, NoStatementText
  <2>2. /\ IsText(Packets(Statement(s)))
        /\ \A k \in DOMAIN Packets(Statement(s)) : Carries(Packets(Statement(s))[k])
    BY <2>1, CarriesPackets
  <2>3. /\ Requests /\ DOMAIN toServer = Dialogs
        /\ toServer' = [toServer EXCEPT ![c] = @ \o Packets(Statement(s))]
        /\ UNCHANGED <<atServer, pBuff, workQue, at, job>>
    BY TablesParts DEF DealMessage, poolVars, Variables
  <2>4. /\ toServer'[c] = toServer[c] \o Packets(Statement(s))
        /\ \A d \in Dialogs \ {c} : toServer'[d] = toServer[d]
    BY <2>3
  <2>5. IsText(toServer[c]) /\ \A k \in DOMAIN toServer[c] : Carries(toServer[c][k])
    BY <2>3 DEF Requests
  <2>6. IsText(toServer'[c]) /\ \A k \in DOMAIN toServer'[c] : Carries(toServer'[c][k])
    <3>1. PICK t, packets : t = toServer[c] /\ packets = Packets(Statement(s))
      OBVIOUS
    <3>2. /\ IsText(t \o packets)
          /\ \A k \in DOMAIN (t \o packets) : Carries((t \o packets)[k])
      BY <2>2, <2>5, <3>1, CarriedConcat
    <3> HIDE DEF Requests
    <3> QED
      BY <2>4, <3>1, <3>2
  <2> QED
    BY <2>3, <2>4, <2>6 DEF Requests
<1>3. Variables'
  <2>1. clicks' \in 0 .. MaxClicks
    BY BoundAssumption, TablesParts DEF DealMessage, Variables
  <2> QED
    BY <2>1, TablesParts DEF DealMessage, Variables, poolVars
<1> QED
  BY <1>1, <1>2, <1>3, TablesLater

\* Steps that touch neither the tables nor a request.
LEMMA RequestsKept ==
  ASSUME TablesInv, UNCHANGED <<db, toServer, atServer, pBuff, workQue, at, job>>
  PROVE  DbInv(db)' /\ Requests'
BY SameTables, TablesParts DEF Requests

LEMMA RecvTables ==
  ASSUME TablesInv, NEW c \in Dialogs, RecvLength(c) \/ RecvData(c)
  PROVE  TablesInv'
<1>1. UNCHANGED <<db, toServer, atServer, pBuff, workQue, at, job>>
  BY DEF RecvLength, RecvData, poolVars
<1>2. Variables'
  BY TablesParts DEF RecvLength, RecvData, Variables, poolVars
<1> QED
  BY <1>1, <1>2, RequestsKept, TablesLater

LEMMA ArriveTables ==
  ASSUME TablesInv, NEW c \in Dialogs, ArriveAtServer(c) \/ ArriveAtDialog(c)
  PROVE  TablesInv'
<1>1. Variables'
  BY TablesParts DEF ArriveAtServer, ArriveAtDialog, Variables, poolVars, dialogVars
<1>2. CASE ArriveAtDialog(c)
  <2>1. UNCHANGED <<db, toServer, atServer, pBuff, workQue, at, job>>
    BY <1>2 DEF ArriveAtDialog, poolVars
  <2> QED
    BY <1>1, <2>1, RequestsKept, TablesLater
<1>3. CASE ArriveAtServer(c)
  <2>1. /\ toServer[c] # <<>>
        /\ toServer'[c] = Tail(toServer[c])
        /\ atServer'[c] = atServer[c] \o Head(toServer[c])
        /\ \A d \in Dialogs \ {c} :
             toServer'[d] = toServer[d] /\ atServer'[d] = atServer[d]
        /\ UNCHANGED <<db, pBuff, workQue, at, job>>
    BY <1>3, TablesParts DEF ArriveAtServer, poolVars, Variables
  <2>2. /\ IsText(toServer[c]) /\ Carries(atServer[c])
        /\ \A k \in DOMAIN toServer[c] : Carries(toServer[c][k])
    BY TablesParts DEF Requests
  <2>3. PICK t : t = toServer[c]
    OBVIOUS
  <2>4. /\ IsText(Tail(t)) /\ 1 \in DOMAIN t /\ Head(t) = t[1]
        /\ \A i \in DOMAIN Tail(t) : \E j \in DOMAIN t : Tail(t)[i] = t[j]
    BY <2>1, <2>2, <2>3, TextTail
  <2>5. Carries(atServer'[c])
    <3>1. Carries(Head(t))
      BY <2>2, <2>3, <2>4
    <3> QED
      BY <2>1, <2>2, <2>3, <3>1, CarriesConcat
  <2>6. IsText(toServer'[c]) /\ \A k \in DOMAIN toServer'[c] : Carries(toServer'[c][k])
    BY <2>1, <2>2, <2>3, <2>4
  <2>7. Requests'
    BY <2>1, <2>5, <2>6, TablesParts DEF Requests
  <2> QED
    BY <1>1, <2>1, <2>7, SameTables, TablesParts, TablesLater
<1> QED
  BY <1>2, <1>3

LEMMA TakeStatementTables ==
  ASSUME TablesInv, NEW c \in Dialogs, TakeStatement(c) PROVE TablesInv'
<1> DEFINE n == StatementThere(c)
           there == atServer[c]
           buff == [i \in 1 .. BuffSize |->
                      IF i <= n THEN atServer[c][i] ELSE Cleared(pBuff[c])[i]]
           task == [dialog |-> c, text |-> CString(buff)]
<1>1. /\ Variables /\ DbInv(db) /\ Requests
      /\ atServer'[c] = SubSeq(there, n + 1, Len(there))
      /\ \A d \in Dialogs \ {c} : atServer'[d] = atServer[d] /\ pBuff'[d] = pBuff[d]
      /\ pBuff'[c] = buff /\ workQue' = Append(workQue, task)
      /\ UNCHANGED <<db, toServer, at, job>>
  BY TablesParts DEF TakeStatement, Variables
<1>2. Carries(there) /\ \A i \in 1 .. BuffSize : IsByte(pBuff[c][i])
  BY <1>1 DEF Requests
<1>3. IsText(there) /\ Len(there) \in Nat /\ DOMAIN there = 1 .. Len(there)
  BY <1>2, TextIndices DEF Carries
<1>4. n \in 0 .. Len(there)
  BY <1>3, SchoolAssumption DEF StatementThere, Shorter
<1>5. \A i \in 1 .. BuffSize : IsByte(buff[i])
  <2> SUFFICES ASSUME NEW i \in 1 .. BuffSize PROVE IsByte(buff[i])
    OBVIOUS
  <2>1. CASE i <= n
    BY <1>2, <1>3, <1>4, <2>1, SchoolAssumption DEF Carries
  <2>2. CASE ~(i <= n)
    BY <1>2, <2>2 DEF Cleared, IsByte
  <2> QED
    BY <2>1, <2>2
<1>6. Carries(CString(buff))
  <2>1. DOMAIN buff = 1 .. BuffSize /\ buff = [i \in 1 .. BuffSize |-> buff[i]]
    OBVIOUS
  <2>2. BuffSize \in Nat
    BY SchoolAssumption
  <2> HIDE DEF buff
  <2> QED
    BY <1>5, <2>1, <2>2, CarriesCString
<1>7. Carries(atServer'[c])
  <2>1. Carries(SubSeq(there, n + 1, Len(there)))
    <3>1. PICK m, k, t : m = n + 1 /\ k = Len(there) /\ t = there
      OBVIOUS
    <3> HIDE DEF n, there
    <3>2. m \in 1 .. Len(t) + 1 /\ k \in 0 .. Len(t) /\ Carries(t)
      BY <1>2, <1>3, <1>4, <3>1
    <3>3. Carries(SubSeq(t, m, k))
      BY <3>2, CarriesCut
    <3> QED
      BY <3>1, <3>3
  <2> QED
    BY <1>1, <2>1
<1>8. /\ IsText(workQue')
      /\ \A i \in DOMAIN workQue' :
           workQue'[i] = task \/ \E j \in DOMAIN workQue : workQue'[i] = workQue[j]
  <2>1. PICK q, x : q = workQue /\ x = task
    OBVIOUS
  <2>2. IsText(q) /\ workQue' = Append(q, x)
    BY <1>1, <2>1 DEF Requests
  <2> HIDE DEF task
  <2>3. /\ IsText(Append(q, x)) /\ Append(q, x) = q \o <<x>>
        /\ \A i \in DOMAIN Append(q, x) :
             Append(q, x)[i] = x \/ \E j \in DOMAIN q : Append(q, x)[i] = q[j]
    <3>1. IsText(q)
      BY <2>2
    <3> QED
      BY <3>1, TextAppend
  <2> QED
    BY <2>1, <2>2, <2>3
<1>9. task.dialog \in Dialogs /\ Carries(task.text)
  BY <1>6
<1>10. /\ \A i \in DOMAIN workQue' : workQue'[i].dialog \in Dialogs
       /\ \A i \in DOMAIN workQue' : Carries(workQue'[i].text)
  <2> HIDE DEF task
  <2> QED
    BY <1>1, <1>8, <1>9 DEF Requests, Variables
<1>11. Requests'
  BY <1>1, <1>5, <1>7, <1>8, <1>10 DEF Requests
<1>12. Variables'
  <2>1. /\ DOMAIN atServer' = Dialogs /\ DOMAIN pBuff' = Dialogs
        /\ DOMAIN buff = 1 .. BuffSize
        /\ UNCHANGED <<ui, at, asked, first, shown, toServer, toDialog,
                       atDialog, answers, reply, job, clicks>>
    BY <1>1 DEF TakeStatement, Variables, dialogVars
  <2> HIDE DEF buff
  <2>2. \A d \in Dialogs : DOMAIN pBuff'[d] = 1 .. BuffSize
    BY <1>1, <2>1 DEF Variables
  <2> QED
    BY <1>1, <1>10, <2>1, <2>2 DEF Variables
<1>13. DbInv(db)'
  BY <1>1, SameTables
<1> QED
  BY <1>11, <1>12, <1>13, TablesLater

LEMMA StartTaskTables ==
  ASSUME TablesInv, NEW w \in Workers, StartTask(w) PROVE TablesInv'
<1>1. /\ Variables /\ DbInv(db) /\ Requests
      /\ workQue # <<>> /\ workQue' = Tail(workQue)
      /\ job'[w] = Head(workQue) /\ at'[w] = "query"
      /\ \A v \in Workers \ {w} : job'[v] = job[v] /\ at'[v] = at[v]
      /\ UNCHANGED <<db, toServer, atServer, pBuff>>
  BY TablesParts DEF StartTask, Variables, lineVars
<1>2. /\ IsText(workQue) /\ \A i \in DOMAIN workQue : Carries(workQue[i].text)
      /\ \A i \in DOMAIN workQue : workQue[i].dialog \in Dialogs
  BY <1>1 DEF Requests, Variables
<1>3. PICK q : q = workQue
  OBVIOUS
<1>4. /\ IsText(Tail(q)) /\ 1 \in DOMAIN q /\ Head(q) = q[1]
      /\ \A i \in DOMAIN Tail(q) : \E j \in DOMAIN q : Tail(q)[i] = q[j]
  BY <1>1, <1>2, <1>3, TextTail
<1>5. Requests'
  BY <1>1, <1>2, <1>3, <1>4 DEF Requests
<1>6. Variables'
  <2>1. job'[w] # NoTask
    <3>1. job'[w].dialog \in Dialogs
      BY <1>1, <1>2, <1>3, <1>4
    <3> QED
      BY <3>1, SchoolAssumption DEF NoTask
  <2>2. \A i \in DOMAIN workQue' : workQue'[i].dialog \in Dialogs
    BY <1>1, <1>2, <1>3, <1>4
  <2>3. /\ at' \in [Workers -> {"idle", "query", "length", "data", "failure"}]
        /\ DOMAIN job' = Workers
        /\ UNCHANGED <<ui, asked, first, shown, toServer, atServer, toDialog,
                       atDialog, answers, pBuff, reply, clicks>>
    BY <1>1 DEF StartTask, Variables, lineVars, dialogVars
  <2> QED
    BY <1>1, <2>1, <2>2, <2>3 DEF Variables
<1> QED
  BY <1>1, <1>5, <1>6, SameTables, TablesLater

\* What MySQL is given is a statement of a handler, or no statement at all.
LEMMA WholeStatement ==
  ASSUME NulIsNoByte, NEW text, Carries(text), IsWhole(text)
  PROVE  Proper(text[1].of)
<1>1. Statement(text[1].of) # <<>> /\ text = Statement(text[1].of)
  BY DEF IsWhole
<1>2. 1 \in DOMAIN text
  <2>1. IsText(text) /\ text # <<>>
    BY DEF Carries, IsWhole
  <2> QED
    BY <2>1, TextTail
<1>3. text[1] = [of |-> text[1].of, at |-> 1]
  BY <1>1, <1>2 DEF Statement
<1>4. text[1] # NUL
  BY <1>3 DEF NulIsNoByte
<1> QED
  BY <1>2, <1>4 DEF Carries, IsByte

LEMMA QueryTables ==
  ASSUME NulIsNoByte, TablesInv, NEW w \in Workers, Query(w)
  PROVE  /\ TablesInv'
         /\ \A table \in DOMAIN Key : \E r : db[table] \ db'[table] \subseteq {r}
<1> DEFINE text == job[w].text
           result == IF IsWhole(text) THEN Execute(text[1].of, db) ELSE Failed(db)
<1>1. /\ Variables /\ DbInv(db) /\ Requests /\ at[w] = "query"
      /\ db' = result.db
      /\ \E stage \in {"length", "failure"} : at' = [at EXCEPT ![w] = stage]
      /\ UNCHANGED <<ui, asked, first, shown, clicks, toServer, atServer,
                     toDialog, atDialog, pBuff, workQue, job>>
      /\ DOMAIN reply' = Workers /\ DOMAIN answers' = Dialogs
  BY TablesParts DEF Query, Variables, lineVars, dialogVars
<1>2. Carries(text)
  BY <1>1 DEF Requests
<1>3. /\ DbInv(db')
      /\ \A table \in DOMAIN Key : \E r : db[table] \ db'[table] \subseteq {r}
  <2>1. CASE IsWhole(text)
    <3>1. PICK s : s = text[1].of
      OBVIOUS
    <3>2. Proper(s)
      BY <1>2, <2>1, <3>1, WholeStatement
    <3>3. db' = Execute(s, db).db
      BY <1>1, <2>1, <3>1
    <3> HIDE DEF result, text
    <3>4. PICK d : d = db
      OBVIOUS
    <3>5. /\ DbInv(Execute(s, d).db)
          /\ \A table \in DOMAIN Key : \E r : d[table] \ Execute(s, d).db[table] \subseteq {r}
      BY <1>1, <3>2, <3>4, ExecuteDb
    <3> QED
      BY <3>3, <3>4, <3>5
  <2>2. CASE ~IsWhole(text)
    <3>1. db' = db
      BY <1>1, <2>2 DEF Failed
    <3> QED
      BY <1>1, <3>1
  <2> QED
    BY <2>1, <2>2
<1>4. /\ at' \in [Workers -> {"idle", "query", "length", "data", "failure"}]
      /\ at'[w] # "idle" /\ at'[w] # "query"
      /\ \A v \in Workers \ {w} : at'[v] = at[v]
  BY <1>1 DEF Variables
<1>5. Requests'
  BY <1>1, <1>4 DEF Requests
<1>6. Variables'
  BY <1>1, <1>4 DEF Variables
<1>7. DbInv(db)'
  BY <1>3
<1> QED
  BY <1>3, <1>5, <1>6, <1>7, TablesLater

LEMMA SendTables ==
  ASSUME TablesInv, NEW w \in Workers, SendLength(w) \/ SendData(w)
  PROVE  TablesInv'
<1>1. /\ Variables /\ DbInv(db) /\ Requests
      /\ at[w] # "idle"
      /\ DOMAIN toDialog' = Dialogs /\ DOMAIN reply' = Workers
      /\ DOMAIN job' = Workers
      /\ UNCHANGED <<db, ui, asked, first, shown, clicks, toServer, atServer,
                     atDialog, pBuff, workQue, answers>>
      /\ \A v \in Workers \ {w} : job'[v] = job[v] /\ at'[v] = at[v]
      /\ \/ at' = [at EXCEPT ![w] = "data"] /\ job' = job
         \/ at' = [at EXCEPT ![w] = "idle"] /\ job'[w] = NoTask
  BY TablesParts DEF SendLength, SendData, Reply, Variables, lineVars, dialogVars
<1>2. /\ at' \in [Workers -> {"idle", "query", "length", "data", "failure"}]
      /\ at'[w] # "query"
      /\ at'[w] = "idle" <=> job'[w] = NoTask
  BY <1>1 DEF Variables
<1>3. Requests'
  BY <1>1, <1>2 DEF Requests
<1>4. Variables'
  BY <1>1, <1>2 DEF Variables
<1> QED
  BY <1>1, <1>3, <1>4, SameTables, TablesLater

LEMMA NextTables ==
  ASSUME NulIsNoByte, TablesInv, [Next]_vars
  PROVE  /\ TablesInv'
         /\ \A table \in DOMAIN Key : \E r : db[table] \ db'[table] \subseteq {r}
<1>1. CASE \E w \in Workers : Query(w)
  BY <1>1, QueryTables
<1>2. ASSUME UNCHANGED db
      PROVE  \A table \in DOMAIN Key : \E r : db[table] \ db'[table] \subseteq {r}
  BY <1>2
<1>3. CASE \E c \in Dialogs : Click(c)
  <2>1. PICK c \in Dialogs :
          \E s : (Proper(s) \/ s = NoStatement) /\ DealMessage(c, s)
    BY <1>3, ClickProper
  <2>2. PICK s : (Proper(s) \/ s = NoStatement) /\ DealMessage(c, s)
    BY <2>1
  <2>3. UNCHANGED db
    BY <2>2 DEF DealMessage
  <2> QED
    BY <1>2, <2>2, <2>3, DealMessageTables
<1>4. CASE DialogStep
  <2>1. UNCHANGED db
    BY <1>4 DEF DialogStep, RecvLength, RecvData
  <2> QED
    BY <1>2, <1>4, <2>1, RecvTables DEF DialogStep
<1>5. CASE LineStep
  <2>1. UNCHANGED db
    BY <1>5 DEF LineStep, ArriveAtServer, ArriveAtDialog
  <2> QED
    BY <1>2, <1>5, <2>1, ArriveTables DEF LineStep
<1>6. CASE \E c \in Dialogs : TakeStatement(c)
  <2>1. UNCHANGED db
    BY <1>6 DEF TakeStatement
  <2> QED
    BY <1>2, <1>6, <2>1, TakeStatementTables
<1>7. CASE \E w \in Workers : StartTask(w) \/ SendLength(w) \/ SendData(w)
  <2>1. UNCHANGED db
    BY <1>7 DEF StartTask, SendLength, SendData
  <2> QED
    BY <1>2, <1>7, <2>1, StartTaskTables, SendTables
<1>8. CASE UNCHANGED vars
  <2>1. UNCHANGED db /\ Variables'
    BY <1>8, TablesParts DEF Variables, vars, dialogVars, lineVars, poolVars
  <2>2. UNCHANGED <<db, toServer, atServer, pBuff, workQue, at, job>>
    BY <1>8 DEF vars, lineVars, poolVars
  <2> QED
    BY <1>2, <2>1, <2>2, RequestsKept, TablesLater
<1> QED
  BY <1>1, <1>3, <1>4, <1>5, <1>6, <1>7, <1>8 DEF Next, ServerStep
-----------------------------------------------------------------------------
(***************************************************************************)
(* What a dialog makes of an answer.                                       *)
(***************************************************************************)
\* The rest of the length behind a result is zeros.
LEMMA BehindTheData ==
  ASSUME NEW t, IsText(t), Len(t) > 0, \A i \in DOMAIN t : t[i] # NUL
  PROVE  CString(Overlay(t, LengthText)) = t
<1> DEFINE rest == SubSeq(LengthText, Len(t) + 1, LenSize)
           buff == t \o rest
           size == IF Len(t) <= LenSize THEN LenSize ELSE Len(t)
<1>1. Len(t) \in Nat /\ DOMAIN t = 1 .. Len(t) /\ t \in Seq({t[i] : i \in DOMAIN t})
  BY TextIndices DEF IsText
<1>2. IsText(LengthText) /\ Len(LengthText) = LenSize /\ LenSize \in Nat
  BY LengthPiece, SchoolAssumption DEF Piece
<1>3. \A i \in 2 .. LenSize : LengthText[i] = NUL
  BY <1>2 DEF LengthText
<1>4. Overlay(t, LengthText) = buff
  BY <1>2 DEF Overlay
<1>5. PICK n : n = Len(t)
  OBVIOUS
<1>6. /\ size \in Nat /\ Len(t) <= size /\ DOMAIN buff = 1 .. size
      /\ buff = [i \in 1 .. size |-> IF i <= Len(t) THEN t[i] ELSE NUL]
  <2>1. PICK l : l = LengthText
    OBVIOUS
  <2>2. l \in Seq({l[i] : i \in DOMAIN l}) /\ Len(l) = LenSize
    BY <1>2, <2>1 DEF IsText
  <2>3. \A i \in 2 .. LenSize : l[i] = NUL
    BY <1>3, <2>1
  <2>4. PICK r, R : /\ r = SubSeq(l, n + 1, LenSize)
                    /\ R = {l[i] : i \in DOMAIN l}
    OBVIOUS
  <2>5. /\ r \in Seq(R) /\ Len(r) = IF n <= LenSize THEN LenSize - n ELSE 0
        /\ \A i \in 1 .. Len(r) : r[i] = l[n + i]
    <3> DEFINE k == IF n <= LenSize THEN LenSize - n ELSE 0
    <3>1. k \in Nat /\ n \in Nat /\ LenSize \in Nat
      BY <1>1, <1>2, <1>5
    <3>2. r = [i \in 1 .. k |-> l[n + i]]
      BY <2>4, <3>1
    <3>3. \A i \in 1 .. k : n + i \in 1 .. LenSize
      BY <3>1
    <3>4. \A i \in 1 .. k : l[n + i] \in R
      BY <2>2, <2>4, <3>3
    <3> HIDE DEF k
    <3>5. r \in Seq(R) /\ Len(r) = k
      BY <3>1, <3>2, <3>4
    <3> QED
      BY <3>2, <3>5 DEF k
  <2>6. \A i \in 1 .. Len(r) : r[i] = NUL
    <3>1. /\ n \in Nat \ {0} /\ LenSize \in Nat
          /\ Len(r) = IF n <= LenSize THEN LenSize - n ELSE 0
      BY <1>1, <1>2, <1>5, <2>5
    <3>2. PICK k : k = Len(r)
      OBVIOUS
    <3>3. \A i \in 1 .. k : n + i \in 2 .. LenSize
      BY <3>1, <3>2
    <3>4. \A i \in 1 .. k : r[i] = l[n + i]
      BY <2>5, <3>2
    <3> QED
      BY <2>3, <3>2, <3>3, <3>4
  <2>7. PICK T : T = {t[i] : i \in DOMAIN t}
    OBVIOUS
  <2>8. t \in Seq(T \union R) /\ r \in Seq(T \union R)
    BY <1>1, <2>5, <2>7
  <2>9. /\ t \o r \in Seq(T \union R) /\ Len(t \o r) = n + Len(r)
        /\ \A i \in 1 .. n + Len(r) :
             (t \o r)[i] = IF i <= n THEN t[i] ELSE r[i - n]
    BY <1>5, <2>8
  <2>10. size = n + Len(r) /\ size \in Nat /\ n <= size
    BY <1>1, <1>2, <1>5, <2>5
  <2>11. buff = t \o r
    BY <1>5, <2>1, <2>4
  <2>12. PICK b : b = t \o r
    OBVIOUS
  <2>13. b \in Seq(T \union R) /\ DOMAIN b = 1 .. size
    BY <2>9, <2>10, <2>12
  <2>14. \A i \in 1 .. size : b[i] = IF i <= n THEN t[i] ELSE NUL
    <3> SUFFICES ASSUME NEW i \in 1 .. size
                 PROVE  b[i] = IF i <= n THEN t[i] ELSE NUL
      OBVIOUS
    <3> HIDE DEF size
    <3>1. CASE i <= n
      BY <2>9, <2>10, <2>12, <3>1
    <3>2. CASE ~(i <= n)
      <4>1. i - n \in 1 .. Len(r)
        <5>1. PICK k : k = Len(r)
          OBVIOUS
        <5>2. k \in Nat
          BY <2>5, <5>1
        <5>3. n \in Nat /\ size = n + k
          BY <1>1, <1>5, <2>10, <5>1
        <5> QED
          BY <3>2, <5>1, <5>2, <5>3
      <4> QED
        BY <2>6, <2>9, <2>10, <2>12, <3>2, <4>1
    <3> QED
      BY <3>1, <3>2
  <2>15. b = [i \in 1 .. size |-> b[i]]
    BY <2>13
  <2> HIDE DEF size
  <2>16. b = [i \in 1 .. size |-> IF i <= n THEN t[i] ELSE NUL]
    BY <2>14, <2>15
  <2> QED
    BY <1>5, <2>10, <2>11, <2>12, <2>13, <2>16
<1>7. \A i \in 1 .. Len(t) : t[i] # NUL
  BY <1>1
<1> HIDE DEF buff, size
<1>8. /\ size \in Nat /\ Len(t) <= size
      /\ DOMAIN buff = 1 .. size /\ buff = [i \in 1 .. size |-> buff[i]]
      /\ \A i \in 1 .. Len(t) : buff[i] = t[i]
      /\ Len(t) < size => buff[Len(t) + 1] = NUL
  BY <1>1, <1>6
<1>9. CString(buff) = t
  BY <1>7, <1>8, CStringOfBuffer, Zenon
<1> QED
  BY <1>4, <1>9

\* SchoolService speaks of the same database and of the same lists.
LEMMA SameExecution == \A s, d : Service!Execute(s, d) = Execute(s, d)
  BY DEF Execute, Insert, Update, Delete, Listed, Where, View, Matches, With,
         Ids, Scalar, Fresh, Failed, Done, Key, KeysDiffer, StudentsInClass,
         Chosen, SelectionOf, InsertSelection, ValueOf, ListChoices, Null,
         Cardinality, Service!Execute, Service!Insert, Service!Update,
         Service!Delete, Service!Listed, Service!Where, Service!View,
         Service!Matches, Service!With, Service!Ids, Service!Scalar,
         Service!Fresh, Service!Failed, Service!Done, Service!Key,
         Service!KeysDiffer, Service!StudentsInClass, Service!Chosen,
         Service!SelectionOf, Service!InsertSelection, Service!ValueOf,
         Service!ListChoices, Service!Null, Service!Cardinality

LEMMA SameList ==
  \A a : Service!Faithful(a) =
    LET rows == SetToSeq(a.rows)
    IN  IF ~a.ok THEN List(<<<<>>>>, <<>>)
        ELSE IF a.head = <<>> THEN Success
        ELSE List(Cells(a.head), [i \in DOMAIN rows |-> Cells(rows[i])])
  BY DEF Service!Faithful, List, Service!List, Success, Service!Success, Cells,
         Cell, Service!Cell, SetToSeq, Service!SetToSeq, IsInjective,
         Service!IsInjective, Cardinality, Service!Cardinality

LEMMA AnswerIsShown ==
  ASSUME NamesAreCells, NEW a, IsAnswer(a), a.ok
  PROVE  /\ IsText(TextOf(a)) /\ Len(TextOf(a)) > 0
         /\ \A i \in DOMAIN TextOf(a) : TextOf(a)[i] # NUL
         /\ Display(TextOf(a)) = Service!Faithful(a)
<1> DEFINE N == Texts \union ListColumns
<1>1. /\ N \intersect {"|", "/", "{", "}", NUL} = {}
      /\ NUL \notin {"|", "/", "{", "}"} /\ Empty \notin ListColumns
  BY DEF NamesAreCells
<1>2. ListColumns \subseteq N /\ Texts \subseteq N /\ N \in SUBSET N
  OBVIOUS
<1> HIDE DEF N
<1>3. AreCells(N) /\ NUL \notin Symbols(N)
  BY <1>1 DEF AreCells, Symbols
<1>4. PICK head, rows : head = a.head /\ rows = SetToSeq(a.rows)
  OBVIOUS
<1>5. TextOf(a) = DataText(head, rows)
  BY <1>4 DEF TextOf
<1>6. /\ head \in Seq(N) /\ rows \in Seq(Seq(N))
      /\ Display(DataText(head, rows)) = Service!Faithful(a)
  <2>1. CASE a.head = <<>> /\ a.rows = {}
    <3>1. rows = <<>>
      <4>1. PICK S : S = a.rows
        OBVIOUS
      <4>2. SetToSeq(S) \in Seq(S)
        BY <2>1, <4>1, FS_EmptySet, SetInOrder
      <4>3. SetToSeq(S) \in Seq({})
        BY <2>1, <4>1, <4>2
      <4>4. PICK q : q = SetToSeq(S)
        OBVIOUS
      <4>5. q \in Seq({})
        BY <4>3, <4>4
      <4>6. q = <<>>
        BY <4>5
      <4> QED
        BY <1>4, <4>1, <4>4, <4>6
    <3>2. head = <<>>
      BY <1>4, <2>1
    <3>3. Service!Faithful(a) = Success
      BY <2>1, SameList, Zenon
    <3>4. <<>> \in Seq(N) /\ <<>> \in Seq(Seq(N))
      OBVIOUS
    <3> QED
      BY <3>1, <3>2, <3>3, <3>4, SuccessIsShown
  <2>2. CASE /\ a.head \in Seq(ListColumns) \ {<<>>}
             /\ IsFiniteSet(a.rows)
             /\ \A row \in a.rows : row \in Seq(Texts) \ {<<>>}
    <3>1. head \in Seq(ListColumns) /\ head # <<>>
      BY <1>4, <2>2
    <3>2. head \in Seq(N) /\ head[1] \in ListColumns
      BY <1>2, <3>1
    <3>3. head[1] # Empty
      BY <1>1, <3>2
    <3>4. rows \in Seq(Seq(N)) /\ \A i \in DOMAIN rows : rows[i] # <<>>
      <4>1. PICK S : S = a.rows
        OBVIOUS
      <4>2. IsFiniteSet(S)
        BY <2>2, <4>1
      <4>3. rows \in Seq(S)
        BY <1>4, <4>1, <4>2, SetInOrder
      <4>4. PICK V : V = Seq(N)
        OBVIOUS
      <4>5. \A row \in S : row \in Seq(N)
        BY <1>2, <2>2, <4>1
      <4>6. S \subseteq V /\ \A row \in S : row # <<>>
        BY <2>2, <4>1, <4>4, <4>5
      <4>7. rows \in Seq(V) /\ \A i \in DOMAIN rows : rows[i] \in S
        BY <4>3, <4>6
      <4> QED
        BY <4>4, <4>6, <4>7
    <3>5. Display(DataText(head, rows))
            = List(Cells(head), [i \in DOMAIN rows |-> Cells(rows[i])])
      BY <1>3, <3>1, <3>2, <3>3, <3>4, ResultIsShown
    <3>6. Service!Faithful(a)
            = List(Cells(head), [i \in DOMAIN rows |-> Cells(rows[i])])
      <4>1. a.head # <<>> /\ a.ok
        BY <1>4, <3>1
      <4> QED
        BY <1>4, <4>1, SameList, Zenon
    <3> QED
      BY <3>2, <3>4, <3>5, <3>6
  <2> QED
    BY <2>1, <2>2, Zenon DEF IsAnswer
<1>7. PICK t, T : t = DataText(head, rows) /\ T = Symbols(N)
  OBVIOUS
<1>8. DataText(head, rows) \in Seq(Symbols(N)) /\ Len(DataText(head, rows)) \in Nat \ {0}
  BY <1>3, <1>6, DataIsText
<1>9. t \in Seq(T) /\ Len(t) > 0 /\ NUL \notin T
  BY <1>3, <1>7, <1>8
<1>10. \A i \in DOMAIN t : t[i] # NUL
  BY <1>9
<1>11. IsText(t)
  BY <1>9, TextOfSeq
<1> QED
  BY <1>5, <1>6, <1>7, <1>9, <1>10, <1>11

LEMMA Halves ==
  /\ FirstHalf \in Seq({"failed"}) /\ Len(FirstHalf) = LenSize
  /\ SecondHalf \in Seq({"failed"}) /\ Len(SecondHalf) = LenSize
<1>1. LenSize \in Nat
  BY SchoolAssumption
<1>2. PICK t, k : t = FailedText /\ k = LenSize
  OBVIOUS
<1>3. t = [i \in 1 .. 2 * k |-> "failed"]
  BY <1>2 DEF FailedText
<1>4. SubSeq(t, 1, k) = [i \in 1 .. k |-> "failed"]
  BY <1>1, <1>2, <1>3
<1>5. SubSeq(t, k + 1, 2 * k) = [i \in 1 .. k |-> "failed"]
  <2>1. SubSeq(t, k + 1, 2 * k) = [i \in 1 .. 2 * k - (k + 1) + 1 |-> t[k + 1 + i - 1]]
    BY <1>1, <1>2
  <2>2. 2 * k - (k + 1) + 1 = k
    BY <1>1, <1>2
  <2>3. \A i \in 1 .. k : t[k + 1 + i - 1] = "failed"
    BY <1>1, <1>2, <1>3
  <2> QED
    BY <2>1, <2>2, <2>3
<1>6. PICK u : u = [i \in 1 .. k |-> "failed"]
  OBVIOUS
<1>7. u \in Seq({"failed"}) /\ Len(u) = k
  BY <1>1, <1>2, <1>6
<1> QED
  BY <1>2, <1>4, <1>5, <1>6, <1>7 DEF FirstHalf, SecondHalf

LEMMA FailureIsRead ==
  ASSUME NamesAreCells, NEW a, ~a.ok
  PROVE  Display(CString(Overlay(SecondHalf, FirstHalf))) = Service!Faithful(a)
<1>1. PICK u, v : u = SecondHalf /\ v = FirstHalf
  OBVIOUS
<1>2. /\ u \in Seq({"failed"}) /\ v \in Seq({"failed"})
      /\ Len(u) = LenSize /\ Len(v) = LenSize
  BY <1>1, Halves
<1>3. Overlay(u, v) = u
  <2>1. PICK k : k = LenSize /\ k \in Nat
    BY SchoolAssumption
  <2>2. SubSeq(v, k + 1, k) = <<>>
    BY <1>2, <2>1
  <2>3. u \o <<>> = u
    BY <1>2
  <2> QED
    BY <1>2, <2>1, <2>2, <2>3 DEF Overlay
<1>4. CString(u) = u
  <2>1. NUL # "failed"
    BY DEF NamesAreCells
  <2>2. \A i \in DOMAIN u : u[i] # NUL
    BY <1>2, <2>1
  <2> QED
    BY <2>2, NoNul
<1>5. Display(u) = List(<<<<>>>>, <<>>)
  BY <1>2, HalvesAssumption, FailureIsShown
<1>6. Service!Faithful(a) = List(<<<<>>>>, <<>>)
  BY SameList, Zenon
<1> QED
  BY <1>1, <1>3, <1>4, <1>5, <1>6

LEMMA ContentKept ==
  ASSUME NEW d \in Dialogs, Content(d),
         ui'[d] = ui[d], asked'[d] = asked[d], first'[d] = first[d],
         shown'[d] = shown[d], answers'[d] = answers[d],
         toDialog'[d] = toDialog[d], atDialog'[d] = atDialog[d],
         \A w \in Workers : job[w].dialog = d \/ job'[w].dialog = d
           => job'[w] = job[w] /\ at'[w] = at[w] /\ reply'[w] = reply[w]
  PROVE  Content(d)'
<1>1. Got(d)' = Got(d)
  BY DEF Got
<1>2. CASE Unanswered(d)
  <2>1. NoReply(d)' <=> NoReply(d)
    BY DEF NoReply
  <2>2. Unanswered(d)'
    BY <1>1, <1>2, <2>1 DEF Unanswered
  <2> QED
    BY <2>2 DEF Content
<1>3. CASE \E a \in Got(d) : Answered(d, a)
  <2>1. PICK a \in Got(d) : Answered(d, a)
    BY <1>3
  <2>2. \A line, there, read : Lies(d, line, there, read)' <=> Lies(d, line, there, read)
    BY DEF Lies
  <2>3. Sending(d, a) => Sending(d, a)'
    BY <2>2 DEF Sending
  <2>4. Sent(d, a) => Sent(d, a)'
    BY <2>2 DEF Sent
  <2>5. HasWorker(d)' <=> HasWorker(d)
    BY DEF HasWorker
  <2>6. Answered(d, a)'
    BY <2>1, <2>3, <2>4, <2>5 DEF Answered
  <2> QED
    BY <1>1, <2>1, <2>6 DEF Content
<1> QED
  BY <1>2, <1>3 DEF Content

LEMMA TextsAreThere ==
  /\ LengthText # <<>> /\ FailedText # <<>>
  /\ FirstHalf # <<>> /\ SecondHalf # <<>>
  /\ \A a : NamesAreCells /\ IsAnswer(a) /\ a.ok
              => TextOf(a) # <<>> /\ LengthText \o TextOf(a) # <<>>
<1>1. LengthText # <<>> /\ FailedText # <<>>
  BY LengthPiece, FailedPiece, SchoolAssumption DEF Piece
<1>2. FirstHalf # <<>> /\ SecondHalf # <<>>
  BY Halves, SchoolAssumption
<1>3. ASSUME NEW a, NamesAreCells, IsAnswer(a), a.ok
      PROVE  TextOf(a) # <<>> /\ LengthText \o TextOf(a) # <<>>
  <2>1. PICK t, l : t = TextOf(a) /\ l = LengthText
    OBVIOUS
  <2>2. IsText(t) /\ Len(t) > 0
    BY <1>3, <2>1, AnswerIsShown
  <2>3. IsText(l) /\ Len(l) \in Nat
    BY <2>1, LengthPiece, TextLength DEF Piece
  <2>4. t # <<>>
    BY <2>2
  <2>5. Len(l \o t) = Len(l) + Len(t)
    BY <2>2, <2>3, TextConcat
  <2>6. Len(t) \in Nat
    BY <2>2, TextLength
  <2>7. l \o t # <<>>
    <3>1. PICK n, m, u : n = Len(l) /\ m = Len(t) /\ u = l \o t
      OBVIOUS
    <3>2. Len(u) > 0
      BY <2>2, <2>3, <2>5, <2>6, <3>1
    <3> QED
      BY <3>1, <3>2
  <2> QED
    BY <2>1, <2>4, <2>7
<1> QED
  BY <1>1, <1>2, <1>3

\* Where a dialog is whose statement was answered.
LEMMA AnsweredWhere ==
  ASSUME NamesAreCells, NEW c, NEW a, Answered(c, a)
  PROVE  /\ ui[c] \in {"length", "data"} /\ (ui[c] = "length" <=> first[c] = <<>>)
         /\ Sent(c, a) /\ ui[c] = "length" => ~NoReply(c)
         /\ ~Sending(c, a) => Sent(c, a) /\ ~HasWorker(c)
         /\ answers[c] = <<a>> /\ IsAnswer(a)
<1>1. Sending(c, a) \/ Sent(c, a)
  BY DEF Answered
<1>2. \A line, there, read :
        Lies(c, line, there, read)
          => ui[c] \in {"length", "data"} /\ (ui[c] = "length" <=> first[c] = <<>>)
  BY DEF Lies
<1>3. Sending(c, a) => \E line, there, read : Lies(c, line, there, read)
  BY DEF Sending
<1>4. Sent(c, a) => \E line, there, read : Lies(c, line, there, read)
  BY DEF Sent
<1>5. ASSUME Sent(c, a), ui[c] = "length", NoReply(c) PROVE FALSE
  <2>1. IsAnswer(a)
    BY DEF Answered
  <2>2. first[c] = <<>> /\ toDialog[c] = <<>> /\ atDialog[c] = <<>>
    BY <1>2, <1>4, <1>5 DEF NoReply
  <2>3. /\ LengthText # <<>> /\ FailedText # <<>> /\ FirstHalf # <<>>
        /\ a.ok => TextOf(a) # <<>> /\ LengthText \o TextOf(a) # <<>>
    BY <2>1, TextsAreThere
  <2>4. \A x, y : <<x, y>> # <<>> /\ <<x>> # <<>>
    OBVIOUS
  <2> QED
    BY <1>5, <2>2, <2>3, <2>4 DEF Sent, Lies
<1> QED
  BY <1>1, <1>2, <1>3, <1>4, <1>5 DEF Answered

\* A dialog at rest is not being answered.
LEMMA IdleRests ==
  ASSUME NamesAreCells, IInv, Contents, NEW c \in Dialogs, ui[c] = "idle"
  PROVE  Resting(c) /\ Unanswered(c)
<1>1. Resting(c)
  <2>1. Stage(c)
    BY DEF IInv
  <2> QED
    BY <2>1 DEF Stage, Hanging, Asking, Working, LengthSent, Replied
<1>2. Unanswered(c)
  BY AnsweredWhere DEF Contents, Content
<1> QED
  BY <1>1, <1>2

LEMMA DealMessageContents ==
  ASSUME NamesAreCells, IInv, Contents, NEW c \in Dialogs, NEW s,
         DealMessage(c, s)
  PROVE  Contents'
<1>1. /\ DOMAIN first' = Dialogs /\ DOMAIN answers' = Dialogs
      /\ DOMAIN shown' = Dialogs
      /\ ui[c] = "idle" /\ ui'[c] = "length" /\ answers'[c] = <<>>
      /\ UNCHANGED <<first, toDialog, atDialog, at, job, reply>>
      /\ \A d \in Dialogs \ {c} :
           /\ ui'[d] = ui[d] /\ asked'[d] = asked[d] /\ shown'[d] = shown[d]
           /\ answers'[d] = answers[d]
  BY DEF DealMessage, Contents, IInv, Typed, poolVars
<1>2. Resting(c) /\ Unanswered(c)
  BY <1>1, IdleRests
<1>3. ASSUME NEW d \in Dialogs PROVE Content(d)'
  <2>1. CASE d = c
    <3>1. /\ first'[c] = <<>> /\ NoReply(c)' /\ ui'[c] = "length"
          /\ answers'[c] = <<>> /\ \A w \in Workers : job'[w].dialog # c
      BY <1>1, <1>2 DEF Resting, NoReply, HasWorker, Unanswered
    <3>2. Unanswered(c)'
      BY <3>1 DEF Unanswered
    <3> QED
      BY <2>1, <3>2 DEF Content
  <2>2. CASE d # c
    <3>1. Content(d)
      BY DEF Contents
    <3> QED
      BY <1>1, <2>2, <3>1, ContentKept
  <2> QED
    BY <2>1, <2>2
<1> QED
  BY <1>1, <1>3 DEF Contents

\* A step of the dialog c, of its connection or of none.
LEMMA OneContentMoves ==
  ASSUME Contents, NEW c \in Dialogs,
         DOMAIN first' = Dialogs, DOMAIN answers' = Dialogs, DOMAIN shown' = Dialogs,
         UNCHANGED <<asked, at, job, reply>>,
         \A d \in Dialogs \ {c} :
           /\ ui'[d] = ui[d] /\ first'[d] = first[d] /\ shown'[d] = shown[d]
           /\ answers'[d] = answers[d] /\ toDialog'[d] = toDialog[d]
           /\ atDialog'[d] = atDialog[d],
         Content(c)'
  PROVE  Contents'
<1>1. ASSUME NEW d \in Dialogs PROVE Content(d)'
  <2>1. CASE d = c
    BY <2>1
  <2>2. CASE d # c
    <3>1. Content(d)
      BY DEF Contents
    <3> QED
      BY <2>2, <3>1, ContentKept
  <2> QED
    BY <2>1, <2>2
<1> QED
  BY <1>1 DEF Contents

LEMMA RequestContents ==
  ASSUME Contents,
         UNCHANGED <<ui, asked, first, shown, answers, toDialog, atDialog, at,
                     job, reply>>
  PROVE  Contents'
<1>1. ASSUME NEW d \in Dialogs PROVE Content(d)'
  <2>1. Content(d)
    BY DEF Contents
  <2> QED
    BY <2>1, ContentKept
<1> QED
  BY <1>1 DEF Contents

LEMMA ArriveAtDialogContents ==
  ASSUME NamesAreCells, IInv, Contents, NEW c \in Dialogs, ArriveAtDialog(c)
  PROVE  Contents'
<1>1. /\ DOMAIN first' = Dialogs /\ DOMAIN answers' = Dialogs
      /\ DOMAIN shown' = Dialogs
      /\ toDialog[c] # <<>> /\ toDialog'[c] = Tail(toDialog[c])
      /\ atDialog'[c] = atDialog[c] \o Head(toDialog[c])
      /\ UNCHANGED <<ui, asked, first, shown, answers, at, job, reply>>
      /\ \A d \in Dialogs \ {c} :
           toDialog'[d] = toDialog[d] /\ atDialog'[d] = atDialog[d]
  BY DEF ArriveAtDialog, Contents, IInv, Typed, dialogVars, poolVars
<1>2. ~Unanswered(c)
  <2>1. ui[c] # "idle"
    BY <1>1, IdleRests DEF Resting, NoReply
  <2> QED
    BY <1>1, <2>1 DEF Unanswered, NoReply
<1>3. PICK a \in Got(c) : Answered(c, a)
  BY <1>2 DEF Contents, Content
<1>4. \A x, y : /\ Head(<<x>>) = x /\ Tail(<<x>>) = <<>>
                /\ Head(<<x, y>>) = x /\ Tail(<<x, y>>) = <<y>>
  BY HeadOfOne, HeadOfTwo
<1>5. ASSUME NEW packet, NEW rest, NEW there, NEW read, NEW line,
             Lies(c, line, there, read), Head(line) = packet, Tail(line) = rest
      PROVE  Lies(c, rest, there \o packet, read)'
  BY <1>1, <1>5 DEF Lies
<1>6. ASSUME NEW there, NEW read PROVE ~Lies(c, <<>>, there, read)
  BY <1>1 DEF Lies
<1>7. /\ <<>> \o LengthText = LengthText /\ <<>> \o FailedText = FailedText
      /\ a.ok => <<>> \o TextOf(a) = TextOf(a)
  <2>1. \A t : IsText(t) => <<>> \o t = t
    BY DEF IsText
  <2>2. IsAnswer(a)
    BY <1>3 DEF Answered
  <2> QED
    BY <2>1, <2>2, LengthPiece, FailedPiece, AnswerIsShown DEF Piece
<1>8. Answered(c, a)'
  <2>1. Sending(c, a) => Sending(c, a)'
    <3> SUFFICES ASSUME Sending(c, a) PROVE Sending(c, a)'
      OBVIOUS
    <3>1. PICK w \in Workers :
            /\ job[w].dialog = c /\ at[w] = "data" /\ a.ok /\ reply[w] = TextOf(a)
            /\ Lies(c, <<LengthText>>, <<>>, <<>>)
      BY <1>6 DEF Sending
    <3>2. Lies(c, <<>>, LengthText, <<>>)'
      BY <1>4, <1>5, <1>7, <3>1
    <3> QED
      BY <1>1, <3>1, <3>2 DEF Sending
  <2>2. Sent(c, a) => Sent(c, a)'
    <3> SUFFICES ASSUME Sent(c, a) PROVE Sent(c, a)'
      OBVIOUS
    <3>1. CASE Lies(c, <<LengthText, TextOf(a)>>, <<>>, <<>>) /\ a.ok
      <4>1. PICK t, l : t = TextOf(a) /\ l = LengthText
        OBVIOUS
      <4>2. Head(<<l, t>>) = l /\ Tail(<<l, t>>) = <<t>>
        BY <1>4
      <4>3. Lies(c, <<l, t>>, <<>>, <<>>)
        BY <3>1, <4>1
      <4>4. Lies(c, <<t>>, <<>> \o l, <<>>)'
        BY <1>5, <4>2, <4>3
      <4>5. Lies(c, <<TextOf(a)>>, LengthText, <<>>)'
        BY <1>7, <4>1, <4>4
      <4> QED
        BY <3>1, <4>5 DEF Sent
    <3>2. CASE Lies(c, <<TextOf(a)>>, LengthText, <<>>) /\ a.ok
      <4>1. Lies(c, <<>>, LengthText \o TextOf(a), <<>>)'
        BY <1>4, <1>5, <1>7, <3>2
      <4> QED
        BY <3>2, <4>1 DEF Sent
    <3>3. CASE Lies(c, <<TextOf(a)>>, <<>>, LengthText) /\ a.ok
      <4>1. Lies(c, <<>>, TextOf(a), LengthText)'
        BY <1>4, <1>5, <1>7, <3>3
      <4> QED
        BY <3>3, <4>1 DEF Sent
    <3>4. CASE Lies(c, <<FailedText>>, <<>>, <<>>) /\ ~a.ok
      <4>1. Lies(c, <<>>, FailedText, <<>>)'
        BY <1>4, <1>5, <1>7, <3>4
      <4> QED
        BY <3>4, <4>1 DEF Sent
    <3> QED
      BY <1>6, <3>1, <3>2, <3>3, <3>4 DEF Sent
  <2>3. HasWorker(c)' <=> HasWorker(c)
    BY <1>1 DEF HasWorker
  <2> QED
    BY <1>1, <1>3, <2>1, <2>2, <2>3 DEF Answered
<1>9. Content(c)'
  BY <1>1, <1>3, <1>8 DEF Content, Got
<1> QED
  BY <1>1, <1>9, OneContentMoves

\* What the first Recv takes and leaves.
LEMMA FirstRecv ==
  /\ SubSeq(LengthText, 1, Shorter(LenSize, Len(LengthText))) = LengthText
  /\ SubSeq(LengthText, Shorter(LenSize, Len(LengthText)) + 1, Len(LengthText)) = <<>>
  /\ SubSeq(FailedText, 1, Shorter(LenSize, Len(FailedText))) = FirstHalf
  /\ SubSeq(FailedText, Shorter(LenSize, Len(FailedText)) + 1, Len(FailedText))
       = SecondHalf
  /\ \A t : IsText(t) =>
       LET both == LengthText \o t
           n    == Shorter(LenSize, Len(both))
       IN  SubSeq(both, 1, n) = LengthText /\ SubSeq(both, n + 1, Len(both)) = t
<1>1. LenSize \in Nat
  BY SchoolAssumption
<1>2. PICK l : l = LengthText
  OBVIOUS
<1>3. IsText(l) /\ Len(l) = LenSize
  BY <1>2, LengthPiece DEF Piece
<1>4. SubSeq(l, 1, LenSize) = l /\ SubSeq(l, LenSize + 1, LenSize) = <<>>
  <2>1. l \in Seq({l[i] : i \in DOMAIN l})
    BY <1>3 DEF IsText
  <2>2. PICK L : L = {l[i] : i \in DOMAIN l}
    OBVIOUS
  <2>3. l \in Seq(L)
    BY <2>1, <2>2
  <2> QED
    BY <1>1, <1>3, <2>3
<1>5. Shorter(LenSize, LenSize) = LenSize
  BY DEF Shorter
<1>6. Len(FailedText) = 2 * LenSize
  BY <1>1, FailedPiece DEF Piece
<1>7. Shorter(LenSize, 2 * LenSize) = LenSize
  BY <1>1 DEF Shorter
<1>8. ASSUME NEW t, IsText(t)
      PROVE  LET both == LengthText \o t
                 n    == Shorter(LenSize, Len(both))
             IN  SubSeq(both, 1, n) = LengthText /\ SubSeq(both, n + 1, Len(both)) = t
  <2>1. PICK T : T = {l[i] : i \in DOMAIN l} \union {t[i] : i \in DOMAIN t}
    OBVIOUS
  <2>2. l \in Seq(T) /\ t \in Seq(T)
    <3>1. \A i \in DOMAIN l : l[i] \in T
      BY <2>1
    <3>2. \A i \in DOMAIN t : t[i] \in T
      BY <2>1
    <3> QED
      BY <1>3, <1>8, <3>1, <3>2, TextIn
  <2>3. SubSeq(l \o t, 1, Len(l)) = l /\ SubSeq(l \o t, Len(l) + 1, Len(l \o t)) = t
    BY <2>2, CutText
  <2>4. Len(t) \in Nat /\ Len(l \o t) = LenSize + Len(t)
    BY <1>3, <1>8, TextLength, TextConcat
  <2>5. PICK k, m : k = Len(l \o t) /\ m = Len(t)
    OBVIOUS
  <2>6. m \in Nat /\ k = LenSize + m
    BY <2>4, <2>5
  <2>7. Shorter(LenSize, k) = LenSize
    BY <1>1, <2>6 DEF Shorter
  <2> QED
    BY <1>2, <1>3, <2>3, <2>5, <2>7
<1> QED
  BY <1>2, <1>3, <1>4, <1>5, <1>6, <1>7, <1>8 DEF FirstHalf, SecondHalf

LEMMA RecvLengthContents ==
  ASSUME NamesAreCells, IInv, Contents, NEW c \in Dialogs, RecvLength(c)
  PROVE  Contents'
<1>1. /\ DOMAIN first' = Dialogs /\ DOMAIN answers' = Dialogs
      /\ DOMAIN shown' = Dialogs
      /\ ui[c] = "length" /\ ui'[c] = "data" /\ atDialog[c] # <<>>
      /\ first'[c] = SubSeq(atDialog[c], 1, LengthThere(c))
      /\ atDialog'[c] = SubSeq(atDialog[c], LengthThere(c) + 1, Len(atDialog[c]))
      /\ UNCHANGED <<asked, shown, answers, toDialog, at, job, reply>>
      /\ \A d \in Dialogs \ {c} :
           /\ ui'[d] = ui[d] /\ first'[d] = first[d] /\ atDialog'[d] = atDialog[d]
  BY DEF RecvLength, Contents, IInv, Typed, poolVars
<1>2. PICK a \in Got(c) : Answered(c, a)
  <2>1. ~Unanswered(c)
    BY <1>1 DEF Unanswered, NoReply
  <2> QED
    BY <2>1 DEF Contents, Content
<1>3. ASSUME NEW line, NEW there, NEW read, NEW now, NEW rest,
             Lies(c, line, there, read),
             SubSeq(there, 1, Shorter(LenSize, Len(there))) = now,
             SubSeq(there, Shorter(LenSize, Len(there)) + 1, Len(there)) = rest,
             now # <<>>
      PROVE  Lies(c, line, rest, now)'
  BY <1>1, <1>3 DEF Lies, LengthThere
<1>4. /\ \A line, read : ~Lies(c, line, <<>>, read)
      /\ \A line, there : ~Lies(c, line, there, LengthText)
      /\ \A line, there : ~Lies(c, line, there, FirstHalf)
  BY <1>1, TextsAreThere DEF Lies
<1>5. Answered(c, a)'
  <2>1. Sending(c, a) => Sending(c, a)'
    <3> SUFFICES ASSUME Sending(c, a) PROVE Sending(c, a)'
      OBVIOUS
    <3>1. PICK w \in Workers :
            /\ job[w].dialog = c /\ at[w] = "data" /\ a.ok /\ reply[w] = TextOf(a)
            /\ Lies(c, <<>>, LengthText, <<>>)
      BY <1>4 DEF Sending
    <3>2. Lies(c, <<>>, <<>>, LengthText)'
      BY <1>3, <3>1, FirstRecv, TextsAreThere
    <3> QED
      BY <1>1, <3>1, <3>2 DEF Sending
  <2>2. Sent(c, a) => Sent(c, a)'
    <3> SUFFICES ASSUME Sent(c, a) PROVE Sent(c, a)'
      OBVIOUS
    <3>1. CASE Lies(c, <<TextOf(a)>>, LengthText, <<>>) /\ a.ok
      <4>1. Lies(c, <<TextOf(a)>>, <<>>, LengthText)'
        BY <1>3, <3>1, FirstRecv, TextsAreThere
      <4> QED
        BY <3>1, <4>1 DEF Sent
    <3>2. CASE Lies(c, <<>>, LengthText \o TextOf(a), <<>>) /\ a.ok
      <4>1. PICK t : t = TextOf(a)
        OBVIOUS
      <4>2. IsText(t)
        BY <1>2, <3>2, <4>1, AnswerIsShown DEF Answered
      <4>3. PICK both : both = LengthText \o t
        OBVIOUS
      <4>4. /\ SubSeq(both, 1, Shorter(LenSize, Len(both))) = LengthText
            /\ SubSeq(both, Shorter(LenSize, Len(both)) + 1, Len(both)) = t
        BY <4>2, <4>3, FirstRecv
      <4>5. Lies(c, <<>>, t, LengthText)'
        BY <1>3, <3>2, <4>1, <4>3, <4>4, TextsAreThere
      <4> QED
        BY <3>2, <4>1, <4>5 DEF Sent
    <3>3. CASE Lies(c, <<>>, FailedText, <<>>) /\ ~a.ok
      <4>1. Lies(c, <<>>, SecondHalf, FirstHalf)'
        BY <1>3, <3>3, FirstRecv, TextsAreThere
      <4> QED
        BY <3>3, <4>1 DEF Sent
    <3> QED
      BY <1>4, <3>1, <3>2, <3>3 DEF Sent
  <2>3. HasWorker(c)' <=> HasWorker(c)
    BY <1>1 DEF HasWorker
  <2> QED
    BY <1>1, <1>2, <2>1, <2>2, <2>3 DEF Answered
<1>6. Content(c)'
  BY <1>1, <1>2, <1>5 DEF Content, Got
<1> QED
  BY <1>1, <1>6, OneContentMoves

\* What DealMessage shows when its second Recv returns.
LEMMA RecvDataShows ==
  ASSUME NamesAreCells, IInv, Contents, NEW c \in Dialogs, RecvData(c)
  PROVE  \E a \in Got(c) :
           /\ Answered(c, a) /\ ~HasWorker(c)
           /\ shown' = [shown EXCEPT ![c] = Service!Faithful(a)]
<1> DEFINE there == atDialog[c]
           n == Shorter(ReplySize, Len(there))
           buff == Overlay(SubSeq(there, 1, n), first[c])
<1>1. /\ ui[c] = "data" /\ there # <<>>
      /\ shown' = [shown EXCEPT ![c] = Display(CString(buff))]
  BY DEF RecvData
<1>2. Piece(there, 1, DataLen)
  <2>1. Stage(c)
    BY DEF IInv
  <2> QED
    BY <1>1, <2>1 DEF Stage, Resting, Hanging, Asking, Working, LengthSent,
                      NoReply, Replied
<1>3. SubSeq(there, 1, n) = there
  <2>1. PICK t, k : t = there /\ k = Len(t)
    OBVIOUS
  <2>2. IsText(t) /\ k \in 1 .. DataLen
    BY <1>2, <2>1 DEF Piece
  <2>3. n = k
    BY <2>1, <2>2, SchoolAssumption DEF Shorter
  <2>4. SubSeq(t, 1, k) = t
    BY <2>1, <2>2 DEF IsText
  <2> QED
    BY <2>1, <2>3, <2>4
<1>4. PICK a \in Got(c) : Answered(c, a)
  <2>1. ~Unanswered(c)
    BY <1>1 DEF Unanswered
  <2> QED
    BY <2>1 DEF Contents, Content
<1>5. /\ \A line, there1 : ~Lies(c, line, there1, <<>>)
      /\ \A line, read : ~Lies(c, line, <<>>, read)
  BY <1>1 DEF Lies
<1>6. ~Sending(c, a)
  BY <1>5 DEF Sending
<1>7. Sent(c, a) /\ ~HasWorker(c) /\ IsAnswer(a)
  BY <1>4, <1>6 DEF Answered
<1>8. \/ Lies(c, <<>>, TextOf(a), LengthText) /\ a.ok
      \/ Lies(c, <<>>, SecondHalf, FirstHalf) /\ ~a.ok
      \/ Lies(c, <<TextOf(a)>>, <<>>, LengthText)
  BY <1>5, <1>7 DEF Sent
<1>9. Display(CString(Overlay(there, first[c]))) = Service!Faithful(a)
  <2>1. CASE Lies(c, <<>>, TextOf(a), LengthText) /\ a.ok
    <3>1. PICK t : t = TextOf(a)
      OBVIOUS
    <3>2. /\ IsText(t) /\ Len(t) > 0 /\ \A i \in DOMAIN t : t[i] # NUL
          /\ Display(t) = Service!Faithful(a)
      BY <1>7, <2>1, <3>1, AnswerIsShown
    <3>3. CString(Overlay(t, LengthText)) = t
      BY <3>2, BehindTheData
    <3>4. there = t /\ first[c] = LengthText
      BY <2>1, <3>1 DEF Lies
    <3> QED
      BY <3>2, <3>3, <3>4
  <2>2. CASE Lies(c, <<>>, SecondHalf, FirstHalf) /\ ~a.ok
    <3>1. there = SecondHalf /\ first[c] = FirstHalf
      BY <2>2 DEF Lies
    <3> QED
      BY <2>2, <3>1, FailureIsRead
  <2> QED
    BY <1>5, <1>8, <2>1, <2>2
<1>10. buff = Overlay(there, first[c])
  BY <1>3
<1> QED
  BY <1>1, <1>4, <1>7, <1>9, <1>10

LEMMA RecvDataContents ==
  ASSUME NamesAreCells, IInv, Contents, NEW c \in Dialogs, RecvData(c)
  PROVE  Contents'
<1>1. /\ DOMAIN first' = Dialogs /\ DOMAIN answers' = Dialogs
      /\ DOMAIN shown' = Dialogs
      /\ ui'[c] = "idle" /\ first'[c] = <<>>
      /\ UNCHANGED <<asked, answers, toDialog, at, job, reply>>
      /\ \A d \in Dialogs \ {c} :
           /\ ui'[d] = ui[d] /\ first'[d] = first[d] /\ atDialog'[d] = atDialog[d]
           /\ shown'[d] = shown[d]
  BY DEF RecvData, Contents, IInv, Typed, poolVars
<1>2. PICK a \in Got(c) :
        /\ Answered(c, a) /\ ~HasWorker(c)
        /\ shown' = [shown EXCEPT ![c] = Service!Faithful(a)]
  BY RecvDataShows
<1>3. shown'[c] = Service!Faithful(a)
  BY <1>2 DEF Contents
<1>4. answers'[c] = <<a>> /\ a \in Got(c)'
  BY <1>1, <1>2 DEF Answered, Got
<1>5. \A w \in Workers : job'[w].dialog # c
  BY <1>1, <1>2 DEF HasWorker
<1>6. Unanswered(c)'
  BY <1>1, <1>3, <1>4, <1>5 DEF Unanswered
<1>7. Content(c)'
  BY <1>6 DEF Content
<1> QED
  BY <1>1, <1>7, OneContentMoves

\* A dialog without a worker to which nothing was sent is not answered yet.
LEMMA NotAnswered ==
  ASSUME NamesAreCells, Contents, NEW c \in Dialogs, ui[c] = "length", NoReply(c),
         \A w \in Workers : job[w].dialog = c => at[w] \notin {"length", "data", "failure"}
  PROVE  Unanswered(c)
<1>1. ASSUME NEW a, Answered(c, a) PROVE FALSE
  <2>1. ~Sending(c, a)
    BY DEF Sending
  <2> QED
    BY <1>1, <2>1, AnsweredWhere
<1> QED
  BY <1>1 DEF Contents, Content

\* A step of the worker w for its dialog c.
LEMMA OneWorkerAnswers ==
  ASSUME IInv, Contents, NEW w \in Workers, NEW c \in Dialogs,
         UNCHANGED <<ui, asked, first, shown, atDialog>>,
         DOMAIN answers' = Dialogs,
         \A d \in Dialogs \ {c} :
           toDialog'[d] = toDialog[d] /\ answers'[d] = answers[d],
         \A v \in Workers \ {w} :
           at'[v] = at[v] /\ job'[v] = job[v] /\ reply'[v] = reply[v],
         {job[w].dialog, job'[w].dialog} \subseteq {c, NUL},
         Content(c)'
  PROVE  Contents'
<1>1. ASSUME NEW d \in Dialogs PROVE Content(d)'
  <2>1. CASE d = c
    BY <2>1
  <2>2. CASE d # c
    <3>1. Content(d) /\ d # NUL
      BY SchoolAssumption DEF Contents
    <3>2. ASSUME NEW v \in Workers, job[v].dialog = d \/ job'[v].dialog = d
          PROVE  job'[v] = job[v] /\ at'[v] = at[v] /\ reply'[v] = reply[v]
      BY <2>2, <3>1, <3>2
    <3>3. /\ ui'[d] = ui[d] /\ asked'[d] = asked[d] /\ first'[d] = first[d]
          /\ shown'[d] = shown[d] /\ answers'[d] = answers[d]
          /\ toDialog'[d] = toDialog[d] /\ atDialog'[d] = atDialog[d]
      BY <2>2
    <3> QED
      BY <3>1, <3>2, <3>3, ContentKept
  <2> QED
    BY <2>1, <2>2
<1> QED
  BY <1>1 DEF Contents

LEMMA StartTaskContents ==
  ASSUME NamesAreCells, IInv, Contents, NEW w \in Workers, StartTask(w)
  PROVE  Contents'
<1>1. PICK task, c : task = Head(workQue) /\ c = task.dialog
  OBVIOUS
<1>2. c \in Dialogs /\ HasTask(c)
  <2>1. PICK q : q = workQue
    OBVIOUS
  <2>2. IsText(q) /\ q # <<>> /\ \A i \in DOMAIN q : q[i].dialog \in Dialogs
    BY <2>1 DEF IInv, QueueInv, StartTask
  <2>3. 1 \in DOMAIN q /\ Head(q) = q[1]
    BY <2>2, TextTail
  <2> QED
    BY <1>1, <2>1, <2>2, <2>3 DEF HasTask
<1>3. /\ UNCHANGED <<ui, asked, first, shown, answers, toDialog, atDialog, reply>>
      /\ job[w].dialog = NUL
      /\ job'[w] = task /\ at'[w] = "query"
      /\ \A v \in Workers \ {w} : at'[v] = at[v] /\ job'[v] = job[v]
  BY <1>1 DEF StartTask, dialogVars, lineVars, IInv, Typed, WorkersInv
<1>4. Asking(c)
  <2>1. Stage(c)
    BY <1>2 DEF IInv
  <2> QED
    BY <1>2, <2>1 DEF Stage, Resting, Hanging, Working, Replied, NoRequest
<1>5. ui[c] = "length" /\ NoReply(c) /\ \A v \in Workers : job[v].dialog # c
  BY <1>4 DEF Asking, HasWorker
<1>6. Unanswered(c)
  BY <1>2, <1>5, NotAnswered
<1>7. Unanswered(c)'
  BY <1>1, <1>3, <1>5, <1>6 DEF Unanswered, NoReply
<1>8. Content(c)'
  BY <1>7 DEF Content
<1>9. DOMAIN answers' = Dialogs /\ {job[w].dialog, job'[w].dialog} \subseteq {c, NUL}
  BY <1>1, <1>3 DEF Contents
<1> QED
  BY <1>2, <1>3, <1>8, <1>9, OneWorkerAnswers

\* What a worker executes is what its dialog asked.
LEMMA QueryServes ==
  ASSUME NulIsNoByte, NamesAreCells, IInv, TablesInv, Contents,
         NEW w \in Workers, Query(w)
  PROVE  \E c \in Dialogs : \E result :
           /\ c = job[w].dialog /\ result = Execute(asked[c], db)
           /\ ui[c] = "length" /\ asked[c] # NoStatement /\ NoReply(c)
           /\ first[c] = <<>> /\ answers[c] = <<>>
           /\ db' = result.db /\ IsAnswer(Answer(result))
           /\ answers' = [answers EXCEPT ![c] = <<Answer(result)>>]
           /\ at' = [at EXCEPT ![w] = IF result.ok THEN "length" ELSE "failure"]
           /\ result.ok => reply' = [reply EXCEPT ![w] = TextOf(Answer(result))]
<1>1. PICK c, text : c = job[w].dialog /\ text = job[w].text
  OBVIOUS
<1>2. /\ at[w] = "query" /\ c \in Dialogs /\ Working(c)
      /\ ui[c] = "length" /\ NoReply(c) /\ text = Statement(asked[c])
  BY <1>1, WorkerStage DEF Query
<1>3. asked[c] # NoStatement /\ Known(asked[c])
  BY <1>2 DEF Working, IInv, Typed
<1>4. PICK s : s = asked[c]
  OBVIOUS
<1>5. IsWhole(text) /\ text[1].of = s
  <2>1. /\ IsText(Statement(s)) /\ Len(Statement(s)) = StatementLen[s.do]
        /\ StatementLen[s.do] \in Nat /\ StatementLen[s.do] # 0
    BY <1>3, <1>4, StatementText
  <2>2. Statement(s) # <<>>
    BY <1>3, <1>4, StatementBytes
  <2>3. 1 \in 1 .. StatementLen[s.do]
    BY <2>1
  <2>4. Statement(s)[1] = [of |-> s, at |-> 1]
    BY <2>3 DEF Statement
  <2> QED
    BY <1>2, <1>4, <2>2, <2>4 DEF IsWhole
<1>6. Proper(s)
  <2>1. Carries(text)
    BY <1>1, <1>2 DEF TablesInv, Requests
  <2> QED
    BY <1>5, <2>1, WholeStatement
<1>7. PICK result : result = Execute(s, db)
  OBVIOUS
<1>8. IsAnswer(Answer(result))
  <2>1. PICK d : d = db
    OBVIOUS
  <2>2. DbInv(d)
    BY <2>1 DEF TablesInv
  <2> QED
    BY <1>6, <1>7, <2>1, <2>2, ExecuteAnswer
<1>9. /\ db' = result.db
      /\ at' = [at EXCEPT ![w] = IF result.ok THEN "length" ELSE "failure"]
      /\ reply' = [reply EXCEPT ![w] =
                     IF result.ok
                     THEN DataText(result.head, SetToSeq(result.rows))
                     ELSE FailedText]
      /\ answers' = [answers EXCEPT ![c] = Append(@, Answer(result))]
  BY <1>1, <1>5, <1>7, Zenon DEF Query
<1>10. Unanswered(c)
  <2>1. \A v \in Workers : job[v].dialog = c => v = w
    BY <1>1, <1>2 DEF IInv, OneWorkerEach, WorkersInv
  <2> QED
    BY <1>2, <2>1, NotAnswered
<1>11. first[c] = <<>> /\ answers[c] = <<>>
  BY <1>2, <1>10 DEF Unanswered
<1>12. answers' = [answers EXCEPT ![c] = <<Answer(result)>>]
  <2>1. \A x : Append(<<>>, x) = <<x>>
    OBVIOUS
  <2> QED
    BY <1>9, <1>11, <2>1
<1>13. result.ok => reply' = [reply EXCEPT ![w] = TextOf(Answer(result))]
  BY <1>9 DEF TextOf, Answer
<1> QED
  BY <1>1, <1>2, <1>3, <1>4, <1>7, <1>8, <1>9, <1>11, <1>12, <1>13

LEMMA QueryContents ==
  ASSUME NulIsNoByte, NamesAreCells, IInv, TablesInv, Contents,
         NEW w \in Workers, Query(w)
  PROVE  Contents'
<1>1. PICK c \in Dialogs : \E result :
           /\ c = job[w].dialog /\ result = Execute(asked[c], db)
           /\ ui[c] = "length" /\ asked[c] # NoStatement /\ NoReply(c)
           /\ first[c] = <<>> /\ answers[c] = <<>>
           /\ db' = result.db /\ IsAnswer(Answer(result))
           /\ answers' = [answers EXCEPT ![c] = <<Answer(result)>>]
           /\ at' = [at EXCEPT ![w] = IF result.ok THEN "length" ELSE "failure"]
           /\ result.ok => reply' = [reply EXCEPT ![w] = TextOf(Answer(result))]
  BY QueryServes
<1>2. PICK result :
           /\ c = job[w].dialog
           /\ ui[c] = "length" /\ NoReply(c) /\ first[c] = <<>>
           /\ IsAnswer(Answer(result))
           /\ answers' = [answers EXCEPT ![c] = <<Answer(result)>>]
           /\ at' = [at EXCEPT ![w] = IF result.ok THEN "length" ELSE "failure"]
           /\ result.ok => reply' = [reply EXCEPT ![w] = TextOf(Answer(result))]
  BY <1>1, Zenon
<1>3. PICK a : a = Answer(result)
  OBVIOUS
<1>4. /\ UNCHANGED <<ui, asked, first, shown, toDialog, atDialog, job>>
      /\ \A v \in Workers \ {w} : at'[v] = at[v] /\ reply'[v] = reply[v]
  BY DEF Query, dialogVars, lineVars, IInv, Typed
<1>5. /\ DOMAIN answers' = Dialogs /\ answers'[c] = <<a>>
      /\ \A d \in Dialogs \ {c} : answers'[d] = answers[d]
  BY <1>2, <1>3 DEF Contents
<1>6. a.ok = result.ok
  BY <1>3 DEF Answer
<1>7. /\ ~a.ok => at'[w] = "failure"
      /\ a.ok => at'[w] = "length" /\ reply'[w] = TextOf(a)
  BY <1>2, <1>3, <1>6 DEF IInv, Typed
<1>8. Lies(c, <<>>, <<>>, <<>>)'
  BY <1>2, <1>4 DEF Lies, NoReply
<1>9. Sending(c, a)'
  BY <1>2, <1>4, <1>7, <1>8 DEF Sending
<1>10. Content(c)'
  <2>1. Answered(c, a)'
    BY <1>2, <1>3, <1>5, <1>9 DEF Answered
  <2>2. a \in Got(c)'
    BY <1>5 DEF Got
  <2> QED
    BY <2>1, <2>2 DEF Content
<1>11. {job[w].dialog, job'[w].dialog} \subseteq {c, NUL}
  BY <1>2, <1>4
<1>12. /\ \A d \in Dialogs \ {c} :
            toDialog'[d] = toDialog[d] /\ answers'[d] = answers[d]
       /\ \A v \in Workers \ {w} :
            at'[v] = at[v] /\ job'[v] = job[v] /\ reply'[v] = reply[v]
  BY <1>4, <1>5
<1> QED
  BY <1>4, <1>5, <1>10, <1>11, <1>12, OneWorkerAnswers

\* A worker in the callback answers its dialog.
LEMMA WorkerAnswers ==
  ASSUME IInv, Contents, NEW w \in Workers, at[w] \in {"length", "data", "failure"}
  PROVE  \E c \in Dialogs : \E a \in Got(c) :
           /\ c = job[w].dialog /\ Answered(c, a)
           /\ \A v \in Workers : job[v].dialog = c => v = w
           /\ \/ at[w] = "failure" /\ ~a.ok /\ Lies(c, <<>>, <<>>, <<>>)
              \/ /\ at[w] = "length" /\ a.ok /\ reply[w] = TextOf(a)
                 /\ Lies(c, <<>>, <<>>, <<>>)
              \/ /\ at[w] = "data" /\ a.ok /\ reply[w] = TextOf(a)
                 /\ \/ Lies(c, <<LengthText>>, <<>>, <<>>)
                    \/ Lies(c, <<>>, LengthText, <<>>)
                    \/ Lies(c, <<>>, <<>>, LengthText)
<1>1. PICK c \in Dialogs : c = job[w].dialog
  BY DEF IInv, WorkersInv
<1>2. \A v \in Workers : job[v].dialog = c => v = w
  BY <1>1 DEF IInv, OneWorkerEach
<1>3. PICK a \in Got(c) : Answered(c, a)
  <2>1. ~Unanswered(c)
    BY <1>1 DEF Unanswered
  <2> QED
    BY <2>1 DEF Contents, Content
<1>4. Sending(c, a)
  BY <1>1, <1>3 DEF Answered, HasWorker
<1>5. \/ at[w] = "failure" /\ ~a.ok /\ Lies(c, <<>>, <<>>, <<>>)
      \/ /\ at[w] = "length" /\ a.ok /\ reply[w] = TextOf(a)
         /\ Lies(c, <<>>, <<>>, <<>>)
      \/ /\ at[w] = "data" /\ a.ok /\ reply[w] = TextOf(a)
         /\ \/ Lies(c, <<LengthText>>, <<>>, <<>>)
            \/ Lies(c, <<>>, LengthText, <<>>)
            \/ Lies(c, <<>>, <<>>, LengthText)
  BY <1>2, <1>4 DEF Sending
<1> QED
  BY <1>1, <1>2, <1>3, <1>5

LEMMA SendLengthContents ==
  ASSUME IInv, Contents, NEW w \in Workers, SendLength(w)
  PROVE  Contents'
<1>1. at[w] = "length"
  BY DEF SendLength
<1>2. PICK c \in Dialogs : \E a \in Got(c) :
        /\ c = job[w].dialog /\ Answered(c, a)
        /\ a.ok /\ reply[w] = TextOf(a) /\ Lies(c, <<>>, <<>>, <<>>)
  BY <1>1, WorkerAnswers
<1>3. PICK a \in Got(c) :
        /\ c = job[w].dialog /\ Answered(c, a)
        /\ a.ok /\ reply[w] = TextOf(a) /\ Lies(c, <<>>, <<>>, <<>>)
  BY <1>2
<1>4. /\ UNCHANGED <<ui, asked, first, shown, atDialog, job, reply, answers>>
      /\ at'[w] = "data" /\ \A v \in Workers \ {w} : at'[v] = at[v]
      /\ toDialog'[c] = toDialog[c] \o Packets(LengthText)
      /\ \A d \in Dialogs \ {c} : toDialog'[d] = toDialog[d]
  BY <1>3 DEF SendLength, Reply, dialogVars, IInv, Typed
<1>5. Packets(LengthText) = <<LengthText>>
  <2>1. Piece(LengthText, 1, DataLen)
    BY LengthPiece, SchoolAssumption DEF Piece
  <2> QED
    BY <2>1, SentAsOne
<1>6. Lies(c, <<LengthText>>, <<>>, <<>>)'
  BY <1>3, <1>4, <1>5, Joined DEF Lies
<1>7. Sending(c, a)'
  BY <1>3, <1>4, <1>6 DEF Sending
<1>8. Content(c)'
  BY <1>3, <1>4, <1>7 DEF Content, Answered, Got
<1>9. /\ {job[w].dialog, job'[w].dialog} \subseteq {c, NUL}
      /\ DOMAIN answers' = Dialogs
      /\ \A d \in Dialogs \ {c} :
           toDialog'[d] = toDialog[d] /\ answers'[d] = answers[d]
      /\ \A v \in Workers \ {w} :
           at'[v] = at[v] /\ job'[v] = job[v] /\ reply'[v] = reply[v]
  BY <1>3, <1>4 DEF Contents
<1> QED
  BY <1>4, <1>8, <1>9, OneWorkerAnswers

LEMMA SendDataContents ==
  ASSUME IInv, RepliesFit, Contents, NEW w \in Workers, SendData(w)
  PROVE  Contents'
<1>1. at[w] \in {"data", "failure"}
  BY DEF SendData
<1>2. PICK c \in Dialogs : \E a \in Got(c) :
        /\ c = job[w].dialog /\ Answered(c, a)
        /\ \A v \in Workers : job[v].dialog = c => v = w
        /\ \/ at[w] = "failure" /\ ~a.ok /\ Lies(c, <<>>, <<>>, <<>>)
           \/ /\ at[w] = "data" /\ a.ok /\ reply[w] = TextOf(a)
              /\ \/ Lies(c, <<LengthText>>, <<>>, <<>>)
                 \/ Lies(c, <<>>, LengthText, <<>>)
                 \/ Lies(c, <<>>, <<>>, LengthText)
  BY <1>1, WorkerAnswers
<1>3. PICK a \in Got(c) :
        /\ c = job[w].dialog /\ Answered(c, a)
        /\ \A v \in Workers : job[v].dialog = c => v = w
        /\ \/ at[w] = "failure" /\ ~a.ok /\ Lies(c, <<>>, <<>>, <<>>)
           \/ /\ at[w] = "data" /\ a.ok /\ reply[w] = TextOf(a)
              /\ \/ Lies(c, <<LengthText>>, <<>>, <<>>)
                 \/ Lies(c, <<>>, LengthText, <<>>)
                 \/ Lies(c, <<>>, <<>>, LengthText)
  BY <1>2
<1>4. /\ UNCHANGED <<ui, asked, first, shown, atDialog, answers>>
      /\ job'[w] = NoTask
      /\ \A v \in Workers \ {w} :
           at'[v] = at[v] /\ job'[v] = job[v] /\ reply'[v] = reply[v]
      /\ toDialog'[c] = toDialog[c] \o Packets(reply[w])
      /\ \A d \in Dialogs \ {c} : toDialog'[d] = toDialog[d]
  BY <1>3 DEF SendData, Reply, dialogVars, IInv, Typed
<1>5. /\ at[w] = "failure" => reply[w] = FailedText
      /\ Packets(reply[w]) = <<reply[w]>>
  <2>1. at[w] = "failure" => reply[w] = FailedText
    BY DEF IInv, WorkersInv
  <2>2. Piece(reply[w], 1, DataLen)
    <3>1. CASE at[w] = "data"
      BY <3>1 DEF RepliesFit
    <3>2. CASE at[w] = "failure"
      <4>1. Piece(FailedText, 1, DataLen)
        BY FailedPiece, SchoolAssumption DEF Piece
      <4> QED
        BY <2>1, <3>2, <4>1
    <3> QED
      BY <1>1, <3>1, <3>2
  <2>3. PICK t : t = reply[w]
    OBVIOUS
  <2>4. Packets(t) = <<t>>
    BY <2>2, <2>3, SentAsOne
  <2> QED
    BY <2>1, <2>3, <2>4
<1>6. PICK packet : packet = reply[w]
  OBVIOUS
<1>7. ASSUME NEW line, NEW there, NEW read, Lies(c, line, there, read)
      PROVE  Lies(c, line \o <<packet>>, there, read)'
  BY <1>4, <1>5, <1>7, <1>6 DEF Lies
<1>8. Sent(c, a)'
  <2>1. \A x, y : <<>> \o <<x>> = <<x>> /\ <<x>> \o <<y>> = <<x, y>>
    BY Joined
  <2>2. CASE at[w] = "failure" /\ ~a.ok /\ Lies(c, <<>>, <<>>, <<>>)
    <3>1. Lies(c, <<FailedText>>, <<>>, <<>>)'
      BY <1>5, <1>7, <1>6, <2>1, <2>2
    <3> QED
      BY <2>2, <3>1 DEF Sent
  <2>3. CASE a.ok /\ reply[w] = TextOf(a) /\ Lies(c, <<LengthText>>, <<>>, <<>>)
    <3>1. Lies(c, <<LengthText, TextOf(a)>>, <<>>, <<>>)'
      BY <1>7, <1>6, <2>1, <2>3
    <3> QED
      BY <2>3, <3>1 DEF Sent
  <2>4. CASE a.ok /\ reply[w] = TextOf(a) /\ Lies(c, <<>>, LengthText, <<>>)
    <3>1. Lies(c, <<TextOf(a)>>, LengthText, <<>>)'
      BY <1>7, <1>6, <2>1, <2>4
    <3> QED
      BY <2>4, <3>1 DEF Sent
  <2>5. CASE a.ok /\ reply[w] = TextOf(a) /\ Lies(c, <<>>, <<>>, LengthText)
    <3>1. Lies(c, <<TextOf(a)>>, <<>>, LengthText)'
      BY <1>7, <1>6, <2>1, <2>5
    <3> QED
      BY <2>5, <3>1 DEF Sent
  <2> QED
    BY <1>3, <2>2, <2>3, <2>4, <2>5
<1>9. ~HasWorker(c)'
  BY <1>3, <1>4, SchoolAssumption DEF HasWorker, NoTask
<1>10. Content(c)'
  BY <1>3, <1>4, <1>8, <1>9 DEF Content, Answered, Got
<1>11. /\ {job[w].dialog, job'[w].dialog} \subseteq {c, NUL}
      /\ DOMAIN answers' = Dialogs
      /\ \A d \in Dialogs \ {c} :
           toDialog'[d] = toDialog[d] /\ answers'[d] = answers[d]
  BY <1>3, <1>4 DEF Contents, NoTask
<1> QED
  BY <1>4, <1>10, <1>11, OneWorkerAnswers

LEMMA InitContents == ASSUME Init PROVE Contents
<1>1. ASSUME NEW c \in Dialogs PROVE Content(c)
  <2>1. \A w \in Workers : job[w].dialog # c
    BY SchoolAssumption DEF Init, NoTask
  <2>2. Unanswered(c)
    BY <2>1 DEF Init, Unanswered
  <2> QED
    BY <2>2 DEF Content
<1> QED
  BY <1>1 DEF Contents, Init

LEMMA NextContents ==
  ASSUME NulIsNoByte, NamesAreCells, RepliesFit, IInv, TablesInv, Contents,
         [Next]_vars
  PROVE  Contents'
<1>1. CASE \E c \in Dialogs : Click(c)
  <2>1. PICK c \in Dialogs : \E s : Known(s) /\ DealMessage(c, s)
    BY <1>1, ClickSends
  <2> QED
    BY <2>1, DealMessageContents
<1>2. CASE DialogStep
  BY <1>2, RecvLengthContents, RecvDataContents DEF DialogStep
<1>3. CASE LineStep
  <2>1. PICK c \in Dialogs : ArriveAtServer(c) \/ ArriveAtDialog(c)
    BY <1>3 DEF LineStep
  <2>2. CASE ArriveAtServer(c)
    <3>1. UNCHANGED <<ui, asked, first, shown, answers, toDialog, atDialog, at,
                      job, reply>>
      BY <2>2 DEF ArriveAtServer, dialogVars, poolVars
    <3> QED
      BY <3>1, RequestContents
  <2> QED
    BY <2>1, <2>2, ArriveAtDialogContents
<1>4. CASE \E c \in Dialogs : TakeStatement(c)
  <2>1. UNCHANGED <<ui, asked, first, shown, answers, toDialog, atDialog, at,
                    job, reply>>
    BY <1>4 DEF TakeStatement, dialogVars
  <2> QED
    BY <2>1, RequestContents
<1>5. CASE \E w \in Workers :
             StartTask(w) \/ Query(w) \/ SendLength(w) \/ SendData(w)
  BY <1>5, StartTaskContents, QueryContents, SendLengthContents, SendDataContents
<1>6. CASE UNCHANGED vars
  <2>1. UNCHANGED <<ui, asked, first, shown, answers, toDialog, atDialog, at,
                    job, reply>>
    BY <1>6 DEF vars, dialogVars, lineVars, poolVars
  <2> QED
    BY <2>1, RequestContents
<1> QED
  BY <1>1, <1>2, <1>3, <1>4, <1>5, <1>6 DEF Next, ServerStep

-----------------------------------------------------------------------------
(***************************************************************************)
(* The steps of SchoolService.                                             *)
(***************************************************************************)
Phase == [c \in Dialogs |-> IF ui[c] = "idle" THEN "idle"
                            ELSE IF answers[c] = <<>> THEN "asked"
                            ELSE "answered"]

\* The steps that people do not see.
LEMMA Unseen ==
  ASSUME UNCHANGED <<db, asked, answers, shown>>,
         \A c \in Dialogs : ui'[c] = "idle" <=> ui[c] = "idle"
  PROVE  UNCHANGED Service!vars
<1>1. Phase' = Phase
  BY DEF Phase
<1> QED
  BY <1>1 DEF Service!vars, Phase

LEMMA AskSeen ==
  ASSUME NamesAreCells, IInv, Contents, NEW c \in Dialogs, NEW s,
         DealMessage(c, s)
  PROVE  Service!Ask(c)
<1>1. /\ ui[c] = "idle" /\ ui' = [ui EXCEPT ![c] = "length"]
      /\ DOMAIN ui = Dialogs /\ DOMAIN asked = Dialogs
      /\ asked' = [asked EXCEPT ![c] = s]
      /\ answers' = [answers EXCEPT ![c] = <<>>] /\ DOMAIN answers = Dialogs
      /\ shown' = [shown EXCEPT ![c] = Blank]
      /\ db' = db
  BY DEF DealMessage, Contents, IInv, Typed
<1>2. Phase[c] = "idle" /\ Phase' = [Phase EXCEPT ![c] = "asked"]
  BY <1>1 DEF Phase
<1>3. \A d \in Dialogs \ {c} : asked'[d] = asked[d]
  BY <1>1
<1>4. Service!Blank = Blank
  BY DEF Service!Blank, Blank
<1> QED
  BY <1>1, <1>2, <1>3, <1>4 DEF Service!Ask, Phase

LEMMA ServeSeen ==
  ASSUME NulIsNoByte, NamesAreCells, IInv, TablesInv, Contents,
         NEW w \in Workers, Query(w)
  PROVE  \E c \in Dialogs : Service!Serve(c)
<1>1. PICK c \in Dialogs : \E result :
           /\ c = job[w].dialog /\ result = Execute(asked[c], db)
           /\ ui[c] = "length" /\ asked[c] # NoStatement /\ NoReply(c)
           /\ first[c] = <<>> /\ answers[c] = <<>>
           /\ db' = result.db /\ IsAnswer(Answer(result))
           /\ answers' = [answers EXCEPT ![c] = <<Answer(result)>>]
           /\ at' = [at EXCEPT ![w] = IF result.ok THEN "length" ELSE "failure"]
           /\ result.ok => reply' = [reply EXCEPT ![w] = TextOf(Answer(result))]
  BY QueryServes
<1>2. PICK result :
           /\ result = Execute(asked[c], db)
           /\ ui[c] = "length" /\ asked[c] # NoStatement /\ answers[c] = <<>>
           /\ db' = result.db
           /\ answers' = [answers EXCEPT ![c] = <<Answer(result)>>]
  BY <1>1, Zenon
<1>3. UNCHANGED <<ui, asked, shown>> /\ DOMAIN answers = Dialogs
  BY DEF Query, dialogVars, Contents
<1>4. Phase[c] = "asked" /\ Phase' = [Phase EXCEPT ![c] = "answered"]
  <2>1. answers'[c] # <<>> /\ \A d \in Dialogs \ {c} : answers'[d] = answers[d]
    BY <1>2, <1>3
  <2> QED
    BY <1>2, <1>3, <2>1 DEF Phase
<1>5. /\ Service!Execute(asked[c], db) = result
      /\ Service!NoStatement = NoStatement
      /\ Service!Answer(result) = Answer(result)
  BY <1>2, SameExecution DEF Service!NoStatement, NoStatement, Service!Answer, Answer
<1>6. /\ asked[c] # Service!NoStatement
      /\ db' = Service!Execute(asked[c], db).db
      /\ answers' = [answers EXCEPT ![c] =
                       <<Service!Answer(Service!Execute(asked[c], db))>>]
  BY <1>2, <1>5
<1> QED
  BY <1>3, <1>4, <1>6, Zenon DEF Service!Serve, Phase

LEMMA ShowSeen ==
  ASSUME NamesAreCells, IInv, Contents, NEW c \in Dialogs, RecvData(c)
  PROVE  Service!Show(c)
<1>1. PICK a \in Got(c) :
        /\ Answered(c, a) /\ ~HasWorker(c)
        /\ shown' = [shown EXCEPT ![c] = Service!Faithful(a)]
  BY RecvDataShows
<1>2. /\ ui[c] = "data" /\ ui' = [ui EXCEPT ![c] = "idle"]
      /\ UNCHANGED <<db, asked, answers>> /\ DOMAIN ui = Dialogs
  BY DEF RecvData, IInv, Typed
<1>3. answers[c] = <<a>>
  BY <1>1 DEF Answered
<1>4. answers[c] # <<>> /\ answers[c][1] = a
  BY <1>3, OneItem, Joined
<1>5. Phase[c] = "answered" /\ Phase' = [Phase EXCEPT ![c] = "idle"]
  BY <1>2, <1>4 DEF Phase
<1> QED
  BY <1>1, <1>2, <1>4, <1>5 DEF Service!Show, Phase

LEMMA StepSeen ==
  ASSUME NulIsNoByte, NamesAreCells, IInv, TablesInv, Contents, [Next]_vars
  PROVE  [Service!Next]_(Service!vars)
<1>1. CASE \E c \in Dialogs : Click(c)
  <2>1. PICK c \in Dialogs : \E s : Known(s) /\ DealMessage(c, s)
    BY <1>1, ClickSends
  <2>2. Service!Ask(c)
    BY <2>1, AskSeen
  <2> QED
    BY <2>2 DEF Service!Next
<1>2. CASE \E c \in Dialogs : RecvLength(c)
  <2>1. PICK c \in Dialogs : RecvLength(c)
    BY <1>2
  <2>2. UNCHANGED <<db, asked, answers, shown>>
    BY <2>1 DEF RecvLength
  <2>3. \A d \in Dialogs : ui'[d] = "idle" <=> ui[d] = "idle"
    BY <2>1 DEF RecvLength, IInv, Typed
  <2> QED
    BY <2>2, <2>3, Unseen
<1>3. CASE \E c \in Dialogs : RecvData(c)
  BY <1>3, ShowSeen DEF Service!Next
<1>4. CASE LineStep
  <2>1. UNCHANGED <<db, asked, answers, shown, ui>>
    BY <1>4 DEF LineStep, ArriveAtServer, ArriveAtDialog, dialogVars
  <2> QED
    BY <2>1, Unseen
<1>5. CASE \E w \in Workers : Query(w)
  BY <1>5, ServeSeen DEF Service!Next
<1>6. CASE \/ \E c \in Dialogs : TakeStatement(c)
           \/ \E w \in Workers : StartTask(w) \/ SendLength(w) \/ SendData(w)
  <2>1. UNCHANGED <<db, asked, answers, shown, ui>>
    BY <1>6 DEF TakeStatement, StartTask, SendLength, SendData, dialogVars
  <2> QED
    BY <2>1, Unseen
<1>7. CASE UNCHANGED vars
  <2>1. UNCHANGED <<db, asked, answers, shown, ui>>
    BY <1>7 DEF vars, dialogVars
  <2> QED
    BY <2>1, Unseen
<1> QED
  BY <1>1, <1>2, <1>3, <1>4, <1>5, <1>6, <1>7 DEF Next, ServerStep, DialogStep

LEMMA InitSeen == ASSUME Init PROVE Service!Init
<1>1. Phase = [c \in Dialogs |-> "idle"]
  BY DEF Init, Phase
<1>2. Service!Blank = Blank /\ Service!NoStatement = NoStatement
  BY DEF Service!Blank, Blank, Service!NoStatement, NoStatement
<1> QED
  BY <1>1, <1>2 DEF Init, Service!Init, Phase

LEMMA ContentsShown ==
  ASSUME NamesAreCells, IInv, Contents PROVE ShownIsTheAnswer
<1> SUFFICES ASSUME NEW c \in Dialogs, ui[c] = "idle", asked[c] # NoStatement
             PROVE  /\ Len(answers[c]) = 1
                    /\ shown[c] = Service!Faithful(answers[c][1])
  BY DEF ShownIsTheAnswer
<1>1. Unanswered(c)
  BY IdleRests
<1>2. PICK a \in Got(c) : answers[c] = <<a>> /\ shown[c] = Service!Faithful(a)
  BY <1>1 DEF Unanswered
<1>3. Len(answers[c]) = 1 /\ answers[c][1] = a
  BY <1>2, OneItem
<1> QED
  BY <1>2, <1>3
-----------------------------------------------------------------------------
(***************************************************************************)
(* For every number of dialogs and workers, all texts, and statements and  *)
(* replies of any length.                                                  *)
(***************************************************************************)
\* A row always has the columns of its table, whatever statements are sent.
THEOREM SchoolTypeCorrect == ASSUME NulIsNoByte PROVE Spec => []TypeOK
<1>1. Spec => []TablesInv
  BY InitTables, NextTables, PTL DEF Spec
<1>2. TablesInv => TypeOK
  BY DEF TablesInv
<1> QED
  BY <1>1, <1>2, PTL

\* One statement never changes or deletes two students, courses or classes.
THEOREM OneAtATimeHolds == ASSUME NulIsNoByte PROVE Spec => OneAtATime
<1> DEFINE Step == \A table \in {"t_stu", "t_course", "t_class"} :
                     Cardinality(Ids(db[table] \ db'[table])) <= 1
<1>1. Spec => []TablesInv
  BY InitTables, NextTables, PTL DEF Spec
<1>2. TablesInv /\ [Next]_vars => [Step]_db
  <2> SUFFICES ASSUME TablesInv, [Next]_vars,
                      NEW table \in {"t_stu", "t_course", "t_class"}
               PROVE  Cardinality(Ids(db[table] \ db'[table])) <= 1
    OBVIOUS
  <2>1. table \in DOMAIN Key
    BY DEF Key
  <2>2. PICK r : db[table] \ db'[table] \subseteq {r}
    BY <2>1, NextTables
  <2>3. PICK S : S = db[table] \ db'[table]
    OBVIOUS
  <2> QED
    BY <2>2, <2>3, AtMostOne
<1> QED
  BY <1>1, <1>2, PTL DEF Spec, OneAtATime

-----------------------------------------------------------------------------
(***************************************************************************)
(* As long as statements fit, a reply is one packet, and a cell holds no   *)
(* separator.                                                              *)
(***************************************************************************)
LEMMA EveryInvariant ==
  ASSUME NulIsNoByte, NamesAreCells, StatementsFit
  PROVE  Spec /\ []RepliesFit => [](IInv /\ TablesInv /\ Contents)
<1>1. Init => IInv /\ TablesInv /\ Contents
  BY InitIInv, InitTables, InitContents
<1>2. (RepliesFit /\ [Next]_vars /\ IInv /\ TablesInv /\ Contents)
        => (IInv /\ TablesInv /\ Contents)'
  <2> SUFFICES ASSUME RepliesFit, [Next]_vars, IInv, TablesInv, Contents
               PROVE  IInv' /\ TablesInv' /\ Contents'
    OBVIOUS
  <2>1. IInv'
    BY NextIInv
  <2>2. TablesInv'
    BY NextTables
  <2>3. Contents'
    BY NextContents
  <2> QED
    BY <2>1, <2>2, <2>3
<1> QED
  BY <1>1, <1>2, PTL DEF Spec

\* When DealMessage has returned, the dialog shows exactly what the database
\* answered to its statement, not a part of it and not another's answer.
THEOREM ShownIsTheAnswerHolds ==
  ASSUME NulIsNoByte, NamesAreCells, StatementsFit
  PROVE  Spec /\ []RepliesFit => []ShownIsTheAnswer
BY EveryInvariant, ContentsShown, PTL

\* The whole system does what SchoolService says: a statement is executed once,
\* as it was sent, between the click and the answer, and its dialog shows the
\* result.
THEOREM ServedHolds ==
  ASSUME NulIsNoByte, NamesAreCells, StatementsFit
  PROVE  Spec /\ []RepliesFit => Served
<1>1. Spec /\ []RepliesFit => [](IInv /\ TablesInv /\ Contents)
  BY EveryInvariant
<1>2. IInv /\ TablesInv /\ Contents /\ [Next]_vars => [Service!Next]_(Service!vars)
  BY StepSeen
<1> QED
  BY <1>1, <1>2, InitSeen, PTL DEF Spec, Served, Service!Spec
=============================================================================
