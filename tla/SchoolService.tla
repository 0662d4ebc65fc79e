--------------------------- MODULE SchoolService ----------------------------
(***************************************************************************)
(* What the system promises to the people at the dialogs: each statement   *)
(* is executed once, at one moment between the click and the answer, on    *)
(* the tables as they are at that moment, and the dialog that asked shows  *)
(* what it gave.  There is no network, no server and no pool.              *)
(***************************************************************************)
EXTENDS SchoolDb, ReplyText

CONSTANTS Dialogs, InitialDbs

VARIABLES
  db,      \* the tables
  phase,   \* [Dialogs -> {"idle", "asked", "answered"}]
  asked,   \* the last statement of a dialog
  answers, \* its answer, once there is one
  shown    \* what a dialog shows

vars == <<db, phase, asked, answers, shown>>

\* What a dialog is to make of an answer: a list of exactly the rows, "done"
\* for a statement without a result, and an empty list without headings for a
\* statement that failed.
Faithful(answer) ==
  LET Cells(row) == [i \in DOMAIN row |-> Cell(row[i])]
      rows == SetToSeq(answer.rows)
  IN  IF ~answer.ok THEN List(<<<<>>>>, <<>>)
      ELSE IF answer.head = <<>> THEN Success
      ELSE List(Cells(answer.head), [i \in DOMAIN rows |-> Cells(rows[i])])

-----------------------------------------------------------------------------
Init ==
  /\ db \in InitialDbs
  /\ phase = [c \in Dialogs |-> "idle"]
  /\ asked = [c \in Dialogs |-> NoStatement]
  /\ answers = [c \in Dialogs |-> <<>>]
  /\ shown = [c \in Dialogs |-> Blank]

\* Any statement may be asked.
Ask(c) ==
  /\ phase[c] = "idle"
  /\ phase' = [phase EXCEPT ![c] = "asked"]
  /\ \A d \in Dialogs \ {c} : asked'[d] = asked[d]
  /\ answers' = [answers EXCEPT ![c] = <<>>]
  /\ shown' = [shown EXCEPT ![c] = Blank]
  /\ UNCHANGED db

\* No statement is never answered.
Serve(c) ==
  LET result == Execute(asked[c], db)
  IN  /\ phase[c] = "asked"
      /\ asked[c] # NoStatement
      /\ db' = result.db
      /\ answers' = [answers EXCEPT ![c] = <<Answer(result)>>]
      /\ phase' = [phase EXCEPT ![c] = "answered"]
      /\ UNCHANGED <<asked, shown>>

Show(c) ==
  /\ phase[c] = "answered"
  /\ shown' = [shown EXCEPT ![c] = Faithful(answers[c][1])]
  /\ phase' = [phase EXCEPT ![c] = "idle"]
  /\ UNCHANGED <<db, asked, answers>>

Next == \E c \in Dialogs : Ask(c) \/ Serve(c) \/ Show(c)

Spec == Init /\ [][Next]_vars
=============================================================================
