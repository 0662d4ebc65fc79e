---------------------------- MODULE SchoolProps -----------------------------
(***************************************************************************)
(* What the people at the dialogs may rely on.                             *)
(***************************************************************************)
EXTENDS School

\* Every variable has its type; a row has the columns of its table.
TypeOK ==
  /\ \A r \in db.t_stu : DOMAIN r = {"id", "stu_number", "stu_name", "stu_class"}
  /\ \A r \in db.t_course : DOMAIN r = {"id", "course_number", "course_name"}
  /\ \A r \in db.t_class : DOMAIN r = {"id", "class_name"}
  /\ \A r \in db.t_selcourse : DOMAIN r = {"sel_stu_id", "sel_course_id"}
  /\ ui \in [Dialogs -> {"idle", "length", "data"}]
  /\ at \in [Workers -> {"idle", "query", "length", "data", "failure"}]
  /\ {DOMAIN asked, DOMAIN first, DOMAIN shown, DOMAIN toServer,
      DOMAIN atServer, DOMAIN toDialog, DOMAIN atDialog, DOMAIN answers,
      DOMAIN pBuff} = {Dialogs}
  /\ \A c \in Dialogs : DOMAIN pBuff[c] = 1 .. BuffSize
  /\ \A i \in DOMAIN workQue : workQue[i].dialog \in Dialogs
  /\ \A w \in Workers : at[w] = "idle" <=> job[w] = NoTask
  /\ DOMAIN reply = Workers
  /\ clicks \in 0 .. MaxClicks

(***************************************************************************)
(* Safety.                                                                 *)
(***************************************************************************)
\* Some of the statement of c or of its answer is on the line or in the server.
UnderWay(c) ==
  \/ toServer[c] # <<>> \/ atServer[c] # <<>>
  \/ \E i \in DOMAIN workQue : workQue[i].dialog = c
  \/ \E w \in Workers : job[w].dialog = c
  \/ toDialog[c] # <<>> \/ atDialog[c] # <<>>

\* DealMessage has no timeout and does not match answers with questions: while
\* it waits, what it waits for must be under way, and when it has returned
\* nothing may be left that the next call would take for its answer.  (With
\* no text to send nothing is under way, and it waits for ever.)
InStep ==
  \A c \in Dialogs :
    UnderWay(c) <=> ui[c] # "idle" /\ asked[c] # NoStatement

\* The length and the data of a reply are two Sends of the callback: no two
\* workers may answer one client at once.
OneWorkerEach ==
  \A v, w \in Workers :
    v # w /\ at[v] # "idle" => job[v].dialog # job[w].dialog

\* pBuff is used again for every statement and only partly cleared: what a
\* worker executes is the statement its dialog waits for, from the first byte
\* to the last, with nothing of an earlier one behind it.  (Nothing limits the
\* length of a statement: it holds where SchoolInv!StatementsFit does, and
\* MCSchool!LongLengths is a case where it does not.)
AsSent ==
  \A w \in Workers :
    at[w] = "query" => job[w].text = Statement(asked[job[w].dialog])

\* When DealMessage has returned, the dialog shows the whole of what the
\* database answered to the statement of this dialog sent last: not the answer
\* of another statement or dialog, nor a part of one.
Service == INSTANCE SchoolService
  WITH phase <- [c \in Dialogs |-> IF ui[c] = "idle" THEN "idle"
                                   ELSE IF answers[c] = <<>> THEN "asked"
                                   ELSE "answered"]

ShownIsTheAnswer ==
  \A c \in Dialogs :
    ui[c] = "idle" /\ asked[c] # NoStatement
      => /\ Len(answers[c]) = 1
         /\ shown[c] = Service!Faithful(answers[c][1])

(***************************************************************************)
(* Steps.                                                                  *)
(***************************************************************************)
\* The whole system does what SchoolService says: a statement is executed
\* once, as it was sent, between the click and the answer.
Served == Service!Spec

\* The handlers name a student, a course or a class by its key: one statement
\* never changes or deletes two of them.
OneAtATime ==
  [][\A table \in {"t_stu", "t_course", "t_class"} :
       Cardinality(Ids(db[table] \ db'[table])) <= 1]_db

\* "给学生分配班级": giving a student a class never takes its class away.
KeepsAClass ==
  [][\A s \in db.t_stu, t \in db'.t_stu :
       s.id = t.id /\ s.stu_class # Null => t.stu_class # Null]_db

(***************************************************************************)
(* Liveness.                                                               *)
(***************************************************************************)
\* A dialog goes on when something has arrived, and a worker when it has
\* something to do: the steps of RecvLength and RecvData, and those of
\* StartTask, Query, SendLength and SendData, by what they do to ui and at.
Reads(c) ==
  /\ ui[c] # "idle" /\ atDialog[c] # <<>>
  /\ ui' = [ui EXCEPT ![c] = IF @ = "length" THEN "data" ELSE "idle"]

Works(w) ==
  /\ at[w] # "idle" \/ workQue # <<>>
  /\ \E stage \in {"idle", "query", "length", "data", "failure"} \ {at[w]} :
       at' = [at EXCEPT ![w] = stage]

\* Packets arrive (UmtLinkProps!EventuallyRead), threads run, MySQL answers.
Fairness ==
  /\ \A c \in Dialogs : /\ WF_vars(ArriveAtServer(c))
                        /\ WF_vars(TakeStatement(c))
                        /\ WF_vars(ArriveAtDialog(c))
                        /\ WF_ui(Reads(c))
  /\ \A w \in Workers : WF_at(Works(w))

FairSpec == Spec /\ Fairness

\* DealMessage returns, unless there was no text to send.
DialogReturns ==
  \A c \in Dialogs :
    ui[c] # "idle" /\ asked[c] # NoStatement ~> ui[c] = "idle"
=============================================================================
