----------------------------- MODULE SchoolInv ------------------------------
(***************************************************************************)
(* The inductive invariants: IInv, the stage of every dialog from the      *)
(* click to the return of DealMessage, behind InStep, OneWorkerEach and    *)
(* AsSent; TablesInv, the tables and the statements under way, behind      *)
(* TypeOK and OneAtATime; and Contents, what the replies under way say,    *)
(* behind Served and ShownIsTheAnswer.                                     *)
(***************************************************************************)
EXTENDS SchoolProps

Kinds == {"insert", "update", "delete", "select", "giveClass", "giveCourse",
          "dropCourse", "choices", "nothing"}

\* A packet fits into the buffer of DealMessage, and only the empty text has no
\* bytes.
ASSUME SchoolAssumption ==
  /\ NUL \notin Dialogs
  /\ LenSize \in Nat \ {0} /\ DataLen \in Nat /\ ReplySize \in Nat
  /\ ClearSize \in Nat /\ BuffSize \in Nat
  /\ 2 * LenSize <= DataLen /\ DataLen <= ReplySize /\ ClearSize <= BuffSize
  /\ StatementLen \in [Kinds -> Nat]
  /\ \A kind \in Kinds : StatementLen[kind] = 0 <=> kind = "nothing"

ASSUME BoundAssumption == MaxClicks \in Nat

\* The two halves of the message of a failure are texts, not a length of 1.
ASSUME HalvesAssumption == LenSize > 1

\* The byte 0 is in no statement.
NulIsNoByte == \A s, i : [of |-> s, at |-> i] # NUL

IsText(text) == text \in Seq({text[i] : i \in DOMAIN text})

\* A piece of text of at least so many and at most so many bytes.
Piece(text, least, most) == IsText(text) /\ Len(text) \in least .. most

\* Every statement is one packet, and the byte behind it in pBuff is zero: it
\* is shorter than what memset clears, or no other statement is longer.
StatementsFit ==
  \A kind \in Kinds :
    /\ StatementLen[kind] <= DataLen
    /\ StatementLen[kind] < BuffSize
    /\ StatementLen[kind] >= ClearSize =>
         \A other \in Kinds : StatementLen[other] <= StatementLen[kind]

\* Every reply to a statement that succeeds is one packet.
RepliesFit ==
  \A w \in Workers : at[w] \in {"length", "data"} => Piece(reply[w], 1, DataLen)

Known(s) == s.do \in Kinds /\ (s.do = "nothing" <=> s = NoStatement)

-----------------------------------------------------------------------------
Typed ==
  /\ {DOMAIN ui, DOMAIN asked, DOMAIN toServer, DOMAIN atServer,
      DOMAIN toDialog, DOMAIN atDialog, DOMAIN pBuff} = {Dialogs}
  /\ {DOMAIN at, DOMAIN job, DOMAIN reply} = {Workers}
  /\ \A c \in Dialogs : Known(asked[c])
  /\ \A c \in Dialogs :
       /\ DOMAIN pBuff[c] = 1 .. BuffSize
       /\ \A i \in 1 .. BuffSize :
            (\A kind \in Kinds : StatementLen[kind] < i) => pBuff[c][i] = NUL

HasTask(c) == \E i \in DOMAIN workQue : workQue[i].dialog = c

HasWorker(c) == \E w \in Workers : job[w].dialog = c

QueueInv ==
  /\ IsText(workQue)
  /\ \A i \in DOMAIN workQue :
       /\ workQue[i].dialog \in Dialogs
       /\ workQue[i].text = Statement(asked[workQue[i].dialog])
  /\ \A i, j \in DOMAIN workQue : workQue[i].dialog = workQue[j].dialog => i = j

WorkersInv ==
  \A w \in Workers :
    /\ at[w] \in {"idle", "query", "length", "data", "failure"}
    /\ at[w] = "idle" <=> job[w].dialog = NUL
    /\ job[w].dialog \in Dialogs \union {NUL}
    /\ at[w] = "failure" => reply[w] = FailedText

-----------------------------------------------------------------------------
(***************************************************************************)
(* The stages of a dialog.                                                 *)
(***************************************************************************)
NoRequest(c) == toServer[c] = <<>> /\ atServer[c] = <<>> /\ ~HasTask(c)

NoReply(c) == toDialog[c] = <<>> /\ atDialog[c] = <<>>

Resting(c) == ui[c] = "idle" /\ NoRequest(c) /\ ~HasWorker(c) /\ NoReply(c)

\* DealMessage was called with the empty text.
Hanging(c) ==
  /\ ui[c] = "length" /\ asked[c] = NoStatement
  /\ NoRequest(c) /\ ~HasWorker(c) /\ NoReply(c)

\* The statement is in one place.
Asking(c) ==
  /\ ui[c] = "length" /\ asked[c] # NoStatement
  /\ ~HasWorker(c) /\ NoReply(c)
  /\ \/ /\ toServer[c] = <<Statement(asked[c])>>
        /\ atServer[c] = <<>> /\ ~HasTask(c)
     \/ /\ toServer[c] = <<>>
        /\ atServer[c] = Statement(asked[c]) /\ ~HasTask(c)
     \/ toServer[c] = <<>> /\ atServer[c] = <<>> /\ HasTask(c)

\* The length of the reply is under way, has arrived or was read.
LengthSent(c) ==
  \/ ui[c] = "length" /\ toDialog[c] = <<LengthText>> /\ atDialog[c] = <<>>
  \/ ui[c] = "length" /\ toDialog[c] = <<>> /\ Piece(atDialog[c], LenSize, LenSize)
  \/ ui[c] = "data" /\ NoReply(c)

Working(c) ==
  /\ asked[c] # NoStatement
  /\ NoRequest(c)
  /\ \E w \in Workers :
       /\ job[w].dialog = c
       /\ \/ at[w] \in {"length", "failure"} /\ ui[c] = "length" /\ NoReply(c)
          \/ /\ at[w] = "query" /\ ui[c] = "length" /\ NoReply(c)
             /\ job[w].text = Statement(asked[c])
          \/ at[w] = "data" /\ LengthSent(c)

OnePacket(c) ==
  /\ Len(toDialog[c]) = 1
  /\ toDialog[c] = <<toDialog[c][1]>>
  /\ Piece(toDialog[c][1], 1, DataLen)

\* The worker has sent the whole of the reply.
Replied(c) ==
  /\ asked[c] # NoStatement
  /\ NoRequest(c) /\ ~HasWorker(c)
  /\ \/ /\ ui[c] = "length" /\ atDialog[c] = <<>>
        /\ \/ /\ Len(toDialog[c]) = 2
              /\ toDialog[c] = <<LengthText, toDialog[c][2]>>
              /\ Piece(toDialog[c][2], 1, DataLen)
           \/ toDialog[c] = <<FailedText>>
     \/ /\ ui[c] = "length" /\ Piece(atDialog[c], LenSize, LenSize)
        /\ OnePacket(c)
     \/ /\ ui[c] = "length" /\ toDialog[c] = <<>>
        /\ Piece(atDialog[c], LenSize + 1, LenSize + DataLen)
     \/ /\ ui[c] = "data" /\ atDialog[c] = <<>>
        /\ OnePacket(c)
     \/ /\ ui[c] = "data" /\ toDialog[c] = <<>>
        /\ Piece(atDialog[c], 1, DataLen)

Stage(c) ==
  Resting(c) \/ Hanging(c) \/ Asking(c) \/ Working(c) \/ Replied(c)

IInv ==
  /\ Typed /\ QueueInv /\ WorkersInv /\ OneWorkerEach
  /\ \A c \in Dialogs : Stage(c)
-----------------------------------------------------------------------------
(***************************************************************************)
(* The tables.                                                             *)
(***************************************************************************)
Columns == [t_stu       |-> {"id", "stu_number", "stu_name", "stu_class"},
            t_class     |-> {"id", "class_name"},
            t_course    |-> {"id", "course_number", "course_name"},
            t_selcourse |-> {"sel_stu_id", "sel_course_id"}]

\* The columns that hold texts, which are those a dialog may list.
TextColumns == [t_stu       |-> {"stu_number", "stu_name"},
                t_class     |-> {"class_name"},
                t_course    |-> {"course_number", "course_name"},
                t_selcourse |-> {}]

ListColumns == UNION {TextColumns[table] : table \in DOMAIN TextColumns}

\* What was typed or was in the tables from the start.
Texts ==
  StuNumbers \union StuNames \union CourseNumbers \union CourseNames
    \union ClassNames
    \union UNION {UNION {{r[col] : r \in d[table]} : col \in TextColumns[table]}
                    : d \in InitialDbs, table \in DOMAIN TextColumns}

IsRow(table, r) ==
  /\ DOMAIN r = Columns[table]
  /\ \A col \in TextColumns[table] : r[col] \in Texts

DbInv(d) ==
  /\ DOMAIN d = DOMAIN Columns
  /\ \A table \in DOMAIN Columns :
       IsFiniteSet(d[table]) /\ \A r \in d[table] : IsRow(table, r)
  /\ \A table \in DOMAIN Key : KeysDiffer(table, d[table])

\* The server is started on tables with the columns and keys of the design.
ASSUME DatabaseAssumption ==
  \A d \in InitialDbs :
    /\ DOMAIN d = DOMAIN Columns
    /\ \A table \in DOMAIN Columns :
         IsFiniteSet(d[table]) /\ \A r \in d[table] : DOMAIN r = Columns[table]
    /\ \A table \in DOMAIN Key : KeysDiffer(table, d[table])

-----------------------------------------------------------------------------
(***************************************************************************)
(* The statements of the handlers, and their bytes.                        *)
(***************************************************************************)
HasTexts(record, table) ==
  \A col \in DOMAIN record \intersect TextColumns[table] : record[col] \in Texts

\* A row is named by its key and keeps its id; what is listed are texts.
Proper(s) ==
  /\ s.do \in Kinds \ {"nothing"}
  /\ s.do \in {"insert", "update", "delete"} => s.table \in DOMAIN Key
  /\ s.do = "insert" => /\ DOMAIN s.row = Columns[s.table] \ {"id"}
                        /\ HasTexts(s.row, s.table)
  /\ s.do = "update" => /\ DOMAIN s.new \subseteq Columns[s.table] \ {"id"}
                        /\ HasTexts(s.new, s.table)
  /\ s.do \in {"update", "delete"} => DOMAIN s.where = {Key[s.table]}
  /\ s.do = "select" =>
       \/ s.view \in DOMAIN Key /\ s.columns \in Seq(TextColumns[s.view])
       \/ /\ s.view = "classmates"
          /\ s.columns \in Seq(TextColumns.t_stu \union TextColumns.t_class)
  /\ s.do = "choices" =>
       s.columns \in Seq(TextColumns.t_stu \union TextColumns.t_course)
  /\ s.do \in {"select", "choices"} => s.columns # <<>>

IsByte(b) ==
  \/ b = NUL
  \/ b = [of |-> b.of, at |-> b.at] /\ Proper(b.of)

Carries(text) == IsText(text) /\ \A i \in DOMAIN text : IsByte(text[i])

\* Nothing but the statements of the handlers is on its way to the database.
Requests ==
  /\ \A c \in Dialogs :
       /\ IsText(toServer[c])
       /\ \A k \in DOMAIN toServer[c] : Carries(toServer[c][k])
       /\ Carries(atServer[c])
       /\ \A i \in 1 .. BuffSize : IsByte(pBuff[c][i])
  /\ IsText(workQue)
  /\ \A i \in DOMAIN workQue : Carries(workQue[i].text)
  /\ \A w \in Workers : at[w] = "query" => Carries(job[w].text)

TablesInv == TypeOK /\ DOMAIN job = Workers /\ DbInv(db) /\ Requests

-----------------------------------------------------------------------------
(***************************************************************************)
(* What the replies say.                                                   *)
(***************************************************************************)
IsAnswer(a) ==
  a.ok => \/ a.head = <<>> /\ a.rows = {}
          \/ /\ a.head \in Seq(ListColumns) \ {<<>>}
             /\ IsFiniteSet(a.rows)
             /\ \A row \in a.rows : row \in Seq(Texts) \ {<<>>}

TextOf(a) == IF a.ok THEN DataText(a.head, SetToSeq(a.rows)) ELSE FailedText

\* The message of a failure when the first Recv has taken its half of it.
FirstHalf == SubSeq(FailedText, 1, LenSize)

SecondHalf == SubSeq(FailedText, LenSize + 1, 2 * LenSize)

\* What is on the line, in m_bufRecv and in buff.
Lies(c, line, there, read) ==
  /\ toDialog[c] = line /\ atDialog[c] = there /\ first[c] = read
  /\ ui[c] = IF read = <<>> THEN "length" ELSE "data"

\* Some of the reply is still to be sent by a worker.
Sending(c, a) ==
  \E w \in Workers :
    /\ job[w].dialog = c
    /\ \/ /\ at[w] = "failure" /\ ~a.ok
          /\ Lies(c, <<>>, <<>>, <<>>)
       \/ /\ at[w] = "length" /\ a.ok /\ reply[w] = TextOf(a)
          /\ Lies(c, <<>>, <<>>, <<>>)
       \/ /\ at[w] = "data" /\ a.ok /\ reply[w] = TextOf(a)
          /\ \/ Lies(c, <<LengthText>>, <<>>, <<>>)
             \/ Lies(c, <<>>, LengthText, <<>>)
             \/ Lies(c, <<>>, <<>>, LengthText)

Sent(c, a) ==
  \/ /\ a.ok
     /\ \/ Lies(c, <<LengthText, TextOf(a)>>, <<>>, <<>>)
        \/ Lies(c, <<TextOf(a)>>, LengthText, <<>>)
        \/ Lies(c, <<>>, LengthText \o TextOf(a), <<>>)
        \/ Lies(c, <<TextOf(a)>>, <<>>, LengthText)
        \/ Lies(c, <<>>, TextOf(a), LengthText)
  \/ /\ ~a.ok
     /\ \/ Lies(c, <<FailedText>>, <<>>, <<>>)
        \/ Lies(c, <<>>, FailedText, <<>>)
        \/ Lies(c, <<>>, SecondHalf, FirstHalf)

Got(c) == {answers[c][i] : i \in DOMAIN answers[c]}

\* A dialog that rests or waits for the database, and one that is answered.
Unanswered(c) ==
  /\ first[c] = <<>>
  /\ \/ /\ ui[c] = "idle"
        /\ asked[c] # NoStatement =>
             \E a \in Got(c) :
               answers[c] = <<a>> /\ shown[c] = Service!Faithful(a)
     \/ ui[c] = "length" /\ answers[c] = <<>> /\ NoReply(c)
  /\ \A w \in Workers : job[w].dialog = c => at[w] = "query"

Answered(c, a) ==
  /\ answers[c] = <<a>> /\ IsAnswer(a)
  /\ \/ Sending(c, a)
     \/ ~HasWorker(c) /\ Sent(c, a)

Content(c) == Unanswered(c) \/ \E a \in Got(c) : Answered(c, a)

Contents ==
  /\ DOMAIN first = Dialogs /\ DOMAIN answers = Dialogs /\ DOMAIN shown = Dialogs
  /\ \A c \in Dialogs : Content(c)

\* The texts of the cells and the names of the columns are not separators, a
\* column has a name, and NUL is neither a separator nor a letter.
NamesAreCells ==
  /\ (Texts \union ListColumns) \intersect {"|", "/", "{", "}", NUL} = {}
  /\ NUL \notin {"|", "/", "{", "}", "failed"}
  /\ Empty \notin ListColumns
=============================================================================
