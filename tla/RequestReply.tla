---------------------------- MODULE RequestReply ----------------------------
(***************************************************************************)
(* A statement on its way from a dialog to the database and back:          *)
(* CUserDlg::DealMessage, the loop of _Thread in Server.cpp, a worker of   *)
(* the pool and the callback of _Thread.                                   *)
(*                                                                         *)
(* Each direction of a connection is a reliable stream of bytes that       *)
(* arrives packet by packet (UmtLink), and the pool starts its tasks in    *)
(* order (TaskBoard).  A byte of a statement is known by its statement and *)
(* its place in it; replies are the texts of ReplyText.                    *)
(***************************************************************************)
EXTENDS SchoolDb, ReplyText

CONSTANTS
  Dialogs,        \* connected clients, with a _Thread each
  Workers,        \* threads of the pool
  DataLen,        \* DATALEN of CUMT
  BuffSize,       \* the 0x1000 bytes of pBuff
  ClearSize,      \* how many of them memset clears
  ReplySize,      \* the 0x10000 bytes of buff in DealMessage
  StatementLen,   \* [kinds of statements -> length of the text]
  InitialDbs,     \* databases a server may be started on
  MaxClicks       \* bound: statements sent in all

VARIABLES
  db,        \* the tables
  \* the dialogs
  ui,        \* where DealMessage is: "idle", or in its first or second Recv
  asked,     \* the statement it was last called with
  first,     \* what the first Recv put into buff
  shown,     \* what the dialog shows
  \* the connections
  toServer,  \* packets under way
  atServer,  \* m_bufRecv of the accepted CUMT
  toDialog,  \* packets under way
  atDialog,  \* m_bufRecv of umt
  \* the server
  pBuff,     \* [Dialogs -> contents of the buffer of _Thread]
  workQue,   \* tasks of the pool: a dialog and the text to execute
  at,        \* where a worker is
  job,       \* [Workers -> its last task]
  reply,     \* [Workers -> the data it is going to send]
  \* history
  answers,   \* [Dialogs -> what the database answered since the last click]
  clicks

dialogVars == <<ui, asked, first, shown, clicks>>
lineVars == <<toServer, atServer, toDialog, atDialog>>
poolVars == <<workQue, at, job, reply>>
vars == <<db, dialogVars, lineVars, pBuff, poolVars, answers>>

Shorter(m, n) == IF m <= n THEN m ELSE n

\* The packets CUMT::Send makes of a text.
Packets(text) ==
  [k \in 1 .. (Len(text) + DataLen - 1) \div DataLen |->
     SubSeq(text, (k - 1) * DataLen + 1, Shorter(k * DataLen, Len(text)))]

Statement(s) == [i \in 1 .. StatementLen[s.do] |-> [of |-> s, at |-> i]]

\* The text is one statement from its first byte to its last.
IsWhole(text) == text # <<>> /\ text = Statement(text[1].of)

NoTask == [dialog |-> NUL, text |-> <<>>]

-----------------------------------------------------------------------------
(***************************************************************************)
(* DealMessage.                                                            *)
(***************************************************************************)
\* The list is emptied and the statement is sent.
DealMessage(c, s) ==
  /\ ui[c] = "idle"
  /\ clicks < MaxClicks
  /\ clicks' = clicks + 1
  /\ ui' = [ui EXCEPT ![c] = "length"]
  /\ asked' = [asked EXCEPT ![c] = s]
  /\ shown' = [shown EXCEPT ![c] = Blank]
  /\ answers' = [answers EXCEPT ![c] = <<>>]
  /\ toServer' = [toServer EXCEPT ![c] = @ \o Packets(Statement(s))]
  /\ UNCHANGED <<db, first, atServer, toDialog, atDialog, pBuff, poolVars>>

\* Defect: Recv is not limited to the length.
AllThere(c) == Len(atDialog[c])

\* What a Recv of 4 bytes takes.
LengthThere(c) == Shorter(LenSize, Len(atDialog[c]))

\* The first Recv, of which only the number of bytes is looked at.
RecvLength(c) ==
  LET n == LengthThere(c)
  IN  /\ ui[c] = "length"
      /\ atDialog[c] # <<>>
      /\ first' = [first EXCEPT ![c] = SubSeq(atDialog[c], 1, n)]
      /\ atDialog' = [atDialog EXCEPT ![c] = SubSeq(@, n + 1, Len(@))]
      /\ ui' = [ui EXCEPT ![c] = "data"]
      /\ UNCHANGED <<db, asked, shown, clicks, toServer, atServer, toDialog,
                     pBuff, poolVars, answers>>

\* The second Recv writes over the first.
Overlay(data, under) == data \o SubSeq(under, Len(data) + 1, Len(under))

\* Recv of what has arrived by now, and the rest of DealMessage.
RecvData(c) ==
  LET n == Shorter(ReplySize, Len(atDialog[c]))
      buff == Overlay(SubSeq(atDialog[c], 1, n), first[c])
  IN  /\ ui[c] = "data"
      /\ atDialog[c] # <<>>
      /\ atDialog' = [atDialog EXCEPT ![c] = SubSeq(@, n + 1, Len(@))]
      /\ first' = [first EXCEPT ![c] = <<>>]
      /\ shown' = [shown EXCEPT ![c] = Display(CString(buff))]
      /\ ui' = [ui EXCEPT ![c] = "idle"]
      /\ UNCHANGED <<db, asked, clicks, toServer, atServer, toDialog, pBuff,
                     poolVars, answers>>

-----------------------------------------------------------------------------
(***************************************************************************)
(* The connection: a packet enters the buffer of the other end.            *)
(***************************************************************************)
ArriveAtServer(c) ==
  /\ toServer[c] # <<>>
  /\ atServer' = [atServer EXCEPT ![c] = @ \o Head(toServer[c])]
  /\ toServer' = [toServer EXCEPT ![c] = Tail(@)]
  /\ UNCHANGED <<db, dialogVars, toDialog, atDialog, pBuff, poolVars, answers>>

ArriveAtDialog(c) ==
  /\ toDialog[c] # <<>>
  /\ atDialog' = [atDialog EXCEPT ![c] = @ \o Head(toDialog[c])]
  /\ toDialog' = [toDialog EXCEPT ![c] = Tail(@)]
  /\ UNCHANGED <<db, dialogVars, toServer, atServer, pBuff, poolVars, answers>>

-----------------------------------------------------------------------------
(***************************************************************************)
(* The server.                                                             *)
(***************************************************************************)
\* Defect: pBuff is not cleared.
NotCleared(buff) == buff

\* memset(pBuff, '\0', 1000)
Cleared(buff) ==
  [i \in 1 .. BuffSize |-> IF i <= ClearSize THEN NUL ELSE buff[i]]

\* Defect: one byte at a time.
OneByte(c) == 1

\* What the Recv of _Thread takes.
StatementThere(c) == Shorter(BuffSize, Len(atServer[c]))

\* One round of _Thread: memset, Recv of what has arrived, ExcuSql with a copy
\* of the C string in pBuff.
TakeStatement(c) ==
  LET n    == StatementThere(c)
      buff == [i \in 1 .. BuffSize |->
                 IF i <= n THEN atServer[c][i] ELSE Cleared(pBuff[c])[i]]
  IN  /\ atServer[c] # <<>>
      /\ atServer' = [atServer EXCEPT ![c] = SubSeq(@, n + 1, Len(@))]
      /\ pBuff' = [pBuff EXCEPT ![c] = buff]
      /\ workQue' = Append(workQue, [dialog |-> c, text |-> CString(buff)])
      /\ UNCHANGED <<db, dialogVars, toServer, toDialog, atDialog, at, job,
                     reply, answers>>

StartTask(w) ==
  /\ at[w] = "idle"
  /\ workQue # <<>>
  /\ job' = [job EXCEPT ![w] = Head(workQue)]
  /\ workQue' = Tail(workQue)
  /\ at' = [at EXCEPT ![w] = "query"]
  /\ UNCHANGED <<db, dialogVars, lineVars, pBuff, reply, answers>>

\* The statement is executed; a text that is not a statement is an error.  The
\* callback begins.
Query(w) ==
  LET text   == job[w].text
      c      == job[w].dialog
      result == IF IsWhole(text) THEN Execute(text[1].of, db) ELSE Failed(db)
  IN  /\ at[w] = "query"
      /\ db' = result.db
      /\ at' = [at EXCEPT ![w] = IF result.ok THEN "length" ELSE "failure"]
      /\ reply' = [reply EXCEPT ![w] =
                     IF result.ok
                     THEN DataText(result.head, SetToSeq(result.rows))
                     ELSE FailedText]
      /\ answers' = [answers EXCEPT ![c] = Append(@, Answer(result))]
      /\ UNCHANGED <<dialogVars, lineVars, pBuff, workQue, job>>

\* Defect: a failure is not answered.
ReplyIfDone(w, text) ==
  LET c == job[w].dialog
  IN  toDialog' = [toDialog EXCEPT ![c] =
                     IF at[w] = "failure" THEN @ ELSE @ \o Packets(text)]

\* pUtp->Send in the callback.
Reply(w, text) ==
  LET c == job[w].dialog
  IN  toDialog' = [toDialog EXCEPT ![c] = @ \o Packets(text)]

SendLength(w) ==
  /\ at[w] = "length"
  /\ Reply(w, LengthText)
  /\ at' = [at EXCEPT ![w] = "data"]
  /\ UNCHANGED <<db, dialogVars, toServer, atServer, atDialog, pBuff, workQue,
                 job, reply, answers>>

\* SendData and the failure: the last Send of the callback, and the worker is
\* free.
SendData(w) ==
  /\ at[w] \in {"data", "failure"}
  /\ Reply(w, reply[w])
  /\ at' = [at EXCEPT ![w] = "idle"]
  /\ reply' = [reply EXCEPT ![w] = <<>>]
  /\ job' = [job EXCEPT ![w] = NoTask]
  /\ UNCHANGED <<db, dialogVars, toServer, atServer, atDialog, pBuff, workQue,
                 answers>>

-----------------------------------------------------------------------------
Init ==
  /\ db \in InitialDbs
  /\ ui = [c \in Dialogs |-> "idle"]
  /\ asked = [c \in Dialogs |-> NoStatement]
  /\ first = [c \in Dialogs |-> <<>>]
  /\ shown = [c \in Dialogs |-> Blank]
  /\ toServer = [c \in Dialogs |-> <<>>]
  /\ atServer = [c \in Dialogs |-> <<>>]
  /\ toDialog = [c \in Dialogs |-> <<>>]
  /\ atDialog = [c \in Dialogs |-> <<>>]
  /\ pBuff = [c \in Dialogs |-> [i \in 1 .. BuffSize |-> NUL]]
  /\ workQue = <<>>
  /\ at = [w \in Workers |-> "idle"]
  /\ job = [w \in Workers |-> NoTask]
  /\ reply = [w \in Workers |-> <<>>]
  /\ answers = [c \in Dialogs |-> <<>>]
  /\ clicks = 0

LineStep == \E c \in Dialogs : ArriveAtServer(c) \/ ArriveAtDialog(c)

ServerStep ==
  \/ \E c \in Dialogs : TakeStatement(c)
  \/ \E w \in Workers : StartTask(w) \/ Query(w) \/ SendLength(w) \/ SendData(w)

DialogStep == \E c \in Dialogs : RecvLength(c) \/ RecvData(c)
=============================================================================
