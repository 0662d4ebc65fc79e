---------------------------- MODULE SchoolProofs -----------------------------
(***************************************************************************)
(* For any dialogs, workers and tables: a dialog that waits has what it    *)
(* waits for under way, at most one worker answers it, and what a worker   *)
(* executes is the statement it sent.                                      *)
(***************************************************************************)
EXTENDS SchoolInv, SequenceTheorems, TLAPS

-----------------------------------------------------------------------------
(***************************************************************************)
(* Texts.                                                                  *)
(***************************************************************************)
\* A sequence over any set is a text.
LEMMA TextOfSeq == ASSUME NEW S, NEW t \in Seq(S) PROVE IsText(t)
<1>1. /\ Len(t) \in Nat
      /\ t \in [1 .. Len(t) -> {t[i] : i \in DOMAIN t}]
  OBVIOUS
<1> QED
  BY <1>1 DEF IsText

\* Texts have a length, and can be put together and cut.
LEMMA TextLength == ASSUME NEW t, IsText(t) PROVE Len(t) \in Nat
  BY DEF IsText

LEMMA TextConcat ==
  ASSUME NEW a, NEW b, IsText(a), IsText(b)
  PROVE  IsText(a \o b) /\ Len(a \o b) = Len(a) + Len(b)
<1> DEFINE S == {a[i] : i \in DOMAIN a} \union {b[i] : i \in DOMAIN b}
<1>1. a \in Seq(S) /\ b \in Seq(S)
  BY SeqMonotonic DEF IsText
<1> HIDE DEF S
<1>2. a \o b \in Seq(S) /\ Len(a \o b) = Len(a) + Len(b)
  BY <1>1, ConcatProperties
<1> QED
  BY <1>2, TextOfSeq

LEMMA TextCut ==
  ASSUME NEW t, IsText(t), NEW n \in 0 .. Len(t)
  PROVE  /\ IsText(SubSeq(t, n + 1, Len(t)))
         /\ Len(SubSeq(t, n + 1, Len(t))) = Len(t) - n
<1> DEFINE S == {t[i] : i \in DOMAIN t}
<1>1. t \in Seq(S) /\ Len(t) \in Nat
  BY DEF IsText
<1> HIDE DEF S
<1>2. /\ SubSeq(t, n + 1, Len(t)) \in Seq(S)
      /\ Len(SubSeq(t, n + 1, Len(t))) = Len(t) - n
  BY <1>1
<1> QED
  BY <1>2, TextOfSeq

LEMMA EmptyText == IsText(<<>>)
<1>1. <<>> \in Seq({})
  OBVIOUS
<1> QED
  BY <1>1, TextOfSeq

\* A text without bytes is empty.
LEMMA NoBytes == ASSUME NEW t, IsText(t) PROVE Len(t) = 0 <=> t = <<>>
  BY DEF IsText

LEMMA CutAll ==
  ASSUME NEW t, IsText(t) PROVE SubSeq(t, Len(t) + 1, Len(t)) = <<>>
<1>1. Len(t) \in Nat
  BY TextLength
<1>2. /\ IsText(SubSeq(t, Len(t) + 1, Len(t)))
      /\ Len(SubSeq(t, Len(t) + 1, Len(t))) = 0
  BY <1>1, TextCut
<1> QED
  BY <1>2, NoBytes

-----------------------------------------------------------------------------
(***************************************************************************)
(* Packets.                                                                *)
(***************************************************************************)
LEMMA OneQuotient ==
  ASSUME NEW d \in Nat, NEW n \in 1 .. d PROVE (n + d - 1) \div d = 1
<1> DEFINE q == (n + d - 1) \div d
<1>1. q \in Int /\ d * q <= n + d - 1 /\ n + d - 1 < d * q + d
  OBVIOUS
<1> HIDE DEF q
<1>2. q < 2
  <2>1. q >= 2 => d * q >= d * 2
    BY <1>1
  <2> QED
    BY <1>1, <2>1
<1>3. q > 0
  <2>1. q <= 0 => d * q <= 0
    BY <1>1
  <2> QED
    BY <1>1, <2>1
<1>4. q = 1
  BY <1>1, <1>2, <1>3
<1> QED
  BY <1>4 DEF q

LEMMA NoQuotient ==
  ASSUME NEW d \in Nat \ {0} PROVE (d - 1) \div d = 0
<1> DEFINE q == (d - 1) \div d
<1>1. q \in Int /\ d * q <= d - 1 /\ d - 1 < d * q + d
  OBVIOUS
<1> HIDE DEF q
<1>2. q < 1
  <2>1. q >= 1 => d * q >= d * 1
    BY <1>1
  <2> QED
    BY <1>1, <2>1
<1>3. q > -1
  <2>1. q <= -1 => d * q <= d * (-1)
    BY <1>1
  <2> QED
    BY <1>1, <2>1
<1>4. q = 0
  BY <1>1, <1>2, <1>3
<1> QED
  BY <1>4 DEF q

\* What fits into a packet is sent as one.
LEMMA SentAsOne ==
  ASSUME NEW t, Piece(t, 1, DataLen) PROVE Packets(t) = <<t>>
<1>1. IsText(t) /\ Len(t) \in 1 .. DataLen /\ DataLen \in Nat
  BY SchoolAssumption DEF Piece
<1>2. (Len(t) + DataLen - 1) \div DataLen = 1
  BY <1>1, OneQuotient
<1>3. /\ (1 - 1) * DataLen + 1 = 1
      /\ Shorter(1 * DataLen, Len(t)) = Len(t)
  BY <1>1 DEF Shorter
<1>4. SubSeq(t, 1, Len(t)) = t
  BY <1>1, SubSeqFull DEF IsText
<1>5. Packets(t) = [k \in {1} |-> t]
  BY <1>1, <1>2, <1>3, <1>4 DEF Packets
<1> QED
  BY <1>5

\* Nothing is not sent at all.
LEMMA NothingSent == Packets(<<>>) = <<>>
<1>1. DataLen \in Nat \ {0} /\ Len(<<>>) = 0
  BY SchoolAssumption
<1>2. (Len(<<>>) + DataLen - 1) \div DataLen = 0
  BY <1>1, NoQuotient
<1>3. DOMAIN Packets(<<>>) = {}
  BY <1>2 DEF Packets
<1> QED
  BY <1>2 DEF Packets

-----------------------------------------------------------------------------
(***************************************************************************)
(* The texts that are sent.                                                *)
(***************************************************************************)
LEMMA LengthPiece == Piece(LengthText, LenSize, LenSize) /\ LenSize \in 1 .. DataLen
<1>1. LenSize \in Nat \ {0} /\ DataLen \in Nat /\ 2 * LenSize <= DataLen
  BY SchoolAssumption
<1>2. LengthText \in Seq({"digit", NUL}) /\ Len(LengthText) = LenSize
  BY <1>1 DEF LengthText
<1> QED
  BY <1>1, <1>2, TextOfSeq DEF Piece

LEMMA FailedPiece ==
  Piece(FailedText, 2 * LenSize, 2 * LenSize) /\ 2 * LenSize \in 1 .. DataLen
<1>1. LenSize \in Nat \ {0} /\ DataLen \in Nat /\ 2 * LenSize <= DataLen
  BY SchoolAssumption
<1>2. FailedText \in Seq({"failed"}) /\ Len(FailedText) = 2 * LenSize
  BY <1>1 DEF FailedText
<1> QED
  BY <1>1, <1>2, TextOfSeq DEF Piece

LEMMA StatementText ==
  ASSUME NEW s, Known(s)
  PROVE  /\ IsText(Statement(s))
         /\ Len(Statement(s)) = StatementLen[s.do]
         /\ StatementLen[s.do] \in Nat
         /\ StatementLen[s.do] = 0 <=> s = NoStatement
<1>1. /\ StatementLen[s.do] \in Nat
      /\ StatementLen[s.do] = 0 <=> s = NoStatement
  BY SchoolAssumption DEF Known
<1> DEFINE n == StatementLen[s.do]
           S == {[of |-> s, at |-> i] : i \in 1 .. n}
<1>2. Statement(s) = [i \in 1 .. n |-> [of |-> s, at |-> i]]
  BY DEF Statement
<1>3. n \in Nat
  BY <1>1
<1> HIDE DEF n
<1>4. Statement(s) \in Seq(S) /\ Len(Statement(s)) = n
  BY <1>2, <1>3
<1> HIDE DEF S
<1>5. IsText(Statement(s))
  BY <1>4, TextOfSeq
<1> QED
  BY <1>1, <1>4, <1>5 DEF n

LEMMA StatementBytes ==
  ASSUME NEW s, Known(s), s # NoStatement PROVE Statement(s) # <<>>
  BY StatementText, NoBytes

\* A statement that fits is one packet.
LEMMA StatementPiece ==
  ASSUME StatementsFit, NEW s, Known(s), s # NoStatement
  PROVE  Piece(Statement(s), 1, DataLen)
<1>1. StatementLen[s.do] <= DataLen
  BY DEF StatementsFit, Known
<1>2. IsText(Statement(s)) /\ Len(Statement(s)) \in 1 .. DataLen
  BY <1>1, StatementText, SchoolAssumption
<1> QED
  BY <1>2 DEF Piece

LEMMA NoStatementText == Statement(NoStatement) = <<>>
<1>1. Known(NoStatement)
  BY DEF Known, NoStatement, Kinds
<1> QED
  BY <1>1, StatementText, NoBytes

\* A buffer with a text in front and a zero behind it, or nothing behind it, is
\* read as that text.
LEMMA CStringOfBuffer ==
  ASSUME NEW t, IsText(t), NEW size \in Nat, Len(t) <= size,
         \A i \in 1 .. Len(t) : t[i] # NUL,
         NEW buff, DOMAIN buff = 1 .. size, buff = [i \in 1 .. size |-> buff[i]],
         \A i \in 1 .. Len(t) : buff[i] = t[i],
         Len(t) < size => buff[Len(t) + 1] = NUL
  PROVE  CString(buff) = t
<1> DEFINE n == Len(t)
<1>1. n \in Nat /\ n <= size /\ t = [i \in 1 .. n |-> t[i]]
  BY DEF IsText
<1>2. /\ \A i \in 1 .. n : buff[i] = t[i] /\ t[i] # NUL
      /\ n < size => buff[n + 1] = NUL
  OBVIOUS
<1> HIDE DEF n
<1>3. Positions(buff, NUL) = {i \in 1 .. size : buff[i] = NUL}
  BY DEF Positions
<1>4. CASE n = size
  <2>1. Positions(buff, NUL) = {}
    BY <1>1, <1>2, <1>3, <1>4
  <2>2. Find(buff, NUL) = 0
    BY <2>1 DEF Find
  <2>3. CString(buff) = buff
    BY <2>2 DEF CString
  <2> QED
    BY <1>1, <1>2, <1>4, <2>3
<1>5. CASE n < size
  <2>1. n + 1 \in Positions(buff, NUL)
    BY <1>1, <1>2, <1>3, <1>5
  <2>2. ASSUME NEW j \in Positions(buff, NUL) PROVE j \in Nat /\ n + 1 <= j
    <3>1. j \in 1 .. size /\ buff[j] = NUL
      BY <1>3
    <3>2. ~(j <= n)
      BY <1>1, <1>2, <3>1
    <3> QED
      BY <1>1, <3>1, <3>2
  <2>3. Find(buff, NUL) \in Positions(buff, NUL)
        /\ \A j \in Positions(buff, NUL) : Find(buff, NUL) <= j
    BY <2>1, <2>2 DEF Find
  <2>4. Find(buff, NUL) # 0 /\ Find(buff, NUL) - 1 = n
    BY <1>1, <2>1, <2>2, <2>3
  <2>5. CString(buff) = SubSeq(buff, 1, Find(buff, NUL) - 1)
    BY <2>4, Zenon DEF CString
  <2>6. CString(buff) = SubSeq(buff, 1, n)
    BY <2>4, <2>5
  <2>7. SubSeq(buff, 1, n) = [i \in 1 .. n |-> buff[i]]
    BY <1>1
  <2> QED
    BY <1>1, <1>2, <2>6, <2>7
<1> QED
  BY <1>1, <1>4, <1>5

-----------------------------------------------------------------------------
(***************************************************************************)
(* The queue of the pool.                                                  *)
(***************************************************************************)
LEMMA TextIndices ==
  ASSUME NEW t, IsText(t) PROVE Len(t) \in Nat /\ DOMAIN t = 1 .. Len(t)
  BY DEF IsText

\* A task for a dialog that has none joins the queue.
LEMMA QueueAppend ==
  ASSUME QueueInv, NEW c \in Dialogs, ~HasTask(c), asked' = asked,
         workQue' = Append(workQue, [dialog |-> c, text |-> Statement(asked[c])])
  PROVE  QueueInv' /\ \A d : HasTask(d)' <=> HasTask(d) \/ d = c
<1> DEFINE n == Len(workQue)
           task == [dialog |-> c, text |-> Statement(asked[c])]
           S == {workQue[i] : i \in DOMAIN workQue} \union {task}
<1>1. n \in Nat /\ DOMAIN workQue = 1 .. n
  BY TextIndices DEF QueueInv
<1>2. workQue \in Seq(S) /\ task \in S
  BY SeqMonotonic DEF QueueInv, IsText
<1>3. task.dialog = c /\ task.text = Statement(asked[c])
  OBVIOUS
<1>4. workQue' = Append(workQue, task)
  OBVIOUS
<1> HIDE DEF task, S
<1>5. /\ workQue' \in Seq(S)
      /\ Len(workQue') = n + 1
      /\ \A i \in 1 .. n : workQue'[i] = workQue[i]
      /\ workQue'[n + 1] = task
  BY <1>2, <1>4, AppendProperties
<1> HIDE DEF n
<1>6. IsText(workQue)' /\ DOMAIN workQue' = 1 .. n + 1
  <2>1. IsText(workQue')
    BY <1>5, TextOfSeq
  <2>2. DOMAIN workQue' = 1 .. n + 1
    BY <1>5, <2>1, TextIndices
  <2> QED
    BY <2>1, <2>2 DEF IsText
<1>7. \A d : HasTask(d)' <=> HasTask(d) \/ d = c
  BY <1>1, <1>3, <1>5, <1>6 DEF HasTask
<1>8. \A i \in 1 .. n + 1 :
        \/ i \in 1 .. n /\ workQue'[i] = workQue[i] /\ workQue[i].dialog # c
        \/ i = n + 1 /\ workQue'[i] = task
  BY <1>1, <1>5 DEF HasTask
<1>9. \A i \in DOMAIN workQue' :
        /\ workQue'[i].dialog \in Dialogs
        /\ workQue'[i].text = Statement(asked'[workQue'[i].dialog])
  BY <1>1, <1>3, <1>6, <1>8 DEF QueueInv
<1>10. \A i, j \in DOMAIN workQue' :
         workQue'[i].dialog = workQue'[j].dialog => i = j
  BY <1>1, <1>3, <1>6, <1>8 DEF QueueInv
<1>11. \A t : Statement(t)' = Statement(t)
  BY DEF Statement
<1> QED
  BY <1>6, <1>7, <1>9, <1>10 DEF QueueInv, Statement

\* The first task leaves the queue.
LEMMA QueueTail ==
  ASSUME QueueInv, workQue # <<>>, workQue' = Tail(workQue), asked' = asked
  PROVE  /\ QueueInv'
         /\ Head(workQue).dialog \in Dialogs
         /\ HasTask(Head(workQue).dialog)
         /\ Head(workQue).text = Statement(asked[Head(workQue).dialog])
         /\ \A d : HasTask(d)' <=> HasTask(d) /\ d # Head(workQue).dialog
<1> DEFINE n == Len(workQue)
           S == {workQue[i] : i \in DOMAIN workQue}
<1>1. n \in Nat \ {0} /\ DOMAIN workQue = 1 .. n
  BY TextIndices, NoBytes DEF QueueInv
<1>2. workQue \in Seq(S)
  BY DEF QueueInv, IsText
<1> HIDE DEF S
<1>3. /\ Head(workQue) = workQue[1]
      /\ workQue' \in Seq(S)
      /\ Len(workQue') = n - 1
      /\ \A i \in 1 .. n - 1 : workQue'[i] = workQue[i + 1]
  BY <1>2, HeadTailProperties
<1> HIDE DEF n
<1>4. IsText(workQue)' /\ DOMAIN workQue' = 1 .. n - 1
  <2>1. IsText(workQue')
    BY <1>3, TextOfSeq
  <2>2. DOMAIN workQue' = 1 .. n - 1
    BY <1>3, <2>1, TextIndices
  <2> QED
    BY <2>1, <2>2 DEF IsText
<1>5. /\ workQue[1].dialog \in Dialogs
      /\ workQue[1].text = Statement(asked[workQue[1].dialog])
      /\ HasTask(workQue[1].dialog)
  BY <1>1 DEF QueueInv, HasTask
<1>6. ASSUME NEW d
      PROVE  HasTask(d)' <=> HasTask(d) /\ d # workQue[1].dialog
  <2>1. ASSUME HasTask(d)' PROVE HasTask(d) /\ d # workQue[1].dialog
    <3>1. PICK i \in 1 .. n - 1 : workQue'[i].dialog = d
      BY <1>4, <2>1 DEF HasTask
    <3>2. i + 1 \in 1 .. n /\ i + 1 # 1 /\ 1 \in 1 .. n
      BY <1>1
    <3>3. workQue[i + 1].dialog = d
      BY <1>3, <3>1
    <3> QED
      BY <1>1, <3>2, <3>3 DEF HasTask, QueueInv
  <2>2. ASSUME HasTask(d), d # workQue[1].dialog PROVE HasTask(d)'
    <3>1. PICK i \in 1 .. n : workQue[i].dialog = d
      BY <1>1, <2>2 DEF HasTask
    <3>2. i - 1 \in 1 .. n - 1 /\ (i - 1) + 1 = i
      BY <1>1, <2>2, <3>1
    <3>3. workQue'[i - 1] = workQue[i]
      BY <1>3, <3>2
    <3> QED
      BY <1>4, <3>1, <3>2, <3>3 DEF HasTask
  <2> QED
    BY <2>1, <2>2
<1>7. \A i \in 1 .. n - 1 : i + 1 \in 1 .. n
  BY <1>1
<1>8. \A i \in DOMAIN workQue' :
        /\ workQue'[i].dialog \in Dialogs
        /\ workQue'[i].text = Statement(asked'[workQue'[i].dialog])
  BY <1>1, <1>3, <1>4, <1>7 DEF QueueInv
<1>9. \A i, j \in DOMAIN workQue' :
        workQue'[i].dialog = workQue'[j].dialog => i = j
  <2> SUFFICES ASSUME NEW i \in 1 .. n - 1, NEW j \in 1 .. n - 1,
                      workQue'[i].dialog = workQue'[j].dialog
               PROVE  i = j
    BY <1>4
  <2>1. workQue[i + 1].dialog = workQue[j + 1].dialog
    BY <1>3
  <2>2. i + 1 = j + 1
    BY <1>1, <1>7, <2>1 DEF QueueInv
  <2> QED
    BY <1>1, <2>2
<1> QED
  BY <1>3, <1>4, <1>5, <1>6, <1>8, <1>9 DEF QueueInv, Statement

-----------------------------------------------------------------------------
(***************************************************************************)
(* What a step leaves alone.                                               *)
(***************************************************************************)
\* The stage of a dialog depends on its own variables, tasks and workers.
LEMMA StageKept ==
  ASSUME NEW d \in Dialogs, Stage(d),
         ui'[d] = ui[d], asked'[d] = asked[d],
         toServer'[d] = toServer[d], atServer'[d] = atServer[d],
         toDialog'[d] = toDialog[d], atDialog'[d] = atDialog[d],
         HasTask(d)' <=> HasTask(d),
         \A w \in Workers : job[w].dialog = d \/ job'[w].dialog = d
                              => job'[w] = job[w] /\ at'[w] = at[w]
  PROVE  Stage(d)'
<1>1. HasWorker(d)' <=> HasWorker(d)
  BY DEF HasWorker
<1>2. NoRequest(d)' <=> NoRequest(d)
  BY DEF NoRequest
<1>3. NoReply(d)' <=> NoReply(d)
  BY DEF NoReply
<1>4. LengthSent(d)' <=> LengthSent(d)
  BY <1>3 DEF LengthSent, Piece, IsText, LengthText
<1>5. Statement(asked[d])' = Statement(asked[d])
  BY DEF Statement
<1>6. Resting(d) => Resting(d)'
  BY <1>1, <1>2, <1>3 DEF Resting
<1>7. Hanging(d) => Hanging(d)'
  BY <1>1, <1>2, <1>3 DEF Hanging
<1>8. Asking(d) => Asking(d)'
  BY <1>1, <1>3, <1>5 DEF Asking
<1>9. Working(d) => Working(d)'
  BY <1>2, <1>3, <1>4, <1>5 DEF Working
<1>10. OnePacket(d)' <=> OnePacket(d)
  BY DEF OnePacket, Piece, IsText
<1>11. Replied(d) => Replied(d)'
  BY <1>1, <1>2, <1>10 DEF Replied, Piece, IsText, LengthText, FailedText
<1> QED
  BY <1>6, <1>7, <1>8, <1>9, <1>11 DEF Stage

\* A step of the line or of a dialog touches the variables of one dialog.
LEMMA OneDialogMoves ==
  ASSUME IInv, NEW c \in Dialogs,
         UNCHANGED <<asked, pBuff, workQue, at, job, reply>>,
         {DOMAIN ui', DOMAIN toServer', DOMAIN atServer', DOMAIN toDialog',
          DOMAIN atDialog'} = {Dialogs},
         \A d \in Dialogs \ {c} :
           /\ ui'[d] = ui[d] /\ toServer'[d] = toServer[d]
           /\ atServer'[d] = atServer[d] /\ toDialog'[d] = toDialog[d]
           /\ atDialog'[d] = atDialog[d],
         Stage(c)'
  PROVE  IInv'
<1>1. Typed'
  BY DEF IInv, Typed, Known
<1>2. QueueInv'
  BY DEF IInv, QueueInv, IsText, Statement
<1>3. WorkersInv' /\ OneWorkerEach'
  BY DEF IInv, WorkersInv, OneWorkerEach, FailedText
<1>4. ASSUME NEW d \in Dialogs \ {c} PROVE Stage(d)'
  <2>1. HasTask(d)' <=> HasTask(d)
    BY DEF HasTask
  <2>2. Stage(d)
    BY DEF IInv
  <2> QED
    BY <2>1, <2>2, StageKept
<1> QED
  BY <1>1, <1>2, <1>3, <1>4 DEF IInv

-----------------------------------------------------------------------------
(***************************************************************************)
(* The steps of the connection and of a dialog.                            *)
(***************************************************************************)
LEMMA HeadOfOne ==
  ASSUME NEW t, NEW a, t = <<a>> PROVE Head(t) = a /\ Tail(t) = <<>>
  OBVIOUS

LEMMA OneItem ==
  ASSUME NEW t, NEW a, t = <<a>>
  PROVE  Len(t) = 1 /\ t[1] = a /\ t = <<t[1]>>
  OBVIOUS

LEMMA Joined ==
  ASSUME NEW a, NEW b
  PROVE  /\ <<>> \o <<a>> = <<a>> /\ <<a>> \o <<b>> = <<a, b>>
         /\ <<a>> # <<>>
<1>1. <<>> \o <<a>> = <<a>>
  <2>1. <<a>> \in Seq({a})
    OBVIOUS
  <2> QED
    BY <2>1, ConcatEmptySeq
<1>2. <<a>> \o <<b>> = <<a, b>>
  <2>1. /\ <<a>> \in Seq({a, b}) /\ <<b>> \in Seq({a, b})
        /\ Len(<<a>>) = 1 /\ Len(<<b>>) = 1 /\ <<a>>[1] = a /\ <<b>>[1] = b
    OBVIOUS
  <2>2. /\ <<a>> \o <<b>> \in Seq({a, b}) /\ Len(<<a>> \o <<b>>) = 2
        /\ (<<a>> \o <<b>>)[1] = a /\ (<<a>> \o <<b>>)[2] = b
    BY <2>1, ConcatProperties
  <2>3. /\ <<a, b>> \in Seq({a, b}) /\ Len(<<a, b>>) = 2
        /\ <<a, b>>[1] = a /\ <<a, b>>[2] = b
    OBVIOUS
  <2>4. \A i \in 1 .. 2 : (<<a>> \o <<b>>)[i] = <<a, b>>[i]
    BY <2>2, <2>3
  <2> QED
    BY <2>2, <2>3, <2>4, SeqEqual
<1>3. <<a>> # <<>>
  OBVIOUS
<1> QED
  BY <1>1, <1>2, <1>3

LEMMA HeadOfTwo ==
  ASSUME NEW t, NEW a, NEW b, t = <<a, b>> PROVE Head(t) = a /\ Tail(t) = <<b>>
  OBVIOUS

\* A statement arrives.
LEMMA ArriveAtServerStep ==
  ASSUME IInv, NEW c \in Dialogs, ArriveAtServer(c) PROVE IInv'
<1> USE DEF ArriveAtServer, dialogVars, poolVars
<1>1. Typed /\ Stage(c) /\ Known(asked[c])
  BY DEF IInv, Typed
<1>2. /\ Asking(c)
      /\ toServer[c] = <<Statement(asked[c])>>
      /\ atServer[c] = <<>> /\ ~HasTask(c)
  BY <1>1 DEF Stage, Resting, Hanging, Asking, Working, Replied, NoRequest
<1>3. /\ toServer'[c] = <<>>
      /\ atServer'[c] = <<>> \o Statement(asked[c])
  <2>1. /\ Head(toServer[c]) = Statement(asked[c])
        /\ Tail(toServer[c]) = <<>>
    BY <1>2, HeadOfOne
  <2> QED
    BY <1>1, <1>2, <2>1 DEF Typed
<1>4. <<>> \o Statement(asked[c]) = Statement(asked[c])
  BY <1>1, StatementText DEF IsText
<1>5. HasTask(c)' <=> HasTask(c)
  BY DEF HasTask
<1>6. HasWorker(c)' <=> HasWorker(c)
  BY DEF HasWorker
<1>7. Statement(asked[c])' = Statement(asked[c])
  BY DEF Statement
<1>8. Asking(c)'
  BY <1>2, <1>3, <1>4, <1>5, <1>6, <1>7 DEF Asking, NoReply
<1>9. Stage(c)'
  BY <1>8 DEF Stage
<1> QED
  BY <1>1, <1>9, OneDialogMoves DEF Typed

\* The packets of a reply arrive.
LEMMA ArriveAtDialogStep ==
  ASSUME IInv, NEW c \in Dialogs, ArriveAtDialog(c) PROVE IInv'
<1> USE DEF ArriveAtDialog, dialogVars, poolVars
<1> DEFINE packet == Head(toDialog[c])
           there == atDialog[c]
<1>1. Typed /\ Stage(c)
  BY DEF IInv
<1>2. /\ toDialog'[c] = Tail(toDialog[c])
      /\ atDialog'[c] = there \o packet
  BY <1>1 DEF Typed
<1>3. NoRequest(c)' <=> NoRequest(c)
  BY DEF NoRequest, HasTask
<1>4. HasWorker(c)' <=> HasWorker(c)
  BY DEF HasWorker
<1>5. \A a, b : IsText(a) /\ IsText(b)
         => /\ IsText(a \o b) /\ Len(a \o b) = Len(a) + Len(b)
            /\ Len(a) \in Nat /\ Len(b) \in Nat
  BY TextConcat, TextLength
<1>6. /\ LenSize \in Nat \ {0} /\ DataLen \in Nat
      /\ 2 * LenSize \in 1 .. DataLen
      /\ IsText(<<>>) /\ Len(<<>>) = 0
      /\ Piece(LengthText, LenSize, LenSize)
      /\ Piece(FailedText, 2 * LenSize, 2 * LenSize)
  BY SchoolAssumption, EmptyText, LengthPiece, FailedPiece
<1>7. toDialog[c] # <<>>
  OBVIOUS
<1>8. Working(c) \/ Replied(c)
  BY <1>1, <1>7 DEF Stage, Resting, Hanging, Asking, NoReply
<1>9. CASE Working(c)
  <2>1. PICK w \in Workers :
          /\ job[w].dialog = c /\ at[w] = "data"
          /\ ui[c] = "length" /\ toDialog[c] = <<LengthText>> /\ there = <<>>
    BY <1>7, <1>9 DEF Working, LengthSent, NoReply
  <2>2. toDialog'[c] = <<>> /\ packet = LengthText
    BY <1>2, <2>1
  <2>3. Piece(atDialog'[c], LenSize, LenSize)
    BY <1>2, <1>5, <1>6, <2>1, <2>2 DEF Piece
  <2>4. LengthSent(c)'
    BY <2>1, <2>2, <2>3 DEF LengthSent, Piece, IsText
  <2>5. Working(c)'
    BY <1>3, <1>9, <2>1, <2>4 DEF Working
  <2> QED
    BY <1>1, <2>5, OneDialogMoves DEF Typed, Stage
<1>10. CASE Replied(c)
  <2> DEFINE Arrived ==
        \/ /\ ui[c] = "length" /\ toDialog'[c] = <<>>
           /\ Piece(atDialog'[c], LenSize + 1, LenSize + DataLen)
        \/ /\ ui[c] = "length" /\ Piece(atDialog'[c], LenSize, LenSize)
           /\ OnePacket(c)'
        \/ /\ ui[c] = "data" /\ toDialog'[c] = <<>>
           /\ Piece(atDialog'[c], 1, DataLen)
  <2>1. ASSUME ui[c] = "length", there = <<>>,
               toDialog[c] = <<LengthText, toDialog[c][2]>>,
               Piece(toDialog[c][2], 1, DataLen)
        PROVE  Arrived
    <3>0. PICK data : toDialog[c] = <<LengthText, data>> /\ Piece(data, 1, DataLen)
      BY <2>1
    <3>1. packet = LengthText /\ Tail(toDialog[c]) = <<data>>
      BY <3>0, HeadOfTwo
    <3>2. Piece(atDialog'[c], LenSize, LenSize)
      BY <1>2, <1>5, <1>6, <2>1, <3>1 DEF Piece
    <3>3. toDialog'[c] = <<data>>
      BY <1>2, <3>1
    <3>4. OnePacket(c)'
      <4>1. /\ Len(toDialog'[c]) = 1 /\ toDialog'[c][1] = data
            /\ toDialog'[c] = <<toDialog'[c][1]>>
        BY <3>3, OneItem
      <4> QED
        BY <3>0, <4>1, Zenon DEF OnePacket, Piece, IsText
    <3> QED
      BY <2>1, <3>2, <3>4
  <2>2. ASSUME ui[c] = "length", there = <<>>, toDialog[c] = <<FailedText>>
        PROVE  Arrived
    <3>1. packet = FailedText /\ toDialog'[c] = <<>>
      BY <1>2, <2>2
    <3>2. Piece(atDialog'[c], 2 * LenSize, 2 * LenSize)
      BY <1>2, <1>5, <1>6, <2>2, <3>1 DEF Piece
    <3>3. Piece(atDialog'[c], LenSize + 1, LenSize + DataLen)
      BY <1>6, <3>2 DEF Piece
    <3> QED
      BY <2>2, <3>1, <3>3
  <2>3. ASSUME ui[c] = "length", Piece(there, LenSize, LenSize), OnePacket(c)
        PROVE  Arrived
    <3>1. Piece(packet, 1, DataLen) /\ toDialog'[c] = <<>>
      BY <1>2, <2>3, HeadOfOne DEF OnePacket
    <3>2. /\ IsText(there) /\ IsText(packet)
          /\ Len(there) = LenSize /\ Len(packet) \in 1 .. DataLen
      BY <1>6, <2>3, <3>1 DEF Piece
    <3>3. IsText(atDialog'[c]) /\ Len(atDialog'[c]) = LenSize + Len(packet)
      BY <1>2, <1>5, <3>2
    <3>4. Piece(atDialog'[c], LenSize + 1, LenSize + DataLen)
      BY <1>6, <3>2, <3>3 DEF Piece
    <3> QED
      BY <2>3, <3>1, <3>4
  <2>4. ASSUME ui[c] = "data", there = <<>>, OnePacket(c)
        PROVE  Arrived
    <3>1. Piece(packet, 1, DataLen) /\ toDialog'[c] = <<>>
      BY <1>2, <2>4, HeadOfOne DEF OnePacket
    <3>2. Piece(atDialog'[c], 1, DataLen)
      BY <1>2, <1>5, <1>6, <2>4, <3>1 DEF Piece
    <3> QED
      BY <2>4, <3>1, <3>2
  <2>5. Arrived
    BY <1>7, <1>10, <2>1, <2>2, <2>3, <2>4 DEF Replied
  <2>6. Replied(c)'
    BY <1>3, <1>4, <1>10, <2>5 DEF Replied, Piece, IsText
  <2> QED
    BY <1>1, <2>6, OneDialogMoves DEF Typed, Stage
<1> QED
  BY <1>8, <1>9, <1>10

\* What is left of a text after a Recv.
LEMMA RestOf ==
  ASSUME NEW t, IsText(t), NEW n \in Nat, n <= Len(t)
  PROVE  /\ IsText(SubSeq(t, n + 1, Len(t)))
         /\ Len(SubSeq(t, n + 1, Len(t))) = Len(t) - n
         /\ n = Len(t) => SubSeq(t, n + 1, Len(t)) = <<>>
<1>1. Len(t) \in Nat /\ n \in 0 .. Len(t)
  BY TextLength
<1> QED
  BY <1>1, TextCut, CutAll

\* The first Recv of DealMessage takes the length and nothing else.
LEMMA RecvLengthStep ==
  ASSUME IInv, NEW c \in Dialogs, RecvLength(c) PROVE IInv'
<1> USE DEF RecvLength, poolVars
<1> DEFINE there == atDialog[c]
           rest == SubSeq(there, LenSize + 1, Len(there))
<1>1. Typed /\ Stage(c)
  BY DEF IInv
<1>2. /\ ui[c] = "length" /\ ui'[c] = "data" /\ there # <<>>
      /\ atDialog'[c] = SubSeq(there, LengthThere(c) + 1, Len(there))
      /\ toDialog'[c] = toDialog[c]
  BY <1>1 DEF Typed
<1>3. NoRequest(c)' <=> NoRequest(c)
  BY DEF NoRequest, HasTask
<1>4. HasWorker(c)' <=> HasWorker(c)
  BY DEF HasWorker
<1>5. LenSize \in Nat \ {0} /\ DataLen \in Nat
  BY SchoolAssumption
<1>6. Working(c) \/ Replied(c)
  BY <1>1, <1>2 DEF Stage, Resting, Hanging, Asking, NoReply
<1>7. ASSUME IsText(there), Len(there) >= LenSize
      PROVE  /\ atDialog'[c] = rest
             /\ IsText(rest) /\ Len(rest) = Len(there) - LenSize
             /\ Len(there) = LenSize => rest = <<>>
  <2>1. LengthThere(c) = LenSize
    BY <1>5, <1>7, TextLength DEF LengthThere, Shorter
  <2> QED
    BY <1>2, <1>5, <1>7, <2>1, RestOf
<1> HIDE DEF rest
<1>8. CASE Working(c)
  <2>1. PICK w \in Workers :
          /\ job[w].dialog = c /\ at[w] = "data"
          /\ toDialog[c] = <<>> /\ Piece(there, LenSize, LenSize)
    BY <1>2, <1>8 DEF Working, LengthSent, NoReply
  <2>2. IsText(there) /\ Len(there) = LenSize
    BY <1>5, <2>1 DEF Piece
  <2>3. atDialog'[c] = <<>>
    BY <1>5, <1>7, <2>2
  <2>4. LengthSent(c)'
    BY <1>2, <2>1, <2>3 DEF LengthSent, NoReply
  <2>5. Working(c)'
    BY <1>3, <1>8, <2>1, <2>4 DEF Working
  <2> QED
    BY <1>1, <2>5, OneDialogMoves DEF Typed, Stage
<1>9. CASE Replied(c)
  <2>1. ASSUME Piece(there, LenSize, LenSize), OnePacket(c)
        PROVE  Replied(c)'
    <3>1. IsText(there) /\ Len(there) = LenSize
      BY <1>5, <2>1 DEF Piece
    <3>2. atDialog'[c] = <<>>
      BY <1>5, <1>7, <3>1
    <3>3. OnePacket(c)'
      BY <1>2, <2>1 DEF OnePacket, Piece, IsText
    <3> QED
      BY <1>2, <1>3, <1>4, <1>9, <3>2, <3>3 DEF Replied
  <2>2. ASSUME toDialog[c] = <<>>,
               Piece(there, LenSize + 1, LenSize + DataLen)
        PROVE  Replied(c)'
    <3>1. IsText(there) /\ Len(there) \in LenSize + 1 .. LenSize + DataLen
      BY <2>2 DEF Piece
    <3>2. /\ atDialog'[c] = rest
          /\ IsText(rest) /\ Len(rest) \in 1 .. DataLen
      BY <1>5, <1>7, <3>1
    <3>3. Piece(atDialog'[c], 1, DataLen)
      BY <3>2 DEF Piece
    <3> QED
      BY <1>2, <1>3, <1>4, <1>9, <2>2, <3>3 DEF Replied, Piece, IsText
  <2>3. Replied(c)'
    BY <1>2, <1>9, <2>1, <2>2 DEF Replied
  <2> QED
    BY <1>1, <2>3, OneDialogMoves DEF Typed, Stage
<1> QED
  BY <1>6, <1>8, <1>9

\* The second Recv takes all the rest, and nothing is left for the next call.
LEMMA RecvDataStep ==
  ASSUME IInv, NEW c \in Dialogs, RecvData(c) PROVE IInv'
<1> USE DEF RecvData, poolVars
<1> DEFINE there == atDialog[c]
           n == Shorter(ReplySize, Len(there))
<1>1. Typed /\ Stage(c)
  BY DEF IInv
<1>2. /\ ui[c] = "data" /\ ui'[c] = "idle" /\ there # <<>>
      /\ atDialog'[c] = SubSeq(there, n + 1, Len(there))
      /\ toDialog'[c] = toDialog[c]
  BY <1>1 DEF Typed
<1>3. NoRequest(c)' <=> NoRequest(c)
  BY DEF NoRequest, HasTask
<1>4. HasWorker(c)' <=> HasWorker(c)
  BY DEF HasWorker
<1>5. Replied(c) /\ toDialog[c] = <<>> /\ Piece(there, 1, DataLen)
  BY <1>1, <1>2
  DEF Stage, Resting, Hanging, Asking, Working, LengthSent, Replied, NoReply
<1>6. n = Len(there) /\ Len(there) \in Nat /\ IsText(there)
  BY <1>5, SchoolAssumption DEF Piece, Shorter
<1> HIDE DEF n
<1>7. atDialog'[c] = <<>>
  BY <1>2, <1>6, CutAll
<1>8. Resting(c)'
  BY <1>2, <1>3, <1>4, <1>5, <1>7 DEF Resting, Replied, NoReply
<1> QED
  BY <1>1, <1>8, OneDialogMoves DEF Typed, Stage

-----------------------------------------------------------------------------
(***************************************************************************)
(* A click.                                                                *)
(***************************************************************************)
\* DealMessage is called: the statement is sent, or there is none.
LEMMA DealMessageStep ==
  ASSUME StatementsFit, IInv, NEW c \in Dialogs, NEW s, Known(s),
         DealMessage(c, s)
  PROVE  IInv'
<1> USE DEF DealMessage, poolVars
<1>1. Typed /\ Stage(c) /\ QueueInv
  BY DEF IInv
<1>2. /\ ui[c] = "idle" /\ ui'[c] = "length" /\ asked'[c] = s
      /\ toServer'[c] = toServer[c] \o Packets(Statement(s))
      /\ atServer'[c] = atServer[c] /\ NoReply(c)' = NoReply(c)
  BY <1>1 DEF Typed, NoReply
<1>3. Resting(c) /\ toServer[c] = <<>> /\ atServer[c] = <<>> /\ ~HasTask(c)
  BY <1>1, <1>2 DEF Stage, Resting, Hanging, Asking, Working, LengthSent,
                    Replied, NoRequest
<1>4. \A d : (HasTask(d)' <=> HasTask(d)) /\ (HasWorker(d)' <=> HasWorker(d))
  BY DEF HasTask, HasWorker
<1>5. Typed'
  BY <1>1 DEF Typed, Known
<1>6. QueueInv'
  <2>1. \A i \in DOMAIN workQue : workQue[i].dialog # c
    BY <1>3 DEF HasTask
  <2>2. \A i \in DOMAIN workQue :
          asked'[workQue[i].dialog] = asked[workQue[i].dialog]
    BY <1>1, <2>1 DEF QueueInv, Typed
  <2> QED
    BY <1>1, <2>2 DEF QueueInv, IsText, Statement
<1>7. WorkersInv' /\ OneWorkerEach'
  BY DEF IInv, WorkersInv, OneWorkerEach, FailedText
<1>8. Stage(c)'
  <2>1. CASE s = NoStatement
    <3>1. Packets(Statement(s)) = <<>>
      BY <2>1, NoStatementText, NothingSent
    <3>2. toServer'[c] = <<>>
      BY <1>2, <1>3, <3>1
    <3>3. Hanging(c)'
      BY <1>2, <1>3, <1>4, <2>1, <3>2 DEF Hanging, Resting, NoRequest
    <3> QED
      BY <3>3 DEF Stage
  <2>2. CASE s # NoStatement
    <3>1. Packets(Statement(s)) = <<Statement(s)>>
      BY <2>2, StatementPiece, SentAsOne
    <3>2. toServer'[c] = <<Statement(s)>>
      BY <1>2, <1>3, <3>1
    <3>3. Statement(asked[c])' = Statement(s)
      BY <1>2 DEF Statement
    <3>4. NoStatement' = NoStatement
      BY DEF NoStatement
    <3>5. Asking(c)'
      BY <1>2, <1>3, <1>4, <2>2, <3>2, <3>3 DEF Asking, Resting
    <3> QED
      BY <3>5 DEF Stage
  <2> QED
    BY <2>1, <2>2
<1>9. ASSUME NEW d \in Dialogs \ {c} PROVE Stage(d)'
  <2>1. Stage(d)
    BY DEF IInv
  <2>2. /\ ui'[d] = ui[d] /\ asked'[d] = asked[d]
        /\ toServer'[d] = toServer[d]
    BY <1>1 DEF Typed
  <2> QED
    BY <1>4, <2>1, <2>2, StageKept
<1> QED
  BY <1>5, <1>6, <1>7, <1>8, <1>9 DEF IInv

\* Every handler calls DealMessage with a statement or with the empty text.
LEMMA ClickSends ==
  ASSUME NEW c, Click(c) PROVE \E s : Known(s) /\ DealMessage(c, s)
<1>1. \A table, row : Known(Insertion(table, row))
  BY DEF Known, Kinds, Insertion, NoStatement
<1>2. \A table, new, where : Known(Change(table, new, where))
  BY DEF Known, Kinds, Change, NoStatement
<1>3. \A table, where : Known(Deletion(table, where))
  BY DEF Known, Kinds, Deletion, NoStatement
<1>4. \A view, columns, where : Known(Selection(view, columns, where))
  BY DEF Known, Kinds, Selection, NoStatement
<1>5. \A number, class : Known(GiftOfClass(number, class))
  BY DEF Known, Kinds, GiftOfClass, NoStatement
<1>6. \A number, course : /\ Known(GiftOfCourse(number, course))
                          /\ Known(LossOfCourse(number, course))
  BY DEF Known, Kinds, GiftOfCourse, LossOfCourse, NoStatement
<1>7. \A of, columns, text : Known(ChoiceList(of, columns, text))
  BY DEF Known, Kinds, ChoiceList, NoStatement
<1>8. Known(NoStatement)
  BY DEF Known, Kinds, NoStatement
<1>9. CASE AddStudent(c) \/ AddCourse(c) \/ AddClass(c)
  BY <1>1, <1>9, Zenon DEF AddStudent, AddCourse, AddClass
<1>10. CASE ModifyStudent(c) \/ ModifyCourse(c) \/ ModifyClass(c)
  BY <1>2, <1>10, Zenon DEF ModifyStudent, ModifyCourse, ModifyClass
<1>11. CASE DelStudent(c) \/ DelCourse(c) \/ DelClass(c)
  BY <1>3, <1>11, Zenon DEF DelStudent, DelCourse, DelClass
<1>12. CASE CheckStudent(c) \/ CheckCourse(c) \/ CheckClass(c)
  BY <1>4, <1>12, Zenon DEF CheckStudent, CheckCourse, CheckClass
<1>13. CASE CheckGiveclass(c)
  BY <1>4, <1>13, Zenon DEF CheckGiveclass
<1>14. CASE GiveClass(c)
  BY <1>5, <1>14, Zenon DEF GiveClass
<1>15. CASE GiveCourse(c) \/ DelGivecourse(c)
  BY <1>6, <1>15, Zenon DEF GiveCourse, DelGivecourse
<1>16. CASE CheckStuCourse(c)
  <2>1. PICK number \in StuNumbers :
          \/ DealMessage(c, NoStatement)
          \/ DealMessage(c, ChoiceList("sel_stu_id", <<"stu_number", "stu_name",
                              "course_number", "course_name">>, number))
    <3>1. PICK number \in StuNumbers :
            DealMessage(c,
              IF number = Empty THEN NoStatement
              ELSE ChoiceList("sel_stu_id", <<"stu_number", "stu_name",
                                "course_number", "course_name">>, number))
      BY <1>16, Zenon DEF CheckStuCourse
    <3>2. CASE number = Empty
      BY <3>1, <3>2, Zenon
    <3>3. CASE number # Empty
      BY <3>1, <3>3, Zenon
    <3> QED
      BY <3>2, <3>3
  <2> QED
    BY <1>7, <1>8, <2>1, Zenon
<1>17. CASE CheckCourseStu(c)
  <2>1. PICK number \in CourseNumbers :
          \/ DealMessage(c, NoStatement)
          \/ DealMessage(c, ChoiceList("sel_course_id", <<"course_number",
                              "course_name", "stu_number", "stu_name">>, number))
    <3>1. PICK number \in CourseNumbers :
            DealMessage(c,
              IF number = Empty THEN NoStatement
              ELSE ChoiceList("sel_course_id", <<"course_number", "course_name",
                                "stu_number", "stu_name">>, number))
      BY <1>17, Zenon DEF CheckCourseStu
    <3>2. CASE number = Empty
      BY <3>1, <3>2, Zenon
    <3>3. CASE number # Empty
      BY <3>1, <3>3, Zenon
    <3> QED
      BY <3>2, <3>3
  <2> QED
    BY <1>7, <1>8, <2>1, Zenon
<1> QED
  BY <1>9, <1>10, <1>11, <1>12, <1>13, <1>14, <1>15, <1>16, <1>17 DEF Click

-----------------------------------------------------------------------------
(***************************************************************************)
(* The thread of a client.                                                 *)
(***************************************************************************)
\* The statement becomes a task, with nothing of an earlier statement.
LEMMA TakeStatementStep ==
  ASSUME NulIsNoByte, StatementsFit, IInv, NEW c \in Dialogs, TakeStatement(c)
  PROVE  IInv'
<1> USE DEF TakeStatement, dialogVars
<1> DEFINE text == Statement(asked[c])
           n == StatementThere(c)
           buff == [i \in 1 .. BuffSize |->
                      IF i <= n THEN atServer[c][i] ELSE Cleared(pBuff[c])[i]]
<1>1. Typed /\ Stage(c) /\ QueueInv /\ Known(asked[c])
  BY DEF IInv, Typed
<1>2. /\ ui' = ui /\ asked' = asked /\ toServer' = toServer
      /\ toDialog' = toDialog /\ atDialog' = atDialog
      /\ at' = at /\ job' = job /\ reply' = reply
      /\ atServer[c] # <<>>
      /\ atServer'[c] = SubSeq(atServer[c], n + 1, Len(atServer[c]))
      /\ pBuff'[c] = buff
      /\ workQue' = Append(workQue, [dialog |-> c, text |-> CString(buff)])
  BY <1>1 DEF Typed
<1>3. Asking(c) /\ toServer[c] = <<>> /\ atServer[c] = text /\ ~HasTask(c)
  BY <1>1, <1>2 DEF Stage, Resting, Hanging, Asking, Working, Replied, NoRequest
<1>4. /\ IsText(text) /\ Len(text) = StatementLen[asked[c].do]
      /\ Len(text) \in Nat /\ Len(text) < BuffSize /\ asked[c].do \in Kinds
  BY <1>1, StatementText DEF StatementsFit, Known
<1>5. n = Len(text) /\ ClearSize \in Nat /\ BuffSize \in Nat
  BY <1>3, <1>4, SchoolAssumption DEF StatementThere, Shorter
<1>6. \A i \in 1 .. Len(text) : text[i] # NUL
  <2>1. text = [i \in 1 .. StatementLen[asked[c].do] |-> [of |-> asked[c], at |-> i]]
    BY DEF Statement
  <2>2. StatementLen[asked[c].do] = Len(text)
    BY <1>4
  <2> HIDE DEF text
  <2>3. \A i \in 1 .. Len(text) : text[i] = [of |-> asked[c], at |-> i]
    BY <2>1, <2>2
  <2> QED
    BY <2>3 DEF NulIsNoByte
<1>7. /\ DOMAIN buff = 1 .. BuffSize
      /\ \A i \in 1 .. Len(text) : buff[i] = text[i]
  BY <1>3, <1>4, <1>5
<1>8. \A i \in 1 .. BuffSize :
        (\A kind \in Kinds : StatementLen[kind] < i) => buff[i] = NUL
  <2> SUFFICES ASSUME NEW i \in 1 .. BuffSize,
                      \A kind \in Kinds : StatementLen[kind] < i
               PROVE  buff[i] = NUL
    OBVIOUS
  <2>1. ~(i <= n) /\ pBuff[c][i] = NUL
    BY <1>1, <1>4, <1>5 DEF Typed
  <2> HIDE DEF n
  <2> QED
    BY <2>1 DEF Cleared
<1>9. buff[Len(text) + 1] = NUL
  <2>1. Len(text) + 1 \in 1 .. BuffSize /\ ~(Len(text) + 1 <= n)
    BY <1>4, <1>5
  <2>2. CASE Len(text) < ClearSize
    <3>1. Len(text) + 1 <= ClearSize
      BY <1>4, <1>5, <2>2
    <3> HIDE DEF n, text
    <3> QED
      BY <2>1, <3>1 DEF Cleared
  <2>3. CASE ~(Len(text) < ClearSize)
    <3>1. StatementLen[asked[c].do] >= ClearSize
      BY <1>4, <1>5, <2>3
    <3>2. \A kind \in Kinds : StatementLen[kind] <= StatementLen[asked[c].do]
      BY <1>4, <3>1 DEF StatementsFit
    <3>3. \A kind \in Kinds : StatementLen[kind] < Len(text) + 1
      BY <1>4, <3>2, SchoolAssumption
    <3> HIDE DEF text, buff, n
    <3> QED
      BY <1>8, <2>1, <3>3
  <2> QED
    BY <2>2, <2>3
<1>10. buff = [i \in 1 .. BuffSize |-> buff[i]]
  BY <1>7
<1> HIDE DEF buff, n, text
<1>11. CString(buff) = text
  <2>1. Len(text) <= BuffSize /\ (Len(text) < BuffSize => buff[Len(text) + 1] = NUL)
    BY <1>4, <1>5, <1>9
  <2> QED
    BY <1>4, <1>5, <1>6, <1>7, <1>10, <2>1, CStringOfBuffer, Zenon
<1>12. atServer'[c] = <<>>
  BY <1>2, <1>3, <1>4, <1>5, CutAll
<1>13. QueueInv' /\ \A d : HasTask(d)' <=> HasTask(d) \/ d = c
  BY <1>1, <1>2, <1>3, <1>11, QueueAppend DEF text
<1>14. Typed'
  <2>1. \A d \in Dialogs \ {c} : pBuff'[d] = pBuff[d]
    BY <1>1 DEF Typed
  <2>2. DOMAIN pBuff' = Dialogs /\ DOMAIN atServer' = Dialogs
    BY <1>1 DEF Typed
  <2> QED
    BY <1>1, <1>2, <1>7, <1>8, <2>1, <2>2, ZenonT(30) DEF Typed, Known
<1>15. WorkersInv' /\ OneWorkerEach'
  BY <1>2, ZenonT(30) DEF IInv, WorkersInv, OneWorkerEach, FailedText
<1>16. Stage(c)'
  <2>1. HasWorker(c)' <=> HasWorker(c)
    BY <1>2 DEF HasWorker
  <2>2. Asking(c)'
    BY <1>2, <1>3, <1>12, <1>13, <2>1 DEF Asking, NoReply
  <2> QED
    BY <2>2 DEF Stage
<1>17. ASSUME NEW d \in Dialogs \ {c} PROVE Stage(d)'
  <2>1. Stage(d)
    BY DEF IInv
  <2>2. atServer'[d] = atServer[d] /\ (HasTask(d)' <=> HasTask(d))
    BY <1>1, <1>13 DEF Typed
  <2> QED
    BY <1>2, <2>1, <2>2, StageKept
<1> QED
  BY <1>13, <1>14, <1>15, <1>16, <1>17 DEF IInv

-----------------------------------------------------------------------------
(***************************************************************************)
(* The workers.                                                            *)
(***************************************************************************)
\* A step of a worker that has a task touches its dialog alone.
LEMMA OneWorkerMoves ==
  ASSUME IInv, NEW w \in Workers, NEW c \in Dialogs, job[w].dialog = c,
         at[w] # "idle",
         UNCHANGED <<ui, asked, toServer, atServer, atDialog, pBuff, workQue>>,
         DOMAIN toDialog' = Dialogs,
         \A d \in Dialogs : d # c => toDialog'[d] = toDialog[d],
         {DOMAIN at', DOMAIN job', DOMAIN reply'} = {Workers},
         \A v \in Workers \ {w} :
           at'[v] = at[v] /\ job'[v] = job[v] /\ reply'[v] = reply[v],
         job'[w].dialog \in {c, NUL},
         at'[w] \in {"idle", "query", "length", "data", "failure"},
         at'[w] = "idle" <=> job'[w].dialog = NUL,
         at'[w] = "failure" => reply'[w] = FailedText,
         Stage(c)'
  PROVE  IInv'
<1>1. Typed /\ QueueInv /\ WorkersInv /\ OneWorkerEach
  BY DEF IInv
<1>2. NUL \notin Dialogs
  BY SchoolAssumption
<1>3. Typed'
  BY <1>1 DEF Typed, Known
<1>4. QueueInv'
  BY <1>1 DEF QueueInv, IsText, Statement
<1>5. WorkersInv'
  <2> SUFFICES ASSUME NEW v \in Workers
               PROVE  /\ at'[v] \in {"idle", "query", "length", "data", "failure"}
                      /\ at'[v] = "idle" <=> job'[v].dialog = NUL
                      /\ job'[v].dialog \in Dialogs \union {NUL}
                      /\ at'[v] = "failure" => reply'[v] = FailedText
    BY DEF WorkersInv, FailedText
  <2>1. CASE v = w
    BY <1>2, <2>1
  <2>2. CASE v # w
    BY <1>1, <2>2 DEF WorkersInv
  <2> QED
    BY <2>1, <2>2
<1>6. OneWorkerEach'
  BY <1>1, <1>2 DEF OneWorkerEach, WorkersInv
<1>7. ASSUME NEW d \in Dialogs, d # c PROVE Stage(d)'
  <2>1. Stage(d)
    BY DEF IInv
  <2>2. HasTask(d)' <=> HasTask(d)
    BY DEF HasTask
  <2>3. ASSUME NEW v \in Workers, job[v].dialog = d \/ job'[v].dialog = d
        PROVE  job'[v] = job[v] /\ at'[v] = at[v]
    BY <1>2, <1>7, <2>3
  <2> QED
    BY <1>7, <2>1, <2>2, <2>3, StageKept
<1> QED
  BY <1>2, <1>3, <1>4, <1>5, <1>6, <1>7 DEF IInv

\* A worker takes the first task.
LEMMA StartTaskStep ==
  ASSUME IInv, NEW w \in Workers, StartTask(w) PROVE IInv'
<1> USE DEF StartTask, dialogVars, lineVars
<1>1. Typed /\ QueueInv /\ WorkersInv /\ OneWorkerEach /\ NUL \notin Dialogs
  BY SchoolAssumption DEF IInv
<1>2. PICK task : task = Head(workQue)
  OBVIOUS
<1>3. PICK c : c = task.dialog
  OBVIOUS
<1>4. /\ QueueInv'
      /\ c \in Dialogs /\ HasTask(c) /\ task.text = Statement(asked[c])
      /\ \A d : HasTask(d)' <=> HasTask(d) /\ d # c
  <2>1. workQue # <<>> /\ workQue' = Tail(workQue) /\ asked' = asked
    OBVIOUS
  <2> QED
    BY <1>1, <1>2, <1>3, <2>1, QueueTail, Zenon
<1>5. /\ job[w].dialog = NUL /\ at[w] = "idle"
      /\ job'[w] = task /\ at'[w] = "query"
      /\ \A v \in Workers \ {w} : job'[v] = job[v] /\ at'[v] = at[v]
  BY <1>1, <1>2 DEF Typed, WorkersInv
<1>6. Asking(c) /\ toServer[c] = <<>> /\ atServer[c] = <<>>
  <2>1. Stage(c)
    BY <1>4 DEF IInv
  <2> QED
    BY <1>4, <2>1 DEF Stage, Resting, Hanging, Asking, Working, Replied, NoRequest
<1>7. Typed'
  BY <1>1 DEF Typed, Known
<1>8. WorkersInv'
  <2> SUFFICES ASSUME NEW v \in Workers
               PROVE  /\ at'[v] \in {"idle", "query", "length", "data", "failure"}
                      /\ at'[v] = "idle" <=> job'[v].dialog = NUL
                      /\ job'[v].dialog \in Dialogs \union {NUL}
                      /\ at'[v] = "failure" => reply'[v] = FailedText
    BY DEF WorkersInv, FailedText
  <2>1. CASE v = w
    BY <1>1, <1>3, <1>4, <1>5, <2>1
  <2>2. CASE v # w
    BY <1>1, <1>5, <2>2 DEF WorkersInv
  <2> QED
    BY <2>1, <2>2
<1>9. OneWorkerEach'
  <2>1. \A v \in Workers : job[v].dialog # c
    BY <1>6 DEF Asking, HasWorker
  <2> QED
    BY <1>1, <1>3, <1>5, <2>1 DEF OneWorkerEach, WorkersInv
<1>10. Stage(c)'
  <2>1. NoRequest(c)'
    BY <1>4, <1>6 DEF NoRequest
  <2>2. job'[w].dialog = c /\ job'[w].text = Statement(asked[c])
    BY <1>3, <1>4, <1>5
  <2>3. Statement(asked[c])' = Statement(asked[c])
    BY DEF Statement
  <2>4. Working(c)'
    BY <1>5, <1>6, <2>1, <2>2, <2>3 DEF Working, Asking, NoReply
  <2> QED
    BY <2>4 DEF Stage
<1>11. ASSUME NEW d \in Dialogs, d # c PROVE Stage(d)'
  <2>1. Stage(d) /\ (HasTask(d)' <=> HasTask(d))
    BY <1>4, <1>11 DEF IInv
  <2>2. ASSUME NEW v \in Workers, job[v].dialog = d \/ job'[v].dialog = d
        PROVE  job'[v] = job[v] /\ at'[v] = at[v]
    BY <1>1, <1>3, <1>5, <1>11, <2>2
  <2> QED
    BY <2>1, <2>2, StageKept
<1> QED
  BY <1>4, <1>7, <1>8, <1>9, <1>10, <1>11 DEF IInv

\* The dialog of a worker that is not idle waits for it.
LEMMA WorkerStage ==
  ASSUME IInv, NEW w \in Workers, at[w] # "idle"
  PROVE  /\ job[w].dialog \in Dialogs
         /\ Working(job[w].dialog)
         /\ \/ /\ at[w] \in {"length", "failure"}
               /\ ui[job[w].dialog] = "length" /\ NoReply(job[w].dialog)
            \/ /\ at[w] = "query"
               /\ ui[job[w].dialog] = "length" /\ NoReply(job[w].dialog)
               /\ job[w].text = Statement(asked[job[w].dialog])
            \/ at[w] = "data" /\ LengthSent(job[w].dialog)
<1>1. job[w].dialog \in Dialogs
  BY DEF IInv, WorkersInv
<1>2. PICK c \in Dialogs : c = job[w].dialog
  BY <1>1
<1>3. Stage(c) /\ HasWorker(c)
  BY <1>2 DEF IInv, HasWorker
<1>4. Working(c)
  BY <1>3 DEF Stage, Resting, Hanging, Asking, Replied
<1>5. \A v \in Workers : job[v].dialog = c => v = w
  BY <1>2 DEF IInv, OneWorkerEach
<1>6. \/ at[w] \in {"length", "failure"} /\ ui[c] = "length" /\ NoReply(c)
      \/ /\ at[w] = "query" /\ ui[c] = "length" /\ NoReply(c)
         /\ job[w].text = Statement(asked[c])
      \/ at[w] = "data" /\ LengthSent(c)
  BY <1>4, <1>5 DEF Working
<1> QED
  BY <1>1, <1>2, <1>4, <1>6

\* The statement is executed.
LEMMA QueryStep ==
  ASSUME IInv, NEW w \in Workers, Query(w) PROVE IInv'
<1>1. Typed
  BY DEF IInv
<1>2. /\ at[w] = "query"
      /\ \E text : \E stage \in {"length", "failure"} :
           /\ at' = [at EXCEPT ![w] = stage]
           /\ reply' = [reply EXCEPT ![w] = text]
           /\ stage = "failure" => text = FailedText
      /\ UNCHANGED <<ui, asked, toServer, atServer, toDialog, atDialog, pBuff,
                     workQue, job>>
  <2> DEFINE ok == (IF IsWhole(job[w].text) THEN Execute(job[w].text[1].of, db)
                    ELSE Failed(db)).ok
             data == LET result == IF IsWhole(job[w].text)
                                   THEN Execute(job[w].text[1].of, db)
                                   ELSE Failed(db)
                     IN  DataText(result.head, SetToSeq(result.rows))
  <2>1. /\ at[w] = "query"
        /\ at' = [at EXCEPT ![w] = IF ok THEN "length" ELSE "failure"]
        /\ reply' = [reply EXCEPT ![w] = IF ok THEN data ELSE FailedText]
        /\ UNCHANGED <<dialogVars, lineVars, pBuff, workQue, job>>
    BY Zenon DEF Query
  <2> HIDE DEF ok, data
  <2>2. CASE ok
    BY <2>1, <2>2 DEF dialogVars, lineVars
  <2>3. CASE ~ok
    BY <2>1, <2>3 DEF dialogVars, lineVars
  <2> QED
    BY <2>2, <2>3
<1>3. /\ at'[w] \in {"length", "failure"}
      /\ at'[w] = "failure" => reply'[w] = FailedText
      /\ {DOMAIN at', DOMAIN reply', DOMAIN job'} = {Workers}
      /\ \A v \in Workers \ {w} : at'[v] = at[v] /\ reply'[v] = reply[v]
  BY <1>1, <1>2 DEF Typed
<1>4. PICK c \in Dialogs : c = job[w].dialog
  BY <1>2, WorkerStage
<1>5. /\ Working(c) /\ ui[c] = "length" /\ NoReply(c)
      /\ c # NUL /\ DOMAIN toDialog' = Dialogs
  BY <1>1, <1>2, <1>4, WorkerStage, SchoolAssumption DEF Typed
<1>6. Stage(c)'
  <2>1. NoRequest(c)' /\ NoReply(c)'
    BY <1>2, <1>5 DEF Working, NoRequest, NoReply, HasTask
  <2>2. job'[w].dialog = c /\ asked'[c] # NoStatement /\ ui'[c] = "length"
    BY <1>2, <1>4, <1>5 DEF Working
  <2>3. Working(c)'
    BY <1>3, <2>1, <2>2 DEF Working
  <2> QED
    BY <2>3 DEF Stage
<1> QED
  BY <1>2, <1>3, <1>4, <1>5, <1>6, OneWorkerMoves

\* The first Send of the callback.
LEMMA SendLengthStep ==
  ASSUME IInv, NEW w \in Workers, SendLength(w) PROVE IInv'
<1> USE DEF SendLength, dialogVars
<1>1. Typed
  BY DEF IInv
<1>2. PICK c \in Dialogs : c = job[w].dialog
  BY WorkerStage
<1>3. /\ Working(c) /\ ui[c] = "length" /\ NoReply(c)
      /\ c # NUL
  BY <1>2, WorkerStage, SchoolAssumption
<1>4. Packets(LengthText) = <<LengthText>>
  BY LengthPiece, SentAsOne, SchoolAssumption DEF Piece
<1>5. /\ toDialog' = [toDialog EXCEPT ![c] = @ \o <<LengthText>>]
      /\ at' = [at EXCEPT ![w] = "data"]
      /\ UNCHANGED <<ui, asked, toServer, atServer, atDialog, pBuff, workQue,
                     job, reply>>
  BY <1>2, <1>4 DEF Reply
<1>6. /\ toDialog'[c] = <<LengthText>> /\ DOMAIN toDialog' = Dialogs
      /\ \A d \in Dialogs : d # c => toDialog'[d] = toDialog[d]
      /\ at'[w] = "data" /\ {DOMAIN at', DOMAIN reply', DOMAIN job'} = {Workers}
      /\ \A v \in Workers \ {w} : at'[v] = at[v]
  <2>1. toDialog'[c] = toDialog[c] \o <<LengthText>> /\ DOMAIN toDialog' = Dialogs
    BY <1>1, <1>5 DEF Typed
  <2>2. toDialog'[c] = <<LengthText>>
    BY <1>3, <2>1, Joined DEF NoReply
  <2>3. \A d \in Dialogs : d # c => toDialog'[d] = toDialog[d]
    BY <1>1, <1>5 DEF Typed
  <2>4. /\ at'[w] = "data" /\ {DOMAIN at', DOMAIN reply', DOMAIN job'} = {Workers}
        /\ \A v \in Workers \ {w} : at'[v] = at[v]
    BY <1>1, <1>5 DEF Typed
  <2> QED
    BY <2>1, <2>2, <2>3, <2>4
<1>7. Stage(c)'
  <2>1. NoRequest(c)'
    BY <1>3, <1>5 DEF Working, NoRequest, HasTask
  <2>2. LengthSent(c)'
    BY <1>3, <1>5, <1>6 DEF LengthSent, LengthText, NoReply
  <2>3. Working(c)'
    BY <1>2, <1>3, <1>5, <1>6, <2>1, <2>2 DEF Working
  <2> QED
    BY <2>3 DEF Stage
<1> QED
  BY <1>2, <1>3, <1>5, <1>6, <1>7, OneWorkerMoves

\* The last Send of the callback, and the worker is free.
LEMMA SendDataStep ==
  ASSUME IInv, RepliesFit, NEW w \in Workers, SendData(w) PROVE IInv'
<1> USE DEF SendData, dialogVars
<1>1. Typed /\ OneWorkerEach /\ WorkersInv
  BY DEF IInv
<1>2. PICK c \in Dialogs : c = job[w].dialog
  BY WorkerStage
<1>3. /\ Working(c) /\ c # NUL
      /\ \/ at[w] = "failure" /\ ui[c] = "length" /\ NoReply(c)
         \/ at[w] = "data" /\ LengthSent(c)
  BY <1>2, WorkerStage, SchoolAssumption
<1>4. PICK data : data = reply[w]
  OBVIOUS
<1>5. /\ Piece(data, 1, DataLen)
      /\ at[w] = "failure" => data = FailedText
  <2>1. CASE at[w] = "failure"
    <3>1. data = FailedText
      BY <1>1, <1>4, <2>1 DEF WorkersInv
    <3> QED
      BY <3>1, FailedPiece, SchoolAssumption DEF Piece
  <2>2. CASE at[w] = "data"
    BY <1>4, <2>2 DEF RepliesFit
  <2> QED
    BY <1>3, <2>1, <2>2
<1>6. Packets(data) = <<data>>
  BY <1>5, SentAsOne
<1>7. /\ toDialog' = [toDialog EXCEPT ![c] = @ \o <<data>>]
      /\ at' = [at EXCEPT ![w] = "idle"]
      /\ job' = [job EXCEPT ![w] = NoTask]
      /\ reply' = [reply EXCEPT ![w] = <<>>]
      /\ UNCHANGED <<ui, asked, toServer, atServer, atDialog, pBuff, workQue>>
  BY <1>2, <1>4, <1>6 DEF Reply
<1>8. /\ toDialog'[c] = toDialog[c] \o <<data>> /\ DOMAIN toDialog' = Dialogs
      /\ \A d \in Dialogs : d # c => toDialog'[d] = toDialog[d]
      /\ at'[w] = "idle" /\ job'[w] = NoTask /\ NoTask.dialog = NUL
      /\ {DOMAIN at', DOMAIN reply', DOMAIN job'} = {Workers}
      /\ \A v \in Workers \ {w} :
           at'[v] = at[v] /\ reply'[v] = reply[v] /\ job'[v] = job[v]
  <2>1. /\ toDialog'[c] = toDialog[c] \o <<data>> /\ DOMAIN toDialog' = Dialogs
        /\ \A d \in Dialogs : d # c => toDialog'[d] = toDialog[d]
    BY <1>1, <1>7 DEF Typed
  <2>2. at'[w] = "idle" /\ job'[w] = NoTask /\ NoTask.dialog = NUL
    <3>1. at'[w] = "idle" /\ job'[w] = NoTask
      <4>1. DOMAIN at = Workers /\ DOMAIN job = Workers
        BY <1>1 DEF Typed
      <4> QED
        BY <1>7, <4>1, Zenon
    <3>2. NoTask.dialog = NUL
      BY DEF NoTask
    <3> QED
      BY <3>1, <3>2
  <2>3. {DOMAIN at', DOMAIN reply', DOMAIN job'} = {Workers}
    BY <1>1, <1>7 DEF Typed
  <2>4. \A v \in Workers \ {w} :
          at'[v] = at[v] /\ reply'[v] = reply[v] /\ job'[v] = job[v]
    BY <1>1, <1>7 DEF Typed
  <2> QED
    BY <2>1, <2>2, <2>3, <2>4
<1>9. ~HasWorker(c)'
  <2>1. \A v \in Workers \ {w} : job[v].dialog # c
    BY <1>1, <1>2 DEF OneWorkerEach
  <2> QED
    BY <1>3, <1>8, <2>1 DEF HasWorker
<1>10. NoRequest(c)'
  BY <1>3, <1>7 DEF Working, NoRequest, HasTask
<1>11. Piece(data, 1, DataLen)' /\ (FailedText' = FailedText)
  BY <1>5 DEF Piece, IsText, FailedText
<1>12. toDialog[c] = <<>> => OnePacket(c)' /\ toDialog'[c] = <<data>>
  <2> SUFFICES ASSUME toDialog[c] = <<>>
               PROVE  OnePacket(c)' /\ toDialog'[c] = <<data>>
    OBVIOUS
  <2>1. toDialog'[c] = <<data>>
    BY <1>8, Joined
  <2>2. /\ Len(toDialog'[c]) = 1 /\ toDialog'[c][1] = data
        /\ toDialog'[c] = <<toDialog'[c][1]>>
    BY <2>1, OneItem
  <2> QED
    BY <1>11, <2>1, <2>2, Zenon DEF OnePacket, Piece, IsText
<1>13. Replied(c)'
  <2>1. CASE at[w] = "failure"
    <3>1. toDialog'[c] = <<FailedText>> /\ ui'[c] = "length" /\ atDialog'[c] = <<>>
      BY <1>3, <1>5, <1>7, <1>12, <2>1 DEF NoReply
    <3> QED
      BY <1>3, <1>7, <1>9, <1>10, <1>11, <3>1 DEF Replied, Working
  <2>2. CASE ui[c] = "length" /\ toDialog[c] = <<LengthText>> /\ atDialog[c] = <<>>
    <3>1. toDialog'[c] = <<LengthText, data>>
      BY <1>8, <2>2, Joined
    <3>2. /\ Len(toDialog'[c]) = 2
          /\ toDialog'[c][2] = data
      BY <3>1
    <3>3. Piece(toDialog[c][2], 1, DataLen)'
      BY <1>11, <3>2 DEF Piece, IsText
    <3> QED
      BY <1>3, <1>7, <1>9, <1>10, <2>2, <3>1, <3>2, <3>3
      DEF Replied, Working, LengthText
  <2>3. CASE /\ ui[c] = "length" /\ toDialog[c] = <<>>
             /\ Piece(atDialog[c], LenSize, LenSize)
    BY <1>3, <1>7, <1>9, <1>10, <1>12, <2>3 DEF Replied, Working, Piece, IsText
  <2>4. CASE ui[c] = "data" /\ NoReply(c)
    BY <1>3, <1>7, <1>9, <1>10, <1>12, <2>4 DEF Replied, Working, NoReply
  <2> QED
    BY <1>3, <2>1, <2>2, <2>3, <2>4 DEF LengthSent
<1>14. Stage(c)'
  BY <1>13 DEF Stage
<1> QED
  BY <1>2, <1>3, <1>7, <1>8, <1>14, OneWorkerMoves

-----------------------------------------------------------------------------
(***************************************************************************)
(* The invariant.                                                          *)
(***************************************************************************)
LEMMA InitIInv == ASSUME Init PROVE IInv
<1> USE DEF Init
<1>1. Typed
  <2>1. /\ {DOMAIN ui, DOMAIN asked, DOMAIN toServer, DOMAIN atServer,
            DOMAIN toDialog, DOMAIN atDialog, DOMAIN pBuff} = {Dialogs}
        /\ {DOMAIN at, DOMAIN job, DOMAIN reply} = {Workers}
    OBVIOUS
  <2>2. \A c \in Dialogs : Known(asked[c])
    BY DEF Known, Kinds, NoStatement
  <2>3. \A c \in Dialogs :
          /\ DOMAIN pBuff[c] = 1 .. BuffSize
          /\ \A i \in 1 .. BuffSize : pBuff[c][i] = NUL
    BY SchoolAssumption
  <2> QED
    BY <2>1, <2>2, <2>3 DEF Typed
<1>2. DOMAIN workQue = {}
  OBVIOUS
<1>3. QueueInv
  BY <1>2, EmptyText DEF QueueInv
<1>4. \A w \in Workers : at[w] = "idle" /\ job[w].dialog = NUL
  BY DEF NoTask
<1>5. WorkersInv /\ OneWorkerEach
  BY <1>4 DEF WorkersInv, OneWorkerEach
<1>6. ASSUME NEW c \in Dialogs PROVE Stage(c)
  <2>1. ~HasWorker(c) /\ ~HasTask(c)
    BY <1>2, <1>4, SchoolAssumption DEF HasWorker, HasTask
  <2> QED
    BY <2>1 DEF Stage, Resting, NoRequest, NoReply
<1> QED
  BY <1>1, <1>3, <1>5, <1>6 DEF IInv

LEMMA NextIInv ==
  ASSUME NulIsNoByte, StatementsFit, RepliesFit, IInv, [Next]_vars PROVE IInv'
<1>1. CASE \E c \in Dialogs : Click(c)
  <2>1. PICK c \in Dialogs : \E s : Known(s) /\ DealMessage(c, s)
    BY <1>1, ClickSends
  <2>2. PICK s : Known(s) /\ DealMessage(c, s)
    BY <2>1
  <2> QED
    BY <2>2, DealMessageStep
<1>2. CASE DialogStep
  BY <1>2, RecvLengthStep, RecvDataStep DEF DialogStep
<1>3. CASE LineStep
  BY <1>3, ArriveAtServerStep, ArriveAtDialogStep DEF LineStep
<1>4. CASE \E c \in Dialogs : TakeStatement(c)
  BY <1>4, TakeStatementStep
<1>5. CASE \E w \in Workers :
             StartTask(w) \/ Query(w) \/ SendLength(w) \/ SendData(w)
  BY <1>5, StartTaskStep, QueryStep, SendLengthStep, SendDataStep
<1>6. CASE UNCHANGED vars
  <2> USE <1>6 DEF vars, dialogVars, lineVars, poolVars
  <2>1. Typed' /\ QueueInv' /\ WorkersInv' /\ OneWorkerEach'
    <3>1. Typed'
      BY DEF IInv, Typed, Known
    <3>2. QueueInv'
      BY DEF IInv, QueueInv, IsText, Statement
    <3>3. WorkersInv' /\ OneWorkerEach'
      BY DEF IInv, WorkersInv, OneWorkerEach, FailedText
    <3> QED
      BY <3>1, <3>2, <3>3
  <2>2. ASSUME NEW c \in Dialogs PROVE Stage(c)'
    <3>1. Stage(c) /\ (HasTask(c)' <=> HasTask(c))
      BY DEF IInv, HasTask
    <3> QED
      BY <3>1, StageKept
  <2> QED
    BY <2>1, <2>2 DEF IInv
<1> QED
  BY <1>1, <1>2, <1>3, <1>4, <1>5, <1>6 DEF Next, ServerStep

\* A dialog at rest has nothing under way, and one that waits has something.
LEMMA IInvInStep == ASSUME IInv PROVE InStep
<1> SUFFICES ASSUME NEW c \in Dialogs
             PROVE  UnderWay(c) <=> ui[c] # "idle" /\ asked[c] # NoStatement
  BY DEF InStep
<1>1. Stage(c)
  BY DEF IInv
<1>2. UnderWay(c) <=> \/ toServer[c] # <<>> \/ atServer[c] # <<>> \/ HasTask(c)
                      \/ HasWorker(c) \/ toDialog[c] # <<>> \/ atDialog[c] # <<>>
  BY DEF UnderWay, HasTask, HasWorker
<1>3. CASE Resting(c)
  BY <1>2, <1>3 DEF Resting, NoRequest, NoReply
<1>4. CASE Hanging(c)
  BY <1>2, <1>4 DEF Hanging, NoRequest, NoReply
<1>5. CASE Asking(c)
  <2>1. Statement(asked[c]) # <<>>
    BY <1>5, StatementBytes DEF Asking, IInv, Typed
  <2> QED
    BY <1>2, <1>5, <2>1, Joined DEF Asking
<1>6. CASE Working(c)
  BY <1>2, <1>6 DEF Working, HasWorker, LengthSent
<1>7. CASE Replied(c)
  <2>1. ui[c] # "idle" /\ asked[c] # NoStatement
    BY <1>7 DEF Replied
  <2>2. toDialog[c] = <<FailedText>> => toDialog[c] # <<>>
    BY Joined
  <2>3. \A k \in Nat : Piece(atDialog[c], 1, k) => atDialog[c] # <<>>
    BY DEF Piece
  <2>4. OnePacket(c) => toDialog[c] # <<>>
    BY DEF OnePacket
  <2>5. Piece(atDialog[c], LenSize + 1, LenSize + DataLen) => atDialog[c] # <<>>
    BY SchoolAssumption DEF Piece
  <2> QED
    <3>1. \/ toDialog[c] # <<>>
          \/ \E k \in Nat : Piece(atDialog[c], 1, k)
          \/ Piece(atDialog[c], LenSize + 1, LenSize + DataLen)
      BY <1>7, <2>2, <2>4, SchoolAssumption DEF Replied
    <3> QED
      BY <1>2, <2>1, <2>3, <2>5, <3>1
<1> QED
  BY <1>1, <1>3, <1>4, <1>5, <1>6, <1>7 DEF Stage

LEMMA IInvAsSent == ASSUME IInv PROVE AsSent
  BY WorkerStage DEF AsSent

-----------------------------------------------------------------------------
(***************************************************************************)
(* For every number of dialogs and workers, as long as every statement     *)
(* fits into a packet and into pBuff and every reply is one packet.        *)
(***************************************************************************)
\* DealMessage never waits for an answer that nothing is going to bring, and
\* never leaves a part of an answer behind.
THEOREM InStepHolds ==
  ASSUME NulIsNoByte, StatementsFit PROVE Spec /\ []RepliesFit => []InStep
<1>1. Spec /\ []RepliesFit => []IInv
  BY InitIInv, NextIInv, PTL DEF Spec
<1> QED
  BY <1>1, IInvInStep, PTL

\* With such statements and replies no client is answered by two workers at once.
THEOREM OneWorkerEachHolds ==
  ASSUME NulIsNoByte, StatementsFit
  PROVE  Spec /\ []RepliesFit => []OneWorkerEach
<1>1. Spec /\ []RepliesFit => []IInv
  BY InitIInv, NextIInv, PTL DEF Spec
<1>2. IInv => OneWorkerEach
  BY DEF IInv
<1> QED
  BY <1>1, <1>2, PTL

\* With such statements and replies, what is executed is what was asked: also
\* behind the longest of the statements, which memset clears only in part.
THEOREM AsSentHolds ==
  ASSUME NulIsNoByte, StatementsFit
  PROVE  Spec /\ []RepliesFit => []AsSent
<1>1. Spec /\ []RepliesFit => []IInv
  BY InitIInv, NextIInv, PTL DEF Spec
<1> QED
  BY <1>1, IInvAsSent, PTL
=============================================================================
