----------------------------- MODULE ReplyText ------------------------------
(***************************************************************************)
(* The text of a reply: how the callback of _Thread (Server.cpp) writes a  *)
(* result, and how CUserDlg::DealMessage (UserDlg.cpp) reads it.           *)
(*                                                                         *)
(* A text is a sequence of symbols: a separator, a NUL, or the text of a   *)
(* whole cell, which none of the separators is part of.  The empty cell    *)
(* has no symbol.                                                          *)
(***************************************************************************)
EXTENDS Naturals, SequencesExt

CONSTANTS
  Empty,    \* the empty text
  NUL,      \* the byte 0
  LenSize   \* the 4 bytes of the length in front of a result

Cell(value) == IF value = Empty THEN <<>> ELSE <<value>>

\* Defect: a separator after every cell.
JoinAll(cells) ==
  FlattenSeq([i \in DOMAIN cells |-> Cell(cells[i]) \o <<"|">>])

\* The cells with "|" between them.
Join(cells) ==
  FlattenSeq([i \in DOMAIN cells |->
                IF i = 1 THEN Cell(cells[i]) ELSE <<"|">> \o Cell(cells[i])])

\* head/{row}{row}...
DataText(head, rows) ==
  Join(head) \o <<"/">> \o
  FlattenSeq([i \in DOMAIN rows |-> <<"{">> \o Join(rows[i]) \o <<"}">>])

\* "%d": a NUL ends it within its 4 bytes.
LengthText == [i \in 1 .. LenSize |-> IF i = 1 THEN "digit" ELSE NUL]

\* The 8 bytes of the message of a failure, with no length in front.
FailedText == [i \in 1 .. 2 * LenSize |-> "failed"]

-----------------------------------------------------------------------------
Positions(text, symbol) == {i \in DOMAIN text : text[i] = symbol}

\* The position of the first such symbol, 0 if there is none.
Find(text, symbol) ==
  IF Positions(text, symbol) = {} THEN 0
  ELSE CHOOSE i \in Positions(text, symbol) :
         \A j \in Positions(text, symbol) : i <= j

\* A C string ends at the first NUL.
CString(text) ==
  IF Find(text, NUL) = 0 THEN text ELSE SubSeq(text, 1, Find(text, NUL) - 1)

\* One symbol more: a separator ends the last piece, another symbol joins it.
Scan(pieces, symbol, separator) ==
  IF symbol = separator THEN Append(pieces, <<>>)
  ELSE [pieces EXCEPT ![Len(pieces)] = Append(@, symbol)]

\* What is between the separators, before the first and after the last.
Pieces(text, separator) ==
  LET scan[n \in 0 .. Len(text)] ==
        IF n = 0 THEN <<<<>>>> ELSE Scan(scan[n - 1], text[n], separator)
  IN  scan[Len(text)]

DropFirst(text) == SubSeq(text, 2, Len(text))

\* What the dialog shows: an empty list control, the box "done", or a list.
Blank == [box |-> FALSE, columns |-> <<>>, rows |-> <<>>]

Success == [box |-> TRUE, columns |-> <<>>, rows |-> <<>>]

List(columns, rows) == [box |-> FALSE, columns |-> columns, rows |-> rows]

\* DealMessage from the length test on.  Without a "/" there is one column
\* without a name, and what was read is looked through for rows.
Display(text) ==
  LET slash == Find(text, "/")
      body  == Front(Pieces(SubSeq(text, slash + 1, Len(text)), "}"))
  IN  IF Len(text) = 1 THEN Success
      ELSE List(Pieces(SubSeq(text, 1, slash - 1), "|"),
                [i \in DOMAIN body |-> Pieces(DropFirst(body[i]), "|")])
=============================================================================
