------------------------------ MODULE Terminal ------------------------------
(***************************************************************************)
(* What the users of monitor.c expect of it: a sheet of paper that only    *)
(* grows.  Nothing on it moves or disappears, whatever the screen does     *)
(* with it.  A write that is cut short tears the sheet: nothing is         *)
(* promised from then on.                                                  *)
(***************************************************************************)
EXTENDS Integers, Sequences

CONSTANTS
    Cols, Rows,     \* size of the screen; the sheet has at least Rows rows
    TabStop,        \* distance of the tabulator stops
    Printable,      \* characters with a glyph
    StatusLength    \* length of a status text, its brackets included

VARIABLES
    paper,          \* the rows of the sheet
    row, col,       \* where the next character goes, from 0
    torn            \* a write was cut short

vars == << paper, row, col, torn >>

BlankRow == [c \in 0 .. Cols - 1 |-> "blank"]

Init ==
    /\ paper = [r \in 1 .. Rows |-> BlankRow]
    /\ row = 0 /\ col = 0 /\ torn = FALSE

(* The position moves to column c, or to the next line; there is always a  *)
(* blank line to write on.                                                 *)
MoveTo(sheet, c) ==
    /\ col' = c % Cols
    /\ row' = row + c \div Cols
    /\ paper' = IF row' = Len(sheet) THEN Append(sheet, BlankRow) ELSE sheet

Type(ch)   == MoveTo([paper EXCEPT ![row + 1][col] = ch], col + 1)
Backspace  == MoveTo(paper, IF col = 0 THEN 0 ELSE col - 1)
Tab        == LET stop == (col \div TabStop + 1) * TabStop
              IN  MoveTo(paper, IF stop < Cols THEN stop ELSE Cols)
Return     == MoveTo(paper, 0)
NewLine    == MoveTo(paper, Cols)
AlignRight == MoveTo(paper, Cols - StatusLength)

Tear == torn' = TRUE /\ paper' = << >> /\ row' = 0 /\ col' = 0

Next ==
    \/ /\ ~torn /\ torn' = FALSE
       /\ \/ \E ch \in Printable : Type(ch)
          \/ Backspace \/ Tab \/ Return \/ NewLine \/ AlignRight
    \/ Tear

Spec == Init /\ [][Next]_vars
=============================================================================
