------------------------------ MODULE Teletype ------------------------------
(***************************************************************************)
(* What any terminal promises: a sheet of lines and a place on it where    *)
(* the next character goes.  What is put is at that place, and the place   *)
(* goes on to the next; once it is at the last cell of the sheet the lines *)
(* may move up by one, and below the sheet they have to: the first is      *)
(* lost, and the place goes up with the lines, in its column.  How far up  *)
(* it goes is left open.  `shown' is where the user sees the cursor, `did' *)
(* the kind of the last call.                                              *)
(***************************************************************************)
EXTENDS Integers, Sequences

CONSTANTS Width, Height, Marks, Themes, Empty

VARIABLES lines, place, shown, did

Cells == [ch : Marks \cup {Empty}, theme : Themes]
Place(row, col) == [row |-> row, col |-> col]

\* The last cell of the sheet, or below the sheet.
Beyond(p) == p.row > Height \/ p = Place(Height, Width)

MovedUp(sheet, theme) == Append(Tail(sheet), [c \in 1..Width |-> [ch |-> Empty, theme |-> theme]])
Follows(p) == IF p.col < Width THEN Place(p.row, p.col + 1) ELSE Place(p.row + 1, 1)
NextLine(p) == Place(p.row + 1, 1)

\* The place moves to p, and the sheet is `sheet', or both go up.
Go(sheet, p) ==
  /\ did' = "put"
  /\ \/ p.row <= Height /\ lines' = sheet /\ place' = p
     \/ /\ Beyond(p)
        /\ \E theme \in Themes : lines' = MovedUp(sheet, theme)
        /\ \E row \in 1..Height : row < p.row /\ place' = Place(row, p.col)
  /\ shown' = place'

Put == \E cell \in Cells : cell.ch # Empty /\ Go([lines EXCEPT ![place.row][place.col] = cell], Follows(place))
Break == Go(lines, NextLine(place))

\* The calls that change cells and leave the place where it is; clearing goes home.
Edit(sheet) == did' = "edit" /\ UNCHANGED <<place, shown>> /\ lines' = sheet
SetOne == \E r \in 1..Height, c \in 1..Width, cell \in Cells : Edit([lines EXCEPT ![r][c] = cell])
Paint == \E theme \in Themes : Edit([r \in 1..Height |-> [c \in 1..Width |-> [lines[r][c] EXCEPT !.theme = theme]]])

Clear ==
  /\ did' = "clear"
  /\ lines' = [r \in 1..Height |-> [c \in 1..Width |-> [lines[r][c] EXCEPT !.ch = Empty]]]
  /\ place' = Place(1, 1) /\ shown' = place'

\* Scrolling by itself takes the place along, as far as the first line.
Scroll ==
  /\ did' = "scroll"
  /\ \E theme \in Themes : lines' = MovedUp(lines, theme)
  /\ place' = IF place.row > 1 THEN Place(place.row - 1, place.col) ELSE Place(1, 1)
  /\ shown' = place'

MoveTo ==
  /\ did' = "move"
  /\ \E r \in 1..Height, c \in 1..Width : place' = Place(r, c)
  /\ shown' = place' /\ UNCHANGED lines

TypeNext == Put \/ Break \/ SetOne \/ Paint \/ Clear \/ Scroll \/ MoveTo

TypeInit ==
  /\ lines \in [1..Height -> [1..Width -> [ch : {Empty}, theme : Themes]]]
  /\ place = Place(1, 1) /\ shown = place /\ did = "clear"

TypeSpec == TypeInit /\ [][TypeNext]_<<lines, place, shown, did>>
==============================================================================
