--------------------------------- MODULE Tty ---------------------------------
(***************************************************************************)
(* The terminal (kernel/src/tty.cpp): the video memory, a cell for each    *)
(* place on the screen, row by row, and the offset at which ttyPutChar     *)
(* writes next.  A cell is a character and a theme (its colours).          *)
(* ttyPutStr is a ttyPutChar for every character, and is left out.         *)
(***************************************************************************)
EXTENDS Integers, Sequences

CONSTANTS
  Width, Height,  \* TTY_WIDTH, TTY_HEIGHT
  Printable,      \* the characters 32..126
  Unprintable,    \* all others but NewLine
  Question,       \* '?'
  NewLine, Empty, \* '\n' and '\0'
  Themes,
  DefaultTheme,   \* 0x07
  Colours,        \* what a caller gives for a theme: one of them, or colours above 15
  Places          \* the pairs <<x, y>> that a caller names, some of them off the screen

ASSUME TtyAssumption ==
  /\ Width \in Nat \ {0} /\ Height \in Nat \ 0..2
  /\ Question \in Printable /\ Empty \notin Printable
  /\ DefaultTheme \in Themes
  /\ Places \subseteq Nat \X Nat

Size == Width * Height
Last == Size - 1  \* 1999

VARIABLES
  tty,  \* [cells, offset, theme], and vga, the offset that the controller was told
  done  \* history: the kind of the last call

ttyVars == <<tty, done>>

\* After ttyClear, the first call of kernelMain.
TtyInit ==
  /\ \E old \in Themes :
       tty = [cells |-> [i \in 0..Last |-> [ch |-> Empty, theme |-> old]],
              offset |-> 0, vga |-> 0, theme |-> DefaultTheme]
  /\ done = "clear"

Theme(colour) == IF colour \in Themes THEN colour ELSE DefaultTheme

X(t) == t.offset % Width
Y(t) == t.offset \div Width

\* ttySetCursor(x, y): off the screen nothing happens.
SetCursor(t, x, y) ==
  IF y * Width + x >= Size THEN t
  ELSE [t EXCEPT !.offset = y * Width + x, !.vga = y * Width + x]

ScrollUp(t) ==
  LET moved == [i \in 0..Last |-> IF i < Size - Width THEN t.cells[i + Width]
                                  ELSE [ch |-> Empty, theme |-> t.theme]]
  IN  SetCursor([t EXCEPT !.cells = moved],
                IF Y(t) > 0 THEN X(t) ELSE 0, IF Y(t) > 0 THEN Y(t) - 1 ELSE 0)
------------------------------------------------------------------------------
(***************************************************************************)
(* ttyPutChar.                                                             *)
(***************************************************************************)
Shown(c) == IF c \in Unprintable THEN Question ELSE c

Written(t, cell) ==
  IF cell.ch = NewLine THEN [t EXCEPT !.offset = (Y(t) + 1) * Width]
  ELSE [t EXCEPT !.cells[t.offset] = cell, !.offset = @ + 1]

\* Mutant: the lines move up when the offset is behind what is behind the screen.
Settled_Late(t) == IF t.offset > Size THEN [ScrollUp(t) EXCEPT !.offset = @ - Width] ELSE t

\* At the last cell of the screen the lines move up, and the offset goes back by two
\* lines: by one in ttyScrollUp, and by one more here.
Settled(t) == IF t.offset >= Last THEN [ScrollUp(t) EXCEPT !.offset = @ - Width] ELSE t

Put(t, cell) ==
  LET s == Settled(Written(t, cell)) IN SetCursor(s, X(s), Y(s))

\* ttyPutChar(c) keeps the theme of the cell.
PutChar(c) ==
  /\ tty' = Put(tty, [ch |-> Shown(c), theme |-> tty.cells[tty.offset].theme])
  /\ done' = "put"

\* ttyPutChar(fg, bg, c)
PutColoured(c, colour) ==
  /\ tty' = Put(tty, [ch |-> Shown(c), theme |-> Theme(colour)])
  /\ done' = "put"
------------------------------------------------------------------------------
(***************************************************************************)
(* The other calls.                                                        *)
(***************************************************************************)
\* Where the cursor gets when it is sent to (x, y).
Sent(x, y) == SetCursor(tty, x, y).offset

\* What ttySetChar and ttySetTheme have in common: they send the cursor to (x, y), write
\* the cell that it gets to, and send it back.
AtPlace(x, y, cell) ==
  /\ tty' = SetCursor([SetCursor(tty, x, y) EXCEPT !.cells[Sent(x, y)] = cell], X(tty), Y(tty))
  /\ done' = "edit"

SetChar(x, y, c) == AtPlace(x, y, [tty.cells[Sent(x, y)] EXCEPT !.ch = c])
SetTheme(x, y, colour) == AtPlace(x, y, [tty.cells[Sent(x, y)] EXCEPT !.theme = Theme(colour)])

ScrollScreen == tty' = ScrollUp(tty) /\ done' = "scroll"

ClearScreen ==
  /\ tty' = SetCursor([tty EXCEPT !.cells = [i \in 0..Last |-> [tty.cells[i] EXCEPT !.ch = Empty]]], 0, 0)
  /\ done' = "clear"

SetGlobalTheme(colour) ==
  /\ tty' = [tty EXCEPT !.cells = [i \in 0..Last |-> [tty.cells[i] EXCEPT !.theme = Theme(colour)]],
                        !.theme = Theme(colour)]
  /\ done' = "edit"

MoveCursor(x, y) == tty' = SetCursor(tty, x, y) /\ done' = "move"

TtyNext ==
  \/ \E c \in Printable \cup Unprintable \cup {NewLine} :
       PutChar(c) \/ \E colour \in Colours : PutColoured(c, colour)
  \/ \E p \in Places :
       \/ MoveCursor(p[1], p[2])
       \/ \E c \in Printable : SetChar(p[1], p[2], c)
       \/ \E colour \in Colours : SetTheme(p[1], p[2], colour)
  \/ \E colour \in Colours : SetGlobalTheme(colour)
  \/ ScrollScreen
  \/ ClearScreen

TtySpec == TtyInit /\ [][TtyNext]_ttyVars
------------------------------------------------------------------------------
PlaceAt(offset) == [row |-> offset \div Width + 1, col |-> (offset % Width) + 1]

Sheet == INSTANCE Teletype WITH
  Marks <- Printable,
  lines <- [r \in 1..Height |-> [c \in 1..Width |-> tty.cells[(r - 1) * Width + c - 1]]],
  place <- PlaceAt(tty.offset), shown <- PlaceAt(tty.vga), did <- done

\* The screen is a sheet of lines on which text is put one character after the other,
\* and the cursor is shown where the next one goes: no call writes off the screen, or a
\* cell that is not its own, or leaves the cursor off the screen or shown elsewhere, and
\* of what is on the screen scrolling loses the first line only (tty.cpp:8-144).
ScreenIsSheet == Sheet!TypeSpec

\* Where nobody moves the cursor, the next character that is printed goes to an empty cell
\* and is not printed over an earlier one (tty.cpp:37, 61, 89).
NextPlaceIsFree == tty.cells[tty.offset].ch = Empty
==============================================================================
