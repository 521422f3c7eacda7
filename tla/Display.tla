------------------------------ MODULE Display -------------------------------
(***************************************************************************)
(* drivers/vesa.c behind the table of drivers/display.c, at the grain of   *)
(* its assignments.                                                        *)
(*                                                                         *)
(* The framebuffer is a grid of character cells, current_x and current_y   *)
(* are counted in cells.  A call of the driver is a sequence of steps; a   *)
(* step changes the display and may put further steps before the ones that *)
(* are left, as a test or a call in the code does.  The keyboard interrupt *)
(* runs a sequence to its end (Run), a thread takes a step at a time, so   *)
(* both execute the same definition.                                       *)
(***************************************************************************)
EXTENDS Integers, SequencesExt

CONSTANTS
    num_cols, num_rows,
    TAB,        \* columns a tab moves: 4
    WORD        \* 2^32, scaled down: cursor_x is unsigned

ASSUME DisplayAssumption ==
    /\ num_cols \in Nat /\ num_rows \in Nat \ {0} /\ TAB \in Nat \ {0}
    /\ num_cols > 2 * TAB /\ WORD \in Nat /\ WORD > num_cols + TAB

Cols  == 0..(num_cols - 1)
Rows  == 0..(num_rows - 1)
Cells == Cols \X Rows

(* What a cell shows besides a character: nothing, the cursor, the lower    *)
(* part of something drawn at column num_cols of the row, the memory behind *)
(* the framebuffer.                                                         *)
Blank == "blank"
Block == "block"
Smear == "smear"
Junk  == "junk"

(* init_vesa; outside: a cell below the last row has been drawn.            *)
init_vesa == [current_x |-> 0, current_y |-> 0, cursor_x |-> 0, cursor_y |-> 0, cursor_on |-> 0,
              cell |-> [p \in Cells |-> Blank], outside |-> FALSE]

(* The loops over FONT_HEIGHT and FONT_WIDTH, from framebuffer_addr +       *)
(* current_y * width + current_x.                                           *)
Draw(d, c) ==
    IF d.current_y \notin Rows THEN [d EXCEPT !.outside = TRUE]
    ELSE [d EXCEPT !.cell[<<d.current_x % num_cols, d.current_y>>] =
              IF d.current_x \in Cols THEN c ELSE Smear]

-----------------------------------------------------------------------------
(* The steps: <<name, arguments>>.                                          *)
Set(var, val) == <<"set", var, val>>
Inc(var)      == <<"inc", var>>
Glyph(c)      == <<"glyph", c>>
SetCursor(x, y) == <<"set_cursor", x, y>>
Hide   == <<"hide">>
Show   == <<"show">>
Scroll == <<"scroll">>
Putc(c)   == <<"putc", c>>
Backspace == <<"backspace">>
Clear     == <<"clear">>

(* vesa_set_cursor takes the column and the row behind the last.            *)
InRange(x, y) == y <= num_rows /\ x <= num_cols

vesa_set_cursor(x, y) ==
    IF InRange(x, y)
    THEN <<Set("current_x", x), Set("cursor_x", x), Set("current_y", y), Set("cursor_y", y)>>
    ELSE <<>>

vesa_show_cursor == <<Glyph(Block), Set("cursor_on", 1)>>
vesa_hide_cursor == <<Glyph(Blank), Set("cursor_on", 0)>>

(* vesa_print_char on a newline, on a tab and on any other character.       *)
vesa_print_char(c) ==
    CASE c = "newline" -> <<Hide, <<"next_line">>, Scroll>>
      [] c = "tab"     -> <<Hide, <<"next_tab">>>>
      [] OTHER         -> <<Glyph(c), Inc("current_x"), Inc("cursor_x"), Scroll>>

NextTab(x) == IF x <= num_cols - TAB THEN x + TAB ELSE x + (num_cols - TAB)

vesa_print(str) == [i \in 1..Len(str) |-> Putc(str[i])]

(* vesa_print_backspace reads the visibility first; --cursor_x is stored    *)
(* before vesa_set_cursor tests it.                                         *)
vesa_print_backspace(d) ==
    <<Hide, <<"column_back">>, Glyph(Blank), IF d.cursor_on = 1 THEN Show ELSE Hide, Scroll>>

ColumnBack(d) == LET x == (d.cursor_x + WORD - 1) % WORD
                 IN  <<Set("cursor_x", x), SetCursor(x, d.cursor_y)>>

(* scroll: on to the next row behind the last column; up by a row behind    *)
(* the last row, reading one row too far.                                   *)
PastEdge(x) == x > num_cols    \* mutant: off by one
AtEdge(x) == x >= num_cols

Wrap(d) ==
    IF AtEdge(d.cursor_x)
    THEN <<Inc("current_y"), Inc("cursor_y"), Set("current_x", 0), Set("cursor_x", 0)>>
    ELSE <<>>

Below(y) == y >= num_rows

Roll(d) ==
    IF Below(d.cursor_y)
    THEN [i \in 1..num_rows |-> <<"copy_row", i - 1>>] \o <<SetCursor(0, num_rows - 1)>>
    ELSE <<>>

CopyRow(d, y) ==
    [d EXCEPT !.cell = [p \in Cells |->
        IF p[2] # y THEN d.cell[p] ELSE IF y + 1 \in Rows THEN d.cell[<<p[1], y + 1>>] ELSE Junk]]

(* display_putats with the row dis_gety gives, as ps calls it.              *)
display_putats(d, str, x) == <<SetCursor(x, d.cursor_y)>> \o vesa_print(str)

(* What a step puts before the steps that are left.                         *)
Calls(d, s) ==
    CASE s[1] = "putc"       -> vesa_print_char(s[2])
      [] s[1] = "backspace"  -> vesa_print_backspace(d)
      [] s[1] = "set_cursor" -> vesa_set_cursor(s[2], s[3])
      [] s[1] = "column_back" -> ColumnBack(d)
      [] s[1] = "next_line"  -> vesa_set_cursor(0, d.cursor_y + 1)
      [] s[1] = "next_tab"   -> vesa_set_cursor(NextTab(d.cursor_x), d.cursor_y)
      [] s[1] = "show"       -> vesa_show_cursor
      [] s[1] = "hide"       -> vesa_hide_cursor
      [] s[1] = "scroll"     -> <<<<"wrap">>, <<"roll">>>>
      [] s[1] = "wrap"       -> Wrap(d)
      [] s[1] = "roll"       -> Roll(d)
      [] s[1] = "clear"      -> <<<<"blank_all">>, SetCursor(0, 0)>>
      [] OTHER               -> <<>>

(* What a step assigns.                                                     *)
Assigns(d, s) ==
    CASE s[1] = "glyph"     -> Draw(d, s[2])
      [] s[1] = "set"       -> [d EXCEPT ![s[2]] = s[3]]
      [] s[1] = "inc"       -> [d EXCEPT ![s[2]] = @ + 1]
      [] s[1] = "copy_row"  -> CopyRow(d, s[2])
      [] s[1] = "blank_all" -> [d EXCEPT !.cell = [p \in Cells |-> Blank]]
      [] OTHER              -> d

(* The steps to their end.                                                  *)
RECURSIVE Run(_, _)
Run(d, steps) ==
    IF steps = <<>> THEN d
    ELSE Run(Assigns(d, Head(steps)), Calls(d, Head(steps)) \o Tail(steps))

-----------------------------------------------------------------------------
(* What the display is for: the last num_rows lines of a text, the last of  *)
(* them being written.  Gap stands for a column that was skipped.           *)
Gap == "gap"
NoText == <<<<>>>>

OpenLine(text) == LET t == Append(text, <<>>)
                  IN  IF Len(t) > num_rows THEN Tail(t) ELSE t
Extend(text, chars) == Append(Front(text), Last(text) \o chars)

TextPut(text, c) ==
    CASE c = "newline" -> OpenLine(text)
      [] c = "tab"     -> Extend(text, [i \in 1..TAB |-> Gap])
      [] OTHER         -> LET t == Extend(text, <<c>>)
                          IN  IF Len(Last(t)) = num_cols THEN OpenLine(t) ELSE t

TextErase(text) == Append(Front(text), Front(Last(text)))

TextColumn(text, x) ==
    LET line == Last(text)
    IN  Append(Front(text), [i \in 1..x |-> IF i <= Len(line) THEN line[i] ELSE Gap])

(* The display shows the text, and the cursor is behind it.                 *)
Shows(d, text) ==
    /\ \A y \in 1..Len(text) : \A x \in 1..Len(text[y]) :
           text[y][x] # Gap => d.cell[<<x - 1, y - 1>>] = text[y][x]
    /\ d.cursor_x = Len(Last(text)) /\ d.cursor_y = Len(text) - 1
    /\ d.current_x = d.cursor_x /\ d.current_y = d.cursor_y
=============================================================================
