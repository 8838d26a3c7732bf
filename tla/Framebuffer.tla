---------------------------- MODULE Framebuffer -----------------------------
(***************************************************************************)
(* The framebuffer writer with its scrollback ring                         *)
(* (kernel/src/framebuffer.rs), the keys that scroll it                    *)
(* (kernel/src/task/keyboard.rs, route_rawkey) and the shell's `clear`.    *)
(*                                                                         *)
(* Positions are counted in glyphs: row r is the pixel row                 *)
(* BORDER_PADDING + r * ROW_HEIGHT, and likewise for columns (the font is  *)
(* monospaced).  A cell of the screen holds the character last drawn in    *)
(* it.  All characters are one byte long: the length of the current line,  *)
(* which the code takes in bytes, is its number of characters.             *)
(***************************************************************************)
EXTENDS Integers, Sequences

CONSTANTS
    Rows,            \* viewport_rows
    LiveRows,        \* rows advance_visual_row lets the cursor reach
    Cols,            \* glyphs that fit in a row
    MaxLineLen,      \* MAX_LINE_LEN (256 in the code)
    ScrollbackLines, \* SCROLLBACK_LINES (256 in the code)
    Chars,           \* printable characters
    Controls,        \* control characters written, of "LF" and "CR"
    Blank,           \* a cell with nothing drawn in it
    MaxWritten       \* bound: characters written

\* With h the height in pixels, Rows is (h - 2) \div 18 and LiveRows is
\* (h - 1) \div 18: the two differ when h - 1 is a multiple of 18.
ASSUME FramebufferAssumption ==
    /\ Rows \in Nat \ {0} /\ LiveRows \in {Rows, Rows + 1}
    /\ Cols \in Nat \ {0} /\ MaxLineLen \in Nat \ {0}
    /\ ScrollbackLines \in Nat /\ Rows <= ScrollbackLines
    /\ Controls \subseteq {"LF", "CR"}
    /\ Blank \notin Chars /\ Chars \cap {"LF", "CR"} = {}
    /\ MaxWritten \in Nat

VARIABLES
    w,       \* the FrameBufferWriter: ring, line (current_line), back
             \* (scroll_back), row and col (y_pos, x_pos), screen (framebuffer)
    count,   \* characters written so far
    text,    \* history: the printable characters among them
    log,     \* history: the lines pushed to the ring since boot
    top      \* history: index in log of the top line when the view last moved

vars == <<w, count, text, log, top>>

AtMost(a, b) == IF a <= b THEN a ELSE b
Monus(a, b) == IF a >= b THEN a - b ELSE 0        \* saturating_sub

Dark == [r \in 0..(LiveRows - 1) |-> [c \in 0..(Cols - 1) |-> Blank]]

-----------------------------------------------------------------------------
(* The methods of FrameBufferWriter, as functions of the writer.           *)

\* ring ++ [current_line]
Lines(v) == Append(v.ring, v.line)

\* How far scroll_back may go.
MaxBack(v) == Monus(Len(v.ring) + 1, Rows)

\* A line as redraw_visible draws it: cut off at the width.
Drawn(line) == [c \in 0..(Cols - 1) |-> IF c < Len(line) THEN line[c + 1] ELSE Blank]

\* One line too few from the tail.
BugRedrawStale(v, b) ==
    LET last  == Len(v.ring) + 1 - AtMost(b + 1, MaxBack(v))
        first == Monus(last, Rows)
    IN  [v EXCEPT
           !.screen = [r \in 0..(LiveRows - 1) |->
                         IF r < last - first THEN Drawn(Lines(v)[first + r + 1])
                                             ELSE Dark[r]],
           !.row = Monus(last - first, 1),
           !.col = AtMost(Len(Lines(v)[last]), Cols)]

\* redraw_visible: Rows lines up to b lines from the newest, and the cursor
\* behind the last of them.
RedrawVisible(v, b) ==
    LET last  == Len(v.ring) + 1 - AtMost(b, MaxBack(v))
        first == Monus(last, Rows)
    IN  [v EXCEPT
           !.screen = [r \in 0..(LiveRows - 1) |->
                         IF r < last - first THEN Drawn(Lines(v)[first + r + 1])
                                             ELSE Dark[r]],
           !.row = Monus(last - first, 1),
           !.col = AtMost(Len(Lines(v)[last]), Cols)]

\* The ring grows for ever; the oldest line stays and the new one is dropped.
BugPushUnbounded(v) ==
    [v EXCEPT !.ring = Append(@, v.line), !.line = <<>>]
BugPushDropsNewest(v) ==
    [v EXCEPT !.ring = IF Len(@) = ScrollbackLines THEN @ ELSE Append(@, v.line),
              !.line = <<>>]

PushCurrentToRing(v) ==
    [v EXCEPT !.ring = Append(IF Len(@) = ScrollbackLines THEN Tail(@) ELSE @,
                              v.line),
              !.line = <<>>]

\* The overflow test allows one row more.
BugAdvanceLate(v) ==
    LET d == [v EXCEPT !.row = @ + 1, !.col = 0]
    IN  IF d.row > LiveRows
        THEN [RedrawVisible(d, 0) EXCEPT !.row = Rows - 1, !.col = 0]
        ELSE d

AdvanceVisualRow(v) ==
    LET d == [v EXCEPT !.row = @ + 1, !.col = 0]
    IN  IF d.row >= LiveRows
        THEN [RedrawVisible(d, 0) EXCEPT !.row = Rows - 1, !.col = 0]
        ELSE d

\* The visible row advances in a frozen view too.
BugNewlineUnfrozen(v) == AdvanceVisualRow(PushCurrentToRing(v))

\* newline, and the soft wrap at MAX_LINE_LEN.
Newline(v) ==
    LET d == PushCurrentToRing(v)
    IN  IF d.back = 0 THEN AdvanceVisualRow(d) ELSE d

\* The visible half of write_char: nothing while the view is frozen.
Draw(v, c) ==
    IF v.back # 0 THEN v
    ELSE LET d == IF v.col >= Cols THEN AdvanceVisualRow(v) ELSE v
         IN  [d EXCEPT !.screen[d.row][d.col] = c, !.col = @ + 1]

WriteChar(v, c) ==
    CASE c = "LF" -> Newline(v)
      [] c = "CR" -> [v EXCEPT !.col = 0]
      [] OTHER ->
           LET d == IF Len(v.line) >= MaxLineLen THEN Newline(v) ELSE v
           IN  [Draw(d, c) EXCEPT !.line = Append(@, c)]

ClearView(v) == [v EXCEPT !.row = 0, !.col = 0, !.screen = Dark]

ScrollTo(v, b) ==
    IF b = v.back THEN v ELSE RedrawVisible([v EXCEPT !.back = b], b)

\* Not clamped to the depth of the ring.
BugScrollUnclamped(v, n) == ScrollTo(v, v.back + n)

ScrollUp(v, n)   == ScrollTo(v, AtMost(v.back + n, MaxBack(v)))
ScrollDown(v, n) == ScrollTo(v, Monus(v.back, n))
ScrollEnd(v)     == ScrollTo(v, 0)

\* route_rawkey scrolls by a page less one line.
Page == IF Rows = 1 THEN 1 ELSE Rows - 1

-----------------------------------------------------------------------------
Init ==
    /\ w = [ring |-> <<>>, line |-> <<>>, back |-> 0, row |-> 0, col |-> 0,
            screen |-> Dark]
    /\ count = 0 /\ text = <<>> /\ log = <<>> /\ top = 0

\* The character c closes the line at hand.
Closes(c) == c = "LF" \/ (c \in Chars /\ Len(w.line) >= MaxLineLen)

Write(c) ==
    /\ count < MaxWritten
    /\ w' = WriteChar(w, c)
    /\ count' = count + 1
    /\ text' = IF c \in Chars THEN Append(text, c) ELSE text
    /\ log' = IF Closes(c) THEN Append(log, w.line) ELSE log
    /\ UNCHANGED top

\* The shell's `clear`: shell_loop ends the line and then calls clear().
Clear ==
    /\ count < MaxWritten
    /\ w' = ClearView(WriteChar(w, "LF"))
    /\ count' = count + 1
    /\ log' = Append(log, w.line)
    /\ UNCHANGED <<text, top>>

Moved(v) ==
    /\ w' = v
    /\ top' = IF v.back = w.back THEN top ELSE Len(log) + 2 - Rows - v.back
    /\ UNCHANGED <<count, text, log>>

PageUp   == Moved(ScrollUp(w, Page))
PageDown == Moved(ScrollDown(w, Page))
EndKey   == Moved(ScrollEnd(w))

Next ==
    \/ \E c \in Chars \cup Controls : Write(c)
    \/ Clear \/ PageUp \/ PageDown \/ EndKey

Spec == Init /\ [][Next]_vars

-----------------------------------------------------------------------------
(* Properties.                                                             *)

\* The states of a writer, with room for ScrollbackLines lines of MaxLineLen.
Screens == [0..(LiveRows - 1) -> [0..(Cols - 1) -> Chars \cup {Blank}]]
Writers == [ring : Seq(Seq(Chars)), line : Seq(Chars), back : Nat, row : Nat,
            col : Nat, screen : Screens]

\* The ring never outgrows SCROLLBACK_LINES, nor current_line MAX_LINE_LEN.
TypeOK ==
    /\ w \in Writers
    /\ Len(w.ring) <= ScrollbackLines /\ Len(w.line) <= MaxLineLen
    /\ count \in 0..MaxWritten
    /\ text \in Seq(Chars) /\ log \in Seq(Seq(Chars)) /\ top \in Int

\* The cursor stays where a glyph can be drawn, or just behind the last column
\* (write_char wraps before it draws): write_pixel never indexes outside the
\* framebuffer, whatever is written, scrolled or cleared in between.
CursorOnScreen == w.row < LiveRows /\ w.col <= Cols

\* scroll_back never exceeds what the ring can show, although the ring drops
\* lines and scroll_back is not adjusted while the view is frozen: the clamp
\* in redraw_visible is never needed.
ScrollClamped == w.back <= MaxBack(w)

\* On the live tail, when lines fit the width and no carriage return is
\* written: the row of the cursor shows current_line, the rows above it the
\* newest lines of the ring, the rows below it nothing.  Coming back from a
\* frozen view, overflowing the screen and clearing it all lead there.
RowsAreLines ==
    w.back = 0 =>
        /\ w.col = Len(w.line)
        /\ \A r \in 0..(LiveRows - 1) :
             LET i == Len(w.ring) + 1 - (w.row - r)
             IN  IF r <= w.row THEN i >= 1 /\ w.screen[r] = Drawn(Lines(w)[i])
                               ELSE w.screen[r] = Dark[r]

\* A frozen view shows Rows consecutive lines of the output since boot, also
\* after the ring has dropped them, until the view moves or is cleared.
FrozenOnHistory ==
    w.back > 0 =>
        \/ w.screen = Dark
        \/ /\ top \in 1..(Len(log) - Rows + 1)
           /\ \A r \in 0..(Rows - 1) : w.screen[r] = Drawn(log[top + r])

\* The ring with current_line is the end of the text written, in order, and
\* nothing is missing from it until the ring is full: freezing the view loses
\* no output.
RingKeepsOutput ==
    LET flat[i \in 0..(Len(w.ring) + 1)] ==
            IF i = 0 THEN <<>> ELSE flat[i - 1] \o Lines(w)[i]
        kept == flat[Len(w.ring) + 1]
    IN  /\ Len(kept) <= Len(text)
        /\ kept = SubSeq(text, Len(text) - Len(kept) + 1, Len(text))
        /\ Len(w.ring) < ScrollbackLines => kept = text
=============================================================================
