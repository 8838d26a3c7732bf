------------------------- MODULE FramebufferProofs --------------------------
(***************************************************************************)
(* For every size of screen, line and ring: the writer of Framebuffer      *)
(* keeps its cursor inside the framebuffer and scroll_back inside the      *)
(* ring.  Each method gets a lemma: it takes a good writer to a good one.  *)
(***************************************************************************)
EXTENDS Framebuffer, Induction, SequenceTheorems, TLAPS

\* A writer within its limits, but for the row of the cursor.
Sound(v) ==
    /\ v \in Writers
    /\ Len(v.ring) <= ScrollbackLines /\ Len(v.line) <= MaxLineLen
    /\ v.col <= Cols
    /\ v.back <= MaxBack(v)

Good(v) == Sound(v) /\ v.row < LiveRows

IndInv == TypeOK /\ CursorOnScreen /\ ScrollClamped

\* redraw_visible draws a line cut off at the width: a row of the screen.
LEMMA DrawnIsRow ==
    ASSUME NEW line \in Seq(Chars)
    PROVE  Drawn(line) \in [0..(Cols - 1) -> Chars \cup {Blank}]
  BY FramebufferAssumption DEF Drawn

\* The blank screen of clear_visible is a screen.
LEMMA DarkIsScreen == Dark \in Screens
  BY FramebufferAssumption DEF Dark, Screens

\* redraw_visible leaves the cursor on one of the first Rows rows and touches
\* neither the ring nor the offset.
LEMMA RedrawGood ==
    ASSUME NEW v, Sound(v), NEW b \in Nat
    PROVE  /\ Good(RedrawVisible(v, b))
           /\ RedrawVisible(v, b).back = v.back
           /\ RedrawVisible(v, b).ring = v.ring
           /\ RedrawVisible(v, b).line = v.line
  <1> DEFINE last  == Len(v.ring) + 1 - AtMost(b, MaxBack(v))
             first == Monus(last, Rows)
             scr   == [r \in 0..(LiveRows - 1) |->
                         IF r < last - first THEN Drawn(Lines(v)[first + r + 1])
                                             ELSE Dark[r]]
             r1    == Monus(last - first, 1)
             c1    == AtMost(Len(Lines(v)[last]), Cols)
  <1>0. /\ v.ring \in Seq(Seq(Chars)) /\ v.line \in Seq(Chars)
        /\ v.back \in Nat /\ v.row \in Nat /\ v.col \in Nat
        /\ v.screen \in Screens
    BY DEF Sound, Writers
  <1>1. /\ Rows \in Nat /\ Rows >= 1 /\ LiveRows \in Nat /\ LiveRows >= Rows
        /\ Cols \in Nat /\ Len(v.ring) \in Nat
    BY <1>0, FramebufferAssumption
  <1>2. last \in Nat /\ last >= 1 /\ last <= Len(v.ring) + 1
    <2>1. /\ MaxBack(v) \in Nat /\ MaxBack(v) <= Len(v.ring)
          /\ AtMost(b, MaxBack(v)) \in Nat
          /\ AtMost(b, MaxBack(v)) <= MaxBack(v)
      <3>1. MaxBack(v) \in Nat /\ MaxBack(v) <= Len(v.ring)
        BY <1>1 DEF MaxBack, Monus
      <3> QED BY <3>1 DEF AtMost
    <2> QED BY <2>1, <1>1
  <1> HIDE DEF last
  <1>3. first \in Nat /\ last - first >= 1 /\ last - first <= Rows
    BY <1>1, <1>2 DEF Monus
  <1> HIDE DEF first
  <1>4. Lines(v) \in Seq(Seq(Chars)) /\ Len(Lines(v)) = Len(v.ring) + 1
    BY <1>0 DEF Lines
  <1>5. \A i \in 1..(Len(v.ring) + 1) : Lines(v)[i] \in Seq(Chars)
    BY <1>4
  <1>6. scr \in Screens
    <2>1. ASSUME NEW r \in 0..(LiveRows - 1)
          PROVE  (IF r < last - first THEN Drawn(Lines(v)[first + r + 1])
                                      ELSE Dark[r])
                    \in [0..(Cols - 1) -> Chars \cup {Blank}]
      <3>1. CASE r < last - first
        <4>1. first + r + 1 \in 1..(Len(v.ring) + 1)
          BY <3>1, <1>1, <1>2, <1>3
        <4>2. Lines(v)[first + r + 1] \in Seq(Chars)
          BY <4>1, <1>5
        <4> QED BY <3>1, <4>2, DrawnIsRow
      <3>2. CASE ~(r < last - first)
        BY <3>2, DarkIsScreen DEF Screens
      <3> QED BY <3>1, <3>2
    <2> QED BY <2>1 DEF Screens
  <1>7. r1 \in Nat /\ r1 < LiveRows
    <2>1. last - first \in Int
      BY <1>2, <1>3
    <2> QED BY <2>1, <1>1, <1>3 DEF Monus
  <1>8. c1 \in Nat /\ c1 <= Cols
    <2>1. Lines(v)[last] \in Seq(Chars)
      BY <1>2, <1>5
    <2> QED BY <2>1, <1>1 DEF AtMost
  <1>9. RedrawVisible(v, b) = [v EXCEPT !.screen = scr, !.row = r1, !.col = c1]
    BY DEF RedrawVisible, last, first
  <1> HIDE DEF scr, r1, c1
  <1>10. /\ RedrawVisible(v, b) \in Writers
         /\ RedrawVisible(v, b).back = v.back
         /\ RedrawVisible(v, b).ring = v.ring
         /\ RedrawVisible(v, b).line = v.line
         /\ RedrawVisible(v, b).row = r1
         /\ RedrawVisible(v, b).col = c1
    BY <1>6, <1>7, <1>8, <1>9 DEF Sound, Writers
  <1> QED BY <1>7, <1>8, <1>10 DEF Sound, Good, MaxBack

\* push_current_to_ring keeps the ring within SCROLLBACK_LINES, and a ring
\* that drops its oldest line is no shorter than before, so scroll_back stays
\* within it.
LEMMA PushGood ==
    ASSUME NEW v, Sound(v)
    PROVE  /\ Sound(PushCurrentToRing(v))
           /\ PushCurrentToRing(v).line = <<>>
           /\ PushCurrentToRing(v).row = v.row
           /\ PushCurrentToRing(v).back = v.back
           /\ PushCurrentToRing(v).screen = v.screen
  <1> DEFINE kept == IF Len(v.ring) = ScrollbackLines THEN Tail(v.ring) ELSE v.ring
             ring == Append(kept, v.line)
  <1>1. /\ v \in Writers /\ v.ring \in Seq(Seq(Chars)) /\ v.line \in Seq(Chars)
        /\ Len(v.ring) \in Nat /\ Len(v.ring) <= ScrollbackLines
        /\ v.back \in Nat /\ v.back <= MaxBack(v) /\ v.col <= Cols
    BY DEF Sound, Writers
  <1>2. Rows \in Nat /\ Rows >= 1 /\ ScrollbackLines \in Nat /\ ScrollbackLines >= 1
        /\ MaxLineLen \in Nat
    BY FramebufferAssumption
  <1>3. kept \in Seq(Seq(Chars))
        /\ Len(kept) = IF Len(v.ring) = ScrollbackLines THEN Len(v.ring) - 1
                                                        ELSE Len(v.ring)
    <2>1. CASE Len(v.ring) = ScrollbackLines
      <3>1. v.ring # <<>>
        BY <2>1, <1>2
      <3> QED BY <3>1, <2>1, <1>1
    <2>2. CASE Len(v.ring) # ScrollbackLines
      BY <2>2, <1>1
    <2> QED BY <2>1, <2>2
  <1> HIDE DEF kept
  <1>4. ring \in Seq(Seq(Chars)) /\ Len(ring) = Len(kept) + 1
    BY <1>3, <1>1
  <1>5. PushCurrentToRing(v) = [v EXCEPT !.ring = ring, !.line = <<>>]
    BY DEF PushCurrentToRing, kept
  <1>6. Len(ring) \in Nat /\ Len(ring) >= Len(v.ring) /\ Len(ring) <= ScrollbackLines
    BY <1>1, <1>2, <1>3, <1>4
  <1> HIDE DEF ring
  <1>7. /\ PushCurrentToRing(v) \in Writers
        /\ PushCurrentToRing(v).ring = ring
        /\ PushCurrentToRing(v).line = <<>>
        /\ PushCurrentToRing(v).row = v.row
        /\ PushCurrentToRing(v).col = v.col
        /\ PushCurrentToRing(v).back = v.back
        /\ PushCurrentToRing(v).screen = v.screen
    <2>1. <<>> \in Seq(Chars)
      OBVIOUS
    <2> QED BY <1>1, <1>4, <1>5, <2>1 DEF Writers
  <1>8. Monus(Len(v.ring) + 1, Rows) <= Monus(Len(ring) + 1, Rows)
    BY <1>1, <1>2, <1>6 DEF Monus
  <1>9. v.back <= Monus(Len(ring) + 1, Rows)
    <2>1. /\ Monus(Len(v.ring) + 1, Rows) \in Int
          /\ Monus(Len(ring) + 1, Rows) \in Int
      BY <1>1, <1>2, <1>6 DEF Monus
    <2> QED BY <2>1, <1>1, <1>8 DEF MaxBack
  <1> QED BY <1>1, <1>2, <1>6, <1>7, <1>9 DEF Sound, MaxBack

\* advance_visual_row puts the cursor at the start of a row of the screen,
\* redrawing the tail when it has left the last one.
LEMMA AdvanceGood ==
    ASSUME NEW v, Sound(v), v.row < LiveRows
    PROVE  /\ Good(AdvanceVisualRow(v))
           /\ AdvanceVisualRow(v).col = 0
           /\ AdvanceVisualRow(v).line = v.line
           /\ AdvanceVisualRow(v).back = v.back
           /\ AdvanceVisualRow(v).ring = v.ring
  <1> DEFINE d == [v EXCEPT !.row = @ + 1, !.col = 0]
             s == RedrawVisible(d, 0)
  <1>1. /\ Rows \in Nat /\ Rows >= 1 /\ LiveRows \in Nat /\ LiveRows >= Rows
        /\ Cols \in Nat
    BY FramebufferAssumption
  <1>2. /\ d \in Writers /\ d.row = v.row + 1 /\ d.col = 0
        /\ d.line = v.line /\ d.back = v.back /\ d.ring = v.ring
    <2>1. v \in Writers /\ v.row + 1 \in Nat
      BY DEF Sound, Writers
    <2> QED BY <2>1 DEF Writers
  <1>3. Sound(d)
    BY <1>1, <1>2 DEF Sound, MaxBack
  <1>4. AdvanceVisualRow(v) =
          IF d.row >= LiveRows THEN [s EXCEPT !.row = Rows - 1, !.col = 0] ELSE d
    BY DEF AdvanceVisualRow
  <1> HIDE DEF d
  <1>5. Good(s) /\ s.back = v.back /\ s.ring = v.ring /\ s.line = v.line
    BY <1>2, <1>3, RedrawGood
  <1> HIDE DEF s
  <1>6. CASE d.row >= LiveRows
    <2> DEFINE e == [s EXCEPT !.row = Rows - 1, !.col = 0]
    <2>1. /\ e \in Writers /\ e.row = Rows - 1 /\ e.col = 0
          /\ e.back = s.back /\ e.ring = s.ring /\ e.line = s.line
      <3>1. s \in Writers /\ Rows - 1 \in Nat
        BY <1>1, <1>5 DEF Good, Sound
      <3> QED BY <3>1 DEF Writers
    <2>2. AdvanceVisualRow(v) = e
      BY <1>4, <1>6
    <2> HIDE DEF e
    <2> QED BY <1>1, <1>5, <2>1, <2>2 DEF Good, Sound, MaxBack
  <1>7. CASE ~(d.row >= LiveRows)
    <2>1. d.row \in Nat
      BY <1>2 DEF Writers
    <2> QED BY <1>1, <1>2, <1>3, <1>4, <1>7, <2>1 DEF Good
  <1> QED BY <1>6, <1>7

\* newline starts an empty line and leaves the cursor on the screen, whether
\* the view is live or frozen.
LEMMA NewlineGood ==
    ASSUME NEW v, Good(v)
    PROVE  /\ Good(Newline(v)) /\ Newline(v).line = <<>>
           /\ Newline(v).back = v.back
           /\ Newline(v).ring = PushCurrentToRing(v).ring
           /\ v.back # 0 => Newline(v).screen = v.screen
  <1> DEFINE d == PushCurrentToRing(v)
  <1>1. /\ Sound(d) /\ d.line = <<>> /\ d.row < LiveRows
        /\ d.back = v.back /\ d.screen = v.screen
    BY PushGood DEF Good
  <1>2. Newline(v) = IF d.back = 0 THEN AdvanceVisualRow(d) ELSE d
    BY DEF Newline
  <1>3. d.ring = PushCurrentToRing(v).ring
    OBVIOUS
  <1> HIDE DEF d
  <1>4. /\ Good(AdvanceVisualRow(d)) /\ AdvanceVisualRow(d).line = <<>>
        /\ AdvanceVisualRow(d).back = d.back /\ AdvanceVisualRow(d).ring = d.ring
    BY <1>1, AdvanceGood
  <1> QED BY <1>1, <1>2, <1>3, <1>4 DEF Good

\* write_char wraps before it draws: the glyph falls inside the screen.
LEMMA DrawGood ==
    ASSUME NEW v, Good(v), NEW c \in Chars
    PROVE  /\ Good(Draw(v, c)) /\ Draw(v, c).line = v.line
           /\ Draw(v, c).ring = v.ring /\ Draw(v, c).back = v.back
           /\ v.back # 0 => Draw(v, c) = v
  <1> DEFINE d == IF v.col >= Cols THEN AdvanceVisualRow(v) ELSE v
             e == [d EXCEPT !.screen[d.row][d.col] = c, !.col = @ + 1]
  <1>1. Cols \in Nat /\ Cols >= 1 /\ LiveRows \in Nat
    BY FramebufferAssumption
  <1>2. /\ Good(d) /\ d.line = v.line /\ d.col < Cols
        /\ d.ring = v.ring /\ d.back = v.back
    <2>1. CASE v.col >= Cols
      BY <2>1, <1>1, AdvanceGood DEF Good
    <2>2. CASE ~(v.col >= Cols)
      BY <2>2, <1>1 DEF Good, Sound, Writers
    <2> QED BY <2>1, <2>2
  <1>3. Draw(v, c) = IF v.back # 0 THEN v ELSE e
    BY DEF Draw
  <1> HIDE DEF d
  <1>4. [d.screen EXCEPT ![d.row][d.col] = c] \in Screens
    <2>1. d.screen \in Screens /\ d.row \in 0..(LiveRows - 1) /\ d.col \in 0..(Cols - 1)
      BY <1>1, <1>2 DEF Good, Sound, Writers
    <2> QED BY <2>1 DEF Screens
  <1>5. /\ e \in Writers /\ e.line = d.line /\ e.ring = d.ring
        /\ e.back = d.back /\ e.row = d.row /\ e.col = d.col + 1
    <2> DEFINE scr == [d.screen EXCEPT ![d.row][d.col] = c]
    <2>1. d \in Writers /\ d.col + 1 \in Nat
      BY <1>2 DEF Good, Sound, Writers
    <2>2. e = [d EXCEPT !.screen = scr, !.col = d.col + 1]
      BY <2>1 DEF Writers
    <2>3. scr \in Screens
      BY <1>4
    <2> HIDE DEF scr, e
    <2> QED BY <2>1, <2>2, <2>3 DEF Writers
  <1> HIDE DEF e
  <1>6. Good(e)
    <2>1. d.col \in Nat
      BY <1>2 DEF Good, Sound, Writers
    <2> QED BY <1>1, <1>2, <1>5, <2>1 DEF Good, Sound, MaxBack
  <1> QED BY <1>2, <1>3, <1>5, <1>6

\* write_char, for every character the shell or the kernel writes.
LEMMA WriteCharGood ==
    ASSUME NEW v, Good(v), NEW c \in Chars \cup {"LF", "CR"}
    PROVE  /\ Good(WriteChar(v, c))
           /\ WriteChar(v, c).back = v.back
           /\ WriteChar(v, c).ring =
                IF c = "LF" \/ (c \in Chars /\ Len(v.line) >= MaxLineLen)
                THEN PushCurrentToRing(v).ring ELSE v.ring
           /\ v.back # 0 => WriteChar(v, c).screen = v.screen
           /\ WriteChar(v, c).line =
                IF c = "LF" THEN <<>> ELSE IF c = "CR" THEN v.line
                ELSE Append(IF Len(v.line) >= MaxLineLen THEN <<>> ELSE v.line, c)
  <1>1. CASE c = "LF"
    BY <1>1, NewlineGood DEF WriteChar
  <1>2. CASE c = "CR"
    <2> DEFINE e == [v EXCEPT !.col = 0]
    <2>1. /\ e \in Writers /\ e.line = v.line /\ e.ring = v.ring
          /\ e.back = v.back /\ e.row = v.row /\ e.col = 0 /\ e.screen = v.screen
      BY DEF Good, Sound, Writers
    <2>2. WriteChar(v, c) = e
      BY <1>2 DEF WriteChar
    <2>3. c # "LF" /\ c \notin Chars
      BY <1>2, FramebufferAssumption
    <2> HIDE DEF e
    <2> QED BY <2>1, <2>2, <2>3, FramebufferAssumption DEF Good, Sound, MaxBack
  <1>3. CASE c \in Chars
    <2> DEFINE d == IF Len(v.line) >= MaxLineLen THEN Newline(v) ELSE v
               s == Draw(d, c)
               e == [s EXCEPT !.line = Append(@, c)]
    <2>0. MaxLineLen \in Nat /\ MaxLineLen >= 1
      BY FramebufferAssumption
    <2>1. /\ Good(d) /\ Len(d.line) < MaxLineLen /\ d.back = v.back
          /\ d.ring = IF Len(v.line) >= MaxLineLen THEN PushCurrentToRing(v).ring
                                                   ELSE v.ring
          /\ v.back # 0 => d.screen = v.screen
          /\ d.line = IF Len(v.line) >= MaxLineLen THEN <<>> ELSE v.line
      <3>1. CASE Len(v.line) >= MaxLineLen
        BY <3>1, <2>0, NewlineGood
      <3>2. CASE ~(Len(v.line) >= MaxLineLen)
        BY <3>2, <2>0 DEF Good, Sound, Writers
      <3> QED BY <3>1, <3>2
    <2>2. c # "LF" /\ c # "CR"
      BY <1>3, FramebufferAssumption
    <2>3. WriteChar(v, c) = e
      BY <2>2 DEF WriteChar
    <2> HIDE DEF d
    <2>4. /\ Good(s) /\ s.line = d.line /\ s.ring = d.ring /\ s.back = d.back
          /\ d.back # 0 => s = d
      BY <1>3, <2>1, DrawGood
    <2> HIDE DEF s
    <2>5. /\ Append(s.line, c) \in Seq(Chars)
          /\ Len(Append(s.line, c)) <= MaxLineLen
      <3>1. s.line \in Seq(Chars)
        BY <2>4 DEF Good, Sound, Writers
      <3> QED BY <1>3, <2>0, <2>1, <2>4, <3>1
    <2>6. /\ e \in Writers /\ e.line = Append(s.line, c) /\ e.ring = s.ring
          /\ e.back = s.back /\ e.row = s.row /\ e.col = s.col /\ e.screen = s.screen
      BY <2>4, <2>5 DEF Good, Sound, Writers
    <2> HIDE DEF e
    <2>7. Good(e)
      BY <2>4, <2>5, <2>6 DEF Good, Sound, MaxBack
    <2> QED BY <1>3, <2>1, <2>2, <2>3, <2>4, <2>6, <2>7
  <1> QED BY <1>1, <1>2, <1>3

\* clear blanks the visible part and leaves ring, line and offset alone.
LEMMA ClearGood ==
    ASSUME NEW v, Good(v)
    PROVE  Good(ClearView(v))
  <1>1. /\ ClearView(v) \in Writers /\ ClearView(v).line = v.line
        /\ ClearView(v).ring = v.ring /\ ClearView(v).back = v.back
        /\ ClearView(v).row = 0 /\ ClearView(v).col = 0
    BY DarkIsScreen DEF ClearView, Good, Sound, Writers
  <1> QED BY <1>1, FramebufferAssumption DEF Good, Sound, MaxBack

\* scroll_up, scroll_down and scroll_end move the offset to a value within
\* the ring and redraw.
LEMMA ScrollGood ==
    ASSUME NEW v, Good(v), NEW b \in Nat, b <= MaxBack(v)
    PROVE  /\ Good(ScrollTo(v, b))
           /\ ScrollTo(v, b).ring = v.ring /\ ScrollTo(v, b).line = v.line
  <1> DEFINE d == [v EXCEPT !.back = b]
  <1>1. /\ d \in Writers /\ d.line = v.line /\ d.ring = v.ring
        /\ d.back = b /\ d.row = v.row /\ d.col = v.col
    BY DEF Good, Sound, Writers
  <1>2. ScrollTo(v, b) = IF b = v.back THEN v ELSE RedrawVisible(d, b)
    BY DEF ScrollTo
  <1> HIDE DEF d
  <1>3. Sound(d)
    BY <1>1 DEF Good, Sound, MaxBack
  <1>4. /\ Good(RedrawVisible(d, b))
        /\ RedrawVisible(d, b).ring = d.ring /\ RedrawVisible(d, b).line = d.line
    BY <1>3, RedrawGood
  <1> QED BY <1>1, <1>2, <1>4
-----------------------------------------------------------------------------
(* The inductive invariant: a good writer, and typed histories.            *)

\* FrameBufferWriter::new hands out a writer within its limits.
LEMMA InitInd == Init => IndInv
  <1> SUFFICES ASSUME Init PROVE IndInv
    OBVIOUS
  <1>1. w \in Writers
    <2>1. <<>> \in Seq(Chars) /\ <<>> \in Seq(Seq(Chars)) /\ Dark \in Screens
      BY DarkIsScreen
    <2> QED BY <2>1 DEF Init, Writers
  <1>2. /\ Len(w.ring) = 0 /\ Len(w.line) = 0 /\ w.row = 0 /\ w.col = 0 /\ w.back = 0
        /\ count = 0 /\ text \in Seq(Chars) /\ log \in Seq(Seq(Chars)) /\ top \in Int
    BY DEF Init
  <1>3. MaxBack(w) \in Nat
    BY <1>2, FramebufferAssumption DEF MaxBack, Monus
  <1> QED BY <1>1, <1>2, <1>3, FramebufferAssumption
          DEF IndInv, TypeOK, CursorOnScreen, ScrollClamped

\* Every step leaves a good writer: write_char and clear by the lemmas on
\* them, the scroll keys because scroll_up clamps and scroll_down saturates.
LEMMA NextInd == IndInv /\ [Next]_vars => IndInv'
  <1> SUFFICES ASSUME IndInv, [Next]_vars PROVE IndInv'
    OBVIOUS
  <1>1. /\ Good(w) /\ w \in Writers /\ count \in Nat /\ count <= MaxWritten
        /\ text \in Seq(Chars) /\ log \in Seq(Seq(Chars)) /\ top \in Int
        /\ w.line \in Seq(Chars) /\ w.back \in Nat
    BY FramebufferAssumption
       DEF IndInv, TypeOK, CursorOnScreen, ScrollClamped, Good, Sound, Writers
  <1>2. Rows \in Nat /\ Rows >= 1 /\ Page \in Nat /\ MaxWritten \in Nat
    BY FramebufferAssumption DEF Page
  <1>3. SUFFICES /\ Good(w') /\ count' \in 0..MaxWritten /\ text' \in Seq(Chars)
                 /\ log' \in Seq(Seq(Chars)) /\ top' \in Int
    BY DEF IndInv, TypeOK, CursorOnScreen, ScrollClamped, Good, Sound, MaxBack
  <1>4. ASSUME NEW c \in Chars \cup Controls, Write(c)
        PROVE  /\ Good(w') /\ count' \in 0..MaxWritten /\ text' \in Seq(Chars)
               /\ log' \in Seq(Seq(Chars)) /\ top' \in Int
    <2>1. c \in Chars \cup {"LF", "CR"}
      BY FramebufferAssumption
    <2>2. Good(w')
      BY <1>1, <1>4, <2>1, WriteCharGood DEF Write
    <2>3. text' \in Seq(Chars) /\ log' \in Seq(Seq(Chars))
      BY <1>1, <1>4 DEF Write
    <2> QED BY <1>1, <1>2, <1>4, <2>2, <2>3 DEF Write
  <1>5. CASE Clear
    <2>1. Good(WriteChar(w, "LF"))
      BY <1>1, WriteCharGood
    <2>2. Good(w')
      BY <1>5, <2>1, ClearGood DEF Clear
    <2> QED BY <1>1, <1>2, <1>5, <2>2 DEF Clear
  <1>6. ASSUME NEW b \in Nat, b <= MaxBack(w), Moved(ScrollTo(w, b))
        PROVE  /\ Good(w') /\ count' \in 0..MaxWritten /\ text' \in Seq(Chars)
               /\ log' \in Seq(Seq(Chars)) /\ top' \in Int
    <2>1. Good(w')
      BY <1>1, <1>6, ScrollGood DEF Moved
    <2>2. w'.back \in Nat
      BY <2>1 DEF Good, Sound, Writers
    <2>3. top' \in Int
      BY <1>1, <1>2, <1>6, <2>2 DEF Moved
    <2> QED BY <1>1, <1>2, <1>6, <2>1, <2>3 DEF Moved
  <1>7. MaxBack(w) \in Nat /\ w.back <= MaxBack(w)
    <2>1. Len(w.ring) \in Nat
      BY <1>1 DEF Writers
    <2> QED BY <1>1, <1>2, <2>1 DEF MaxBack, Monus, Good, Sound
  <1>8. CASE PageUp
    <2>1. AtMost(w.back + Page, MaxBack(w)) \in Nat
          /\ AtMost(w.back + Page, MaxBack(w)) <= MaxBack(w)
      BY <1>1, <1>2, <1>7 DEF AtMost
    <2> QED BY <1>6, <1>8, <2>1 DEF PageUp, ScrollUp
  <1>9. CASE PageDown
    <2>1. Monus(w.back, Page) \in Nat /\ Monus(w.back, Page) <= MaxBack(w)
      BY <1>1, <1>2, <1>7 DEF Monus
    <2> QED BY <1>6, <1>9, <2>1 DEF PageDown, ScrollDown
  <1>10. CASE EndKey
    BY <1>6, <1>7, <1>10 DEF EndKey, ScrollEnd
  <1>11. CASE UNCHANGED vars
    BY <1>1, <1>2, <1>11 DEF vars
  <1> QED BY <1>4, <1>5, <1>8, <1>9, <1>10, <1>11 DEF Next

\* The invariant holds in every behaviour of the writer.
THEOREM Inductive == Spec => []IndInv
  BY InitInd, NextInd, PTL DEF Spec

\* The ring never outgrows SCROLLBACK_LINES nor current_line MAX_LINE_LEN, and
\* the screen holds nothing but glyphs and blanks, whatever push_current_to_ring,
\* write_char, clear and the scroll keys do and in whatever order.
THEOREM WriterTyped == Spec => []TypeOK
  <1>1. IndInv => TypeOK
    BY DEF IndInv
  <1> QED BY <1>1, Inductive, PTL

\* write_pixel never indexes outside the framebuffer: at every height (with or
\* without the extra live row), every width and every ring.
THEOREM CursorStaysOnScreen == Spec => []CursorOnScreen
  <1>1. IndInv => CursorOnScreen
    BY DEF IndInv
  <1> QED BY <1>1, Inductive, PTL

\* scroll_back stays within the ring although it is adjusted only by the
\* scroll keys while lines enter and leave the ring in between.
THEOREM ScrollStaysClamped == Spec => []ScrollClamped
  <1>1. IndInv => ScrollClamped
    BY DEF IndInv
  <1> QED BY <1>1, Inductive, PTL
-----------------------------------------------------------------------------
(* The frozen view.  The ring is the end of the log, and stays it when it  *)
(* drops a line; what a redraw takes from the ring is therefore in the log *)
(* at a place that later lines do not move.                                *)

EndOf(ring, l) ==
    /\ Len(ring) <= Len(l)
    /\ \A i \in 1..Len(ring) : ring[i] = l[Len(l) - Len(ring) + i]

FrozenInv == IndInv /\ EndOf(w.ring, log) /\ FrozenOnHistory

\* push_current_to_ring: a line enters the ring and the log alike.
LEMMA PushEndOf ==
    ASSUME NEW v, Sound(v), NEW l \in Seq(Seq(Chars)), EndOf(v.ring, l)
    PROVE  EndOf(PushCurrentToRing(v).ring, Append(l, v.line))
  <1> DEFINE kept == IF Len(v.ring) = ScrollbackLines THEN Tail(v.ring) ELSE v.ring
             new  == Append(kept, v.line)
             m    == Append(l, v.line)
  <1>1. /\ v.ring \in Seq(Seq(Chars)) /\ v.line \in Seq(Chars)
        /\ Len(v.ring) \in Nat /\ Len(l) \in Nat /\ Len(v.ring) <= Len(l)
        /\ v \in Writers
    BY DEF Sound, Writers, EndOf
  <1>2. ScrollbackLines \in Nat /\ ScrollbackLines >= 1
    BY FramebufferAssumption
  <1>3. PushCurrentToRing(v).ring = new
    BY <1>1 DEF PushCurrentToRing, Writers
  <1>4. /\ kept \in Seq(Seq(Chars)) /\ Len(kept) \in Nat /\ Len(kept) <= Len(l)
        /\ \A i \in 1..Len(kept) : kept[i] = l[Len(l) - Len(kept) + i]
    <2>1. CASE Len(v.ring) = ScrollbackLines
      <3>1. v.ring # <<>>
        BY <2>1, <1>2
      <3>2. /\ kept \in Seq(Seq(Chars)) /\ Len(kept) = Len(v.ring) - 1
            /\ \A i \in 1..Len(kept) : kept[i] = v.ring[i + 1]
        BY <3>1, <2>1, <1>1
      <3> HIDE DEF kept
      <3>3. ASSUME NEW i \in 1..Len(kept)
            PROVE  kept[i] = l[Len(l) - Len(kept) + i]
        <4>1. i + 1 \in 1..Len(v.ring)
              /\ Len(l) - Len(v.ring) + (i + 1) = Len(l) - Len(kept) + i
          BY <1>1, <3>2
        <4> QED BY <3>2, <4>1 DEF EndOf
      <3> QED BY <1>1, <1>2, <2>1, <3>2, <3>3
    <2>2. CASE Len(v.ring) # ScrollbackLines
      BY <2>2, <1>1 DEF EndOf
    <2> QED BY <2>1, <2>2
  <1> HIDE DEF kept
  <1>5. /\ new \in Seq(Seq(Chars)) /\ Len(new) = Len(kept) + 1 /\ Len(m) = Len(l) + 1
        /\ \A i \in 1..Len(kept) : new[i] = kept[i]
        /\ new[Len(kept) + 1] = v.line
        /\ \A i \in 1..Len(l) : m[i] = l[i]
        /\ m[Len(l) + 1] = v.line
    BY <1>1, <1>4
  <1> HIDE DEF new, m
  <1>6. ASSUME NEW i \in 1..Len(new)
        PROVE  new[i] = m[Len(m) - Len(new) + i]
    <2>1. CASE i = Len(kept) + 1
      <3>1. Len(m) - Len(new) + i = Len(l) + 1
        BY <2>1, <1>1, <1>4, <1>5
      <3> QED BY <2>1, <3>1, <1>5
    <2>2. CASE i # Len(kept) + 1
      <3>1. /\ i \in 1..Len(kept) /\ Len(m) - Len(new) + i = Len(l) - Len(kept) + i
            /\ Len(l) - Len(kept) + i \in 1..Len(l)
        BY <2>2, <1>1, <1>4, <1>5
      <3> QED BY <3>1, <1>4, <1>5
    <2> QED BY <2>1, <2>2
  <1>7. Len(new) <= Len(m)
    BY <1>1, <1>4, <1>5
  <1> QED BY <1>3, <1>6, <1>7 DEF EndOf, m

\* redraw_visible from a place behind the tail shows Rows lines of the log.
LEMMA RedrawShowsLog ==
    ASSUME NEW v, Sound(v), NEW l \in Seq(Seq(Chars)), EndOf(v.ring, l),
           NEW b \in Nat, b > 0, b <= MaxBack(v)
    PROVE  LET t == Len(l) + 2 - Rows - b
           IN  /\ t \in 1..(Len(l) - Rows + 1)
               /\ \A r \in 0..(Rows - 1) :
                    RedrawVisible(v, b).screen[r] = Drawn(l[t + r])
  <1> DEFINE t     == Len(l) + 2 - Rows - b
             n     == Len(v.ring)
             last  == n + 1 - AtMost(b, MaxBack(v))
             first == Monus(last, Rows)
  <1>1. /\ v \in Writers /\ v.ring \in Seq(Seq(Chars)) /\ v.line \in Seq(Chars)
        /\ n \in Nat /\ Len(l) \in Nat /\ n <= Len(l)
    BY DEF Sound, Writers, EndOf
  <1>2. Rows \in Nat /\ Rows >= 1 /\ LiveRows \in Nat /\ LiveRows >= Rows
    BY FramebufferAssumption
  <1>3. b + Rows <= n + 1 /\ AtMost(b, MaxBack(v)) = b
    BY <1>1, <1>2 DEF MaxBack, Monus, AtMost
  <1>4. last = n + 1 - b /\ first = n + 1 - b - Rows /\ first \in Nat
        /\ last - first = Rows
    BY <1>1, <1>2, <1>3 DEF Monus
  <1>5. RedrawVisible(v, b).screen =
          [r \in 0..(LiveRows - 1) |->
              IF r < last - first THEN Drawn(Lines(v)[first + r + 1]) ELSE Dark[r]]
    BY <1>1 DEF RedrawVisible, Writers
  <1>6. t \in 1..(Len(l) - Rows + 1) /\ t = Len(l) + 2 - Rows - b /\ n = Len(v.ring)
    BY <1>1, <1>2, <1>3
  <1> HIDE DEF last, first, t, n
  <1>7. ASSUME NEW r \in 0..(Rows - 1)
        PROVE  RedrawVisible(v, b).screen[r] = Drawn(l[t + r])
    <2>1. RedrawVisible(v, b).screen[r] = Drawn(Lines(v)[first + r + 1])
      <3>1. r \in 0..(LiveRows - 1) /\ r < last - first
        BY <1>2, <1>4
      <3> QED BY <1>5, <3>1
    <2>2. first + r + 1 \in 1..n /\ Len(l) - n + (first + r + 1) = t + r
      <3>1. n \in Nat /\ n <= Len(l) /\ Len(l) \in Nat
        BY <1>1
      <3>2. first = n + 1 - b - Rows /\ b + Rows <= n + 1
        BY <1>3, <1>4
      <3>3. first + r + 1 \in 1..n
        BY <1>2, <1>4, <3>1, <3>2
      <3>4. t = Len(l) + 2 - Rows - b
        BY <1>6
      <3>5. Len(l) - n + (first + r + 1) = t + r
        BY <1>2, <3>1, <3>2, <3>4
      <3> QED BY <3>3, <3>5
    <2>3. Lines(v)[first + r + 1] = v.ring[first + r + 1]
      BY <1>1, <1>6, <2>2 DEF Lines
    <2> QED BY <1>6, <2>1, <2>2, <2>3 DEF EndOf
  <1> QED BY <1>6, <1>7 DEF t

\* A character written to a frozen view, and `clear`, leave what it shows in
\* the log; the keys that move the view set top to the line they put on top.
LEMMA FrozenStep == FrozenInv /\ [Next]_vars => FrozenInv'
  <1> SUFFICES ASSUME FrozenInv, [Next]_vars PROVE FrozenInv'
    OBVIOUS
  <1>1. /\ IndInv /\ IndInv' /\ Good(w) /\ Sound(w) /\ w \in Writers
        /\ log \in Seq(Seq(Chars)) /\ Len(log) \in Nat /\ top \in Int
        /\ w.line \in Seq(Chars) /\ w.back \in Nat
        /\ EndOf(w.ring, log) /\ FrozenOnHistory
    BY NextInd DEF FrozenInv, IndInv, TypeOK, CursorOnScreen, ScrollClamped,
                   Good, Sound, Writers
  <1>2. /\ Rows \in Nat /\ Rows >= 1 /\ Page \in Nat
        /\ LiveRows \in Nat /\ LiveRows >= Rows
    BY FramebufferAssumption DEF Page
  <1> SUFFICES EndOf(w'.ring, log') /\ FrozenOnHistory'
    BY <1>1 DEF FrozenInv, EndOf
  <1>3. ASSUME NEW l, l = log \/ l = Append(log, w.line), w.back > 0, w.screen # Dark
        PROVE  /\ top \in 1..(Len(l) - Rows + 1)
               /\ \A r \in 0..(Rows - 1) : w.screen[r] = Drawn(l[top + r])
    <2>1. /\ top \in 1..(Len(log) - Rows + 1)
          /\ \A r \in 0..(Rows - 1) : w.screen[r] = Drawn(log[top + r])
      BY <1>1, <1>3 DEF FrozenOnHistory
    <2>2. /\ Len(log) <= Len(l) /\ Len(l) \in Nat
          /\ \A i \in 1..Len(log) : l[i] = log[i]
      <3>1. CASE l = log
        BY <1>1, <3>1
      <3>2. CASE l = Append(log, w.line)
        BY <1>1, <3>2
      <3> QED BY <1>3, <3>1, <3>2
    <2>3. \A r \in 0..(Rows - 1) : top + r \in 1..Len(log)
      <3>1. Rows \in Nat /\ Len(log) \in Nat /\ top \in Int
        BY <1>1, <1>2
      <3>2. top >= 1 /\ top <= Len(log) - Rows + 1
        BY <2>1, <3>1
      <3> QED BY <3>1, <3>2
    <2>4. top \in 1..(Len(l) - Rows + 1)
      BY <1>1, <1>2, <2>1, <2>2
    <2> QED BY <2>1, <2>2, <2>3, <2>4
  <1>4. ASSUME NEW c \in Chars \cup Controls, Write(c)
        PROVE  EndOf(w'.ring, log') /\ FrozenOnHistory'
    <2>1. c \in Chars \cup {"LF", "CR"}
      BY FramebufferAssumption
    <2>2. /\ w' = WriteChar(w, c) /\ top' = top
          /\ log' = IF Closes(c) THEN Append(log, w.line) ELSE log
      BY <1>4 DEF Write
    <2>3. /\ w'.back = w.back
          /\ w'.ring = IF Closes(c) THEN PushCurrentToRing(w).ring ELSE w.ring
          /\ w.back # 0 => w'.screen = w.screen
      BY <1>1, <2>1, <2>2, WriteCharGood DEF Closes
    <2>4. EndOf(w'.ring, log')
      <3>1. EndOf(PushCurrentToRing(w).ring, Append(log, w.line))
        BY <1>1, PushEndOf
      <3> QED BY <1>1, <2>2, <2>3, <3>1
    <2>5. FrozenOnHistory'
      <3> SUFFICES ASSUME w.back > 0, w.screen # Dark
                   PROVE  /\ top \in 1..(Len(log') - Rows + 1)
                          /\ \A r \in 0..(Rows - 1) : w.screen[r] = Drawn(log'[top + r])
        <4>1. w'.back = w.back /\ top' = top /\ (w.back > 0 => w'.screen = w.screen)
          BY <1>1, <2>2, <2>3
        <4> QED BY <4>1 DEF FrozenOnHistory
      <3> QED BY <1>3, <2>2
    <2> QED BY <2>4, <2>5
  <1>5. CASE Clear
    <2> DEFINE u == WriteChar(w, "LF")
    <2>1. w' = ClearView(u) /\ log' = Append(log, w.line)
      BY <1>5 DEF Clear
    <2>2. Good(u) /\ u.ring = PushCurrentToRing(w).ring
      BY <1>1, WriteCharGood
    <2> HIDE DEF u
    <2>3. w'.ring = u.ring /\ w'.screen = Dark
      BY <2>1, <2>2 DEF ClearView, Good, Sound, Writers
    <2>4. EndOf(PushCurrentToRing(w).ring, Append(log, w.line))
      BY <1>1, PushEndOf
    <2> QED BY <2>1, <2>2, <2>3, <2>4 DEF FrozenOnHistory
  <1>6. ASSUME NEW b \in Nat, b <= MaxBack(w), Moved(ScrollTo(w, b))
        PROVE  EndOf(w'.ring, log') /\ FrozenOnHistory'
    <2> DEFINE v == [w EXCEPT !.back = b]
    <2>1. /\ w' = IF b = w.back THEN w ELSE RedrawVisible(v, b)
          /\ log' = log
          /\ top' = IF w'.back = w.back THEN top ELSE Len(log) + 2 - Rows - w'.back
      BY <1>6 DEF Moved, ScrollTo
    <2>2. CASE b = w.back
      <3>1. w' = w /\ top' = top
        BY <2>1, <2>2
      <3> QED BY <1>1, <2>1, <3>1 DEF FrozenOnHistory
    <2>3. CASE b # w.back
      <3>1. /\ v \in Writers /\ v.ring = w.ring /\ v.back = b
            /\ v.line = w.line /\ v.col = w.col
        BY <1>1 DEF Writers
      <3> HIDE DEF v
      <3>2. Sound(v) /\ b <= MaxBack(v)
        BY <1>1, <1>6, <3>1 DEF Sound, MaxBack
      <3>3. w'.ring = w.ring /\ w'.back = b
        BY <2>1, <2>3, <3>1, <3>2, RedrawGood
      <3>4. CASE b > 0
        <4> DEFINE t == Len(log) + 2 - Rows - b
        <4>1. /\ t \in 1..(Len(log) - Rows + 1)
              /\ \A r \in 0..(Rows - 1) :
                   RedrawVisible(v, b).screen[r] = Drawn(log[t + r])
          BY <1>1, <3>1, <3>2, <3>4, RedrawShowsLog
        <4>2. top' = t /\ w' = RedrawVisible(v, b)
          BY <2>1, <2>3, <3>3
        <4> HIDE DEF t
        <4> QED BY <1>1, <2>1, <3>3, <4>1, <4>2 DEF FrozenOnHistory
      <3>5. CASE b = 0
        BY <1>1, <2>1, <3>3, <3>5 DEF FrozenOnHistory
      <3> QED BY <3>4, <3>5
    <2> QED BY <2>2, <2>3
  <1>7. MaxBack(w) \in Nat /\ w.back <= MaxBack(w)
    <2>1. Len(w.ring) \in Nat
      BY <1>1 DEF Writers
    <2> QED BY <1>1, <1>2, <2>1 DEF MaxBack, Monus, Good, Sound
  <1>8. CASE PageUp
    <2>1. AtMost(w.back + Page, MaxBack(w)) \in Nat
          /\ AtMost(w.back + Page, MaxBack(w)) <= MaxBack(w)
      BY <1>1, <1>2, <1>7 DEF AtMost
    <2> QED BY <1>6, <1>8, <2>1 DEF PageUp, ScrollUp
  <1>9. CASE PageDown
    <2>1. Monus(w.back, Page) \in Nat /\ Monus(w.back, Page) <= MaxBack(w)
      BY <1>1, <1>2, <1>7 DEF Monus
    <2> QED BY <1>6, <1>9, <2>1 DEF PageDown, ScrollDown
  <1>10. CASE EndKey
    BY <1>6, <1>7, <1>10 DEF EndKey, ScrollEnd
  <1>11. CASE UNCHANGED vars
    BY <1>1, <1>11 DEF vars, FrozenOnHistory
  <1> QED BY <1>4, <1>5, <1>8, <1>9, <1>10, <1>11 DEF Next

\* A view scrolled back shows the same lines of the output until it is moved
\* or cleared, although write_char goes on filling the ring, which may by then
\* have dropped them.
THEOREM FrozenViewKeepsHistory == Spec => []FrozenOnHistory
  <1>1. Init => FrozenInv
    <2> SUFFICES ASSUME Init PROVE FrozenInv
      OBVIOUS
    <2>1. IndInv
      BY InitInd
    <2>2. w.ring = <<>> /\ log = <<>> /\ w.back = 0
      BY DEF Init
    <2> QED BY <2>1, <2>2 DEF FrozenInv, FrozenOnHistory, EndOf
  <1>2. FrozenInv => FrozenOnHistory
    BY DEF FrozenInv
  <1> QED BY <1>1, <1>2, FrozenStep, PTL DEF Spec
-----------------------------------------------------------------------------
(* The live tail.  Without carriage returns and with lines that fit the    *)
(* width, the screen of a live view is a function of the ring: incremental *)
(* drawing by write_char and newline agrees with redraw_visible.           *)

\* RowsAreLines, of any writer.
Shows(v) ==
    /\ v.col = Len(v.line)
    /\ \A r \in 0..(LiveRows - 1) :
         LET i == Len(v.ring) + 1 - (v.row - r)
         IN  IF r <= v.row THEN i >= 1 /\ v.screen[r] = Drawn(Lines(v)[i])
                           ELSE v.screen[r] = Dark[r]

RowsInv == IndInv /\ (w.back = 0 => Shows(w))

\* redraw_visible at the tail draws what incremental drawing would have.
LEMMA RedrawShows ==
    ASSUME NEW v, Sound(v), Len(v.line) <= Cols
    PROVE  /\ Shows(RedrawVisible(v, 0))
           /\ RedrawVisible(v, 0).row = AtMost(Len(v.ring) + 1, Rows) - 1
           /\ RedrawVisible(v, 0).col = Len(v.line)
  <1> DEFINE u == RedrawVisible(v, 0)
             n == Len(v.ring)
             last  == n + 1 - AtMost(0, MaxBack(v))
             first == Monus(last, Rows)
  <1>1. /\ v \in Writers /\ v.ring \in Seq(Seq(Chars)) /\ v.line \in Seq(Chars)
        /\ n \in Nat
    BY DEF Sound, Writers
  <1>2. /\ Rows \in Nat /\ Rows >= 1 /\ LiveRows \in Nat /\ LiveRows >= Rows
        /\ Cols \in Nat
    BY FramebufferAssumption
  <1>3. last = n + 1
    <2>1. MaxBack(v) \in Nat
      BY <1>1, <1>2 DEF MaxBack, Monus
    <2> QED BY <1>1, <2>1 DEF AtMost
  <1>4. /\ u.ring = v.ring /\ u.line = v.line
        /\ u.screen = [r \in 0..(LiveRows - 1) |->
              IF r < last - first THEN Drawn(Lines(v)[first + r + 1]) ELSE Dark[r]]
        /\ u.row = Monus(last - first, 1)
        /\ u.col = AtMost(Len(Lines(v)[last]), Cols)
    BY <1>1 DEF RedrawVisible, Writers
  <1>5. /\ first \in Nat /\ last - first = AtMost(n + 1, Rows)
        /\ last - first \in Nat /\ last - first >= 1 /\ last - first <= Rows
    BY <1>1, <1>2, <1>3 DEF Monus, AtMost
  <1>6. u.row = last - first - 1
    BY <1>4, <1>5 DEF Monus
  <1>7. u.col = Len(v.line)
    <2>1. Lines(v)[n + 1] = v.line
      BY <1>1 DEF Lines
    <2> QED BY <1>1, <1>2, <1>3, <1>4, <2>1 DEF AtMost
  <1>8. Lines(u) = Lines(v)
    BY <1>4 DEF Lines
  <1> HIDE DEF u, last, first, n
  <1>9. ASSUME NEW r \in 0..(LiveRows - 1)
        PROVE  LET i == Len(u.ring) + 1 - (u.row - r)
               IN  IF r <= u.row THEN i >= 1 /\ u.screen[r] = Drawn(Lines(u)[i])
                                 ELSE u.screen[r] = Dark[r]
    <2>1. Len(u.ring) = n
      BY <1>4 DEF n
    <2>2. CASE r <= u.row
      <3>1. r < last - first /\ n + 1 - (u.row - r) = first + r + 1
        BY <1>1, <1>3, <1>5, <1>6, <2>2
      <3>2. u.screen[r] = Drawn(Lines(u)[first + r + 1])
        BY <1>4, <1>8, <3>1
      <3>3. first + r + 1 >= 1
        BY <1>5
      <3> QED BY <2>1, <2>2, <3>1, <3>2, <3>3
    <2>3. CASE ~(r <= u.row)
      <3>1. ~(r < last - first)
        BY <1>5, <1>6, <2>3
      <3> QED BY <1>4, <2>3, <3>1
    <2> QED BY <2>2, <2>3
  <1>10. Shows(u)
    BY <1>4, <1>7, <1>9 DEF Shows
  <1> QED BY <1>5, <1>6, <1>7, <1>10 DEF u, n

\* A row that shows the empty line is blank.
LEMMA EmptyLineIsDark ==
    ASSUME NEW r \in 0..(LiveRows - 1)
    PROVE  Drawn(<<>>) = Dark[r]
  BY FramebufferAssumption DEF Drawn, Dark

\* push_current_to_ring counts from the end: the j-th line from the end of
\* ring ++ [current_line] is still there, as a line of the ring alone.
LEMMA PushFromEnd ==
    ASSUME NEW v, Sound(v), NEW j \in Nat, j <= Len(v.ring), j < ScrollbackLines
    PROVE  LET p == PushCurrentToRing(v)
           IN  /\ Len(p.ring) - j \in 1..Len(p.ring)
               /\ Lines(p)[Len(p.ring) - j] = Lines(v)[Len(v.ring) + 1 - j]
  <1> DEFINE kept == IF Len(v.ring) = ScrollbackLines THEN Tail(v.ring) ELSE v.ring
             p    == PushCurrentToRing(v)
             n    == Len(v.ring)
             k    == Len(kept)
  <1>1. /\ v \in Writers /\ v.ring \in Seq(Seq(Chars)) /\ v.line \in Seq(Chars)
        /\ n \in Nat /\ n <= ScrollbackLines
    BY DEF Sound, Writers
  <1>2. ScrollbackLines \in Nat /\ ScrollbackLines >= 1
    BY FramebufferAssumption
  <1>3. p.ring = Append(kept, v.line) /\ p.line = <<>>
    BY <1>1 DEF PushCurrentToRing, Writers
  <1>4. /\ kept \in Seq(Seq(Chars)) /\ k \in Nat /\ k <= n /\ j <= k
        /\ \A i \in 1..k : kept[i] = v.ring[n - k + i]
    <2>1. CASE n = ScrollbackLines
      <3>1. v.ring # <<>>
        BY <2>1, <1>2
      <3>2. /\ kept \in Seq(Seq(Chars)) /\ k = n - 1
            /\ \A i \in 1..k : kept[i] = v.ring[i + 1]
        <4>1. kept = Tail(v.ring)
          BY <2>1
        <4>2. k = Len(kept)
          OBVIOUS
        <4> HIDE DEF kept, k
        <4> QED BY <3>1, <4>1, <4>2, <1>1
      <3> HIDE DEF kept, k
      <3>3. \A i \in 1..k : n - k + i = i + 1
        BY <1>1, <3>2
      <3> QED BY <1>1, <1>2, <2>1, <3>2, <3>3
    <2>2. CASE n # ScrollbackLines
      <3>1. kept = v.ring
        BY <2>2
      <3> HIDE DEF kept
      <3> QED BY <3>1, <1>1
    <2> QED BY <2>1, <2>2
  <1> HIDE DEF kept
  <1>5. /\ p.ring \in Seq(Seq(Chars)) /\ Len(p.ring) = k + 1
        /\ \A i \in 1..k : p.ring[i] = kept[i]
        /\ p.ring[k + 1] = v.line
    BY <1>1, <1>3, <1>4
  <1>6. /\ \A i \in 1..(k + 1) : Lines(p)[i] = p.ring[i]
        /\ \A i \in 1..n : Lines(v)[i] = v.ring[i]
        /\ Lines(v)[n + 1] = v.line
    <2>1. \A i \in 1..(k + 1) : Lines(p)[i] = p.ring[i]
      BY <1>3, <1>5 DEF Lines
    <2>2. \A i \in 1..n : Lines(v)[i] = v.ring[i]
      BY <1>1 DEF Lines
    <2>3. Lines(v)[n + 1] = v.line
      BY <1>1 DEF Lines
    <2> QED BY <2>1, <2>2, <2>3
  <1> HIDE DEF p, n, k
  <1>7. Len(p.ring) - j = k + 1 - j /\ k + 1 - j \in 1..(k + 1)
    BY <1>4, <1>5
  <1>8. Lines(p)[k + 1 - j] = Lines(v)[n + 1 - j]
    <2>1. CASE j = 0
      BY <1>1, <1>4, <1>5, <1>6, <2>1
    <2>2. CASE j # 0
      <3>1. /\ k + 1 - j \in 1..k /\ n + 1 - j \in 1..n
            /\ n - k + (k + 1 - j) = n + 1 - j
        BY <1>1, <1>4, <2>2
      <3> QED BY <1>4, <1>5, <1>6, <1>7, <3>1
    <2> QED BY <2>1, <2>2
  <1> QED BY <1>5, <1>7, <1>8 DEF p, n
\* newline on a live view: the rows stay where they are and the cursor goes
\* down one, or the tail is redrawn.
LEMMA NewlineShows ==
    ASSUME NEW v, Good(v), v.back = 0, Shows(v)
    PROVE  Shows(Newline(v))
  <1> DEFINE p == PushCurrentToRing(v)
             d == [p EXCEPT !.row = @ + 1, !.col = 0]
             s == RedrawVisible(d, 0)
             e == [s EXCEPT !.row = Rows - 1, !.col = 0]
             n == Len(v.ring)
  <1>1. /\ Sound(v) /\ v.row \in Nat /\ v.row < LiveRows /\ n \in Nat
        /\ v.screen \in Screens
    BY DEF Good, Sound, Writers
  <1>2. /\ Rows \in Nat /\ Rows >= 1 /\ LiveRows \in Nat /\ LiveRows >= Rows
        /\ LiveRows <= Rows + 1 /\ Cols \in Nat
        /\ ScrollbackLines \in Nat /\ Rows <= ScrollbackLines
    BY FramebufferAssumption
  <1>3. /\ Sound(p) /\ p.line = <<>> /\ p.row = v.row /\ p.back = 0
        /\ p.screen = v.screen
    BY <1>1, PushGood
  <1>4. v.row <= n
    <2>1. 0 \in 0..(LiveRows - 1)
      BY <1>1, <1>2
    <2>2. 0 <= v.row => n + 1 - (v.row - 0) >= 1
      BY <2>1 DEF Shows
    <2> QED BY <1>1, <2>2
  <1>5. ASSUME NEW j \in Nat, j <= n, j < ScrollbackLines
        PROVE  /\ Len(p.ring) - j \in 1..Len(p.ring)
               /\ Lines(p)[Len(p.ring) - j] = Lines(v)[n + 1 - j]
    BY <1>1, <1>5, PushFromEnd
  <1>6. Newline(v) = IF d.row >= LiveRows THEN e ELSE d
    BY <1>3 DEF Newline, AdvanceVisualRow
  <1> HIDE DEF p, n
  <1>7. /\ d \in Writers /\ d.ring = p.ring /\ d.line = <<>> /\ d.row = v.row + 1
        /\ d.col = 0 /\ d.screen = v.screen /\ d.back = 0
    <2>1. p \in Writers
      BY <1>3 DEF Sound
    <2>2. p.row + 1 \in Nat
      BY <1>1, <1>3
    <2> QED BY <1>3, <2>1, <2>2 DEF Writers
  <1>8. p.ring \in Seq(Seq(Chars)) /\ Len(p.ring) \in Nat
    BY <1>3 DEF Sound, Writers
  <1> HIDE DEF d
  <1>9. Lines(d) = Lines(p)
    BY <1>3, <1>7 DEF Lines
  <1>10. CASE d.row >= LiveRows
    <2>1. Sound(d) /\ Len(d.line) = 0 /\ Len(d.line) <= Cols
      BY <1>2, <1>3, <1>7 DEF Sound, MaxBack
    <2>2. /\ Shows(s) /\ s.row = AtMost(Len(d.ring) + 1, Rows) - 1 /\ s.col = 0
      BY <2>1, RedrawShows
    <2>3. s \in Writers
      BY <2>1, RedrawGood DEF Good, Sound
    <2> HIDE DEF s
    <2>4. Rows - 1 < ScrollbackLines /\ Rows - 1 <= n /\ Rows - 1 \in Nat
      BY <1>1, <1>2, <1>4, <1>7, <1>10
    <2>5. Len(p.ring) - (Rows - 1) >= 1
      BY <1>2, <1>5, <2>4
    <2>6. s.row = Rows - 1
      BY <1>2, <1>7, <1>8, <2>2, <2>5 DEF AtMost
    <2>7. e = s
      BY <2>2, <2>3, <2>6 DEF Writers
    <2> QED BY <1>6, <1>10, <2>2, <2>7
  <1>11. CASE ~(d.row >= LiveRows)
    <2>1. ASSUME NEW r \in 0..(LiveRows - 1)
          PROVE  LET i == Len(d.ring) + 1 - (d.row - r)
                 IN  IF r <= d.row THEN i >= 1 /\ d.screen[r] = Drawn(Lines(d)[i])
                                   ELSE d.screen[r] = Dark[r]
      <3>1. CASE r <= v.row
        <4> DEFINE j == v.row - r
        <4>1. j \in Nat /\ j <= n /\ j < ScrollbackLines
          BY <1>1, <1>2, <1>4, <1>7, <1>11, <3>1
        <4>2. d.screen[r] = Drawn(Lines(v)[n + 1 - j])
          BY <1>7, <3>1 DEF Shows, n
        <4>3. Len(p.ring) + 1 - (d.row - r) = Len(p.ring) - j /\ r <= d.row
          BY <1>1, <1>7, <1>8, <3>1
        <4> HIDE DEF j
        <4>4. /\ Len(p.ring) - j \in 1..Len(p.ring)
              /\ Lines(p)[Len(p.ring) - j] = Lines(v)[n + 1 - j]
          BY <1>5, <4>1
        <4> QED BY <1>7, <1>8, <1>9, <4>2, <4>3, <4>4
      <3>2. CASE r = d.row
        <4>1. r > v.row /\ ~(r <= v.row) /\ d.row - r = 0
          BY <1>1, <1>7, <3>2
        <4>2. d.screen[r] = Dark[r]
          BY <1>7, <4>1 DEF Shows
        <4>3. Lines(p)[Len(p.ring) + 1] = <<>>
          BY <1>3, <1>8 DEF Lines
        <4>4. Len(p.ring) + 1 - (d.row - r) = Len(p.ring) + 1
          BY <1>8, <4>1
        <4>5. d.screen[r] = Drawn(<<>>)
          BY <4>2, EmptyLineIsDark
        <4> QED BY <1>7, <1>8, <1>9, <3>2, <4>3, <4>4, <4>5
      <3>3. CASE r > d.row
        <4>1. ~(r <= v.row) /\ ~(r <= d.row)
          BY <1>1, <1>7, <3>3
        <4> QED BY <1>7, <4>1 DEF Shows
      <3> QED BY <1>1, <1>7, <3>1, <3>2, <3>3
    <2> QED BY <1>6, <1>7, <1>11, <2>1 DEF Shows
  <1> QED BY <1>10, <1>11

\* A glyph drawn behind current_line is the next character of that line.
LEMMA CharShows ==
    ASSUME NEW v, Good(v), v.back = 0, Shows(v), NEW c \in Chars,
           Len(v.line) < MaxLineLen, MaxLineLen <= Cols
    PROVE  Shows([Draw(v, c) EXCEPT !.line = Append(@, c)])
  <1> DEFINE n == Len(v.line)
             e == [Draw(v, c) EXCEPT !.line = Append(@, c)]
  <1>1. /\ v \in Writers /\ v.row \in 0..(LiveRows - 1) /\ v.screen \in Screens
        /\ v.line \in Seq(Chars) /\ n \in Nat /\ v.col = n
        /\ v.ring \in Seq(Seq(Chars)) /\ Len(v.ring) \in Nat
    BY FramebufferAssumption DEF Good, Sound, Writers, Shows
  <1>2. Cols \in Nat /\ MaxLineLen \in Nat /\ LiveRows \in Nat /\ n < Cols /\ n \in 0..(Cols - 1)
    BY <1>1, FramebufferAssumption
  <1>3. Draw(v, c) = [v EXCEPT !.screen[v.row][v.col] = c, !.col = @ + 1]
    <2>1. ~(v.col >= Cols)
      BY <1>1, <1>2
    <2> QED BY <2>1 DEF Draw
  <1>4. /\ e.ring = v.ring /\ e.line = Append(v.line, c) /\ e.row = v.row
        /\ e.col = n + 1 /\ e.screen = [v.screen EXCEPT ![v.row][n] = c]
    BY <1>1, <1>3 DEF Writers
  <1> HIDE DEF e
  <1>5. Len(e.line) = n + 1 /\ e.line \in Seq(Chars)
        /\ e.line[n + 1] = c /\ \A i \in 1..n : e.line[i] = v.line[i]
    BY <1>1, <1>4
  <1>6. /\ \A i \in 1..Len(v.ring) : Lines(e)[i] = Lines(v)[i]
        /\ Lines(e)[Len(v.ring) + 1] = e.line
        /\ Lines(v)[Len(v.ring) + 1] = v.line
    BY <1>1, <1>4, <1>5 DEF Lines
  <1>7. e.screen[v.row] = Drawn(e.line)
    <2>1. v.screen[v.row] = Drawn(v.line)
      <3>1. Len(v.ring) + 1 - (v.row - v.row) = Len(v.ring) + 1
        BY <1>1
      <3>2. v.screen[v.row] = Drawn(Lines(v)[Len(v.ring) + 1 - (v.row - v.row)])
        <4>1. v.row <= v.row
          BY <1>1
        <4> QED BY <1>1, <4>1 DEF Shows
      <3> QED BY <1>6, <3>1, <3>2
    <2>2. e.screen[v.row] = [v.screen[v.row] EXCEPT ![n] = c]
      BY <1>1, <1>4 DEF Screens
    <2>3. ASSUME NEW x \in 0..(Cols - 1)
          PROVE  [Drawn(v.line) EXCEPT ![n] = c][x] = Drawn(e.line)[x]
      <3>1. CASE x = n
        BY <1>1, <1>2, <1>5, <3>1 DEF Drawn
      <3>2. CASE x # n
        <4>1. x < n + 1 <=> x < n
          BY <1>1, <3>2
        <4>2. x < n => x + 1 \in 1..n
          BY <1>1
        <4> QED BY <1>1, <1>2, <1>5, <3>2, <4>1, <4>2 DEF Drawn
      <3> QED BY <3>1, <3>2
    <2>4. [Drawn(v.line) EXCEPT ![n] = c] = Drawn(e.line)
      BY <2>3 DEF Drawn
    <2> QED BY <2>1, <2>2, <2>4
  <1>8. ASSUME NEW r \in 0..(LiveRows - 1)
        PROVE  LET i == Len(e.ring) + 1 - (e.row - r)
               IN  IF r <= e.row THEN i >= 1 /\ e.screen[r] = Drawn(Lines(e)[i])
                                 ELSE e.screen[r] = Dark[r]
    <2>1. CASE r = v.row
      <3>1. /\ Len(v.ring) + 1 - (v.row - r) = Len(v.ring) + 1
            /\ Len(v.ring) + 1 >= 1 /\ r <= v.row
        BY <1>1, <2>1
      <3>2. e.screen[r] = Drawn(Lines(e)[Len(v.ring) + 1])
        BY <1>6, <1>7, <2>1
      <3> QED BY <1>4, <3>1, <3>2
    <2>2. CASE r # v.row
      <3>1. e.screen[r] = v.screen[r]
        BY <1>1, <1>4, <2>2 DEF Screens
      <3>2. CASE r <= v.row
        <4> DEFINE i == Len(v.ring) + 1 - (v.row - r)
        <4>1. i >= 1 /\ v.screen[r] = Drawn(Lines(v)[i])
          BY <3>2 DEF Shows
        <4>2. i \in 1..Len(v.ring)
          BY <1>1, <2>2, <3>2, <4>1
        <4> HIDE DEF i
        <4>3. Lines(e)[i] = Lines(v)[i]
          BY <1>6, <4>2
        <4> QED BY <1>4, <3>1, <3>2, <4>1, <4>3 DEF i
      <3>3. CASE ~(r <= v.row)
        BY <1>4, <3>1, <3>3 DEF Shows
      <3> QED BY <3>2, <3>3
    <2> QED BY <2>1, <2>2
  <1>9. Shows(e)
    BY <1>4, <1>5, <1>8 DEF Shows
  <1> QED BY <1>9 DEF e

\* Every step of the writer leaves a live screen that shows its lines.
LEMMA RowsStep ==
    ASSUME "CR" \notin Controls, MaxLineLen <= Cols
    PROVE  RowsInv /\ [Next]_vars => RowsInv'
  <1> SUFFICES ASSUME RowsInv, [Next]_vars PROVE RowsInv'
    OBVIOUS
  <1>1. /\ IndInv /\ IndInv' /\ Good(w) /\ w \in Writers /\ w.back \in Nat
        /\ w.line \in Seq(Chars) /\ (w.back = 0 => Shows(w))
    BY NextInd DEF RowsInv, IndInv, TypeOK, CursorOnScreen, ScrollClamped,
                   Good, Sound, Writers
  <1>2. /\ Rows \in Nat /\ Rows >= 1 /\ Page \in Nat
        /\ LiveRows \in Nat /\ LiveRows >= Rows
        /\ MaxLineLen \in Nat /\ MaxLineLen >= 1 /\ Cols \in Nat
    BY FramebufferAssumption DEF Page
  <1> SUFFICES ASSUME w'.back = 0 PROVE Shows(w')
    BY <1>1 DEF RowsInv, Shows, Lines
  <1>3. ASSUME NEW c \in Chars \cup Controls, Write(c)
        PROVE  Shows(w')
    <2>1. c \in Chars \cup {"LF"} /\ c \in Chars \cup {"LF", "CR"}
      BY FramebufferAssumption
    <2>2. w' = WriteChar(w, c)
      BY <1>3 DEF Write
    <2>3. w.back = 0 /\ Shows(w)
      BY <1>1, <2>1, <2>2, WriteCharGood
    <2>4. CASE c = "LF"
      BY <1>1, <2>2, <2>3, <2>4, NewlineShows DEF WriteChar
    <2>5. CASE c \in Chars
      <3> DEFINE d == IF Len(w.line) >= MaxLineLen THEN Newline(w) ELSE w
      <3>1. w' = [Draw(d, c) EXCEPT !.line = Append(@, c)]
        BY <2>2, <2>5, FramebufferAssumption DEF WriteChar
      <3>2. Good(d) /\ d.back = 0 /\ Shows(d) /\ Len(d.line) < MaxLineLen
        <4>1. CASE Len(w.line) >= MaxLineLen
          BY <1>1, <1>2, <2>3, <4>1, NewlineGood, NewlineShows
        <4>2. CASE ~(Len(w.line) >= MaxLineLen)
          <5>1. Len(w.line) < MaxLineLen
            BY <1>1, <1>2, <4>2
          <5> QED BY <1>1, <2>3, <4>2, <5>1
        <4> QED BY <4>1, <4>2
      <3> HIDE DEF d
      <3>3. Shows([Draw(d, c) EXCEPT !.line = Append(@, c)])
        BY <2>5, <3>2, CharShows
      <3> QED BY <3>1, <3>3
    <2> QED BY <2>1, <2>4, <2>5
  <1>4. CASE Clear
    <2> DEFINE u == WriteChar(w, "LF")
    <2>1. w' = ClearView(u)
      BY <1>4 DEF Clear
    <2>2. Good(u) /\ u.line = <<>>
      BY <1>1, WriteCharGood, NewlineGood DEF WriteChar
    <2> HIDE DEF u
    <2>3. /\ w'.ring = u.ring /\ w'.line = <<>> /\ w'.row = 0 /\ w'.col = 0
          /\ w'.screen = Dark /\ u.ring \in Seq(Seq(Chars)) /\ Len(u.ring) \in Nat
      BY <2>1, <2>2 DEF ClearView, Good, Sound, Writers
    <2>4. Lines(w')[Len(u.ring) + 1] = <<>>
      BY <2>3 DEF Lines
    <2>5. ASSUME NEW r \in 0..(LiveRows - 1)
          PROVE  LET i == Len(w'.ring) + 1 - (w'.row - r)
                 IN  IF r <= w'.row THEN i >= 1 /\ w'.screen[r] = Drawn(Lines(w')[i])
                                    ELSE w'.screen[r] = Dark[r]
      <3>1. CASE r = 0
        <4>1. Len(w'.ring) + 1 - (w'.row - r) = Len(u.ring) + 1 /\ Len(u.ring) + 1 >= 1
          BY <2>3, <3>1
        <4>2. Drawn(<<>>) = Dark[r]
          BY EmptyLineIsDark
        <4> QED BY <2>3, <2>4, <3>1, <4>1, <4>2
      <3>2. CASE r # 0
        <4>1. ~(r <= w'.row)
          <5>1. LiveRows \in Nat /\ w'.row = 0
            BY <2>3, FramebufferAssumption
          <5> QED BY <3>2, <5>1
        <4>2. w'.screen[r] = Dark[r]
          BY <2>3
        <4> QED BY <4>1, <4>2
      <3> QED BY <3>1, <3>2
    <2> QED BY <2>3, <2>5 DEF Shows
  <1>5. ASSUME NEW b \in Nat, b <= MaxBack(w), Moved(ScrollTo(w, b))
        PROVE  Shows(w')
    <2> DEFINE v == [w EXCEPT !.back = b]
    <2>1. w' = IF b = w.back THEN w ELSE RedrawVisible(v, b)
      BY <1>5 DEF Moved, ScrollTo
    <2>2. CASE b = w.back
      BY <1>1, <2>1, <2>2
    <2>3. CASE b # w.back
      <3>1. /\ v \in Writers /\ v.ring = w.ring /\ v.back = b
            /\ v.line = w.line /\ v.col = w.col
        BY <1>1 DEF Writers
      <3> HIDE DEF v
      <3>2. Sound(v) /\ Len(v.line) <= Cols
        BY <1>1, <1>2, <1>5, <3>1 DEF Good, Sound, MaxBack
      <3>3. b = 0
        BY <2>1, <2>3, <3>1, <3>2, RedrawGood
      <3> QED BY <2>1, <2>3, <3>2, <3>3, RedrawShows
    <2> QED BY <2>2, <2>3
  <1>6. MaxBack(w) \in Nat /\ w.back <= MaxBack(w)
    <2>1. Len(w.ring) \in Nat
      BY <1>1 DEF Writers
    <2> QED BY <1>1, <1>2, <2>1 DEF MaxBack, Monus, Good, Sound
  <1>7. CASE PageUp
    <2>1. AtMost(w.back + Page, MaxBack(w)) \in Nat
          /\ AtMost(w.back + Page, MaxBack(w)) <= MaxBack(w)
      BY <1>1, <1>2, <1>6 DEF AtMost
    <2> QED BY <1>5, <1>7, <2>1 DEF PageUp, ScrollUp
  <1>8. CASE PageDown
    <2>1. Monus(w.back, Page) \in Nat /\ Monus(w.back, Page) <= MaxBack(w)
      BY <1>1, <1>2, <1>6 DEF Monus
    <2> QED BY <1>5, <1>8, <2>1 DEF PageDown, ScrollDown
  <1>9. CASE EndKey
    BY <1>5, <1>6, <1>9 DEF EndKey, ScrollEnd
  <1>10. CASE UNCHANGED vars
    BY <1>1, <1>10 DEF vars
  <1> QED BY <1>3, <1>4, <1>7, <1>8, <1>9, <1>10 DEF Next

\* When no carriage return is written and a full line fits the width, the live
\* screen shows current_line at the cursor and the newest lines above it, for
\* every height, with or without the extra live row: drawing glyph by glyph and
\* redraw_visible never disagree.
THEOREM LiveViewShowsTail ==
    ASSUME "CR" \notin Controls, MaxLineLen <= Cols
    PROVE  Spec => []RowsAreLines
  <1>1. Init => RowsInv
    <2> SUFFICES ASSUME Init PROVE RowsInv
      OBVIOUS
    <2>1. IndInv
      BY InitInd
    <2>2. /\ w.ring = <<>> /\ w.line = <<>> /\ w.row = 0 /\ w.col = 0
          /\ w.screen = Dark
      BY DEF Init
    <2>3. Lines(w)[1] = <<>>
      BY <2>2 DEF Lines
    <2>4. ASSUME NEW r \in 0..(LiveRows - 1)
          PROVE  LET i == Len(w.ring) + 1 - (w.row - r)
                 IN  IF r <= w.row THEN i >= 1 /\ w.screen[r] = Drawn(Lines(w)[i])
                                   ELSE w.screen[r] = Dark[r]
      <3>1. CASE r = 0
        <4>1. Len(w.ring) + 1 - (w.row - r) = 1
          BY <2>2, <3>1
        <4> QED BY <2>2, <2>3, <3>1, <4>1, EmptyLineIsDark
      <3>2. CASE r # 0
        BY <2>2, <3>2
      <3> QED BY <3>1, <3>2
    <2> QED BY <2>1, <2>2, <2>4 DEF RowsInv, Shows
  <1>2. RowsInv => RowsAreLines
    BY DEF RowsInv, RowsAreLines, Shows
  <1>3. RowsInv /\ [Next]_vars => RowsInv'
    BY RowsStep
  <1> QED BY <1>1, <1>2, <1>3, PTL DEF Spec
-----------------------------------------------------------------------------
(* The ring as a record of the output.  Joining the lines of a ring is a   *)
(* loop; what a loop makes of a ring with a line more at the end, or one   *)
(* less at the front, follows from Induction.                              *)

\* The first n lines of s, joined.
FlatTo(s, n) ==
    LET flat[i \in 0..n] == IF i = 0 THEN <<>> ELSE flat[i - 1] \o s[i]
    IN  flat[n]
Flat(s) == FlatTo(s, Len(s))

\* g has what is joined after each round.
Joins(g, s, n) ==
    /\ g[0] = <<>>
    /\ \A i \in 0..n : g[i] \in Seq(Chars)
    /\ \A i \in 1..n : g[i] = g[i - 1] \o s[i]

\* Joining is associative.
LEMMA Joining ==
    \A x, y, z \in Seq(Chars) : (x \o y) \o z = x \o (y \o z)
  BY ConcatAssociative

\* FlatTo is the last value of the loop.
LEMMA FlatLoop ==
    ASSUME NEW s \in Seq(Seq(Chars)), NEW n \in 0..Len(s)
    PROVE  \E g : Joins(g, s, n) /\ FlatTo(s, n) = g[n]
  <1> DEFINE S    == Seq(Chars)
             step == [di \in S \X (1..n) |-> di[1] \o s[di[2]]]
             Body(f, i) == IF i = 0 THEN <<>> ELSE f[i - 1] \o s[i]
             v == CHOOSE f : f = [i \in 0..n |-> Body(f, i)]
  <1>1. n \in Nat /\ <<>> \in S /\ \A i \in 1..n : s[i] \in S
    BY ElementOfSeq
  <1>2. step \in [S \X (1..n) -> S]
    BY <1>1
  <1>3. PICK g \in [0..n -> S] :
            g[0] = <<>> /\ \A i \in 1..n : g[i] = step[<<g[i - 1], i>>]
    <2> HIDE DEF S, step
    <2>1. IsLoop(n, S, <<>>, step)
      BY <1>1, <1>2 DEF IsLoop
    <2>2. PICK g : Iterates(g, n, S, <<>>, step)
      BY <2>1, Iteration
    <2> QED BY <2>2 DEF Iterates
  <1>4. \A i \in 1..n : g[i] = g[i - 1] \o s[i]
    <2>1. \A i \in 1..n : i - 1 \in 0..n
      BY <1>1
    <2> HIDE DEF S
    <2> QED BY <1>3, <2>1
  <1> HIDE DEF S, step
  <1>5. g = [i \in 0..n |-> Body(g, i)]
    <2>1. ASSUME NEW i \in 0..n PROVE g[i] = Body(g, i)
      <3>1. CASE i = 0
        BY <1>3, <3>1
      <3>2. CASE i # 0
        <4>1. i \in 1..n
          BY <1>1, <3>2
        <4> QED BY <1>4, <3>2, <4>1
      <3> QED BY <3>1, <3>2
    <2> HIDE DEF Body
    <2> QED BY <1>3, <2>1
  <1>6. v = [i \in 0..n |-> Body(v, i)]
    <2> HIDE DEF Body
    <2> QED BY <1>5
  <1>7. FlatTo(s, n) = v[n]
    BY DEF FlatTo
  <1> HIDE DEF v
  <1>8. \A i \in 0..n : v[i] = g[i]
    <2>1. v[0] = g[0]
      BY <1>1, <1>3, <1>6
    <2>2. ASSUME NEW i \in 1..n, v[i - 1] = g[i - 1] PROVE v[i] = g[i]
      <3>1. i \in 0..n /\ i # 0
        BY <1>1
      <3>2. v[i] = v[i - 1] \o s[i]
        BY <1>6, <3>1
      <3> QED BY <1>4, <2>2, <3>2
    <2>3. SameRounds(v, g, n)
      BY <1>1, <2>1, <2>2 DEF SameRounds
    <2>4. PICK f, h : f = v /\ h = g
      OBVIOUS
    <2>5. SameRounds(f, h, n)
      BY <2>3, <2>4
    <2>6. \A i \in 0..n : f[i] = h[i]
      BY <2>5, SameIteration
    <2> QED BY <2>4, <2>6
  <1>9. Joins(g, s, n)
    BY <1>3, <1>4 DEF Joins, S
  <1>10. n \in 0..n
    BY <1>1
  <1> QED BY <1>7, <1>8, <1>9, <1>10

\* Whoever joins the same lines gets the same.
LEMMA FlatUnique ==
    ASSUME NEW s \in Seq(Seq(Chars)), NEW n \in 0..Len(s), NEW g, Joins(g, s, n)
    PROVE  FlatTo(s, n) = g[n] /\ FlatTo(s, n) \in Seq(Chars)
  <1>1. PICK h : Joins(h, s, n) /\ FlatTo(s, n) = h[n]
    BY FlatLoop
  <1>2. SameRounds(h, g, n)
    <2>1. n \in Nat
      OBVIOUS
    <2> QED BY <1>1, <2>1 DEF SameRounds, Joins
  <1>3. \A i \in 0..n : h[i] = g[i]
    BY <1>2, SameIteration
  <1>4. n \in 0..n
    OBVIOUS
  <1> QED BY <1>1, <1>3, <1>4 DEF Joins

\* A line more at the end.
LEMMA FlatAppend ==
    ASSUME NEW s \in Seq(Seq(Chars)), NEW x \in Seq(Chars)
    PROVE  /\ Flat(Append(s, x)) = Flat(s) \o x
           /\ FlatTo(Append(s, x), Len(s) + 1) = Flat(s) \o x
           /\ Flat(s) \in Seq(Chars)
  <1> DEFINE u == Append(s, x)
             n == Len(s)
  <1>1. /\ u \in Seq(Seq(Chars)) /\ Len(u) = n + 1 /\ n \in Nat
        /\ \A i \in 1..n : u[i] = s[i]
        /\ u[n + 1] = x
    BY AppendProperties
  <1> HIDE DEF u, n
  <1>2. PICK g : Joins(g, u, n + 1) /\ FlatTo(u, n + 1) = g[n + 1]
    <2>1. n + 1 \in 0..Len(u)
      BY <1>1
    <2> QED BY <1>1, <2>1, FlatLoop
  <1>3. Joins(g, s, n)
    <2>1. /\ \A i \in 0..n : i \in 0..(n + 1)
          /\ \A i \in 1..n : i \in 1..(n + 1)
      BY <1>1
    <2> QED BY <1>1, <1>2, <2>1 DEF Joins
  <1>4. FlatTo(s, n) = g[n] /\ FlatTo(s, n) \in Seq(Chars)
    <2>1. n \in 0..Len(s)
      BY <1>1 DEF n
    <2> QED BY <1>3, <2>1, FlatUnique
  <1>5. g[n + 1] = g[n] \o x
    <2>1. n + 1 \in 1..(n + 1) /\ (n + 1) - 1 = n
      BY <1>1
    <2>2. g[n + 1] = g[(n + 1) - 1] \o u[n + 1]
      BY <1>2, <2>1 DEF Joins
    <2> QED BY <1>1, <2>1, <2>2
  <1>6. FlatTo(u, n + 1) = FlatTo(s, n) \o x
    BY <1>2, <1>4, <1>5
  <1>7. Flat(u) = FlatTo(u, n + 1) /\ Flat(s) = FlatTo(s, n)
    BY <1>1 DEF Flat, n
  <1> QED BY <1>4, <1>6, <1>7 DEF u, n

\* A line less at the front.
LEMMA FlatTail ==
    ASSUME NEW s \in Seq(Seq(Chars)), s # <<>>
    PROVE  /\ Flat(s) = Head(s) \o Flat(Tail(s))
           /\ Head(s) \in Seq(Chars) /\ Flat(Tail(s)) \in Seq(Chars)
  <1> DEFINE t == Tail(s)
             n == Len(t)
             a == Head(s)
             C == Seq(Chars)
  <1>1. /\ t \in Seq(Seq(Chars)) /\ Len(s) = n + 1 /\ n \in Nat
        /\ \A i \in 1..n : t[i] = s[i + 1]
        /\ a = s[1] /\ a \in C /\ \A i \in 1..n : t[i] \in C
    BY HeadTailProperties, ElementOfSeq
  <1> HIDE DEF t, n, a
  <1>2. PICK g : Joins(g, s, n + 1) /\ FlatTo(s, n + 1) = g[n + 1]
    <2>1. n + 1 \in 0..Len(s)
      BY <1>1
    <2> QED BY <2>1, FlatLoop
  <1>3. PICK h : Joins(h, t, n) /\ FlatTo(t, n) = h[n]
    <2>1. n \in 0..Len(t)
      BY <1>1 DEF n
    <2> QED BY <1>1, <2>1, FlatLoop
  <1> DEFINE P == {i \in 0..n : g[i + 1] = a \o h[i]}
  <1>4. 0 \in P
    <2>1. 1 \in 1..(n + 1) /\ 0 \in 0..n /\ 1 - 1 = 0 /\ 0 + 1 = 1
      BY <1>1
    <2>2. g[1] = g[1 - 1] \o s[1]
      BY <1>2, <2>1 DEF Joins
    <2>3. g[0] = <<>> /\ h[0] = <<>>
      BY <1>2, <1>3 DEF Joins
    <2>4. <<>> \o a = a /\ a \o <<>> = a
      BY <1>1, ConcatEmptySeq DEF C
    <2>5. g[1] = a \o h[0]
      BY <1>1, <2>1, <2>2, <2>3, <2>4
    <2> QED BY <2>1, <2>5
  <1>5. ASSUME NEW i \in 1..n, i - 1 \in P PROVE i \in P
    <2>1. i + 1 \in 1..(n + 1) /\ (i + 1) - 1 = i /\ (i - 1) + 1 = i /\ i - 1 \in 0..n
          /\ i \in 0..n
      BY <1>1
    <2>2. g[i] = a \o h[i - 1]
      BY <1>5, <2>1
    <2>3. g[i + 1] = g[i] \o t[i]
      <3>1. g[i + 1] = g[(i + 1) - 1] \o s[i + 1]
        BY <1>2, <2>1 DEF Joins
      <3> QED BY <1>1, <2>1, <3>1
    <2>4. h[i] = h[i - 1] \o t[i] /\ h[i - 1] \in C /\ t[i] \in C
      BY <1>1, <1>3, <2>1 DEF Joins
    <2>5. (a \o h[i - 1]) \o t[i] = a \o (h[i - 1] \o t[i])
      <3>1. a \in Seq(Chars) /\ h[i - 1] \in Seq(Chars) /\ t[i] \in Seq(Chars)
        BY <1>1, <2>4
      <3> QED BY <3>1, Joining
    <2>6. g[i + 1] = a \o h[i]
      BY <2>2, <2>3, <2>4, <2>5
    <2> QED BY <2>1, <2>6
  <1>6. n \in P
    <2> HIDE DEF P
    <2>1. \A i \in 0..n : i \in P
      BY <1>1, <1>4, <1>5, UpTo
    <2> QED BY <1>1, <2>1
  <1>7. g[n + 1] = a \o h[n] /\ h[n] \in C
    BY <1>1, <1>3, <1>6 DEF Joins
  <1>8. Flat(s) = FlatTo(s, n + 1) /\ Flat(t) = FlatTo(t, n)
    BY <1>1 DEF Flat, n
  <1> QED BY <1>1, <1>2, <1>3, <1>7, <1>8 DEF t, a

\* The output is what has left the ring, the ring and current_line, and
\* nothing has left it before it is full.
Kept(out, ring, line) ==
    \E gone \in Seq(Chars) :
        /\ out = gone \o (Flat(ring) \o line)
        /\ Len(ring) < ScrollbackLines => gone = <<>>

KeptInv == IndInv /\ Kept(text, w.ring, w.line)

\* push_current_to_ring: what the ring drops has left it, nothing else.
LEMMA PushKeeps ==
    ASSUME NEW v, Sound(v), NEW out, Kept(out, v.ring, v.line)
    PROVE  Kept(out, PushCurrentToRing(v).ring, <<>>)
  <1> DEFINE ring == v.ring
             line == v.line
             full == Len(ring) = ScrollbackLines
             kept == IF full THEN Tail(ring) ELSE ring
             new  == PushCurrentToRing(v).ring
             C    == Seq(Chars)
  <1>1. /\ ring \in Seq(Seq(Chars)) /\ line \in C /\ Len(ring) \in Nat
        /\ Len(ring) <= ScrollbackLines /\ v \in Writers
    BY DEF Sound, Writers
  <1>2. ScrollbackLines \in Nat /\ ScrollbackLines >= 1
    BY FramebufferAssumption
  <1>3. new = Append(kept, line)
    BY <1>1 DEF PushCurrentToRing, Writers
  <1>4. PICK gone \in C : /\ out = gone \o (Flat(ring) \o line)
                          /\ Len(ring) < ScrollbackLines => gone = <<>>
    BY DEF Kept
  <1> HIDE DEF ring, line, new, C
  <1>5. CASE ~full
    <2>1. Flat(new) = Flat(ring) \o line /\ Flat(new) \in C
      <3>1. Flat(Append(ring, line)) = Flat(ring) \o line /\ Flat(ring) \in C
        BY <1>1, FlatAppend DEF C
      <3>2. Flat(ring) \o line \in C
        BY <1>1, <3>1, ConcatProperties DEF C
      <3> QED BY <1>3, <1>5, <3>1, <3>2
    <2>2. Flat(new) \o <<>> = Flat(new)
      BY <2>1, ConcatEmptySeq DEF C
    <2>3. gone = <<>>
      BY <1>1, <1>2, <1>4, <1>5
    <2> QED BY <1>4, <2>1, <2>2, <2>3 DEF Kept, C, new
  <1>6. CASE full
    <2> DEFINE a == Head(ring)
               t == Tail(ring)
    <2>1. ring # <<>> /\ t \in Seq(Seq(Chars)) /\ Len(t) = Len(ring) - 1
      <3>1. ring # <<>>
        BY <1>2, <1>6
      <3> QED BY <1>1, <3>1, HeadTailProperties
    <2>2. Flat(ring) = a \o Flat(t) /\ a \in C /\ Flat(t) \in C
      BY <1>1, <2>1, FlatTail DEF C
    <2> HIDE DEF a
    <2>3. Flat(Append(t, line)) = Flat(t) \o line
      BY <1>1, <2>1, FlatAppend DEF C
    <2>4. new = Append(t, line) /\ Len(new) = ScrollbackLines
      <3>1. new = Append(t, line)
        BY <1>3, <1>6
      <3>2. Len(Append(t, line)) = Len(t) + 1
        BY <1>1, <2>1, AppendProperties DEF C
      <3> QED BY <1>1, <1>2, <1>6, <2>1, <3>1, <3>2
    <2> HIDE DEF t
    <2>5. Flat(t) \o line \in C /\ gone \o a \in C
      BY <1>1, <2>2, ConcatProperties DEF C
    <2>6. out = (gone \o a) \o (Flat(t) \o line)
      <3>1. (a \o Flat(t)) \o line = a \o (Flat(t) \o line)
        <4>1. a \in Seq(Chars) /\ Flat(t) \in Seq(Chars) /\ line \in Seq(Chars)
          BY <1>1, <2>2 DEF C
        <4> QED BY <4>1, Joining
      <3>2. (gone \o a) \o (Flat(t) \o line) = gone \o (a \o (Flat(t) \o line))
        <4>1. /\ gone \in Seq(Chars) /\ a \in Seq(Chars)
              /\ Flat(t) \o line \in Seq(Chars)
          BY <2>2, <2>5 DEF C
        <4> QED BY <4>1, Joining
      <3> QED BY <1>4, <2>2, <3>1, <3>2
    <2>7. (Flat(t) \o line) \o <<>> = Flat(t) \o line
      BY <2>5, ConcatEmptySeq DEF C
    <2>8. out = (gone \o a) \o (Flat(new) \o <<>>)
      BY <2>3, <2>4, <2>6, <2>7
    <2>9. ~(Len(new) < ScrollbackLines)
      BY <1>2, <2>4
    <2> HIDE DEF full
    <2> QED BY <2>5, <2>8, <2>9 DEF Kept, C, new
  <1> QED BY <1>5, <1>6

\* A glyph enters the text and current_line alike.
LEMMA CharKeeps ==
    ASSUME NEW ring \in Seq(Seq(Chars)), NEW line \in Seq(Chars),
           NEW out \in Seq(Chars), NEW c \in Chars, Kept(out, ring, line)
    PROVE  Kept(Append(out, c), ring, Append(line, c))
  <1> DEFINE C == Seq(Chars)
  <1>1. PICK gone \in C : /\ out = gone \o (Flat(ring) \o line)
                          /\ Len(ring) < ScrollbackLines => gone = <<>>
    BY DEF Kept
  <1>2. Flat(ring) \in C /\ <<c>> \in C
    BY FlatAppend
  <1>3. Append(out, c) = out \o <<c>> /\ Append(line, c) = line \o <<c>>
    BY AppendIsConcat
  <1> HIDE DEF C
  <1>4. Flat(ring) \o line \in C
    BY <1>2, ConcatProperties DEF C
  <1>5. (gone \o (Flat(ring) \o line)) \o <<c>> = gone \o ((Flat(ring) \o line) \o <<c>>)
    <2>1. gone \in Seq(Chars) /\ Flat(ring) \o line \in Seq(Chars) /\ <<c>> \in Seq(Chars)
      BY <1>2, <1>4 DEF C
    <2> QED BY <2>1, Joining
  <1>6. (Flat(ring) \o line) \o <<c>> = Flat(ring) \o (line \o <<c>>)
    <2>1. Flat(ring) \in Seq(Chars) /\ <<c>> \in Seq(Chars)
      BY <1>2 DEF C
    <2> QED BY <2>1, Joining
  <1>7. Append(out, c) = gone \o (Flat(ring) \o Append(line, c))
    BY <1>1, <1>3, <1>5, <1>6
  <1> QED BY <1>1, <1>7 DEF Kept, C

\* What comes last in a sequence.
LEMMA EndIsSubSeq ==
    ASSUME NEW S, NEW a \in Seq(S), NEW b \in Seq(S)
    PROVE  /\ Len(b) <= Len(a \o b)
           /\ b = SubSeq(a \o b, Len(a \o b) - Len(b) + 1, Len(a \o b))
  <1> DEFINE u == a \o b
             m == Len(a)
             n == Len(b)
             e == SubSeq(u, m + 1, m + n)
  <1>1. /\ u \in Seq(S) /\ Len(u) = m + n /\ m \in Nat /\ n \in Nat
        /\ \A i \in 1..(m + n) : u[i] = IF i <= m THEN a[i] ELSE b[i - m]
    BY ConcatProperties
  <1> HIDE DEF u, m, n
  <1>2. \A i \in (m + 1)..(m + n) : u[i] \in S
    BY <1>1, ElementOfSeq
  <1>3. /\ e \in Seq(S) /\ Len(e) = n
        /\ \A i \in 1..n : e[i] = u[m + i]
    <2>1. m + 1 \in Int /\ m + n \in Int /\ (m + n) - (m + 1) + 1 = n
      BY <1>1
    <2>2. /\ e \in Seq(S)
          /\ Len(e) = IF m + 1 <= m + n THEN (m + n) - (m + 1) + 1 ELSE 0
          /\ \A i \in 1..((m + n) - (m + 1) + 1) : e[i] = u[(m + 1) + i - 1]
      BY <1>2, <2>1, SubSeqProperties
    <2>3. \A i \in 1..n : (m + 1) + i - 1 = m + i
      BY <1>1
    <2> HIDE DEF e
    <2> QED BY <1>1, <2>1, <2>2, <2>3
  <1> HIDE DEF e
  <1>4. \A i \in 1..n : e[i] = b[i]
    <2> SUFFICES ASSUME NEW i \in 1..n PROVE u[m + i] = b[i]
      BY <1>3
    <2>1. m + i \in 1..(m + n) /\ ~(m + i <= m) /\ (m + i) - m = i
      BY <1>1
    <2> QED BY <1>1, <2>1
  <1>5. e = b
    BY <1>3, <1>4, SeqEqual DEF n
  <1>6. n <= Len(u) /\ Len(u) - n + 1 = m + 1
    BY <1>1
  <1> QED BY <1>1, <1>5, <1>6 DEF e, u, n

\* Every step keeps the record.
LEMMA KeptStep == KeptInv /\ [Next]_vars => KeptInv'
  <1> SUFFICES ASSUME KeptInv, [Next]_vars PROVE KeptInv'
    OBVIOUS
  <1>1. /\ IndInv /\ IndInv' /\ Good(w) /\ Sound(w) /\ w \in Writers
        /\ w.line \in Seq(Chars) /\ w.ring \in Seq(Seq(Chars)) /\ text \in Seq(Chars)
        /\ w.back \in Nat /\ Kept(text, w.ring, w.line)
    BY NextInd DEF KeptInv, IndInv, TypeOK, CursorOnScreen, ScrollClamped,
                   Good, Sound, Writers
  <1> SUFFICES Kept(text', w'.ring, w'.line)
    BY <1>1 DEF KeptInv, Kept
  <1>2. Kept(text, PushCurrentToRing(w).ring, <<>>)
        /\ PushCurrentToRing(w).ring \in Seq(Seq(Chars))
    BY <1>1, PushKeeps, PushGood DEF Sound, Writers
  <1>3. ASSUME NEW c \in Chars \cup Controls, Write(c)
        PROVE  Kept(text', w'.ring, w'.line)
    <2>1. c \in Chars \cup {"LF", "CR"}
      BY FramebufferAssumption
    <2>2. /\ w' = WriteChar(w, c)
          /\ text' = IF c \in Chars THEN Append(text, c) ELSE text
      BY <1>3 DEF Write
    <2>3. /\ w'.ring = IF c = "LF" \/ (c \in Chars /\ Len(w.line) >= MaxLineLen)
                       THEN PushCurrentToRing(w).ring ELSE w.ring
          /\ w'.line = IF c = "LF" THEN <<>> ELSE IF c = "CR" THEN w.line
                       ELSE Append(IF Len(w.line) >= MaxLineLen THEN <<>> ELSE w.line, c)
      BY <1>1, <2>1, <2>2, WriteCharGood
    <2>4. CASE c \in {"LF", "CR"}
      <3>1. c \notin Chars
        BY <2>4, FramebufferAssumption
      <3> QED BY <1>1, <1>2, <2>2, <2>3, <2>4, <3>1
    <2>5. CASE c \in Chars
      <3>1. c # "LF" /\ c # "CR"
        BY <2>5, FramebufferAssumption
      <3>2. CASE Len(w.line) >= MaxLineLen
        <4>1. <<>> \in Seq(Chars)
          OBVIOUS
        <4>2. Kept(Append(text, c), PushCurrentToRing(w).ring, Append(<<>>, c))
          BY <1>1, <1>2, <2>5, <4>1, CharKeeps
        <4> QED BY <2>2, <2>3, <2>5, <3>1, <3>2, <4>2
      <3>3. CASE ~(Len(w.line) >= MaxLineLen)
        <4>1. Kept(Append(text, c), w.ring, Append(w.line, c))
          BY <1>1, <2>5, CharKeeps
        <4> QED BY <2>2, <2>3, <2>5, <3>1, <3>3, <4>1
      <3> QED BY <3>2, <3>3
    <2> QED BY <2>1, <2>4, <2>5
  <1>4. CASE Clear
    <2> DEFINE u == WriteChar(w, "LF")
    <2>1. w' = ClearView(u) /\ text' = text
      BY <1>4 DEF Clear
    <2>2. Good(u) /\ u.ring = PushCurrentToRing(w).ring /\ u.line = <<>>
      BY <1>1, WriteCharGood
    <2> HIDE DEF u
    <2>3. w'.ring = u.ring /\ w'.line = u.line
      BY <2>1, <2>2 DEF ClearView, Good, Sound, Writers
    <2> QED BY <1>2, <2>1, <2>2, <2>3
  <1>5. ASSUME NEW b \in Nat, b <= MaxBack(w), Moved(ScrollTo(w, b))
        PROVE  Kept(text', w'.ring, w'.line)
    <2>1. w' = ScrollTo(w, b) /\ text' = text
      BY <1>5 DEF Moved
    <2>2. ScrollTo(w, b).ring = w.ring /\ ScrollTo(w, b).line = w.line
      BY <1>1, <1>5, ScrollGood
    <2> QED BY <1>1, <2>1, <2>2
  <1>6. /\ MaxBack(w) \in Nat /\ w.back <= MaxBack(w) /\ Page \in Nat
    <2>1. Len(w.ring) \in Nat
      BY <1>1
    <2> QED BY <1>1, <2>1, FramebufferAssumption DEF MaxBack, Monus, Good, Sound, Page
  <1>7. CASE PageUp
    <2>1. AtMost(w.back + Page, MaxBack(w)) \in Nat
          /\ AtMost(w.back + Page, MaxBack(w)) <= MaxBack(w)
      BY <1>1, <1>6 DEF AtMost
    <2> QED BY <1>5, <1>7, <2>1 DEF PageUp, ScrollUp
  <1>8. CASE PageDown
    <2>1. Monus(w.back, Page) \in Nat /\ Monus(w.back, Page) <= MaxBack(w)
      BY <1>1, <1>6 DEF Monus
    <2> QED BY <1>5, <1>8, <2>1 DEF PageDown, ScrollDown
  <1>9. CASE EndKey
    BY <1>5, <1>6, <1>9 DEF EndKey, ScrollEnd
  <1>10. CASE UNCHANGED vars
    BY <1>1, <1>10 DEF vars
  <1> QED BY <1>3, <1>4, <1>7, <1>8, <1>9, <1>10 DEF Next

\* The ring with current_line is always the end of the output, and all of it
\* until SCROLLBACK_LINES lines have been pushed; a frozen view, a soft wrap
\* and `clear` lose nothing.
THEOREM RingIsEndOfOutput == Spec => []RingKeepsOutput
  <1>1. Init => KeptInv
    <2> SUFFICES ASSUME Init PROVE KeptInv
      OBVIOUS
    <2>1. IndInv /\ text = <<>> /\ w.ring = <<>> /\ w.line = <<>>
      BY InitInd DEF Init
    <2>2. <<>> \in Seq(Seq(Chars)) /\ <<>> \in Seq(Chars) /\ 0 \in 0..Len(<<>>)
          /\ Len(<<>>) = 0
      OBVIOUS
    <2>3. Flat(<<>>) = <<>>
      <3>1. PICK g : Joins(g, <<>>, 0) /\ FlatTo(<<>>, 0) = g[0]
        BY <2>2, FlatLoop
      <3> QED BY <2>2, <3>1 DEF Joins, Flat
    <2>4. <<>> \o (<<>> \o <<>>) = <<>>
      OBVIOUS
    <2>5. Kept(<<>>, <<>>, <<>>)
      BY <2>2, <2>3, <2>4 DEF Kept
    <2> QED BY <2>1, <2>5 DEF KeptInv
  <1>2. KeptInv => RingKeepsOutput
    <2> SUFFICES ASSUME KeptInv PROVE RingKeepsOutput
      OBVIOUS
    <2> DEFINE kept == FlatTo(Lines(w), Len(w.ring) + 1)
    <2>1. w.ring \in Seq(Seq(Chars)) /\ w.line \in Seq(Chars)
      BY DEF KeptInv, IndInv, TypeOK, Writers
    <2>2. PICK gone \in Seq(Chars) :
            /\ text = gone \o (Flat(w.ring) \o w.line)
            /\ Len(w.ring) < ScrollbackLines => gone = <<>>
      BY DEF KeptInv, Kept
    <2>3. kept = Flat(w.ring) \o w.line /\ Flat(w.ring) \in Seq(Chars)
      BY <2>1, FlatAppend DEF Lines
    <2> HIDE DEF kept
    <2>4. kept \in Seq(Chars) /\ text = gone \o kept
      BY <2>1, <2>2, <2>3, ConcatProperties
    <2>5. /\ Len(kept) <= Len(text)
          /\ kept = SubSeq(text, Len(text) - Len(kept) + 1, Len(text))
      BY <2>4, EndIsSubSeq
    <2>6. Len(w.ring) < ScrollbackLines => kept = text
      BY <2>2, <2>4, ConcatEmptySeq
    <2> QED BY <2>5, <2>6 DEF RingKeepsOutput, kept, FlatTo
  <1> QED BY <1>1, <1>2, KeptStep, PTL DEF Spec
=============================================================================
