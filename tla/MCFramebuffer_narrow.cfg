\* Lines wider than the screen, carriage returns, and a height that leaves
\* room for one live row more than redraw_visible fills.
SPECIFICATION Spec
CONSTANTS
    Rows = 2
    LiveRows = 3
    Cols = 2
    MaxLineLen = 3
    ScrollbackLines = 3
    Chars = {"a", "b"}
    Controls = {"LF", "CR"}
    Blank = Blank
    MaxWritten = 7
INVARIANTS
    CursorOnScreen
    ScrollClamped
    FrozenOnHistory
