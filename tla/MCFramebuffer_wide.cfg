\* Lines that fit the width; the ring overflows.
SPECIFICATION Spec
CONSTANTS
    Rows = 2
    LiveRows = 2
    Cols = 2
    MaxLineLen = 2
    ScrollbackLines = 3
    Chars = {"a", "b"}
    Controls = {"LF"}
    Blank = Blank
    MaxWritten = 8
INVARIANTS
    TypeOK
    RowsAreLines
    RingKeepsOutput
