SPECIFICATION Spec
CONSTANTS
    LINE_BUFFER_SIZE = 6
    MAX_NUM_ARGS = 2
    Printable = {32, 97, 98}
    MaxNumber = 300
    MaxStream = 4
INVARIANT WordsOfLine
INVARIANT RunsNamedCommand
INVARIANT LibraryIsRight
