SPECIFICATION Spec
CONSTANTS
    num_cols = 3
    num_rows = 2
    TAB = 1
    WORD = 16
    Thread = {t1}
    Keys = {"letter", "enter", "backspace", "lshift", "rshift", "capslock", "lctrl", "lalt", "function"}
    Output = {"newline", "tab", "b"}
    Columns = {1}
    MaxEvents = 4
    Modes = {"COOKED", "RAW"}
    LINE_BUFFER_SIZE = 3
    STD_STREAM_SIZE = 2
CHECK_DEADLOCK FALSE
INVARIANT ShowsText
 
INVARIANT ModifiersFollowKeys
INVARIANT LineIsShown
