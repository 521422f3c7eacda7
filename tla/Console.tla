------------------------------ MODULE Console -------------------------------
(***************************************************************************)
(* The way of a key to the shell: keyboard_handler (drivers/keyboard.c),   *)
(* terminal_in (drivers/terminal.c) and line_in (drivers/line.c) run in    *)
(* the keyboard interrupt; the shell thread reads its stdin (the ring      *)
(* buffer of libk/stream.c) and, at a newline, the line buffer             *)
(* (kernel/shell.c, read_stdin).  The interrupt is atomic; it may come     *)
(* between any two memory accesses of the shell.                           *)
(*                                                                         *)
(* The line discipline is in mode COOKED, the only one shell_init asks     *)
(* for.  Keys that only change the terminal's modifier state leave the     *)
(* variables below alone; what they change is which letter a key gives.    *)
(***************************************************************************)
EXTENDS Naturals, SequencesExt

CONSTANTS
    Letter,           \* the characters keys give, newline left out
    STD_STREAM_SIZE,  \* slots of the ring buffer
    LINE_BUFFER_SIZE, \* bytes of the line buffer
    CLEARED_BYTES     \* bytes of it that kcalloc clears: 512 of 1024

ASSUME ConsoleAssumption ==
    /\ STD_STREAM_SIZE \in Nat \ {0, 1} /\ LINE_BUFFER_SIZE \in Nat \ {0, 1}
    /\ CLEARED_BYTES \in 1..LINE_BUFFER_SIZE
    /\ {"newline", "nul"} \cap Letter = {}

Char  == Letter \cup {"newline", "nul"}
Slots == 0..(STD_STREAM_SIZE - 1)
Bytes == 0..(LINE_BUFFER_SIZE - 1)

VARIABLES
    stream, in, out,        \* the shell's stdin
    line_buffer, buffer_i,  \* the line discipline
    key_buffer,             \* the shell's copy of the line
    pc, c, j,               \* the shell: where it is, the char it got, a loop counter
    sent,                   \* history: what put_std took and get_std has not returned
    edit,                   \* history: the line as the user has edited it
    entered,                \* history: the line has a newline and is not flushed yet
    raw,                    \* history: the line buffer has never been flushed
    incidents               \* history: which of the following has happened
                            \*   ahead    a key is accepted although entered = TRUE
                            \*   dropped  put_std refuses a key, the ring being full
                            \*   long     the first line reaches bytes not cleared

ring  == <<stream, in, out>>
line  == <<line_buffer, buffer_i>>
shell == <<key_buffer, pc, c, j>>
user  == <<edit, entered, raw, incidents>>
vars  == <<ring, line, shell, sent, user>>

(* line_init: kcalloc leaves the rest of the line buffer as it found it.   *)
Init ==
    /\ stream = [i \in Slots |-> "nul"] /\ in = 0 /\ out = 0
    /\ line_buffer \in [Bytes -> Letter \cup {"nul"}] /\ buffer_i = 0
    /\ \A i \in 0..(CLEARED_BYTES - 1) : line_buffer[i] = "nul"
    /\ key_buffer = [i \in Bytes |-> "nul"]
    /\ pc = "get" /\ c = "nul" /\ j = 0
    /\ sent = <<>> /\ edit = <<>> /\ entered = FALSE /\ raw = TRUE /\ incidents = {}

Meet(i, cond) == IF cond THEN {i} ELSE {}

-----------------------------------------------------------------------------
(* put_std                                                                  *)
NeverFull == FALSE             \* mutant: no test for a full ring
Full == in = (out + STD_STREAM_SIZE - 1) % STD_STREAM_SIZE

Put(x) ==
    IF Full
    THEN UNCHANGED <<stream, in, out, sent>>
    ELSE /\ stream' = [stream EXCEPT ![in] = x]
         /\ in' = (in + 1) % STD_STREAM_SIZE
         /\ sent' = Append(sent, x)
         /\ UNCHANGED out

(* line_in on a key that gives a character: it is put in the line buffer,   *)
(* sent to the shell (line_sendv), and written to the screen.               *)
LineHasSpace == buffer_i # LINE_BUFFER_SIZE      \* mutant: off by one
LineHasRoom == buffer_i # LINE_BUFFER_SIZE - 1

TypeChar(x) ==
    /\ LineHasRoom
    /\ line_buffer' = [line_buffer EXCEPT ![buffer_i] = x]
    /\ buffer_i' = buffer_i + 1
    /\ Put(x)
    /\ edit' = Append(edit, x)
    /\ entered' = (entered \/ x = "newline")
    /\ incidents' = incidents \cup Meet("ahead", entered) \cup Meet("dropped", Full)
                    \cup Meet("long", raw /\ buffer_i + 1 >= CLEARED_BYTES)
    /\ UNCHANGED <<shell, raw>>

(* line_in on KC_BACKSPACE: the byte after the last one is cleared, and the *)
(* last one becomes the one to be overwritten.                              *)
Backspace ==
    /\ LineHasRoom
    /\ buffer_i > 0
    /\ line_buffer' = [line_buffer EXCEPT ![buffer_i] = "nul"]
    /\ buffer_i' = buffer_i - 1
    /\ edit' = Front(edit)
    /\ incidents' = incidents \cup Meet("ahead", entered)
    /\ UNCHANGED <<ring, shell, sent, entered, raw>>

-----------------------------------------------------------------------------
(* The shell, in read_stdin.  get_std: the test, the character, the index.  *)
Goto(l) == pc' = l

GetTest ==
    /\ pc = "get" /\ in # out
    /\ Goto("get_char")
    /\ UNCHANGED <<ring, line, key_buffer, c, j, sent, user>>

GetChar ==
    /\ pc = "get_char"
    /\ c' = stream[out]
    /\ Goto("get_next")
    /\ UNCHANGED <<ring, line, key_buffer, j, sent, user>>

EndsLine(x) == x = "newline"

GetNext ==
    /\ pc = "get_next"
    /\ out' = (out + 1) % STD_STREAM_SIZE
    /\ sent' = Tail(sent)
    /\ Goto(IF EndsLine(c) THEN "copy" ELSE "get")
    /\ UNCHANGED <<stream, in, line, key_buffer, c, j, user>>

(* line_outbufn: memcpy of the line buffer, a byte a step.                  *)
CopyByte ==
    /\ pc = "copy"
    /\ key_buffer' = [key_buffer EXCEPT ![j] = line_buffer[j]]
    /\ IF j + 1 \in Bytes THEN j' = j + 1 /\ UNCHANGED pc ELSE j' = 0 /\ Goto("strip")
    /\ UNCHANGED <<ring, line, c, sent, user>>

(* strlen(key_buffer)                                                       *)
Strlen == CHOOSE n \in 0..LINE_BUFFER_SIZE :
              /\ \A i \in 0..(n - 1) : key_buffer[i] # "nul"
              /\ n \in Bytes => key_buffer[n] = "nul"

(* The last character is overwritten (with an empty buffer, the byte before *)
(* it), the line is split and its command, if there is one, runs.           *)
Strip ==
    /\ pc = "strip"
    /\ key_buffer' = IF Strlen = 0 THEN key_buffer ELSE [key_buffer EXCEPT ![Strlen - 1] = "nul"]
    /\ Goto("run")
    /\ UNCHANGED <<ring, line, c, j, sent, user>>

(* The command has returned.  flush_std: the slots, then out, then in.      *)
FlushSlots ==
    /\ pc = "run"
    /\ stream' = [i \in Slots |-> "nul"]
    /\ sent' = <<>>
    /\ Goto("flush_out")
    /\ UNCHANGED <<in, out, line, key_buffer, c, j, user>>

FlushOut ==
    /\ pc = "flush_out"
    /\ out' = 0
    /\ Goto("flush_in")
    /\ UNCHANGED <<stream, in, line, key_buffer, c, j, sent, user>>

FlushIn ==
    /\ pc = "flush_in"
    /\ in' = 0
    /\ sent' = <<>>
    /\ Goto("line_flush")
    /\ UNCHANGED <<stream, out, line, key_buffer, c, j, user>>

(* line_flush, a byte a step, then the index.                               *)
FlushLine ==
    /\ pc = "line_flush"
    /\ line_buffer' = [line_buffer EXCEPT ![j] = "nul"]
    /\ IF j + 1 \in Bytes THEN j' = j + 1 /\ UNCHANGED pc ELSE j' = 0 /\ Goto("line_index")
    /\ UNCHANGED <<ring, buffer_i, key_buffer, c, sent, user>>

IndexKept == buffer_i          \* mutant: the index is not reset
IndexReset == 0

(* buffer_i = 0, and the shell's memset on its own buffer, which clears the *)
(* first byte only: memset does not advance its pointer.                    *)
LineIndex ==
    /\ pc = "line_index"
    /\ buffer_i' = IndexReset
    /\ key_buffer' = [key_buffer EXCEPT ![0] = "nul"]
    /\ edit' = <<>> /\ entered' = FALSE /\ raw' = FALSE
    /\ Goto("get")
    /\ UNCHANGED <<ring, line_buffer, c, j, sent, incidents>>

-----------------------------------------------------------------------------
Keyboard == (\E x \in Letter \cup {"newline"} : TypeChar(x)) \/ Backspace
Shell == GetTest \/ GetChar \/ GetNext \/ CopyByte \/ Strip \/ FlushSlots
         \/ FlushOut \/ FlushIn \/ FlushLine \/ LineIndex

Next == Keyboard \/ Shell

Spec == Init /\ [][Next]_vars

(* The shell thread never blocks outside a command, so it keeps running;    *)
(* nobody has to press a key.                                               *)
FairSpec == Spec /\ WF_vars(Shell)

-----------------------------------------------------------------------------
(* The ring buffer holds, in order, what the interrupt put in and the shell *)
(* has not taken out, whatever the interleaving, except while it is flushed.*)
Contents ==
    LET n == (in + STD_STREAM_SIZE - out) % STD_STREAM_SIZE
    IN  [i \in 1..n |-> stream[(out + i - 1) % STD_STREAM_SIZE]]

RingIsQueue == pc \notin {"flush_out", "flush_in"} => Contents = sent

(* The line has stayed in the part of the line buffer that was cleared: all *)
(* of it, from the second line on.                                          *)
InClearedPart == raw => "long" \notin incidents

(* No key came between Enter and the flush of the line, and none was lost.  *)
Undisturbed == incidents \subseteq {"long"}

(* strlen in read_stdin stays within key_buffer: the copy of the line has a *)
(* NUL, however many keys were accepted while it was made, unless the first *)
(* line has reached the part of the buffer that kcalloc does not clear, be  *)
(* it only until a Backspace during the copy.                               *)
CopyIsTerminated ==
    pc = "strip" /\ InClearedPart => \E i \in Bytes : key_buffer[i] = "nul"

(* The line the shell executes is the line as it was edited, its newline    *)
(* last, if no key is accepted between Enter and the flush of the line.     *)
Executes == [i \in 1..Strlen |-> key_buffer[i - 1]]

LineIsAsEdited ==
    Undisturbed /\ pc = "strip" /\ InClearedPart =>
        Executes = edit /\ Last(edit) = "newline"

=============================================================================
