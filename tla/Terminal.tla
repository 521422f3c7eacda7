------------------------------ MODULE Terminal ------------------------------
(***************************************************************************)
(* The terminal: keyboard.c, terminal.c and line.c above the display.      *)
(* A key interrupt is atomic; it comes between any two assignments of the  *)
(* threads, which print, move and blink the cursor and call the functions  *)
(* of the line discipline without a lock.  Module Console has the other    *)
(* end of the line: the ring buffer and the shell.                         *)
(***************************************************************************)
EXTENDS Display

CONSTANTS
    Thread,
    Keys,              \* the keys of the keyboard that are used
    Output,            \* the characters threads print
    Columns,           \* the columns ps prints at
    MaxEvents,         \* bound: key codes and calls of threads
    Modes,             \* the modes line_init may be given
    LINE_BUFFER_SIZE,
    STD_STREAM_SIZE

Shifts == {"lshift", "rshift"}
Held   == Shifts \cup {"lctrl", "lalt"}       \* keys with a release code that is passed on
Other  == {"letter", "enter", "backspace", "capslock", "escape", "function"}

ASSUME TerminalAssumption ==
    /\ Columns \subseteq Cols /\ Keys \subseteq Held \cup Other /\ Modes \subseteq {"COOKED", "RAW"}
    /\ LINE_BUFFER_SIZE \in Nat \ {0, 1} /\ STD_STREAM_SIZE \in Nat \ {0, 1}

VARIABLES
    dis,          \* the display
    todo,         \* the steps left of the driver call each thread is in
    prog,         \* the driver calls each thread makes after that
    capitalize, alt_pressed, ctrl_pressed,    \* terminal_state
    mode, line_buffer, buffer_i,              \* line_disc_t
    stdin,        \* what line_sendv and line_send gave to the process
    held, lock,   \* the keyboard: the keys held down, the capslock
    events,       \* key codes and calls so far
    text,         \* history: what has been written
    alone,        \* history: since the flush only keys have been echoed
    incidents     \* history: which of the following has happened
                  \*   overlap  a driver call begins within another actor's, or
                  \*            dis_putats uses a row that is no longer the cursor's
                  \*   column0  backspace in the first column
                  \*   edge     a tab within TAB columns of the last one
                  \*   repeat   a modifier key that is held repeats
                  \*   both     both shift keys are held
                  \*   overrun  line_recs writes behind the line buffer

ts   == <<capitalize, alt_pressed, ctrl_pressed>>
line == <<mode, line_buffer, buffer_i, stdin>>
keys == <<held, lock>>
vars == <<dis, todo, prog, ts, line, keys, events, text, alone, incidents>>

Bytes == 0..(LINE_BUFFER_SIZE - 1)

(* terminal_init and line_init                                              *)
Init ==
    /\ dis = init_vesa
    /\ todo = [t \in Thread |-> <<>>] /\ prog = [t \in Thread |-> <<>>]
    /\ capitalize = FALSE /\ alt_pressed = FALSE /\ ctrl_pressed = FALSE
    /\ mode \in Modes /\ line_buffer = [i \in Bytes |-> "nul"] /\ buffer_i = 0
    /\ stdin = <<>>
    /\ held = {} /\ lock = FALSE /\ events = 0
    /\ text = NoText /\ alone = TRUE /\ incidents = {}

Meet(i, cond) == IF cond THEN {i} ELSE {}
Idle == \A t \in Thread : todo[t] = <<>>
Overlap == Meet("overlap", ~Idle)
Sound == "overrun" \notin incidents
Happens == events < MaxEvents /\ events' = events + 1

-----------------------------------------------------------------------------
(* eval_kc: what the key changes, and whether it is a key of the table.     *)
TogglesOnPress(key, up) == key \in Shifts \cup {"capslock"} /\ ~up     \* mutant: a release is ignored
TogglesCaps(key, up) == key \in Shifts \/ (key = "capslock" /\ ~up)

eval_kc(key, up) ==
    /\ capitalize' = (capitalize # TogglesCaps(key, up))
    /\ ctrl_pressed' = (ctrl_pressed # (key = "lctrl"))
    /\ alt_pressed' = (alt_pressed # (key = "lalt" /\ ~up))

Evaluates(key) == key \in {"letter", "enter", "backspace"}

(* kc_getchar: the tables have '?' for keys without a character and end at  *)
(* KC_MAX; what lies behind them is not known.                              *)
kc_getchar(key, up) ==
    CASE key = "letter" -> {IF capitalize' THEN "A" ELSE "a"}
      [] key = "enter"  -> {"newline"}
      [] up \/ key \in {"capslock", "function"} -> {"?", "nul"}
      [] OTHER -> {"?"}

(* put_std, for each character: a full stream takes no more.                *)
Sent(chars) == LET all == stdin \o chars
               IN  SubSeq(all, 1, Min({Len(all), STD_STREAM_SIZE - 1}))

line_sendv(c) == stdin' = IF c = "nul" THEN stdin ELSE Sent(<<c>>)

IsErase(key) == mode = "COOKED" /\ key = "backspace"

(* line_in, called by terminal_in, called by keyboard_handler.              *)
HasRoom == buffer_i # LINE_BUFFER_SIZE - 1

LineEcho(key, up, met) ==
    /\ HasRoom /\ (mode = "COOKED" => Evaluates(key)) /\ ~IsErase(key)
    /\ \E c \in kc_getchar(key, up) :
        /\ line_buffer' = [line_buffer EXCEPT ![buffer_i] = c]
        /\ buffer_i' = buffer_i + 1
        /\ line_sendv(c)
        /\ dis' = Run(dis, <<Putc(c), Show>>)
        /\ text' = TextPut(text, c)
    /\ incidents' = incidents \cup met \cup Overlap

IndexStays == buffer_i         \* mutant: the character is not taken from the line
IndexBack == buffer_i - 1

LineErase(key, met) ==
    /\ HasRoom /\ IsErase(key) /\ buffer_i > 0
    /\ line_buffer' = [line_buffer EXCEPT ![buffer_i] = "nul"]
    /\ buffer_i' = IndexBack
    /\ dis' = Run(dis, <<Backspace, Show>>)
    /\ text' = IF Last(text) = <<>> THEN text ELSE TextErase(text)
    /\ incidents' = incidents \cup met \cup Overlap \cup Meet("column0", Last(text) = <<>>)
    /\ UNCHANGED stdin

LineIgnores(key, met) ==
    /\ ~HasRoom \/ (mode = "COOKED" /\ ~Evaluates(key)) \/ (IsErase(key) /\ buffer_i = 0)
    /\ incidents' = incidents \cup met
    /\ UNCHANGED <<line_buffer, buffer_i, stdin, dis, text>>

line_in(key, up, met) ==
    /\ Sound
    /\ Happens
    /\ eval_kc(key, up)
    /\ LineEcho(key, up, met) \/ LineErase(key, met) \/ LineIgnores(key, met)
    /\ UNCHANGED <<mode, todo, prog, alone>>

(* A key goes down, or sends its code again while it is held; it is let go, *)
(* and keyboard_handler passes the code of the four modifier keys on.       *)
Press(key) ==
    /\ key \notin held
    /\ held' = held \cup ({key} \cap Held)
    /\ lock' = (lock # (key = "capslock"))
    /\ line_in(key, FALSE, Meet("both", Shifts \subseteq held'))

Repeat(key) ==
    /\ key \in held
    /\ line_in(key, FALSE, {"repeat"})
    /\ UNCHANGED <<held, lock>>

Release(key) ==
    /\ key \in held
    /\ held' = held \ {key}
    /\ line_in(key, TRUE, {})
    /\ UNCHANGED lock

-----------------------------------------------------------------------------
(* A thread that is not in the driver makes a call.                         *)
Free(t) == /\ todo[t] = <<>> /\ prog[t] = <<>>
           /\ Happens
Calling(t, calls) ==
    /\ Free(t)
    /\ prog' = [prog EXCEPT ![t] = calls]
    /\ alone' = FALSE
    /\ UNCHANGED <<dis, todo, ts, line, keys, text, incidents>>

(* A longer string is one more call.                                        *)
Puts(t)  == \E c \in Output : Calling(t, vesa_print(<<c>>))
PutAt(t) == \E x \in Columns : Calling(t, display_putats(dis, <<"b">>, x))
ClearScreen(t) == Calling(t, <<Clear>>)

(* The blinking cursor of shell_waiter.                                     *)
Blink(t) ==
    /\ Free(t)
    /\ \E s \in {Show, Hide} : prog' = [prog EXCEPT ![t] = <<s>>]
    /\ UNCHANGED <<dis, todo, ts, line, keys, text, alone, incidents>>

(* line_out looks at the line buffer before every character.                *)
LineOut(t) == Calling(t, <<<<"line_out", 0>>>>)

LineOutNext(t) ==
    LET i == prog[t][1][2] IN
    /\ todo[t] = <<>> /\ prog[t] # <<>> /\ prog[t][1][1] = "line_out"
    /\ prog' = [prog EXCEPT ![t] =
           IF i >= LINE_BUFFER_SIZE \/ i >= buffer_i THEN <<>>
           ELSE <<IF line_buffer[i] = "rubout" THEN Backspace ELSE Putc(line_buffer[i]),
                  <<"line_out", i + 1>>>>]
    /\ UNCHANGED <<dis, todo, ts, line, keys, events, text, alone, incidents>>

(* The next call begins.                                                    *)
Begin(t) ==
    LET s == prog[t][1] IN
    /\ todo[t] = <<>> /\ prog[t] # <<>> /\ s[1] # "line_out"
    /\ todo' = [todo EXCEPT ![t] = <<s>>]
    /\ prog' = [prog EXCEPT ![t] = Tail(prog[t])]
    /\ text' = CASE s[1] = "putc"       -> TextPut(text, s[2])
                 [] s[1] = "set_cursor" -> TextColumn(text, s[2])
                 [] s[1] = "clear"      -> NoText
                 [] s[1] = "backspace" /\ Last(text) # <<>> -> TextErase(text)
                 [] OTHER               -> text
    /\ incidents' = incidents \cup Overlap
           \cup Meet("overlap", s[1] = "set_cursor" /\ s[3] # dis.cursor_y)
           \cup Meet("edge", s = Putc("tab") /\ Len(Last(text)) + TAB >= num_cols)
           \cup Meet("column0", s = Backspace /\ Last(text) = <<>>)
    /\ UNCHANGED <<dis, ts, line, keys, events, alone>>

Step(t) ==
    /\ todo[t] # <<>>
    /\ dis' = Assigns(dis, Head(todo[t]))
    /\ todo' = [todo EXCEPT ![t] = Calls(dis, Head(todo[t])) \o Tail(todo[t])]
    /\ UNCHANGED <<prog, ts, line, keys, events, text, alone, incidents>>

-----------------------------------------------------------------------------
(* The functions of the line discipline that leave the display alone.       *)
LineCall(t) ==
    /\ Sound /\ Free(t)
    /\ alone' = FALSE
    /\ UNCHANGED <<dis, todo, prog, ts, mode, keys, text>>

(* line_send: up to the first NUL; the bytes stay where they are.           *)
line_send(t) ==
    LET n == Min({i \in 0..buffer_i : i = buffer_i \/ line_buffer[i] = "nul"}) IN
    /\ LineCall(t)
    /\ stdin' = Sent([i \in 1..n |-> line_buffer[i - 1]])
    /\ buffer_i' = 0
    /\ UNCHANGED <<line_buffer, incidents>>

(* line_recv: a rubout ('\b') erases, and is then stored like any other character.   *)
line_recv(t, c) ==
    LET i == IF c = "rubout" /\ buffer_i > 0 THEN buffer_i - 1 ELSE buffer_i
        cleared == IF i < buffer_i THEN [line_buffer EXCEPT ![buffer_i] = "nul"] ELSE line_buffer
    IN
    /\ LineCall(t) /\ HasRoom
    /\ line_buffer' = [cleared EXCEPT ![i] = c]
    /\ buffer_i' = i + 1
    /\ UNCHANGED <<stdin, incidents>>

(* line_recs of a string of n characters.                                   *)
RecsSize(n) == IF n < LINE_BUFFER_SIZE - buffer_i THEN n ELSE LINE_BUFFER_SIZE - buffer_i + 1

line_recs(t, n) ==
    LET end == buffer_i + RecsSize(n) IN
    /\ LineCall(t)
    /\ line_buffer' = [i \in Bytes |-> IF i \in buffer_i..(end - 1) THEN "a"
                                       ELSE IF i = end THEN "nul" ELSE line_buffer[i]]
    /\ buffer_i' = end
    /\ incidents' = incidents \cup Meet("overrun", end >= LINE_BUFFER_SIZE)
    /\ UNCHANGED stdin

(* The shell has run the line: flush_std and line_flush.                    *)
line_flush(t) ==
    /\ Sound /\ Free(t)
    /\ line_buffer' = [i \in Bytes |-> "nul"] /\ buffer_i' = 0 /\ stdin' = <<>>
    /\ alone' = TRUE
    /\ UNCHANGED <<dis, todo, prog, ts, mode, keys, text, incidents>>

-----------------------------------------------------------------------------
Keyboard == \E key \in Keys : Press(key) \/ Repeat(key) \/ Release(key)

Threads == \E t \in Thread :
    \/ Puts(t) \/ PutAt(t) \/ ClearScreen(t) \/ Blink(t)
    \/ LineOut(t) \/ LineOutNext(t) \/ Begin(t) \/ Step(t)
    \/ line_send(t) \/ line_flush(t)
    \/ (\E c \in {"a", "rubout"} : line_recv(t, c)) \/ (\E n \in 1..LINE_BUFFER_SIZE : line_recs(t, n))

Next == Keyboard \/ Threads

Spec == Init /\ [][Next]_vars

-----------------------------------------------------------------------------
(* The screen shows what was written, line by line, wrapped at the last     *)
(* column and scrolled at the last row, and the cursor and the place where  *)
(* the next character is drawn are behind it, whenever no thread is in the  *)
(* driver: unless two calls overlapped, a backspace was printed in the      *)
(* first column or a tab next to the last one.                              *)
ShowsText ==
    Idle /\ incidents \cap {"overlap", "column0", "edge"} = {} => Shows(dis, text)


(* Letters are capital when a shift key is held or capslock is on, but not  *)
(* both, and ctrl_pressed says whether Ctrl is held: eval_kc counts codes   *)
(* and does not look at the keys, so a key that repeats or a second shift   *)
(* key puts it out of step.                                                 *)
ModifiersFollowKeys ==
    incidents \cap {"repeat", "both"} = {} =>
        /\ capitalize = (lock # (held \cap Shifts # {}))
        /\ ctrl_pressed = ("lctrl" \in held)

(* What the user sees is what the shell will get: as long as only keys have *)
(* been echoed since the line was flushed, the text on the screen ends with *)
(* the characters of the line buffer.                                       *)
Entered == SelectSeq([i \in 1..buffer_i |-> line_buffer[i - 1]], LAMBDA c : c # "newline")

LineIsShown ==
    alone /\ incidents = {} =>
        LET seen == FlattenSeq(text)
            n == Min({Len(seen), Len(Entered)})
        IN  SubSeq(seen, Len(seen) - n + 1, Len(seen))
              = SubSeq(Entered, Len(Entered) - n + 1, Len(Entered))
=============================================================================
