------------------------------- MODULE Streams ------------------------------
(***************************************************************************)
(* The circular queues of libk/stream.c as operators on a record of the    *)
(* memory, the size and the two indices, and the formatted output of       *)
(* libc/stdio.c.  char_stream and std_stream have the same code up to the  *)
(* memory, which is allocated or part of the structure.                    *)
(***************************************************************************)
EXTENDS Strings

Slots(st) == 0..(st.size - 1)

(* init_c; kcalloc has cleared the memory or not.                           *)
init_c(mem, size) == [stream |-> mem, size |-> size, in |-> 0, out |-> 0]

flush_c(st) == [st EXCEPT !.stream = [i \in Slots(st) |-> NUL], !.in = 0, !.out = 0]

(* put_c: what it returns, and the stream.                                  *)
IsFull(st) == st.in = (st.out - 1 + st.size) % st.size
put_c(st, c) ==
    IF IsFull(st) THEN [ret |-> 0, st |-> st]
    ELSE [ret |-> 1, st |-> [st EXCEPT !.stream[st.in] = c, !.in = (@ + 1) % st.size]]

IsEmpty(st) == st.in = st.out
get_c(st) ==
    IF IsEmpty(st) THEN [ret |-> -1, st |-> st]
    ELSE [ret |-> st.stream[st.out], st |-> [st EXCEPT !.out = (@ + 1) % st.size]]

(* get_copy_c and get_copy_std copy the memory, wherever out is.            *)
get_copy(st) == st.stream

(* resize_c: the memory goes to kfree, the new one comes from kcalloc.      *)
resize_c(st, mem, size) == init_c(mem, size)

(* puts_std stops at the first character that put_std refuses.              *)
puts_std(st, str) == FoldLeft(LAMBDA q, c : put_c(q, c).st, st, str)

-----------------------------------------------------------------------------
(* A format is a sequence of characters, <<"c", x>>, and directives,        *)
(* <<"%d", n>>, <<"%x", n>>, <<"%s", str>>, <<"%B", b>>, <<"%c", x>> or     *)
(* <<"%">> with any other letter, each with its argument.  What one prints: *)
DigitChar(d) == IF d < 10 THEN 48 + d ELSE 87 + d
Chars(digits) == [i \in 1..Len(digits) |-> DigitChar(digits[i])]

Piece(f) ==
    CASE f[1] = "%d" -> Chars(int_to_string(f[2]))
      [] f[1] = "%x" -> <<48, 120>> \o Chars(int_to_hexstring(f[2]))
      [] f[1] = "%s" -> f[2]
      [] f[1] = "%B" -> IF f[2] THEN <<116, 114, 117, 101>> ELSE <<102, 97, 108, 115, 101>>
      [] f[1] \in {"c", "%c"} -> <<f[2]>>
      [] f[1] = "%" -> <<>>

(* kprintf to the display, printf to stdout of the process.                 *)
kprintf(format) == FoldLeft(LAMBDA text, f : text \o Piece(f), <<>>, format)
printf(st, format) == FoldLeft(LAMBDA q, f : puts_std(q, Piece(f)), st, format)
kprintln(str) == str \o <<10>>

(* sprintf into memory at str; it has no %c, whose argument goes to the     *)
(* next directive, and %B stops the machine (va_arg of a bool).             *)
SprintfPiece(w, f) ==
    LET piece == Piece(f)
        len == Len(piece)
    IN  [mem |-> [p \in DOMAIN w.mem |->
                    IF p \in w.str..(w.str + len - 1) THEN piece[p - w.str + 1] ELSE w.mem[p]],
         str |-> w.str + len, chars_written |-> w.chars_written + len]

sprintf(m, str, format) ==
    LET w == FoldLeft(SprintfPiece, [mem |-> m, str |-> str, chars_written |-> 0], format)
    IN  [mem |-> [w.mem EXCEPT ![w.str] = NUL], ret |-> w.chars_written]
=============================================================================
