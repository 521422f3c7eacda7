---------------------------- MODULE CommandLine -----------------------------
(***************************************************************************)
(* What read_stdin of kernel/shell.c does with a line: it is split with    *)
(* strtok, whose position is kept in the static variable oldstr between    *)
(* calls and between lines, the words are copied to memory of their own,   *)
(* the first is trimmed and compared with the names of the commands.       *)
(* Module Console has how the line gets into key_buffer, module Kernel     *)
(* what the command does.  Only the shell calls strtok, so its calls are   *)
(* the steps here.                                                         *)
(***************************************************************************)
EXTENDS Streams

CONSTANTS
    LINE_BUFFER_SIZE,  \* bytes of key_buffer
    MAX_NUM_ARGS,
    Printable,         \* the characters of lines
    MaxNumber,         \* bound: the numbers converted to strings
    MaxStream          \* bound: the size of streams

(* commands, with short names; those of the source have two characters or   *)
(* more as well.                                                            *)
commands == <<<<97, 98>>, <<97, 97, 98>>, <<98, 97>>>>

(* Memory at address 0, read when strtok returns NULL: anything.            *)
AtNull == {<<>>, <<97>>, <<97, 98>>}

ASSUME CommandLineAssumption ==
    /\ LINE_BUFFER_SIZE \in Nat \ {0, 1} /\ MAX_NUM_ARGS \in Nat \ {0}
    /\ SPACE \in Printable /\ NUL \notin Printable
    /\ \A i \in 1..Len(commands) : Len(commands[i]) > 1

Bytes == 0..(LINE_BUFFER_SIZE - 1)
Buffers == {b \in [Bytes -> Printable \cup {NUL}] : b[LINE_BUFFER_SIZE - 1] = NUL}

VARIABLES
    key_buffer,
    oldstr,     \* static in strtok
    args,       \* the strings args[0..argc-1] point to
    found,      \* the command that was found, 0 if there is none
    pc,
    line        \* history: the line that was copied to key_buffer

vars == <<key_buffer, oldstr, args, found, pc, line>>

Init ==
    /\ key_buffer = [i \in Bytes |-> NUL] /\ oldstr = 0
    /\ args = <<>> /\ found = 0 /\ pc = "idle" /\ line = <<>>

(* line_outbufn, and the newline cut off.                                   *)
NewLine ==
    /\ pc = "idle"
    /\ key_buffer' \in Buffers
    /\ line' = StringAt(key_buffer', 0)
    /\ pc' = "first"
    /\ UNCHANGED <<oldstr, args, found>>

Blank == {SPACE}

FromNull(t) == IF t.token = NULL THEN AtNull ELSE {StringAt(t.mem, t.token)}

(* The first call of strtok; its result is used without a test for NULL.    *)
FirstToken ==
    LET t == strtok(key_buffer, 0, Blank, oldstr) IN
    /\ pc = "first"
    /\ key_buffer' = t.mem /\ oldstr' = t.oldstr
    /\ \E str \in FromNull(t) : args' = <<str>>
    /\ pc' = "next"
    /\ UNCHANGED <<found, line>>

(* while ((token = strtok(NULL, " ")) != NULL && argc < MAX_NUM_ARGS)       *)
HasRoom == Len(args) < MAX_NUM_ARGS

NextToken ==
    LET t == strtok(key_buffer, NULL, Blank, oldstr) IN
    /\ pc = "next"
    /\ key_buffer' = t.mem /\ oldstr' = t.oldstr
    /\ \/ /\ t.token # NULL /\ HasRoom
          /\ args' = Append(args, StringAt(t.mem, t.token))
          /\ UNCHANGED pc
       \/ /\ t.token = NULL \/ ~HasRoom
          /\ pc' = "match"
          /\ UNCHANGED args
    /\ UNCHANGED <<found, line>>

(* The names are tried in order, up to the first that is equal; trim works  *)
(* on the memory of args[0].                                                *)
FindCommand ==
    LET word == trim(args[1])
        equal == {i \in 1..Len(commands) : strcmp(word.ret, commands[i]) = 0}
    IN
    /\ pc = "match"
    /\ args' = [args EXCEPT ![1] = word.str]
    /\ found' = IF equal = {} THEN 0 ELSE Min(equal)
    /\ pc' = "run"
    /\ UNCHANGED <<key_buffer, oldstr, line>>

(* The command has run; the arguments are given back, and memset clears the *)
(* first byte of key_buffer.                                                *)
CommandDone ==
    /\ pc = "run"
    /\ args' = <<>> /\ found' = 0 /\ line' = <<>>
    /\ key_buffer' = memset(key_buffer, 0, NUL, LINE_BUFFER_SIZE)
    /\ pc' = "idle"
    /\ UNCHANGED oldstr

Next == NewLine \/ FirstToken \/ NextToken \/ FindCommand \/ CommandDone

Spec == Init /\ [][Next]_vars

-----------------------------------------------------------------------------
(* The words of a line: its maximal parts without blanks, in order.         *)
WordEnds(s) == {<<i, j>> \in (1..Len(s)) \X (1..Len(s)) :
    /\ i <= j /\ \A k \in i..j : s[k] # SPACE
    /\ i > 1 => s[i - 1] = SPACE
    /\ j < Len(s) => s[j + 1] = SPACE}
Words(s) == LET ends == SetToSortSeq(WordEnds(s), LAMBDA x, y : x[1] < y[1])
            IN  [n \in 1..Len(ends) |-> SubSeq(s, ends[n][1], ends[n][2])]
FirstWords(n, s) == SubSeq(s, 1, Min({n, Len(s)}))

(* strtok and the loop around it: the arguments are the words of the line,  *)
(* up to MAX_NUM_ARGS, whatever an earlier line has left in oldstr and in   *)
(* key_buffer.                                                              *)
WordsOfLine ==
    pc = "match" /\ Words(line) # <<>> => args = FirstWords(MAX_NUM_ARGS, Words(line))

(* trim, strcmp and the search: the command that runs is the one the first  *)
(* word names, and none runs if it names none.                              *)
RunsNamedCommand ==
    pc = "run" /\ Words(line) # <<>> =>
        /\ found # 0 => commands[found] = Words(line)[1]
        /\ found = 0 => \A i \in 1..Len(commands) : commands[i] # Words(line)[1]

(* The library functions against what the C standard says of them, on the   *)
(* memory of the line and all strings in it.                                *)
Others(m, ptrs, after) == \A p \in Bytes \ ptrs : after[p] = m[p]

MovesRight(m) ==
    \A dest, src \in Bytes : \A n \in 0..(LINE_BUFFER_SIZE - Max({dest, src})) :
        LET after == memmove(m, dest, src, n) IN
        /\ \A i \in 0..(n - 1) : after[dest + i] = m[src + i]
        /\ Others(m, dest..(dest + n - 1), after)

CopiesRight(m) ==
    \A dest, src \in Bytes :
        LET size == strlen(m, src) + 1
            Disjoint(n) == (dest..(dest + n - 1)) \cap (src..(src + size - 1)) = {}
        IN  /\ dest + size <= LINE_BUFFER_SIZE /\ Disjoint(size) =>
                 StringAt(strcpy(m, dest, src), dest) = StringAt(m, src)
            /\ \A n \in 1..(LINE_BUFFER_SIZE - dest) :
                 Disjoint(n) =>
                     \A i \in 0..(n - 1) :
                         strncpy(m, dest, src, n)[dest + i] = At(StringAt(m, src), i + 1)

EditsRight(m) ==
    \A s \in Bytes :
        /\ StringAt(reverse(m, s), s) = Reverse(StringAt(m, s))
        /\ \A c \in Printable : s + strlen(m, s) + 1 \in Bytes =>
               StringAt(append(m, s, c), s) = Append(StringAt(m, s), c)

SearchesRight(m) ==
    \A s \in Bytes : \A c \in Printable :
        LET str == StringAt(m, s)
            at == {i \in 1..Len(str) : str[i] = c}
        IN  /\ (strchr(m, s, c) = NULL) = (at = {}) /\ (strrchr(m, s, c) = NULL) = (at = {})
            /\ at # {} => strchr(m, s, c) = s + Min(at) - 1 /\ strrchr(m, s, c) = s + Max(at) - 1
            /\ \A set \in SUBSET Printable :
                 /\ SelectInSeq(str, LAMBDA x : x \notin set)
                      = IF strspn(m, s, set) = Len(str) THEN 0 ELSE strspn(m, s, set) + 1
                 /\ strspn(m, s, set) = strcspn(m, s, Printable \ set)

(* Functions that are right only where this says so: memset and memcmp work *)
(* on one byte, memchr finds a match only in the first, strncmp goes one    *)
(* too far, strncat needs room for n characters however long src is, strstr *)
(* is lost after a partial match, strim refuses a string of one character,  *)
(* to_uppercase needs a NUL in its buffer.                                  *)
Areas == {<<p, q, n>> \in Bytes \X Bytes \X (1..LINE_BUFFER_SIZE) :
              p + n < LINE_BUFFER_SIZE /\ q + n < LINE_BUFFER_SIZE}

BytesRight(m) ==
    \A a \in Areas : \A c \in Printable :
        LET p == a[1] q == a[2] n == a[3]
            set == [i \in Bytes |-> IF i \in p..(p + n - 1) THEN c ELSE m[i]]
            differ == {i \in 0..(n - 1) : m[p + i] # m[q + i]}
            at == {i \in 0..(n - 1) : m[p + i] = c}
            ended == {i \in 0..(n - 1) : m[p + i] = NUL}
        IN  /\ (memset(m, p, c, n) = set) = (\A i \in 1..(n - 1) : m[p + i] = c)
            /\ (memcmp(m, p, q, n) = 0) = (differ \subseteq 1..n)
            /\ (memchr(m, p, c, n) = NULL) = (at = {})
            /\ at # {} => (memchr(m, p, c, n) = p + Min(at)) = (Min(at) = 0)
            /\ (strncmp(m, p, q, n) = 0) =
                   IF differ = {} /\ ended = {} THEN m[p + n] = m[q + n]
                   ELSE \A d \in differ : \E e \in ended : e < d

JoinsRight(m) ==
    \A dest, src \in Bytes :
        LET d == StringAt(m, dest)
            s == StringAt(m, src)
            Fits(n) == /\ dest + Len(d) + n < LINE_BUFFER_SIZE /\ src + n < LINE_BUFFER_SIZE
                       /\ dest + Len(d) + n < src \/ src + Max({n, Len(s)}) < dest
        IN  /\ Fits(Len(s)) => StringAt(strcat(m, dest, src), dest) = d \o s
            /\ \A n \in 1..LINE_BUFFER_SIZE :
                   Fits(n) => StringAt(strncat(m, dest, src, n), dest) = d \o FirstWords(n, s)

Patterns == {<<x>> : x \in Printable} \cup {<<x, y>> : x, y \in Printable}

FindsRight(m) ==
    \A s \in Bytes : \A str2 \in Patterns :
        LET places == s..(s + strlen(m, s) - 1)
            matches == {p \in places : Matched(m, p, str2) = Len(str2)}
            partial == {p \in places : Matched(m, p, str2) \in 1..(Len(str2) - 1)}
        IN  (\A p \in partial : \E q \in matches : q < p) => strstr(m, s, str2) = FirstOrNull(matches)

RewritesRight(m) ==
    \A s \in Bytes :
        LET str == StringAt(m, s)
            words == Words(str)
            up == to_uppercase(m, str)
        IN  /\ Len(words) = 1 => strim(str) = IF Len(words[1]) = 1 THEN NULL ELSE words[1]
            /\ m[Len(str)] = NUL =>
                 StringAt(up, 0) = [i \in 1..Len(str) |-> Upper(str[i])]

(* A stream is a queue of size - 1 characters, whatever its indices.        *)
Queue(st) == LET n == (st.in + st.size - st.out) % st.size
             IN  [i \in 1..n |-> st.stream[(st.out + i - 1) % st.size]]

Rings == UNION {[stream : [0..(n - 1) -> {97, 98}], size : {n}, in : 0..(n - 1), out : 0..(n - 1)] :
                n \in 2..MaxStream}

Formats == LET parts == {<<"c", 97>>, <<"%d", 10>>, <<"%x", 10>>, <<"%s", <<98, 97>>>>, <<"%">>}
           IN  {<<x>> : x \in parts} \cup {<<x, y>> : x, y \in parts}

StreamsRight ==
    \A st \in Rings :
        LET q == Queue(st) room == st.size - 1 - Len(q) IN
        /\ Queue(put_c(st, 99).st) = (IF room = 0 THEN q ELSE Append(q, 99))
        /\ put_c(st, 99).ret = (IF room = 0 THEN 0 ELSE 1)
        /\ get_c(st).ret = (IF q = <<>> THEN -1 ELSE Head(q))
        /\ Queue(get_c(st).st) = (IF q = <<>> THEN q ELSE Tail(q))
        /\ Queue(flush_c(st)) = <<>> /\ Queue(resize_c(st, get_copy(st), st.size)) = <<>>
        /\ \A f \in Formats : Queue(printf(st, f)) = q \o FirstWords(room, kprintf(f))

(* sprintf leaves what kprintf prints.                                      *)
FormatsRight ==
    LET m == [p \in 0..20 |-> 99] IN
    \A f \in Formats :
        LET w == sprintf(m, 1, f) IN
        /\ StringAt(w.mem, 1) = kprintf(f) /\ w.ret = Len(kprintf(f))
        /\ w.mem[0] = 99 /\ \A p \in (w.ret + 2)..20 : w.mem[p] = 99

RECURSIVE Value(_, _)
Value(digits, base) ==
    IF digits = <<>> THEN 0 ELSE base * Value(Front(digits), base) + Last(digits)

NumbersRight ==
    \A n \in 0..MaxNumber :
        /\ Value(int_to_string(n), 10) = n /\ Value(int_to_hexstring(n), 16) = n
        /\ n > 0 => Head(int_to_string(n)) # 0 /\ Head(int_to_hexstring(n)) # 0

LibraryIsRight ==
    /\ pc = "first" => /\ MovesRight(key_buffer) /\ CopiesRight(key_buffer)
                       /\ EditsRight(key_buffer) /\ SearchesRight(key_buffer)
                       /\ BytesRight(key_buffer) /\ JoinsRight(key_buffer)
                       /\ FindsRight(key_buffer) /\ RewritesRight(key_buffer)
    /\ pc = "run" /\ line = <<>> /\ oldstr = 0 => NumbersRight /\ StreamsRight /\ FormatsRight
=============================================================================
