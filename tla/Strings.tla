------------------------------ MODULE Strings -------------------------------
(***************************************************************************)
(* The functions of libc/string.c and the mem*.c files as operators.       *)
(*                                                                         *)
(* A memory is a function from addresses 0..n to characters, a pointer is  *)
(* an address, a string begins at a pointer and ends before the first NUL. *)
(* A loop that runs until a test succeeds is the least address at which it *)
(* does; a loop that stores is a fold of stores in the order of the code.  *)
(* The second string of strspn, strcspn and strpbrk is the set of its      *)
(* characters.  Every argument is a terminated string, as in all calls.    *)
(***************************************************************************)
EXTENDS Integers, SequencesExt, FiniteSetsExt

NUL   == 0
SPACE == 32
NULL  == -1

Top(m) == Max(DOMAIN m)

strlen(m, s) == Min({p \in s..Top(m) : m[p] = NUL}) - s

StringAt(m, s) == [i \in 1..strlen(m, s) |-> m[s + i - 1]]

-----------------------------------------------------------------------------
(* Searches.                                                                *)
FirstOrNull(ptrs) == IF ptrs = {} THEN NULL ELSE Min(ptrs)
LastOrNull(ptrs)  == IF ptrs = {} THEN NULL ELSE Max(ptrs)

strchr(m, s, c)  == FirstOrNull({p \in s..(s + strlen(m, s)) : m[p] = c})
strrchr(m, s, c) == LastOrNull({p \in s..(s + strlen(m, s) - 1) : m[p] = c})

strspn(m, s, set)  == Min({p \in s..Top(m) : m[p] = NUL \/ m[p] \notin set}) - s
strcspn(m, s, set) == Min({p \in s..Top(m) : m[p] \in set \cup {NUL}}) - s

strpbrk(m, s, set) == FirstOrNull({p \in s..(s + strlen(m, s) - 1) : m[p] \in set})

(* memchr moves its pointer along and adds the index once more.             *)
memchr(m, ptr, c, num) ==
    LET at == {i \in 0..(num - 1) : m[ptr + i] = c}
    IN  IF at = {} THEN NULL ELSE ptr + 2 * Min(at)

(* strstr; str2 is a sequence.  After a partial match of j characters the   *)
(* search goes on j + 1 characters further, which may be behind the string  *)
(* and behind the memory.                                                   *)
Beyond == -2

Matched(m, p, str2) ==
    Min({j \in 0..Len(str2) : j = Len(str2) \/ m[p + j] # str2[j + 1]})

RECURSIVE strstr(_, _, _)
strstr(m, str1, str2) ==
    IF str1 \notin DOMAIN m THEN Beyond
    ELSE IF m[str1] = NUL THEN NULL
    ELSE LET j == Matched(m, str1, str2)
         IN  IF j = Len(str2) THEN str1 ELSE strstr(m, str1 + j + 1, str2)

(* strtok(str, delimeters): str is NULL for the calls after the first.  The *)
(* token is cut off by a NUL; oldstr is where the next call goes on.        *)
NextAtNul(end) == end       \* mutant: goes on at the NUL
NextAfter(end) == end + 1

strtok(m, str, set, oldstr) ==
    LET from  == IF str = NULL THEN oldstr ELSE str
        token == from + strspn(m, from, set)
        end   == strpbrk(m, token, set)
    IN  IF m[token] = NUL
        THEN [mem |-> m, token |-> NULL, oldstr |-> token]
        ELSE IF end = NULL
        THEN [mem |-> m, token |-> token, oldstr |-> token + strlen(m, token)]
        ELSE [mem |-> [m EXCEPT ![end] = NUL], token |-> token, oldstr |-> NextAfter(end)]

-----------------------------------------------------------------------------
(* Stores.                                                                  *)
Upwards(n)   == [i \in 1..n |-> i - 1]
Downwards(n) == [i \in 1..n |-> n - i]

CopyBytes(m, dest, src, order) ==
    FoldLeft(LAMBDA mem, i : [mem EXCEPT ![dest + i] = mem[src + i]], m, order)

memcpy(m, dest, src, n) == CopyBytes(m, dest, src, Upwards(n))

memmove_upwards(m, dest, src, n) == memcpy(m, dest, src, n)     \* mutant
memmove(m, dest, src, n) ==
    IF dest < src THEN memcpy(m, dest, src, n)
    ELSE CopyBytes(m, dest, src, Downwards(n))

strcpy(m, dest, src) == memcpy(m, dest, src, strlen(m, src) + 1)

strncpy(m, dest, src, n) ==
    LET k == Min({n, strlen(m, src)})
        copied == memcpy(m, dest, src, k)
    IN  [p \in DOMAIN m |-> IF p \in (dest + k)..(dest + n - 1) THEN NUL ELSE copied[p]]

strcat(m, dest, src) == strcpy(m, dest + strlen(m, dest), src)

(* strncat looks for the end at the first character of src only.            *)
strncat(m, dest, src, num) ==
    LET end == dest + strlen(m, dest)
        n == IF m[src] = NUL THEN 0 ELSE num
    IN  [memcpy(m, end, src, n) EXCEPT ![end + n] = NUL]

(* memset does not move its pointer, and memcmp neither.                    *)
memset(m, dest, c, n) == IF n = 0 THEN m ELSE [m EXCEPT ![dest] = c]
memcmp(m, p1, p2, n)  == IF n = 0 THEN 0 ELSE m[p1] - m[p2]

(* strncmp compares one character more if the first n are equal.            *)
strncmp(m, s1, s2, n) ==
    LET ends == {i \in 0..n : i = n \/ m[s1 + i] # m[s2 + i] \/ m[s1 + i] = NUL}
    IN  m[s1 + Min(ends)] - m[s2 + Min(ends)]

append(m, s, c) ==
    LET end == s + strlen(m, s) IN [m EXCEPT ![end] = c, ![end + 1] = NUL]

reverse(m, s) ==
    LET n == strlen(m, s)
        Swap(mem, i) == [mem EXCEPT ![s + i] = mem[s + n - 1 - i],
                                    ![s + n - 1 - i] = mem[s + i]]
    IN  FoldLeft(Swap, m, Upwards(n \div 2))

-----------------------------------------------------------------------------
(* Strings in a memory of their own, as sequences without the NUL.          *)
At(str, i) == IF i <= Len(str) THEN str[i] ELSE NUL

strcmp_prefix(str1, str2) ==      \* mutant: stops at the end of the second string
    IF IsPrefix(str2, str1) THEN 0 ELSE 1
strcmp(str1, str2) ==
    LET i == Min({k \in 1..(Len(str1) + 1) : At(str1, k) # At(str2, k) \/ At(str1, k) = NUL})
    IN  At(str1, i) - At(str2, i)

strcoll(str1, str2) == strcmp(str1, str2)

(* to_uppercase writes its static buffer up, without a NUL at the end.      *)
Upper(c) == IF c \in 97..122 THEN c - 32 ELSE c
to_uppercase(up, str) ==
    [p \in DOMAIN up |-> IF p < Len(str) THEN Upper(str[p + 1]) ELSE up[p]]

(* trim: what is left of the memory at str, and the string it returns.  A   *)
(* string of one character comes out empty, because j = i is taken for a    *)
(* string of blanks.                                                        *)
trim(str) ==
    LET kept == {k \in 1..Len(str) : str[k] # SPACE}
    IN  IF Cardinality(kept) = 0 \/ Min(kept) = Max(kept)
        THEN [str |-> <<>>, ret |-> <<>>]
        ELSE [str |-> SubSeq(str, 1, Max(kept)), ret |-> SubSeq(str, Min(kept), Max(kept))]

(* strim: the string in buf, or NULL for the strings trim empties.          *)
strim(str) ==
    LET kept == {k \in 1..Len(str) : str[k] # SPACE}
    IN  IF Cardinality(kept) = 0 \/ Min(kept) = Max(kept) THEN NULL
        ELSE SubSeq(str, Min(kept), Max(kept))

(* int_to_string and int_to_hexstring of n >= 0, as sequences of digits:    *)
(* the digits from the lowest, then reversed; "0x" is left out.             *)
RECURSIVE Digits(_, _)
Digits(num, base) ==
    <<num % base>> \o (IF num \div base > 0 THEN Digits(num \div base, base) ELSE <<>>)

int_to_string(n)    == Reverse(Digits(n, 10))
int_to_hexstring(n) == Reverse(Digits(n, 16))
=============================================================================
