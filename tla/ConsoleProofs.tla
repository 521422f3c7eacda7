--------------------------- MODULE ConsoleProofs ---------------------------
(***************************************************************************)
(* The console's invariants for every size of the ring and of the line     *)
(* buffer: the ring is a queue (RingIsQueue), the shell's copy of a line   *)
(* has a NUL (CopyIsTerminated) and is the line as it was edited           *)
(* (LineIsAsEdited).                                                       *)
(*                                                                         *)
(* ConsoleInv strengthens them to an inductive invariant.  QueueInv adds   *)
(* that the shell is past the test in # out only while the ring is not     *)
(* empty.  NulInv names the byte that ends the copy: the last one, or, as  *)
(* long as the buffer has not been flushed, the last one that kcalloc      *)
(* cleared; no key is ever stored there, and the copy has it as soon as    *)
(* the loop has passed it.  EditInv relates the line buffer to the line as *)
(* edited, and, while nothing disturbs the shell, the newline in the ring  *)
(* to the end of that line.                                                *)
(***************************************************************************)
EXTENDS Console, SequenceTheorems, TLAPS

Label == {"get", "get_char", "get_next", "copy", "strip", "run", "flush_out",
          "flush_in", "line_flush", "line_index"}

TypeInv ==
    /\ stream \in [Slots -> Char] /\ in \in Slots /\ out \in Slots
    /\ line_buffer \in [Bytes -> Char] /\ buffer_i \in Bytes
    /\ key_buffer \in [Bytes -> Char]
    /\ pc \in Label /\ c \in Char /\ j \in Bytes
    /\ sent \in Seq(Char) /\ edit \in Seq(Char \ {"nul"})
    /\ entered \in BOOLEAN /\ raw \in BOOLEAN /\ incidents \subseteq {"ahead", "dropped", "long"}
    /\ pc \notin {"copy", "line_flush"} => j = 0

QueueInv ==
    /\ RingIsQueue
    /\ pc = "flush_in" => out = 0
    /\ pc \in {"get_char", "get_next"} => in # out

(* The byte that no key reaches.                                            *)
LastByte == IF raw THEN CLEARED_BYTES - 1 ELSE LINE_BUFFER_SIZE - 1

NulInv ==
    /\ InClearedPart => /\ raw => buffer_i < CLEARED_BYTES
                        /\ line_buffer[LastByte] = "nul"
                        /\ pc = "copy" /\ LastByte < j => key_buffer[LastByte] = "nul"
                        /\ pc = "strip" => key_buffer[LastByte] = "nul"
    /\ pc = "line_index" => line_buffer[LINE_BUFFER_SIZE - 1] = "nul"

(* Where the shell is once it has taken the newline out of the ring.        *)
Serving == {"copy", "strip", "run", "flush_out", "flush_in", "line_flush", "line_index"}

EditInv ==
    /\ Len(edit) = buffer_i
    /\ pc \notin {"line_flush", "line_index"} =>
         \A i \in Bytes : i < buffer_i => line_buffer[i] = edit[i + 1]

ServeInv ==
    Undisturbed =>
        /\ \A i \in 1..Len(sent) : sent[i] = "newline" => entered
        /\ pc = "get_next" /\ c = "newline" => entered
        /\ pc \in Serving => entered
        /\ pc \in {"flush_out", "flush_in", "line_flush", "line_index"} => sent = <<>>
        /\ entered => buffer_i > 0 /\ edit[buffer_i] = "newline"
        /\ InClearedPart =>
             \A i \in Bytes : /\ i > buffer_i \/ (i = buffer_i /\ entered)
                              /\ raw => i < CLEARED_BYTES
                              => line_buffer[i] = "nul"

CopyInv ==
    Undisturbed =>
        /\ pc = "copy" => \A i \in Bytes : i < j => key_buffer[i] = line_buffer[i]
        /\ pc = "strip" => key_buffer = line_buffer
        /\ pc = "line_flush" => \A i \in Bytes : i < j => line_buffer[i] = "nul"
        /\ pc = "line_index" => \A i \in Bytes : line_buffer[i] = "nul"

ConsoleInv == TypeInv /\ QueueInv /\ NulInv /\ EditInv /\ ServeInv /\ CopyInv

-----------------------------------------------------------------------------
(* Indices modulo the size of the ring.                                     *)
LEMMA Wraps ==
    ASSUME NEW n \in Nat \ {0}, NEW a \in 0..(2 * n - 1)
    PROVE  a % n = IF a < n THEN a ELSE a - n
OBVIOUS

(* With the indices a = in and b = out: how many characters the ring holds, *)
(* and the slot of the i-th of them.                                        *)
Held(a, b) == IF b <= a THEN a - b ELSE a + STD_STREAM_SIZE - b
Slot(b, i) == IF b + i - 1 < STD_STREAM_SIZE THEN b + i - 1 ELSE b + i - 1 - STD_STREAM_SIZE
Next1(a) == IF a + 1 < STD_STREAM_SIZE THEN a + 1 ELSE 0
Queue(st, a, b) == [i \in 1..Held(a, b) |-> st[Slot(b, i)]]

LEMMA RingArithmetic ==
    ASSUME NEW a \in Slots, NEW b \in Slots
    PROVE  /\ Held(a, b) \in 0..(STD_STREAM_SIZE - 1)
           /\ (a + STD_STREAM_SIZE - b) % STD_STREAM_SIZE = Held(a, b)
           /\ \A i \in 1..(Held(a, b) + 1) : /\ Slot(b, i) \in Slots
                                             /\ Slot(b, i) = a <=> i = Held(a, b) + 1
           /\ \A i \in 1..Held(a, b) : (b + i - 1) % STD_STREAM_SIZE = Slot(b, i)
           /\ a = (b + STD_STREAM_SIZE - 1) % STD_STREAM_SIZE <=> Held(a, b) = STD_STREAM_SIZE - 1
           /\ (a + 1) % STD_STREAM_SIZE = Next1(a) /\ Next1(a) \in Slots
<1> USE ConsoleAssumption
<1>1. Held(a, b) \in 0..(STD_STREAM_SIZE - 1)
  BY DEF Held, Slots
<1>2. (a + STD_STREAM_SIZE - b) % STD_STREAM_SIZE = Held(a, b)
  <2> DEFINE k == a + STD_STREAM_SIZE - b
  <2>1. k \in 0..(2 * STD_STREAM_SIZE - 1)
    BY DEF Slots
  <2>2. k % STD_STREAM_SIZE = IF k < STD_STREAM_SIZE THEN k ELSE k - STD_STREAM_SIZE
    <3> HIDE DEF k
    <3> QED BY <2>1, Wraps
  <2> QED BY <2>2 DEF Held, Slots
<1>3. \A i \in 1..(Held(a, b) + 1) : Slot(b, i) \in Slots /\ (Slot(b, i) = a <=> i = Held(a, b) + 1)
  BY <1>1 DEF Held, Slot, Slots
<1>4. ASSUME NEW i \in 1..Held(a, b) PROVE (b + i - 1) % STD_STREAM_SIZE = Slot(b, i)
  <2> DEFINE k == b + i - 1
  <2>1. k \in 0..(2 * STD_STREAM_SIZE - 1)
    BY <1>1 DEF Slots
  <2>2. k % STD_STREAM_SIZE = IF k < STD_STREAM_SIZE THEN k ELSE k - STD_STREAM_SIZE
    <3> HIDE DEF k
    <3> QED BY <2>1, Wraps
  <2> QED BY <1>1, <2>1, <2>2 DEF Slot, Slots
<1>5. a = (b + STD_STREAM_SIZE - 1) % STD_STREAM_SIZE <=> Held(a, b) = STD_STREAM_SIZE - 1
  <2> DEFINE k == b + STD_STREAM_SIZE - 1
  <2>1. k \in 0..(2 * STD_STREAM_SIZE - 1)
    BY DEF Slots
  <2>2. k % STD_STREAM_SIZE = IF k < STD_STREAM_SIZE THEN k ELSE k - STD_STREAM_SIZE
    <3> HIDE DEF k
    <3> QED BY <2>1, Wraps
  <2> QED BY <2>2 DEF Held, Slots
<1>6. (a + 1) % STD_STREAM_SIZE = Next1(a) /\ Next1(a) \in Slots
  <2> DEFINE k == a + 1
  <2>1. k \in 0..(2 * STD_STREAM_SIZE - 1)
    BY DEF Slots
  <2>2. k % STD_STREAM_SIZE = IF k < STD_STREAM_SIZE THEN k ELSE k - STD_STREAM_SIZE
    <3> HIDE DEF k
    <3> QED BY <2>1, Wraps
  <2> QED BY <2>2 DEF Next1, Slots
<1> QED BY <1>1, <1>2, <1>3, <1>4, <1>5, <1>6

LEMMA ContentsIs ==
    /\ in \in Slots /\ out \in Slots => Contents = Queue(stream, in, out)
    /\ in' \in Slots /\ out' \in Slots => Contents' = Queue(stream', in', out')
<1>1. ASSUME in \in Slots, out \in Slots PROVE Contents = Queue(stream, in, out)
  <2>1. (in + STD_STREAM_SIZE - out) % STD_STREAM_SIZE = Held(in, out)
    BY <1>1, RingArithmetic
  <2>2. \A i \in 1..Held(in, out) : (out + i - 1) % STD_STREAM_SIZE = Slot(out, i)
    BY <1>1, RingArithmetic
  <2> QED BY <2>1, <2>2 DEF Contents, Queue
<1>2. ASSUME in' \in Slots, out' \in Slots PROVE Contents' = Queue(stream', in', out')
  <2>1. (in' + STD_STREAM_SIZE - out') % STD_STREAM_SIZE = Held(in', out')
    BY <1>2, RingArithmetic
  <2>2. \A i \in 1..Held(in', out') : (out' + i - 1) % STD_STREAM_SIZE = Slot(out', i)
    BY <1>2, RingArithmetic
  <2> QED BY <2>1, <2>2 DEF Contents, Queue
<1> QED BY <1>1, <1>2

(* put_std appends to what the ring holds.                                  *)
LEMMA PutAppends ==
    ASSUME NEW st \in [Slots -> Char], NEW a \in Slots, NEW b \in Slots, NEW x \in Char,
           NEW q \in Seq(Char), q = Queue(st, a, b), Held(a, b) # STD_STREAM_SIZE - 1,
           NEW st2, st2[a] = x, \A i \in Slots : i # a => st2[i] = st[i]
    PROVE  /\ Queue(st2, Next1(a), b) = Append(q, x)
           /\ Next1(a) # b
<1> USE ConsoleAssumption
<1> DEFINE n == Held(a, b)
           r == Queue(st2, Next1(a), b)
<1>1. Held(Next1(a), b) = n + 1 /\ n \in 0..(STD_STREAM_SIZE - 1)
  BY DEF Held, Next1, Slots
<1>2. r = [i \in 1..(n + 1) |-> st2[Slot(b, i)]]
  BY <1>1 DEF Queue
<1>3. \A i \in 1..(n + 1) : Slot(b, i) \in Slots /\ (Slot(b, i) = a <=> i = n + 1)
  BY RingArithmetic
<1>4. Len(q) = n /\ \A i \in 1..n : q[i] = st[Slot(b, i)]
  <2>1. q = [i \in 1..n |-> st[Slot(b, i)]]
    BY DEF Queue
  <2> HIDE DEF n
  <2> QED BY <1>1, <2>1
<1> HIDE DEF n, r
<1>5. /\ Append(q, x) \in Seq(Char) /\ Len(Append(q, x)) = n + 1
      /\ \A i \in 1..n : Append(q, x)[i] = q[i]
      /\ Append(q, x)[n + 1] = x
  BY <1>4, AppendProperties
<1>6. \A i \in 1..(n + 1) : r[i] = Append(q, x)[i]
  <2> SUFFICES ASSUME NEW i \in 1..(n + 1) PROVE r[i] = Append(q, x)[i]
    OBVIOUS
  <2>0. n \in Nat
    BY <1>1
  <2>1. CASE i = n + 1
    BY <1>2, <1>3, <1>5, <2>1
  <2>2. CASE i \in 1..n
    BY <1>1, <1>2, <1>3, <1>4, <1>5, <2>2
  <2>3. i = n + 1 \/ i \in 1..n
    BY <2>0
  <2> QED BY <2>1, <2>2, <2>3
<1>7. Append(q, x) = [i \in 1..(n + 1) |-> Append(q, x)[i]]
  BY <1>5, LenProperties
<1>8. r = Append(q, x)
  BY <1>2, <1>6, <1>7
<1>9. Next1(a) # b
  BY <1>1 DEF Held, n, Next1, Slots
<1> QED BY <1>8, <1>9 DEF r

(* get_std takes the first character of what the ring holds.                *)
LEMMA GetTakesFirst ==
    ASSUME NEW st \in [Slots -> Char], NEW a \in Slots, NEW b \in Slots, a # b,
           NEW q \in Seq(Char), q = Queue(st, a, b)
    PROVE  /\ q # <<>> /\ 1 \in 1..Len(q) /\ q[1] = st[b]
           /\ Queue(st, a, Next1(b)) = Tail(q)
<1> USE ConsoleAssumption
<1> DEFINE n == Held(a, b)
           r == Queue(st, a, Next1(b))
<1>1. Held(a, Next1(b)) = n - 1 /\ n \in 1..(STD_STREAM_SIZE - 1)
  BY DEF Held, Next1, Slots
<1>2. r = [i \in 1..(n - 1) |-> st[Slot(Next1(b), i)]]
  BY <1>1 DEF Queue
<1>3. Len(q) = n /\ \A i \in 1..n : q[i] = st[Slot(b, i)]
  <2>1. q = [i \in 1..n |-> st[Slot(b, i)]]
    BY DEF Queue
  <2> HIDE DEF n
  <2> QED BY <1>1, <2>1
<1>4. \A i \in 1..(n - 1) : Slot(Next1(b), i) = Slot(b, i + 1)
  BY <1>1 DEF Slot, Next1, Slots
<1>5. Slot(b, 1) = b
  BY DEF Slot, Slots
<1> HIDE DEF n, r
<1>6. q # <<>> /\ 1 \in 1..Len(q) /\ q[1] = st[b]
  BY <1>1, <1>3, <1>5
<1>7. /\ Tail(q) \in Seq(Char) /\ Len(Tail(q)) = n - 1
      /\ \A i \in 1..(n - 1) : Tail(q)[i] = q[i + 1]
  BY <1>3, <1>6, HeadTailProperties
<1>8. Tail(q) = [i \in 1..(n - 1) |-> Tail(q)[i]]
  BY <1>7, LenProperties
<1>9. \A i \in 1..(n - 1) : r[i] = Tail(q)[i]
  <2> SUFFICES ASSUME NEW i \in 1..(n - 1) PROVE r[i] = Tail(q)[i]
    OBVIOUS
  <2>1. i + 1 \in 1..n
    BY <1>1
  <2> QED BY <1>2, <1>3, <1>4, <1>7, <2>1
<1>10. r = Tail(q)
  BY <1>2, <1>8, <1>9
<1> QED BY <1>6, <1>10 DEF r

-----------------------------------------------------------------------------
(* What the proofs below use of a byte and of the line's end.               *)
LEMMA LastByteIsByte ==
    ASSUME raw \in BOOLEAN
    PROVE  LastByte \in Bytes /\ 0 \in Bytes /\ LINE_BUFFER_SIZE - 1 \in Bytes /\ "nul" \in Char
BY ConsoleAssumption DEF LastByte, Bytes, Char

(* A step that leaves the ring alone and does not go to a place where more  *)
(* is known of it.                                                          *)
LEMMA RingStays ==
    ASSUME TypeInv, QueueInv, UNCHANGED <<ring, sent>>,
           pc \in {"flush_out", "flush_in"} => pc' = pc,
           pc' = "flush_in" => pc = "flush_in",
           pc' \in {"get_char", "get_next"} => in # out
    PROVE  QueueInv'
<1>1. stream' = stream /\ in' = in /\ out' = out /\ sent' = sent
  BY DEF ring
<1>2. Contents' = Contents
  BY <1>1, ContentsIs DEF TypeInv
<1> QED BY <1>1, <1>2 DEF QueueInv, RingIsQueue

(* put_std, in the keyboard interrupt, wherever the shell is.               *)
LEMMA PutKeeps ==
    ASSUME TypeInv, QueueInv, NEW x \in Char, Put(x), pc' = pc
    PROVE  /\ stream' \in [Slots -> Char] /\ in' \in Slots /\ out' \in Slots
           /\ sent' \in Seq(Char)
           /\ sent' = IF Full THEN sent ELSE Append(sent, x)
           /\ QueueInv'
<1>1. CASE Full
  <2>1. UNCHANGED <<ring, sent>> /\ sent' = sent /\ stream' = stream /\ in' = in /\ out' = out
    BY <1>1 DEF Put, ring
  <2> QED BY <1>1, <2>1, RingStays DEF TypeInv, QueueInv
<1>2. CASE ~Full
  <2>1. /\ stream' = [stream EXCEPT ![in] = x] /\ in' = (in + 1) % STD_STREAM_SIZE
        /\ sent' = Append(sent, x) /\ out' = out
    BY <1>2 DEF Put
  <2>2. in' = Next1(in) /\ in' \in Slots
    BY <2>1, RingArithmetic DEF TypeInv
  <2>3. Held(in, out) # STD_STREAM_SIZE - 1
    BY <1>2, RingArithmetic DEF Full, TypeInv
  <2>4. sent' \in Seq(Char) /\ stream' \in [Slots -> Char] /\ out' \in Slots
    BY <2>1 DEF TypeInv
  <2>5. pc \notin {"flush_out", "flush_in"} =>
          Queue(stream', in', out') = sent' /\ in' # out'
    <3> SUFFICES ASSUME pc \notin {"flush_out", "flush_in"}
                 PROVE  Queue(stream', in', out') = sent' /\ in' # out'
      OBVIOUS
    <3>1. sent = Queue(stream, in, out)
      BY ContentsIs DEF QueueInv, RingIsQueue, TypeInv
    <3>2. stream \in [Slots -> Char] /\ in \in Slots /\ out \in Slots /\ sent \in Seq(Char)
      BY DEF TypeInv
    <3>3. Queue(stream', Next1(in), out) = Append(sent, x) /\ Next1(in) # out
      <4>1. stream'[in] = x /\ \A i \in Slots : i # in => stream'[i] = stream[i]
        BY <2>1, <3>2
      <4> QED BY <2>3, <3>1, <3>2, <4>1, PutAppends
    <3> QED BY <2>1, <2>2, <3>3
  <2>6. QueueInv'
    BY <2>1, <2>2, <2>4, <2>5, ContentsIs DEF QueueInv, RingIsQueue
  <2> QED BY <1>2, <2>1, <2>2, <2>4, <2>6
<1> QED BY <1>1, <1>2

-----------------------------------------------------------------------------
LEMMA TypeCharKeeps ==
    ASSUME ConsoleInv, NEW x \in Letter \cup {"newline"}, TypeChar(x)
    PROVE  ConsoleInv'
<1> USE ConsoleAssumption
<1>1. /\ buffer_i # LINE_BUFFER_SIZE - 1
      /\ line_buffer' = [line_buffer EXCEPT ![buffer_i] = x] /\ buffer_i' = buffer_i + 1
      /\ Put(x) /\ edit' = Append(edit, x) /\ entered' = (entered \/ x = "newline")
      /\ incidents' = incidents \cup Meet("ahead", entered) \cup Meet("dropped", Full)
                      \cup Meet("long", raw /\ buffer_i + 1 >= CLEARED_BYTES)
      /\ key_buffer' = key_buffer /\ pc' = pc /\ c' = c /\ j' = j /\ raw' = raw
  BY DEF TypeChar, LineHasRoom, shell
<1>2. x \in Char /\ x # "nul" /\ x \in Char \ {"nul"}
  BY DEF Char
<1>3. /\ buffer_i \in Nat /\ buffer_i < LINE_BUFFER_SIZE - 1 /\ buffer_i' \in Bytes
      /\ buffer_i' = buffer_i + 1 /\ buffer_i \in Bytes
  BY <1>1 DEF ConsoleInv, TypeInv, Bytes
<1>4. /\ stream' \in [Slots -> Char] /\ in' \in Slots /\ out' \in Slots /\ sent' \in Seq(Char)
      /\ sent' = IF Full THEN sent ELSE Append(sent, x)
      /\ QueueInv'
  BY <1>1, <1>2, PutKeeps DEF ConsoleInv
<1>5. /\ edit' \in Seq(Char \ {"nul"}) /\ Len(edit') = Len(edit) + 1
      /\ \A i \in 1..Len(edit) : edit'[i] = edit[i]
      /\ edit'[Len(edit) + 1] = x
  BY <1>1, <1>2, AppendProperties DEF ConsoleInv, TypeInv
<1>6. /\ line_buffer' \in [Bytes -> Char] /\ line_buffer'[buffer_i] = x
      /\ \A i \in Bytes : i # buffer_i => line_buffer'[i] = line_buffer[i]
  BY <1>1, <1>2, <1>3 DEF ConsoleInv, TypeInv
<1>7. incidents \subseteq incidents' /\ incidents' \subseteq {"ahead", "dropped", "long"}
  BY <1>1 DEF ConsoleInv, TypeInv, Meet
<1>8. TypeInv'
  BY <1>1, <1>3, <1>4, <1>5, <1>6, <1>7 DEF ConsoleInv, TypeInv
<1>9. /\ InClearedPart' => InClearedPart /\ (raw => buffer_i' < CLEARED_BYTES)
      /\ LastByte' = LastByte /\ LastByte \in Bytes
  <2>1. raw /\ buffer_i + 1 >= CLEARED_BYTES => "long" \in incidents'
    BY <1>1 DEF Meet
  <2>2. CLEARED_BYTES \in Nat
    OBVIOUS
  <2>3. LastByte' = LastByte /\ LastByte \in Bytes
    BY <1>1, LastByteIsByte DEF LastByte, ConsoleInv, TypeInv
  <2> QED BY <1>1, <1>3, <1>7, <2>1, <2>2, <2>3 DEF InClearedPart
<1>10. NulInv'
  <2>1. InClearedPart' => buffer_i # LastByte
    BY <1>1, <1>3, <1>9 DEF LastByte
  <2>2. buffer_i # LINE_BUFFER_SIZE - 1 /\ LINE_BUFFER_SIZE - 1 \in Bytes
    BY <1>1 DEF Bytes
  <2> QED BY <1>1, <1>6, <1>9, <2>1, <2>2 DEF ConsoleInv, NulInv
<1>11. EditInv'
  <2>1. Len(edit') = buffer_i' /\ Len(edit) = buffer_i
    BY <1>1, <1>5 DEF ConsoleInv, EditInv
  <2>2. ASSUME pc' \notin {"line_flush", "line_index"}, NEW i \in Bytes, i < buffer_i'
        PROVE  line_buffer'[i] = edit'[i + 1]
    <3>1. CASE i = buffer_i
      BY <1>5, <1>6, <2>1, <3>1
    <3>2. CASE i # buffer_i
      <4>1. i < buffer_i /\ i + 1 \in 1..Len(edit)
        BY <1>3, <2>1, <2>2, <3>2 DEF Bytes
      <4>2. line_buffer[i] = edit[i + 1]
        BY <1>1, <2>2, <4>1 DEF ConsoleInv, EditInv
      <4> QED BY <1>5, <1>6, <3>2, <4>1, <4>2
    <3> QED BY <3>1, <3>2
  <2> QED BY <2>1, <2>2 DEF EditInv
<1>12. Undisturbed' => Undisturbed /\ ~entered /\ ~Full
  BY <1>1, <1>7 DEF Undisturbed, Meet
<1>13. ServeInv'
  <2> SUFFICES ASSUME Undisturbed' PROVE ServeInv'
    BY DEF ServeInv
  <2>1. Undisturbed /\ ~entered /\ ~Full /\ (entered' <=> x = "newline") /\ pc \notin Serving
    BY <1>1, <1>12 DEF ConsoleInv, ServeInv
  <2>2. \A i \in 1..Len(sent') : sent'[i] = "newline" => entered'
    <3>1. /\ Len(sent') = Len(sent) + 1 /\ sent'[Len(sent) + 1] = x
          /\ \A i \in 1..Len(sent) : sent'[i] = sent[i]
      BY <1>2, <1>4, <2>1, AppendProperties DEF ConsoleInv, TypeInv
    <3>2. Len(sent) \in Nat
      BY DEF ConsoleInv, TypeInv
    <3>3. \A i \in 1..Len(sent) : sent[i] # "newline"
      BY <2>1 DEF ConsoleInv, ServeInv
    <3>4. \A i \in 1..(Len(sent) + 1) : i \in 1..Len(sent) \/ i = Len(sent) + 1
      BY <3>2
    <3> QED BY <2>1, <3>1, <3>3, <3>4
  <2>3. pc' = "get_next" /\ c' = "newline" => entered'
    BY <1>1, <2>1 DEF ConsoleInv, ServeInv
  <2>4. pc' \notin Serving /\ pc' \notin {"flush_out", "flush_in", "line_flush", "line_index"}
    BY <1>1, <2>1 DEF Serving
  <2>5. entered' => buffer_i' > 0 /\ edit'[buffer_i'] = "newline"
    BY <1>3, <1>5, <2>1 DEF ConsoleInv, EditInv
  <2>6. ASSUME InClearedPart', NEW i \in Bytes, i > buffer_i' \/ (i = buffer_i' /\ entered'),
               raw' => i < CLEARED_BYTES
        PROVE  line_buffer'[i] = "nul"
    <3>1. i > buffer_i /\ i # buffer_i
      BY <1>3, <2>6 DEF Bytes
    <3>2. line_buffer[i] = "nul"
      BY <1>1, <1>9, <2>1, <2>6, <3>1 DEF ConsoleInv, ServeInv
    <3> QED BY <1>6, <3>1, <3>2
  <2> QED BY <2>2, <2>3, <2>4, <2>5, <2>6 DEF ServeInv
<1>14. CopyInv'
  <2> SUFFICES ASSUME Undisturbed' PROVE CopyInv'
    BY DEF CopyInv
  <2>1. pc' \notin Serving
    BY <1>1, <1>12 DEF ConsoleInv, ServeInv
  <2> QED BY <2>1 DEF CopyInv, Serving
<1> QED BY <1>4, <1>8, <1>10, <1>11, <1>13, <1>14 DEF ConsoleInv

LEMMA BackspaceKeeps ==
    ASSUME ConsoleInv, Backspace
    PROVE  ConsoleInv'
<1> USE ConsoleAssumption
<1>1. /\ buffer_i # LINE_BUFFER_SIZE - 1 /\ buffer_i > 0
      /\ line_buffer' = [line_buffer EXCEPT ![buffer_i] = "nul"] /\ buffer_i' = buffer_i - 1
      /\ edit' = Front(edit) /\ incidents' = incidents \cup Meet("ahead", entered)
      /\ UNCHANGED <<ring, sent>> /\ sent' = sent /\ stream' = stream /\ in' = in /\ out' = out
      /\ key_buffer' = key_buffer /\ pc' = pc /\ c' = c /\ j' = j /\ raw' = raw /\ entered' = entered
  BY DEF Backspace, LineHasRoom, shell, ring
<1>2. /\ buffer_i \in Nat /\ buffer_i' \in Bytes /\ buffer_i' = buffer_i - 1 /\ buffer_i \in Bytes
      /\ Len(edit) = buffer_i
  BY <1>1 DEF ConsoleInv, TypeInv, EditInv, Bytes
<1>3. /\ edit' \in Seq(Char \ {"nul"}) /\ Len(edit') = buffer_i'
      /\ \A i \in 1..buffer_i' : edit'[i] = edit[i]
  <2>1. edit' = SubSeq(edit, 1, buffer_i - 1)
    BY <1>1, <1>2 DEF Front
  <2>2. edit \in Seq(Char \ {"nul"})
    BY DEF ConsoleInv, TypeInv
  <2>3. \A i \in 1..(buffer_i - 1) : edit[i] \in Char \ {"nul"}
    BY <1>2, <2>2, ElementOfSeq
  <2>4. 1 \in Int /\ buffer_i - 1 \in Int
    BY <1>2
  <2> HIDE DEF Front
  <2>5. /\ SubSeq(edit, 1, buffer_i - 1) \in Seq(Char \ {"nul"})
        /\ Len(SubSeq(edit, 1, buffer_i - 1)) = IF 1 <= buffer_i - 1 THEN (buffer_i - 1) - 1 + 1 ELSE 0
        /\ \A i \in 1..((buffer_i - 1) - 1 + 1) : SubSeq(edit, 1, buffer_i - 1)[i] = edit[1 + i - 1]
    BY <2>3, <2>4, SubSeqProperties
  <2> QED BY <1>1, <1>2, <2>1, <2>5
<1>4. /\ line_buffer' \in [Bytes -> Char] /\ line_buffer'[buffer_i] = "nul"
      /\ \A i \in Bytes : i # buffer_i => line_buffer'[i] = line_buffer[i]
  BY <1>1, <1>2 DEF ConsoleInv, TypeInv, Char
<1>5. incidents \subseteq incidents' /\ incidents' \subseteq {"ahead", "dropped", "long"}
      /\ ("long" \in incidents' <=> "long" \in incidents)
  BY <1>1 DEF ConsoleInv, TypeInv, Meet
<1>6. TypeInv'
  BY <1>1, <1>2, <1>3, <1>4, <1>5 DEF ConsoleInv, TypeInv
<1>7. QueueInv'
  BY <1>1, RingStays DEF ConsoleInv, QueueInv
<1>8. (InClearedPart' <=> InClearedPart) /\ LastByte' = LastByte /\ LastByte \in Bytes
      /\ LINE_BUFFER_SIZE - 1 \in Bytes
  BY <1>1, <1>5, LastByteIsByte DEF InClearedPart, LastByte, ConsoleInv, TypeInv
<1>9. NulInv'
  <2>1. \A i \in Bytes : line_buffer[i] = "nul" => line_buffer'[i] = "nul"
    BY <1>4
  <2>2. raw /\ InClearedPart => buffer_i' < CLEARED_BYTES
    BY <1>2 DEF ConsoleInv, NulInv
  <2> QED BY <1>1, <1>8, <2>1, <2>2 DEF ConsoleInv, NulInv
<1>10. EditInv'
  <2>1. ASSUME pc' \notin {"line_flush", "line_index"}, NEW i \in Bytes, i < buffer_i'
        PROVE  line_buffer'[i] = edit'[i + 1]
    <3>1. i < buffer_i /\ i # buffer_i /\ i + 1 \in 1..buffer_i'
      BY <1>2, <2>1 DEF Bytes
    <3>2. line_buffer[i] = edit[i + 1]
      BY <1>1, <2>1, <3>1 DEF ConsoleInv, EditInv
    <3> QED BY <1>3, <1>4, <3>1, <3>2
  <2> QED BY <1>3, <2>1 DEF EditInv
<1>11. Undisturbed' => Undisturbed /\ ~entered
  BY <1>1, <1>5 DEF Undisturbed, Meet
<1>12. ServeInv'
  <2> SUFFICES ASSUME Undisturbed' PROVE ServeInv'
    BY DEF ServeInv
  <2>1. Undisturbed /\ ~entered /\ ~entered'
    BY <1>1, <1>11
  <2>2. ASSUME InClearedPart', NEW i \in Bytes, i > buffer_i' \/ (i = buffer_i' /\ entered'),
               raw' => i < CLEARED_BYTES
        PROVE  line_buffer'[i] = "nul"
    <3>1. i = buffer_i \/ i > buffer_i
      BY <1>2, <2>1, <2>2 DEF Bytes
    <3>2. i > buffer_i => line_buffer[i] = "nul"
      BY <1>1, <1>8, <2>1, <2>2 DEF ConsoleInv, ServeInv
    <3> QED BY <1>4, <3>1, <3>2
  <2> QED BY <1>1, <2>1, <2>2 DEF ConsoleInv, ServeInv
<1>13. CopyInv'
  <2> SUFFICES ASSUME Undisturbed' PROVE CopyInv'
    BY DEF CopyInv
  <2>1. pc' \notin Serving
    BY <1>1, <1>11 DEF ConsoleInv, ServeInv
  <2> QED BY <2>1 DEF CopyInv, Serving
<1> QED BY <1>6, <1>7, <1>9, <1>10, <1>12, <1>13 DEF ConsoleInv

LEMMA GetTestKeeps ==
    ASSUME ConsoleInv, GetTest
    PROVE  ConsoleInv'
<1>1. /\ pc = "get" /\ pc' = "get_char" /\ in # out
      /\ UNCHANGED <<ring, sent>> /\ stream' = stream /\ in' = in /\ out' = out /\ sent' = sent
      /\ line_buffer' = line_buffer /\ buffer_i' = buffer_i
      /\ key_buffer' = key_buffer /\ c' = c /\ j' = j
      /\ edit' = edit /\ entered' = entered /\ raw' = raw /\ incidents' = incidents
  BY DEF GetTest, Goto, ring, line, user
<1>2. TypeInv'
  BY <1>1 DEF ConsoleInv, TypeInv, Label
<1>3. QueueInv'
  BY <1>1, RingStays DEF ConsoleInv
<1>4. NulInv' /\ EditInv'
  BY <1>1 DEF ConsoleInv, NulInv, EditInv, InClearedPart, LastByte
<1>5. ServeInv' /\ CopyInv'
  BY <1>1 DEF ConsoleInv, ServeInv, CopyInv, Undisturbed, InClearedPart, Serving
<1> QED BY <1>2, <1>3, <1>4, <1>5 DEF ConsoleInv

LEMMA GetCharKeeps ==
    ASSUME ConsoleInv, GetChar
    PROVE  ConsoleInv'
<1>1. /\ pc = "get_char" /\ pc' = "get_next" /\ c' = stream[out]
      /\ UNCHANGED <<ring, sent>> /\ stream' = stream /\ in' = in /\ out' = out /\ sent' = sent
      /\ line_buffer' = line_buffer /\ buffer_i' = buffer_i
      /\ key_buffer' = key_buffer /\ j' = j
      /\ edit' = edit /\ entered' = entered /\ raw' = raw /\ incidents' = incidents
  BY DEF GetChar, Goto, ring, line, user
<1>2. in # out
  BY <1>1 DEF ConsoleInv, QueueInv
<1>3. 1 \in 1..Len(sent) /\ sent[1] = c'
  <2>1. sent = Queue(stream, in, out)
    BY <1>1, ContentsIs DEF ConsoleInv, QueueInv, RingIsQueue, TypeInv
  <2>2. stream \in [Slots -> Char] /\ in \in Slots /\ out \in Slots /\ sent \in Seq(Char)
    BY DEF ConsoleInv, TypeInv
  <2> QED BY <1>1, <1>2, <2>1, <2>2, GetTakesFirst
<1>4. TypeInv'
  BY <1>1 DEF ConsoleInv, TypeInv, Label
<1>5. QueueInv'
  BY <1>1, <1>2, RingStays DEF ConsoleInv
<1>6. NulInv' /\ EditInv'
  BY <1>1 DEF ConsoleInv, NulInv, EditInv, InClearedPart, LastByte
<1>7. ServeInv' /\ CopyInv'
  BY <1>1, <1>3 DEF ConsoleInv, ServeInv, CopyInv, Undisturbed, InClearedPart, Serving
<1> QED BY <1>4, <1>5, <1>6, <1>7 DEF ConsoleInv

LEMMA GetNextKeeps ==
    ASSUME ConsoleInv, GetNext
    PROVE  ConsoleInv'
<1>1. /\ pc = "get_next" /\ pc' = (IF c = "newline" THEN "copy" ELSE "get")
      /\ stream' = stream /\ in' = in /\ out' = (out + 1) % STD_STREAM_SIZE /\ sent' = Tail(sent)
      /\ line_buffer' = line_buffer /\ buffer_i' = buffer_i
      /\ key_buffer' = key_buffer /\ c' = c /\ j' = j
      /\ edit' = edit /\ entered' = entered /\ raw' = raw /\ incidents' = incidents
  BY DEF GetNext, EndsLine, Goto, line, user
<1>2. stream \in [Slots -> Char] /\ in \in Slots /\ out \in Slots /\ sent \in Seq(Char)
      /\ in # out /\ j = 0
  BY <1>1 DEF ConsoleInv, TypeInv, QueueInv
<1>3. sent = Queue(stream, in, out)
  BY <1>1, <1>2, ContentsIs DEF ConsoleInv, QueueInv, RingIsQueue
<1>4. sent # <<>> /\ Queue(stream, in, Next1(out)) = Tail(sent)
  BY <1>2, <1>3, GetTakesFirst
<1>5. out' = Next1(out) /\ out' \in Slots
  BY <1>1, <1>2, RingArithmetic
<1>6. /\ sent' \in Seq(Char) /\ Len(sent') = Len(sent) - 1
      /\ \A i \in 1..Len(sent') : sent'[i] = sent[i + 1]
  BY <1>1, <1>2, <1>4, HeadTailProperties
<1>7. TypeInv'
  BY <1>1, <1>5, <1>6 DEF ConsoleInv, TypeInv, Label
<1>8. QueueInv'
  <2>1. Contents' = sent'
    BY <1>1, <1>2, <1>4, <1>5, ContentsIs
  <2> QED BY <1>1, <2>1 DEF QueueInv, RingIsQueue
<1>9. NulInv' /\ EditInv'
  <2>1. LastByte' = LastByte /\ LastByte \in Bytes /\ (InClearedPart' <=> InClearedPart)
    BY <1>1, LastByteIsByte DEF LastByte, InClearedPart, ConsoleInv, TypeInv
  <2>2. ~(LastByte < j)
    BY <1>2, <2>1 DEF Bytes
  <2> QED BY <1>1, <2>1, <2>2 DEF ConsoleInv, NulInv, EditInv
<1>10. ServeInv'
  <2> SUFFICES ASSUME Undisturbed, Undisturbed' PROVE ServeInv'
    BY <1>1 DEF ServeInv, Undisturbed
  <2>1. \A i \in 1..Len(sent') : sent'[i] = "newline" => entered'
    <3>1. \A i \in 1..Len(sent') : i + 1 \in 1..Len(sent)
      BY <1>2, <1>6
    <3> QED BY <1>1, <1>6, <3>1 DEF ConsoleInv, ServeInv
  <2> QED BY <1>1, <2>1 DEF ConsoleInv, ServeInv, InClearedPart, Serving
<1>11. CopyInv'
  <2>1. \A i \in Bytes : ~(i < j)
    BY <1>2 DEF Bytes
  <2> QED BY <1>1, <2>1 DEF CopyInv
<1> QED BY <1>7, <1>8, <1>9, <1>10, <1>11 DEF ConsoleInv

LEMMA CopyByteKeeps ==
    ASSUME ConsoleInv, CopyByte
    PROVE  ConsoleInv'
<1> USE ConsoleAssumption
<1>1. /\ pc = "copy" /\ key_buffer' = [key_buffer EXCEPT ![j] = line_buffer[j]]
      /\ UNCHANGED <<ring, sent>> /\ stream' = stream /\ in' = in /\ out' = out /\ sent' = sent
      /\ line_buffer' = line_buffer /\ buffer_i' = buffer_i /\ c' = c
      /\ edit' = edit /\ entered' = entered /\ raw' = raw /\ incidents' = incidents
      /\ \/ j + 1 \in Bytes /\ j' = j + 1 /\ pc' = "copy"
         \/ j + 1 \notin Bytes /\ j' = 0 /\ pc' = "strip"
  BY DEF CopyByte, Goto, ring, line, user
<1>2. /\ j \in Bytes /\ j \in Nat /\ 0 \in Bytes
      /\ key_buffer' \in [Bytes -> Char] /\ key_buffer'[j] = line_buffer[j]
      /\ \A i \in Bytes : i # j => key_buffer'[i] = key_buffer[i]
  BY <1>1 DEF ConsoleInv, TypeInv, Bytes
<1>3. \A i \in Bytes : \/ pc' = "copy" /\ (i < j' => i < j \/ i = j)
                       \/ pc' = "strip" /\ (i < j \/ i = j)
  BY <1>1, <1>2 DEF Bytes
<1>4. TypeInv'
  BY <1>1, <1>2 DEF ConsoleInv, TypeInv, Label
<1>5. QueueInv'
  BY <1>1, RingStays DEF ConsoleInv
<1>6. NulInv'
  <2>1. LastByte' = LastByte /\ LastByte \in Bytes /\ (InClearedPart' <=> InClearedPart)
    BY <1>1, LastByteIsByte DEF LastByte, InClearedPart, ConsoleInv, TypeInv
  <2>2. InClearedPart /\ (LastByte < j \/ LastByte = j) => key_buffer'[LastByte] = "nul"
    BY <1>1, <1>2, <2>1 DEF ConsoleInv, NulInv
  <2> QED BY <1>1, <1>3, <2>1, <2>2 DEF ConsoleInv, NulInv
<1>7. EditInv'
  BY <1>1 DEF ConsoleInv, EditInv
<1>8. ServeInv'
  BY <1>1 DEF ConsoleInv, ServeInv, Undisturbed, InClearedPart, Serving
<1>9. CopyInv'
  <2> SUFFICES ASSUME Undisturbed, Undisturbed' PROVE CopyInv'
    BY <1>1 DEF CopyInv, Undisturbed
  <2>1. \A i \in Bytes : i < j \/ i = j => key_buffer'[i] = line_buffer'[i]
    BY <1>1, <1>2 DEF ConsoleInv, CopyInv
  <2>2. pc' = "strip" => key_buffer' = line_buffer'
    BY <1>1, <1>2, <1>3, <2>1 DEF ConsoleInv, TypeInv
  <2> QED BY <1>1, <1>3, <2>1, <2>2 DEF CopyInv
<1> QED BY <1>4, <1>5, <1>6, <1>7, <1>8, <1>9 DEF ConsoleInv

LEMMA StripKeeps ==
    ASSUME ConsoleInv, Strip
    PROVE  ConsoleInv'
<1>1. /\ pc = "strip" /\ pc' = "run"
      /\ UNCHANGED <<ring, sent>> /\ stream' = stream /\ in' = in /\ out' = out /\ sent' = sent
      /\ line_buffer' = line_buffer /\ buffer_i' = buffer_i /\ c' = c /\ j' = j
      /\ edit' = edit /\ entered' = entered /\ raw' = raw /\ incidents' = incidents
  BY DEF Strip, Goto, ring, line, user
<1>2. key_buffer' \in [Bytes -> Char]
  <2>1. key_buffer' = key_buffer \/ key_buffer' = [key_buffer EXCEPT ![Strlen - 1] = "nul"]
    BY DEF Strip
  <2> QED BY <2>1 DEF ConsoleInv, TypeInv, Char
<1>3. TypeInv'
  BY <1>1, <1>2 DEF ConsoleInv, TypeInv, Label
<1>4. QueueInv'
  BY <1>1, RingStays DEF ConsoleInv
<1>5. NulInv' /\ EditInv'
  BY <1>1 DEF ConsoleInv, NulInv, EditInv, InClearedPart, LastByte
<1>6. ServeInv' /\ CopyInv'
  BY <1>1 DEF ConsoleInv, ServeInv, CopyInv, Undisturbed, InClearedPart, Serving
<1> QED BY <1>3, <1>4, <1>5, <1>6 DEF ConsoleInv

(* The three steps of flush_std; a key may come between any two of them.    *)
LEMMA FlushKeeps ==
    ASSUME ConsoleInv, FlushSlots \/ FlushOut \/ FlushIn
    PROVE  ConsoleInv'
<1> USE ConsoleAssumption
<1>1. /\ \/ /\ pc = "run" /\ pc' = "flush_out" /\ stream' = [i \in Slots |-> "nul"]
            /\ sent' = <<>> /\ in' = in /\ out' = out
         \/ /\ pc = "flush_out" /\ pc' = "flush_in" /\ out' = 0
            /\ stream' = stream /\ in' = in /\ sent' = sent
         \/ /\ pc = "flush_in" /\ pc' = "line_flush" /\ in' = 0 /\ sent' = <<>>
            /\ stream' = stream /\ out' = out
      /\ line_buffer' = line_buffer /\ buffer_i' = buffer_i
      /\ key_buffer' = key_buffer /\ c' = c /\ j' = j
      /\ edit' = edit /\ entered' = entered /\ raw' = raw /\ incidents' = incidents
  BY DEF FlushSlots, FlushOut, FlushIn, Goto, line, user
<1>2. 0 \in Slots /\ <<>> \in Seq(Char) /\ Len(<<>>) = 0 /\ "nul" \in Char
  BY EmptySeq DEF Slots, Char
<1>3. stream' \in [Slots -> Char] /\ in' \in Slots /\ out' \in Slots /\ sent' \in Seq(Char)
  BY <1>1, <1>2 DEF ConsoleInv, TypeInv
<1>4. TypeInv'
  BY <1>1, <1>3 DEF ConsoleInv, TypeInv, Label
<1>5. QueueInv'
  <2>1. CASE pc = "flush_in"
    <3>1. in' = 0 /\ out' = 0 /\ sent' = <<>> /\ pc' = "line_flush"
      BY <1>1, <2>1 DEF ConsoleInv, QueueInv
    <3>2. Held(0, 0) = 0
      BY DEF Held
    <3>3. Queue(stream', 0, 0) = <<>>
      BY <3>2 DEF Queue
    <3> QED BY <1>3, <3>1, <3>3, ContentsIs DEF QueueInv, RingIsQueue
  <2> QED BY <1>1, <2>1 DEF QueueInv, RingIsQueue
<1>6. NulInv' /\ EditInv'
  BY <1>1 DEF ConsoleInv, NulInv, EditInv, InClearedPart, LastByte
<1>7. ServeInv'
  <2> SUFFICES ASSUME Undisturbed, Undisturbed' PROVE ServeInv'
    BY <1>1 DEF ServeInv, Undisturbed
  <2>1. entered /\ sent' = <<>>
    BY <1>1 DEF ConsoleInv, ServeInv, Serving
  <2> QED BY <1>1, <1>2, <2>1 DEF ConsoleInv, ServeInv, InClearedPart, Serving
<1>8. CopyInv'
  <2>1. pc' = "line_flush" => \A i \in Bytes : ~(i < j')
    BY <1>1 DEF ConsoleInv, TypeInv, Bytes
  <2> QED BY <1>1, <2>1 DEF CopyInv
<1> QED BY <1>4, <1>5, <1>6, <1>7, <1>8 DEF ConsoleInv

LEMMA FlushLineKeeps ==
    ASSUME ConsoleInv, FlushLine
    PROVE  ConsoleInv'
<1> USE ConsoleAssumption
<1>1. /\ pc = "line_flush" /\ line_buffer' = [line_buffer EXCEPT ![j] = "nul"]
      /\ UNCHANGED <<ring, sent>> /\ stream' = stream /\ in' = in /\ out' = out /\ sent' = sent
      /\ buffer_i' = buffer_i /\ key_buffer' = key_buffer /\ c' = c
      /\ edit' = edit /\ entered' = entered /\ raw' = raw /\ incidents' = incidents
      /\ \/ j + 1 \in Bytes /\ j' = j + 1 /\ pc' = "line_flush"
         \/ j + 1 \notin Bytes /\ j' = 0 /\ pc' = "line_index"
  BY DEF FlushLine, Goto, ring, user
<1>2. /\ j \in Bytes /\ j \in Nat /\ 0 \in Bytes
      /\ line_buffer' \in [Bytes -> Char] /\ line_buffer'[j] = "nul"
      /\ \A i \in Bytes : i # j => line_buffer'[i] = line_buffer[i]
  BY <1>1 DEF ConsoleInv, TypeInv, Bytes, Char
<1>3. \A i \in Bytes : \/ pc' = "line_flush" /\ (i < j' => i < j \/ i = j)
                       \/ pc' = "line_index" /\ (i < j \/ i = j)
  BY <1>1, <1>2 DEF Bytes
<1>4. \A i \in Bytes : line_buffer[i] = "nul" => line_buffer'[i] = "nul"
  BY <1>2
<1>5. TypeInv'
  BY <1>1, <1>2 DEF ConsoleInv, TypeInv, Label
<1>6. QueueInv'
  BY <1>1, RingStays DEF ConsoleInv
<1>7. NulInv'
  <2>1. LastByte' = LastByte /\ LastByte \in Bytes /\ (InClearedPart' <=> InClearedPart)
    BY <1>1, LastByteIsByte DEF LastByte, InClearedPart, ConsoleInv, TypeInv
  <2>2. pc' = "line_index" => j = LINE_BUFFER_SIZE - 1
    BY <1>1, <1>2 DEF Bytes
  <2> QED BY <1>1, <1>2, <1>4, <2>1, <2>2 DEF ConsoleInv, NulInv
<1>8. EditInv'
  BY <1>1 DEF ConsoleInv, EditInv
<1>9. ServeInv'
  BY <1>1, <1>4 DEF ConsoleInv, ServeInv, Undisturbed, InClearedPart, Serving
<1>10. CopyInv'
  <2> SUFFICES ASSUME Undisturbed, Undisturbed' PROVE CopyInv'
    BY <1>1 DEF CopyInv, Undisturbed
  <2>1. \A i \in Bytes : i < j \/ i = j => line_buffer'[i] = "nul"
    BY <1>1, <1>2, <1>4 DEF ConsoleInv, CopyInv
  <2> QED BY <1>1, <1>3, <2>1 DEF CopyInv
<1> QED BY <1>5, <1>6, <1>7, <1>8, <1>9, <1>10 DEF ConsoleInv

LEMMA LineIndexKeeps ==
    ASSUME ConsoleInv, LineIndex
    PROVE  ConsoleInv'
<1> USE ConsoleAssumption
<1>1. /\ pc = "line_index" /\ pc' = "get" /\ buffer_i' = 0
      /\ key_buffer' = [key_buffer EXCEPT ![0] = "nul"]
      /\ edit' = <<>> /\ entered' = FALSE /\ raw' = FALSE
      /\ UNCHANGED <<ring, sent>> /\ stream' = stream /\ in' = in /\ out' = out /\ sent' = sent
      /\ line_buffer' = line_buffer /\ c' = c /\ j' = j /\ incidents' = incidents
  BY DEF LineIndex, IndexReset, Goto, ring
<1>2. 0 \in Bytes /\ <<>> \in Seq(Char \ {"nul"}) /\ Len(<<>>) = 0 /\ "nul" \in Char
  BY EmptySeq DEF Bytes, Char
<1>3. TypeInv'
  BY <1>1, <1>2 DEF ConsoleInv, TypeInv, Label
<1>4. QueueInv'
  BY <1>1, RingStays DEF ConsoleInv
<1>5. NulInv'
  <2>1. LastByte' = LINE_BUFFER_SIZE - 1
    BY <1>1 DEF LastByte
  <2> QED BY <1>1, <2>1 DEF ConsoleInv, NulInv
<1>6. EditInv'
  BY <1>1, <1>2 DEF EditInv, Bytes
<1>7. ServeInv'
  <2> SUFFICES ASSUME Undisturbed, Undisturbed' PROVE ServeInv'
    BY <1>1 DEF ServeInv, Undisturbed
  <2>1. sent' = <<>> /\ \A i \in Bytes : line_buffer'[i] = "nul"
    BY <1>1 DEF ConsoleInv, ServeInv, CopyInv
  <2> QED BY <1>1, <1>2, <2>1 DEF ServeInv, Serving
<1>8. CopyInv'
  BY <1>1 DEF CopyInv
<1> QED BY <1>3, <1>4, <1>5, <1>6, <1>7, <1>8 DEF ConsoleInv

-----------------------------------------------------------------------------
LEMMA InitConsole == Init => ConsoleInv
<1> SUFFICES ASSUME Init PROVE ConsoleInv
  OBVIOUS
<1> USE ConsoleAssumption
<1>1. 0 \in Slots /\ 0 \in Bytes /\ "nul" \in Char /\ <<>> \in Seq(Char)
      /\ <<>> \in Seq(Char \ {"nul"}) /\ Len(<<>>) = 0
  BY EmptySeq DEF Slots, Bytes, Char
<1>2. line_buffer \in [Bytes -> Char]
  BY DEF Init, Char
<1>3. TypeInv
  BY <1>1, <1>2 DEF Init, TypeInv, Label
<1>4. QueueInv
  <2>1. Held(0, 0) = 0
    BY DEF Held
  <2>2. Queue(stream, in, out) = <<>>
    BY <2>1 DEF Queue, Init
  <2> QED BY <1>3, <2>2, ContentsIs DEF Init, QueueInv, RingIsQueue, TypeInv
<1>5. NulInv
  <2>1. LastByte = CLEARED_BYTES - 1
    BY DEF Init, LastByte
  <2> QED BY <2>1 DEF Init, NulInv
<1>6. EditInv
  BY <1>1 DEF Init, EditInv, Bytes
<1>7. ServeInv
  <2>1. \A i \in Bytes : i < CLEARED_BYTES => line_buffer[i] = "nul"
    BY DEF Init, Bytes
  <2> QED BY <1>1, <2>1 DEF Init, ServeInv, Serving
<1>8. CopyInv
  BY DEF Init, CopyInv
<1> QED BY <1>3, <1>4, <1>5, <1>6, <1>7, <1>8 DEF ConsoleInv

LEMMA NextKeepsConsole == ConsoleInv /\ [Next]_vars => ConsoleInv'
<1> SUFFICES ASSUME ConsoleInv, [Next]_vars PROVE ConsoleInv'
  OBVIOUS
<1>1. CASE UNCHANGED vars
  <2>1. /\ UNCHANGED <<ring, sent>> /\ stream' = stream /\ in' = in /\ out' = out /\ sent' = sent
        /\ line_buffer' = line_buffer /\ buffer_i' = buffer_i
        /\ key_buffer' = key_buffer /\ pc' = pc /\ c' = c /\ j' = j
        /\ edit' = edit /\ entered' = entered /\ raw' = raw /\ incidents' = incidents
    BY <1>1 DEF vars, ring, line, shell, user
  <2>2. TypeInv'
    BY <2>1 DEF ConsoleInv, TypeInv
  <2>3. QueueInv'
    BY <2>1, RingStays DEF ConsoleInv, QueueInv
  <2>4. NulInv' /\ EditInv'
    BY <2>1 DEF ConsoleInv, NulInv, EditInv, InClearedPart, LastByte
  <2>5. ServeInv' /\ CopyInv'
    BY <2>1 DEF ConsoleInv, ServeInv, CopyInv, Undisturbed, InClearedPart
  <2> QED BY <2>2, <2>3, <2>4, <2>5 DEF ConsoleInv
<1>2. CASE Keyboard
  BY <1>2, TypeCharKeeps, BackspaceKeeps DEF Keyboard
<1>3. CASE Shell
  BY <1>3, GetTestKeeps, GetCharKeeps, GetNextKeeps, CopyByteKeeps, StripKeeps, FlushKeeps,
     FlushLineKeeps, LineIndexKeeps DEF Shell
<1> QED BY <1>1, <1>2, <1>3 DEF Next

LEMMA ConsoleInvariant == Spec => []ConsoleInv
BY InitConsole, NextKeepsConsole, PTL DEF Spec

(* put_std in the keyboard interrupt and get_std in the shell, without a    *)
(* lock: the ring holds what was sent and not yet received, in order.       *)
THEOREM RingIsAQueue == Spec => []RingIsQueue
<1>1. ConsoleInv => RingIsQueue
  BY DEF ConsoleInv, QueueInv
<1> QED BY <1>1, ConsoleInvariant, PTL

(* line_outbufn in read_stdin: the copy of the line has a NUL, whatever     *)
(* keys came while it was made, as long as the first line has not reached   *)
(* the bytes that kcalloc did not clear.                                    *)
THEOREM CopyHasNul == Spec => []CopyIsTerminated
<1>1. ConsoleInv => CopyIsTerminated
  BY LastByteIsByte DEF ConsoleInv, TypeInv, NulInv, CopyIsTerminated
<1> QED BY <1>1, ConsoleInvariant, PTL

(* read_stdin executes the line as the user edited it, up to and with its   *)
(* newline, if no key is accepted between Enter and the flush of the line   *)
(* and the ring never was full.                                             *)
THEOREM LineIsExecuted == Spec => []LineIsAsEdited
<1>1. ConsoleInv => LineIsAsEdited
  <2> SUFFICES ASSUME ConsoleInv, Undisturbed, pc = "strip", InClearedPart
               PROVE  Executes = edit /\ Last(edit) = "newline"
    BY DEF LineIsAsEdited
  <2> USE ConsoleAssumption
  <2>1. /\ entered /\ buffer_i > 0 /\ edit[buffer_i] = "newline" /\ Len(edit) = buffer_i
        /\ key_buffer = line_buffer /\ buffer_i \in Bytes /\ buffer_i \in Nat
        /\ raw => buffer_i < CLEARED_BYTES
    BY DEF ConsoleInv, ServeInv, CopyInv, EditInv, NulInv, TypeInv, Serving, Bytes
  <2>2. key_buffer[buffer_i] = "nul"
    BY <2>1 DEF ConsoleInv, ServeInv
  <2>3. \A i \in 0..(buffer_i - 1) : i \in Bytes /\ key_buffer[i] = edit[i + 1] /\ key_buffer[i] # "nul"
    <3> SUFFICES ASSUME NEW i \in 0..(buffer_i - 1)
                 PROVE  i \in Bytes /\ key_buffer[i] = edit[i + 1] /\ key_buffer[i] # "nul"
      OBVIOUS
    <3>1. i \in Bytes /\ i < buffer_i /\ i + 1 \in 1..Len(edit)
      BY <2>1 DEF Bytes
    <3>2. line_buffer[i] = edit[i + 1]
      BY <3>1 DEF ConsoleInv, EditInv
    <3>3. edit[i + 1] \in Char \ {"nul"}
      BY <3>1, ElementOfSeq DEF ConsoleInv, TypeInv
    <3> QED BY <2>1, <3>1, <3>2, <3>3
  <2>4. Strlen = buffer_i
    <3> DEFINE P(n) == /\ \A i \in 0..(n - 1) : key_buffer[i] # "nul"
                       /\ n \in Bytes => key_buffer[n] = "nul"
    <3>1. buffer_i \in 0..LINE_BUFFER_SIZE /\ P(buffer_i)
      BY <2>1, <2>2, <2>3 DEF Bytes
    <3>2. ASSUME NEW n \in 0..LINE_BUFFER_SIZE, P(n) PROVE n = buffer_i
      <4>1. CASE n < buffer_i
        <5>1. n \in 0..(buffer_i - 1) /\ n \in Bytes
          BY <2>1, <4>1 DEF Bytes
        <5> QED BY <2>3, <3>2, <5>1
      <4>2. CASE n > buffer_i
        <5>1. buffer_i \in 0..(n - 1)
          BY <2>1, <4>2
        <5> QED BY <2>2, <3>2, <5>1
      <4> QED BY <2>1, <4>1, <4>2
    <3> HIDE DEF P
    <3>3. (CHOOSE n \in 0..LINE_BUFFER_SIZE : P(n)) = buffer_i
      BY <3>1, <3>2
    <3> QED BY <3>3 DEF Strlen, P
  <2>5. Executes = [i \in 1..buffer_i |-> key_buffer[i - 1]]
    BY <2>4 DEF Executes
  <2>6. edit = [i \in 1..buffer_i |-> edit[i]]
    BY <2>1 DEF ConsoleInv, TypeInv
  <2>7. \A i \in 1..buffer_i : key_buffer[i - 1] = edit[i]
    <3> SUFFICES ASSUME NEW i \in 1..buffer_i PROVE key_buffer[i - 1] = edit[i]
      OBVIOUS
    <3>1. i - 1 \in 0..(buffer_i - 1) /\ (i - 1) + 1 = i
      BY <2>1
    <3> QED BY <2>3, <3>1
  <2>8. Executes = edit
    BY <2>5, <2>6, <2>7
  <2>9. Last(edit) = "newline"
    BY <2>1 DEF Last
  <2> QED BY <2>8, <2>9
<1> QED BY <1>1, ConsoleInvariant, PTL
=============================================================================
