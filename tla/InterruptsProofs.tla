-------------------------- MODULE InterruptsProofs --------------------------
(***************************************************************************)
(* Theorems about modules Interrupts and Serial.                           *)
(*                                                                         *)
(* ReadyForInterrupts, for any devices, any number of requests, threads    *)
(* and characters, any rate of the timer and both builds: interrupts are   *)
(* only enabled when the machine is ready for them.                        *)
(*                                                                         *)
(* The interrupts are enabled by a thread_create of kmain, which nothing   *)
(* orders after the set-up but the order of the calls in kmain.  The       *)
(* invariant therefore says, for every call of kmain, what is in place     *)
(* once it has returned, and that it stays in place: the controllers go    *)
(* on changing with every request and every end of interrupt, but not in   *)
(* what remap_pics has programmed.                                         *)
(***************************************************************************)
EXTENDS Interrupts, SequenceTheorems, FiniteSetTheorems, TLAPS

(* The calls of kmain that have returned.                                   *)
Calls == Len(BootSteps(tests))
Done == Calls - Len(boot)
BootInv ==
    /\ tests \in BOOLEAN
    /\ Len(boot) \in 0..Calls
    /\ boot = [i \in 1..Len(boot) |-> BootSteps(tests)[Done + i]]

(* The gates, the handlers and the period of the timer.                     *)
GateInv ==
    /\ idt = (IF Done >= 1 THEN {<<0, 31, "isr">>} ELSE {})
             \cup (IF Done >= 3 THEN {<<32, 47, "irq">>} ELSE {})
    /\ Done >= 4 => /\ HandlerOf(32) = "timer"
                    /\ 256 * pit[2] + pit[1] = Clock \div R_FREQ
    /\ Done >= 5 => HandlerOf(33) = "keyboard"
    /\ Done >= 8 => idtr

(* The controllers.                                                         *)
ChipOf(p) == [base |-> p.base, icw |-> p.icw, mask |-> p.mask, irr |-> p.irr, isr |-> p.isr]
PicInv ==
    /\ pic = [c \in Chips |-> ChipOf(pic[c])]
    /\ Done >= 2 => /\ \A c \in Chips : pic[c].mask = {} /\ pic[c].icw = 0
                    /\ pic["master"].base = 32 /\ pic["slave"].base = 40

(* No interrupt is enabled or in progress before init_processes.            *)
QuietInv == iflag \/ frames # <<>> => Done >= 10

ReadyInv == BootInv /\ GateInv /\ PicInv /\ QuietInv

-----------------------------------------------------------------------------
(* The steps of kmain, one by one.                                          *)
LEMMA StepsOfBoot ==
    ASSUME NEW t \in BOOLEAN
    PROVE  LET s == BootSteps(t) IN
           /\ Len(s) = (IF t THEN 12 ELSE 14)
           /\ s[1] = "install_isrs" /\ s[2] = "remap_pics" /\ s[3] = "install_irqs"
           /\ s[4] = "init_timer" /\ s[5] = "init_keyboard" /\ s[6] = "init_serial"
           /\ s[7] = "serial_clear" /\ s[8] = "load_idt" /\ s[9] = "init_alloc"
           /\ s[10] = "init_processes"
           /\ t => s[11] = "run_groups" /\ s[12] = "enable_interrupts"
           /\ ~t => /\ s[11] = "display_init" /\ s[12] = "shell_init"
                    /\ s[13] = "print_logo" /\ s[14] = "enable_interrupts"
<1>1. CASE t
  BY <1>1 DEF BootSteps
<1>2. CASE ~t
  BY <1>2 DEF BootSteps
<1> QED
  BY <1>1, <1>2

(* Two bytes are enough for the divisor of the timer.                       *)
LEMMA Divisor ==
    LET d == Clock \div R_FREQ IN
    256 * ((d \div 256) % 256) + (d % 256) = d
<1> DEFINE d == Clock \div R_FREQ
<1>1. R_FREQ \in Nat /\ R_FREQ >= 19
  BY InterruptsAssumption
<1>2. d \in Nat /\ d * R_FREQ <= 1193180
  BY SMT, <1>1 DEF Clock
<1>3. d <= 62798
  <2>1. SUFFICES ASSUME d >= 62799 PROVE FALSE
    BY SMT, <1>2
  <2>2. d * R_FREQ >= 62799 * 19
    <3> HIDE DEF d
    <3> QED
      BY SMT, <1>1, <1>2, <2>1
  <2> QED
    BY SMT, <1>1, <1>2, <2>2
<1> HIDE DEF d
<1>4. d \div 256 \in 0..255
  BY SMT, <1>2, <1>3
<1>5. 256 * (d \div 256) + (d % 256) = d
  BY SMT, <1>2
<1>6. (d \div 256) % 256 = d \div 256
  BY SMT, <1>4
<1>7. 256 * ((d \div 256) % 256) + (d % 256) = d
  BY SMT, <1>5, <1>6
<1> QED
  BY SMT, <1>7 DEF d

(* The state of both controllers, and what a write does to it.              *)
Both(p, q) == [c \in Chips |-> IF c = "master" THEN p ELSE q]
ChipIn(b, i, m) == [base |-> b, icw |-> i, mask |-> m, irr |-> {}, isr |-> {}]

LEMMA OutbToOne ==
    ASSUME NEW p, NEW q, NEW w
    PROVE  /\ w[1] = "master" /\ w[2] = "command" => Outb(Both(p, q), w) = Both(Command(p, w[3]), q)
           /\ w[1] = "slave" /\ w[2] = "command" => Outb(Both(p, q), w) = Both(p, Command(q, w[3]))
           /\ w[1] = "master" /\ w[2] = "data" => Outb(Both(p, q), w) = Both(Data(p, w[3]), q)
           /\ w[1] = "slave" /\ w[2] = "data" => Outb(Both(p, q), w) = Both(p, Data(q, w[3]))
BY DEF Outb, Both, Chips

(* A controller that is being set up.                                       *)
LEMMA SetUp ==
    ASSUME NEW b, NEW m
    PROVE  /\ \A p : Command(ChipOf(p), 17) = ChipIn(p.base, 2, {})
           /\ \A byte : Data(ChipIn(b, 2, m), byte) = ChipIn(byte, 3, m)
           /\ \A byte : Data(ChipIn(b, 3, m), byte) = ChipIn(b, 4, m)
           /\ \A byte : Data(ChipIn(b, 4, m), byte) = ChipIn(b, 0, m)
           /\ Data(ChipIn(b, 0, m), 0) = ChipIn(b, 0, {})
<1>1. \A p : Command(ChipOf(p), 17) = ChipIn(p.base, 2, {})
  BY DEF Command, ChipOf, ChipIn
<1>2. ASSUME NEW byte PROVE Data(ChipIn(b, 2, m), byte) = ChipIn(byte, 3, m)
  <2> DEFINE p == ChipIn(b, 2, m)
             q == [p EXCEPT !.base = byte]
  <2>1. Data(p, byte) = [q EXCEPT !.icw = 3]
    BY DEF Data, ChipIn
  <2>2. q = ChipIn(byte, 2, m)
    BY DEF ChipIn
  <2>3. [ChipIn(byte, 2, m) EXCEPT !.icw = 3] = ChipIn(byte, 3, m)
    BY DEF ChipIn
  <2> QED
    BY <2>1, <2>2, <2>3
<1>3. \A byte : Data(ChipIn(b, 3, m), byte) = ChipIn(b, 4, m)
  BY DEF Data, ChipIn
<1>4. \A byte : Data(ChipIn(b, 4, m), byte) = ChipIn(b, 0, m)
  BY DEF Data, ChipIn
<1>5. Data(ChipIn(b, 0, m), 0) = ChipIn(b, 0, {})
  BY DEF Data, ChipIn
<1> QED
  BY <1>1, <1>2, <1>3, <1>4, <1>5

(* What ten writes leave, the recursion in Written unfolded.                *)
LEMMA TenWrites ==
    ASSUME NEW v0, NEW ws, Len(ws) = 10
    PROVE  LET v1 == Outb(v0, ws[1])   v2 == Outb(v1, ws[2])   v3 == Outb(v2, ws[3])
               v4 == Outb(v3, ws[4])   v5 == Outb(v4, ws[5])   v6 == Outb(v5, ws[6])
               v7 == Outb(v6, ws[7])   v8 == Outb(v7, ws[8])   v9 == Outb(v8, ws[9])
           IN  Written(v0, ws) = Outb(v9, ws[10])
<1> DEFINE v1 == Outb(v0, ws[1])   v2 == Outb(v1, ws[2])   v3 == Outb(v2, ws[3])
           v4 == Outb(v3, ws[4])   v5 == Outb(v4, ws[5])   v6 == Outb(v5, ws[6])
           v7 == Outb(v6, ws[7])   v8 == Outb(v7, ws[8])   v9 == Outb(v8, ws[9])
           v10 == Outb(v9, ws[10])
<1> DEFINE Step(f) == [n \in 0..Len(ws) |-> IF n = 0 THEN v0 ELSE Outb(f[n - 1], ws[n])]
           g == [n \in 0..Len(ws) |->
                    IF n = 0 THEN v0 ELSE IF n = 1 THEN v1 ELSE IF n = 2 THEN v2 ELSE
                    IF n = 3 THEN v3 ELSE IF n = 4 THEN v4 ELSE IF n = 5 THEN v5 ELSE
                    IF n = 6 THEN v6 ELSE IF n = 7 THEN v7 ELSE IF n = 8 THEN v8 ELSE
                    IF n = 9 THEN v9 ELSE v10]
           f == CHOOSE f : f = Step(f)
<1>1. g = Step(g)
  <2>1. ASSUME NEW n \in 0..Len(ws) PROVE g[n] = Step(g)[n]
    <3>1. n \in 0..10
      OBVIOUS
    <3>2. CASE n \in 0..5
      BY <3>2
    <3>3. CASE n \in 6..10
      BY <3>3
    <3>4. n \in 0..5 \/ n \in 6..10
      <4> HIDE DEF g, Step
      <4> QED
        BY <3>1
    <3> HIDE DEF g, Step
    <3> QED
      BY Zenon, <3>2, <3>3, <3>4
  <2> QED
    BY <2>1
<1>2. f = Step(f)
  BY <1>1
<1>3. Written(v0, ws) = f[Len(ws)]
  BY DEF Written
<1> HIDE DEF f, g
<1>4. \A n \in 0..10 : f[n] = IF n = 0 THEN v0 ELSE Outb(f[n - 1], ws[n])
  BY <1>2
<1>5. f[0] = v0 /\ f[1] = Outb(f[0], ws[1]) /\ f[2] = Outb(f[1], ws[2])
      /\ f[3] = Outb(f[2], ws[3]) /\ f[4] = Outb(f[3], ws[4]) /\ f[5] = Outb(f[4], ws[5])
      /\ f[6] = Outb(f[5], ws[6]) /\ f[7] = Outb(f[6], ws[7]) /\ f[8] = Outb(f[7], ws[8])
      /\ f[9] = Outb(f[8], ws[9]) /\ f[10] = Outb(f[9], ws[10])
  BY <1>4
<1>6. f[10] = v10
  BY Zenon, <1>5
<1> QED
  BY <1>3, <1>6

(* What remap_pics leaves in the controllers, whatever was in them.         *)
LEMMA Remapped ==
    ASSUME NEW ps, ps = [c \in Chips |-> ChipOf(ps[c])]
    PROVE  Written(ps, remap_pics) = Both(ChipIn(32, 0, {}), ChipIn(40, 0, {}))
<1> DEFINE mb == ps["master"].base
           sb == ps["slave"].base
           w == remap_pics
           s0 == ChipOf(ps["slave"])
<1>1. ps = Both(ChipOf(ps["master"]), s0)
  BY DEF Chips, Both
<1> HIDE DEF w, mb, sb
<1>2. Len(w) = 10
  BY DEF w, remap_pics
<1>3. Outb(Both(ChipOf(ps["master"]), s0), w[1])
       = Both(ChipIn(mb, 2, {}), s0)
  <2>1. w[1][1] = "master" /\ w[1][2] = "command" /\ w[1][3] = 17
    BY DEF w, remap_pics, SlaveBase
  <2> QED
    BY <2>1, OutbToOne, SetUp DEF s0, mb
<1>4. Outb(Both(ChipIn(mb, 2, {}), s0), w[2])
       = Both(ChipIn(mb, 2, {}), ChipIn(sb, 2, {}))
  <2>1. w[2][1] = "slave" /\ w[2][2] = "command" /\ w[2][3] = 17
    BY DEF w, remap_pics, SlaveBase
  <2> QED
    BY <2>1, OutbToOne, SetUp DEF s0, sb
<1>5. Outb(Both(ChipIn(mb, 2, {}), ChipIn(sb, 2, {})), w[3])
       = Both(ChipIn(32, 3, {}), ChipIn(sb, 2, {}))
  <2>1. w[3][1] = "master" /\ w[3][2] = "data" /\ w[3][3] = 32
    BY DEF w, remap_pics, SlaveBase
  <2> QED
    BY <2>1, OutbToOne, SetUp DEF s0
<1>6. Outb(Both(ChipIn(32, 3, {}), ChipIn(sb, 2, {})), w[4])
       = Both(ChipIn(32, 3, {}), ChipIn(40, 3, {}))
  <2>1. w[4][1] = "slave" /\ w[4][2] = "data" /\ w[4][3] = 40
    BY DEF w, remap_pics, SlaveBase
  <2> QED
    BY <2>1, OutbToOne, SetUp DEF s0
<1>7. Outb(Both(ChipIn(32, 3, {}), ChipIn(40, 3, {})), w[5])
       = Both(ChipIn(32, 4, {}), ChipIn(40, 3, {}))
  <2>1. w[5][1] = "master" /\ w[5][2] = "data" /\ w[5][3] = 4
    BY DEF w, remap_pics, SlaveBase
  <2> QED
    BY <2>1, OutbToOne, SetUp DEF s0
<1>8. Outb(Both(ChipIn(32, 4, {}), ChipIn(40, 3, {})), w[6])
       = Both(ChipIn(32, 4, {}), ChipIn(40, 4, {}))
  <2>1. w[6][1] = "slave" /\ w[6][2] = "data" /\ w[6][3] = 2
    BY DEF w, remap_pics, SlaveBase
  <2> QED
    BY <2>1, OutbToOne, SetUp DEF s0
<1>9. Outb(Both(ChipIn(32, 4, {}), ChipIn(40, 4, {})), w[7])
       = Both(ChipIn(32, 0, {}), ChipIn(40, 4, {}))
  <2>1. w[7][1] = "master" /\ w[7][2] = "data" /\ w[7][3] = 1
    BY DEF w, remap_pics, SlaveBase
  <2> QED
    BY <2>1, OutbToOne, SetUp DEF s0
<1>10. Outb(Both(ChipIn(32, 0, {}), ChipIn(40, 4, {})), w[8])
       = Both(ChipIn(32, 0, {}), ChipIn(40, 0, {}))
  <2>1. w[8][1] = "slave" /\ w[8][2] = "data" /\ w[8][3] = 1
    BY DEF w, remap_pics, SlaveBase
  <2> QED
    BY <2>1, OutbToOne, SetUp DEF s0
<1>11. Outb(Both(ChipIn(32, 0, {}), ChipIn(40, 0, {})), w[9])
       = Both(ChipIn(32, 0, {}), ChipIn(40, 0, {}))
  <2>1. w[9][1] = "master" /\ w[9][2] = "data" /\ w[9][3] = 0
    BY DEF w, remap_pics, SlaveBase
  <2> QED
    BY <2>1, OutbToOne, SetUp DEF s0
<1>12. Outb(Both(ChipIn(32, 0, {}), ChipIn(40, 0, {})), w[10])
       = Both(ChipIn(32, 0, {}), ChipIn(40, 0, {}))
  <2>1. w[10][1] = "slave" /\ w[10][2] = "data" /\ w[10][3] = 0
    BY DEF w, remap_pics, SlaveBase
  <2> QED
    BY <2>1, OutbToOne, SetUp DEF s0
<1> DEFINE v1 == Both(ChipIn(mb, 2, {}), s0)
           v2 == Both(ChipIn(mb, 2, {}), ChipIn(sb, 2, {}))
           v3 == Both(ChipIn(32, 3, {}), ChipIn(sb, 2, {}))
           v4 == Both(ChipIn(32, 3, {}), ChipIn(40, 3, {}))
           v5 == Both(ChipIn(32, 4, {}), ChipIn(40, 3, {}))
           v6 == Both(ChipIn(32, 4, {}), ChipIn(40, 4, {}))
           v7 == Both(ChipIn(32, 0, {}), ChipIn(40, 4, {}))
           v8 == Both(ChipIn(32, 0, {}), ChipIn(40, 0, {}))
<1>13. /\ v1 = Outb(ps, w[1]) /\ v2 = Outb(v1, w[2]) /\ v3 = Outb(v2, w[3]) /\ v4 = Outb(v3, w[4])
       /\ v5 = Outb(v4, w[5]) /\ v6 = Outb(v5, w[6]) /\ v7 = Outb(v6, w[7]) /\ v8 = Outb(v7, w[8])
       /\ v8 = Outb(v8, w[9]) /\ v8 = Outb(v8, w[10])
  BY <1>1, <1>3, <1>4, <1>5, <1>6, <1>7, <1>8, <1>9, <1>10, <1>11, <1>12
<1> HIDE DEF v1, v2, v3, v4, v5, v6, v7, v8
<1> DEFINE u1 == Outb(ps, w[1])   u2 == Outb(u1, w[2])   u3 == Outb(u2, w[3])
           u4 == Outb(u3, w[4])   u5 == Outb(u4, w[5])   u6 == Outb(u5, w[6])
           u7 == Outb(u6, w[7])   u8 == Outb(u7, w[8])   u9 == Outb(u8, w[9])
           u10 == Outb(u9, w[10])
<1>14. Written(ps, w) = u10
  BY <1>2, TenWrites
<1>15. u4 = v4
  BY <1>13
<1> HIDE DEF u4
<1>16. u7 = v7
  BY <1>13, <1>15
<1> HIDE DEF u7
<1>17. u10 = v8
  BY <1>13, <1>16
<1> QED
  BY <1>14, <1>17 DEF w, v8

-----------------------------------------------------------------------------
(* A call of kmain is known by its name.                                    *)
LEMMA Position ==
    ASSUME NEW t \in BOOLEAN, NEW k \in 1..Len(BootSteps(t))
    PROVE  LET s == BootSteps(t)[k] IN
           /\ s = "install_isrs" => k = 1
           /\ s = "remap_pics" => k = 2
           /\ s = "install_irqs" => k = 3
           /\ s = "init_timer" => k = 4
           /\ s = "init_keyboard" => k = 5
           /\ s = "init_serial" => k = 6
           /\ s = "serial_clear" => k = 7
           /\ s = "load_idt" => k = 8
           /\ s \in {"init_alloc", "init_processes", "run_groups", "display_init", "shell_init",
                      "print_logo", "enable_interrupts"} => k >= 9
           /\ s \in {"init_processes", "run_groups", "shell_init", "enable_interrupts"} => k >= 10
<1> DEFINE b == BootSteps(t)
<1>0. /\ Len(b) = (IF t THEN 12 ELSE 14)
      /\ b[1] = "install_isrs" /\ b[2] = "remap_pics" /\ b[3] = "install_irqs"
      /\ b[4] = "init_timer" /\ b[5] = "init_keyboard" /\ b[6] = "init_serial"
      /\ b[7] = "serial_clear" /\ b[8] = "load_idt" /\ b[9] = "init_alloc"
      /\ b[10] = "init_processes"
      /\ t => b[11] = "run_groups" /\ b[12] = "enable_interrupts"
      /\ ~t => /\ b[11] = "display_init" /\ b[12] = "shell_init"
               /\ b[13] = "print_logo" /\ b[14] = "enable_interrupts"
  BY StepsOfBoot
<1> HIDE DEF b
<1> SUFFICES /\ b[k] = "install_isrs" => k = 1
             /\ b[k] = "remap_pics" => k = 2
             /\ b[k] = "install_irqs" => k = 3
             /\ b[k] = "init_timer" => k = 4
             /\ b[k] = "init_keyboard" => k = 5
             /\ b[k] = "init_serial" => k = 6
             /\ b[k] = "serial_clear" => k = 7
             /\ b[k] = "load_idt" => k = 8
             /\ b[k] \in {"init_alloc", "init_processes", "run_groups", "display_init", "shell_init",
                          "print_logo", "enable_interrupts"} => k >= 9
             /\ b[k] \in {"init_processes", "run_groups", "shell_init", "enable_interrupts"}
                  => k >= 10
  BY DEF b
<1>1. k \in Nat /\ k <= Len(b) /\ k >= 1
  BY <1>0 DEF b
<1>2. CASE k \in 1..10
  BY <1>0, <1>2
<1>3. CASE k > 10 /\ t
  <2>1. k = 11 \/ k = 12
    BY <1>0, <1>1, <1>3
  <2> QED
    BY <1>0, <1>3, <2>1
<1>4. CASE k > 10 /\ ~t
  <2>1. k = 11 \/ k = 12 \/ k = 13 \/ k = 14
    BY <1>0, <1>1, <1>4
  <2> QED
    BY <1>0, <1>4, <2>1
<1> QED
  BY <1>1, <1>2, <1>3, <1>4

LEMMA CallsType == ASSUME NEW t \in BOOLEAN PROVE Len(BootSteps(t)) \in 12..14
BY StepsOfBoot

(* A call of kmain returns.                                                 *)
LEMMA Returns ==
    ASSUME BootInv, NEW step, Booting(step)
    PROVE  /\ BootInv' /\ Calls' = Calls /\ Done \in Nat /\ Done' = Done + 1
           /\ Done + 1 \in 1..Calls /\ step = BootSteps(tests)[Done + 1]
<1> DEFINE s == BootSteps(tests)
           n == Len(boot)
<1>1. Len(s) \in 12..14
  BY CallsType DEF BootInv
<1>2. n \in 0..Len(s) /\ boot = [i \in 1..n |-> s[Len(s) - n + i]]
  BY DEF BootInv, Calls, Done
<1> HIDE DEF s
<1>3. boot \in Seq({s[i] : i \in 1..Len(s)})
  <2>1. \A i \in 1..n : boot[i] = s[Len(s) - n + i] /\ Len(s) - n + i \in 1..Len(s)
    BY <1>1, <1>2
  <2>2. boot = [i \in 1..n |-> boot[i]]
    BY <1>2
  <2> HIDE DEF n
  <2> QED
    BY <1>2, <2>1, <2>2
<1>4. /\ boot # <<>> /\ step = Head(boot) /\ boot' = Tail(boot) /\ tests' = tests
  BY DEF Booting
<1>5. /\ n # 0 /\ Len(boot') = n - 1 /\ step = boot[1]
      /\ \A i \in 1..n - 1 : boot'[i] = boot[i + 1]
  BY <1>3, <1>4, HeadTailProperties, EmptySeq
<1>6. boot' \in Seq({s[i] : i \in 1..Len(s)})
  BY <1>3, <1>4, HeadTailProperties
<1>7. boot' = [i \in 1..n - 1 |-> s[Len(s) - (n - 1) + i]]
  BY <1>1, <1>2, <1>5, <1>6
<1>8. s' = s
  BY <1>4 DEF s
<1>9. step = s[Len(s) - n + 1]
  BY <1>1, <1>2, <1>5
<1>10. Calls = Len(s) /\ Calls' = Len(s) /\ Done = Len(s) - n /\ Done' = Len(s) - (n - 1)
  BY <1>5, <1>8 DEF Calls, Done, s
<1>11. BootInv'
  <2>1. boot' = [i \in 1..Len(boot') |-> s'[Done' + i]]
    BY <1>5, <1>7, <1>8, <1>10
  <2>2. Len(boot') \in 0..Calls' /\ tests' \in BOOLEAN
    BY <1>1, <1>2, <1>4, <1>5, <1>10 DEF BootInv
  <2> QED
    BY <2>1, <2>2 DEF BootInv, s
<1>12. Done \in Nat /\ Done' = Done + 1 /\ Done + 1 \in 1..Len(s) /\ step = s[Done + 1]
  BY <1>1, <1>2, <1>5, <1>9, <1>10
<1> QED
  BY <1>10, <1>11, <1>12 DEF s

(* What is said of interrupt_handlers survives another registration.        *)
LEMMA Registered ==
    ASSUME NEW ns, NEW handler, register_interrupt_handler(ns, handler), NEW n
    PROVE  HandlerOf(n)' = IF n \in ns THEN handler ELSE HandlerOf(n)
BY DEF register_interrupt_handler, HandlerOf

-----------------------------------------------------------------------------
LEMMA InitReady == Init => ReadyInv
<1> SUFFICES ASSUME Init PROVE ReadyInv
  OBVIOUS
<1>1. Len(BootSteps(tests)) \in 12..14 /\ tests \in BOOLEAN
  BY CallsType, InterruptsAssumption DEF Init
<1> DEFINE s == BootSteps(tests)
<1>a. s = [i \in 1..Len(s) |-> s[i]]
  <2>1. CASE tests
    BY <2>1 DEF BootSteps
  <2>2. CASE ~tests
    BY <2>2 DEF BootSteps
  <2> QED
    BY <2>1, <2>2
<1>b. boot = s
  BY DEF Init
<1>2. BootInv /\ Done = 0
  <2> HIDE DEF s
  <2>1. Len(s) \in 0..Len(s) /\ Len(s) - Len(s) = 0
    BY <1>1 DEF s
  <2>2. Calls = Len(s) /\ Len(boot) = Len(s) /\ Done = 0
    BY <1>b, <2>1 DEF Calls, Done, s
  <2>3. boot = [i \in 1..Len(boot) |-> s[Done + i]]
    BY <1>a, <1>b, <2>1, <2>2
  <2> QED
    BY <1>1, <2>1, <2>2, <2>3 DEF BootInv, s
<1>3. GateInv
  BY <1>2 DEF GateInv, Init
<1>4. PicInv
  BY <1>2 DEF PicInv, Init, PowerOn, ChipOf
<1>5. QuietInv
  BY <1>2 DEF QuietInv, Init
<1> QED
  BY <1>2, <1>3, <1>4, <1>5 DEF ReadyInv

(* The calls that set the machine up.                                       *)
LEMMA SetUpReady ==
    ASSUME ReadyInv,
           \/ install_isrs \/ RemapPics \/ install_irqs \/ init_timer \/ init_keyboard
           \/ InitSerial \/ SerialClear \/ load_idt
    PROVE  ReadyInv'
<1> USE DEF ReadyInv
<1>1. CASE install_isrs
  <2>1. BootInv' /\ Done = 0 /\ Done' = 1
    BY <1>1, Returns, Position DEF install_isrs, BootInv, Calls
  <2> QED
    BY <1>1, <2>1 DEF install_isrs, set_idt_gates, Booting, Running, GateInv, PicInv, QuietInv, ChipOf
<1>2. CASE RemapPics
  <2>1. BootInv' /\ Done = 1 /\ Done' = 2
    BY <1>2, Returns, Position DEF RemapPics, BootInv, Calls
  <2>2. pic' = Both(ChipIn(32, 0, {}), ChipIn(40, 0, {}))
    BY <1>2, Remapped DEF RemapPics, PicInv
  <2>3. PicInv'
    BY <2>2 DEF PicInv, Both, ChipIn, ChipOf, Chips
  <2> QED
    BY <1>2, <2>1, <2>3 DEF RemapPics, Booting, Running, GateInv, QuietInv, HandlerOf
<1>3. CASE install_irqs
  <2>1. BootInv' /\ Done = 2 /\ Done' = 3
    BY <1>3, Returns, Position DEF install_irqs, BootInv, Calls
  <2> QED
    BY <1>3, <2>1 DEF install_irqs, set_idt_gates, Booting, Running, GateInv, PicInv, QuietInv, ChipOf
<1>4. CASE init_timer
  <2>1. BootInv' /\ Done = 3 /\ Done' = 4
    BY <1>4, Returns, Position DEF init_timer, BootInv, Calls
  <2>2. HandlerOf(32)' = "timer"
    BY <1>4, Registered DEF init_timer
  <2>3. 256 * pit'[2] + pit'[1] = Clock \div R_FREQ
    BY <1>4, Divisor DEF init_timer
  <2> QED
    BY <1>4, <2>1, <2>2, <2>3 DEF init_timer, Booting, Running, GateInv, PicInv, QuietInv, ChipOf
<1>5. CASE init_keyboard
  <2>1. BootInv' /\ Done = 4 /\ Done' = 5
    BY <1>5, Returns, Position DEF init_keyboard, BootInv, Calls
  <2>2. HandlerOf(33)' = "keyboard" /\ HandlerOf(32)' = HandlerOf(32)
    BY <1>5, Registered DEF init_keyboard
  <2> QED
    BY <1>5, <2>1, <2>2 DEF init_keyboard, Booting, Running, GateInv, PicInv, QuietInv, ChipOf
<1>6. CASE InitSerial
  <2>1. BootInv' /\ Done = 5 /\ Done' = 6
    BY <1>6, Returns, Position DEF InitSerial, BootInv, Calls
  <2>2. HandlerOf(33)' = HandlerOf(33) /\ HandlerOf(32)' = HandlerOf(32)
    BY <1>6, Registered DEF InitSerial
  <2> QED
    BY <1>6, <2>1, <2>2 DEF InitSerial, Booting, Running, GateInv, PicInv, QuietInv, ChipOf
<1>7. CASE SerialClear
  <2>1. BootInv' /\ Done = 6 /\ Done' = 7
    BY <1>7, Returns, Position DEF SerialClear, BootInv, Calls
  <2> QED
    BY <1>7, <2>1 DEF SerialClear, machine, Booting, Running, GateInv, PicInv, QuietInv, ChipOf, HandlerOf
<1>8. CASE load_idt
  <2>1. BootInv' /\ Done = 7 /\ Done' = 8
    BY <1>8, Returns, Position DEF load_idt, BootInv, Calls
  <2> QED
    BY <1>8, <2>1 DEF load_idt, Booting, Running, GateInv, PicInv, QuietInv, ChipOf, HandlerOf
<1> QED
  BY <1>1, <1>2, <1>3, <1>4, <1>5, <1>6, <1>7, <1>8

(* The calls after it, some of which enable the interrupts.                 *)
LEMMA BringUpReady ==
    ASSUME ReadyInv,
           NEW step \in {"init_alloc", "init_processes", "run_groups", "display_init",
                         "shell_init", "print_logo", "enable_interrupts"},
           BringUp(step)
    PROVE  ReadyInv'
<1> USE DEF ReadyInv
<1>1. /\ BootInv' /\ Done \in Nat /\ Done >= 8 /\ Done' = Done + 1
      /\ step \in {"init_processes", "run_groups", "shell_init", "enable_interrupts"} => Done >= 9
  BY Returns, Position DEF BringUp, BootInv, Calls
<1>2. GateInv'
  BY <1>1 DEF BringUp, GateInv, HandlerOf
<1>3. PicInv'
  BY <1>1 DEF BringUp, PicInv, ChipOf
<1>4. QuietInv'
  <2>1. frames' = <<>>
    BY DEF BringUp, Booting, Running
  <2>2. iflag' => iflag \/ step \in {"init_processes", "run_groups", "shell_init", "enable_interrupts"}
    BY Zenon DEF BringUp
  <2> QED
    BY <1>1, <2>1, <2>2 DEF QuietInv
<1> QED
  BY <1>1, <1>2, <1>3, <1>4

-----------------------------------------------------------------------------
(* The rest leaves the set-up alone.                                        *)
SetUpAlone ==
    /\ UNCHANGED <<tests, boot, idtr, idt, interrupt_handlers, pit>>
    /\ pic' = [c \in Chips |-> ChipOf(pic'[c])]
    /\ \A c \in Chips : /\ pic'[c].base = pic[c].base
                        /\ pic[c].icw = 0 /\ pic[c].mask = {}
                           => pic'[c].icw = 0 /\ pic'[c].mask = {}

LEMMA AloneReady ==
    ASSUME ReadyInv, SetUpAlone, QuietInv'
    PROVE  ReadyInv'
<1>1. Done' = Done /\ Calls' = Calls
  BY DEF SetUpAlone, Done, Calls
<1>2. BootInv'
  BY <1>1 DEF ReadyInv, BootInv, SetUpAlone
<1>3. GateInv'
  BY <1>1 DEF ReadyInv, GateInv, SetUpAlone, HandlerOf
<1>4. PicInv'
  BY <1>1 DEF ReadyInv, PicInv, SetUpAlone, Chips
<1> QED
  BY <1>2, <1>3, <1>4 DEF ReadyInv

(* A request of a device, and one that is accepted.                         *)
SameSetUp(p, q) == q = ChipOf(q) /\ q.base = p.base /\ q.icw = p.icw /\ q.mask = p.mask

LEMMA Requested ==
    ASSUME NEW p, p = ChipOf(p), NEW r, NEW s
    PROVE  /\ SameSetUp(p, [p EXCEPT !.irr = r])
           /\ SameSetUp(p, [p EXCEPT !.irr = r, !.isr = s])
<1> DEFINE o == [p EXCEPT !.irr = r]
<1>1. o = [base |-> p.base, icw |-> p.icw, mask |-> p.mask, irr |-> r, isr |-> p.isr]
  BY DEF ChipOf
<1>2. [p EXCEPT !.irr = r, !.isr = s] = [o EXCEPT !.isr = s]
  BY DEF ChipOf
<1>3. SameSetUp(p, o)
  BY <1>1 DEF ChipOf, SameSetUp
<1> HIDE DEF o
<1>4. [o EXCEPT !.isr = s]
        = [base |-> p.base, icw |-> p.icw, mask |-> p.mask, irr |-> r, isr |-> s]
  BY <1>1
<1>5. SameSetUp(p, [o EXCEPT !.isr = s])
  BY <1>4 DEF ChipOf, SameSetUp
<1> QED
  BY Zenon, <1>2, <1>3, <1>5 DEF o

(* A step of an interrupt handler or of a device.                           *)
LEMMA EndOfInterrupt ==
    ASSUME PicInv, NEW d \in Chips
    PROVE  LET p == Outb(pic, <<d, "command", 32>>) IN
           /\ p = [c \in Chips |-> ChipOf(p[c])]
           /\ \A c \in Chips : /\ p[c].base = pic[c].base /\ p[c].icw = pic[c].icw
                               /\ p[c].mask = pic[c].mask
<1> DEFINE p == Outb(pic, <<d, "command", 32>>)
<1>1. p = [pic EXCEPT ![d] = Command(pic[d], 32)]
  BY DEF Outb
<1>2. Command(pic[d], 32)
       = [pic[d] EXCEPT !.isr = IF pic[d].isr = {} THEN {} ELSE pic[d].isr \ {Min(pic[d].isr)}]
  BY DEF Command
<1>3. PICK s : Command(pic[d], 32) = [pic[d] EXCEPT !.isr = s]
  BY <1>2
<1>4. p = [pic EXCEPT ![d] = [pic[d] EXCEPT !.isr = s]]
  BY <1>1, <1>3
<1>5. pic[d] = ChipOf(pic[d])
  BY DEF PicInv
<1>6. [pic[d] EXCEPT !.isr = s]
        = [base |-> pic[d].base, icw |-> pic[d].icw, mask |-> pic[d].mask, irr |-> pic[d].irr, isr |-> s]
  BY <1>5 DEF ChipOf
<1> HIDE DEF p
<1>7. p = [c \in Chips |-> IF c = d
                           THEN [base |-> pic[d].base, icw |-> pic[d].icw, mask |-> pic[d].mask,
                                 irr |-> pic[d].irr, isr |-> s]
                           ELSE ChipOf(pic[c])]
  BY <1>4, <1>6 DEF PicInv
<1>8. ASSUME NEW c \in Chips
      PROVE  /\ p[c] = ChipOf(p[c])
             /\ p[c].base = pic[c].base /\ p[c].icw = pic[c].icw /\ p[c].mask = pic[c].mask
  BY <1>7 DEF ChipOf
<1> QED
  BY <1>7, <1>8 DEF p

LEMMA HandlerReady ==
    ASSUME ReadyInv, irq_handler
    PROVE  ReadyInv'
<1> USE DEF ReadyInv
<1>1. frames # <<>>
  BY DEF irq_handler, Handler, EoiSlave, EoiMaster, Iret, InFrame
<1>2. Done' = Done /\ Done >= 10
  BY <1>1 DEF QuietInv, Done, Calls, irq_handler, Handler, EoiSlave, EoiMaster, Iret
<1>3. QuietInv'
  BY <1>2 DEF QuietInv
<1>4. CASE Handler \/ Iret
  <2>1. SetUpAlone
    BY <1>4 DEF Handler, Iret, SetUpAlone, PicInv, ChipOf
  <2> QED
    BY <1>3, <2>1, AloneReady
<1>5. CASE EoiSlave \/ EoiMaster
  <2>1. SetUpAlone
    BY <1>5, EndOfInterrupt DEF EoiSlave, EoiMaster, SetUpAlone, PicInv, ChipOf, Chips
  <2> QED
    BY <1>3, <2>1, AloneReady
<1> QED
  BY <1>4, <1>5 DEF irq_handler

LEMMA DeviceReady ==
    ASSUME ReadyInv,
           \/ (\E l \in Lines : Request(l)) \/ Accept \/ isr_handler
           \/ (\E w \in Writer : Prints(w)) \/ Chip \/ UNCHANGED vars
    PROVE  ReadyInv'
<1> USE DEF ReadyInv
<1>1. CASE \E l \in Lines : Request(l)
  <2>1. PICK l \in Lines : Request(l)
    BY <1>1
  <2> DEFINE d == IF l < 8 THEN "master" ELSE "slave"
  <2>2. pic' = [pic EXCEPT ![d] = [pic[d] EXCEPT !.irr = pic[d].irr \cup {l}]]
    BY <2>1 DEF Request
  <2>a. ASSUME NEW c \in Chips
        PROVE  SameSetUp(pic[c], pic'[c])
    <3>1. pic[c] = ChipOf(pic[c]) /\ DOMAIN pic = Chips
      BY DEF PicInv
    <3>2. CASE c = d
      <4>1. pic'[c] = [pic[c] EXCEPT !.irr = pic[c].irr \cup {l}]
        <5> DEFINE e == [pic[d] EXCEPT !.irr = pic[d].irr \cup {l}]
        <5>1. pic' = [pic EXCEPT ![d] = e] /\ e = [pic[c] EXCEPT !.irr = pic[c].irr \cup {l}]
          BY <2>2, <3>2
        <5> HIDE DEF d, e
        <5> QED
          BY <3>1, <3>2, <5>1
      <4>2. SameSetUp(pic[c], [pic[c] EXCEPT !.irr = pic[c].irr \cup {l}])
        BY Zenon, <3>1, Requested
      <4> QED
        BY Zenon, <4>1, <4>2
    <3>3. CASE c # d
      <4>1. pic'[c] = pic[c]
        BY <2>2, <3>1, <3>3
      <4> QED
        BY Zenon, <3>1, <4>1 DEF SameSetUp
    <3> QED
      BY <3>2, <3>3
  <2>b. DOMAIN pic' = Chips /\ pic' = [c \in Chips |-> pic'[c]]
    BY <2>2 DEF PicInv
  <2>3. SetUpAlone
    BY <2>1, <2>a, <2>b DEF Request, SetUpAlone, SameSetUp
  <2>4. QuietInv'
    BY <2>1 DEF Request, QuietInv, Done, Calls
  <2> QED
    BY <2>3, <2>4, AloneReady
<1>2. CASE Accept
  <2> DEFINE first == Min(MasterPending)
             l == IF first = 2 THEN Min(SlavePending) ELSE first
             s(c) == IF c = "master" THEN pic[c].isr \cup {first}
                     ELSE pic[c].isr \cup ({l} \cap OnChip(c))
  <2>a. pic' = [c \in Chips |-> [pic[c] EXCEPT !.irr = pic[c].irr \ {l}, !.isr = s(c)]]
    BY <1>2 DEF Accept
  <2> HIDE DEF first, l, s
  <2>c. ASSUME NEW c \in Chips
        PROVE  SameSetUp(pic[c], pic'[c])
    <3>1. pic[c] = ChipOf(pic[c])
      BY DEF PicInv
    <3>2. pic'[c] = [pic[c] EXCEPT !.irr = pic[c].irr \ {l}, !.isr = s(c)]
      BY Zenon, <2>a
    <3>3. SameSetUp(pic[c], [pic[c] EXCEPT !.irr = pic[c].irr \ {l}, !.isr = s(c)])
      BY Zenon, <3>1, Requested
    <3> QED
      BY Zenon, <3>2, <3>3
  <2>d. pic' = [c \in Chips |-> pic'[c]]
    BY Zenon, <2>a
  <2>1. SetUpAlone
    BY <1>2, <2>c, <2>d DEF Accept, SetUpAlone, SameSetUp
  <2>2. QuietInv'
    BY <1>2 DEF Accept, QuietInv, Done, Calls
  <2> QED
    BY <2>1, <2>2, AloneReady
<1>3. CASE isr_handler
  <2>1. SetUpAlone /\ QuietInv'
    BY <1>3 DEF isr_handler, SetUpAlone, PicInv, ChipOf, QuietInv, Done, Calls
  <2> QED
    BY <2>1, AloneReady
<1>4. CASE (\E w \in Writer : Prints(w)) \/ Chip \/ UNCHANGED vars
  <2>1. UNCHANGED <<tests, boot, machine, frames>>
    BY <1>4 DEF Prints, Chip, vars
  <2>2. SetUpAlone /\ QuietInv'
    BY <2>1 DEF machine, SetUpAlone, PicInv, ChipOf, QuietInv, Done, Calls
  <2> QED
    BY <2>2, AloneReady
<1> QED
  BY <1>1, <1>2, <1>3, <1>4

LEMMA NextReady == ReadyInv /\ [Next]_vars => ReadyInv'
<1> SUFFICES ASSUME ReadyInv, [Next]_vars PROVE ReadyInv'
  OBVIOUS
<1>1. CASE Boot
  BY <1>1, SetUpReady, BringUpReady DEF Boot
<1>2. CASE irq_handler
  BY <1>2, HandlerReady
<1>3. CASE \/ (\E l \in Lines : Request(l)) \/ Accept \/ isr_handler
           \/ (\E w \in Writer : Prints(w)) \/ Chip \/ UNCHANGED vars
  BY <1>3, DeviceReady
<1> QED
  BY <1>1, <1>2, <1>3 DEF Next

-----------------------------------------------------------------------------
(* Every line has its gate.                                                 *)
LEMMA GateOfLine ==
    ASSUME ReadyInv, Done >= 10, Done \in Nat, NEW l \in 0..15
    PROVE  Vector(l) = 32 + l /\ Gate(Vector(l)) = <<"irq", l>>
<1>1. Vector(l) = 32 + l
  BY DEF ReadyInv, PicInv, Vector
<1>2. idt = {<<0, 31, "isr">>, <<32, 47, "irq">>}
  BY DEF ReadyInv, GateInv
<1> DEFINE n == 32 + l
           gates == {g \in idt : n \in g[1]..g[2]}
           gate == CHOOSE g \in gates : TRUE
<1>3. gates = {<<32, 47, "irq">>}
  BY <1>2
<1>4. n - 32 = l /\ Vector(l) = n
  BY <1>1
<1> HIDE DEF n
<1>5. gates # {} => Gate(n) = <<gate[3], n - gate[1]>>
  BY Zenon DEF Gate
<1>6. gates # {} /\ gate = <<32, 47, "irq">>
  BY <1>3
<1> HIDE DEF gates, gate
<1>7. gate[3] = "irq" /\ gate[1] = 32
  BY <1>6
<1>8. Gate(n) = <<"irq", l>>
  BY Zenon, <1>4, <1>5, <1>6, <1>7
<1> QED
  BY <1>4, <1>8 DEF n

LEMMA ReadyIsReady == ReadyInv => ReadyForInterrupts
<1> SUFFICES ASSUME ReadyInv, iflag PROVE ReadyForInterrupts
  BY DEF ReadyForInterrupts
<1>1. Done \in Nat /\ Done >= 10
  BY CallsType DEF ReadyInv, QuietInv, BootInv, Done, Calls
<1>2. idtr /\ \A l \in 0..15 : Gate(Vector(l)) = <<"irq", l>>
  BY <1>1, GateOfLine DEF ReadyInv, GateInv
<1>3. \A c \in Chips : pic[c].mask = {} /\ pic[c].icw = 0
  BY <1>1 DEF ReadyInv, PicInv
<1>4. Vector(0) = 32 /\ Vector(1) = 33
  BY <1>1, GateOfLine
<1>5. Serves(0) = "timer" /\ Serves(1) = "keyboard"
  BY <1>1, <1>4 DEF ReadyInv, GateInv, Serves
<1>6. 256 * pit[2] + pit[1] = Clock \div R_FREQ
  BY <1>1 DEF ReadyInv, GateInv
<1> QED
  BY <1>2, <1>3, <1>5, <1>6 DEF ReadyForInterrupts

(* Interrupts are only enabled when the machine is ready for them: init_idt *)
(* has programmed the controllers and the timer, installed the gates and    *)
(* registered the handlers, and nothing that kmain, a handler or a device   *)
(* does afterwards undoes it.                                               *)
THEOREM EnabledWhenReady == Spec => []ReadyForInterrupts
<1>1. Spec => []ReadyInv
  BY InitReady, NextReady, PTL DEF Spec
<1> QED
  BY <1>1, ReadyIsReady, PTL

-----------------------------------------------------------------------------
(***************************************************************************)
(* SerialInOrder, for any number of threads up to the size of the chip's   *)
(* queue, any number of characters and tries.  Several threads may find    *)
(* the chip empty and write one after the other; no character is lost      *)
(* because a thread asks again before each one: the characters in the      *)
(* queue and the threads about to write never outnumber the threads.       *)
(***************************************************************************)
Char == Writer \X (1..Length)

SerialType ==
    /\ uart \in [loopback : BOOLEAN, tx : Seq(Char), rx : Seq(Nat), out : Seq(Char), in : Nat]
    /\ sender \in [Writer -> [pc : {"send", "outb"}, i : Nat \ {0}, try_no : Nat]]
    /\ got \in Seq(Nat)

Pending == {w \in Writer : sender[w].pc = "outb"}

RoomInv ==
    /\ Len(uart.tx) + Cardinality(Pending) <= Cardinality(Writer)
    /\ \A w \in Pending : sender[w].i <= Length
    /\ \A w \in Writer, i \in Nat : <<w, i>> \in dropped => i < sender[w].i

(* The three parts of SerialInOrder.                                        *)
Ordered(s) == \A j, k \in 1..Len(s) : j < k /\ s[j][1] = s[k][1] => s[j][2] < s[k][2]
Exact(s) ==
    \A w \in Writer, i \in 1..Length :
        (\E j \in 1..Len(s) : s[j] = <<w, i>>) <=> i < sender[w].i /\ <<w, i>> \notin dropped
Numbers(n) == [i \in 1..n |-> i]
ReadInv == got \o uart.rx = Numbers(uart.in)

SerialInv == SerialType /\ RoomInv /\ Ordered(Sent) /\ Exact(Sent) /\ ReadInv

(* The chip is set up before it is used.                                    *)
UnusedInv ==
    /\ dis = "none" => uart.tx = <<>> /\ uart.rx = <<>>
    /\ Done <= 5 => dis = "none"

-----------------------------------------------------------------------------
(* Two queues in a row: what is appended to the second is appended to both, *)
(* and an element that moves from the second to the first stays in place.   *)
LEMMA AppendToSecond ==
    ASSUME NEW S, NEW a \in Seq(S), NEW b \in Seq(S), NEW e \in S
    PROVE  a \o Append(b, e) = Append(a \o b, e)
<1>1. <<e>> \in Seq(S)
  OBVIOUS
<1>2. Append(b, e) = b \o <<e>>
  BY AppendIsConcat
<1>3. a \o b \in Seq(S)
  BY ConcatProperties
<1>4. Append(a \o b, e) = (a \o b) \o <<e>>
  BY Zenon, <1>3, AppendIsConcat
<1>5. (a \o b) \o <<e>> = a \o (b \o <<e>>)
  <2> DEFINE x == <<e>>
  <2>1. x \in Seq(S)
    BY <1>1
  <2> HIDE DEF x
  <2>2. (a \o b) \o x = a \o (b \o x)
    BY <2>1, ConcatAssociative
  <2> QED
    BY Zenon, <2>2 DEF x
<1> QED
  BY Zenon, <1>2, <1>4, <1>5

LEMMA MoveToFirst ==
    ASSUME NEW S, NEW a \in Seq(S), NEW b \in Seq(S), b # <<>>
    PROVE  Append(a, Head(b)) \o Tail(b) = a \o b
<1>1. Head(b) \in S /\ Tail(b) \in Seq(S)
  BY HeadTailProperties
<1>2. <<Head(b)>> \in Seq(S)
  BY <1>1
<1>3. Append(a, Head(b)) = a \o <<Head(b)>>
  BY Zenon, <1>1, AppendIsConcat
<1>4. (a \o <<Head(b)>>) \o Tail(b) = a \o (<<Head(b)>> \o Tail(b))
  <2> DEFINE x == <<Head(b)>>
  <2>1. x \in Seq(S)
    BY <1>2
  <2> HIDE DEF x
  <2>2. (a \o x) \o Tail(b) = a \o (x \o Tail(b))
    BY <1>1, <2>1, ConcatAssociative
  <2> QED
    BY Zenon, <2>2 DEF x
<1>5. <<Head(b)>> \o Tail(b) = b
  OBVIOUS
<1> QED
  BY Zenon, <1>3, <1>4, <1>5

-----------------------------------------------------------------------------
(* A step that leaves the queues and the threads alone.                     *)
LEMMA SerialKept ==
    ASSUME SerialInv, SerialType', UNCHANGED <<sender, dropped, got>>, Sent' = Sent,
           Len(uart'.tx) <= Len(uart.tx), ReadInv'
    PROVE  SerialInv'
<1>1. Pending' = Pending
  BY DEF Pending
<1>2. IsFiniteSet(Pending) /\ Cardinality(Pending) \in Nat /\ Cardinality(Writer) \in Nat
  BY SerialAssumption, FS_Subset, FS_CardinalityType DEF Pending
<1>3. Len(uart.tx) \in Nat /\ Len(uart'.tx) \in Nat
  BY DEF SerialInv, SerialType
<1>4. RoomInv'
  BY <1>1, <1>2, <1>3 DEF SerialInv, RoomInv
<1>5. Ordered(Sent)' /\ Exact(Sent)'
  BY DEF SerialInv, Ordered, Exact
<1> QED
  BY <1>4, <1>5 DEF SerialInv

LEMMA TransmitSerial == ASSUME SerialInv, Transmit PROVE SerialInv'
<1>1. uart \in [loopback : BOOLEAN, tx : Seq(Char), rx : Seq(Nat), out : Seq(Char), in : Nat]
  BY DEF SerialInv, SerialType
<1> DEFINE u == [uart EXCEPT !.tx = Tail(uart.tx), !.out = Append(uart.out, Head(uart.tx))]
<1>2. uart' = u /\ uart.tx # <<>>
  BY DEF Transmit
<1>3. Head(uart.tx) \in Char /\ Tail(uart.tx) \in Seq(Char) /\ Len(Tail(uart.tx)) = Len(uart.tx) - 1
  BY <1>1, <1>2, HeadTailProperties
<1>4. Append(uart.out, Head(uart.tx)) \in Seq(Char)
  BY <1>1, <1>3, AppendProperties
<1>5. /\ uart'.tx = Tail(uart.tx) /\ uart'.out = Append(uart.out, Head(uart.tx))
      /\ uart'.rx = uart.rx /\ uart'.in = uart.in
      /\ uart' \in [loopback : BOOLEAN, tx : Seq(Char), rx : Seq(Nat), out : Seq(Char), in : Nat]
  BY <1>1, <1>2, <1>3, <1>4
<1>6. Sent' = Sent
  BY Zenon, <1>1, <1>2, <1>5, MoveToFirst DEF Sent
<1>7. SerialType' /\ ReadInv'
  BY <1>5 DEF SerialInv, SerialType, ReadInv, Transmit
<1>8. Len(uart'.tx) <= Len(uart.tx)
  BY <1>1, <1>3, <1>5
<1> QED
  BY <1>6, <1>7, <1>8, SerialKept DEF Transmit

LEMMA ReceiveSerial == ASSUME SerialInv, Receive PROVE SerialInv'
<1>1. uart \in [loopback : BOOLEAN, tx : Seq(Char), rx : Seq(Nat), out : Seq(Char), in : Nat]
      /\ got \in Seq(Nat)
  BY DEF SerialInv, SerialType
<1> DEFINE n == uart.in + 1
           u == [uart EXCEPT !.in = uart.in + 1, !.rx = Append(uart.rx, uart.in + 1)]
<1>2. uart' = u
  BY DEF Receive
<1>3. n \in Nat /\ uart.in \in Nat /\ uart.rx \in Seq(Nat)
  BY <1>1
<1>4. Append(uart.rx, n) \in Seq(Nat)
  BY <1>3, AppendProperties
<1>5. /\ uart'.rx = Append(uart.rx, n) /\ uart'.in = n
      /\ uart'.tx = uart.tx /\ uart'.out = uart.out
      /\ uart' \in [loopback : BOOLEAN, tx : Seq(Char), rx : Seq(Nat), out : Seq(Char), in : Nat]
  BY <1>1, <1>2, <1>3, <1>4
<1>6. Sent' = Sent /\ Len(uart'.tx) <= Len(uart.tx)
  BY <1>1, <1>5 DEF Sent
<1>7. got \o uart.rx = Numbers(uart.in) /\ got' = got
  BY DEF SerialInv, ReadInv, Receive
<1>8. got \o Append(uart.rx, n) = Append(got \o uart.rx, n)
  <2> HIDE DEF n
  <2> QED
    BY <1>1, <1>3, AppendToSecond
<1>9. Append(Numbers(uart.in), n) = Numbers(n)
  <2>1. ASSUME NEW m \in Nat PROVE Append(Numbers(m), m + 1) = Numbers(m + 1)
    BY DEF Numbers
  <2> QED
    BY <1>3, <2>1
<1>10. ReadInv'
  BY Zenon, <1>5, <1>7, <1>8, <1>9 DEF ReadInv
<1>11. SerialType'
  BY <1>5, <1>7 DEF SerialInv, SerialType, Receive
<1> QED
  BY <1>6, <1>10, <1>11, SerialKept DEF Receive

LEMMA ReadSerial == ASSUME SerialInv, serial_read PROVE SerialInv'
<1>1. uart \in [loopback : BOOLEAN, tx : Seq(Char), rx : Seq(Nat), out : Seq(Char), in : Nat]
      /\ got \in Seq(Nat)
  BY DEF SerialInv, SerialType
<1>2. uart' = [uart EXCEPT !.rx = Tail(uart.rx)] /\ uart.rx # <<>> /\ got' = Append(got, Head(uart.rx))
  BY DEF serial_read, serial_received
<1>3. Head(uart.rx) \in Nat /\ Tail(uart.rx) \in Seq(Nat)
  BY <1>1, <1>2, HeadTailProperties
<1>4. got' \in Seq(Nat)
  BY <1>1, <1>2, <1>3, AppendProperties
<1>5. /\ uart'.rx = Tail(uart.rx) /\ uart'.in = uart.in
      /\ uart'.tx = uart.tx /\ uart'.out = uart.out
      /\ uart' \in [loopback : BOOLEAN, tx : Seq(Char), rx : Seq(Nat), out : Seq(Char), in : Nat]
  BY <1>1, <1>2, <1>3
<1>6. got' \o uart'.rx = got \o uart.rx
  BY Zenon, <1>1, <1>2, <1>5, MoveToFirst
<1>7. ReadInv'
  BY Zenon, <1>5, <1>6 DEF SerialInv, ReadInv
<1>8. SerialType'
  BY <1>4, <1>5 DEF SerialInv, SerialType, serial_read
<1>9. RoomInv' /\ Ordered(Sent)' /\ Exact(Sent)'
  <2>1. Sent' = Sent /\ Pending' = Pending /\ UNCHANGED <<sender, dropped>>
    BY <1>5 DEF Sent, Pending, serial_read
  <2> QED
    BY <1>5, <2>1 DEF SerialInv, RoomInv, Ordered, Exact
<1> QED
  BY <1>7, <1>8, <1>9 DEF SerialInv

-----------------------------------------------------------------------------
(* A thread asks whether the chip is empty, and may give its character up.  *)
LEMMA TestSerial ==
    ASSUME SerialInv, NEW w \in Writer, SendTest(w)
    PROVE  SerialInv'
<1> DEFINE s == sender[w]
<1>1. /\ s \in [pc : {"send", "outb"}, i : Nat \ {0}, try_no : Nat]
      /\ s.pc = "send" /\ s.i \in 1..Length /\ UNCHANGED <<uart, got>>
      /\ Length \in Nat
  BY SerialAssumption DEF SerialInv, SerialType, SendTest
<1>2. ReadInv' /\ Sent' = Sent
  BY <1>1 DEF SerialInv, ReadInv, Sent
<1>3. /\ IsFiniteSet(Pending) /\ Cardinality(Pending) \in Nat /\ Cardinality(Writer) \in Nat
      /\ Pending \subseteq Writer /\ w \notin Pending
  BY <1>1, SerialAssumption, FS_Subset, FS_CardinalityType DEF Pending
<1>4. CASE /\ serial_transmit_empty /\ sender' = [sender EXCEPT ![w].pc = "outb"]
           /\ dropped' = dropped
  <2>1. SerialType'
    BY <1>1, <1>4 DEF SerialInv, SerialType
  <2>2. \A v \in Writer : sender'[v].i = sender[v].i
    BY <1>4 DEF SerialInv, SerialType
  <2>3. Pending' = Pending \cup {w}
    BY <1>4 DEF SerialInv, SerialType, Pending
  <2>4. Cardinality(Pending') <= Cardinality(Writer)
    BY <2>3, <1>3, SerialAssumption, FS_Subset
  <2>5. Len(uart'.tx) = 0 /\ Cardinality(Pending') \in Nat
    BY <1>1, <1>3, <1>4, <2>3, FS_AddElement, FS_CardinalityType DEF serial_transmit_empty
  <2>6. RoomInv'
    BY <1>1, <1>3, <1>4, <2>2, <2>3, <2>4, <2>5 DEF SerialInv, RoomInv, Pending
  <2>7. Ordered(Sent)' /\ Exact(Sent)'
    BY <1>2, <1>4, <2>2 DEF SerialInv, Ordered, Exact
  <2> QED
    BY <1>2, <2>1, <2>6, <2>7 DEF SerialInv
<1>5. CASE /\ sender' = [sender EXCEPT ![w] = [s EXCEPT !.try_no = @ + 1]]
           /\ dropped' = dropped
  <2>1. SerialType'
    <3> DEFINE e == [s EXCEPT !.try_no = s.try_no + 1]
    <3>1. e \in [pc : {"send", "outb"}, i : Nat \ {0}, try_no : Nat]
      BY <1>1
    <3>2. sender' = [sender EXCEPT ![w] = e]
      BY <1>5
    <3> HIDE DEF e
    <3> QED
      BY <1>1, <3>1, <3>2 DEF SerialInv, SerialType
  <2>2. \A v \in Writer : sender'[v].i = sender[v].i /\ sender'[v].pc = sender[v].pc
    BY <1>5 DEF SerialInv, SerialType
  <2>3. Pending' = Pending
    BY <2>2 DEF Pending
  <2>4. RoomInv'
    BY <1>1, <1>5, <2>2, <2>3 DEF SerialInv, RoomInv, Pending
  <2>5. Ordered(Sent)' /\ Exact(Sent)'
    BY <1>2, <1>5, <2>2 DEF SerialInv, Ordered, Exact
  <2> QED
    BY <1>2, <2>1, <2>4, <2>5 DEF SerialInv
<1>6. CASE /\ sender' = [sender EXCEPT ![w] = NextChar(s)]
           /\ dropped' = dropped \cup {<<w, s.i>>}
  <2>1. SerialType'
    BY <1>1, <1>6 DEF SerialInv, SerialType, NextChar
  <2>2. /\ \A v \in Writer : v # w => sender'[v] = sender[v]
        /\ sender'[w].i = s.i + 1 /\ sender'[w].pc = "send"
    BY <1>6 DEF SerialInv, SerialType, NextChar
  <2>3. Pending' = Pending
    BY <1>1, <2>2 DEF Pending
  <2>4. \A v \in Writer, i \in Nat : <<v, i>> \in dropped' => i < sender'[v].i
    <3> TAKE v \in Writer, i \in Nat
    <3>1. <<v, i>> \in dropped' => <<v, i>> \in dropped \/ (v = w /\ i = s.i)
      BY <1>6
    <3>2. <<v, i>> \in dropped => i < sender[v].i
      BY DEF SerialInv, RoomInv
    <3> QED
      BY <1>1, <2>2, <3>1, <3>2
  <2>5. RoomInv'
    <3>1. \A v \in Pending' : sender'[v].i <= Length
      BY <1>3, <2>2, <2>3 DEF SerialInv, RoomInv
    <3> QED
      BY <1>1, <2>3, <2>4, <3>1 DEF SerialInv, RoomInv
  <2>6. Ordered(Sent)'
    BY <1>2 DEF SerialInv, Ordered
  <2>7. Exact(Sent)'
    <3> SUFFICES ASSUME NEW v \in Writer, NEW i \in 1..Length
                 PROVE  i < sender'[v].i /\ <<v, i>> \notin dropped'
                          <=> i < sender[v].i /\ <<v, i>> \notin dropped
      BY <1>2 DEF SerialInv, Exact
    <3>1. <<v, i>> \in dropped' <=> <<v, i>> \in dropped \/ (v = w /\ i = s.i)
      BY <1>6
    <3> QED
      BY <1>1, <2>2, <3>1
  <2> QED
    BY <1>2, <2>1, <2>5, <2>6, <2>7 DEF SerialInv
<1> QED
  BY <1>4, <1>5, <1>6 DEF SendTest

(* A thread writes its character: there is room for it.                     *)
LEMMA SendSerial ==
    ASSUME SerialInv, NEW w \in Writer, Send(w)
    PROVE  SerialInv'
<1> DEFINE s == sender[w]
           c == <<w, s.i>>
<1>1. /\ s \in [pc : {"send", "outb"}, i : Nat \ {0}, try_no : Nat]
      /\ s.pc = "outb" /\ UNCHANGED <<dropped, got>> /\ w \in Pending
      /\ sender' = [sender EXCEPT ![w] = NextChar(s)]
      /\ uart \in [loopback : BOOLEAN, tx : Seq(Char), rx : Seq(Nat), out : Seq(Char), in : Nat]
      /\ Length \in Nat
  BY SerialAssumption DEF SerialInv, SerialType, Send, Pending
<1>2. s.i \in 1..Length /\ c \in Char
  BY <1>1 DEF SerialInv, RoomInv, Char
<1>3. /\ IsFiniteSet(Pending) /\ Cardinality(Pending) \in Nat /\ Cardinality(Writer) \in Nat
      /\ Cardinality(Pending \ {w}) = Cardinality(Pending) - 1
      /\ Cardinality(Pending \ {w}) \in Nat
  BY <1>1, SerialAssumption, FS_Subset, FS_RemoveElement, FS_CardinalityType DEF Pending
<1>4. Len(uart.tx) < FIFO /\ Len(uart.tx) \in Nat
  BY <1>1, <1>3, SerialAssumption DEF SerialInv, RoomInv
<1>5. Append(uart.tx, c) \in Seq(Char) /\ Len(Append(uart.tx, c)) = Len(uart.tx) + 1
  BY <1>1, <1>2, AppendProperties
<1>6. uart' = [uart EXCEPT !.tx = Append(uart.tx, c)]
  BY <1>4 DEF Send
<1> HIDE DEF c
<1>7. /\ uart'.tx = Append(uart.tx, c) /\ uart'.out = uart.out
      /\ uart'.rx = uart.rx /\ uart'.in = uart.in
      /\ uart' \in [loopback : BOOLEAN, tx : Seq(Char), rx : Seq(Nat), out : Seq(Char), in : Nat]
  BY <1>1, <1>5, <1>6
<1>8. Sent' = Append(Sent, c) /\ Sent \in Seq(Char)
  <2>1. uart.out \in Seq(Char) /\ uart.tx \in Seq(Char)
    BY <1>1
  <2>2. Sent \in Seq(Char)
    BY <2>1, ConcatProperties DEF Sent
  <2>3. uart.out \o Append(uart.tx, c) = Append(uart.out \o uart.tx, c)
    <3>1. \A a, b \in Seq(Char) : a \o Append(b, c) = Append(a \o b, c)
      BY <1>2, AppendToSecond
    <3> QED
      BY Zenon, <2>1, <3>1
  <2>4. Sent' = uart'.out \o uart'.tx
    BY DEF Sent
  <2> QED
    BY Zenon, <1>7, <2>2, <2>3, <2>4 DEF Sent
<1>9. /\ Len(Sent) \in Nat /\ Len(Sent') = Len(Sent) + 1 /\ Sent'[Len(Sent) + 1] = c
      /\ \A j \in 1..Len(Sent) : Sent'[j] = Sent[j] /\ Sent[j] \in Char
  BY <1>2, <1>8, AppendProperties, LenProperties
<1>10. SerialType'
  BY <1>1, <1>7 DEF SerialInv, SerialType, NextChar
<1>11. ReadInv'
  BY <1>1, <1>7 DEF SerialInv, ReadInv
<1>12. /\ \A v \in Writer : v # w => sender'[v] = sender[v]
       /\ sender'[w].i = s.i + 1 /\ sender'[w].pc = "send"
  BY <1>1 DEF SerialInv, SerialType, NextChar
<1>13. Pending' = Pending \ {w}
  BY <1>1, <1>12 DEF Pending
<1>14. RoomInv'
  <2>1. Len(uart'.tx) + Cardinality(Pending') <= Cardinality(Writer)
    BY <1>3, <1>4, <1>5, <1>7, <1>13 DEF SerialInv, RoomInv
  <2>2. \A v \in Pending' : sender'[v].i <= Length
    BY <1>12, <1>13 DEF SerialInv, RoomInv, Pending
  <2>3. \A v \in Writer, i \in Nat : <<v, i>> \in dropped' => i < sender'[v].i
    <3> TAKE v \in Writer, i \in Nat
    <3>1. <<v, i>> \in dropped' => i < sender[v].i
      BY <1>1 DEF SerialInv, RoomInv
    <3> QED
      BY <1>1, <1>12, <3>1
  <2> QED
    BY <2>1, <2>2, <2>3 DEF RoomInv
<1>15. ASSUME NEW j \in 1..Len(Sent), Sent[j][1] = w PROVE Sent[j][2] < s.i
  <2>1. PICK i \in 1..Length : Sent[j] = <<w, i>>
    BY <1>9, <1>15 DEF Char
  <2>2. i < sender[w].i
    BY <2>1 DEF SerialInv, Exact
  <2> QED
    BY <2>1, <2>2
<1>16. c[1] = w /\ c[2] = s.i
  BY DEF c
<1> DEFINE q == Sent'
<1>17. Ordered(Sent)'
  <2>1. ASSUME NEW j \in 1..Len(q), NEW k \in 1..Len(q), j < k, q[j][1] = q[k][1]
        PROVE  q[j][2] < q[k][2]
    <3>1. j \in 1..Len(Sent) /\ q[j] = Sent[j]
      BY <1>9, <2>1
    <3>2. CASE k \in 1..Len(Sent)
      <4>1. q[k] = Sent[k]
        BY <1>9, <3>2
      <4> QED
        BY <2>1, <3>1, <3>2, <4>1 DEF SerialInv, Ordered
    <3>3. CASE k = Len(Sent) + 1
      <4>1. q[k] = c
        BY <1>9, <3>3
      <4>2. Sent[j][1] = w
        BY <1>16, <2>1, <3>1, <4>1
      <4> QED
        BY <1>15, <1>16, <3>1, <4>1, <4>2
    <3> QED
      BY <1>9, <3>2, <3>3
  <2> QED
    BY <2>1 DEF Ordered
<1>18. Exact(Sent)'
  <2>1. ASSUME NEW v \in Writer, NEW i \in 1..Length
        PROVE  (\E j \in 1..Len(q) : q[j] = <<v, i>>)
                 <=> i < sender'[v].i /\ <<v, i>> \notin dropped'
    <3>1. (\E j \in 1..Len(q) : q[j] = <<v, i>>)
            <=> (\E j \in 1..Len(Sent) : Sent[j] = <<v, i>>) \/ <<v, i>> = c
      <4> DEFINE d == <<v, i>>
      <4> HIDE DEF d
      <4>1. ASSUME NEW j \in 1..Len(q), q[j] = d
            PROVE  (\E k \in 1..Len(Sent) : Sent[k] = d) \/ d = c
        <5>1. j \in 1..Len(Sent) \/ j = Len(Sent) + 1
          BY <1>9
        <5> QED
          BY <1>9, <4>1, <5>1
      <4>2. ASSUME NEW j \in 1..Len(Sent), Sent[j] = d PROVE \E k \in 1..Len(q) : q[k] = d
        <5>1. j \in 1..Len(q) /\ q[j] = d
          BY <1>9, <4>2
        <5> QED
          BY <5>1
      <4>3. ASSUME d = c PROVE \E k \in 1..Len(q) : q[k] = d
        <5>1. Len(Sent) + 1 \in 1..Len(q) /\ q[Len(Sent) + 1] = d
          BY <1>9, <4>3
        <5> QED
          BY <5>1
      <4> QED
        BY <4>1, <4>2, <4>3 DEF d
    <3>2. <<v, i>> = c <=> v = w /\ i = s.i
      BY DEF c
    <3>3. (\E j \in 1..Len(Sent) : Sent[j] = <<v, i>>)
            <=> i < sender[v].i /\ <<v, i>> \notin dropped
      BY DEF SerialInv, Exact
    <3>4. <<w, s.i>> \notin dropped
      BY <1>1 DEF SerialInv, RoomInv
    <3>5. (\E j \in 1..Len(q) : q[j] = <<v, i>>)
            <=> (i < sender[v].i /\ <<v, i>> \notin dropped) \/ (v = w /\ i = s.i)
      BY Zenon, <3>1, <3>2, <3>3
    <3>6. CASE v = w
      <4>1. i < sender'[v].i <=> i < s.i \/ i = s.i
        BY <1>1, <1>2, <1>12, <3>6
      <4> QED
        BY Zenon, <1>1, <3>4, <3>5, <3>6, <4>1
    <3>7. CASE v # w
      <4>1. sender'[v].i = sender[v].i /\ dropped' = dropped
        BY <1>1, <1>12, <3>7
      <4> QED
        BY Zenon, <3>5, <3>7, <4>1
    <3> QED
      BY <3>6, <3>7
  <2> QED
    BY <2>1 DEF Exact
<1> QED
  BY <1>10, <1>11, <1>14, <1>17, <1>18 DEF SerialInv

-----------------------------------------------------------------------------
LEMMA InitSerialInv == Init => SerialInv /\ UnusedInv
<1> SUFFICES ASSUME Init PROVE SerialInv /\ UnusedInv
  OBVIOUS
<1>1. /\ uart.tx = <<>> /\ uart.rx = <<>> /\ uart.out = <<>> /\ uart.in = 0
      /\ got = <<>> /\ dropped = {} /\ dis = "none"
      /\ \A w \in Writer : sender[w].i = 1 /\ sender[w].pc = "send"
  BY DEF Init, SerialInit
<1>2. SerialType
  BY DEF Init, SerialInit, SerialType
<1>3. Pending = {} /\ Len(uart.tx) = 0
  BY <1>1 DEF Pending
<1>4. Cardinality(Pending) = 0 /\ Cardinality(Writer) \in Nat
  BY <1>3, SerialAssumption, FS_EmptySet, FS_CardinalityType
<1>5. RoomInv
  BY <1>1, <1>3, <1>4 DEF RoomInv
<1>6. Sent = <<>> /\ got \o uart.rx = <<>>
  <2>1. <<>> \in Seq(Nat)
    OBVIOUS
  <2>2. <<>> \o <<>> = <<>>
    BY Zenon, <2>1, ConcatEmptySeq
  <2> QED
    BY Zenon, <1>1, <2>2 DEF Sent
<1>7. Ordered(Sent) /\ Exact(Sent)
  BY <1>1, <1>6, SerialAssumption DEF Ordered, Exact
<1>8. ReadInv
  <2>1. Numbers(0) = <<>>
    BY DEF Numbers
  <2> QED
    BY <1>1, <1>6, <2>1 DEF ReadInv
<1> QED
  BY <1>1, <1>2, <1>5, <1>7, <1>8 DEF SerialInv, UnusedInv

(* The calls of kmain and the interrupts do not touch the characters; the   *)
(* set-up of the chip clears queues that are empty.                         *)
LEMMA SerialAlone ==
    ASSUME SerialInv, UNCHANGED serial
    PROVE  SerialInv'
<1>1. uart' = uart /\ sender' = sender /\ dropped' = dropped /\ got' = got
  BY DEF serial
<1>2. SerialType'
  BY <1>1 DEF SerialInv, SerialType
<1>3. Pending' = Pending
  BY <1>1 DEF Pending
<1>4. RoomInv'
  BY <1>1, <1>3 DEF SerialInv, RoomInv
<1>5. Sent' = Sent
  BY <1>1 DEF Sent
<1>6. Ordered(Sent)'
  BY <1>5 DEF SerialInv, Ordered
<1>7. Exact(Sent)'
  BY <1>1, <1>5 DEF SerialInv, Exact
<1>8. ReadInv'
  BY <1>1 DEF SerialInv, ReadInv
<1> QED
  BY <1>2, <1>4, <1>6, <1>7, <1>8 DEF SerialInv

LEMMA SetUpSerial ==
    ASSUME BootInv, SerialInv, UnusedInv, InitSerial
    PROVE  SerialInv' /\ UnusedInv'
<1>1. Done = 5 /\ Done' = 6
  BY Returns, Position DEF InitSerial, BootInv, Calls
<1>2. uart.tx = <<>> /\ uart.rx = <<>>
  BY <1>1 DEF UnusedInv
<1>3. PICK answers \in BOOLEAN : uart' = init_serial(uart, answers)
  BY DEF InitSerial
<1>4. uart \in [loopback : BOOLEAN, tx : Seq(Char), rx : Seq(Nat), out : Seq(Char), in : Nat]
  BY DEF SerialInv, SerialType
<1> DEFINE u == [uart EXCEPT !.loopback = ~answers]
<1>5. /\ uart'.tx = uart.tx /\ uart'.rx = uart.rx /\ uart'.out = uart.out /\ uart'.in = uart.in
      /\ uart' \in [loopback : BOOLEAN, tx : Seq(Char), rx : Seq(Nat), out : Seq(Char), in : Nat]
  BY <1>2, <1>3, <1>4 DEF init_serial
<1>6. UNCHANGED <<sender, dropped, got>>
  BY DEF InitSerial
<1>7. SerialInv'
  BY <1>5, <1>6 DEF SerialInv, SerialType, RoomInv, Pending, Ordered, Exact, Sent, ReadInv
<1>8. UnusedInv'
  BY <1>1, <1>2, <1>5 DEF UnusedInv
<1> QED
  BY <1>7, <1>8

(* A call of kmain leaves dis alone until the display is initialised.       *)
LEMMA BootSerial ==
    ASSUME BootInv, SerialInv, UnusedInv, Boot
    PROVE  SerialInv' /\ UnusedInv'
<1>1. CASE InitSerial
  BY <1>1, SetUpSerial
<1>2. CASE \/ install_isrs \/ RemapPics \/ install_irqs \/ init_timer \/ init_keyboard
           \/ SerialClear \/ load_idt
  <2>1. UNCHANGED serial /\ dis' = dis
    BY <1>2 DEF install_isrs, RemapPics, install_irqs, init_timer, init_keyboard, SerialClear,
                load_idt, machine
  <2>2. Done \in Nat /\ Done' = Done + 1
    BY <1>2, Returns DEF install_isrs, RemapPics, install_irqs, init_timer, init_keyboard,
                         SerialClear, load_idt
  <2>3. UnusedInv'
    BY <2>1, <2>2 DEF UnusedInv, serial
  <2> QED
    BY <2>1, <2>3, SerialAlone
<1>3. ASSUME NEW step \in {"init_alloc", "init_processes", "run_groups", "display_init",
                           "shell_init", "print_logo", "enable_interrupts"},
             BringUp(step)
      PROVE  SerialInv' /\ UnusedInv'
  <2>1. Done \in Nat /\ Done >= 8 /\ Done' = Done + 1
    BY <1>3, Returns, Position DEF BringUp, BootInv, Calls
  <2>2. UNCHANGED serial /\ (dis' = "none" => dis = "none")
    BY <1>3 DEF BringUp
  <2>3. UnusedInv'
    BY <2>1, <2>2 DEF UnusedInv, serial
  <2> QED
    BY <2>2, <2>3, SerialAlone
<1> QED
  BY <1>1, <1>2, <1>3 DEF Boot

LEMMA NextSerial ==
    BootInv /\ SerialInv /\ UnusedInv /\ [Next]_vars => SerialInv' /\ UnusedInv'
<1> SUFFICES ASSUME BootInv, SerialInv, UnusedInv, [Next]_vars PROVE SerialInv' /\ UnusedInv'
  OBVIOUS
<1>1. CASE Boot
  BY <1>1, BootSerial
<1>2. CASE \/ (\E l \in Lines : Request(l)) \/ Accept \/ irq_handler \/ isr_handler
           \/ UNCHANGED vars
  <2>1. UNCHANGED <<tests, boot, dis, serial>>
    BY <1>2 DEF Request, Accept, irq_handler, Handler, EoiSlave, EoiMaster, Iret, isr_handler,
                vars, machine
  <2>2. UnusedInv'
    BY <2>1 DEF UnusedInv, serial, Done, Calls
  <2> QED
    BY <2>1, <2>2, SerialAlone
<1>3. CASE (\E w \in Writer : Prints(w)) \/ Chip
  <2>1. dis = "serial" /\ UNCHANGED <<tests, boot, dis>>
    BY <1>3 DEF Prints, Chip, machine
  <2>2. UnusedInv'
    BY <2>1 DEF UnusedInv, Done, Calls
  <2>3. \/ \E w \in Writer : SendTest(w) \/ Send(w)
        \/ Transmit \/ Receive \/ serial_read
    BY <1>3 DEF Prints, Chip
  <2> QED
    BY <2>2, <2>3, TestSerial, SendSerial, TransmitSerial, ReceiveSerial, ReadSerial
<1> QED
  BY <1>1, <1>2, <1>3 DEF Next

(* The characters of every thread come out of the serial port once and in   *)
(* the order in which serial_puts sent them, save those it gave up after    *)
(* SERIAL_TIMEOUT tries, however the threads interleave between             *)
(* serial_transmit_empty and outb; serial_read returns what arrived.        *)
THEOREM SerialKeepsOrder == Spec => []SerialInOrder
<1>1. Spec => []BootInv
  <2>1. Spec => []ReadyInv
    BY InitReady, NextReady, PTL DEF Spec
  <2>2. ReadyInv => BootInv
    BY DEF ReadyInv
  <2> QED
    BY <2>1, <2>2, PTL
<1>2. Spec => [](SerialInv /\ UnusedInv)
  BY <1>1, InitSerialInv, NextSerial, PTL DEF Spec
<1>3. SerialInv => SerialInOrder
  BY DEF SerialInv, Ordered, Exact, ReadInv, Numbers, SerialInOrder
<1> QED
  BY <1>2, <1>3, PTL
=============================================================================
