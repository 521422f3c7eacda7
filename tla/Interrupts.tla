----------------------------- MODULE Interrupts -----------------------------
(***************************************************************************)
(* The interrupts from power-on: kernel/isr.c with the two interrupt       *)
(* controllers it programs, the order in which kmain (kernel/kernel.c)     *)
(* brings the machine up, and the handlers the drivers register.           *)
(*                                                                         *)
(* One CPU: an interrupt is taken between two steps of the code it         *)
(* interrupts, and that code goes on when the handler has returned.  What  *)
(* the timer handler does to the threads is module Kernel's, what a key    *)
(* does is module Terminal's.                                              *)
(***************************************************************************)
EXTENDS Serial, FiniteSetsExt

CONSTANTS
    Lines,        \* the interrupt lines 0..15 that have a device
    MaxRequests,  \* bound: requests of the devices, without
    MaxTestRequests,  \* and with TESTS
    R_FREQ,
    Builds,       \* TRUE: with TESTS
    kmain         \* the boot code, one of the writers

ASSUME InterruptsAssumption ==
    /\ Lines \subseteq (0..15) \ {2} /\ MaxRequests \in Nat /\ MaxTestRequests \in Nat
    /\ R_FREQ \in Nat /\ R_FREQ > 18 /\ Builds \subseteq BOOLEAN /\ kmain \in Writer

VARIABLES
    tests,       \* the build
    boot,        \* the steps of kmain that are left
    iflag, idtr, \* the CPU: interrupts enabled, the IDT register loaded
    idt,         \* the gates that are set: <<first, last vector, kind of stub>>
    interrupt_handlers,  \* a function of the vectors that have one
    pic,         \* the controllers
    pit,         \* the timer chip: the bytes written to port 0x40
    dis,         \* where the default display driver prints
    dterm,       \* the default terminal has been initialised
    frames,      \* the interrupt handlers in progress, the innermost first
    cpu,         \* "runs"; "halted" by isr_handler; "lost" after a jump to address 0
    requests     \* requests so far

machine == <<iflag, idtr, idt, interrupt_handlers, pic, pit, dis, dterm>>
vars == <<tests, boot, machine, frames, cpu, requests, serial>>

-----------------------------------------------------------------------------
(* The controllers, as the code uses them: after a 0x11 on the command port *)
(* the data port takes the base vector and two words that do not matter     *)
(* here, and then the mask; 0x20 ends the service of the first line.        *)
Chips == {"master", "slave"}
OnChip(c) == IF c = "master" THEN 0..7 ELSE 8..15
PowerOn(c) == [base |-> IF c = "master" THEN 8 ELSE 112, icw |-> 0,
               mask |-> OnChip(c), irr |-> {}, isr |-> {}]

Command(p, byte) ==
    IF byte = 17 THEN [p EXCEPT !.icw = 2, !.mask = {}, !.irr = {}, !.isr = {}]
    ELSE [p EXCEPT !.isr = IF @ = {} THEN {} ELSE @ \ {Min(@)}]

Data(p, byte) ==
    CASE p.icw = 2 -> [p EXCEPT !.base = byte, !.icw = 3]
      [] p.icw = 3 -> [p EXCEPT !.icw = 4]
      [] p.icw = 4 -> [p EXCEPT !.icw = 0]
      [] p.icw = 0 -> [p EXCEPT !.mask = IF byte = 0 THEN {} ELSE @]

(* outb to a controller: <<chip, command or data port, byte>>               *)
Outb(ps, w) ==
    [ps EXCEPT ![w[1]] = IF w[2] = "command" THEN Command(@, w[3]) ELSE Data(@, w[3])]

WrongBase == 48                \* mutant
SlaveBase == 40

remap_pics ==
    <<<<"master", "command", 17>>, <<"slave", "command", 17>>,
      <<"master", "data", 32>>, <<"slave", "data", SlaveBase>>,
      <<"master", "data", 4>>, <<"slave", "data", 2>>,
      <<"master", "data", 1>>, <<"slave", "data", 1>>,
      <<"master", "data", 0>>, <<"slave", "data", 0>>>>

(* The writes ws, one after the other.                                      *)
Written(ps, ws) ==
    LET w[n \in 0..Len(ws)] == IF n = 0 THEN ps ELSE Outb(w[n - 1], ws[n])
    IN  w[Len(ws)]

(* The requests a chip may pass on: those that come before the ones in      *)
(* service.  The slave asks through line 2 of the master.                   *)
Passed(p, asks) == {l \in asks \ p.mask : \A k \in p.isr : l < k}

SlavePending  == Passed(pic["slave"], pic["slave"].irr)
MasterPending == Passed(pic["master"],
                        pic["master"].irr \cup IF SlavePending = {} THEN {} ELSE {2})

Vector(l) == IF l < 8 THEN pic["master"].base + l ELSE pic["slave"].base + l - 8

-----------------------------------------------------------------------------
(* The calls of kmain in their order, with those of init_idt and init_irqs. *)
BootSteps(t) ==
    IF t
    THEN <<"install_isrs", "remap_pics", "install_irqs", "init_timer", "init_keyboard",
           "init_serial", "serial_clear", "load_idt", "init_alloc", "init_processes",
           "run_groups", "enable_interrupts">>
    ELSE <<"install_isrs", "remap_pics", "install_irqs", "init_timer", "init_keyboard",
           "init_serial", "serial_clear", "load_idt", "init_alloc", "init_processes",
           "display_init", "shell_init", "print_logo", "enable_interrupts">>

Init ==
    /\ SerialInit
    /\ tests \in Builds /\ boot = BootSteps(tests)
    /\ iflag = FALSE /\ idtr = FALSE /\ idt = {}
    /\ interrupt_handlers = <<>>
    /\ pic = [c \in Chips |-> PowerOn(c)] /\ pit = <<>>
    /\ dis = "none" /\ dterm = FALSE
    /\ frames = <<>> /\ cpu = "runs" /\ requests = 0

(* Threads and kmain run when no handler does.                              *)
Running == cpu = "runs" /\ frames = <<>>

Booting(step) ==
    /\ Running /\ boot # <<>> /\ Head(boot) = step
    /\ boot' = Tail(boot)
    /\ UNCHANGED <<tests, frames, requests>>

(* set_idt_gate, for the vectors first to last; a stub knows its number.    *)
set_idt_gates(first, last, kind) == idt' = idt \cup {<<first, last, kind>>}

Gate(n) == LET gates == {g \in idt : n \in g[1]..g[2]}
           IN  IF gates = {} THEN <<"none", 0>>
               ELSE LET g == CHOOSE g \in gates : TRUE IN <<g[3], n - g[1]>>

install_isrs ==
    /\ Booting("install_isrs")
    /\ set_idt_gates(0, 31, "isr")
    /\ UNCHANGED <<iflag, idtr, interrupt_handlers, pic, pit, dis, dterm, cpu, serial>>

RemapPics ==
    /\ Booting("remap_pics")
    /\ pic' = Written(pic, remap_pics)
    /\ UNCHANGED <<iflag, idtr, idt, interrupt_handlers, pit, dis, dterm, cpu, serial>>

install_irqs ==
    /\ Booting("install_irqs")
    /\ set_idt_gates(32, 47, "irq")
    /\ UNCHANGED <<iflag, idtr, interrupt_handlers, pic, pit, dis, dterm, cpu, serial>>

register_interrupt_handler(ns, handler) ==
    interrupt_handlers' = [n \in ns \cup DOMAIN interrupt_handlers |->
        IF n \in ns THEN handler ELSE interrupt_handlers[n]]

HandlerOf(n) == IF n \in DOMAIN interrupt_handlers THEN interrupt_handlers[n] ELSE "none"

Clock == 1193180    \* Hz

init_timer ==
    LET divisor == Clock \div R_FREQ IN
    /\ Booting("init_timer")
    /\ register_interrupt_handler({32}, "timer")
    /\ pit' = <<divisor % 256, (divisor \div 256) % 256>>
    /\ UNCHANGED <<iflag, idtr, idt, pic, dis, dterm, cpu, serial>>

init_keyboard ==
    /\ Booting("init_keyboard")
    /\ register_interrupt_handler({33}, "keyboard")
    /\ UNCHANGED <<iflag, idtr, idt, pic, pit, dis, dterm, cpu, serial>>

InitSerial ==
    /\ Booting("init_serial")
    /\ \E answers \in BOOLEAN :
        /\ uart' = init_serial(uart, answers)
        /\ register_interrupt_handler(IF answers THEN {35, 36} ELSE {}, "serial")
        /\ dis' = IF answers /\ tests THEN "serial" ELSE dis
    /\ UNCHANGED <<iflag, idtr, idt, pic, pit, dterm, cpu, sender, dropped, got>>

(* dis_clear in a build with TESTS: kmain has written its first character,  *)
(* which stands for those of clear_screen.                                  *)
SerialClear ==
    /\ Booting("serial_clear")
    /\ dis = "serial" => sender[kmain].i > 1
    /\ UNCHANGED <<machine, cpu, serial>>

load_idt ==
    /\ Booting("load_idt")
    /\ idtr' = TRUE
    /\ UNCHANGED <<iflag, idt, interrupt_handlers, pic, pit, dis, dterm, cpu, serial>>

(* init_alloc changes nothing here.  init_processes, shell_init and         *)
(* run_groups create threads, and thread_create enables the interrupts.     *)
(* The first output of the tests jumps to address 0 if there is no driver.  *)
BringUp(step) ==
    /\ Booting(step)
    /\ iflag' = (iflag \/ step \in {"init_processes", "shell_init", "run_groups", "enable_interrupts"})
    /\ dis' = IF step = "display_init" THEN "vesa" ELSE dis
    /\ dterm' = (dterm \/ step = "shell_init")
    /\ cpu' = IF step \in {"run_groups", "print_logo"} /\ dis = "none" THEN "lost" ELSE cpu
    /\ UNCHANGED <<idtr, idt, interrupt_handlers, pic, pit, serial>>

Boot ==
    \/ install_isrs \/ RemapPics \/ install_irqs \/ init_timer \/ init_keyboard
    \/ InitSerial \/ SerialClear \/ load_idt
    \/ \E step \in {"init_alloc", "init_processes", "run_groups", "display_init", "shell_init",
                    "print_logo", "enable_interrupts"} : BringUp(step)

-----------------------------------------------------------------------------
(* A device raises its line.                                                *)
Request(l) ==
    /\ cpu = "runs" /\ requests < IF tests THEN MaxTestRequests ELSE MaxRequests
    /\ LET c == IF l < 8 THEN "master" ELSE "slave" IN
       pic' = [pic EXCEPT ![c].irr = @ \cup {l}]
    /\ requests' = requests + 1
    /\ UNCHANGED <<tests, boot, iflag, idtr, idt, interrupt_handlers, pit, dis, dterm, frames, cpu, serial>>

(* The CPU takes the interrupt, through an interrupt gate, and comes to     *)
(* irq_handler with the number of the stub, or to anything else.            *)
Accept ==
    LET first == Min(MasterPending)
        l == IF first = 2 THEN Min(SlavePending) ELSE first
        gate == Gate(Vector(l))
    IN
    /\ cpu = "runs" /\ iflag /\ MasterPending # {}
    /\ pic' = [c \in Chips |->
          [pic[c] EXCEPT !.irr = @ \ {l},
                         !.isr = IF c = "master" THEN @ \cup {first} ELSE @ \cup ({l} \cap OnChip(c))]]
    /\ iflag' = FALSE
    /\ frames' = <<[int_no |-> 32 + gate[2], pc |-> "handler"]>> \o frames
    /\ cpu' = IF idtr /\ gate[1] = "irq" THEN "runs" ELSE "lost"
    /\ UNCHANGED <<tests, boot, idtr, idt, interrupt_handlers, pit, dis, dterm, requests, serial>>

InFrame(l) == cpu = "runs" /\ frames # <<>> /\ frames[1].pc = l
NextPc(l) == frames' = [frames EXCEPT ![1].pc = l]

(* irq_handler: the registered handler, if there is one.  The timer handler *)
(* may enable the interrupts (schedule); a key goes to the terminal, which  *)
(* is at address 0 before terminal_init.                                    *)
Handler ==
    LET h == HandlerOf(frames[1].int_no) IN
    /\ InFrame("handler")
    /\ iflag' \in IF h = "timer" THEN {iflag, TRUE} ELSE {iflag}
    /\ cpu' = IF h = "keyboard" /\ ~dterm THEN "lost" ELSE cpu
    /\ NextPc("eoi_slave")
    /\ UNCHANGED <<tests, boot, idtr, idt, interrupt_handlers, pic, pit, dis, dterm, requests, serial>>

(* The end of interrupt, to the slave and to the master.                    *)
OfSlave(int_no) == int_no >= 49

EoiSlave ==
    /\ InFrame("eoi_slave")
    /\ pic' = IF OfSlave(frames[1].int_no) THEN Outb(pic, <<"slave", "command", 32>>) ELSE pic
    /\ NextPc("eoi_master")
    /\ UNCHANGED <<tests, boot, iflag, idtr, idt, interrupt_handlers, pit, dis, dterm, cpu, requests, serial>>

EoiElse(int_no) == int_no < 40     \* mutant: the master is left out for the slave's lines
EoiBoth(int_no) == TRUE

EoiMaster ==
    /\ InFrame("eoi_master")
    /\ pic' = IF EoiBoth(frames[1].int_no) THEN Outb(pic, <<"master", "command", 32>>) ELSE pic
    /\ NextPc("iret")
    /\ UNCHANGED <<tests, boot, iflag, idtr, idt, interrupt_handlers, pit, dis, dterm, cpu, requests, serial>>

Iret ==
    /\ InFrame("iret")
    /\ frames' = Tail(frames)
    /\ iflag' = TRUE
    /\ UNCHANGED <<tests, boot, idtr, idt, interrupt_handlers, pic, pit, dis, dterm, cpu, requests, serial>>

irq_handler == Handler \/ EoiSlave \/ EoiMaster \/ Iret

(* A fault of the running code: isr_handler prints a message and stops the  *)
(* machine.                                                                 *)
isr_handler ==
    /\ cpu = "runs" /\ idtr
    /\ cpu' = IF dis = "none" THEN "lost" ELSE "halted"
    /\ iflag' = FALSE
    /\ UNCHANGED <<tests, boot, idtr, idt, interrupt_handlers, pic, pit, dis, dterm, frames, requests, serial>>

(* The threads print while no handler runs; kmain while it boots.           *)
Prints(w) ==
    /\ Running /\ dis = "serial"
    /\ \/ w = kmain /\ boot # <<>> /\ Head(boot) = "serial_clear" /\ sender[w].i = 1
       \/ w = kmain /\ boot # <<>> /\ Head(boot) = "run_groups"
       \/ boot = <<>>
    /\ SendTest(w) \/ Send(w)
    /\ UNCHANGED <<tests, boot, machine, frames, cpu, requests>>

Chip ==
    /\ dis = "serial" /\ cpu = "runs"
    /\ (Transmit \/ Receive \/ (Running /\ serial_read))
    /\ UNCHANGED <<tests, boot, machine, frames, cpu, requests>>

-----------------------------------------------------------------------------
Next ==
    \/ Boot \/ (\E l \in Lines : Request(l)) \/ Accept \/ irq_handler \/ isr_handler
    \/ (\E w \in Writer : Prints(w)) \/ Chip

(* The CPU goes on; devices need not ask, and the chip need not send.       *)
Spec == Init /\ [][Next]_vars
        /\ WF_vars(Boot) /\ WF_vars(Accept) /\ WF_vars(irq_handler) /\ WF_vars(Prints(kmain))

-----------------------------------------------------------------------------
(* Interrupts are only enabled when the machine is ready for them: the      *)
(* controllers map every line to the vector whose gate leads to irq_handler *)
(* with the number of this line, the devices' handlers are registered under *)
(* these numbers, and the timer counts the period that was asked for.       *)
Serves(l) == HandlerOf(Vector(l))

ReadyForInterrupts ==
    iflag =>
        /\ idtr /\ \A l \in 0..15 : Gate(Vector(l)) = <<"irq", l>>
        /\ \A c \in Chips : pic[c].mask = {} /\ pic[c].icw = 0
        /\ Serves(0) = "timer" /\ Serves(1) = "keyboard"
        /\ 256 * pit[2] + pit[1] = Clock \div R_FREQ

(* Every request of a device is served, while the CPU runs.  One that comes *)
(* through the slave is only served as long as none with a lower number of  *)
(* the slave is in service, for irq_handler never ends the service there.   *)
Shut(l) == l >= 8 /\ \E k \in pic["slave"].isr : k <= l

RequestsAreServed ==
    \A l \in Lines :
        l \in pic["master"].irr \cup pic["slave"].irr
          ~> (l \notin pic["master"].irr \cup pic["slave"].irr \/ Shut(l) \/ cpu # "runs")
=============================================================================
