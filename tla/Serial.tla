------------------------------- MODULE Serial -------------------------------
(***************************************************************************)
(* drivers/serial.c and the serial chip behind it.  In a build with TESTS  *)
(* every thread prints through serial_puts.  A thread can lose the CPU     *)
(* between serial_transmit_empty and outb, so that several find the chip   *)
(* empty; and it gives up on a character after SERIAL_TIMEOUT tries.       *)
(***************************************************************************)
EXTENDS Integers, SequencesExt, FiniteSets

CONSTANTS
    Writer,           \* the threads that print, kmain among them
    Length,           \* characters a thread prints
    MaxReceived,      \* bound: bytes that arrive
    SERIAL_TIMEOUT,
    FIFO              \* characters the chip can hold: 16

ASSUME SerialAssumption ==
    /\ Length \in Nat /\ MaxReceived \in Nat /\ SERIAL_TIMEOUT \in Nat
    /\ FIFO \in Nat /\ IsFiniteSet(Writer) /\ Cardinality(Writer) <= FIFO

VARIABLES
    uart,      \* the chip: loopback, the characters to send, those received, the line
    sender,    \* a thread in serial_puts: where it is, its character, try_no
    dropped,   \* history: the characters serial_putc gave up
    got        \* history: what serial_read returned

serial == <<uart, sender, dropped, got>>

(* What the ports are left at: the queues are cleared, and the chip stays   *)
(* in loopback mode if it does not answer with the byte it was given.       *)
init_serial(u, answers) == [u EXCEPT !.loopback = ~answers, !.tx = <<>>, !.rx = <<>>]

SerialInit ==
    /\ uart = [loopback |-> FALSE, tx |-> <<>>, rx |-> <<>>, out |-> <<>>, in |-> 0]
    /\ sender = [w \in Writer |-> [pc |-> "send", i |-> 1, try_no |-> 0]]
    /\ dropped = {} /\ got = <<>>

serial_received == uart.rx # <<>>
AlwaysEmpty == TRUE            \* mutant: the chip is not asked
serial_transmit_empty == uart.tx = <<>>

(* serial_putc is done with its character; serial_puts goes on to the next. *)
NextChar(s) == [pc |-> "send", i |-> s.i + 1, try_no |-> 0]

(* serial_send: the test.  The first call is no try of the loop.            *)
SendTest(w) ==
    LET s == sender[w]
        last == s.try_no >= SERIAL_TIMEOUT
    IN
    /\ s.pc = "send" /\ s.i <= Length
    /\ \/ /\ serial_transmit_empty
          /\ sender' = [sender EXCEPT ![w].pc = "outb"]
          /\ UNCHANGED dropped
       \/ /\ ~serial_transmit_empty
          /\ sender' = [sender EXCEPT ![w] = IF last THEN NextChar(s) ELSE [s EXCEPT !.try_no = @ + 1]]
          /\ dropped' = IF last THEN dropped \cup {<<w, s.i>>} ELSE dropped
    /\ UNCHANGED <<uart, got>>

(* outb(COM1, byte): a full chip loses the byte.                            *)
Send(w) ==
    LET s == sender[w] IN
    /\ s.pc = "outb"
    /\ uart' = [uart EXCEPT !.tx = IF Len(@) < FIFO THEN Append(@, <<w, s.i>>) ELSE @]
    /\ sender' = [sender EXCEPT ![w] = NextChar(s)]
    /\ UNCHANGED <<dropped, got>>

(* serial_read; a NULL buffer leaves the byte where it is.                  *)
serial_read ==
    /\ serial_received
    /\ got' = Append(got, Head(uart.rx))
    /\ uart' = [uart EXCEPT !.rx = Tail(@)]
    /\ UNCHANGED <<sender, dropped>>

(* The chip sends a character, or receives one.                             *)
Transmit ==
    /\ uart.tx # <<>>
    /\ uart' = [uart EXCEPT !.tx = Tail(@), !.out = Append(@, Head(uart.tx))]
    /\ UNCHANGED <<sender, dropped, got>>

Receive ==
    /\ uart.in < MaxReceived /\ Len(uart.rx) < FIFO /\ ~uart.loopback
    /\ uart' = [uart EXCEPT !.in = @ + 1, !.rx = Append(@, uart.in + 1)]
    /\ UNCHANGED <<sender, dropped, got>>

-----------------------------------------------------------------------------
(* Every character a thread has printed comes out once and in its order,    *)
(* whatever the threads' interleaving, or was given up after the tries;     *)
(* what is read is what arrived, in order, and the rest is still there.     *)
Sent == uart.out \o uart.tx

SerialInOrder ==
    /\ \A j, k \in 1..Len(Sent) : j < k /\ Sent[j][1] = Sent[k][1] => Sent[j][2] < Sent[k][2]
    /\ \A w \in Writer, i \in 1..Length :
         (\E j \in 1..Len(Sent) : Sent[j] = <<w, i>>)
           <=> i < sender[w].i /\ <<w, i>> \notin dropped
    /\ got \o uart.rx = [i \in 1..uart.in |-> i]
=============================================================================
