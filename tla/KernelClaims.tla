---------------------------- MODULE KernelClaims ----------------------------
(***************************************************************************)
(* What a comment of kernel/proc.c says of waiting, stated without the     *)
(* provisos of module Kernel; TLC refutes it, and the README tells how.    *)
(***************************************************************************)
EXTENDS Kernel

(* proc.c:177, of proc_wait: "this call blocks until p notifies this thread *)
(* or until p dies": a shell that is blocked on a process whose page has    *)
(* been freed is unblocked.                                                 *)
ProcWaitReturns ==
    \A p \in CmdProc :
        (/\ \E i \in 1..Len(stk[ShellT]) : stk[ShellT][i] = FrA("wait_ret", p)
         /\ state[ShellT] = "BLOCKED" /\ p \notin ppages)
        ~> state[ShellT] # "BLOCKED"
=============================================================================
