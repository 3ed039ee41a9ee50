------------------------------- MODULE Kernel -------------------------------
(* The tables of the kernel as state, and what runs in it: the modules that *)
(* say who calls and interrupts whom extend this one.                       *)
EXTENDS Messages

CONSTANT INIT_PROC_NR

ASSUME InitAssumption == INIT_PROC_NR \in USERS

VARIABLE k       \* the tables of proc.c

Signed(m, p) == [m EXCEPT !.m_source = p]

\* The process that runs makes a call; what it had received is overwritten.
Trap(function, dest, m) ==
  LET p == k.proc_ptr IN
  sys_call([k EXCEPT !.inbox[p] = NoMessage], function, dest, Signed(m, p)).k
=============================================================================
