---------------------------- MODULE MessagePassing ----------------------------
(* Processes that make whatever calls the kernel accepts, and interrupts    *)
(* that come at any time: in between two calls, within one, while a task    *)
(* switches processes, while held interrupts are flushed.  Tasks and        *)
(* servers are trusted by proc.c, and nothing but that trust is assumed of  *)
(* them: they do not call themselves, and answer only a user that waits for *)
(* them.  Signals are in Signals.                                           *)
EXTENDS Kernel

CONSTANT INTERRUPTED    \* tasks that interrupts are sent to

\* A device interrupts its task.
ASSUME InterruptedAssumption == INTERRUPTED \subseteq TASKS

VARIABLES unholding,  \* within unhold(), at the end of a call or an interrupt
          owed        \* tasks with an interrupt that has not been received

messages_vars == <<k, unholding, owed>>

MessagesInit ==
  /\ k = Boot(INIT_PROC_NR)
  /\ unholding = FALSE
  /\ owed = {}

\* The message is taken out as soon as it is there: what it says is not looked at.
Taken(k1) == [k1 EXCEPT !.inbox = [p \in Procs |-> NoMessage]]

Got(k1) == {p \in Procs : k1.inbox[p] = Message(HARDWARE, "HARD_INT")}

HoldLate(k1, late) == IF late = NONE THEN k1 ELSE Hold(k1, late)

\* The kernel's tables become k1, which holds an interrupt that came too late.
\* At task level nothing is flushed before the next call or interrupt.
Become(k1, raised, late, flush) ==
  /\ k' = Taken(k1)
  /\ owed' = ((owed \cup raised) \ Got(k1)) \cup ({late} \ {NONE})
  /\ unholding' = (flush /\ k1.held # <<>>)

Late == INTERRUPTED \cup {NONE}

\* A message by p to itself or a message nobody waits for is not sent.
Allowed(p, function, other) ==
  \/ p \in USERS /\ other # p
  \/ p \notin USERS /\ function = "RECEIVE" /\ other \in (Procs \ (USERS \cup {p})) \cup {ANY, HARDWARE}
  \/ p \notin USERS /\ function # "RECEIVE" /\ other \in Procs \ (USERS \cup {p})
  \/ function = "SEND" /\ other \in USERS /\ k.p_getfrom[other] = p

Call(function, other, late) ==
  /\ ~unholding
  /\ k.proc_ptr # IDLE
  /\ Allowed(k.proc_ptr, function, other)
  /\ LET k1 == sys_call(k, function, other, Message(k.proc_ptr, "message")).k
     IN Become(HoldLate(k1, late), {}, late, TRUE)

Interrupt(task, late) ==
  /\ ~unholding
  /\ Become(HoldLate(interrupt(k, task), late), {task}, late, TRUE)

Unhold(late) ==
  /\ unholding
  /\ Become(unhold(k, late), {}, late, TRUE)

\* The system task runs and does what MM has asked for.
Exit(u, late) ==
  /\ ~unholding
  /\ k.proc_ptr = SYSTASK
  /\ u \in k.in_use \ {INIT_PROC_NR}
  /\ Become(HoldLate(do_xit(k, u), late), {}, late, FALSE)

Fork(parent, child, late) ==
  /\ ~unholding
  /\ k.proc_ptr = SYSTASK
  /\ parent \in k.in_use
  /\ child \notin k.in_use
  /\ k.p_getfrom[parent] = MM /\ k.p_sendto[parent] = NONE
  /\ Become(HoldLate(do_newmap(do_fork(k, parent, child), child), late), {}, late, FALSE)

MessagesNext ==
  \E late \in Late :
    \/ \E function \in {"SEND", "RECEIVE", "BOTH"}, other \in Procs \cup {ANY, HARDWARE} :
         Call(function, other, late)
    \/ \E task \in INTERRUPTED : Interrupt(task, late)
    \/ Unhold(late)
    \/ \E u \in USERS : Exit(u, late)
    \/ \E parent, child \in USERS : Fork(parent, child, late)

MessagesSpec == MessagesInit /\ [][MessagesNext]_messages_vars

---------------------------------------------------------------------------
(* Properties *)

\* Each table holds what belongs there; a process that is not in use is not
\* blocked, and interrupts are held only until the next flush.
MessagesTypeOK ==
  /\ k.p_getfrom \in [Procs -> Procs \cup {ANY, HARDWARE, NONE}]
  /\ k.p_sendto \in [Procs -> Procs \cup {NONE}]
  /\ \A p \in Procs : Members(k.p_callerq[p]) \subseteq Procs
  /\ \A q \in DOMAIN k.rdy : Members(k.rdy[q]) \subseteq Procs
  /\ k.in_use \subseteq USERS
  /\ \A u \in USERS \ k.in_use : Runnable(k, u)
  /\ k.int_blocked \subseteq INTERRUPTED
  /\ Members(k.held) \subseteq INTERRUPTED
  /\ k.proc_ptr \in Procs \cup {IDLE}
  /\ owed \subseteq INTERRUPTED
  /\ unholding => k.held # <<>>

\* Whatever is sent, received, interrupted or killed, the ready queues hold
\* exactly the processes with p_flags == 0, each one once, and the first of the
\* highest queue runs: no path through ready, unready and interrupt leaves
\* proc_ptr behind.
ReadyAreRunnable == QueuesHoldRunnable(k) /\ k.proc_ptr = Highest(k.rdy)

\* The chain p_callerq, p_sendlink of a process holds just those that are
\* SENDING to it, also after one of them has been killed.
CallersQueued == CallersAreSenders(k)

\* "Check for deadlock by 'caller_ptr' and 'dest' sending to each other": there
\* is never a ring of processes of any length each sending to the next.
NoSendRing ==
  \A S \in (SUBSET Procs) \ {{}} : \E p \in S : k.p_sendto[p] \notin S

\* No process sleeps in receive while a sender or an interrupt it would accept
\* is waiting for it.
NoneWaitsInVain == NobodyWaitsInVain(k)

\* A task that has not received anything since its last interrupt will: the
\* interrupt is held or blocked, and not lost between switching, unhold and mini_rec.
InterruptsKept == owed \subseteq Members(k.held) \cup k.int_blocked
===============================================================================
