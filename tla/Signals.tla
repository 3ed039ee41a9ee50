------------------------------- MODULE Signals -------------------------------
(* The system task, the clock task and the signals that go through MM, with *)
(* processes that fork, exec, exit, are stopped, signalled and killed, each *)
(* step one call or one piece of work of the process that runs.  MM, FS and *)
(* the user processes are not in the repository, they are what the kernel's *)
(* code expects of them.  An interrupt comes between two steps: that one    *)
(* which comes within a step waits for its end is the subject of            *)
(* MessagePassing.                                                          *)
EXTENDS Kernel

CONSTANT MAX_EVENTS       \* bound: clock interrupts, signals of FS, execs of the traced

\* "MM, FS, INIT follow the kernel" (main.c:82): they are the servers.
ASSUME SignalsAssumption ==
  /\ {CLOCK, SYSTASK} \subseteq TASKS /\ SERVERS = {MM, FS}
  /\ USERS \subseteq Nat /\ IsFiniteSet(USERS)
  /\ MAX_EVENTS \in Nat

VARIABLES todo,    \* per task or server: the calls it is about to make
          left     \* events that may still come

signals_vars == <<k, todo, left>>

Active == TASKS \cup SERVERS

SignalsInit ==
  /\ k = Boot(INIT_PROC_NR)
  /\ todo = [p \in Active |-> <<>>]
  /\ left = MAX_EVENTS

---------------------------------------------------------------------------
(* Messages and calls *)

Request(type, u) == [m_source |-> NONE, m_type |-> type, PROC1 |-> u]

ForkRequest(u, child) ==
  [m_source |-> NONE, m_type |-> "SYS_FORK", PROC1 |-> u, PROC2 |-> child]

SendRec(dest, m) == [function |-> "BOTH", dest |-> dest, m |-> m]
Reply(dest) == [function |-> "SEND", dest |-> dest, m |-> Message(NONE, "reply")]
TellFS == SendRec(FS, Message(NONE, "tell_fs"))

\* The next call of a task's or server's work, or receive(ANY) when it is done.
MakeCall ==
  /\ k.proc_ptr \in Active
  /\ LET p == k.proc_ptr IN
     \/ /\ todo[p] # <<>>
        /\ k' = Trap(Head(todo[p]).function, Head(todo[p]).dest, Head(todo[p]).m)
        /\ todo' = [todo EXCEPT ![p] = Tail(@)]
     \/ /\ todo[p] = <<>> /\ k.inbox[p].m_type \in {"none", "reply"}
        /\ k' = Trap("RECEIVE", ANY, NoMessage)
        /\ UNCHANGED todo
  /\ UNCHANGED left

\* p runs and has received m, which begins a piece of work.
Has(p, type) ==
  /\ k.proc_ptr = p
  /\ todo[p] = <<>>
  /\ k.inbox[p].m_type = type

\* p has done what it does itself and goes on to make calls.
Work(p, k1, calls) ==
  /\ k' = [k1 EXCEPT !.inbox[p] = NoMessage]
  /\ todo' = [todo EXCEPT ![p] = calls]

---------------------------------------------------------------------------
(* The clock task *)

ClockInterrupt ==
  /\ left > 0
  /\ k' = interrupt(k, CLOCK)
  /\ left' = left - 1
  /\ UNCHANGED todo

\* The alarm of a user process may be due.
do_clocktick ==
  /\ Has(CLOCK, "HARD_INT")
  /\ \/ \E u \in k.in_use : Work(CLOCK, cause_sig(k, u, "SIGALRM"), <<>>)
     \/ Work(CLOCK, k, <<>>)
  /\ UNCHANGED left

---------------------------------------------------------------------------
(* The system task *)

Asked == k.inbox[SYSTASK]

\* The request of this type is carried out, which leaves the tables at k1.
Served(type, k1) ==
  /\ Has(SYSTASK, type)
  /\ Work(SYSTASK, k1, <<Reply(Asked.m_source)>>)
  /\ UNCHANGED left

\* A traced process that has executed a file is signalled before it goes on.
TracedExec ==
  /\ left > 0
  /\ Has(SYSTASK, "SYS_EXEC")
  /\ Work(SYSTASK, do_exec(k, Asked.PROC1, TRUE), <<Reply(Asked.m_source)>>)
  /\ left' = left - 1

sys_task ==
  \/ TracedExec
  \/ Served("SYS_FORK", do_fork(k, Asked.PROC1, Asked.PROC2))
  \/ Served("SYS_NEWMAP", do_newmap(k, Asked.PROC1))
  \/ Served("SYS_EXEC", do_exec(k, Asked.PROC1, FALSE))
  \/ Served("SYS_XIT", do_xit(k, Asked.PROC1))
  \/ Served("SYS_KILL", cause_sig(k, Asked.PROC1, "SIGPIPE"))
  \/ Served("SYS_ENDSIG", do_endsig(k, Asked.PROC1))
  \/ Served("T_STOP", do_trace(k, Asked.PROC1, "T_STOP"))
  \/ Served("T_RESUME", do_trace(k, Asked.PROC1, "T_RESUME"))

---------------------------------------------------------------------------
(* MM *)

System(type, u) == SendRec(SYSTASK, Request(type, u))

\* What MM may do about one signal: take no notice or catch it, stop a traced
\* process, or let it die.
Handling(u) ==
  {<<>>, <<System("T_STOP", u)>>}
    \cup (IF u = INIT_PROC_NR THEN {} ELSE {<<TellFS, System("SYS_XIT", u)>>})

EndSig(u) == <<System("SYS_ENDSIG", u)>>

\* Each signal of the message is handled and then ended.
MMSignal ==
  /\ Has(MM, "KSIG")
  /\ LET u == k.inbox[MM].SIG_PROC
         n == Cardinality(k.inbox[MM].SIG_MAP)
     IN \/ n = 1 /\ \E h \in Handling(u) : Work(MM, k, h \o EndSig(u))
        \/ n = 2 /\ \E h, g \in Handling(u) :
             Work(MM, k, h \o EndSig(u) \o g \o EndSig(u))
  /\ UNCHANGED left

Stopped(u) == u \in k.in_use /\ "P_STOP" \in k.p_flags[u]

MMRequest ==
  LET u == k.inbox[MM].m_source IN
  /\ \/ /\ Has(MM, "FORK")
        /\ IF USERS = k.in_use THEN Work(MM, k, <<Reply(u)>>)
           ELSE LET child == Smallest(USERS \ k.in_use) IN
                Work(MM, k, <<SendRec(SYSTASK, ForkRequest(u, child)), TellFS,
                              System("SYS_NEWMAP", child), Reply(child), Reply(u)>>)
     \/ /\ Has(MM, "EXIT")
        /\ Work(MM, k, IF u = INIT_PROC_NR THEN <<Reply(u)>>
                       ELSE <<TellFS, System("SYS_XIT", u)>>)
     \/ Has(MM, "EXEC") /\ Work(MM, k, <<System("SYS_EXEC", u)>>)
     \/ /\ Has(MM, "PTRACE")
        /\ \E v \in USERS \ {u} :
             Work(MM, k, (IF Stopped(v) THEN <<System("T_RESUME", v)>> ELSE <<>>)
                         \o <<Reply(u)>>)
  /\ UNCHANGED left

---------------------------------------------------------------------------
(* FS and the users *)

\* A write to a pipe nobody reads makes FS signal the writer before it answers.
FSRequest ==
  LET u == k.inbox[FS].m_source IN
  \/ Has(FS, "tell_fs") /\ Work(FS, k, <<Reply(u)>>) /\ UNCHANGED left
  \/ Has(FS, "WRITE") /\ Work(FS, k, <<Reply(u)>>) /\ UNCHANGED left
  \/ /\ Has(FS, "WRITE") /\ left > 0
     /\ Work(FS, k, <<System("SYS_KILL", u), Reply(u)>>)
     /\ left' = left - 1

UserCall ==
  /\ k.proc_ptr \in USERS
  /\ \/ \E type \in {"FORK", "EXIT", "EXEC", "PTRACE"} :
          k' = Trap("BOTH", MM, Message(NONE, type))
     \/ k' = Trap("BOTH", FS, Message(NONE, "WRITE"))
  /\ UNCHANGED <<todo, left>>

SignalsRun == MakeCall \/ do_clocktick \/ sys_task \/ MMSignal \/ MMRequest
                \/ FSRequest \/ UserCall

SignalsNext == ClockInterrupt \/ SignalsRun

SignalsSpec == SignalsInit /\ [][SignalsNext]_signals_vars

\* The processor does not stop while a process is ready.
FairSignals == SignalsSpec /\ WF_signals_vars(SignalsRun)

---------------------------------------------------------------------------
(* Properties *)

Pending == {u \in USERS : "PENDING" \in k.p_flags[u]}

\* Calls of MM that end a signal of u and have not been carried out, wherever
\* they are: in the KSIG message, still to be made, under way, or received.
EndsOf(u) == LET Is(m) == m.m_type = "SYS_ENDSIG" /\ m.PROC1 = u IN
  Cardinality({i \in DOMAIN todo[MM] : Is(todo[MM][i].m)})
    + (IF Is(k.p_messbuf[MM]) THEN 1 ELSE 0)
    + (IF Is(k.inbox[SYSTASK]) THEN 1 ELSE 0)
    + (IF k.inbox[MM].m_type = "KSIG" /\ k.inbox[MM].SIG_PROC = u
         THEN Cardinality(k.inbox[MM].SIG_MAP) ELSE 0)

SignalsTypeOK ==
  /\ \A u \in USERS : k.p_flags[u] \subseteq {"NO_MAP", "PENDING", "SIG_PENDING", "P_STOP"}
  /\ \A u \in USERS \ k.in_use : Runnable(k, u) /\ k.p_pending[u] = {}
  /\ k.sig_procs \in 0 .. Cardinality(USERS)
  /\ k.proc_ptr \in Procs \cup {IDLE}
  /\ left \in 0 .. MAX_EVENTS
  /\ \A p \in Active : Len(todo[p]) <= 6

\* Besides the types: sig_procs counts the processes with PENDING, through fork,
\* exit and inform, and there is none while MM waits for work: whoever comes
\* second, the signal or MM's receive, brings them together.  "These signals are
\* counted in p_pendcount": the count of a process is that of the signals MM has
\* not been told of and of those it has not finished, and SIG_PENDING is kept
\* while there are some.
SignalsCounted ==
  /\ SignalsTypeOK
  /\ k.sig_procs = Cardinality(Pending)
  /\ k.p_getfrom[MM] = ANY => k.sig_procs = 0
  /\ \A u \in k.in_use :
       /\ k.p_pendcount[u] = Cardinality(k.p_pending[u]) + EndsOf(u)
       /\ "SIG_PENDING" \in k.p_flags[u] <=> k.p_pendcount[u] > 0
       /\ "PENDING" \in k.p_flags[u] <=> k.p_pending[u] # {}

\* Stopped, unmapped, signalled, blocked or killed in any order: the ready queues
\* hold exactly the processes with p_flags == 0, each one once.
ReadyThroughSignals == QueuesHoldRunnable(k)

\* A task never waits to send: whoever it answers still waits for the answer,
\* though it may have been signalled or killed meanwhile.
TasksDoNotWait == \A t \in TASKS : k.p_sendto[t] = NONE

\* A process that is signalled is told to MM, handled, and in the end runs on or
\* is dead.
SignalsEnd == \A u \in USERS :
  ("SIG_PENDING" \in k.p_flags[u]) ~> ("SIG_PENDING" \notin k.p_flags[u])
=============================================================================
