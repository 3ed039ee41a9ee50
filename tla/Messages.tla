------------------------------ MODULE Messages ------------------------------
(* Processes, their ready queues and the messages between them: proc.c, and *)
(* the signals of system.c that hang on them.  No state: every operator     *)
(* takes the kernel's tables as a record k and gives them back changed.     *)
(*                                                                          *)
(* p_getfrom and p_sendto are NONE unless the flag RECEIVING or SENDING is  *)
(* set, since nothing reads them otherwise; so these two flags are not in   *)
(* p_flags.  The message of a blocked sender is in p_messbuf, the last one  *)
(* a process was given in inbox.                                            *)
EXTENDS Integers, Sequences, FiniteSets

CONSTANTS TASK_SLOTS,    \* the tasks in the order of their slots
          SERVER_SLOTS,  \* MM and FS, which run outside the kernel, likewise
          USERS          \* slots of user processes, in use or not

Members(s) == {s[i] : i \in DOMAIN s}

NoRepetition(s) == \A i, j \in DOMAIN s : s[i] = s[j] => i = j

TASKS == Members(TASK_SLOTS)
SERVERS == Members(SERVER_SLOTS)

ANY == 31438
HARDWARE == -1
SYSTASK == -2
CLOCK == -3
IDLE == -6
SYN_ALRM_TASK == -7
MM == 0
FS == 1
NONE == ANY + 1     \* no process either

Procs == TASKS \cup SERVERS \cup USERS

\* A slot has one process, and none of these numbers.
ASSUME SlotsAssumption ==
  /\ TASK_SLOTS \in Seq(Int) /\ TASK_SLOTS # <<>> /\ NoRepetition(TASK_SLOTS)
  /\ SERVER_SLOTS \in Seq(Int) /\ NoRepetition(SERVER_SLOTS)
  /\ TASKS \cap SERVERS = {} /\ TASKS \cap USERS = {} /\ SERVERS \cap USERS = {}
  /\ {IDLE, HARDWARE, ANY, NONE} \cap Procs = {}

Message(source, type) == [m_source |-> source, m_type |-> type]

NoMessage == Message(NONE, "none")

Runnable(k, p) ==
  k.p_flags[p] = {} /\ k.p_getfrom[p] = NONE /\ k.p_sendto[p] = NONE

InUse(k, p) == p \in USERS => p \in k.in_use

Smallest(S) == CHOOSE x \in S : \A y \in S : x <= y

\* p is taken out of a queue.
Without(s, p) ==
  LET n == CHOOSE n \in DOMAIN s : s[n] = p
  IN IF p \in Members(s) THEN SubSeq(s, 1, n - 1) \o SubSeq(s, n + 1, Len(s)) ELSE s

---------------------------------------------------------------------------
(* Ready queues *)

QueueOf(p) == IF p \in TASKS THEN "TASK_Q"
              ELSE IF p \in SERVERS THEN "SERVER_Q" ELSE "USER_Q"

\* Slip: user processes before servers.
HighestUserFirst(rdy) == IF rdy.TASK_Q # <<>> THEN Head(rdy.TASK_Q)
                         ELSE IF rdy.USER_Q # <<>> THEN Head(rdy.USER_Q)
                         ELSE IF rdy.SERVER_Q # <<>> THEN Head(rdy.SERVER_Q)
                         ELSE IDLE

Highest(rdy) == IF rdy.TASK_Q # <<>> THEN Head(rdy.TASK_Q)
                ELSE IF rdy.SERVER_Q # <<>> THEN Head(rdy.SERVER_Q)
                ELSE IF rdy.USER_Q # <<>> THEN Head(rdy.USER_Q)
                ELSE IDLE

pick_proc(k) == [k EXCEPT !.proc_ptr = Highest(k.rdy)]

\* A user process goes to the front of its queue; a task that finds the queue
\* of tasks empty runs next.
ready(k, p) ==
  LET q == QueueOf(p) IN
  IF q = "USER_Q" THEN [k EXCEPT !.rdy[q] = <<p>> \o @]
  ELSE [k EXCEPT !.rdy[q] = Append(@, p),
                 !.proc_ptr = IF q = "TASK_Q" /\ k.rdy[q] = <<>> THEN p ELSE @]

unready(k, p) ==
  LET q == QueueOf(p)
      k1 == [k EXCEPT !.rdy[q] = Without(@, p)] IN
  IF k.rdy[q] # <<>> /\ Head(k.rdy[q]) = p /\ (q = "TASK_Q" => p = k.proc_ptr)
    THEN pick_proc(k1) ELSE k1

ReadyIfRunnable(k, p) == IF Runnable(k, p) THEN ready(k, p) ELSE k

UnreadyIfRunnable(k, p) == IF Runnable(k, p) THEN unready(k, p) ELSE k

---------------------------------------------------------------------------
(* Messages *)

\* Slip: only rings of two are looked for.
RingOfTwo(k, p, dest) == k.p_sendto[dest] = p

\* Is p among those that dest is waiting to send to, directly or through others?
\* Then some process sends to p in any set that holds dest and what it waits for.
Ring(k, p, dest) ==
  \A S \in SUBSET Procs :
    dest \in S /\ (\A q \in S : k.p_sendto[q] \in S \cup {NONE})
      => \E q \in S : k.p_sendto[q] = p

\* Slip: a process that waits for p in particular is taken for busy.
AwaitsAny(k, dest, p) == k.p_sendto[dest] = NONE /\ k.p_getfrom[dest] = ANY

\* dest is waiting for a message from p, and for nothing else.
Awaits(k, dest, p) == k.p_sendto[dest] = NONE /\ k.p_getfrom[dest] \in {ANY, p}

Deliver(k, dest, m) ==
  ReadyIfRunnable([k EXCEPT !.inbox[dest] = m, !.p_getfrom[dest] = NONE], dest)

BlockSending(k, p, dest, m) ==
  [UnreadyIfRunnable(k, p) EXCEPT !.p_messbuf[p] = m,
                                  !.p_sendto[p] = dest,
                                  !.p_callerq[dest] = Append(@, p)]

mini_send(k, p, dest, m) ==
  IF (p \in USERS /\ dest \notin SERVERS) \/ ~InUse(k, dest)
    THEN [k |-> k, result |-> "E_BAD_DEST"]
  ELSE IF Ring(k, p, dest) THEN [k |-> k, result |-> "ELOCKED"]
  ELSE [k |-> IF Awaits(k, dest, p) THEN Deliver(k, dest, m)
                                    ELSE BlockSending(k, p, dest, m),
        result |-> "OK"]

\* The signals pending for one process go to MM, the process stays stopped.
inform(k) ==
  LET p == Smallest({x \in Procs \ TASKS : "PENDING" \in k.p_flags[x]})
      ksig == [m_source |-> HARDWARE, m_type |-> "KSIG",
               SIG_PROC |-> p, SIG_MAP |-> k.p_pending[p]]
      k1 == mini_send(k, HARDWARE, MM, ksig).k
  IN pick_proc([k1 EXCEPT !.sig_procs = @ - 1,
                          !.p_pending[p] = {},
                          !.p_flags[p] = @ \ {"PENDING"}])

Acceptable(k, p, src) ==
  {i \in DOMAIN k.p_callerq[p] : src \in {ANY, k.p_callerq[p][i]}}

\* Slip: the sender runs again although it waits for the answer.
TakeFromReadying(k, p, sender) ==
  ready([k EXCEPT !.inbox[p] = k.p_messbuf[sender],
                  !.p_messbuf[sender] = NoMessage,
                  !.p_sendto[sender] = NONE,
                  !.p_callerq[p] = Without(@, sender)], sender)

TakeFrom(k, p, sender) ==
  ReadyIfRunnable([k EXCEPT !.inbox[p] = k.p_messbuf[sender],
                            !.p_messbuf[sender] = NoMessage,
                            !.p_sendto[sender] = NONE,
                            !.p_callerq[p] = Without(@, sender)], sender)

TakeInterrupt(k, p) ==
  [k EXCEPT !.inbox[p] = Message(HARDWARE, "HARD_INT"),
            !.int_blocked = @ \ {p}]

\* Slip: MM blocks without a look at sig_procs.
BlockReceivingUntold(k, p, src) ==
  [UnreadyIfRunnable(k, p) EXCEPT !.p_getfrom[p] = src]

BlockReceiving(k, p, src) ==
  LET k1 == [UnreadyIfRunnable(k, p) EXCEPT !.p_getfrom[p] = src]
  IN IF k.sig_procs > 0 /\ p = MM /\ src = ANY THEN inform(k1) ELSE k1

\* Slip: the blocked interrupt is forgotten.
mini_recAsleep(k, p, src) ==
  IF k.p_sendto[p] = NONE /\ Acceptable(k, p, src) # {}
    THEN TakeFrom(k, p, k.p_callerq[p][Smallest(Acceptable(k, p, src))])
    ELSE BlockReceiving(k, p, src)

mini_rec(k, p, src) ==
  IF k.p_sendto[p] # NONE THEN BlockReceiving(k, p, src)
  ELSE IF Acceptable(k, p, src) # {}
    THEN TakeFrom(k, p, k.p_callerq[p][Smallest(Acceptable(k, p, src))])
  ELSE IF p \in k.int_blocked /\ src \in {ANY, HARDWARE} THEN TakeInterrupt(k, p)
  ELSE BlockReceiving(k, p, src)

sys_call(k, function, src_dest, m) ==
  LET p == k.proc_ptr
      sent == IF function = "RECEIVE" THEN [k |-> k, result |-> "OK"]
              ELSE mini_send(k, p, src_dest, m)
  IN IF p \in USERS /\ function # "BOTH"
       THEN [k |-> k, result |-> "E_NO_PERM"]
     ELSE IF function = "SEND" \/ sent.result # "OK" THEN sent
     ELSE [k |-> mini_rec(sent.k, p, src_dest), result |-> "OK"]

---------------------------------------------------------------------------
(* Interrupts *)

\* Within the kernel, or while a task switches processes: keep it for later.
Hold(k, task) == IF task \in Members(k.held) THEN k
                 ELSE [k EXCEPT !.held = Append(@, task)]

interrupt(k, task) ==
  IF k.p_sendto[task] # NONE \/ k.p_getfrom[task] \notin {ANY, HARDWARE}
    THEN [k EXCEPT !.int_blocked = @ \cup {task}]
  ELSE LET woken == [k EXCEPT !.inbox[task] = Message(HARDWARE, "HARD_INT"),
                              !.p_getfrom[task] = NONE,
                              !.int_blocked = @ \ {task}]
       IN ready(woken, task)

\* Slip: p_int_held is reset only after the interrupts that come meanwhile.
unholdLate(k, late) ==
  LET k1 == IF late = NONE THEN k ELSE Hold(k, late)
  IN interrupt([k1 EXCEPT !.held = Tail(@)], Head(k.held))

\* One round of unhold(): late interrupts come while interrupts are enabled,
\* when the one taken from the queue no longer counts as held.
unhold(k, late) ==
  LET task == Head(k.held)
      k1 == [k EXCEPT !.held = Tail(@)]
  IN interrupt(IF late = NONE THEN k1 ELSE Hold(k1, late), task)

---------------------------------------------------------------------------
(* Signals and what the system task does to a process *)

cause_sig(k, p, sig) ==
  IF sig \in k.p_pending[p] THEN k
  ELSE LET k1 == [k EXCEPT !.p_pending[p] = @ \cup {sig}, !.p_pendcount[p] = @ + 1]
           k2 == [UnreadyIfRunnable(k1, p) EXCEPT
                    !.p_flags[p] = @ \cup {"PENDING", "SIG_PENDING"},
                    !.sig_procs = @ + 1]
       IN IF "PENDING" \in k.p_flags[p] THEN k1
          ELSE IF k.p_getfrom[MM] = ANY THEN inform(k2) ELSE k2

do_endsig(k, p) ==
  LET k1 == [k EXCEPT !.p_pendcount[p] = @ - 1] IN
  IF ~InUse(k, p) \/ k.p_pendcount[p] = 0 THEN k
  ELSE IF k1.p_pendcount[p] # 0 THEN k1
  ELSE ReadyIfRunnable([k1 EXCEPT !.p_flags[p] = @ \ {"SIG_PENDING"}], p)

\* The child's slot is a copy of the parent's; it waits for MM as the parent does.
do_fork(k, parent, child) ==
  [k EXCEPT !.in_use = @ \cup {child},
            !.p_flags[child] = (k.p_flags[parent] \cup {"NO_MAP"})
                                 \ {"PENDING", "SIG_PENDING", "P_STOP"},
            !.p_getfrom[child] = k.p_getfrom[parent],
            !.p_sendto[child] = k.p_sendto[parent],
            !.p_callerq[child] = k.p_callerq[parent],
            !.p_pending[child] = {},
            !.p_pendcount[child] = 0]

do_newmap(k, p) ==
  IF k.p_flags[p] = {} THEN k
  ELSE ReadyIfRunnable([k EXCEPT !.p_flags[p] = @ \ {"NO_MAP"}], p)

\* Slip: the process runs whatever else keeps it from it.
do_execReady(k, p, traced) ==
  LET k1 == IF traced THEN cause_sig(k, p, "SIGTRAP") ELSE k
  IN ready([k1 EXCEPT !.p_getfrom[p] = NONE], p)

\* MM does not answer EXEC: the system task lets the process go on.
do_exec(k, p, traced) ==
  LET k1 == IF traced THEN cause_sig(k, p, "SIGTRAP") ELSE k
  IN ReadyIfRunnable([k1 EXCEPT !.p_getfrom[p] = NONE], p)

Killed(k, p) ==
  [UnreadyIfRunnable(k, p) EXCEPT !.in_use = @ \ {p},
                                  !.p_pending[p] = {},
                                  !.p_pendcount[p] = 0]

Unqueued(k, p) == [d \in Procs |-> Without(k.p_callerq[d], p)]

\* Two slips: the process stays RECEIVING, or queued where it was sending.
do_xitBlocked(k, p) ==
  [Killed(k, p) EXCEPT !.p_flags[p] = {},
                       !.p_sendto[p] = NONE,
                       !.p_messbuf[p] = NoMessage,
                       !.p_callerq = Unqueued(k, p),
                       !.sig_procs = IF "PENDING" \in k.p_flags[p] THEN @ - 1 ELSE @]

do_xitQueued(k, p) ==
  [Killed(k, p) EXCEPT !.p_flags[p] = {},
                       !.p_getfrom[p] = NONE,
                       !.p_sendto[p] = NONE,
                       !.p_messbuf[p] = NoMessage,
                       !.sig_procs = IF "PENDING" \in k.p_flags[p] THEN @ - 1 ELSE @]

do_xit(k, p) ==
  [Killed(k, p) EXCEPT !.p_flags[p] = {},
                       !.p_getfrom[p] = NONE,
                       !.p_sendto[p] = NONE,
                       !.p_messbuf[p] = NoMessage,
                       !.p_callerq = Unqueued(k, p),
                       !.sig_procs = IF "PENDING" \in k.p_flags[p] THEN @ - 1 ELSE @]

do_trace(k, p, request) ==
  IF ~InUse(k, p) THEN k
  ELSE IF request = "T_STOP"
    THEN [UnreadyIfRunnable(k, p) EXCEPT !.p_flags[p] = @ \cup {"P_STOP"}]
    ELSE ReadyIfRunnable([k EXCEPT !.p_flags[p] = @ \ {"P_STOP"}], p)

---------------------------------------------------------------------------
(* What holds of the tables whatever is sent: the properties of the modules *)
(* that use them are stated with these.                                     *)

QueuesHoldRunnable(k) ==
  \A q \in DOMAIN k.rdy :
    /\ NoRepetition(k.rdy[q])
    /\ Members(k.rdy[q]) =
         {p \in Procs : InUse(k, p) /\ Runnable(k, p) /\ QueueOf(p) = q}

CallersAreSenders(k) ==
  \A d \in Procs :
    /\ NoRepetition(k.p_callerq[d])
    /\ Members(k.p_callerq[d]) = {p \in Procs : k.p_sendto[p] = d}

NobodyWaitsInVain(k) ==
  \A p \in Procs :
    k.p_getfrom[p] # NONE /\ k.p_sendto[p] = NONE =>
      /\ Acceptable(k, p, k.p_getfrom[p]) = {}
      /\ p \in k.int_blocked => k.p_getfrom[p] \notin {ANY, HARDWARE}

---------------------------------------------------------------------------
\* main(): all tasks, MM, FS and INIT are ready, the first task runs.
Boot(init) ==
  [p_flags |-> [p \in Procs |-> {}],
   p_getfrom |-> [p \in Procs |-> NONE],
   p_sendto |-> [p \in Procs |-> NONE],
   p_callerq |-> [p \in Procs |-> <<>>],
   p_messbuf |-> [p \in Procs |-> NoMessage],
   inbox |-> [p \in Procs |-> NoMessage],
   p_pending |-> [p \in Procs |-> {}],
   p_pendcount |-> [p \in Procs |-> 0],
   sig_procs |-> 0,
   in_use |-> {init},
   int_blocked |-> {},
   held |-> <<>>,
   rdy |-> [TASK_Q |-> TASK_SLOTS, SERVER_Q |-> SERVER_SLOTS, USER_Q |-> <<init>>],
   proc_ptr |-> Head(TASK_SLOTS)]
=============================================================================
