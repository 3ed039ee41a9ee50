------------------------------- MODULE Alarms -------------------------------
(* The clock task and the synchronous alarm task of clock.c, with servers   *)
(* that ask for alarms and processes that exit and fork meanwhile.  A task  *)
(* is not preempted by another task, but it may block when it sends: then   *)
(* whatever is ready runs in the middle of its loop.  The signal a user     *)
(* gets when its alarm goes off is in Signals, the quanta in Scheduler.     *)
EXTENDS Kernel

CONSTANTS CLIENTS,       \* servers that ask for synchronous alarms
          DELAYS,        \* DELTA_TICKS they ask for, 0 cancels
          MAX_TIME       \* bound: ticks since the start

ASSUME ClientsAreServers == CLIENTS \subseteq SERVERS

\* The slots of table.c and com.h: the two tasks are there.  A server may sit in any
\* slot, since a user process may sign on as one (system.c:1003-1010).
ASSUME SlotsInOrder ==
  /\ {CLOCK, SYN_ALRM_TASK} \subseteq TASKS
  /\ USERS \subseteq Nat
  /\ \A p \in Procs : p > -1000

LONG_MAX == 2 * MAX_TIME + 10

\* No alarm is as late as LONG_MAX.
ASSUME TimesAssumption == MAX_TIME \in Nat /\ DELAYS \subseteq 0 .. MAX_TIME + 9

None == [at |-> NONE, fired |-> FALSE]

VARIABLES realtime, pending_ticks, next_alarm,
          p_alarm,        \* time of each process's alarm, or 0
          watch_dog,      \* processes whose alarm is synchronous
          syn_al_alive, syn_table,
          clock_loop,     \* do_clocktick: the slot it is at, or None
          syn_loop,       \* syn_alrm_task: the slot it is at, and work_done
          untold,         \* clients whose alarm went off and that were not told
          strays          \* history: alarms copied by fork to where the loop had passed

clock_vars == <<realtime, next_alarm, p_alarm, watch_dog, clock_loop, strays>>
syn_vars == <<syn_al_alive, syn_loop>>
alarms_vars == <<k, pending_ticks, syn_table, untold, clock_vars, syn_vars>>

Start == [at |-> -1000, work_done |-> TRUE]

AlarmsInit ==
  /\ k = Boot(INIT_PROC_NR)
  /\ realtime = 0 /\ pending_ticks = 0
  /\ next_alarm = 0
  /\ p_alarm = [p \in Procs |-> 0]
  /\ watch_dog = {}
  /\ syn_al_alive = TRUE
  /\ syn_table = {}
  /\ clock_loop = None
  /\ syn_loop = Start
  /\ untold = {}
  /\ strays = {}

Earliest(alarm) == Smallest({LONG_MAX} \cup ({alarm[p] : p \in Procs} \ {0}))

CLOCK_INT == Message(SYN_ALRM_TASK, "CLOCK_INT")

\* The kernel's tables become k1; a client that is given CLOCK_INT is told.
KernelBecomes(k1) ==
  /\ k' = k1
  /\ untold' = untold \ {p \in CLIENTS : /\ k1.inbox[p] = CLOCK_INT
                                         /\ k.inbox[p] # CLOCK_INT \/ k.proc_ptr = p}

---------------------------------------------------------------------------
(* The handler of the clock interrupt *)

\* Time stands still at MAX_TIME, but the clock goes on ticking.
clock_handler ==
  LET now == Smallest({MAX_TIME, realtime + pending_ticks + 1}) IN
  /\ pending_ticks' = now - realtime
  /\ k' = IF next_alarm <= now THEN interrupt(k, CLOCK) ELSE k
  /\ UNCHANGED <<syn_table, untold, clock_vars, syn_vars>>

---------------------------------------------------------------------------
(* The clock task *)

ClockRuns(type) ==
  /\ k.proc_ptr = CLOCK
  /\ clock_loop = None
  /\ k.inbox[CLOCK].m_type = type

ClockReceives ==
  /\ ClockRuns("none")
  /\ KernelBecomes(Trap("RECEIVE", ANY, NoMessage))
  /\ UNCHANGED <<pending_ticks, syn_table, clock_vars, syn_vars>>

TakeTicks ==
  /\ realtime' = realtime + pending_ticks
  /\ pending_ticks' = 0

\* The answer to m, sent by the clock task.
Answer(m) == KernelBecomes(Trap("SEND", m.m_source, Message(CLOCK, "OK")))

\* Slip: only an earlier alarm changes next_alarm, the old one may be cancelled.
common_setalarmIfEarlier(p, delta_ticks) ==
  /\ p_alarm' = [p_alarm EXCEPT ![p] = IF delta_ticks = 0 THEN 0 ELSE realtime' + delta_ticks]
  /\ next_alarm' = IF p_alarm'[p] > next_alarm THEN LONG_MAX ELSE p_alarm'[p]
  /\ strays' = {}

\* All slots are looked at.
common_setalarm(p, delta_ticks) ==
  /\ p_alarm' = [p_alarm EXCEPT ![p] = IF delta_ticks = 0 THEN 0 ELSE realtime' + delta_ticks]
  /\ next_alarm' = Earliest(p_alarm')
  /\ strays' = {}

do_setalarm ==
  /\ ClockRuns("SET_ALARM")
  /\ TakeTicks
  /\ LET m == k.inbox[CLOCK] IN
     /\ common_setalarm(m.CLOCK_PROC_NR, m.DELTA_TICKS)
     /\ watch_dog' = watch_dog \ {m.CLOCK_PROC_NR}
     /\ Answer(m)
  /\ UNCHANGED <<syn_table, clock_loop, syn_vars>>

do_setsyn_alrm ==
  /\ ClockRuns("SET_SYNC_AL")
  /\ TakeTicks
  /\ LET m == k.inbox[CLOCK] IN
     /\ common_setalarm(m.CLOCK_PROC_NR, m.DELTA_TICKS)
     /\ watch_dog' = watch_dog \cup {m.CLOCK_PROC_NR}
     /\ Answer(m)
  /\ UNCHANGED <<syn_table, clock_loop, syn_vars>>

do_getuptime ==
  /\ ClockRuns("GET_UPTIME")
  /\ TakeTicks
  /\ Answer(k.inbox[CLOCK])
  /\ UNCHANGED <<syn_table, next_alarm, p_alarm, watch_dog, clock_loop, strays, syn_vars>>

\* do_clocktick is entered; it looks at the alarms only when one may be due.
BeginClockTick ==
  /\ ClockRuns("HARD_INT")
  /\ TakeTicks
  /\ k' = [k EXCEPT !.inbox[CLOCK] = NoMessage]
  /\ IF next_alarm <= realtime'
       THEN next_alarm' = LONG_MAX /\ clock_loop' = [None EXCEPT !.at = -1000] /\ strays' = {}
       ELSE UNCHANGED <<next_alarm, clock_loop, strays>>
  /\ UNCHANGED <<p_alarm, watch_dog, syn_table, untold, syn_vars>>

InLoop == k.proc_ptr = CLOCK /\ clock_loop # None /\ ~clock_loop.fired

\* The slots with an alarm that the loop has not come to.
Ahead == {p \in Procs : p > clock_loop.at /\ p_alarm[p] # 0}

\* The synchronous alarm of p goes off: the alarm task is woken unless it is up.
cause_alarm(p) ==
  /\ syn_table' = syn_table \cup {p}
  /\ k' = IF syn_al_alive THEN k
          ELSE Trap("SEND", SYN_ALRM_TASK, Message(CLOCK, "none"))
  /\ untold' = untold \cup {p}

FireAlarm ==
  /\ InLoop /\ Ahead # {}
  /\ LET p == Smallest(Ahead) IN
     /\ p_alarm[p] <= realtime
     /\ IF p \in watch_dog THEN cause_alarm(p) ELSE UNCHANGED <<k, syn_table, untold>>
     /\ clock_loop' = [at |-> p, fired |-> TRUE]
  /\ UNCHANGED <<realtime, pending_ticks, next_alarm, p_alarm, watch_dog, strays, syn_vars>>

\* The function has returned, perhaps after the clock task had to wait.
ClearAlarm ==
  /\ k.proc_ptr = CLOCK /\ clock_loop.fired
  /\ p_alarm' = [p_alarm EXCEPT ![clock_loop.at] = 0]
  /\ clock_loop' = [clock_loop EXCEPT !.fired = FALSE]
  /\ UNCHANGED <<k, realtime, pending_ticks, next_alarm, watch_dog, syn_table, untold, strays,
                 syn_vars>>

KeepAlarm ==
  /\ InLoop /\ Ahead # {}
  /\ LET p == Smallest(Ahead) IN
     /\ p_alarm[p] > realtime
     /\ next_alarm' = Smallest({next_alarm, p_alarm[p]})
     /\ clock_loop' = [at |-> p, fired |-> FALSE]
  /\ UNCHANGED <<k, realtime, pending_ticks, p_alarm, watch_dog, syn_table, untold, strays,
                 syn_vars>>

EndClockTick ==
  /\ InLoop /\ Ahead = {}
  /\ clock_loop' = None
  /\ UNCHANGED <<k, realtime, pending_ticks, next_alarm, p_alarm, watch_dog, syn_table,
                 untold, strays, syn_vars>>

clock_task == ClockReceives \/ do_setalarm \/ do_setsyn_alrm \/ do_getuptime
                \/ BeginClockTick \/ FireAlarm \/ ClearAlarm \/ KeepAlarm \/ EndClockTick

---------------------------------------------------------------------------
(* The synchronous alarm task *)

SynAhead == {p \in syn_table : p > syn_loop.at}

\* The entry is reset, then CLOCK_INT is sent; the result of send is not looked at.
TellClient ==
  /\ k.proc_ptr = SYN_ALRM_TASK
  /\ k.inbox[SYN_ALRM_TASK] = NoMessage
  /\ SynAhead # {}
  /\ LET p == Smallest(SynAhead) IN
     /\ syn_table' = syn_table \ {p}
     /\ syn_loop' = [at |-> p, work_done |-> FALSE]
     /\ KernelBecomes(Trap("SEND", p, CLOCK_INT))
  /\ UNCHANGED <<pending_ticks, syn_al_alive, clock_vars>>

\* Two slips: the task sleeps without saying so, work_done is set only once.
EndOfTableUnsaid ==
  /\ k.proc_ptr = SYN_ALRM_TASK
  /\ k.inbox[SYN_ALRM_TASK] = NoMessage
  /\ SynAhead = {}
  /\ syn_loop' = Start
  /\ IF syn_loop.work_done THEN KernelBecomes(Trap("RECEIVE", CLOCK, NoMessage))
                           ELSE UNCHANGED <<k, untold>>
  /\ UNCHANGED <<pending_ticks, syn_table, syn_al_alive, clock_vars>>

EndOfTableRestless ==
  /\ k.proc_ptr = SYN_ALRM_TASK
  /\ k.inbox[SYN_ALRM_TASK] = NoMessage
  /\ SynAhead = {}
  /\ syn_loop' = [syn_loop EXCEPT !.at = -1000]
  /\ IF syn_loop.work_done
       THEN syn_al_alive' = FALSE /\ KernelBecomes(Trap("RECEIVE", CLOCK, NoMessage))
       ELSE UNCHANGED <<k, untold, syn_al_alive>>
  /\ UNCHANGED <<pending_ticks, syn_table, clock_vars>>

\* The end of the table: once more if there was work, else wait for the clock task.
EndOfTable ==
  /\ k.proc_ptr = SYN_ALRM_TASK
  /\ k.inbox[SYN_ALRM_TASK] = NoMessage
  /\ SynAhead = {}
  /\ syn_loop' = Start
  /\ IF syn_loop.work_done
       THEN syn_al_alive' = FALSE /\ KernelBecomes(Trap("RECEIVE", CLOCK, NoMessage))
       ELSE UNCHANGED <<k, untold, syn_al_alive>>
  /\ UNCHANGED <<pending_ticks, syn_table, clock_vars>>

SynWakes ==
  /\ k.proc_ptr = SYN_ALRM_TASK
  /\ k.inbox[SYN_ALRM_TASK] # NoMessage
  /\ k' = [k EXCEPT !.inbox[SYN_ALRM_TASK] = NoMessage]
  /\ syn_al_alive' = TRUE
  /\ UNCHANGED <<pending_ticks, syn_table, untold, syn_loop, clock_vars>>

syn_alrm_task == TellClient \/ EndOfTable \/ SynWakes

---------------------------------------------------------------------------
(* Servers, and the system task's part in alarms *)

AlarmRequest(type, p, delta_ticks) ==
  [m_source |-> NONE, m_type |-> type, CLOCK_PROC_NR |-> p, DELTA_TICKS |-> delta_ticks]

Server ==
  /\ k.proc_ptr \in SERVERS
  /\ LET p == k.proc_ptr IN
     \/ KernelBecomes(Trap("RECEIVE", ANY, NoMessage))
     \/ KernelBecomes(Trap("BOTH", CLOCK, Message(NONE, "GET_UPTIME")))
     \/ p \in CLIENTS /\ \E delta_ticks \in DELAYS :
          KernelBecomes(Trap("BOTH", CLOCK, AlarmRequest("SET_SYNC_AL", p, delta_ticks)))
     \/ p = MM /\ \E u \in k.in_use, delta_ticks \in DELAYS :
          KernelBecomes(Trap("BOTH", CLOCK, AlarmRequest("SET_ALARM", u, delta_ticks)))
  /\ UNCHANGED <<pending_ticks, syn_table, clock_vars, syn_vars>>

\* MM runs and has the system task do something: no other task is ready then.
SystemRuns == k.proc_ptr = MM

UserExits(u) ==
  /\ SystemRuns
  /\ u \in k.in_use \ {INIT_PROC_NR}
  /\ k' = do_xit(k, u)
  /\ p_alarm' = [p_alarm EXCEPT ![u] = 0]
  /\ strays' = strays \ {u}
  /\ UNCHANGED <<realtime, pending_ticks, next_alarm, watch_dog, syn_table, untold,
                 clock_loop, syn_vars>>

\* An alarm of parent that next_alarm may miss, if the clock task stands in its loop.
NotCounted(parent) == parent \in strays \/ (clock_loop # None /\ parent > clock_loop.at)

\* The child's slot is a copy of the parent's, its alarm included.  A loop that has
\* passed the child's slot does not see the copy.
UserForks(parent, child) ==
  /\ SystemRuns
  /\ parent \in k.in_use /\ child \notin k.in_use
  /\ k' = do_fork(k, parent, child)
  /\ p_alarm' = [p_alarm EXCEPT ![child] = p_alarm[parent]]
  /\ LET passed == clock_loop = None \/ child <= clock_loop.at
         stray == p_alarm[parent] # 0 /\ passed /\ NotCounted(parent)
     IN strays' = IF stray THEN strays \cup {child} ELSE strays \ {child}
  /\ UNCHANGED <<realtime, pending_ticks, next_alarm, watch_dog, syn_table, untold,
                 clock_loop, syn_vars>>

AlarmsRun == clock_task \/ syn_alrm_task \/ Server

AlarmsNext ==
  \/ clock_handler
  \/ AlarmsRun
  \/ \E u \in USERS : UserExits(u)
  \/ \E parent, child \in USERS : UserForks(parent, child)

AlarmsSpec == AlarmsInit /\ [][AlarmsNext]_alarms_vars

\* Time goes on, and the tasks run when they can.
FairAlarms ==
  AlarmsSpec /\ WF_alarms_vars(clock_handler) /\ WF_alarms_vars(clock_task)
             /\ WF_alarms_vars(syn_alrm_task)

---------------------------------------------------------------------------
(* Properties *)

AlarmsTypeOK ==
  /\ realtime + pending_ticks <= MAX_TIME
  /\ p_alarm \in [Procs -> 0 .. LONG_MAX - 1]
  /\ \A u \in USERS \ k.in_use : p_alarm[u] = 0
  /\ syn_table \subseteq CLIENTS /\ strays \subseteq k.in_use
  /\ clock_loop.fired => p_alarm[clock_loop.at] # 0

\* Besides the types: between two rounds of the clock task next_alarm is not later
\* than any alarm, though processes fork, exit and set and cancel alarms at any
\* time: the interrupt handler, which looks at nothing else, misses none - but one
\* that fork copied, while the clock task stood in its loop at a client, from a slot
\* ahead of it to one behind it.
NoAlarmMissed ==
  /\ AlarmsTypeOK
  /\ clock_loop = None => \A p \in Procs \ strays : p_alarm[p] # 0 => next_alarm <= p_alarm[p]

\* "It sends a CLOCK_INT message to a process that requested a syn_alrm": an alarm
\* that has gone off is in syn_table or being sent until the client has it.
AlarmReachesClient == untold \subseteq syn_table \cup {k.p_sendto[SYN_ALRM_TASK]}

\* The alarm task does not wait for the clock task while there is an alarm to send.
AwakeWithWork == k.p_getfrom[SYN_ALRM_TASK] = CLOCK => syn_table = {}

\* An alarm whose time has come goes off, however often the clock task is asked
\* for something else: again and again there is none that is late, such a copy excepted
\* - unless a client no longer receives, for which the alarm task waits for ever, and
\* the clock task for the alarm task.
AlarmsGoOff ==
  []<>(k.p_sendto[SYN_ALRM_TASK] = NONE) =>
    []<>(\A p \in Procs \ strays : p_alarm[p] \notin 1 .. realtime + pending_ticks)
=============================================================================
