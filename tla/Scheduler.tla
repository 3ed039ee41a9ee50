----------------------------- MODULE Scheduler -----------------------------
(* The scheduling of user processes in groups: the user queue (proc.c), the  *)
(* clock (clock.c) and the calls that change groups and quanta (system.c),   *)
(* in src/scheduling.                                                        *)
(*                                                                           *)
(* Tasks and servers have priority over user processes and are not modelled  *)
(* one by one: while any of them is runnable, cpu = "system".  What they do  *)
(* to user processes (blocking and waking them, ending and starting them) is *)
(* an action each, and the CLOCK task handles its interrupts in any order    *)
(* among them.                                                               *)
EXTENDS UserQueue, Integers

CONSTANTS
    InitProc,           \* the first user process
    SCHED_RATE,     \* ticks per schedule
    Quanta,         \* values processes pass to SETQUANTS
    MaxForks,       \* bound on the processes forked
    MaxEvents       \* bound on the disturbances, see Event

ASSUME SchedulerAssumption ==
    /\ InitProc \in Users
    /\ SCHED_RATE \in Nat \ {0}
    /\ Quanta \subseteq Int
    /\ MaxForks \in Nat
    /\ MaxEvents \in Nat

VARIABLES
    q,              \* the queue of user processes
    group,          \* group of each process
    quants,         \* quantum of each group
    slots,          \* the slots in use
    pids,           \* the slots whose p_pid is not 0, which outlives the process
    runnable,       \* the processes whose p_flags are 0
    cpu,            \* "user": the head of the queue or IDLE runs; or "system"
    bill_ptr,       \* the user process picked last, NIL for IDLE
    prev_ptr,
    sched_ticks,
    alarm,          \* next_alarm <= now
    clock_int,      \* interrupts CLOCK has to handle: one sent, one blocked
    expiring,       \* do_clocktick() has counted sched_ticks down to zero
    ran,            \* history: ticks bill_ptr has used since it got its turn,
                    \* which ends when it leaves the queue
    forks,          \* history: how many forks there were
    events          \* history: how many disturbances there were

vars == <<q, group, quants, slots, pids, runnable, cpu, bill_ptr, prev_ptr,
          sched_ticks, alarm, clock_int, expiring, ran, events, forks>>

\* The longest quantum there can be, in units of SCHED_RATE.
Longest ==
    LET all == (Quanta \cap 1..100) \cup {1, 2, 3}
    IN  CHOOSE m \in all : \A n \in all : n <= m

MaxRan == 2 * SCHED_RATE * Longest

InitialQuants == [g \in Groups |-> <<1, 3, 2>>[g + 1]]

Init ==
    /\ q = ready(EmptyQueue, InitProc)
    /\ group = [u \in Users |-> 0]
    /\ quants = InitialQuants
    /\ slots = {InitProc} /\ pids = {InitProc} /\ runnable = {InitProc}
    /\ cpu = "system" /\ bill_ptr = NIL /\ prev_ptr = NIL
    /\ sched_ticks = SCHED_RATE
    /\ alarm = FALSE /\ clock_int = 0 /\ expiring = FALSE
    /\ ran = 0 /\ forks = 0 /\ events = 0

queueVars == <<q, runnable>>
groupVars == <<group, quants>>
slotVars == <<slots, pids>>
clockVars == <<prev_ptr, sched_ticks, alarm, clock_int, expiring>>

\* One of the disturbances of which there are finitely many: a waking, a
\* change of group or quantum, a device interrupt, an alarm, and a tick that
\* finds tasks or servers at work.
Event == events < MaxEvents /\ events' = events + 1

\* Tasks and servers are at work, and CLOCK is not in the middle of its own:
\* a task runs until it blocks.
AtWork == cpu = "system" /\ ~expiring

\* Some process waits for the answer to its call.
Called == slots \ runnable # {}

-----------------------------------------------------------------------------
(* proc.c                                                                    *)

\* The running user process blocks: sendrec() makes it unready.  If the server
\* it calls is busy, nothing may happen before PickUser takes the next one.
Block ==
    /\ cpu = "user" /\ q.head # NIL
    /\ q' = unready(q, q.head)
    /\ runnable' = runnable \ {q.head}
    /\ cpu' = "system" /\ ran' = 0
    /\ UNCHANGED <<slotVars, groupVars, clockVars, bill_ptr, events, forks>>

\* A device interrupt starts a task.
Interrupt ==
    /\ cpu = "user"
    /\ Event
    /\ cpu' = "system"
    /\ UNCHANGED <<queueVars, slotVars, groupVars, clockVars, bill_ptr, ran, forks>>

\* A blocked process gets its reply.
Wake(u) ==
    /\ AtWork /\ u \in slots \ runnable
    /\ Event
    /\ q' = ready(q, u)
    /\ runnable' = runnable \cup {u}
    /\ UNCHANGED <<slotVars, groupVars, clockVars, cpu, bill_ptr, ran, forks>>

\* A runnable process is stopped by a signal (cause_sig).
Stop(u) ==
    /\ AtWork /\ u \in runnable
    /\ q' = unready(q, u)
    /\ runnable' = runnable \ {u}
    /\ ran' = IF u = bill_ptr THEN 0 ELSE ran
    /\ UNCHANGED <<slotVars, groupVars, clockVars, cpu, bill_ptr, events, forks>>

\* The last task or server blocks, and pick_proc() takes the head or IDLE.
PickUser ==
    /\ AtWork /\ clock_int = 0
    /\ cpu' = "user"
    /\ bill_ptr' = q.head
    /\ ran' = IF q.head = bill_ptr THEN ran ELSE 0
    /\ UNCHANGED <<queueVars, slotVars, groupVars, clockVars, events, forks>>

-----------------------------------------------------------------------------
(* clock.c                                                                   *)

\* One interrupt is sent as a message, one more is remembered (p_int_blocked).
InterruptClock ==
    LET most == IF expiring THEN 1 ELSE 2
    IN  clock_int' = IF clock_int = most THEN most ELSE clock_int + 1

\* When the counter reaches zero it takes the quantum of whoever runs.
NewQuantum(u) ==
    sched_ticks' = IF u = NIL THEN SCHED_RATE ELSE SCHED_RATE * quants[group[u]]

\* Slip: the process that has had its quantum is not remembered.
CountDownForgetting ==
    /\ \/ sched_ticks # 1 /\ sched_ticks' = sched_ticks - 1
       \/ sched_ticks = 1 /\ NewQuantum(IF cpu = "user" THEN q.head ELSE NIL)
    /\ UNCHANGED <<clock_int, cpu, prev_ptr>>

\* The end of clock_handler().
CountDown ==
    /\ \/ /\ sched_ticks # 1 /\ sched_ticks' = sched_ticks - 1
          /\ UNCHANGED prev_ptr
       \/ /\ sched_ticks = 1
          /\ NewQuantum(IF cpu = "user" THEN q.head ELSE NIL)
          /\ prev_ptr' = bill_ptr
    /\ UNCHANGED <<clock_int, cpu>>

\* clock_handler(): a tick, by which an alarm may have come due.
Tick ==
    LET full == sched_ticks = 1 /\ bill_ptr = prev_ptr /\ q.head # NIL
    IN  /\ \/ cpu = "user" /\ UNCHANGED <<alarm, events>>
           \/ Event /\ alarm' \in {TRUE, alarm}
        /\ \/ /\ alarm' \/ full
              /\ InterruptClock /\ cpu' = "system"
              /\ UNCHANGED <<sched_ticks, prev_ptr>>
           \/ ~alarm' /\ ~full /\ CountDown
        /\ ran' = IF cpu = "user" /\ q.head # NIL /\ ran <= MaxRan THEN ran + 1 ELSE ran
        /\ UNCHANGED <<queueVars, slotVars, groupVars, bill_ptr, expiring, forks>>

\* The beginning of do_clocktick(), up to the test of the counter.
do_clocktick ==
    /\ AtWork /\ clock_int > 0
    /\ clock_int' = clock_int - 1
    /\ alarm' = FALSE
    /\ sched_ticks' = sched_ticks - 1
    /\ expiring' = (sched_ticks = 1)
    /\ UNCHANGED <<queueVars, slotVars, groupVars, cpu, bill_ptr, prev_ptr, ran, events, forks>>

\* Slip: the counter is not set anew, a new process having been taken.
SpendQuantumUnset ==
    /\ expiring /\ expiring' = FALSE
    /\ \/ /\ bill_ptr = prev_ptr
          /\ q' = sched(q, group) /\ ran' = 0 /\ UNCHANGED sched_ticks
       \/ bill_ptr # prev_ptr /\ NewQuantum(NIL) /\ UNCHANGED <<q, ran>>
    /\ prev_ptr' = bill_ptr
    /\ UNCHANGED <<runnable, slotVars, groupVars, cpu, bill_ptr, alarm, clock_int, events, forks>>

\* Its end.  Ticks may come in between, counting below zero.  It runs in the
\* CLOCK task, which is what proc_ptr is after lock_sched(), and has no pid.
SpendQuantum ==
    /\ expiring /\ expiring' = FALSE
    /\ \/ bill_ptr = prev_ptr /\ q' = sched(q, group) /\ ran' = 0
       \/ bill_ptr # prev_ptr /\ UNCHANGED <<q, ran>>
    /\ NewQuantum(NIL)
    /\ prev_ptr' = bill_ptr
    /\ UNCHANGED <<runnable, slotVars, groupVars, cpu, bill_ptr, alarm, clock_int, events, forks>>

-----------------------------------------------------------------------------
(* system.c                                                                  *)

\* do_fork(), after which do_newmap() makes the child ready.
do_fork(u) ==
    /\ AtWork /\ Called /\ u \notin slots
    /\ forks < MaxForks /\ forks' = forks + 1
    /\ slots' = slots \cup {u} /\ pids' = pids \cup {u}
    /\ group' = [group EXCEPT ![u] = 0]
    /\ q' = ready(q, u)
    /\ runnable' = runnable \cup {u}
    /\ UNCHANGED <<quants, clockVars, cpu, bill_ptr, ran, events>>

\* do_xit(): the process may have called exit, or be killed while it is ready.
do_xit(u) ==
    /\ AtWork /\ u \in slots \ {InitProc}
    /\ q' = IF u \in runnable THEN unready(q, u) ELSE q
    /\ runnable' = runnable \ {u}
    /\ slots' = slots \ {u}
    /\ ran' = IF u = bill_ptr THEN 0 ELSE ran
    /\ UNCHANGED <<pids, groupVars, clockVars, cpu, bill_ptr, events, forks>>

do_setGroup(u, g) ==
    /\ AtWork /\ Called
    /\ g \in Groups /\ u \in pids
    /\ Event
    /\ group' = [group EXCEPT ![u] = g]
    /\ UNCHANGED <<queueVars, slotVars, quants, clockVars, cpu, bill_ptr, ran, forks>>

do_setQuants(g, v) ==
    /\ AtWork /\ Called
    /\ g \in Groups /\ v \in 1..100
    /\ Event
    /\ quants' = [quants EXCEPT ![g] = v]
    /\ UNCHANGED <<queueVars, slotVars, group, clockVars, cpu, bill_ptr, ran, forks>>

Next ==
    \/ Block \/ Interrupt \/ PickUser \/ Tick \/ do_clocktick
    \/ SpendQuantum
    \/ \E u \in Users : Wake(u) \/ Stop(u) \/ do_fork(u) \/ do_xit(u)
    \/ \E u \in Users, g \in Groups : do_setGroup(u, g)
    \/ \E g \in Groups, v \in Quanta : do_setQuants(g, v)

Spec == Init /\ [][Next]_vars

\* The machine goes on: the clock ticks, tasks and servers run until they block.
Fairness == WF_vars(Next)
FairSpec == Spec /\ Fairness

-----------------------------------------------------------------------------
(* Properties                                                                *)

\* Every variable has its type; the counter of clock.c, which an interrupt and
\* the CLOCK task both count down without a lock, may get to zero and below
\* only while do_clocktick() is about to "restore the variables to reasonable
\* values" (clock.c:425-430).
TypeOK ==
    /\ q \in [head : Users \cup {NIL}, tail : Users \cup {NIL},
              next : [Users -> Users \cup {NIL}]]
    /\ group \in [Users -> Groups]
    /\ quants \in [Groups -> 1..Longest]
    /\ runnable \subseteq slots /\ slots \subseteq pids /\ pids \subseteq Users
    /\ cpu \in {"user", "system"}
    /\ bill_ptr \in Users \cup {NIL} /\ prev_ptr \in Users \cup {NIL}
    /\ sched_ticks \in (IF expiring THEN -MaxEvents..0 ELSE 1..SCHED_RATE * Longest)
    /\ alarm \in BOOLEAN /\ clock_int \in 0..2
    /\ ran \in 0..MaxRan + 1 /\ events \in 0..MaxEvents /\ forks \in 0..MaxForks

\* The links make up a queue of exactly the runnable processes, each once, which
\* ends at rdy_tail: relinking it for the next group (proc.c:461-474) and taking
\* processes out of its middle (proc.c:423-428) loses nobody.
QueueOfRunnable ==
    /\ InQueue(q) = runnable
    /\ Len(Order(q)) = Cardinality(runnable)
    /\ q.head # NIL => q.tail = Order(q)[Len(Order(q))]

\* The queue as the groups' turns would have it after `order`: the first
\* process goes to the end, then the first one of the next group that has any.
InTurn(order) ==
    LET rotated == Tail(order) \o <<Head(order)>>
        distance(i) == (group[rotated[i]] + 2 - group[Head(order)]) % 3
        next == CHOOSE i \in DOMAIN rotated :
                    \A j \in DOMAIN rotated :
                        \/ distance(i) < distance(j)
                        \/ distance(i) = distance(j) /\ i <= j
    IN  <<rotated[next]>> \o SubSeq(rotated, 1, next - 1)
           \o SubSeq(rotated, next + 1, Len(rotated))

\* When a process has used up its quantum the groups take turns in a circle,
\* whatever the order and groups of the queue, and the order of the others stays.
GroupsTakeTurns ==
    [][SpendQuantum /\ prev_ptr = bill_ptr /\ q.head # NIL =>
           Order(q') = InTurn(Order(q))]_vars

\* However ticks, alarms and late interrupts fall, no process computes longer
\* than twice the longest quantum (the rest of one it took over, and its own)
\* before it blocks, is stopped, or the queue is looked at again.
NoMonopoly == ran <= MaxRan

\* Once wakings and changes have come to an end, every process that computes
\* gets its turn again and again, whatever its group.
EveryoneRuns ==
    \A u \in Users : []<>(u \notin runnable \/ (cpu = "user" /\ q.head = u))

=============================================================================
