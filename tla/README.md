# Verification of SOI_24Z

The repository holds five independent laboratories of an operating-systems
course: a bounded buffer for threads, a file system in a program of its own, and
three changes to MINIX 2 (memory allocation, scheduling, system calls about the
process tree). This directory holds TLA+ models of them, the TLC configurations
that check the models on small instances, and proofs checked by TLAPS.

    tlc -config MonitorBuffer.cfg MC_MonitorBuffer.tla
    tlapm MonitorBufferProofs.tla

All runs take minutes; so do the proofs, `KernelProofs` about twelve.

PROJECT.json lists every run with its properties, the place in the source each
definition stands for, the hazards of the code, the disagreements found between
code and documentation, and the theorems.

## 1. Inventory

| Part | State | Operations | Interacts by |
|---|---|---|---|
| `synchronization/utils/monitor.h` | semaphores; `Monitor.s`, `Condition.w`, `waitingCount` | `p`, `v`, `wait`, `signal`, `enter`, `leave` | called by the buffers |
| `synchronization/monitors` | the letters, one monitor, three conditions | `putA`, `putB`, `get`; four threads | shared memory under the monitor |
| `synchronization/semaphores` | the letters, `mutex`, three `stop` semaphores, three counters | `putA`, `putB`, `get`; four threads | shared memory, the mutex passed from hand to hand |
| `file-system/fs.cpp`, `misc.cpp` | FAT, descriptors, table of open files, two counters | `create`, `open`, `close`, `read`, `write`, `delete_` | one process; saves through persistence |
| `file-system/persistency.cpp`, `repair.cpp` | five text files; the transaction log in each descriptor | save, restore, `transactionRollback` | files on disk outlive the process |
| `memory-management/src/mm/alloc.c` | hole list and free slots, inswap queue, swap flags of `mproc` | `alloc_mem`, `free_mem`, `swap_on`, `swap_off`, `swap_in`, `swap_out`, `do_worst_fit`, `do_hole_map` | called by fork, exec, exit, signals |
| `scheduling/src/kernel/proc.c` | three ready queues, `proc_ptr`, `bill_ptr`, `p_flags`, caller queues, held interrupts | `ready`, `unready`, `sched`, `mini_send`, `mini_rec`, `interrupt`, `unhold` | interrupts, traps and tasks share the queues |
| `scheduling/src/kernel/clock.c` | `sched_ticks`, `prev_ptr`, `pending_ticks`, `next_alarm`, the alarms, `syn_table` | `clock_handler`, `do_clocktick`, alarm calls, `syn_alrm_task` | interrupts, messages, `lock_sched` |
| `scheduling/src/kernel/system.c` | `quants`, the process slots, `sig_procs`, `p_pending`, `p_pendcount` | fork, exec, exit, trace, groups, quanta, signals | messages from MM and FS, `cause_sig` called by CLOCK |
| `scheduling/src/mm` | `mproc` | calls 78 to 81, `do_svrctl` | messages to the system task |
| `syscalls/minix/src/mm/misc.c` | reads `mproc` | `do_longestChildlessChain`, `do_whoLongestChildlessChain` | messages from processes |
| `syscalls/dummy` | reads a dummy `mproc` | counts of descendants by stack and queue | none |

What makes each part correct, and what makes it hard:

* **Monitor buffer.** At most one thread inside the monitor although `signal`
  wakes a thread while the signaller is inside; a thread acts on the buffer only
  when its condition holds although it tests once; no wakeup is lost between
  `leave()` and `p()`; nobody sleeps for ever unless nobody is left to write.
* **Semaphore buffer.** As above, with the mutex handed over inside `v()` of a
  `stop` semaphore. The producers hand it over *and* release it.
* **File system.** The chains of the files are disjoint and make up the used
  blocks; the counters agree with the tables; what was saved is what is restored;
  a crash between two saved files can be repaired.
* **Memory.** Every click belongs to one hole or one process, in memory and on
  swap; holes are sorted and merged; flags, queue and addresses agree; the loops
  that swap out and in end.
* **Scheduling.** No runnable process drops out of its queue when `sched` relinks
  it; every group gets its turn; a change of quanta or group takes effect where it
  is meant to.
* **Messages.** Queues of callers and ready queues are exact whatever is sent,
  killed and forked; no ring of senders; nobody sleeps on a message that is there;
  interrupts that come during a switch or a flush are kept.
* **Signals.** Counted once, told to MM as soon as it is free, and finished; a
  process with several reasons to stand still runs only when the last is gone.
* **Alarms.** `next_alarm` is never too late although fork and exit change the
  alarms behind the clock task's back; CLOCK and the alarm task do not wait for
  each other with work to do.
* **Process tables.** A process that becomes a server, or exits, leaves nobody waiting for it, be it for
  any child, for a pid or for a process group. A pid leads to the live process among dead and reused slots;
  the loops over an explicit stack or queue find what the line of parents says, also
  with an excluded process and with slot 0 as its own parent.

Left out: copying and mapping of memory, device registers, signal frames, the
millisecond timers and the time of day, `do_abort` and reboot, the tables of MINIX
that are only constants (`fs/table.c`, `com.h`), printing (`dmp.c`, `debug.cpp`),
demonstration and test programs, reports and images. MM's and FS's own code
is in the repository only where a laboratory changed it; the rest of it is an
environment, modelled from what the code here expects, and marked external in PROJECT.json.

## 2. Modules

| Module | What it is |
|---|---|
| `BoundedBuffer` | abstract: a FIFO of letters; A only below its limit, B only above its own, get only above a third |
| `MonitorBuffer` | the threads of `monitors/buffer.cpp`, one step per semaphore operation |
| `MonitorBufferProofs` | theorems about it, and that it implements `BoundedBuffer` |
| `SemaphoreBuffer` | the threads of `semaphores/buffer.cpp`, with its data race |
| `SemaphoreBufferProofs` | theorems about it |
| `FileSystem` | the file system with the disk, crashes and restarts |
| `FileSystemProofs` | theorems about it |
| `HoleList` | the operators on the hole list; no state |
| `Memory` | the memory manager: allocation, swapping, requests |
| `MemoryProofs` | theorems about it and about the operators of `HoleList` |
| `UserQueue` | the operators on the linked queue of user processes; no state |
| `Scheduler` | the user queue, groups, quanta and the clock, with interrupts in between |
| `SchedulerProofs` | theorems about it and about the operators of `UserQueue` |
| `Messages` | the operators of `proc.c` and of signals in `system.c` on the kernel's tables; no state |
| `Kernel` | the tables as state, and the system call of who runs |
| `MessagesProofs` | lemmas about the operators of `Messages`, for whoever uses them |
| `MessagePassing` | arbitrary calls, interrupts, kills and forks over `Kernel` |
| `Signals` | the system task, the clock task, MM, FS and users at work over `Kernel` |
| `Alarms` | the clock task, the alarm task and their clients over `Kernel` |
| `KernelProofs` | theorems about `MessagePassing`, `Alarms` and `Signals` |
| `ProcTree` | the searches over `mproc` as operators on the table; no state |
| `ProcessTable` | the tables of MM and kernel under fork, exit, wait and sign-on, where `ProcTree` is searched |
| `ProcessTableProofs` | theorems about it |
| `MC_*` | small instances for TLC |

### MonitorBuffer

A thread has a program counter, one value for each point where another thread may
come in: before `enter`, before the test, asleep on `w`, at the body, at each of
the two signals, waiting to come back after a signal, before `leave`. The
semaphores are numbers; `p` on a positive one goes on, `v` lets any waiter go on,
since `sem_post` promises no order. The variables `letters`, `waitingCount` and
the semaphores `s` and `w` are those of the code. Each thread makes the finite number
of rounds, as the loops of the thread functions do: `THREADS_ITERS`, which is 10 in both programs, cut
down to `ITERS` in the runs.

`Condition::signal` wakes its waiter while the signaller owns the monitor; what
makes it exclusive is that `Monitor::signal` then waits on `s`, and that the woken
thread `leave`s for it. The invariant behind this is that of a token: exactly one
of "s is up", "some w is up", "one thread is inside" is true.

### SemaphoreBuffer

`putA` and `putB` do `stopX.v()` for the thread they wake and then `mutex.v()`,
which puts two threads inside. From then on accesses to the vector are not
ordered; the model splits each access into a load and a store, so two may
overlap and lose an update. `RightsConserved` says that rights to be inside are
created only by this; `SoundUntilOverpaid` that before the first double release
nothing is wrong; the run `semaphore_limit` shows that it does go wrong.

### FileSystem

A call is one action: the program is sequential. Its saves are not: each call
leaves in `pending` the files it writes, in the order of `saveToDisk`, and `Flush`
writes the next one. No call begins while writes are pending. `Crash` may come at
any point; the program then starts on what the disk holds and rolls back. File
contents, text format, a crash inside the writing of one file, and sizes below
zero are left out. The transaction log is part of each descriptor only as long
as its `in_progress` is set; its other fields are never read otherwise.

Three flags serve the properties: `defined` (no step has used a
table beyond its end), `intact` (no rollback, no delete of another than the first
file, no crash between two writes so far) and `booting`. What holds only while
the file system is `intact` says so; behind each of the three exceptions is a flaw
of the code, see section 5. `ChainsEnd`, the counter of open files (in `TypeOK`) and
`RepairIdempotent` hold in any case.

### HoleList and Memory

The list of holes is the sequence of its holes; table slots are counted only.
`HoleList` translates `del_slot`, `merge`, `free_mem` and the choice of first and
worst fit. In `Memory` the manager is idle or within a call; each round of a loop
(`alloc_mem` trying again after `swap_out`, `swap_in` looking at the next process)
is a step. A process is its block, its size and the flags `alloc.c` reads. What
fork, exit, pause and signals do to a process is external code and modelled from
how `alloc.c` uses the fields. The main loop calls `swap_in` after each request.
That the loops end is the action property `CallsEnd`: each round lowers a measure
(processes that may still go out, processes still to be looked at), so no
fairness has to be assumed.

### UserQueue and Scheduler

`UserQueue` keeps the links: `rdy_head`, `rdy_tail` and `p_nextready`, stale
values included, so that a wrong link can lose a process. `Order` reads the queue
off the links.

In `Scheduler` tasks and servers are not told apart: `cpu` is "user" while the
head of the user queue or IDLE runs, and "system" while anything of higher
priority is runnable. What tasks and servers do to user processes is an action
each (`Wake`, `Stop`, `do_fork`, `do_xit`, `do_setGroup`, `do_setQuants`); those
that answer a call need a process that waits for the answer. The slot of a dead
process keeps its pid, and its group may still be set.

The interesting part is the quantum. `clock_handler` and `do_clocktick` count down
the same `sched_ticks`, the second one from the CLOCK task, which a tick may
interrupt between its test and its reset; the model has a step for each half. The comment in
`clock.c` says that the counter may go negative and is restored: `TypeOK`
states when. The reset in `do_clocktick` looks at `proc_ptr`, which is CLOCK
itself at that point and has no pid, so a process that has been given its turn by
`sched` first gets `SCHED_RATE` ticks, and its group's quantum only at the next reset,
in `clock_handler`: `SCHED_RATE * (1 + quants[group])` ticks in all when nothing disturbs it.
`NoMonopoly` bounds what it can get by taking over the rest of another's; a turn (`ran`) ends when
the process leaves the queue, also when a signal stops or kills it.
`GroupsTakeTurns` compares the relinked queue with the turn computed from the order alone.
The update of `rdy_tail` inside the search of `sched` (proc.c:470-473) turns out to be
dead code, see the comment at `Bring`.

### Messages, MessagePassing, Signals and Alarms

`Messages` takes the kernel's tables as one record `k`, a field for each table or
variable of the code, and each function of `proc.c` is an operator from `k` to `k`. The
flags RECEIVING and SENDING are not kept: `p_getfrom` and `p_sendto` are NONE
without them, because the code looks at either only with its flag. A queue is a
sequence, since here the links are only walked (that `sched` relinks a queue in place is the
subject of `UserQueue`). The content of a message is its source and type.

Three modules put processes on top of it, each with what its question needs; `Kernel` is what
they share, `k` as a variable:

* `MessagePassing` leaves the processes free: whoever runs makes any call that the
  kernel lets it make. `proc.c` trusts tasks and servers; the trust is written down
  in `Allowed` (no message to oneself, no message to a user but to one that waits for
  it) and is all that is assumed. An interrupt may come between two steps, or
  late within one, when it is held. `unhold` is a step per round, because it enables
  interrupts in each of them. `owed` remembers who has not received an interrupt yet.
* `Signals` gives them their work: the system task's dispatch, `do_clocktick`'s
  signals, and MM, FS and users as they use them. `todo` is the rest of a server's
  present piece of work.
* `Alarms` splits the loops of `do_clocktick` and `syn_alrm_task` into steps, because a
  task that sends may block in the middle of its loop while others change the
  table: a client that does not receive stops the alarm task, and a second alarm then stops CLOCK in
  `cause_alarm`. Servers and users may sit in any slots, since a user process may sign on as a server
  (system.c:1003-1010); so CLOCK may be stopped at a slot behind those of users, and a fork meanwhile may copy an
  alarm the loop has not come to into a slot it has passed. `strays` remembers these copies until `next_alarm`
  is computed anew. Times are absolute and the largest is `MAX_TIME`.

### ProcTree and ProcessTable

The operators of `ProcTree` run the code's loops with its stack or queue, bounded as
in the code, as recursive functions. What they should find is stated over every table that fork,
exit, wait and `do_svrctl`'s sign-on can lead to, in terms of the line of parents of a process.
A process waits for any child, for a pid or for a process group, the three that
`do_svrctl` tells apart when it releases a parent (misc.c:113-114). A child is in the group of its parent until it
calls `setsid`, which is external code, as are fork, exit and wait; only the slots of `LEADERS` do, a bound.
No code of MM releases a parent when its last child in the group it waits for leaves that group:
`deserted` remembers such parents, and `WaitersHaveChildren` excepts them. INIT, whose program is not in the repository,
is taken not to wait for groups.
`p_pid` is the pid in the kernel's slot, which outlives the process; that is
what `findProcDescriptor` searches.

## 3. Runs

| Run | Bounds | Shows |
|---|---|---|
| `monitor` | 2 producers, 2 consumers as in `main`; 6 rounds; limits 9, 5, 3 | all interleavings: exclusive, acts only when allowed, loses no wakeup, every thread ends or sleeps for good and stops only when done or when B starves; implements `BoundedBuffer` |
| `semaphore_safety` | 3 rounds, smaller limits | rights are conserved but for the double release, and before it nothing is wrong |
| `semaphore_limit` | 4 rounds, limits 9, 5, 3 | violation: B written at three letters |
| `fs` | 3 blocks of 2, 2 names, 2 open files (1 once damaged) | partition of blocks, counters, durability; chains end and repair is idempotent, whatever happens |
| `fs_delete` | 4 blocks | violation, see section 5 |
| `memory` | memory of 2 and 3 clicks, swap of 3, 3 processes of 1 to 3 clicks | no click lost or shared; holes apart; flags and queue true; calls end |
| `scheduler` | INIT and 2 children, 2 forks, 2 disturbances, `SCHED_RATE` 1 | the queue holds the runnable; groups take turns; the counter is restored; no process computes beyond its due; every process that stays runnable runs again and again |
| `messages` | CLOCK and SYSTASK with interrupts, MM, INIT and a child | ready queues and caller queues are exact; no ring; nobody waits in vain; no interrupt is lost |
| `signals` | CLOCK, SYSTASK, MM, FS, INIT and a child, 3 signals, 4 events | signals are counted, told and ended; the system task never waits to answer |
| `alarms` | SYN_ALRM_TASK, CLOCK, MM, INIT in slot 2, children in 3 and 5, a server in 4; MM and it ask for alarms; delays 0 and 1, time 0 to 2 | no alarm is overlooked but a copy behind a stopped loop; each other one goes off; the alarm task does not sleep on one |
| `alarm_lost` | MM and FS ask; time 0 to 2 | violation, see section 5 |
| `process_table` | 6 slots, 3 pids to give again, interchangeable; groups led from slot 3 | nobody waits in vain; a group call finds the live process; the searches are right on every table |

Why the bounds are enough. Six rounds of the A-producer fill the buffer beyond
B's limit and let both producers and both consumers sleep and be woken in
every order; the limits are those of the code. Three blocks of two bytes are
enough for a chain that grows around another, a file of two blocks, and a full disk;
two names and two open slots are enough for a wrong one
to be taken. Three processes on five clicks fill memory, fragment it, fill the
swap area, and need one process out for another to come in; the table has
`2*NR_PROCS` holes as in the code. Three processes are enough for
one to be taken out of the middle of the queue, and for two groups of which one has two processes; that
three runnable processes are in three different groups takes more events than the two (the proofs have no
such bound). A disturbance (`Event`) is a
waking, a change of group or quantum, a device interrupt, or a tick that comes
due while tasks or servers are at work, with or without an alarm. Without a bound on them a
process that wakes again and again goes to the front of the queue each time, and
nothing can be said of the others. The quanta are those of the code.

`messages` needs no bound beyond the processes: its tables are finite, and it runs
until all are reached. Three processes that may send (two tasks and MM) are the least that form a
ring longer than two, which `NoSendRing` is about; the two interrupted tasks fill the
held queue; a second slot makes killing and forking again possible. In `signals` an
event is a clock interrupt, a signal of FS or an exec by a traced process; four of them let both signals reach
both processes while MM is at work for the other. In `alarms`
time stops at 2 but the clock goes on ticking: alarms are set, due and late within
that time, and two may be due in the same tick. With two clients CLOCK stops in its loop when
the alarm task is sending to the other one; the server in slot 4 lets it stop behind a free slot
of a user and before another, so that copies are made behind it, are missed, and are late. Of six slots MM, FS and INIT take
three, so trees have up to four levels below MM; three pids are as many as
can be in use, so each is given again at once. One slot that may lead a group is enough for the
children of a process to be in two groups, and for a waiter to lose its last child in the group it waits for.
The kernel modules assume that
slots of users are not called IDLE or ANY, as in `com.h`.

**Fairness.** `MonitorBuffer`: weak fairness of each thread, which is what the
operating system's scheduler gives to a runnable thread; none is assumed of which
waiter a semaphore lets go. `Scheduler`: weak fairness of the whole next-state
relation, that is, the machine does not stop: the clock ticks whenever a user process
or IDLE runs, and all other steps are bounded. `Signals`: weak fairness of `SignalsRun`,
the steps of the process that `proc_ptr` points to: the processor does not stop
while somebody is ready. No fairness among processes is assumed: that they all get to run is
shown with the priorities of the queues. `Alarms`: weak fairness of the clock's
interrupts, of CLOCK and of the alarm task, which run whenever they are ready
because tasks have the highest priority and hand over to each other by
blocking; none of the servers and users. Hence `AlarmsGoOff` is claimed only where the alarm task
gets rid of its message again and again: a client that never receives stops it, and then CLOCK, for
ever (`cause_alarm` sends to it). The other modules need none.

Deadlock is checked for the scheduler and the process tables. It is switched off for the
buffers (threads end, and B may starve: `EveryThreadSettles` says when), for the file
system (a program that used a table beyond its end has no defined next step), for
memory (the same after the NIL pointer), and for the three kernel modules, where
interrupts can come in every state (or, in `Signals`, have come to an end when nobody
is ready), so that a deadlock of processes would not show as one of the model:
`TasksDoNotWait`, `NoSendRing`, `AwakeWithWork` and the liveness properties look for it.

## 4. Proofs

`MonitorBufferProofs` proves for any finite or infinite set of threads, any
limits and any number of rounds:

* `TypeCorrect`, `MutualExclusionHolds`, `WokenMeansCanHolds`: invariants;
* `Implementation`: every behaviour is one of `BoundedBuffer`, with the letters as
  the queue.

None of the first three is inductive by itself. The inductive invariant is

    IInv == TypeOK, OneToken, MutualExclusion, HandedMeansCan, WokenMeansCan, RoundsLeft

`OneToken` is the conservation argument: the monitor's semaphore, the three `w`
and the threads inside together hold one token. `HandedMeansCan` says that an
up `w` stands for a condition that holds now, which is what makes the single test before
sleeping safe: the waker tested it, and nobody gets in between. From
these, each step that writes the buffer satisfies its limit, hence refines.

`NoLostWakeupHolds` adds to it, for any A-producers and consumers,

    NothingLost, CountedOnce

and has two hypotheses, both true of buffer.cpp: `OneProducerB` (there is at most one B-producer) and
`LimitsApart` (`LimitB >= 1`, `LimitA < BUFFER_SIZE`). They are needed: of two B-producers asleep a
`get` wakes one, and `putB` never signals another B-producer; with `LimitB = 0` one `putA` lets a
consumer and a B-producer go on at once. `NothingLost` says for each point of a method which sleepers may be
left, for now, with a condition that holds, and that only the signals to come, or the turn of who
is being woken, put right (`Turn`, `AfterBody`, `AfterSignal`); it is asked only of who has the token. `CountedOnce`
counts the B-producer at most once under B.

`SemaphoreBufferProofs` proves for any finite set of threads, any limits and rounds
`RightsConservedHolds` and `SoundUntilOverpaidHolds`. The invariant is

    IInv == CountersTyped, KindsApart, Rights = 1 + overpaid, and
            while overpaid = 0: Counted, HandedMeansCan, LoadingMeansCan, SeenIsNow

The first part is again a conservation law, now over cardinalities: `mutex`, the `stop`
semaphores and the threads inside. As long as nothing is overpaid the sum
is one, so only one thread is inside, what it has seen is still true (`SeenIsNow`), and
the counter `empty` agrees with the letters (`Counted`).

`MessagesProofs` is about the operators of `Messages` on any tables that satisfy

    Core == Typed, QueuesHoldRunnable, Waits

where `Waits` joins the queues of callers, that users are not sent to unless they receive, that a slot not
in use waits for nothing, that who both sends and receives does so with the same process (`BOTH`),
`NobodyWaitsInVain` and `NoRing`. Each operator has a lemma that it keeps `Core`, with what it needs to know of
who runs (`First`), and says what it did: a message was `Delivered`, `TookFrom` a sender, an interrupt was taken, or the
caller waits (`CallCore`, `InterruptCore`, `ExitCore`, `ForkCore`). That a
new edge closes no ring is where the search of `mini_send` is used: the set of
processes that `dest` waits for contains nobody who waits for the caller.

`KernelProofs` proves from them all invariants of `messages` for any tasks, servers,
users and interrupts: `TypeOKHolds`, `ReadyAreRunnableHolds`, `CallersQueuedHolds`,
`NoSendRingHolds`, `NoneWaitsInVainHolds`, `InterruptsKeptHolds`. None is inductive alone, since `ready` is only right
for a process that is in no queue, and a process is in none because it waits. The
invariant is `Core(k) /\ HighestRuns(k)`. `unhold` also needs `InterruptInv`: what is held are tasks; and
`InterruptInv` adds to `InterruptsKept` that the tables interrupts pass through have their types.

It also proves both invariants of `Alarms`, `NoAlarmMissedHolds` and `AwakeWithWorkHolds`, for any
servers, users, clients, delays and end of time, wherever these sit in the table. The invariant is

    AlarmInv == InOrder(k), Timed, LoopInOrder, SynLoopInOrder

`NoAlarmMissed` speaks only of the time between two rounds of the clock task; within its loop it holds of the slots
that the loop has passed (`Covered`). That this is enough although the clock task may stop in its loop and others run
takes an argument across `proc.c` and `clock.c`: it stops only where it sends to the alarm task,
so at the slot of a client (`LoopInOrder`), which no fork or exit changes. A fork meanwhile copies an alarm
from a slot to another: one that is covered stays so in the copy; one that the loop has still to
come to is either copied ahead of the loop, or the copy is one of `strays`, which are excepted. `NoneMissedWithServersFirst`
proves that there are none where all servers come before the users, as MM and FS do.
And nobody sets an alarm meanwhile, since only the clock task does; who asked it waits for the
answer and for nothing else (`AskedClock` in `InOrder`), so that its answers never block. `AwakeWithWork`
needs that the alarm task which has gone through its table in vain finds nothing in it when it receives: `work_done`
is only true if it started from the first slot (`SynLoopInOrder`).

And it proves the three invariants of `Signals`, `SignalsCountedHolds`, `ReadyThroughSignalsHolds` and
`TasksDoNotWaitHolds`, for any users, any tasks besides CLOCK and SYSTASK and any number of events.
The invariant says who waits for whom and what each is at:

    SigInOrder(k, todo) == Core(k), HighestRuns(k), SendersInOrder, TasksInOrder,
                           FSInOrder, MMInOrder, Counts

`TasksDoNotWait` needs all of it but the counts: the answer of the system task goes to a server that still waits for
it (`TaskInOrder`), since a server sends to it only what it waits to have answered. FS answers a writer that may have been
killed meanwhile, which `mini_send` refuses; that the dead slot is not a new process by then, whom the answer would
reach, is because FS comes before MM, the only one to fork, in the queue of servers (`FSNext`). `AtWork` lists what MM may be
in the middle of: the calls still to be made, what it waits to have done, and who waits for it. `Counts` says where
the signals of a process are that it still has counted: pending, or in one of the four places that `EndsLeft`
sums up, between which each step of MM and the system task moves one. Of `inform` they
use only that some process with PENDING is told of (`Told`). Each operation has a lemma of what it makes of
`SigInOrder` (`CauseKeeps`, `ForkServed` to `ResumeServed`, `MMTells`, `MMAsks`, `MMAnswers`), and each step
of `Signals` follows from one.

`FileSystemProofs` proves all properties of the run `fs` for any names and sizes and any numbers of
blocks, files and open files: `TypeCorrect`, `ChainsDoEnd`, `FilesDoPartition`, `DurableHolds` and
`RepairIsIdempotent`. `Chain` is a walk of at most `NUM_BLOCKS` links; the proofs do without it: a table
is `Acyclic` when no non-empty set of blocks is closed under its links, and then the chain from `b` is
the least closed set with `b` in it (`ChainClosed`, `ChainWithin`) and ends at an entry that is no
block (`WalkEnds`, by counting). `Cut` and `Detour` show that a table stays
acyclic when links are cut or lead into free blocks linked in ascending order, which is all that
`create`, `write`, `delete_` and the rollback do, also the rollback of a log with a wrong block in it.
The inductive invariant is

    IInv == Typed, OpenCounted, BootAgrees, SavesAgree, SoundNow

`Typed` says that RAM, disk and each write under way are free of rings; `SavesAgree` which writes of
`saveToDisk` are left and that the disk has the others (`Left0` to `Left4`), from which
durability follows at `Left4`; `BootAgrees` that during a start `restoreFromDisk` and `repair` would give what RAM has,
for which a rollback done twice must be as done once (`RollbackFat`, `RollbackTable`); and
`SoundNow` is the partition, block by block, with the descriptors behind the last file empty. That the
walk in `write` to the offset stays within a file that has just grown needs the length of its new
chain (`GrownFile`).

`MemoryProofs` proves all properties of `Memory` for any number of processes, any chunks of
memory, any swap area and any sizes: `ClicksStayAccounted`, `HolesStayApart`,
`SwapFlagsStayTrue`, `CallsDoEnd` and, where the table of holes is large enough, `TypeCorrect`.
First come the operators of `HoleList` on any list in order: which clicks are free after
`del_slot`, `merge`, `FreeMem` and a bite out of a hole (`DelSlot`, `AbsorbKeeps`, `FreeMemFrees`,
`BiteTakes`). Every step of `Memory` then takes clicks from the list for one process, gives
one's back, or moves a process (`Take`, `Give`, `Move`). The inductive invariant is

    IInv == Typed, FlagsAgree, QueueAgrees, ModeAgrees, ClicksAccounted

`ClicksAccounted` is not inductive alone: `free_mem` merges right only into a list that is in
order and apart (in `Typed`), a dead process must have no flag set or `swap_in` would
take it out of a slot that owns nothing (`FlagsAgree`), and the cursor of `swap_in` stands at the
queue's entry of the process it looks at (`QueueAgrees`, `ModeAgrees`). `swap_off` takes out the one hole
beyond `swap_base`; that there is only one is `OneSwapHole`, from the clicks.

`TypeCorrect` has the hypothesis `NR_HOLES > NR_PROCS + Len(Chunks) + 1`, which `NR_HOLES = 2 * NR_PROCS`
of alloc.c:24 meets for any table of processes larger than the number of chunks: `free_mem` panics when the table of
holes is full, and a click just behind a hole that is apart from the next one
is the first of a process, or the end of a chunk, or the end of the swap area, and
different holes have different ones (`HoleEnds`, `TableHolds`). `CallsDoEnd` follows the measure `StepsLeft`
through each step within a call.

`SchedulerProofs` proves all invariants and the action property of `Scheduler` for any number of
processes, any `SCHED_RATE` and all quanta: `TypeCorrect`, `QueueIsOfRunnable`, `NobodyHasMonopoly` and
`TurnsAreTaken`. The links are reasoned about by position: `Holds(q, n, s)` says that they lead through
the processes `s[1]` to `s[n]` and then end; `NthIs` and `OrderIs` show that the walk along them gives
just `s`, and `readyHolds`, `unreadyHolds`, `RotateHolds`, `BringHolds` and `schedHolds` which line each
operation leaves. What `sched` leaves is then compared with `InTurn` place by place (`InTurnIs`). The invariant is

    IInv == TypeOK, Queue, Clock, Debt

`NoMonopoly` is not inductive. `Debt` bounds what a process has used plus what the counter has left, less
one if CLOCK still has a tick to count, by one quantum as long as `prev_ptr` is another process and by two
when it is the same: an interrupt that comes due moves a tick from the counter to what is used,
`do_clocktick` counts one that was already used, and only the remembering of `prev_ptr` adds a quantum. `Clock`
says what this needs: user processes run only when no tick waits for CLOCK, and who has used ticks is in the queue.

`ProcessTableProofs` proves for a table of any size and any pids `TypeCorrect` (every process has a living parent
and a line of parents to MM), `WaitersHaveChildrenHolds` and `GroupCallsReachLiveHolds`. The invariant is

    Families(mproc) == Tree, ZombiesNumbered
    Waiting(mproc, deserted) == WaitersBut(deserted), and these wait
    Pids(mproc, p_pid) == PidsAgree, FirstHasPid

`Tree` says that no set of processes is closed under going to the parent (`Rooted`), which each change of the table
keeps; that a line of parents then ends at MM within the table is a count (`LineEnds`). An exit gives children to
INIT, takes a zombie from INIT's wait, cleans the slot and releases the parent; between two of these steps one waiter
more may be without a child (`WaitersBut(t, X)` excepts the set `X`). `FirstHasPid` is why the search from the first slot up is
right: a number is given again only to the first free slot, so a dead slot with the pid of a living process is behind it. It needs
`ZombiesNumbered`: a server, whose slot may be in front, is never cleaned.

The assumptions on constants: `ThreadsAssumption` (the sets of threads are disjoint, and finite
where they are counted), `SlotsAssumption` (a slot has one process and none of the
numbers ANY, HARDWARE, IDLE, NONE; there is a task), `SizesAssumption` (there is a block, blocks have
two bytes or more, the tables a slot), `InterruptedAssumption` (interrupts
go to tasks), `ClientsAreServers`, `SlotsInOrder` (the two tasks are there, slots of users are not negative, and
all come after slot -1000, where the loops of clock.c start in the model) and `TimesAssumption` (delays are not beyond
what `LONG_MAX` stands for) in `Alarms`, `SignalsAssumption` (the two tasks are there, the servers are MM and FS, there
are finitely many users, whose slots are numbers) in `Signals`, `InitAssumption` (INIT is a user; in `ProcessTable`, INIT has a slot), `UserAssumption` (there are finitely many processes, none is
called NIL), `SchedulerAssumption` (INIT is one of them, `SCHED_RATE` is positive, quanta are integers), `MemoryAssumption` (sizes are natural numbers) and
`ChunksAssumption` (there is some memory, no chunk is empty and no two share a click). TLC evaluates them in the runs.

Only model-checked: liveness and `EveryThreadSettles` (out of the prover's reach),
and `LongestChainFound` and `DescendantsCounted`, since what the
searches of `ProcTree` compute for every table would take an induction over data, which the prover cannot do.

## 5. Where code and documents disagree

Three have a violation run with one property; PROJECT.json quotes the lines.

* `semaphore_limit`: a producer wakes the other one and also releases the mutex.
* `fs_delete`: deleting any file but the first removes the first descriptor.
* `alarm_lost`: `syn_alrm_task` resets an entry before it sends and does not look at the
  result. If the client is sending to CLOCK, and CLOCK, with a second alarm of the
  same tick, to the alarm task, the send fails with ELOCKED and the client
  is never told. It takes two clients; the repository has none, they are
  modelled from `do_setsyn_alrm`.

Followed by the models but without a run of their own:

* Rollback computes a size from the number of the first block; `read` indexes the
  table of open files by descriptor number; a crash while `create` saves leaks
  blocks that nothing repairs (`FileSystem`, excluded by `intact`).
* The search for a free open slot runs over `NUM_FILES` entries of a table of
  `NUM_OPENED_FILES` (misc.cpp:66), after which `defined` is FALSE.
* `swap_off` with no free memory follows a NIL pointer (alloc.c:330), mode `Lost`.
* `A <= descendants <= B` (misc_dummy.c:240) compares a truth value with B, so the
  bounds have no effect; `DescendantsCounted` speaks only of bounds that hold the result.
* Between `do_svrctl` giving a process pid 0 in MM and the kernel's sign-on the two tables
  disagree, and a group call can miss; `GroupCallsReachLive` excludes that time.
* A client of synchronous alarms that never receives stops the alarm task, and a second alarm stops CLOCK
  within `do_clocktick`, with its loop half done; no alarm goes off any more (`AlarmsGoOff` excludes it).
* `do_fork` copies the parent's alarm with its slot (system.c:295). If CLOCK is stopped in its loop between the
  two slots, the copy is in neither the new `next_alarm` nor the rest of the loop, and is overlooked until
  something else computes `next_alarm` (clock.c:157-183). It takes a client in a slot behind one
  of a user, which a sign-on makes; `NoAlarmMissed` and `AlarmsGoOff` except it (`strays`).

Seen in the code but outside the models: the entry for call 80 (quanta) dispatches
`do_getGroup` (mm/table.c:98); `do_longestChildlessChain` calls a function that is not
defined (syscalls/minix/src/mm/misc.c:152); `lcc.c` makes two calls, so the length and the pid it prints may come from
different tables.

## 6. Plan

Done: the buffers, the file system, memory, the scheduler, messages, interrupts and the process tables
with their proofs, alarms and signals with theirs; the searches.

To come, in order:

1. **ClickPool**: an abstract owner of clicks that `Memory` implements; `do_hole_map`.
2. **GroupTurns**: an abstract round robin over the groups that `Scheduler` implements.

Not modelled, and not planned: the parts named under "Left out" in section 1.
