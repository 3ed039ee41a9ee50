--------------------------- MODULE MonitorBuffer ---------------------------
(* The bounded buffer of src/synchronization/monitors/buffer.cpp, built on   *)
(* the Monitor and Condition classes of src/synchronization/utils/monitor.h, *)
(* and the four threads main() starts on it.                                 *)
(*                                                                           *)
(* Monitor is a Hoare monitor made of semaphores: a thread that signals a    *)
(* condition somebody waits on gives the monitor away without releasing s,   *)
(* and then queues on s again together with every newcomer.  This is why the *)
(* methods of Buffer test their condition with `if` and not with `while`.    *)
(*                                                                           *)
(* Each step below is one access to a semaphore or to a shared field, so     *)
(* that mutual exclusion is something to show and not an assumption.         *)
EXTENDS Naturals, Sequences, FiniteSets

CONSTANTS
    ProducersA, ProducersB, Consumers,
    THREADS_ITERS,  \* buffer.cpp:10 has 10
    BUFFER_SIZE,    \* buffer.cpp:12 has 9
    LimitA,         \* canA(): buffer.cpp:34 has 5
    LimitB          \* canB(): buffer.cpp:39 has 3

Threads == ProducersA \cup ProducersB \cup Consumers

ASSUME ThreadsAssumption ==
    /\ ProducersA \cap ProducersB = {}
    /\ ProducersA \cap Consumers = {}
    /\ ProducersB \cap Consumers = {}

ASSUME LimitsAssumption ==
    /\ THREADS_ITERS \in Nat
    /\ BUFFER_SIZE \in Nat
    /\ LimitA \in Nat
    /\ LimitB \in Nat
    /\ LimitA <= BUFFER_SIZE

VARIABLES
    values,         \* Buffer::values
    s,              \* Monitor::s, the semaphore guarding the monitor
    w,              \* w[c]: Condition::w of condition c
    waitingCount,   \* waitingCount[c]: Condition::waitingCount
    pc,             \* where each thread is
    calls           \* calls[t]: the loop variable i of thread t

vars == <<values, s, w, waitingCount, pc, calls>>

-----------------------------------------------------------------------------
(* Threads and their methods                                                 *)

Conditions == {"A", "B", "C"}
Letters == {"A", "B"}

\* The condition a thread's method waits on.
Needs(t) ==
    IF t \in ProducersA THEN "A" ELSE IF t \in ProducersB THEN "B" ELSE "C"

\* Slip: canA() written with <=.
canAInclusive == Len(values) <= LimitA

canA == Len(values) < LimitA
canB == Len(values) > LimitB /\ Len(values) < BUFFER_SIZE
canCons == values # << >>

Can(c) ==
    \/ c = "A" /\ canA
    \/ c = "B" /\ canB
    \/ c = "C" /\ canCons

\* Slip: putA signals C twice and never B.
FirstSignalForgetsB(t) == IF t \in ProducersA THEN "C" ELSE "A"

\* The conditions a method signals when it is through, in order.
FirstSignal(t) == IF t \in ProducersA THEN "B" ELSE "A"
SecondSignal(t) == IF t \in Consumers THEN "B" ELSE "C"

\* Program points at which a thread owns the monitor.
InsidePoints == {"test", "release", "body", "signal1", "signal2", "leave"}
\* Program points at which the call under way has already taken effect.
ServedPoints == {"signal1", "reenter1", "signal2", "reenter2", "leave"}
Points == InsidePoints \cup ServedPoints \cup {"out", "waiting"}

Inside(t) == pc[t] \in InsidePoints

Goto(t, from, to) ==
    /\ pc[t] = from
    /\ pc' = [pc EXCEPT ![t] = to]

-----------------------------------------------------------------------------
Init ==
    /\ values = << >>
    /\ s = 1
    /\ w = [c \in Conditions |-> 0]
    /\ waitingCount = [c \in Conditions |-> 0]
    /\ pc = [t \in Threads |-> "out"]
    /\ calls = [t \in Threads |-> 0]

\* Semaphore::p() on s: entering the monitor, anew or after a signal.
P == s > 0 /\ s' = s - 1
V == s' = s + 1

\* The next round of the thread's loop: Monitor::enter().
Enter(t) ==
    /\ calls[t] < THREADS_ITERS
    /\ Goto(t, "out", "test")
    /\ P
    /\ UNCHANGED <<values, w, waitingCount, calls>>

\* `if (!canX()) this->wait(X)`: the test, and wait's ++waitingCount.
TestFails(t) ==
    /\ ~Can(Needs(t))
    /\ Goto(t, "test", "release")
    /\ waitingCount' = [waitingCount EXCEPT ![Needs(t)] = @ + 1]

TestPasses(t) ==
    /\ Can(Needs(t))
    /\ Goto(t, "test", "body")
    /\ UNCHANGED waitingCount

Test(t) ==
    /\ TestFails(t) \/ TestPasses(t)
    /\ UNCHANGED <<values, s, w, calls>>

\* The rest of Monitor::wait(): leave(), then p() on the condition's own w.
Release(t) ==
    /\ Goto(t, "release", "waiting")
    /\ V
    /\ UNCHANGED <<values, w, waitingCount, calls>>

\* Slip: the thread that was woken counts itself off, as signal() has done.
WakeCountedOff(t) ==
    /\ w[Needs(t)] > 0
    /\ Goto(t, "waiting", "body")
    /\ w' = [w EXCEPT ![Needs(t)] = @ - 1]
    /\ waitingCount' = [waitingCount EXCEPT ![Needs(t)] = @ - 1]
    /\ UNCHANGED <<values, s, calls>>

Wake(t) ==
    /\ w[Needs(t)] > 0
    /\ Goto(t, "waiting", "body")
    /\ w' = [w EXCEPT ![Needs(t)] = @ - 1]
    /\ UNCHANGED <<values, s, waitingCount, calls>>

\* push_back in putA and putB, front and erase in get.
Body(t) ==
    /\ Goto(t, "body", "signal1")
    /\ \/ t \in ProducersA /\ values' = Append(values, "A")
       \/ t \in ProducersB /\ values' = Append(values, "B")
       \/ t \in Consumers /\ values' = Tail(values)
    /\ UNCHANGED <<s, w, waitingCount, calls>>

\* Slips: Monitor::signal goes on without enter(); a method signals without
\* testing.
SignalAndContinue(t, c, from, reenter) ==
    /\ Can(c)
    /\ waitingCount[c] > 0
    /\ Goto(t, from, IF from = "signal1" THEN "signal2" ELSE "leave")
    /\ waitingCount' = [waitingCount EXCEPT ![c] = @ - 1]
    /\ w' = [w EXCEPT ![c] = @ + 1]

SignalUntested(t, c, from, reenter) ==
    /\ waitingCount[c] > 0
    /\ Goto(t, from, reenter)
    /\ waitingCount' = [waitingCount EXCEPT ![c] = @ - 1]
    /\ w' = [w EXCEPT ![c] = @ + 1]

\* `if (canX()) this->signal(X)`: a thread that wakes a waiter hands it the
\* monitor and goes to the entry queue; any other keeps the monitor.
SignalWakes(t, c, from, reenter) ==
    /\ Can(c)
    /\ waitingCount[c] > 0
    /\ Goto(t, from, reenter)
    /\ waitingCount' = [waitingCount EXCEPT ![c] = @ - 1]
    /\ w' = [w EXCEPT ![c] = @ + 1]

SignalSkips(t, c, from, to) ==
    /\ ~(Can(c) /\ waitingCount[c] > 0)
    /\ Goto(t, from, to)
    /\ UNCHANGED <<waitingCount, w>>

Signal1(t) ==
    /\ \/ SignalWakes(t, FirstSignal(t), "signal1", "reenter1")
       \/ SignalSkips(t, FirstSignal(t), "signal1", "signal2")
    /\ UNCHANGED <<values, s, calls>>

Signal2(t) ==
    /\ \/ SignalWakes(t, SecondSignal(t), "signal2", "reenter2")
       \/ SignalSkips(t, SecondSignal(t), "signal2", "leave")
    /\ UNCHANGED <<values, s, calls>>

\* The enter() at the end of Monitor::signal.
Reenter(t) ==
    /\ Goto(t, "reenter1", "signal2") \/ Goto(t, "reenter2", "leave")
    /\ P
    /\ UNCHANGED <<values, w, waitingCount, calls>>

\* Slip: a loop that does not count its rounds.
LeaveUncounted(t) ==
    /\ Goto(t, "leave", "out")
    /\ V
    /\ UNCHANGED <<values, w, waitingCount, calls>>

\* Monitor::leave() at the end of a method, and ++i in the thread's loop.
Leave(t) ==
    /\ Goto(t, "leave", "out")
    /\ V
    /\ calls' = [calls EXCEPT ![t] = @ + 1]
    /\ UNCHANGED <<values, w, waitingCount>>

Step(t) ==
    \/ Enter(t) \/ Test(t) \/ Release(t) \/ Wake(t) \/ Body(t)
    \/ Signal1(t) \/ Reenter(t) \/ Signal2(t) \/ Leave(t)

Next == \E t \in Threads : Step(t)

Spec == Init /\ [][Next]_vars

\* The operating system runs every thread that can run.  A semaphore gives no
\* order to its waiters, so no thread is promised more than weak fairness.
FairSpec == Spec /\ \A t \in Threads : WF_vars(Step(t))

-----------------------------------------------------------------------------
(* Properties                                                                *)

\* Every variable has its type; the semaphores stay binary.
TypeOK ==
    /\ values \in Seq(Letters)
    /\ s \in {0, 1}
    /\ w \in [Conditions -> {0, 1}]
    /\ waitingCount \in [Conditions -> Nat]
    /\ pc \in [Threads -> Points]
    /\ calls \in [Threads -> 0..THREADS_ITERS]

\* At most one thread is inside the monitor at any time, although a signaller
\* wakes its successor before it has left (monitor.h:88-132).
MutualExclusion ==
    \A t, u \in Threads : Inside(t) /\ Inside(u) => t = u

\* A thread about to touch the buffer may do so: between the signal that woke
\* it, or its own test, and its access nobody has made the condition false,
\* so testing with `if` is enough (buffer.cpp:51, 69, 87).
WokenMeansCan ==
    \A t \in Threads : pc[t] = "body" => Can(Needs(t))

\* Nobody is left asleep on a condition that holds while the monitor is free:
\* each method signals enough (buffer.cpp:56-60, 74-78, 93-98).
NoLostWakeup ==
    s = 1 => \A c \in Conditions : waitingCount[c] > 0 => ~Can(c)

Finished(t) == pc[t] = "out" /\ calls[t] = THREADS_ITERS
Asleep(t) == pc[t] = "waiting" /\ w[Needs(t)] = 0

\* In the end either every thread has made all its calls, or a B-producer waits
\* for letters that nobody will write: then the A-producers have ended, the
\* buffer is drained, and a consumer sleeps too.  The threads never run for
\* ever without getting anywhere, and they stop in no other way.
EveryThreadSettles ==
    <>[]( \/ \A t \in Threads : Finished(t)
          \/ /\ \A t \in ProducersA : Finished(t)
             /\ \A t \in ProducersB \cup Consumers : Finished(t) \/ Asleep(t)
             /\ \E t \in ProducersB : Asleep(t)
             /\ \E t \in Consumers : Asleep(t)
             /\ values = << >> )

-----------------------------------------------------------------------------
(* The abstract buffer this one implements: a call takes effect at Body.     *)

servedCalls ==
    [t \in Threads |-> calls[t] + (IF pc[t] \in ServedPoints THEN 1 ELSE 0)]

Abstract == INSTANCE BoundedBuffer WITH served <- servedCalls

\* The monitor buffer implements the buffer of the exercise.
ImplementsBoundedBuffer == Abstract!Spec
=============================================================================
