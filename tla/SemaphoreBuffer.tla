-------------------------- MODULE SemaphoreBuffer --------------------------
(* The bounded buffer of src/synchronization/semaphores/buffer.cpp, built on *)
(* semaphores alone, and the four threads main() starts on it.               *)
(*                                                                           *)
(* get() passes the critical section on: it does exactly one of stopA.v(),   *)
(* stopB.v() and mutex.v().  putA() and putB() do mutex.v() after stopB.v()  *)
(* or stopA.v() as well, which creates a second right to be inside.  Two     *)
(* threads may then be inside together and race on the vector: push_back and *)
(* erase are therefore a load and a store here, and either may be lost.      *)
EXTENDS Naturals, Sequences, FiniteSets

CONSTANTS
    ProducersA, ProducersB, Consumers,
    THREADS_ITERS,  \* buffer.cpp:10 has 10
    BUFFER_SIZE,    \* buffer.cpp:12 has 9
    LimitA,         \* canA(): buffer.cpp:38 has 5
    LimitB          \* canB(): buffer.cpp:43 has 3

Threads == ProducersA \cup ProducersB \cup Consumers

\* main() starts finitely many threads, each with one method.
ASSUME ThreadsAssumption ==
    /\ IsFiniteSet(ProducersA) /\ IsFiniteSet(ProducersB) /\ IsFiniteSet(Consumers)
    /\ ProducersA \cap ProducersB = {}
    /\ Consumers \cap (ProducersA \cup ProducersB) = {}

Producers == ProducersA \cup ProducersB

VARIABLES
    values,         \* Buffer::values
    mutex, empty,   \* the semaphores mutex and empty (which counts letters)
    stop,           \* stop["A"], stop["B"]: the semaphores stopA and stopB
    wait,           \* wait["A"], wait["B"]: the flags waitA and waitB
    pc, calls,      \* where thread t is, and its loop variable i
    seen,           \* seen[t]: the vector as t's push_back or erase read it
    overpaid        \* history: how often putA or putB did both v()'s

vars == <<values, mutex, empty, stop, wait, pc, calls, seen, overpaid>>

canA == Len(values) < LimitA
canB == Len(values) > LimitB /\ Len(values) < BUFFER_SIZE

Can(x) == (x = "A" /\ canA) \/ (x = "B" /\ canB)

Letter(t) == IF t \in ProducersA THEN "A" ELSE "B"
Other(t) == IF t \in ProducersA THEN "B" ELSE "A"

InsidePoints == {"test", "release", "load", "store", "post", "hand", "unlock"}
Inside(t) == pc[t] \in InsidePoints

Goto(t, from, to) == pc[t] = from /\ pc' = [pc EXCEPT ![t] = to]

-----------------------------------------------------------------------------
Init ==
    /\ values = << >>
    /\ mutex = 1 /\ empty = 0
    /\ stop = [x \in {"A", "B"} |-> 0]
    /\ wait = [x \in {"A", "B"} |-> FALSE]
    /\ pc = [t \in Threads |-> "out"]
    /\ calls = [t \in Threads |-> 0]
    /\ seen = [t \in Threads |-> << >>]
    /\ overpaid = 0

\* mutex.p(): a producer's first step, a consumer's second.
Lock(t) ==
    /\ \/ t \in Producers /\ calls[t] < THREADS_ITERS /\ Goto(t, "out", "test")
       \/ t \in Consumers /\ Goto(t, "lock", "load")
    /\ mutex > 0 /\ mutex' = mutex - 1
    /\ UNCHANGED <<values, empty, stop, wait, calls, seen, overpaid>>

\* `if (!canX()) { waitX = true; mutex.v(); stopX.p(); }`
TestPasses(t) ==
    /\ Can(Letter(t))
    /\ Goto(t, "test", "load")
    /\ UNCHANGED <<values, mutex, empty, stop, wait, calls, seen, overpaid>>

TestFails(t) ==
    /\ ~Can(Letter(t))
    /\ Goto(t, "test", "release")
    /\ wait' = [wait EXCEPT ![Letter(t)] = TRUE]
    /\ UNCHANGED <<values, mutex, empty, stop, calls, seen, overpaid>>

Release(t) ==
    /\ Goto(t, "release", "blocked")
    /\ mutex' = mutex + 1
    /\ UNCHANGED <<values, empty, stop, wait, calls, seen, overpaid>>

Wake(t) ==
    /\ stop[Letter(t)] > 0
    /\ Goto(t, "blocked", "load")
    /\ stop' = [stop EXCEPT ![Letter(t)] = @ - 1]
    /\ UNCHANGED <<values, mutex, empty, wait, calls, seen, overpaid>>

\* waitX = false in a producer; push_back, or front and erase, read the vector.
Load(t) ==
    /\ Goto(t, "load", "store")
    /\ seen' = [seen EXCEPT ![t] = values]
    /\ wait' = [x \in {"A", "B"} |->
                    wait[x] /\ ~(t \in Producers /\ x = Letter(t))]
    /\ UNCHANGED <<values, mutex, empty, stop, calls, overpaid>>

\* ... and write it back.
StorePut(t) ==
    /\ t \in Producers
    /\ Goto(t, "store", "post")
    /\ values' = Append(seen[t], Letter(t))
    /\ seen' = [seen EXCEPT ![t] = << >>]
    /\ UNCHANGED <<mutex, empty, stop, wait, calls, overpaid>>

StoreGet(t) ==
    /\ t \in Consumers
    /\ Goto(t, "store", "hand")
    /\ seen[t] # << >>      \* front() of an empty vector ends the program
    /\ values' = Tail(seen[t])
    /\ seen' = [seen EXCEPT ![t] = << >>]
    /\ UNCHANGED <<mutex, empty, stop, wait, calls, overpaid>>

\* empty.v()
Post(t) ==
    /\ Goto(t, "post", "hand")
    /\ empty' = empty + 1
    /\ UNCHANGED <<values, mutex, stop, wait, calls, seen, overpaid>>

\* putA: `if (canB() && waitB) stopB.v();`, and the reverse in putB.
HandPut(t) ==
    /\ t \in Producers
    /\ Goto(t, "hand", "unlock")
    /\ IF Can(Other(t)) /\ wait[Other(t)]
       THEN /\ stop' = [stop EXCEPT ![Other(t)] = @ + 1]
            /\ overpaid' = overpaid + 1
       ELSE UNCHANGED <<stop, overpaid>>
    /\ UNCHANGED <<values, mutex, empty, wait, calls, seen>>

\* The last mutex.v() of a producer, and ++i in its loop.
Unlock(t) ==
    /\ Goto(t, "unlock", "out")
    /\ mutex' = mutex + 1
    /\ calls' = [calls EXCEPT ![t] = @ + 1]
    /\ UNCHANGED <<values, empty, stop, wait, seen, overpaid>>

\* empty.p(): a consumer's first step.
Await(t) ==
    /\ t \in Consumers /\ calls[t] < THREADS_ITERS
    /\ Goto(t, "out", "lock")
    /\ empty > 0 /\ empty' = empty - 1
    /\ UNCHANGED <<values, mutex, stop, wait, calls, seen, overpaid>>

\* Slip: get() written like putA(), with a mutex.v() in any case.
HandGetAndUnlock(t) ==
    /\ t \in Consumers
    /\ Goto(t, "hand", "out")
    /\ \/ canA /\ wait["A"] /\ stop' = [stop EXCEPT !["A"] = @ + 1]
       \/ ~(canA /\ wait["A"]) /\ canB /\ wait["B"]
            /\ stop' = [stop EXCEPT !["B"] = @ + 1]
       \/ ~(canA /\ wait["A"]) /\ ~(canB /\ wait["B"]) /\ UNCHANGED stop
    /\ mutex' = mutex + 1
    /\ calls' = [calls EXCEPT ![t] = @ + 1]
    /\ UNCHANGED <<values, empty, wait, seen, overpaid>>

\* Slip: get() wakes B whenever it waits.
HandGetUntested(t) ==
    /\ t \in Consumers
    /\ Goto(t, "hand", "out")
    /\ \/ canA /\ wait["A"] /\ stop' = [stop EXCEPT !["A"] = @ + 1] /\ UNCHANGED mutex
       \/ /\ ~(canA /\ wait["A"]) /\ wait["B"]
          /\ stop' = [stop EXCEPT !["B"] = @ + 1] /\ UNCHANGED mutex
       \/ /\ ~(canA /\ wait["A"]) /\ ~wait["B"]
          /\ mutex' = mutex + 1 /\ UNCHANGED stop
    /\ calls' = [calls EXCEPT ![t] = @ + 1]
    /\ UNCHANGED <<values, empty, wait, seen, overpaid>>

\* The end of get(): exactly one of stopA.v(), stopB.v(), mutex.v().
HandGet(t) ==
    /\ t \in Consumers
    /\ Goto(t, "hand", "out")
    /\ \/ /\ canA /\ wait["A"]
          /\ stop' = [stop EXCEPT !["A"] = @ + 1] /\ UNCHANGED mutex
       \/ /\ ~(canA /\ wait["A"]) /\ canB /\ wait["B"]
          /\ stop' = [stop EXCEPT !["B"] = @ + 1] /\ UNCHANGED mutex
       \/ /\ ~(canA /\ wait["A"]) /\ ~(canB /\ wait["B"])
          /\ mutex' = mutex + 1 /\ UNCHANGED stop
    /\ calls' = [calls EXCEPT ![t] = @ + 1]
    /\ UNCHANGED <<values, empty, wait, seen, overpaid>>

Step(t) ==
    \/ Lock(t) \/ TestPasses(t) \/ TestFails(t) \/ Release(t) \/ Wake(t)
    \/ Load(t) \/ StorePut(t) \/ StoreGet(t) \/ Post(t)
    \/ HandPut(t) \/ Unlock(t) \/ Await(t) \/ HandGet(t)

Next == \E t \in Threads : Step(t)

Spec == Init /\ [][Next]_vars

-----------------------------------------------------------------------------
(* Properties                                                                *)

\* The rights to be inside are conserved but for the ones putA and putB create
\* by releasing twice (buffer.cpp:62-67, 86-91): get() and the waits are right.
RightsConserved ==
    mutex + stop["A"] + stop["B"] + Cardinality({t \in Threads : Inside(t)})
        = 1 + overpaid

\* Until the first double release everything is as the exercise asks: one
\* thread inside, every write within its limit, and empty counts the letters
\* that no consumer has claimed.
SoundUntilOverpaid ==
    overpaid = 0 =>
        /\ \A t, u \in Threads : Inside(t) /\ Inside(u) => t = u
        /\ \A t \in Producers : pc[t] = "load" => Can(Letter(t))
        /\ empty + Cardinality({t \in Threads : pc[t] = "post"})
             = Len(values) - Cardinality({t \in Consumers :
                   pc[t] \in {"lock", "load", "store"}})

\* Producer B writes only while the buffer holds more than LimitB letters
\* (utils/Exercise.md:8; the code's own test is buffer.cpp:74).
BWritesAboveLimit ==
    [][\A t \in ProducersB :
            pc[t] = "load" /\ pc'[t] = "store" => Len(values) > LimitB]_vars
=============================================================================
