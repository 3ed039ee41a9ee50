--------------------------- MODULE BoundedBuffer ---------------------------
(* The buffer that putA, putB and get of both programs in                    *)
(* src/synchronization are to be, with every call one indivisible step: a    *)
(* FIFO of at most BUFFER_SIZE letters, which an A-producer may extend only  *)
(* while it holds fewer than LimitA of them and a B-producer only while it   *)
(* holds more than LimitB (utils/Exercise.md).                               *)
EXTENDS Naturals, Sequences

CONSTANTS
    ProducersA,     \* threads running threadProdA
    ProducersB,     \* threads running threadProdB
    Consumers,      \* threads running threadConsA or threadConsB
    THREADS_ITERS,  \* calls each thread makes before it ends
    BUFFER_SIZE,    \* capacity of the buffer
    LimitA,         \* an A is written only below this many letters
    LimitB          \* a B is written only above this many letters

Threads == ProducersA \cup ProducersB \cup Consumers

VARIABLES
    values,         \* the letters stored, oldest first
    served          \* served[t]: calls of thread t that have taken effect

vars == <<values, served>>

Letters == {"A", "B"}

TypeOK ==
    /\ values \in Seq(Letters)
    /\ served \in [Threads -> 0..THREADS_ITERS]

Init ==
    /\ values = << >>
    /\ served = [t \in Threads |-> 0]

Serve(t) ==
    /\ served[t] < THREADS_ITERS
    /\ served' = [served EXCEPT ![t] = @ + 1]

PutA(t) ==
    /\ Len(values) < LimitA
    /\ values' = Append(values, "A")
    /\ Serve(t)

PutB(t) ==
    /\ Len(values) > LimitB
    /\ Len(values) < BUFFER_SIZE
    /\ values' = Append(values, "B")
    /\ Serve(t)

Get(t) ==
    /\ values # << >>
    /\ values' = Tail(values)
    /\ Serve(t)

Next ==
    \/ \E t \in ProducersA : PutA(t)
    \/ \E t \in ProducersB : PutB(t)
    \/ \E t \in Consumers : Get(t)

Spec == Init /\ [][Next]_vars
=============================================================================
