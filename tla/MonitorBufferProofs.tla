------------------------ MODULE MonitorBufferProofs ------------------------
(* Proofs about MonitorBuffer, for any number of threads of each kind, any   *)
(* number of rounds and any limits that satisfy LimitsAssumption.            *)
(*                                                                           *)
(* The argument is a token argument.  The right to be inside the monitor is  *)
(* a single token which is either in s, or in the w of one condition (on its *)
(* way from a signaller to the thread it wakes), or with the one thread that *)
(* is inside.  While it is in w[c] nobody can touch the buffer, so what the  *)
(* signaller saw true of c is still true when the waiter gets it.            *)
EXTENDS MonitorBuffer, TLAPS

\* The token is in one place only.
OneToken ==
    /\ s = 1 => \A t \in Threads : ~Inside(t)
    /\ s = 1 => \A c \in Conditions : w[c] = 0
    /\ \A c \in Conditions : w[c] = 1 => \A t \in Threads : ~Inside(t)
    /\ \A c, d \in Conditions : w[c] = 1 /\ w[d] = 1 => c = d

\* What was true of c when the token was put into w[c] is still true.
HandedMeansCan == \A c \in Conditions : w[c] = 1 => Can(c)

\* A thread is in a call only if it has a round left.
RoundsLeft == \A t \in Threads : pc[t] # "out" => calls[t] < THREADS_ITERS

IInv ==
    /\ TypeOK
    /\ OneToken
    /\ MutualExclusion
    /\ HandedMeansCan
    /\ WokenMeansCan
    /\ RoundsLeft

\* A method waits on and signals one of the three conditions (buffer.cpp:51-98).
LEMMA NeedsType == \A t : Needs(t) \in Conditions
  BY DEF Needs, Conditions

\* So do the signals at its end.
LEMMA SignalType ==
    \A t : FirstSignal(t) \in Conditions /\ SecondSignal(t) \in Conditions
  BY DEF FirstSignal, SecondSignal, Conditions

\* Every thread of a class waits on the condition of that class.
LEMMA NeedsOf ==
    ASSUME NEW t
    PROVE  /\ t \in ProducersA => Needs(t) = "A"
           /\ t \in ProducersB => Needs(t) = "B"
           /\ t \in Consumers => Needs(t) = "C"
  BY ThreadsAssumption DEF Needs

\* The program starts with the token in s.
LEMMA InitIInv == Init => IInv
  <1>1. Init => TypeOK
    BY LimitsAssumption DEF Init, TypeOK, Letters, Points, Conditions
  <1>2. Init => OneToken /\ MutualExclusion /\ HandedMeansCan /\ WokenMeansCan
                /\ RoundsLeft
    BY DEF Init, OneToken, MutualExclusion, HandedMeansCan, WokenMeansCan,
           RoundsLeft, Inside, InsidePoints, Threads
  <1> QED
    BY <1>1, <1>2 DEF IInv

-----------------------------------------------------------------------------
(* Every step of a thread t preserves the invariant.  The lemmas below take  *)
(* the actions in groups: those that take the token, keep it, give it away.  *)

\* A thread that moves leaves the others where they are.
LEMMA GotoOthers ==
    ASSUME TypeOK, NEW t \in Threads, NEW from, NEW to \in Points,
           Goto(t, from, to)
    PROVE  /\ pc' \in [Threads -> Points]
           /\ pc[t] = from
           /\ pc'[t] = to
           /\ \A u \in Threads : u # t => pc'[u] = pc[u]
  BY DEF Goto, TypeOK

\* Taking s, to enter or to come back after a signal (monitor.h:111-114, 131).
LEMMA TakingS ==
    ASSUME IInv, NEW t \in Threads, NEW from \in Points \ InsidePoints,
           NEW to \in {"test", "signal2", "leave"}, Goto(t, from, to), P,
           from = "out" => calls[t] < THREADS_ITERS,
           UNCHANGED <<values, w, waitingCount, calls>>
    PROVE  IInv'
  <1>0. to \in Points
    BY DEF Points, InsidePoints
  <1>1. /\ pc' \in [Threads -> Points] /\ pc[t] = from /\ pc'[t] = to
        /\ \A u \in Threads : u # t => pc'[u] = pc[u]
    BY <1>0, GotoOthers DEF IInv
  <1>2. s = 1 /\ s' = 0
    BY DEF P, IInv, TypeOK
  <1>3. TypeOK'
    BY <1>1, <1>2 DEF IInv, TypeOK
  <1>4. \A u \in Threads : u # t => ~Inside(u) /\ ~Inside(u)'
    BY <1>1, <1>2 DEF IInv, OneToken, Inside
  <1>5. \A c \in Conditions : w'[c] = 0
    BY <1>2 DEF IInv, OneToken
  <1>6. OneToken' /\ HandedMeansCan'
    BY <1>2, <1>5 DEF OneToken, HandedMeansCan
  <1>7. MutualExclusion'
    BY <1>4 DEF MutualExclusion, Inside
  <1>8. WokenMeansCan'
    <2>1. \A u \in Threads : pc'[u] # "body"
      BY <1>1, <1>4 DEF Inside, InsidePoints
    <2> QED BY <2>1 DEF WokenMeansCan
  <1>9. RoundsLeft'
    BY <1>1 DEF IInv, RoundsLeft
  <1> QED
    BY <1>3, <1>6, <1>7, <1>8, <1>9 DEF IInv

\* Working inside: the token stays with t (buffer.cpp:51-60).
LEMMA KeepingToken ==
    ASSUME IInv, NEW t \in Threads, NEW from \in InsidePoints,
           NEW to \in InsidePoints, Goto(t, from, to),
           waitingCount' \in [Conditions -> Nat],
           values' \in Seq(Letters),
           to = "body" => Can(Needs(t))',
           UNCHANGED <<s, w, calls>>
    PROVE  IInv'
  <1>0. to \in Points /\ from # "out"
    BY DEF Points, InsidePoints
  <1>1. /\ pc' \in [Threads -> Points] /\ pc[t] = from /\ pc'[t] = to
        /\ \A u \in Threads : u # t => pc'[u] = pc[u]
    BY <1>0, GotoOthers DEF IInv
  <1>2. Inside(t) /\ s # 1 /\ \A c \in Conditions : w[c] # 1
    BY <1>1 DEF IInv, OneToken, Inside
  <1>3. \A u \in Threads : Inside(u)' => u = t
    BY <1>1, <1>2 DEF IInv, MutualExclusion, Inside
  <1>4. TypeOK'
    BY <1>1 DEF IInv, TypeOK
  <1>5. OneToken' /\ HandedMeansCan'
    BY <1>2 DEF OneToken, HandedMeansCan
  <1>6. MutualExclusion'
    BY <1>3 DEF MutualExclusion
  <1>7. WokenMeansCan'
    <2> SUFFICES ASSUME NEW u \in Threads, pc'[u] = "body"
                 PROVE  Can(Needs(u))'
      BY DEF WokenMeansCan, Needs
    <2>1. u = t
      BY <1>3 DEF Inside, InsidePoints
    <2> QED BY <1>1, <2>1
  <1>8. RoundsLeft'
    BY <1>0, <1>1 DEF IInv, RoundsLeft
  <1> QED
    BY <1>4, <1>5, <1>6, <1>7, <1>8 DEF IInv

\* Giving the monitor up, to wait or at the end of a call (monitor.h:116-126).
LEMMA ReleasingS ==
    ASSUME IInv, NEW t \in Threads, NEW from \in InsidePoints,
           NEW to \in {"waiting", "out"}, Goto(t, from, to), V,
           calls' \in [Threads -> 0..THREADS_ITERS],
           \A u \in Threads : u # t => calls'[u] = calls[u],
           to = "waiting" => calls' = calls,
           UNCHANGED <<values, w, waitingCount>>
    PROVE  IInv'
  <1>0. to \in Points /\ to \notin InsidePoints /\ from # "out"
    BY DEF Points, InsidePoints
  <1>1. /\ pc' \in [Threads -> Points] /\ pc[t] = from /\ pc'[t] = to
        /\ \A u \in Threads : u # t => pc'[u] = pc[u]
    BY <1>0, GotoOthers DEF IInv
  <1>2. Inside(t) /\ s # 1 /\ \A c \in Conditions : w[c] # 1
    BY <1>1 DEF IInv, OneToken, Inside
  <1>3. s' = 1 /\ \A c \in Conditions : w'[c] = 0
    BY <1>2 DEF V, IInv, TypeOK
  <1>4. \A u \in Threads : ~Inside(u)'
    BY <1>0, <1>1, <1>2 DEF IInv, MutualExclusion, Inside
  <1>5. TypeOK'
    BY <1>1, <1>3 DEF IInv, TypeOK
  <1>6. OneToken' /\ MutualExclusion' /\ HandedMeansCan'
    BY <1>3, <1>4 DEF OneToken, MutualExclusion, HandedMeansCan
  <1>7. WokenMeansCan'
    BY <1>4 DEF WokenMeansCan, Inside, InsidePoints
  <1>8. RoundsLeft'
    BY <1>0, <1>1 DEF IInv, RoundsLeft
  <1> QED
    BY <1>5, <1>6, <1>7, <1>8 DEF IInv

\* Signalling a waiter: the token goes to w[c] (monitor.h:88-98, 128-132).
LEMMA HandingOver ==
    ASSUME IInv, NEW t \in Threads, NEW c \in Conditions,
           NEW from \in InsidePoints, NEW to \in {"reenter1", "reenter2"},
           SignalWakes(t, c, from, to),
           UNCHANGED <<values, s, calls>>
    PROVE  IInv'
  <1>0. to \in Points /\ to \notin InsidePoints /\ from # "out"
    BY DEF Points, InsidePoints, ServedPoints
  <1>1. /\ pc' \in [Threads -> Points] /\ pc[t] = from /\ pc'[t] = to
        /\ \A u \in Threads : u # t => pc'[u] = pc[u]
    BY <1>0, GotoOthers DEF IInv, SignalWakes
  <1>2. Inside(t) /\ s = 0 /\ \A d \in Conditions : w[d] = 0
    BY <1>1 DEF IInv, OneToken, Inside, TypeOK
  <1>3. \A u \in Threads : ~Inside(u)'
    BY <1>0, <1>1, <1>2 DEF IInv, MutualExclusion, Inside
  <1>4. w' = [w EXCEPT ![c] = 1] /\ waitingCount' \in [Conditions -> Nat]
    <2>1. w[c] + 1 = 1
      BY <1>2
    <2>2. waitingCount[c] - 1 \in Nat
      BY DEF SignalWakes, IInv, TypeOK
    <2> QED
      BY <2>1, <2>2 DEF SignalWakes, IInv, TypeOK
  <1>5. TypeOK'
    BY <1>1, <1>4 DEF IInv, TypeOK
  <1>6. OneToken' /\ MutualExclusion'
    BY <1>2, <1>3, <1>4 DEF OneToken, MutualExclusion, IInv, TypeOK
  <1>7. HandedMeansCan'
    BY <1>2, <1>4 DEF HandedMeansCan, SignalWakes, Can, canA, canB, canCons,
                      IInv, TypeOK
  <1>8. WokenMeansCan'
    BY <1>3 DEF WokenMeansCan, Inside, InsidePoints
  <1>9. RoundsLeft'
    BY <1>0, <1>1 DEF IInv, RoundsLeft
  <1> QED
    BY <1>5, <1>6, <1>7, <1>8, <1>9 DEF IInv

\* Waking up: the token goes from w[c] to the thread (monitor.h:125).
LEMMA TakingOver ==
    ASSUME IInv, NEW t \in Threads, Wake(t)
    PROVE  IInv'
  <1> DEFINE c == Needs(t)
  <1>0. c \in Conditions /\ "body" \in Points
    BY NeedsType DEF Points, InsidePoints
  <1> HIDE DEF c
  <1>1. /\ pc' \in [Threads -> Points] /\ pc[t] = "waiting" /\ pc'[t] = "body"
        /\ \A u \in Threads : u # t => pc'[u] = pc[u]
    BY <1>0, GotoOthers DEF IInv, Wake
  <1>2. w[c] = 1 /\ w' = [w EXCEPT ![c] = 0]
    <2>1. w[c] \in {0, 1} /\ w[c] > 0 /\ w' = [w EXCEPT ![c] = w[c] - 1]
      BY <1>0 DEF Wake, c, IInv, TypeOK
    <2>2. w[c] = 1 /\ w[c] - 1 = 0
      BY <2>1
    <2> QED
      BY <2>1, <2>2
  <1>3. s = 0 /\ s' = 0 /\ (\A u \in Threads : ~Inside(u))
    BY <1>0, <1>2 DEF IInv, OneToken, TypeOK, Wake
  <1>4. \A d \in Conditions : w'[d] = 0
    BY <1>0, <1>2 DEF IInv, OneToken, TypeOK
  <1>5. TypeOK'
    BY <1>0, <1>1, <1>2 DEF IInv, TypeOK, Wake
  <1>6. OneToken' /\ HandedMeansCan'
    BY <1>3, <1>4 DEF OneToken, HandedMeansCan
  <1>7. MutualExclusion'
    BY <1>1, <1>3 DEF MutualExclusion, Inside
  <1>8. WokenMeansCan'
    <2> SUFFICES ASSUME NEW u \in Threads, pc'[u] = "body"
                 PROVE  Can(Needs(u))'
      BY DEF WokenMeansCan, Needs
    <2>1. u = t
      BY <1>1, <1>3 DEF Inside, InsidePoints
    <2>2. Can(c)
      BY <1>0, <1>2 DEF IInv, HandedMeansCan
    <2> QED
      BY <2>1, <2>2 DEF c, Wake, Can, canA, canB, canCons, Needs
  <1>9. RoundsLeft'
    BY <1>1 DEF IInv, RoundsLeft, Wake
  <1> QED
    BY <1>5, <1>6, <1>7, <1>8, <1>9 DEF IInv

\* One step of one thread, by the kind of step it is.
LEMMA StepIInv == ASSUME IInv, NEW t \in Threads, Step(t) PROVE IInv'
  <1> USE DEF IInv
  <1> Needs(t) \in Conditions /\ FirstSignal(t) \in Conditions
      /\ SecondSignal(t) \in Conditions
    BY NeedsType, SignalType
  <1>1. CASE Enter(t)
    BY <1>1, TakingS, "out" \in Points \ InsidePoints
       DEF Enter, Points, InsidePoints
  <1>2. CASE Reenter(t)
    <2>1. "reenter1" \in Points \ InsidePoints /\ "reenter2" \in Points \ InsidePoints
      BY DEF Points, InsidePoints, ServedPoints
    <2>2. CASE Goto(t, "reenter1", "signal2")
      BY <1>2, <2>1, <2>2, TakingS DEF Reenter
    <2>3. CASE Goto(t, "reenter2", "leave")
      BY <1>2, <2>1, <2>3, TakingS DEF Reenter
    <2> QED
      BY <1>2, <2>2, <2>3 DEF Reenter
  <1>3. CASE Test(t)
    <2>0. "test" \in InsidePoints /\ "release" \in InsidePoints
          /\ "body" \in InsidePoints
      BY DEF InsidePoints
    <2>1. CASE TestFails(t)
      <3>1. waitingCount' \in [Conditions -> Nat] /\ values' \in Seq(Letters)
        BY <1>3, <2>1 DEF Test, TestFails, TypeOK
      <3> QED
        BY <1>3, <2>0, <2>1, <3>1, KeepingToken DEF Test, TestFails
    <2>2. CASE TestPasses(t)
      <3>1. waitingCount' \in [Conditions -> Nat] /\ values' \in Seq(Letters)
        BY <1>3, <2>2 DEF Test, TestPasses, TypeOK
      <3>2. Can(Needs(t))'
        BY <1>3, <2>2 DEF Test, TestPasses, Can, canA, canB, canCons, Needs
      <3> QED
        BY <1>3, <2>0, <2>2, <3>1, <3>2, KeepingToken DEF Test, TestPasses
    <2> QED
      BY <1>3, <2>1, <2>2 DEF Test
  <1>4. CASE Body(t)
    <2>0. "body" \in InsidePoints /\ "signal1" \in InsidePoints
      BY DEF InsidePoints
    <2>1. waitingCount' \in [Conditions -> Nat]
      BY <1>4 DEF Body, TypeOK
    <2>2. values' \in Seq(Letters)
      <3>1. CASE t \in Consumers /\ values' = Tail(values)
        <4>1. values # << >>
          BY <1>4, <3>1, NeedsOf DEF Body, Goto, WokenMeansCan, Can, canCons
        <4> QED
          BY <3>1, <4>1 DEF TypeOK
      <3>2. CASE values' = Append(values, "A") \/ values' = Append(values, "B")
        <4>1. values \in Seq(Letters) /\ "A" \in Letters /\ "B" \in Letters
          BY DEF TypeOK, Letters
        <4> QED
          BY <3>2, <4>1
      <3> QED
        BY <1>4, <3>1, <3>2 DEF Body
    <2> QED
      BY <1>4, <2>0, <2>1, <2>2, KeepingToken DEF Body
  <1>5. CASE Signal1(t)
    <2>0. "signal1" \in InsidePoints /\ "signal2" \in InsidePoints
      BY DEF InsidePoints
    <2>1. CASE SignalWakes(t, FirstSignal(t), "signal1", "reenter1")
      BY <1>5, <2>0, <2>1, HandingOver DEF Signal1
    <2>2. CASE SignalSkips(t, FirstSignal(t), "signal1", "signal2")
      <3>1. waitingCount' \in [Conditions -> Nat] /\ values' \in Seq(Letters)
        BY <1>5, <2>2 DEF Signal1, SignalSkips, TypeOK
      <3> QED
        BY <1>5, <2>0, <2>2, <3>1, KeepingToken DEF Signal1, SignalSkips
    <2> QED
      BY <1>5, <2>1, <2>2 DEF Signal1
  <1>6. CASE Signal2(t)
    <2>0. "signal2" \in InsidePoints /\ "leave" \in InsidePoints
      BY DEF InsidePoints
    <2>1. CASE SignalWakes(t, SecondSignal(t), "signal2", "reenter2")
      BY <1>6, <2>0, <2>1, HandingOver DEF Signal2
    <2>2. CASE SignalSkips(t, SecondSignal(t), "signal2", "leave")
      <3>1. waitingCount' \in [Conditions -> Nat] /\ values' \in Seq(Letters)
        BY <1>6, <2>2 DEF Signal2, SignalSkips, TypeOK
      <3> QED
        BY <1>6, <2>0, <2>2, <3>1, KeepingToken DEF Signal2, SignalSkips
    <2> QED
      BY <1>6, <2>1, <2>2 DEF Signal2
  <1>7. CASE Release(t)
    <2>1. "release" \in InsidePoints /\ calls' \in [Threads -> 0..THREADS_ITERS]
      BY <1>7 DEF InsidePoints, Release, TypeOK
    <2> QED
      BY <1>7, <2>1, ReleasingS DEF Release
  <1>8. CASE Leave(t)
    <2>1. "leave" \in InsidePoints
      BY DEF InsidePoints
    <2>2. calls[t] < THREADS_ITERS
      BY <1>8 DEF Leave, Goto, RoundsLeft
    <2>3. /\ calls' \in [Threads -> 0..THREADS_ITERS]
          /\ \A u \in Threads : u # t => calls'[u] = calls[u]
      BY <1>8, <2>2, LimitsAssumption DEF Leave, TypeOK
    <2> QED
      BY <1>8, <2>1, <2>3, ReleasingS DEF Leave
  <1>9. CASE Wake(t)
    BY <1>9, TakingOver
  <1> QED
    BY <1>1, <1>2, <1>3, <1>4, <1>5, <1>6, <1>7, <1>8, <1>9 DEF Step

\* The inductive invariant is one.
LEMMA NextIInv == IInv /\ [Next]_vars => IInv'
  <1> SUFFICES ASSUME IInv, [Next]_vars PROVE IInv'
    OBVIOUS
  <1>1. CASE Next
    BY <1>1, StepIInv DEF Next
  <1>2. CASE UNCHANGED vars
    BY <1>2 DEF vars, IInv, TypeOK, OneToken, MutualExclusion, HandedMeansCan,
                WokenMeansCan, RoundsLeft, Inside, Can, canA, canB, canCons, Needs
  <1> QED
    BY <1>1, <1>2

\* It holds in every reachable state.
THEOREM Invariance == Spec => []IInv
  BY InitIInv, NextIInv, PTL DEF Spec

\* Every variable has its type; s and the w's never exceed 1, although
\* nothing in class Semaphore bounds them (monitor.h:53-61).
THEOREM TypeCorrect == Spec => []TypeOK
  BY Invariance, PTL DEF IInv

\* At most one thread is ever inside the monitor.
THEOREM MutualExclusionHolds == Spec => []MutualExclusion
  BY Invariance, PTL DEF IInv

\* A thread that touches the buffer does so when the rule for it allows,
\* although it tested the condition only once (buffer.cpp:51, 69, 87).
THEOREM WokenMeansCanHolds == Spec => []WokenMeansCan
  BY Invariance, PTL DEF IInv

-----------------------------------------------------------------------------
(* The monitor buffer implements the buffer of the exercise.  A call takes   *)
(* effect when its Body runs; every other step is a stutter.                 *)

\* A step that does not touch the buffer and neither enters nor ends a call's
\* effect leaves the abstract state alone.
LEMMA Stutters ==
    ASSUME TypeOK, NEW t \in Threads, NEW from \in Points, NEW to \in Points,
           Goto(t, from, to), from \in ServedPoints <=> to \in ServedPoints,
           UNCHANGED <<values, calls>>
    PROVE  UNCHANGED Abstract!vars
  <1>1. servedCalls' = servedCalls
    BY GotoOthers DEF servedCalls
  <1> QED
    BY <1>1 DEF Abstract!vars

\* Body is the step at which the call takes effect.
LEMMA BodyServes ==
    ASSUME IInv, NEW t \in Threads, Body(t)
    PROVE  Abstract!Next
  <1>1. /\ pc[t] = "body" /\ pc'[t] = "signal1"
        /\ \A u \in Threads : u # t => pc'[u] = pc[u]
    BY GotoOthers, "signal1" \in Points DEF IInv, Body, Points, InsidePoints
  <1>2. /\ servedCalls[t] = calls[t] /\ servedCalls'[t] = calls[t] + 1
        /\ servedCalls \in [Threads -> Nat]
    BY <1>1 DEF servedCalls, ServedPoints, Body, IInv, TypeOK
  <1>3. servedCalls' = [servedCalls EXCEPT ![t] = @ + 1]
    <2>1. \A u \in Threads : u # t => servedCalls'[u] = servedCalls[u]
      BY <1>1 DEF servedCalls, Body
    <2> QED
      BY <1>2, <2>1 DEF servedCalls
  <1>4. servedCalls[t] < THREADS_ITERS
    BY <1>1, <1>2 DEF IInv, RoundsLeft
  <1>5. Can(Needs(t))
    BY <1>1 DEF IInv, WokenMeansCan
  <1>6. Abstract!Serve(t)
    BY <1>3, <1>4 DEF Abstract!Serve
  <1>7. CASE t \in ProducersA
    <2>1. values' = Append(values, "A") /\ canA
      BY <1>5, <1>7, NeedsOf, ThreadsAssumption DEF Body, Can
    <2> QED
      BY <1>6, <1>7, <2>1 DEF Abstract!Next, Abstract!PutA, canA
  <1>8. CASE t \in ProducersB
    <2>1. values' = Append(values, "B") /\ canB
      BY <1>5, <1>8, NeedsOf, ThreadsAssumption DEF Body, Can
    <2> QED
      BY <1>6, <1>8, <2>1 DEF Abstract!Next, Abstract!PutB, canB
  <1>9. CASE t \in Consumers
    <2>1. values' = Tail(values) /\ canCons
      BY <1>5, <1>9, NeedsOf, ThreadsAssumption DEF Body, Can
    <2> QED
      BY <1>6, <1>9, <2>1 DEF Abstract!Next, Abstract!Get, canCons
  <1> QED
    BY <1>7, <1>8, <1>9 DEF Threads

\* Leave ends the call: its round is counted in i instead of in pc.
LEMMA LeaveStutters ==
    ASSUME IInv, NEW t \in Threads, Leave(t)
    PROVE  UNCHANGED Abstract!vars
  <1>1. /\ pc[t] = "leave" /\ pc'[t] = "out"
        /\ \A u \in Threads : u # t => pc'[u] = pc[u]
    BY GotoOthers, "out" \in Points DEF IInv, Leave, Points
  <1>2. /\ calls'[t] = calls[t] + 1 /\ calls[t] \in Nat
        /\ \A u \in Threads : u # t => calls'[u] = calls[u]
    BY DEF Leave, IInv, TypeOK
  <1>3. \A u \in Threads :
           calls'[u] + (IF pc'[u] \in ServedPoints THEN 1 ELSE 0)
             = calls[u] + (IF pc[u] \in ServedPoints THEN 1 ELSE 0)
    <2> TAKE u \in Threads
    <2>1. CASE u = t
      BY <1>1, <1>2, <2>1 DEF ServedPoints
    <2>2. CASE u # t
      BY <1>1, <1>2, <2>2
    <2> QED
      BY <2>1, <2>2
  <1>4. servedCalls' = servedCalls
    BY <1>3 DEF servedCalls
  <1> QED
    BY <1>4 DEF Abstract!vars, Leave

\* Each step of a thread is a call of the abstract buffer or none.
LEMMA StepImplements ==
    ASSUME IInv, [Next]_vars PROVE [Abstract!Next]_(Abstract!vars)
  <1> USE DEF IInv
  <1>1. CASE UNCHANGED vars
    BY <1>1 DEF vars, Abstract!vars, servedCalls
  <1>2. ASSUME NEW t \in Threads, Step(t)
        PROVE  [Abstract!Next]_(Abstract!vars)
    <2> DEFINE P0 == {"out", "test", "release", "waiting", "body"}
               P1 == ServedPoints
    <2>1. /\ P0 \subseteq Points /\ P1 \subseteq Points /\ P0 \cap P1 = {}
      BY DEF Points, InsidePoints, ServedPoints
    <2>2. CASE Enter(t) \/ Test(t) \/ Release(t) \/ Wake(t)
      <3>1. \E from, to \in P0 : Goto(t, from, to)
        BY <2>2 DEF Enter, Test, TestFails, TestPasses, Release, Wake
      <3>2. UNCHANGED <<values, calls>>
        BY <2>2 DEF Enter, Test, Release, Wake
      <3> QED
        BY <2>1, <3>1, <3>2, Stutters
    <2>3. CASE Signal1(t) \/ Signal2(t) \/ Reenter(t)
      <3>1. \E from, to \in P1 : Goto(t, from, to)
        BY <2>3 DEF Signal1, Signal2, Reenter, SignalWakes, SignalSkips,
                    ServedPoints
      <3>2. UNCHANGED <<values, calls>>
        BY <2>3 DEF Signal1, Signal2, Reenter
      <3> QED
        BY <2>1, <3>1, <3>2, Stutters
    <2>4. CASE Body(t)
      BY <2>4, BodyServes
    <2>5. CASE Leave(t)
      BY <2>5, LeaveStutters
    <2> QED
      BY <1>2, <2>2, <2>3, <2>4, <2>5 DEF Step
  <1> QED
    BY <1>1, <1>2 DEF Next

\* The buffer built on the monitor is the buffer the exercise asks for
\* (utils/Exercise.md:6-9): FIFO, A below LimitA, B above LimitB.
THEOREM Implementation == Spec => ImplementsBoundedBuffer
  <1>1. Init => Abstract!Init
    BY DEF Init, Abstract!Init, servedCalls, ServedPoints, Abstract!Threads, Threads
  <1> QED
    BY <1>1, StepImplements, Invariance, PTL
       DEF Spec, ImplementsBoundedBuffer, Abstract!Spec

-----------------------------------------------------------------------------
(* No wakeup is lost.  Whoever leaves the monitor free has signalled, or been*)
(* woken by one who had, as many as could go on: this is not so for any      *)
(* threads and limits, but for those of buffer.cpp.  With two B-producers    *)
(* asleep a get() wakes one, and putB signals no other; with LimitB = 0 one  *)
(* putA lets a B-producer and a consumer go on at once.                      *)

OneProducerB == \A t, u \in ProducersB : t = u
LimitsApart == LimitB >= 1 /\ LimitA < BUFFER_SIZE

\* canA, canB and canCons with n letters in the buffer.
CanWith(c, n) ==
    \/ c = "A" /\ n < LimitA
    \/ c = "B" /\ n > LimitB /\ n < BUFFER_SIZE
    \/ c = "C" /\ n > 0

\* Nobody (of the waiting ones) sleeps on c while it holds.
Fine(c, n, waiting) == waiting[c] > 0 => ~CanWith(c, n)

AllFine(n, waiting) == \A c \in Conditions : Fine(c, n, waiting)

\* Before the body of a method that waits on c: what may be amiss is only that
\* more than one sleeps on c, and then this body puts it right.
Turn(c, n, waiting) ==
    /\ c = "A" => /\ Fine("B", n, waiting) /\ Fine("C", n, waiting)
                  /\ waiting["A"] > 0 => n + 1 >= LimitA
    /\ c = "B" => Fine("A", n, waiting) /\ waiting["B"] = 0 /\ waiting["C"] = 0
    /\ c = "C" => /\ Fine("A", n, waiting) /\ Fine("B", n, waiting)
                  /\ waiting["C"] > 0 => n <= 1

\* After it, and after its first signal.
AfterBody(c, n, waiting) ==
    /\ c = "A" => Fine("A", n, waiting) /\ (waiting["C"] > 0 => n <= 1)
    /\ c = "B" => AllFine(n, waiting)
    /\ c = "C" => /\ Fine("C", n, waiting)
                  /\ waiting["A"] > 0 => n + 1 >= LimitA
                  /\ waiting["B"] > 0 => n <= LimitB \/ n + 1 >= BUFFER_SIZE

AfterSignal(c, n, waiting) ==
    /\ c = "A" => /\ Fine("A", n, waiting) /\ Fine("B", n, waiting)
                  /\ waiting["C"] > 0 => n <= 1
    /\ c = "B" => AllFine(n, waiting)
    /\ c = "C" => Fine("A", n, waiting) /\ Fine("C", n, waiting)

\* What holds at point p for a thread whose method waits on c.
AtPoint(p, c, n, waiting) ==
    /\ p \in {"test", "release", "leave"} => AllFine(n, waiting)
    /\ p = "body" => Turn(c, n, waiting)
    /\ p = "signal1" => AfterBody(c, n, waiting)
    /\ p = "signal2" => AfterSignal(c, n, waiting)

\* What holds for whoever has the token.
NothingLost ==
    /\ s = 1 => AllFine(Len(values), waitingCount)
    /\ \A c \in Conditions : w[c] = 1 => Turn(c, Len(values), waitingCount)
    /\ \A t \in Threads : AtPoint(pc[t], Needs(t), Len(values), waitingCount)

\* The B-producer counts itself once, while it sleeps.
CountedOnce ==
    waitingCount["B"] > 0 =>
        /\ waitingCount["B"] = 1 /\ w["B"] = 0
        /\ \E t \in ProducersB : pc[t] \in {"release", "waiting"}

\* The conditions depend on the number of letters alone (buffer.cpp:32-44).
LEMMA CanIs ==
    ASSUME TypeOK, NEW c
    PROVE  Len(values) \in Nat /\ (Can(c) <=> CanWith(c, Len(values)))
  <1>1. values \in Seq(Letters) /\ Len(values) \in Nat
    BY DEF TypeOK
  <1>2. values # << >> <=> Len(values) > 0
    BY <1>1
  <1> QED
    BY <1>1, <1>2 DEF Can, canA, canB, canCons, CanWith

\* A thread that finds its condition true may go on (buffer.cpp:51, 69, 87).
LEMMA PassedTest ==
    ASSUME LimitsApart, NEW n \in Nat, NEW waiting \in [Conditions -> Nat],
           NEW c \in Conditions, AllFine(n, waiting), CanWith(c, n),
           c = "B" => waiting["B"] = 0
    PROVE  Turn(c, n, waiting)
  BY LimitsAssumption DEF LimitsApart, AllFine, Fine, CanWith, Turn, Conditions

\* One that goes to sleep does so on a condition that fails (monitor.h:116-126).
LEMMA FailedTest ==
    ASSUME NEW n \in Nat, NEW waiting \in [Conditions -> Nat],
           NEW c \in Conditions, AllFine(n, waiting), ~CanWith(c, n),
           NEW counted, counted = [waiting EXCEPT ![c] = @ + 1]
    PROVE  AllFine(n, counted)
  BY DEF AllFine, Fine

\* A letter more or less (buffer.cpp:54, 72, 90-91).
LEMMA BodyDone ==
    ASSUME LimitsApart, NEW n \in Nat, NEW waiting \in [Conditions -> Nat],
           NEW c \in Conditions, Turn(c, n, waiting), CanWith(c, n),
           NEW m \in Nat, m = IF c = "C" THEN n - 1 ELSE n + 1
    PROVE  AfterBody(c, m, waiting)
  <1> waiting["A"] \in Nat /\ waiting["B"] \in Nat /\ waiting["C"] \in Nat
    BY DEF Conditions
  <1> USE LimitsAssumption DEF LimitsApart
  <1>1. CASE c = "A"
    BY <1>1 DEF Fine, CanWith, Turn, AfterBody
  <1>2. CASE c = "B"
    BY <1>2 DEF AllFine, Fine, CanWith, Turn, AfterBody, Conditions
  <1>3. CASE c = "C"
    BY <1>3 DEF Fine, CanWith, Turn, AfterBody
  <1> QED
    BY <1>1, <1>2, <1>3 DEF Conditions

\* Whom the method that waits on c signals first, and whom next.
FirstOf(c) == IF c = "A" THEN "B" ELSE "A"
SecondOf(c) == IF c = "C" THEN "B" ELSE "C"

\* The first signal wakes somebody: it is that thread's turn.
LEMMA FirstWakes ==
    ASSUME LimitsApart, NEW n \in Nat, NEW waiting \in [Conditions -> Nat],
           NEW c \in Conditions, AfterBody(c, n, waiting),
           CanWith(FirstOf(c), n), waiting[FirstOf(c)] > 0,
           waiting["B"] \in {0, 1},
           NEW counted,
           counted = [waiting EXCEPT ![FirstOf(c)] = @ - 1]
    PROVE  Turn(FirstOf(c), n, counted)
  <1> waiting["A"] \in Nat /\ waiting["B"] \in Nat /\ waiting["C"] \in Nat
    BY DEF Conditions
  <1> USE LimitsAssumption DEF LimitsApart, Conditions
  <1>1. CASE c = "A"
    BY <1>1 DEF Fine, CanWith, Turn, AfterBody, FirstOf
  <1>2. CASE c = "B"
    BY <1>2 DEF AllFine, Fine, CanWith, Turn, AfterBody, FirstOf
  <1>3. CASE c = "C"
    BY <1>3 DEF Fine, CanWith, Turn, AfterBody, FirstOf
  <1> QED
    BY <1>1, <1>2, <1>3 DEF Conditions

\* It wakes nobody: then nobody sleeps on what it was for while that holds.
LEMMA FirstSkips ==
    ASSUME NEW n \in Nat, NEW waiting \in [Conditions -> Nat],
           NEW c \in Conditions, AfterBody(c, n, waiting),
           ~(CanWith(FirstOf(c), n) /\ waiting[FirstOf(c)] > 0)
    PROVE  AfterSignal(c, n, waiting)
  BY DEF AllFine, Fine, AfterBody, AfterSignal, FirstOf, Conditions

\* The same of the second signal.
LEMMA SecondWakes ==
    ASSUME LimitsApart, NEW n \in Nat, NEW waiting \in [Conditions -> Nat],
           NEW c \in Conditions, AfterSignal(c, n, waiting),
           CanWith(SecondOf(c), n), waiting[SecondOf(c)] > 0,
           waiting["B"] \in {0, 1},
           NEW counted,
           counted = [waiting EXCEPT ![SecondOf(c)] = @ - 1]
    PROVE  Turn(SecondOf(c), n, counted)
  <1> waiting["A"] \in Nat /\ waiting["B"] \in Nat /\ waiting["C"] \in Nat
    BY DEF Conditions
  <1> USE LimitsAssumption DEF LimitsApart, Conditions
  <1>1. CASE c = "A"
    BY <1>1 DEF Fine, CanWith, Turn, AfterSignal, SecondOf
  <1>2. CASE c = "B"
    BY <1>2 DEF AllFine, Fine, CanWith, Turn, AfterSignal, SecondOf
  <1>3. CASE c = "C"
    BY <1>3 DEF Fine, CanWith, Turn, AfterSignal, SecondOf
  <1> QED
    BY <1>1, <1>2, <1>3 DEF Conditions

\* A second signal that wakes nobody ends the method with nothing amiss.
LEMMA SecondSkips ==
    ASSUME NEW n \in Nat, NEW waiting \in [Conditions -> Nat],
           NEW c \in Conditions, AfterSignal(c, n, waiting),
           ~(CanWith(SecondOf(c), n) /\ waiting[SecondOf(c)] > 0)
    PROVE  AllFine(n, waiting)
  BY DEF AllFine, Fine, AfterSignal, SecondOf, Conditions

\* A thread that comes back after a signal finds everything fine, which is more
\* than it needs.
LEMMA FineAfterSignal ==
    ASSUME LimitsApart, NEW n \in Nat, NEW waiting \in [Conditions -> Nat],
           NEW c \in Conditions, AllFine(n, waiting)
    PROVE  AfterSignal(c, n, waiting)
  BY LimitsAssumption DEF AllFine, Fine, CanWith, AfterSignal, Conditions

\* FirstSignal and SecondSignal depend on the class of the thread alone.
LEMMA SignalsOf ==
    ASSUME NEW t \in Threads
    PROVE  FirstSignal(t) = FirstOf(Needs(t)) /\ SecondSignal(t) = SecondOf(Needs(t))
  BY ThreadsAssumption
     DEF Threads, Needs, FirstSignal, SecondSignal, FirstOf, SecondOf

\* The three places of the token after a step: with a thread that is inside ...
LEMMA TokenInside ==
    ASSUME IInv', NEW t \in Threads, Inside(t)',
           AtPoint(pc'[t], Needs(t), Len(values'), waitingCount')
    PROVE  NothingLost'
  <1>1. s' # 1 /\ (\A c \in Conditions : w'[c] # 1)
    BY DEF IInv, OneToken
  <1>2. \A u \in Threads : u # t => pc'[u] \notin InsidePoints
    BY DEF IInv, MutualExclusion, Inside
  <1>3. \A u \in Threads : AtPoint(pc'[u], Needs(u), Len(values'), waitingCount')
    BY <1>2 DEF AtPoint, InsidePoints
  <1> QED
    BY <1>1, <1>3 DEF NothingLost, Needs

\* ... on its way to one that has been woken ...
LEMMA TokenHanded ==
    ASSUME IInv', NEW c \in Conditions, w'[c] = 1,
           Turn(c, Len(values'), waitingCount')
    PROVE  NothingLost'
  <1>1. s' # 1 /\ (\A d \in Conditions : w'[d] = 1 => d = c)
    BY DEF IInv, OneToken
  <1>2. \A u \in Threads : pc'[u] \notin InsidePoints
    BY DEF IInv, OneToken, Inside
  <1>3. \A u \in Threads : AtPoint(pc'[u], Needs(u), Len(values'), waitingCount')
    BY <1>2 DEF AtPoint, InsidePoints
  <1> QED
    BY <1>1, <1>3 DEF NothingLost, Needs

\* ... or in s.
LEMMA TokenFree ==
    ASSUME IInv', s' = 1, AllFine(Len(values'), waitingCount')
    PROVE  NothingLost'
  <1>1. \A d \in Conditions : w'[d] # 1
    BY DEF IInv, OneToken
  <1>2. \A u \in Threads : pc'[u] \notin InsidePoints
    BY DEF IInv, OneToken, Inside
  <1>3. \A u \in Threads : AtPoint(pc'[u], Needs(u), Len(values'), waitingCount')
    BY <1>2 DEF AtPoint, InsidePoints
  <1> QED
    BY <1>1, <1>3 DEF NothingLost, Needs

\* A B-producer that tests is not asleep, so nobody is counted under B.
LEMMA NoneAsleepOnB ==
    ASSUME OneProducerB, TypeOK, CountedOnce, NEW t \in Threads, pc[t] = "test",
           Needs(t) = "B"
    PROVE  waitingCount["B"] = 0
  <1>1. t \in ProducersB
    BY DEF Needs
  <1>2. ~(waitingCount["B"] > 0)
    BY <1>1 DEF OneProducerB, CountedOnce
  <1>3. waitingCount["B"] \in Nat
    BY DEF TypeOK, Conditions
  <1> QED
    BY <1>2, <1>3

\* What a signal to d does to the counts and the token.
LEMMA Wakes ==
    ASSUME IInv, NEW t \in Threads, NEW d \in Conditions,
           NEW from \in InsidePoints, NEW to, SignalWakes(t, d, from, to)
    PROVE  /\ w' = [w EXCEPT ![d] = 1] /\ w'[d] = 1
           /\ waitingCount' = [waitingCount EXCEPT ![d] = @ - 1]
           /\ waitingCount[d] > 0
           /\ Can(d)
  <1>1. Inside(t)
    BY DEF SignalWakes, Goto, Inside
  <1>2. w[d] = 0 /\ w \in [Conditions -> {0, 1}]
    BY <1>1 DEF IInv, OneToken, TypeOK
  <1>3. w' = [w EXCEPT ![d] = w[d] + 1] /\ w[d] + 1 = 1
    BY <1>2 DEF SignalWakes
  <1> QED
    BY <1>2, <1>3 DEF SignalWakes

\* No step makes a B-producer count itself twice.
LEMMA StepCountedOnce ==
    ASSUME OneProducerB, IInv, IInv', CountedOnce, NEW t \in Threads, Step(t)
    PROVE  CountedOnce'
  <1>0. /\ TypeOK /\ TypeOK' /\ "B" \in Conditions
        /\ waitingCount["B"] \in Nat /\ waitingCount'["B"] \in Nat
    BY DEF IInv, TypeOK, Conditions
  <1>1. CASE waitingCount'["B"] = 0
    BY <1>1 DEF CountedOnce
  <1>2. CASE TestFails(t) /\ Needs(t) = "B" /\ Test(t)
    <2>1. pc[t] = "test" /\ pc'[t] = "release" /\ t \in ProducersB
      BY <1>0, <1>2 DEF TestFails, Goto, TypeOK, Needs
    <2>2. waitingCount["B"] = 0 /\ waitingCount'["B"] = 1
      BY <1>0, <1>2, <2>1, NoneAsleepOnB DEF TestFails, TypeOK
    <2>3. w'["B"] = 0
      BY <1>0, <1>2, <2>1 DEF Test, IInv, TypeOK, OneToken, Inside, InsidePoints
    <2> QED
      BY <2>1, <2>2, <2>3 DEF CountedOnce
  <1>3. ASSUME waitingCount["B"] > 0, waitingCount'["B"] = waitingCount["B"],
               w'["B"] = w["B"],
               \A u \in ProducersB : pc[u] \in {"release", "waiting"} =>
                                       pc'[u] \in {"release", "waiting"}
        PROVE  CountedOnce'
    BY <1>3 DEF CountedOnce
  <1>4. \A u \in Threads : u # t => pc'[u] = pc[u]
    BY <1>0 DEF Step, Enter, Test, TestFails, TestPasses, Release, Wake, Body,
       Signal1, Signal2, SignalWakes, SignalSkips, Reenter, Leave, Goto, TypeOK
  <1>5. ProducersB \subseteq Threads
    BY DEF Threads
  <1>6. CASE Test(t) /\ ~(TestFails(t) /\ Needs(t) = "B")
    <2>1. waitingCount'["B"] = waitingCount["B"] /\ w' = w
      BY <1>0, <1>6 DEF Test, TestFails, TestPasses, TypeOK
    <2>2. pc[t] = "test"
      BY <1>6 DEF Test, TestFails, TestPasses, Goto
    <2> QED
      BY <1>0, <1>1, <1>3, <1>4, <1>5, <2>1, <2>2
  <1>7. CASE Enter(t) \/ Body(t) \/ Reenter(t) \/ Leave(t)
    <2>1. waitingCount' = waitingCount /\ w' = w
      BY <1>7 DEF Enter, Body, Reenter, Leave
    <2>2. pc[t] \notin {"release", "waiting"}
      BY <1>7 DEF Enter, Body, Reenter, Leave, Goto
    <2> QED
      BY <1>0, <1>1, <1>3, <1>4, <1>5, <2>1, <2>2
  <1>8. CASE Release(t)
    <2>1. waitingCount' = waitingCount /\ w' = w /\ pc'[t] = "waiting"
      BY <1>0, <1>8 DEF Release, Goto, TypeOK
    <2> QED
      BY <1>0, <1>1, <1>3, <1>4, <1>5, <2>1
  <1>9. CASE Wake(t)
    <2>1. waitingCount' = waitingCount /\ pc[t] = "waiting" /\ w[Needs(t)] > 0
      BY <1>9 DEF Wake, Goto
    <2>2. CASE t \in ProducersB
      <3>1. Needs(t) = "B"
        BY <2>2, NeedsOf
      <3> QED
        BY <1>0, <1>1, <2>1, <3>1 DEF CountedOnce
    <2>3. CASE t \notin ProducersB
      <3>1. Needs(t) # "B" /\ Needs(t) \in Conditions
        BY <2>3, NeedsType DEF Needs
      <3>2. w'["B"] = w["B"]
        BY <1>0, <1>9, <3>1 DEF Wake, TypeOK
      <3> QED
        BY <1>0, <1>1, <1>3, <1>4, <1>5, <2>1, <2>3, <3>2
    <2> QED
      BY <2>2, <2>3
  <1>10. ASSUME NEW d \in Conditions, NEW from \in {"signal1", "signal2"}, NEW to,
                SignalWakes(t, d, from, to)
         PROVE  CountedOnce'
    <2>1. /\ w' = [w EXCEPT ![d] = 1]
          /\ waitingCount' = [waitingCount EXCEPT ![d] = waitingCount[d] - 1]
          /\ pc[t] = from
      <3>1. from \in InsidePoints
        BY DEF InsidePoints
      <3> QED
        BY <1>10, <3>1, Wakes DEF SignalWakes, Goto
    <2>2. CASE d = "B"
      <3>1. waitingCount["B"] = 1
        BY <1>0, <1>10, <2>2 DEF SignalWakes, CountedOnce
      <3> QED
        BY <1>0, <1>1, <2>1, <2>2, <3>1 DEF TypeOK
    <2>3. CASE d # "B"
      <3>1. w'["B"] = w["B"] /\ waitingCount'["B"] = waitingCount["B"]
        BY <1>0, <2>1, <2>3 DEF TypeOK
      <3> QED
        BY <1>0, <1>1, <1>3, <1>4, <1>5, <2>1, <3>1
    <2> QED
      BY <2>2, <2>3
  <1>11. ASSUME NEW d, NEW from \in {"signal1", "signal2"}, NEW to,
                SignalSkips(t, d, from, to)
         PROVE  CountedOnce'
    <2>1. waitingCount' = waitingCount /\ w' = w /\ pc[t] \notin {"release", "waiting"}
      BY <1>11 DEF SignalSkips, Goto
    <2> QED
      BY <1>0, <1>1, <1>3, <1>4, <1>5, <2>1
  <1>12. CASE Signal1(t)
    BY <1>10, <1>11, <1>12, SignalType DEF Signal1
  <1>13. CASE Signal2(t)
    BY <1>10, <1>11, <1>13, SignalType DEF Signal2
  <1> QED
    BY <1>2, <1>6, <1>7, <1>8, <1>9, <1>12, <1>13 DEF Step

\* Every step of a thread leaves nothing lost.
LEMMA StepNothingLost ==
    ASSUME LimitsApart, OneProducerB, IInv, IInv', CountedOnce, NothingLost,
           NEW t \in Threads, Step(t)
    PROVE  NothingLost'
  <1> DEFINE n == Len(values)
             c == Needs(t)
  <1>0. /\ TypeOK /\ TypeOK' /\ n \in Nat /\ c \in Conditions
        /\ waitingCount \in [Conditions -> Nat]
        /\ waitingCount["B"] \in {0, 1}
    <2>1. TypeOK /\ TypeOK' /\ waitingCount["B"] \in Nat
      BY DEF IInv, TypeOK, Conditions
    <2>2. waitingCount["B"] \in {0, 1}
      BY <2>1 DEF CountedOnce
    <2> QED
      BY <2>1, <2>2, CanIs, NeedsType DEF TypeOK
  <1>1. AtPoint(pc[t], c, n, waitingCount)
    BY DEF NothingLost
  <1>2. FirstSignal(t) = FirstOf(c) /\ SecondSignal(t) = SecondOf(c)
    BY SignalsOf
  <1>3. /\ "test" \in InsidePoints /\ "release" \in InsidePoints
        /\ "body" \in InsidePoints /\ "signal1" \in InsidePoints
        /\ "signal2" \in InsidePoints /\ "leave" \in InsidePoints
    BY DEF InsidePoints
  <1>4. ASSUME NEW from, NEW to \in InsidePoints, Goto(t, from, to),
               AtPoint(to, c, Len(values'), waitingCount')
        PROVE  NothingLost'
    <2>1. pc'[t] = to
      BY <1>0, <1>4 DEF Goto, TypeOK
    <2> QED
      BY <1>4, <2>1, TokenInside DEF Inside
  <1>5. CASE Enter(t)
    <2>1. Goto(t, "out", "test") /\ s = 1 /\ UNCHANGED <<values, waitingCount>>
      BY <1>0, <1>5 DEF Enter, P, TypeOK
    <2>2. AtPoint("test", c, Len(values'), waitingCount')
      BY <2>1 DEF NothingLost, AtPoint
    <2> QED
      BY <1>3, <1>4, <2>1, <2>2
  <1>6. CASE Reenter(t)
    <2>1. AllFine(n, waitingCount) /\ UNCHANGED <<values, waitingCount>>
      BY <1>0, <1>6 DEF Reenter, P, TypeOK, NothingLost
    <2>2. AfterSignal(c, n, waitingCount)
      BY <1>0, <2>1, FineAfterSignal
    <2>3. AtPoint("signal2", c, Len(values'), waitingCount')
      BY <2>1, <2>2 DEF AtPoint
    <2>4. AtPoint("leave", c, Len(values'), waitingCount')
      BY <2>1 DEF AtPoint
    <2> QED
      BY <1>3, <1>4, <1>6, <2>3, <2>4 DEF Reenter
  <1>7. CASE Test(t)
    <2>1. AllFine(n, waitingCount) /\ UNCHANGED values
      BY <1>1, <1>7 DEF Test, TestFails, TestPasses, Goto, AtPoint
    <2>2. CASE TestFails(t)
      <3>1. ~CanWith(c, n)
        BY <1>0, <2>2, CanIs DEF TestFails
      <3>2. AllFine(n, waitingCount')
        BY <1>0, <2>1, <2>2, <3>1, FailedTest DEF TestFails
      <3>3. AtPoint("release", c, Len(values'), waitingCount')
        BY <2>1, <3>2 DEF AtPoint
      <3> QED
        BY <1>3, <1>4, <2>2, <3>3 DEF TestFails
    <2>3. CASE TestPasses(t)
      <3>1. CanWith(c, n)
        BY <1>0, <2>3, CanIs DEF TestPasses
      <3>2. c = "B" => waitingCount["B"] = 0
        BY <1>0, <2>3, NoneAsleepOnB DEF TestPasses, Goto
      <3>3. Turn(c, n, waitingCount)
        BY <1>0, <2>1, <3>1, <3>2, PassedTest
      <3>4. AtPoint("body", c, Len(values'), waitingCount')
        BY <2>1, <2>3, <3>3 DEF AtPoint, TestPasses
      <3> QED
        BY <1>3, <1>4, <2>3, <3>4 DEF TestPasses
    <2> QED
      BY <1>7, <2>2, <2>3 DEF Test
  <1>8. CASE Release(t)
    <2>1. Inside(t) /\ AllFine(Len(values'), waitingCount')
      BY <1>1, <1>8 DEF Release, Goto, AtPoint, Inside, InsidePoints
    <2>2. s' = 1
      BY <1>0, <1>8, <2>1 DEF Release, V, IInv, OneToken, TypeOK
    <2> QED
      BY <2>1, <2>2, TokenFree
  <1>9. CASE Leave(t)
    <2>1. Inside(t) /\ AllFine(Len(values'), waitingCount')
      BY <1>1, <1>9 DEF Leave, Goto, AtPoint, Inside, InsidePoints
    <2>2. s' = 1
      BY <1>0, <1>9, <2>1 DEF Leave, V, IInv, OneToken, TypeOK
    <2> QED
      BY <2>1, <2>2, TokenFree
  <1>10. CASE Wake(t)
    <2>1. w[c] = 1
      <3>1. w[c] \in {0, 1} /\ w[c] > 0
        BY <1>0, <1>10 DEF Wake, TypeOK
      <3> QED
        BY <3>1
    <2>2. Turn(c, n, waitingCount)
      BY <1>0, <2>1 DEF NothingLost
    <2>3. AtPoint("body", c, Len(values'), waitingCount')
      BY <1>10, <2>2 DEF AtPoint, Wake
    <2> QED
      BY <1>3, <1>4, <1>10, <2>3 DEF Wake
  <1>11. CASE Body(t)
    <2>1. Turn(c, n, waitingCount) /\ Can(c)
      BY <1>1, <1>11 DEF Body, Goto, AtPoint, IInv, WokenMeansCan
    <2>2. CanWith(c, n)
      BY <1>0, <2>1, CanIs
    <2>3. /\ Len(values') \in Nat
          /\ Len(values') = IF c = "C" THEN n - 1 ELSE n + 1
      <3>1. values \in Seq(Letters) /\ "A" \in Letters /\ "B" \in Letters
        BY <1>0 DEF TypeOK, Letters
      <3>2. CASE t \in ProducersA /\ values' = Append(values, "A")
        BY <3>1, <3>2, NeedsOf
      <3>3. CASE t \in ProducersB /\ values' = Append(values, "B")
        BY <3>1, <3>3, NeedsOf
      <3>4. CASE t \in Consumers /\ values' = Tail(values)
        <4>1. c = "C" /\ n > 0
          BY <2>2, <3>4, NeedsOf DEF CanWith
        <4>2. values # << >>
          BY <3>1, <4>1
        <4>3. Len(Tail(values)) = n - 1
          BY <3>1, <4>2
        <4> QED
          BY <1>0, <3>4, <4>1, <4>3
      <3> QED
        BY <1>11, <3>2, <3>3, <3>4 DEF Body
    <2>4. AfterBody(c, Len(values'), waitingCount)
      BY <1>0, <2>1, <2>2, <2>3, BodyDone
    <2>5. AtPoint("signal1", c, Len(values'), waitingCount')
      BY <1>11, <2>4 DEF AtPoint, Body
    <2> QED
      BY <1>3, <1>4, <1>11, <2>5 DEF Body
  <1>12. CASE Signal1(t)
    <2> DEFINE d == FirstOf(c)
    <2>1. AfterBody(c, n, waitingCount) /\ UNCHANGED values
      BY <1>1, <1>12 DEF Signal1, SignalWakes, SignalSkips, Goto, AtPoint
    <2>2. d \in Conditions
      BY <1>2, SignalType
    <2>3. CASE SignalWakes(t, d, "signal1", "reenter1")
      <3>1. /\ w'[d] = 1
            /\ waitingCount' = [waitingCount EXCEPT ![d] = @ - 1]
            /\ waitingCount[d] > 0 /\ Can(d)
        BY <1>3, <2>2, <2>3, Wakes
      <3>2. CanWith(d, n)
        BY <1>0, <3>1, CanIs
      <3>3. Turn(d, n, waitingCount')
        BY <1>0, <2>1, <3>1, <3>2, FirstWakes
      <3> QED
        BY <2>1, <2>2, <3>1, <3>3, TokenHanded
    <2>4. CASE SignalSkips(t, d, "signal1", "signal2")
      <3>1. ~(CanWith(d, n) /\ waitingCount[d] > 0)
        BY <1>0, <2>4, CanIs DEF SignalSkips
      <3>2. AfterSignal(c, n, waitingCount)
        BY <1>0, <2>1, <3>1, FirstSkips
      <3>3. AtPoint("signal2", c, Len(values'), waitingCount')
        BY <2>1, <2>4, <3>2 DEF AtPoint, SignalSkips
      <3> QED
        BY <1>3, <1>4, <2>4, <3>3 DEF SignalSkips
    <2> QED
      BY <1>2, <1>12, <2>3, <2>4 DEF Signal1
  <1>13. CASE Signal2(t)
    <2> DEFINE d == SecondOf(c)
    <2>1. AfterSignal(c, n, waitingCount) /\ UNCHANGED values
      BY <1>1, <1>13 DEF Signal2, SignalWakes, SignalSkips, Goto, AtPoint
    <2>2. d \in Conditions
      BY <1>2, SignalType
    <2>3. CASE SignalWakes(t, d, "signal2", "reenter2")
      <3>1. /\ w'[d] = 1
            /\ waitingCount' = [waitingCount EXCEPT ![d] = @ - 1]
            /\ waitingCount[d] > 0 /\ Can(d)
        BY <1>3, <2>2, <2>3, Wakes
      <3>2. CanWith(d, n)
        BY <1>0, <3>1, CanIs
      <3>3. Turn(d, n, waitingCount')
        BY <1>0, <2>1, <3>1, <3>2, SecondWakes
      <3> QED
        BY <2>1, <2>2, <3>1, <3>3, TokenHanded
    <2>4. CASE SignalSkips(t, d, "signal2", "leave")
      <3>1. ~(CanWith(d, n) /\ waitingCount[d] > 0)
        BY <1>0, <2>4, CanIs DEF SignalSkips
      <3>2. AllFine(n, waitingCount)
        BY <1>0, <2>1, <3>1, SecondSkips
      <3>3. AtPoint("leave", c, Len(values'), waitingCount')
        BY <2>1, <2>4, <3>2 DEF AtPoint, SignalSkips
      <3> QED
        BY <1>3, <1>4, <2>4, <3>3 DEF SignalSkips
    <2> QED
      BY <1>2, <1>13, <2>3, <2>4 DEF Signal2
  <1> QED
    BY <1>5, <1>6, <1>7, <1>8, <1>9, <1>10, <1>11, <1>12, <1>13 DEF Step

\* The program starts with nobody asleep.
LEMMA InitNothingLost == Init => NothingLost /\ CountedOnce
  <1> SUFFICES ASSUME Init PROVE NothingLost /\ CountedOnce
    OBVIOUS
  <1>1. AllFine(Len(values), waitingCount)
    BY DEF Init, AllFine, Fine
  <1>2. \A t \in Threads : AtPoint(pc[t], Needs(t), Len(values), waitingCount)
    BY DEF Init, AtPoint
  <1>3. (\A c \in Conditions : w[c] = 0) /\ waitingCount["B"] = 0
    BY DEF Init, Conditions
  <1> QED
    BY <1>1, <1>2, <1>3 DEF NothingLost, CountedOnce

\* Nor does a step in which no thread moves.
LEMMA NextNothingLost ==
    ASSUME LimitsApart, OneProducerB, IInv, [Next]_vars, IInv', NothingLost, CountedOnce
    PROVE  NothingLost' /\ CountedOnce'
  <1>1. CASE Next
    BY <1>1, StepNothingLost, StepCountedOnce DEF Next
  <1>2. CASE UNCHANGED vars
    BY <1>2 DEF vars, NothingLost, CountedOnce, Needs
  <1> QED
    BY <1>1, <1>2

\* No consumer and no producer is left asleep while it could go on and the
\* monitor is free: with one B-producer, and with limits that a single letter
\* never takes from one side to the other, the two signals at the end of each
\* method are enough (buffer.cpp:56-60, 74-78, 93-98).
THEOREM NoLostWakeupHolds ==
    ASSUME OneProducerB, LimitsApart PROVE Spec => []NoLostWakeup
  <1>1. TypeOK /\ NothingLost => NoLostWakeup
    BY CanIs DEF NothingLost, NoLostWakeup, AllFine, Fine
  <1>2. IInv /\ NothingLost /\ CountedOnce /\ [Next]_vars /\ IInv'
          => NothingLost' /\ CountedOnce'
    BY NextNothingLost
  <1>3. IInv => TypeOK
    BY DEF IInv
  <1> QED
    BY <1>1, <1>2, <1>3, InitNothingLost, Invariance, PTL DEF Spec
=============================================================================
