----------------------- MODULE SemaphoreBufferProofs -----------------------
(* Proofs about SemaphoreBuffer, for any finite sets of threads, any number  *)
(* of rounds and any limits.                                                 *)
(*                                                                           *)
(* A right to be inside is in mutex, in a stop semaphore or with a thread.   *)
(* Every step moves one, but for the v() of putA and putB on a stop, which   *)
(* makes one and is counted in overpaid.  So while overpaid is 0 there is a  *)
(* single right, and the rest is the argument of the monitor: what held when *)
(* the right was handed over holds when it is used.                          *)
EXTENDS SemaphoreBuffer, FiniteSetTheorems, TLAPS

Points == InsidePoints \cup {"out", "lock", "blocked"}

\* The variables that count and the program counters have their types.
CountersTyped ==
    /\ values \in Seq({"A", "B"})
    /\ mutex \in Nat /\ empty \in Nat /\ overpaid \in Nat
    /\ stop \in [{"A", "B"} -> Nat]
    /\ wait \in [{"A", "B"} -> BOOLEAN]
    /\ pc \in [Threads -> Points]
    /\ seen \in [Threads -> Seq({"A", "B"})]

\* How many threads of T are at one of the points Q, in g.
CountAt(g, T, Q) == Cardinality({u \in T : g[u] \in Q})

Waiting == {"lock", "load", "store"}

\* empty and the letters posted but not yet counted are the letters that no
\* consumer has claimed.
Counted ==
    Len(values) = empty + CountAt(pc, Threads, {"post"}) + CountAt(pc, Consumers, Waiting)

\* What was true of x when it was given the right is still true.
HandedMeansCan == \A x \in {"A", "B"} : stop[x] > 0 => Can(x)

LoadingMeansCan == \A t \in Producers : pc[t] = "load" => Can(Letter(t))

\* Nobody has changed the vector since t read it.
SeenIsNow == \A t \in Threads : pc[t] = "store" => seen[t] = values

Rights == mutex + stop["A"] + stop["B"] + CountAt(pc, Threads, InsidePoints)

\* Which kind of thread is where.
KindsApart ==
    \A t \in Threads :
        /\ pc[t] \in {"test", "release", "blocked", "post", "unlock"} => t \in Producers
        /\ pc[t] = "lock" => t \in Consumers

IInv ==
    /\ CountersTyped
    /\ KindsApart
    /\ Rights = 1 + overpaid
    /\ overpaid = 0 => Counted /\ HandedMeansCan /\ LoadingMeansCan /\ SeenIsNow

\* Hence the threads can be counted.
LEMMA FiniteThreads == IsFiniteSet(Threads) /\ IsFiniteSet(Consumers)
  BY ThreadsAssumption, FS_Union DEF Threads

\* A count of threads is a number.
LEMMA CountType ==
    ASSUME NEW g, NEW T, NEW Q, IsFiniteSet(T)
    PROVE  /\ IsFiniteSet({u \in T : g[u] \in Q})
           /\ CountAt(g, T, Q) \in Nat
  <1>1. {u \in T : g[u] \in Q} \in SUBSET T
    OBVIOUS
  <1>2. IsFiniteSet({u \in T : g[u] \in Q})
    BY <1>1, FS_Subset
  <1> QED
    BY <1>2, FS_CardinalityType DEF CountAt

\* The count of the points Q when at most one thread goes to another point.
LEMMA CountMoved ==
    ASSUME NEW g, NEW h, NEW T, NEW Q, NEW t
    PROVE  IsFiniteSet(T) /\ (\A u \in T : u # t => h[u] = g[u]) =>
           /\ (t \notin T \/ (g[t] \in Q <=> h[t] \in Q)) =>
                CountAt(h, T, Q) = CountAt(g, T, Q)
           /\ t \in T /\ g[t] \notin Q /\ h[t] \in Q =>
                CountAt(h, T, Q) = CountAt(g, T, Q) + 1
           /\ t \in T /\ g[t] \in Q /\ h[t] \notin Q =>
                CountAt(g, T, Q) = CountAt(h, T, Q) + 1
  <1> HAVE IsFiniteSet(T) /\ (\A u \in T : u # t => h[u] = g[u])
  <1> DEFINE G == {u \in T : g[u] \in Q}
             H == {u \in T : h[u] \in Q}
  <1>1. IsFiniteSet(G)
    BY CountType
  <1>2. IsFiniteSet(H)
    BY CountType
  <1>3. (t \notin T \/ (g[t] \in Q <=> h[t] \in Q)) => H = G
    OBVIOUS
  <1>4. t \in T /\ g[t] \notin Q /\ h[t] \in Q => H = G \cup {t} /\ t \notin G
    OBVIOUS
  <1>5. t \in T /\ g[t] \in Q /\ h[t] \notin Q => G = H \cup {t} /\ t \notin H
    OBVIOUS
  <1>6. CountAt(h, T, Q) = Cardinality(H) /\ CountAt(g, T, Q) = Cardinality(G)
    BY DEF CountAt
  <1> HIDE DEF G, H
  <1>7. Cardinality(G \cup {t}) = (IF t \in G THEN Cardinality(G) ELSE Cardinality(G) + 1)
    BY <1>1, FS_AddElement
  <1>8. Cardinality(H \cup {t}) = (IF t \in H THEN Cardinality(H) ELSE Cardinality(H) + 1)
    BY <1>2, FS_AddElement
  <1> QED
    BY <1>3, <1>4, <1>5, <1>6, <1>7, <1>8

\* What a step of t from one point to another does to the three counts.
LEMMA GotoCounts ==
    ASSUME CountersTyped, NEW t \in Threads, NEW from, NEW to \in Points, Goto(t, from, to)
    PROVE  /\ pc' \in [Threads -> Points]
           /\ pc[t] = from /\ pc'[t] = to /\ \A u \in Threads \ {t} : pc'[u] = pc[u]
           /\ CountAt(pc, Threads, InsidePoints) \in Nat
           /\ CountAt(pc, Threads, {"post"}) \in Nat
           /\ CountAt(pc, Consumers, Waiting) \in Nat
           /\ CountAt(pc', Threads, InsidePoints) \in Nat
           /\ CountAt(pc', Threads, {"post"}) \in Nat
           /\ CountAt(pc', Consumers, Waiting) \in Nat
           /\ (from \in InsidePoints <=> to \in InsidePoints) =>
                CountAt(pc', Threads, InsidePoints) = CountAt(pc, Threads, InsidePoints)
           /\ from \notin InsidePoints /\ to \in InsidePoints =>
                CountAt(pc', Threads, InsidePoints) = CountAt(pc, Threads, InsidePoints) + 1
           /\ from \in InsidePoints /\ to \notin InsidePoints =>
                CountAt(pc, Threads, InsidePoints) = CountAt(pc', Threads, InsidePoints) + 1
           /\ (from = "post" <=> to = "post") =>
                CountAt(pc', Threads, {"post"}) = CountAt(pc, Threads, {"post"})
           /\ from # "post" /\ to = "post" =>
                CountAt(pc', Threads, {"post"}) = CountAt(pc, Threads, {"post"}) + 1
           /\ from = "post" /\ to # "post" =>
                CountAt(pc, Threads, {"post"}) = CountAt(pc', Threads, {"post"}) + 1
           /\ t \notin Consumers \/ (from \in Waiting <=> to \in Waiting) =>
                CountAt(pc', Consumers, Waiting) = CountAt(pc, Consumers, Waiting)
           /\ t \in Consumers /\ from \notin Waiting /\ to \in Waiting =>
                CountAt(pc', Consumers, Waiting) = CountAt(pc, Consumers, Waiting) + 1
           /\ t \in Consumers /\ from \in Waiting /\ to \notin Waiting =>
                CountAt(pc, Consumers, Waiting) = CountAt(pc', Consumers, Waiting) + 1
  <1>1. /\ pc \in [Threads -> Points] /\ pc[t] = from
        /\ pc' = [pc EXCEPT ![t] = to]
    BY DEF CountersTyped, Goto
  <1>2. /\ pc'[t] = to /\ t \in Threads /\ (t \in Consumers => t \in Threads)
        /\ \A u \in Threads : u # t => pc'[u] = pc[u]
        /\ \A u \in Consumers : u # t => pc'[u] = pc[u]
    BY <1>1 DEF Threads
  <1>3. /\ CountAt(pc, Threads, InsidePoints) \in Nat
        /\ CountAt(pc, Threads, {"post"}) \in Nat
        /\ CountAt(pc, Consumers, Waiting) \in Nat
        /\ CountAt(pc', Threads, InsidePoints) \in Nat
        /\ CountAt(pc', Threads, {"post"}) \in Nat
        /\ CountAt(pc', Consumers, Waiting) \in Nat
    BY CountType, FiniteThreads
  <1>4. /\ (from \in InsidePoints <=> to \in InsidePoints) =>
             CountAt(pc', Threads, InsidePoints) = CountAt(pc, Threads, InsidePoints)
        /\ from \notin InsidePoints /\ to \in InsidePoints =>
             CountAt(pc', Threads, InsidePoints) = CountAt(pc, Threads, InsidePoints) + 1
        /\ from \in InsidePoints /\ to \notin InsidePoints =>
             CountAt(pc, Threads, InsidePoints) = CountAt(pc', Threads, InsidePoints) + 1
    <2>1. /\ (t \notin Threads \/ (pc[t] \in InsidePoints <=> pc'[t] \in InsidePoints)) =>
               CountAt(pc', Threads, InsidePoints) = CountAt(pc, Threads, InsidePoints)
          /\ t \in Threads /\ pc[t] \notin InsidePoints /\ pc'[t] \in InsidePoints =>
               CountAt(pc', Threads, InsidePoints) = CountAt(pc, Threads, InsidePoints) + 1
          /\ t \in Threads /\ pc[t] \in InsidePoints /\ pc'[t] \notin InsidePoints =>
               CountAt(pc, Threads, InsidePoints) = CountAt(pc', Threads, InsidePoints) + 1
      BY <1>2, CountMoved, FiniteThreads
    <2> QED
      BY <1>1, <1>2, <2>1
  <1>5. /\ from # "post" /\ to # "post" =>
             CountAt(pc', Threads, {"post"}) = CountAt(pc, Threads, {"post"})
        /\ from # "post" /\ to = "post" =>
             CountAt(pc', Threads, {"post"}) = CountAt(pc, Threads, {"post"}) + 1
        /\ from = "post" /\ to # "post" =>
             CountAt(pc, Threads, {"post"}) = CountAt(pc', Threads, {"post"}) + 1
    <2>1. /\ (t \notin Threads \/ (pc[t] \in {"post"} <=> pc'[t] \in {"post"})) =>
               CountAt(pc', Threads, {"post"}) = CountAt(pc, Threads, {"post"})
          /\ t \in Threads /\ pc[t] \notin {"post"} /\ pc'[t] \in {"post"} =>
               CountAt(pc', Threads, {"post"}) = CountAt(pc, Threads, {"post"}) + 1
          /\ t \in Threads /\ pc[t] \in {"post"} /\ pc'[t] \notin {"post"} =>
               CountAt(pc, Threads, {"post"}) = CountAt(pc', Threads, {"post"}) + 1
      BY <1>2, CountMoved, FiniteThreads
    <2> QED
      BY <1>1, <1>2, <2>1
  <1>6. /\ t \notin Consumers \/ (from \in Waiting <=> to \in Waiting) =>
             CountAt(pc', Consumers, Waiting) = CountAt(pc, Consumers, Waiting)
        /\ t \in Consumers /\ from \notin Waiting /\ to \in Waiting =>
             CountAt(pc', Consumers, Waiting) = CountAt(pc, Consumers, Waiting) + 1
        /\ t \in Consumers /\ from \in Waiting /\ to \notin Waiting =>
             CountAt(pc, Consumers, Waiting) = CountAt(pc', Consumers, Waiting) + 1
    <2>1. /\ (t \notin Consumers \/ (pc[t] \in Waiting <=> pc'[t] \in Waiting)) =>
               CountAt(pc', Consumers, Waiting) = CountAt(pc, Consumers, Waiting)
          /\ t \in Consumers /\ pc[t] \notin Waiting /\ pc'[t] \in Waiting =>
               CountAt(pc', Consumers, Waiting) = CountAt(pc, Consumers, Waiting) + 1
          /\ t \in Consumers /\ pc[t] \in Waiting /\ pc'[t] \notin Waiting =>
               CountAt(pc, Consumers, Waiting) = CountAt(pc', Consumers, Waiting) + 1
      BY <1>2, CountMoved, FiniteThreads
    <2> QED
      BY <1>1, <1>2, <2>1
  <1> QED
    BY <1>1, <1>2, <1>3, <1>4, <1>5, <1>6

\* Before the first double release the thread inside has the only right.
LEMMA OneRight ==
    ASSUME IInv, overpaid = 0, NEW t \in Threads, Inside(t)
    PROVE  /\ mutex = 0 /\ \A x \in {"A", "B"} : stop[x] = 0
           /\ \A u \in Threads : Inside(u) => u = t
  <1> DEFINE In == {u \in Threads : pc[u] \in InsidePoints}
  <1>1. IsFiniteSet(In) /\ Cardinality(In) \in Nat
    BY CountType, FiniteThreads DEF CountAt
  <1>2. mutex + stop["A"] + stop["B"] + Cardinality(In) = 1
    BY DEF IInv, Rights, CountAt
  <1>3. mutex \in Nat /\ stop["A"] \in Nat /\ stop["B"] \in Nat
    BY DEF IInv, CountersTyped
  <1>4. t \in In
    BY DEF Inside
  <1> HIDE DEF In
  <1>5. Cardinality(In) # 0
    BY <1>1, <1>4, FS_EmptySet
  <1>6. Cardinality(In) = 1 /\ mutex = 0 /\ stop["A"] = 0 /\ stop["B"] = 0
    BY <1>1, <1>2, <1>3, <1>5
  <1>7. \E x : In = {x}
    BY <1>1, <1>6, FS_Singleton
  <1>8. \A u \in In : u = t
    BY <1>4, <1>7
  <1> QED
    BY <1>6, <1>8 DEF In, Inside

\* A producer writes Letter(t), waits for its letter and may wake the other.
LEMMA LetterType ==
    \A t : Letter(t) \in {"A", "B"} /\ Other(t) \in {"A", "B"}
  BY DEF Letter, Other

\* Whether x can go on depends on the vector alone.
LEMMA CanSame == ASSUME values' = values PROVE \A x : Can(x)' <=> Can(x)
  BY DEF Can, canA, canB

\* At the start the right is in mutex and the buffer is empty.
LEMMA InitIInv == Init => IInv
  <1> SUFFICES ASSUME Init PROVE IInv
    OBVIOUS
  <1>1. CountersTyped /\ KindsApart
    BY DEF Init, CountersTyped, KindsApart, Points, InsidePoints
  <1>2. \A T \in SUBSET Threads : \A Q : "out" \notin Q => {u \in T : pc[u] \in Q} = {}
    BY DEF Init
  <1>3. \A T \in SUBSET Threads : \A Q : "out" \notin Q => CountAt(pc, T, Q) = 0
    BY <1>2, FS_EmptySet DEF CountAt
  <1>4. /\ CountAt(pc, Threads, InsidePoints) = 0 /\ CountAt(pc, Threads, {"post"}) = 0
        /\ CountAt(pc, Consumers, Waiting) = 0
    <2>1. CountAt(pc, Threads, InsidePoints) = 0
      BY <1>3 DEF InsidePoints
    <2>2. CountAt(pc, Threads, {"post"}) = 0
      BY <1>3
    <2>3. CountAt(pc, Consumers, Waiting) = 0
      BY <1>3 DEF Waiting, Threads
    <2> QED
      BY <2>1, <2>2, <2>3
  <1>5. Rights = 1 + overpaid /\ Counted
    BY <1>4 DEF Init, Rights, Counted
  <1>6. HandedMeansCan /\ LoadingMeansCan /\ SeenIsNow
    BY DEF Init, HandedMeansCan, LoadingMeansCan, SeenIsNow, Threads, Producers
  <1> QED
    BY <1>1, <1>5, <1>6 DEF IInv

-----------------------------------------------------------------------------
(* Each step keeps the invariant.                                            *)

At(x, Q) == IF x \in Q THEN 1 ELSE 0

Claim(t, x) == IF t \in Consumers /\ x \in Waiting THEN 1 ELSE 0

\* A step that leaves the vector alone moves a right or makes one that is counted,
\* keeps the account of the letters, hands a right over only to one who can use
\* it and goes on to read or write only if it can.
Moves(t, from, to) ==
    /\ Goto(t, from, to) /\ values' = values
    /\ to \in {"test", "release", "blocked", "post", "unlock"} => t \in Producers
    /\ to = "lock" => t \in Consumers
    /\ mutex' \in Nat /\ empty' \in Nat /\ overpaid' \in Nat
    /\ stop' \in [{"A", "B"} -> Nat]
    /\ wait' \in [{"A", "B"} -> BOOLEAN]
    /\ seen' \in [Threads -> Seq({"A", "B"})]
    /\ overpaid <= overpaid'
    /\ mutex' + stop'["A"] + stop'["B"] + At(to, InsidePoints) + overpaid
         = mutex + stop["A"] + stop["B"] + At(from, InsidePoints) + overpaid'
    /\ empty' + At(to, {"post"}) + Claim(t, to) = empty + At(from, {"post"}) + Claim(t, from)
    /\ overpaid' = 0 /\ HandedMeansCan =>
         /\ \A x \in {"A", "B"} : stop'[x] > 0 => stop[x] > 0 \/ Can(x)
         /\ t \in Producers /\ to = "load" => Can(Letter(t))
    /\ to = "store" => seen'[t] = values
    /\ \A u \in Threads : u # t => seen'[u] = seen[u]

\* Such a step keeps the invariant.
LEMMA MoveIInv ==
    ASSUME IInv, NEW t \in Threads, NEW from \in Points, NEW to \in Points, Moves(t, from, to)
    PROVE  IInv'
  <1>1. CountersTyped /\ KindsApart /\ Rights = 1 + overpaid /\ Goto(t, from, to)
    BY DEF IInv, Moves
  <1>2. /\ pc' \in [Threads -> Points]
        /\ pc'[t] = to /\ \A u \in Threads \ {t} : pc'[u] = pc[u]
        /\ CountAt(pc, Threads, InsidePoints) \in Nat
        /\ CountAt(pc', Threads, InsidePoints) \in Nat
        /\ CountAt(pc, Threads, {"post"}) \in Nat
        /\ CountAt(pc', Threads, {"post"}) \in Nat
        /\ CountAt(pc, Consumers, Waiting) \in Nat
        /\ CountAt(pc', Consumers, Waiting) \in Nat
    BY <1>1, GotoCounts
  <1>3. CountAt(pc', Threads, InsidePoints) + At(from, InsidePoints)
          = CountAt(pc, Threads, InsidePoints) + At(to, InsidePoints)
    <2>1. /\ (from \in InsidePoints <=> to \in InsidePoints) =>
               CountAt(pc', Threads, InsidePoints) = CountAt(pc, Threads, InsidePoints)
          /\ from \notin InsidePoints /\ to \in InsidePoints =>
               CountAt(pc', Threads, InsidePoints) = CountAt(pc, Threads, InsidePoints) + 1
          /\ from \in InsidePoints /\ to \notin InsidePoints =>
               CountAt(pc, Threads, InsidePoints) = CountAt(pc', Threads, InsidePoints) + 1
      BY <1>1, GotoCounts
    <2> QED
      BY <1>2, <2>1 DEF At
  <1>4. CountAt(pc', Threads, {"post"}) + At(from, {"post"})
          = CountAt(pc, Threads, {"post"}) + At(to, {"post"})
    <2>1. /\ (from = "post" <=> to = "post") =>
               CountAt(pc', Threads, {"post"}) = CountAt(pc, Threads, {"post"})
          /\ from # "post" /\ to = "post" =>
               CountAt(pc', Threads, {"post"}) = CountAt(pc, Threads, {"post"}) + 1
          /\ from = "post" /\ to # "post" =>
               CountAt(pc, Threads, {"post"}) = CountAt(pc', Threads, {"post"}) + 1
      BY <1>1, GotoCounts
    <2> QED
      BY <1>2, <2>1 DEF At
  <1>5. CountAt(pc', Consumers, Waiting) + Claim(t, from)
          = CountAt(pc, Consumers, Waiting) + Claim(t, to)
    BY <1>1, <1>2, GotoCounts DEF Claim
  <1>6. \A x, Q : At(x, Q) \in Nat /\ Claim(t, x) \in Nat
    BY DEF At, Claim
  <1>7. CountersTyped'
    BY <1>1, <1>2 DEF CountersTyped, Moves
  <1>8. KindsApart'
    BY <1>1, <1>2 DEF KindsApart, Moves
  <1>9. Rights' = 1 + overpaid'
    <2>1. /\ mutex \in Nat /\ stop["A"] \in Nat /\ stop["B"] \in Nat /\ overpaid \in Nat
          /\ mutex' \in Nat /\ stop'["A"] \in Nat /\ stop'["B"] \in Nat /\ overpaid' \in Nat
      BY <1>1, <1>7 DEF CountersTyped
    <2>2. mutex' + stop'["A"] + stop'["B"] + At(to, InsidePoints) + overpaid
            = mutex + stop["A"] + stop["B"] + At(from, InsidePoints) + overpaid'
      BY DEF Moves
    <2>3. At(to, InsidePoints) \in Nat /\ At(from, InsidePoints) \in Nat
      BY <1>6
    <2>4. mutex + stop["A"] + stop["B"] + CountAt(pc, Threads, InsidePoints) = 1 + overpaid
      BY <1>1 DEF Rights
    <2>5. mutex' + stop'["A"] + stop'["B"] + CountAt(pc', Threads, InsidePoints) = 1 + overpaid'
      BY <1>2, <1>3, <2>1, <2>2, <2>3, <2>4
    <2> QED
      BY <2>5 DEF Rights
  <1>10. ASSUME overpaid' = 0
         PROVE  Counted' /\ HandedMeansCan' /\ LoadingMeansCan' /\ SeenIsNow'
    <2>1. Counted /\ HandedMeansCan /\ LoadingMeansCan /\ SeenIsNow
      BY <1>1, <1>10 DEF IInv, CountersTyped, Moves
    <2>2. Counted'
      <3>1. empty \in Nat /\ empty' \in Nat /\ Len(values) \in Nat /\ values' = values
        BY <1>1, <1>7 DEF CountersTyped, Moves
      <3>2. empty' + At(to, {"post"}) + Claim(t, to) = empty + At(from, {"post"}) + Claim(t, from)
        BY DEF Moves
      <3>3. /\ At(to, {"post"}) \in Nat /\ At(from, {"post"}) \in Nat
            /\ Claim(t, to) \in Nat /\ Claim(t, from) \in Nat
        BY <1>6
      <3>4. Len(values) = empty' + CountAt(pc', Threads, {"post"}) + CountAt(pc', Consumers, Waiting)
        <4>1. PICK L, e, e1 \in Nat : L = Len(values) /\ e = empty /\ e1 = empty'
          BY <3>1
        <4>2. PICK p, p1, c, c1 \in Nat :
                /\ p = CountAt(pc, Threads, {"post"}) /\ p1 = CountAt(pc', Threads, {"post"})
                /\ c = CountAt(pc, Consumers, Waiting) /\ c1 = CountAt(pc', Consumers, Waiting)
          BY <1>2
        <4>3. PICK a, a1, d, d1 \in Nat :
                /\ a = At(from, {"post"}) /\ a1 = At(to, {"post"})
                /\ d = Claim(t, from) /\ d1 = Claim(t, to)
          BY <3>3
        <4>4. /\ L = e + p + c /\ e1 + a1 + d1 = e + a + d
              /\ p1 + a = p + a1 /\ c1 + d = c + d1
          BY <1>4, <1>5, <2>1, <3>2, <4>1, <4>2, <4>3 DEF Counted
        <4>5. L = e1 + p1 + c1
          BY <4>4
        <4> QED
          BY <4>1, <4>2, <4>5
      <3> QED
        BY <3>1, <3>4 DEF Counted
    <2>3. HandedMeansCan'
      BY <1>10, <2>1, CanSame DEF HandedMeansCan, Moves
    <2>4. LoadingMeansCan'
      BY <1>2, <1>10, <2>1, CanSame DEF LoadingMeansCan, Threads, Producers, Moves
    <2>5. SeenIsNow'
      BY <1>2, <2>1 DEF SeenIsNow, Moves
    <2> QED
      BY <2>2, <2>3, <2>4, <2>5
  <1> QED
    BY <1>7, <1>8, <1>9, <1>10 DEF IInv

\* What the invariant says of the types, for the steps below.
LEMMA TypesOf ==
    ASSUME IInv
    PROVE  /\ mutex \in Nat /\ empty \in Nat /\ overpaid \in Nat
           /\ stop \in [{"A", "B"} -> Nat] /\ stop["A"] \in Nat /\ stop["B"] \in Nat
           /\ wait \in [{"A", "B"} -> BOOLEAN]
           /\ seen \in [Threads -> Seq({"A", "B"})] /\ values \in Seq({"A", "B"})
           /\ \A t \in Threads :
                /\ pc[t] \in {"test", "release", "blocked", "post", "unlock"} =>
                     t \in Producers /\ t \notin Consumers
                /\ pc[t] = "lock" => t \in Consumers /\ t \notin Producers
  BY ThreadsAssumption DEF IInv, CountersTyped, KindsApart, Producers

\* Into the mutex.
LEMMA LockIInv == ASSUME IInv, NEW t \in Threads, Lock(t) PROVE IInv'
  <1>1. mutex' \in Nat /\ mutex = mutex' + 1
    BY TypesOf DEF Lock
  <1>2. CASE t \in Producers /\ Goto(t, "out", "test")
    <2>1. Moves(t, "out", "test")
      BY <1>1, <1>2, TypesOf DEF Moves, Lock, At, Claim, Waiting, InsidePoints
    <2> QED
      BY <2>1, MoveIInv DEF Points, InsidePoints
  <1>3. CASE t \in Consumers /\ Goto(t, "lock", "load")
    <2>1. Moves(t, "lock", "load")
      BY <1>1, <1>3, TypesOf, ThreadsAssumption
         DEF Moves, Lock, At, Claim, Waiting, InsidePoints, Producers
    <2> QED
      BY <2>1, MoveIInv DEF Points, InsidePoints
  <1> QED
    BY <1>2, <1>3 DEF Lock

\* A test that succeeds.
LEMMA TestPassesIInv == ASSUME IInv, NEW t \in Threads, TestPasses(t) PROVE IInv'
  <1>1. Moves(t, "test", "load")
    BY TypesOf, LetterType, ThreadsAssumption
       DEF TestPasses, Moves, At, Claim, Waiting, InsidePoints, Goto, HandedMeansCan, Producers
  <1> QED
    BY <1>1, MoveIInv DEF Points, InsidePoints

\* One that fails.
LEMMA TestFailsIInv == ASSUME IInv, NEW t \in Threads, TestFails(t) PROVE IInv'
  <1>1. Moves(t, "test", "release")
    BY TypesOf, LetterType, ThreadsAssumption
       DEF TestFails, Moves, At, Claim, Waiting, InsidePoints, Goto, HandedMeansCan, Producers
  <1> QED
    BY <1>1, MoveIInv DEF Points, InsidePoints

\* The mutex before sleeping.
LEMMA ReleaseIInv == ASSUME IInv, NEW t \in Threads, Release(t) PROVE IInv'
  <1>1. Moves(t, "release", "blocked")
    <2>1. /\ mutex' \in Nat /\ empty' \in Nat /\ overpaid' \in Nat /\ overpaid <= overpaid'
          /\ stop' \in [{"A", "B"} -> Nat]
          /\ wait' \in [{"A", "B"} -> BOOLEAN]
          /\ seen' \in [Threads -> Seq({"A", "B"})] /\ values' = values
      BY TypesOf, LetterType DEF Release
    <2>2. mutex' + stop'["A"] + stop'["B"] + At("blocked", InsidePoints) + overpaid
            = mutex + stop["A"] + stop["B"] + At("release", InsidePoints) + overpaid'
      BY TypesOf, LetterType DEF Release, At, InsidePoints
    <2>3. empty' + At("blocked", {"post"}) + Claim(t, "blocked")
            = empty + At("release", {"post"}) + Claim(t, "release")
      BY TypesOf, ThreadsAssumption DEF Release, At, Claim, Waiting, Producers, Goto
    <2>4. overpaid' = 0 /\ HandedMeansCan =>
              \A x \in {"A", "B"} : stop'[x] > 0 => stop[x] > 0 \/ Can(x)
      BY TypesOf, LetterType DEF Release, Can
    <2> QED
      BY <2>1, <2>2, <2>3, <2>4, TypesOf DEF Moves, Release, Goto
  <1> QED
    BY <1>1, MoveIInv DEF Points, InsidePoints

\* A right that was handed over is taken.
LEMMA WakeIInv == ASSUME IInv, NEW t \in Threads, Wake(t) PROVE IInv'
  <1>1. Moves(t, "blocked", "load")
    BY TypesOf, LetterType, ThreadsAssumption
       DEF Wake, Moves, At, Claim, Waiting, InsidePoints, Goto, HandedMeansCan, Producers
  <1> QED
    BY <1>1, MoveIInv DEF Points, InsidePoints

\* The vector is read.
LEMMA LoadIInv == ASSUME IInv, NEW t \in Threads, Load(t) PROVE IInv'
  <1>1. Moves(t, "load", "store")
    BY TypesOf, LetterType, ThreadsAssumption
       DEF Load, Moves, At, Claim, Waiting, InsidePoints, Goto, HandedMeansCan, Producers
  <1> QED
    BY <1>1, MoveIInv DEF Points, InsidePoints

\* The letter is counted.
LEMMA PostIInv == ASSUME IInv, NEW t \in Threads, Post(t) PROVE IInv'
  <1>1. Moves(t, "post", "hand")
    BY TypesOf, LetterType, ThreadsAssumption
       DEF Post, Moves, At, Claim, Waiting, InsidePoints, Goto, HandedMeansCan, Producers
  <1> QED
    BY <1>1, MoveIInv DEF Points, InsidePoints

\* The other is given a right too many.
LEMMA HandPutIInv == ASSUME IInv, NEW t \in Threads, HandPut(t) PROVE IInv'
  <1>1. Moves(t, "hand", "unlock")
    <2>0. \/ /\ stop' = [stop EXCEPT ![Other(t)] = @ + 1]
             /\ overpaid' = overpaid + 1
          \/ stop' = stop /\ overpaid' = overpaid
      BY DEF HandPut
    <2>1. /\ mutex' \in Nat /\ empty' \in Nat /\ overpaid' \in Nat /\ overpaid <= overpaid'
          /\ stop' \in [{"A", "B"} -> Nat]
          /\ wait' \in [{"A", "B"} -> BOOLEAN]
          /\ seen' \in [Threads -> Seq({"A", "B"})] /\ values' = values
      BY <2>0, TypesOf, LetterType DEF HandPut
    <2>2. mutex' + stop'["A"] + stop'["B"] + At("unlock", InsidePoints) + overpaid
            = mutex + stop["A"] + stop["B"] + At("hand", InsidePoints) + overpaid'
      <3>2. At("unlock", InsidePoints) = 1 /\ At("hand", InsidePoints) = 1 /\ mutex' = mutex
        BY DEF HandPut, At, InsidePoints
      <3>1. CASE stop' = stop /\ overpaid' = overpaid
        BY <3>1, <3>2, TypesOf
      <3>3. PICK a, b, m, o \in Nat :
               a = stop["A"] /\ b = stop["B"] /\ m = mutex /\ o = overpaid
        BY TypesOf
      <3>4. CASE Other(t) = "A" /\ stop' = [stop EXCEPT !["A"] = @ + 1] /\ overpaid' = overpaid + 1
        <4>1. stop'["A"] = a + 1 /\ stop'["B"] = b /\ overpaid' = o + 1
          BY <3>3, <3>4, TypesOf
        <4> QED
          BY <3>2, <3>3, <4>1
      <3>5. CASE Other(t) = "B" /\ stop' = [stop EXCEPT !["B"] = @ + 1] /\ overpaid' = overpaid + 1
        <4>1. stop'["A"] = a /\ stop'["B"] = b + 1 /\ overpaid' = o + 1
          BY <3>3, <3>5, TypesOf
        <4> QED
          BY <3>2, <3>3, <4>1
      <3> QED
        BY <2>0, <3>1, <3>4, <3>5, LetterType
    <2>3. empty' + At("unlock", {"post"}) + Claim(t, "unlock")
            = empty + At("hand", {"post"}) + Claim(t, "hand")
      BY TypesOf, ThreadsAssumption DEF HandPut, At, Claim, Waiting, Producers, Goto
    <2>4. overpaid' = 0 /\ HandedMeansCan =>
              \A x \in {"A", "B"} : stop'[x] > 0 => stop[x] > 0 \/ Can(x)
      BY TypesOf, LetterType DEF HandPut, Can
    <2> QED
      BY <2>1, <2>2, <2>3, <2>4, TypesOf DEF Moves, HandPut, Goto
  <1> QED
    BY <1>1, MoveIInv DEF Points, InsidePoints

\* The mutex at the end.
LEMMA UnlockIInv == ASSUME IInv, NEW t \in Threads, Unlock(t) PROVE IInv'
  <1>1. Moves(t, "unlock", "out")
    <2>1. /\ mutex' \in Nat /\ empty' \in Nat /\ overpaid' \in Nat /\ overpaid <= overpaid'
          /\ stop' \in [{"A", "B"} -> Nat]
          /\ wait' \in [{"A", "B"} -> BOOLEAN]
          /\ seen' \in [Threads -> Seq({"A", "B"})] /\ values' = values
      BY TypesOf, LetterType DEF Unlock
    <2>2. mutex' + stop'["A"] + stop'["B"] + At("out", InsidePoints) + overpaid
            = mutex + stop["A"] + stop["B"] + At("unlock", InsidePoints) + overpaid'
      BY TypesOf, LetterType DEF Unlock, At, InsidePoints
    <2>3. empty' + At("out", {"post"}) + Claim(t, "out")
            = empty + At("unlock", {"post"}) + Claim(t, "unlock")
      BY TypesOf, ThreadsAssumption DEF Unlock, At, Claim, Waiting, Producers, Goto
    <2>4. overpaid' = 0 /\ HandedMeansCan =>
              \A x \in {"A", "B"} : stop'[x] > 0 => stop[x] > 0 \/ Can(x)
      BY TypesOf, LetterType DEF Unlock, Can
    <2> QED
      BY <2>1, <2>2, <2>3, <2>4, TypesOf DEF Moves, Unlock, Goto
  <1> QED
    BY <1>1, MoveIInv DEF Points, InsidePoints

\* A letter is claimed.
LEMMA AwaitIInv == ASSUME IInv, NEW t \in Threads, Await(t) PROVE IInv'
  <1>1. Moves(t, "out", "lock")
    BY TypesOf, LetterType, ThreadsAssumption
       DEF Await, Moves, At, Claim, Waiting, InsidePoints, Goto, HandedMeansCan, Producers
  <1> QED
    BY <1>1, MoveIInv DEF Points, InsidePoints

\* The right goes to whoever can use it.
LEMMA HandGetIInv == ASSUME IInv, NEW t \in Threads, HandGet(t) PROVE IInv'
  <1>1. Moves(t, "hand", "out")
    <2>1. /\ mutex' \in Nat /\ empty' \in Nat /\ overpaid' \in Nat /\ overpaid <= overpaid'
          /\ stop' \in [{"A", "B"} -> Nat]
          /\ wait' \in [{"A", "B"} -> BOOLEAN]
          /\ seen' \in [Threads -> Seq({"A", "B"})] /\ values' = values
      BY TypesOf, LetterType DEF HandGet
    <2>2. mutex' + stop'["A"] + stop'["B"] + At("out", InsidePoints) + overpaid
            = mutex + stop["A"] + stop["B"] + At("hand", InsidePoints) + overpaid'
      <3>1. mutex' + stop'["A"] + stop'["B"] = mutex + stop["A"] + stop["B"] + 1
        BY TypesOf DEF HandGet
      <3>2. At("out", InsidePoints) = 0 /\ At("hand", InsidePoints) = 1 /\ overpaid' = overpaid
        BY DEF HandGet, At, InsidePoints
      <3> QED
        BY <2>1, <3>1, <3>2, TypesOf
    <2>3. empty' + At("out", {"post"}) + Claim(t, "out")
            = empty + At("hand", {"post"}) + Claim(t, "hand")
      BY TypesOf, ThreadsAssumption DEF HandGet, At, Claim, Waiting, Producers, Goto
    <2>4. overpaid' = 0 /\ HandedMeansCan =>
              \A x \in {"A", "B"} : stop'[x] > 0 => stop[x] > 0 \/ Can(x)
      BY TypesOf, LetterType DEF HandGet, Can
    <2> QED
      BY <2>1, <2>2, <2>3, <2>4, TypesOf DEF Moves, HandGet, Goto
  <1> QED
    BY <1>1, MoveIInv DEF Points, InsidePoints

\* A letter is written: the one inside writes back what it has read and added.
LEMMA StorePutIInv == ASSUME IInv, NEW t \in Threads, StorePut(t) PROVE IInv'
  <1>1. CountersTyped /\ KindsApart /\ Rights = 1 + overpaid /\ Goto(t, "store", "post")
    BY DEF IInv, StorePut
  <1>2. /\ "post" \in Points /\ "store" \in InsidePoints /\ "post" \in InsidePoints
        /\ "store" \in Waiting /\ "post" \notin Waiting
    BY DEF Points, InsidePoints, Waiting
  <1>3. /\ pc' \in [Threads -> Points] /\ pc[t] = "store"
        /\ pc'[t] = "post" /\ \A u \in Threads \ {t} : pc'[u] = pc[u]
        /\ CountAt(pc, Threads, InsidePoints) \in Nat
        /\ CountAt(pc', Threads, InsidePoints) = CountAt(pc, Threads, InsidePoints)
    BY <1>1, <1>2, GotoCounts
  <1>4. CountersTyped'
    <2>1. values' \in Seq({"A", "B"}) /\ seen' \in [Threads -> Seq({"A", "B"})]
      BY TypesOf, LetterType DEF StorePut
    <2> QED
      BY <1>1, <1>3, <2>1 DEF CountersTyped, StorePut
  <1>5. KindsApart'
    BY <1>1, <1>3 DEF KindsApart, StorePut
  <1>6. Rights' = 1 + overpaid'
    BY <1>1, <1>3 DEF Rights, StorePut
  <1>7. ASSUME overpaid' = 0
        PROVE  Counted' /\ HandedMeansCan' /\ LoadingMeansCan' /\ SeenIsNow'
    <2>1. overpaid = 0 /\ Counted /\ SeenIsNow
      BY <1>7 DEF IInv, StorePut
    <2>2. /\ \A x \in {"A", "B"} : stop[x] = 0
          /\ \A u \in Threads : Inside(u) => u = t
      BY <1>2, <1>3, <2>1, OneRight DEF Inside
    <2>3. values' = Append(values, Letter(t))
      BY <1>3, <2>1 DEF SeenIsNow, StorePut
    <2>4. Counted'
      <3>1. t \notin Consumers
        BY ThreadsAssumption DEF StorePut, Producers
      <3>2. /\ CountAt(pc', Threads, {"post"}) = CountAt(pc, Threads, {"post"}) + 1
            /\ CountAt(pc', Consumers, Waiting) = CountAt(pc, Consumers, Waiting)
        BY <1>1, <1>2, <3>1, GotoCounts
      <3>3. PICK e, p, c \in Nat :
              /\ e = empty /\ p = CountAt(pc, Threads, {"post"})
              /\ c = CountAt(pc, Consumers, Waiting)
        BY <1>1, <1>2, GotoCounts, TypesOf
      <3>4. Len(values') = e + p + c + 1
        <4>1. Len(values) = e + p + c
          BY <2>1, <3>3 DEF Counted
        <4>2. values \in Seq({"A", "B"}) /\ Letter(t) \in {"A", "B"}
          BY TypesOf, LetterType
        <4>3. Len(values') = Len(values) + 1
          BY <2>3, <4>2
        <4> QED
          BY <4>1, <4>3
      <3> QED
        BY <3>2, <3>3, <3>4 DEF Counted, StorePut
    <2>5. HandedMeansCan'
      BY <2>2 DEF HandedMeansCan, StorePut
    <2>6. \A u \in Threads : pc'[u] \notin {"load", "store"}
      BY <1>3, <2>2 DEF Inside, InsidePoints
    <2>7. LoadingMeansCan' /\ SeenIsNow'
      BY <2>6 DEF LoadingMeansCan, SeenIsNow, Producers, Threads
    <2> QED
      BY <2>4, <2>5, <2>7
  <1> QED
    BY <1>4, <1>5, <1>6, <1>7 DEF IInv

\* A letter is taken, by a consumer that claims it no longer.
LEMMA StoreGetIInv == ASSUME IInv, NEW t \in Threads, StoreGet(t) PROVE IInv'
  <1>1. CountersTyped /\ KindsApart /\ Rights = 1 + overpaid /\ Goto(t, "store", "hand")
    BY DEF IInv, StoreGet
  <1>2. /\ "hand" \in Points /\ "store" \in InsidePoints /\ "hand" \in InsidePoints
        /\ "store" \in Waiting /\ "hand" \notin Waiting
    BY DEF Points, InsidePoints, Waiting
  <1>3. /\ pc' \in [Threads -> Points] /\ pc[t] = "store"
        /\ pc'[t] = "hand" /\ \A u \in Threads \ {t} : pc'[u] = pc[u]
        /\ CountAt(pc, Threads, InsidePoints) \in Nat
        /\ CountAt(pc', Threads, InsidePoints) = CountAt(pc, Threads, InsidePoints)
    BY <1>1, <1>2, GotoCounts
  <1>4. CountersTyped'
    <2>1. values' \in Seq({"A", "B"}) /\ seen' \in [Threads -> Seq({"A", "B"})]
      BY TypesOf, LetterType DEF StoreGet
    <2> QED
      BY <1>1, <1>3, <2>1 DEF CountersTyped, StoreGet
  <1>5. KindsApart'
    BY <1>1, <1>3 DEF KindsApart, StoreGet
  <1>6. Rights' = 1 + overpaid'
    BY <1>1, <1>3 DEF Rights, StoreGet
  <1>7. ASSUME overpaid' = 0
        PROVE  Counted' /\ HandedMeansCan' /\ LoadingMeansCan' /\ SeenIsNow'
    <2>1. overpaid = 0 /\ Counted /\ SeenIsNow
      BY <1>7 DEF IInv, StoreGet
    <2>2. /\ \A x \in {"A", "B"} : stop[x] = 0
          /\ \A u \in Threads : Inside(u) => u = t
      BY <1>2, <1>3, <2>1, OneRight DEF Inside
    <2>3. values # << >> /\ values' = Tail(values)
      BY <1>3, <2>1 DEF SeenIsNow, StoreGet
    <2>4. Counted'
      <3>1. t \in Consumers
        BY DEF StoreGet
      <3>2. /\ CountAt(pc', Threads, {"post"}) = CountAt(pc, Threads, {"post"})
            /\ CountAt(pc, Consumers, Waiting) = CountAt(pc', Consumers, Waiting) + 1
        BY <1>1, <1>2, <3>1, GotoCounts
      <3>3. PICK e, p, c \in Nat :
              /\ e = empty /\ p = CountAt(pc, Threads, {"post"})
              /\ c = CountAt(pc', Consumers, Waiting)
        BY <1>1, <1>2, GotoCounts, TypesOf
      <3>4. Len(values) = e + p + c + 1
        BY <2>1, <3>2, <3>3 DEF Counted
      <3>5. Len(Tail(values)) = Len(values) - 1
        <4>1. values \in Seq({"A", "B"})
          BY TypesOf
        <4> QED
          BY <2>3, <4>1
      <3>6. Len(values') = e + p + c
        BY <2>3, <3>3, <3>4, <3>5
      <3> QED
        BY <3>2, <3>3, <3>6 DEF Counted, StoreGet
    <2>5. HandedMeansCan'
      BY <2>2 DEF HandedMeansCan, StoreGet
    <2>6. \A u \in Threads : pc'[u] \notin {"load", "store"}
      BY <1>3, <2>2 DEF Inside, InsidePoints
    <2>7. LoadingMeansCan' /\ SeenIsNow'
      BY <2>6 DEF LoadingMeansCan, SeenIsNow, Producers, Threads
    <2> QED
      BY <2>4, <2>5, <2>7
  <1> QED
    BY <1>4, <1>5, <1>6, <1>7 DEF IInv

\* So does any step of any thread.
LEMMA NextIInv == IInv /\ [Next]_vars => IInv'
  <1> SUFFICES ASSUME IInv, [Next]_vars PROVE IInv'
    OBVIOUS
  <1>1. CASE UNCHANGED vars
    BY <1>1 DEF vars, IInv, CountersTyped, KindsApart, Rights, Counted, HandedMeansCan,
                LoadingMeansCan, SeenIsNow, Can, canA, canB
  <1>2. ASSUME NEW t \in Threads, Step(t) PROVE IInv'
    BY <1>2, LockIInv, TestPassesIInv, TestFailsIInv, ReleaseIInv, WakeIInv, LoadIInv,
       StorePutIInv, StoreGetIInv, PostIInv, HandPutIInv, UnlockIInv, AwaitIInv, HandGetIInv
       DEF Step
  <1> QED
    BY <1>1, <1>2 DEF Next

\* The invariant holds for any finite sets of threads, any number of rounds and
\* any limits of the buffer.
THEOREM IInvHolds == Spec => []IInv
  BY InitIInv, NextIInv, PTL DEF Spec

-----------------------------------------------------------------------------
\* The rights to be inside are those that putA and putB made by releasing twice
\* and one more, wherever they are (buffer.cpp:46-119).
THEOREM RightsConservedHolds == Spec => []RightsConserved
  <1>1. IInv => RightsConserved
    <2>1. {u \in Threads : pc[u] \in InsidePoints} = {u \in Threads : Inside(u)}
      BY DEF Inside
    <2> QED
      BY <2>1 DEF IInv, Rights, RightsConserved, CountAt
  <1> QED
    BY <1>1, IInvHolds, PTL

\* Before the first double release the semaphore buffer is right: one thread is
\* inside, each write is within its limit, no letter is lost from the count.
THEOREM SoundUntilOverpaidHolds == Spec => []SoundUntilOverpaid
  <1>1. IInv => SoundUntilOverpaid
    <2> SUFFICES ASSUME IInv, overpaid = 0
                 PROVE  /\ \A t, u \in Threads : Inside(t) /\ Inside(u) => t = u
                        /\ LoadingMeansCan
                        /\ empty + Cardinality({t \in Threads : pc[t] = "post"})
                             = Len(values) - Cardinality({t \in Consumers : pc[t] \in Waiting})
      BY DEF SoundUntilOverpaid, LoadingMeansCan, Waiting
    <2>1. \A t, u \in Threads : Inside(t) /\ Inside(u) => t = u
      BY OneRight
    <2>2. LoadingMeansCan /\ Counted
      BY DEF IInv
    <2>3. {t \in Threads : pc[t] = "post"} = {t \in Threads : pc[t] \in {"post"}}
      OBVIOUS
    <2>4. PICK e, p, c \in Nat :
            /\ e = empty /\ p = CountAt(pc, Threads, {"post"})
            /\ c = CountAt(pc, Consumers, Waiting)
      BY TypesOf, CountType, FiniteThreads
    <2>5. Len(values) = e + p + c
      BY <2>2, <2>4 DEF Counted
    <2>6. e + p = Len(values) - c
      BY <2>5
    <2> QED
      BY <2>1, <2>2, <2>3, <2>4, <2>6 DEF CountAt
  <1> QED
    BY <1>1, IInvHolds, PTL
=============================================================================
