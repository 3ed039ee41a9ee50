-------------------------- MODULE SchedulerProofs --------------------------
(* Theorems about Scheduler and the queue of UserQueue, for every number of  *)
(* processes, every SCHED_RATE and all quanta: the queue is always one of    *)
(* the runnable processes, the groups take turns, and nobody computes longer *)
(* than twice the longest quantum.                                           *)
(*                                                                           *)
(* The links are reasoned about by the line of processes they lead through   *)
(* (Holds): the function that follows the links, Nth, is shown once to give  *)
(* that line, and ready, unready, Rotate, Bring and with them sched are      *)
(* shown to make a known line of it (one more in front, one less, the first  *)
(* at the end, the m-th in front).                                           *)
(*                                                                           *)
(* The invariant IInv adds to the properties how the clock, the CLOCK task   *)
(* and the billed process stand to each other (Clock), and a measure: what a *)
(* process has used and what is left of the quantum, less the tick that the  *)
(* CLOCK task still has to count, grow together by no step beyond one        *)
(* quantum until prev_ptr remembers the process, and two from then on.       *)
EXTENDS Scheduler, FiniteSetTheorems, SequenceTheorems, WellFoundedInduction, TLAPS

\* A set of natural numbers has a least one.
LEMMA LeastOfNat ==
    ASSUME NEW S, S \subseteq Nat, S # {}
    PROVE  \E m \in S : \A n \in S : m <= n
  <1>1. PICK R : IsWellFoundedOn(R, Nat) /\ \A x, y \in Nat : x < y => <<x, y>> \in R
    <2>1. \A x, y \in Nat : x < y => <<x, y>> \in OpToRel(<, Nat)
      BY DEF OpToRel
    <2> QED
      BY <2>1, NatLessThanWellFounded
  <1>2. PICK x \in S : \A y \in S : ~(<<y, x>> \in R)
    <2>1. S \subseteq Nat /\ S # {} /\ IsWellFoundedOn(R, Nat)
      BY <1>1
    <2> QED
      BY <2>1, WFMin
  <1>3. \A y \in S : ~(y < x)
    BY <1>1, <1>2
  <1> QED
    BY <1>3

-----------------------------------------------------------------------------
(* What the links hold                                                       *)

K == Cardinality(Users)

Links == [head : Users \cup {NIL}, tail : Users \cup {NIL}, next : [Users -> Users \cup {NIL}]]

\* The processes 1..n |-> s, each once.
Line(n, s) ==
    /\ n \in Nat /\ s \in [1..n -> Users]
    /\ \A i, j \in 1..n : s[i] = s[j] => i = j

Members(n, s) == {s[i] : i \in 1..n}

\* The links of r lead through exactly the processes of s, in their order.
Holds(r, n, s) ==
    /\ Line(n, s)
    /\ r \in Links
    /\ n = 0 => r.head = NIL
    /\ n > 0 => r.head = s[1] /\ r.tail = s[n] /\ r.next[s[n]] = NIL
    /\ \A i \in 1..n - 1 : r.next[s[i]] = s[i + 1]

\* Processes can be counted, and a line has no more of them than there are.
LEMMA LineCounts ==
    ASSUME NEW n, NEW s, Line(n, s)
    PROVE  /\ K \in Nat /\ n <= K
           /\ IsFiniteSet(Members(n, s)) /\ Cardinality(Members(n, s)) = n
  <1> DEFINE M == Members(n, s)
  <1>1. IsFiniteSet(1..n) /\ Cardinality(1..n) = n
    <2>1. 0 \in Int /\ 1 \in Int /\ n \in Int /\ n \in Nat
      BY DEF Line
    <2>2. IsFiniteSet(1..n) /\ Cardinality(1..n) = IF 1 > n THEN 0 ELSE n - 1 + 1
      BY <2>1, FS_Interval
    <2> QED
      BY <2>1, <2>2
  <1>2. s \in Injection(1..n, Users)
    BY DEF Line, Injection, IsInjective
  <1>3. s \in Bijection(1..n, M)
    <2>1. s \in [1..n -> M] /\ \A t \in M : \E i \in 1..n : s[i] = t
      BY DEF Line, Members
    <2> HIDE DEF M
    <2> QED
      BY <1>2, <2>1 DEF Injection, Surjection, Bijection, Line
  <1>4. K \in Nat /\ n <= K
    BY <1>1, <1>2, UserAssumption, FS_Injection, FS_CardinalityType DEF K
  <1>5. IsFiniteSet(M) /\ Cardinality(M) = n
    BY <1>1, <1>3, FS_Bijection DEF ExistsBijection
  <1> QED
    BY <1>4, <1>5

\* Following the links gives the line, and then nothing.
LEMMA NthIs ==
    ASSUME NEW r, NEW n, NEW s, Holds(r, n, s)
    PROVE  Nth(r) = [i \in 1..K + 1 |-> IF i <= n THEN s[i] ELSE NIL]
  <1> DEFINE D == 1..K + 1
             Up(g, i) == IF i = 1 THEN r.head
                         ELSE IF g[i - 1] = NIL THEN NIL ELSE r.next[g[i - 1]]
             w == [i \in D |-> IF i <= n THEN s[i] ELSE NIL]
  <1>1. n \in Nat /\ K \in Nat /\ n <= K /\ s \in [1..n -> Users] /\ NIL \notin Users
    BY LineCounts, UserAssumption DEF Holds, Line
  <1>2. \A i \in D : w[i] = Up(w, i)
    <2> SUFFICES ASSUME NEW i \in D
                 PROVE  w[i] = Up(w, i)
      OBVIOUS
    <2>1. CASE i = 1
      BY <1>1, <2>1 DEF Holds
    <2>2. CASE i # 1 /\ i <= n
      <3>1. i - 1 \in D /\ i - 1 <= n /\ i - 1 \in 1..n /\ i - 1 \in 1..n - 1 /\ (i - 1) + 1 = i
        BY <1>1, <2>2
      <3>2. w[i - 1] = s[i - 1] /\ w[i] = s[i] /\ s[i - 1] # NIL
        BY <1>1, <2>2, <3>1
      <3>3. r.next[s[i - 1]] = s[i]
        BY <3>1 DEF Holds
      <3> QED
        BY <2>2, <3>2, <3>3
    <2>3. CASE i # 1 /\ i = n + 1
      <3>1. i - 1 \in D /\ i - 1 = n /\ n > 0 /\ n \in 1..n /\ ~(i <= n)
        BY <1>1, <2>3
      <3>2. w[i - 1] = s[n] /\ w[i] = NIL /\ s[n] # NIL
        BY <1>1, <3>1
      <3>3. r.next[s[n]] = NIL
        BY <3>1 DEF Holds
      <3> QED
        BY <2>3, <3>2, <3>3
    <2>4. CASE i # 1 /\ i > n + 1
      <3>1. i - 1 \in D /\ ~(i - 1 <= n) /\ ~(i <= n)
        BY <1>1, <2>4
      <3> QED
        BY <2>4, <3>1
    <2> QED
      BY <1>1, <2>1, <2>2, <2>3, <2>4
  <1>3. w = [i \in D |-> Up(w, i)]
    BY <1>2
  <1>4. Nth(r) = CHOOSE g : g = [i \in D |-> Up(g, i)]
    BY DEF Nth, K
  <1>5. ASSUME NEW g, g = [i \in D |-> Up(g, i)]
        PROVE  g = w
    <2> DEFINE Bad == {i \in D : g[i] # w[i]}
    <2>1. \A i \in D : g[i] = Up(g, i)
      BY <1>5
    <2>2. Bad = {}
      <3> SUFFICES ASSUME Bad # {}
                   PROVE  FALSE
        OBVIOUS
      <3>1. Bad \subseteq Nat
        BY <1>1
      <3>2. PICK m \in Bad : \A k \in Bad : m <= k
        <4> HIDE DEF Bad
        <4> QED
          BY <3>1, LeastOfNat
      <3>3. m \in D /\ g[m] # w[m]
        OBVIOUS
      <3>4. m # 1
        BY <1>2, <2>1, <3>3
      <3>5. m - 1 \in D /\ ~(m <= m - 1)
        BY <1>1, <3>3, <3>4
      <3>6. g[m - 1] = w[m - 1]
        BY <3>2, <3>5
      <3> QED
        BY <1>2, <2>1, <3>3, <3>6
    <2>3. \A i \in D : g[i] = w[i]
      BY <2>2
    <2>4. g = [i \in D |-> g[i]]
      BY <1>5
    <2> HIDE DEF D
    <2> QED
      BY <2>3, <2>4
  <1> HIDE DEF Up, w, D
  <1>6. Nth(r) = w
    BY <1>3, <1>4, <1>5
  <1> QED
    BY <1>6 DEF w, D

\* Order, InQueue and Place are those of the line.
LEMMA OrderIs ==
    ASSUME NEW r, NEW n, NEW s, Holds(r, n, s)
    PROVE  /\ Order(r) = s
           /\ InQueue(r) = Members(n, s)
           /\ \A i \in 1..n : Place(r, s[i]) = i
  <1> DEFINE w == [i \in 1..K + 1 |-> IF i <= n THEN s[i] ELSE NIL]
  <1>1. n \in Nat /\ K \in Nat /\ n <= K /\ s \in [1..n -> Users] /\ NIL \notin Users
    BY LineCounts, UserAssumption DEF Holds, Line
  <1>2. Nth(r) = w
    BY NthIs
  <1>3. /\ DOMAIN w = 1..K + 1
        /\ \A i \in 1..K + 1 : w[i] = IF i <= n THEN s[i] ELSE NIL
        /\ \A i \in 1..n : i \in 1..K + 1 /\ w[i] = s[i] /\ s[i] # NIL
    BY <1>1
  <1> HIDE DEF w
  <1>4. {i \in DOMAIN w : w[i] # NIL} = 1..n
    BY <1>1, <1>3
  <1>5. Order(r) = s
    <2>1. Cardinality(1..n) = n
      <3>1. 1 \in Int /\ n \in Int
        BY <1>1
      <3>2. Cardinality(1..n) = IF 1 > n THEN 0 ELSE n - 1 + 1
        BY <3>1, FS_Interval
      <3> QED
        BY <1>1, <3>2
    <2>2. Order(r) = SubSeq(w, 1, n)
      BY <1>2, <1>4, <2>1 DEF Order
    <2>3. SubSeq(w, 1, n) = [i \in 1..n |-> w[i]]
      <3>1. w \in Seq(Users \cup {NIL}) /\ Len(w) = K + 1
        <4>1. w \in [1..K + 1 -> Users \cup {NIL}]
          BY <1>1 DEF w
        <4>2. K + 1 \in Nat
          BY <1>1
        <4> QED
          BY <4>1, <4>2
      <3>2. 1 \in 1..Len(w) + 1 /\ n \in 0..Len(w)
        BY <1>1, <3>1
      <3>3. /\ SubSeq(w, 1, n) \in Seq(Users \cup {NIL})
            /\ Len(SubSeq(w, 1, n)) = (IF 1 <= n THEN n - 1 + 1 ELSE 0)
            /\ \A i \in 1..n - 1 + 1 : SubSeq(w, 1, n)[i] = w[1 + i - 1]
        BY <3>1, <3>2, SubSeqProperties
      <3>4. /\ Len(SubSeq(w, 1, n)) = n
            /\ \A i \in 1..n : SubSeq(w, 1, n)[i] = w[i]
        BY <1>1, <3>3
      <3> DEFINE z == SubSeq(w, 1, n)
      <3> HIDE DEF z
      <3>5. z \in Seq(Users \cup {NIL}) /\ Len(z) = n /\ \A i \in 1..n : z[i] = w[i]
        BY <3>3, <3>4 DEF z
      <3>6. z = [i \in 1..n |-> w[i]]
        BY <3>5
      <3> QED
        BY <3>6 DEF z
    <2>4. s = [i \in 1..n |-> w[i]]
      BY <1>1, <1>3
    <2> QED
      BY <2>2, <2>3, <2>4
  <1>6. InQueue(r) = Members(n, s)
    <2>1. \A u \in Users : (\E i \in DOMAIN w : w[i] = u) <=> \E i \in 1..n : s[i] = u
      BY <1>1, <1>3
    <2> QED
      BY <1>1, <1>2, <2>1 DEF InQueue, Members
  <1>7. ASSUME NEW i \in 1..n
        PROVE  Place(r, s[i]) = i
    <2>1. i \in DOMAIN w /\ w[i] = s[i]
      BY <1>3
    <2>2. \A j \in DOMAIN w : w[j] = s[i] => j = i
      BY <1>1, <1>3 DEF Holds, Line
    <2>3. Place(r, s[i]) = CHOOSE j \in DOMAIN w : w[j] = s[i]
      BY <1>2 DEF Place
    <2> QED
      BY <2>1, <2>2, <2>3
  <1> QED
    BY <1>5, <1>6, <1>7

-----------------------------------------------------------------------------
(* What the operations do to the line                                        *)

\* ready(): in front of the others.
LEMMA readyHolds ==
    ASSUME NEW r, NEW n, NEW s, Holds(r, n, s), NEW u \in Users, u \notin Members(n, s),
           NEW t, t = [i \in 1..n + 1 |-> IF i = 1 THEN u ELSE s[i - 1]]
    PROVE  /\ Holds(ready(r, u), n + 1, t)
           /\ Members(n + 1, t) = Members(n, s) \cup {u}
  <1>1. /\ n \in Nat /\ n + 1 \in Nat /\ s \in [1..n -> Users] /\ NIL \notin Users
        /\ \A i, j \in 1..n : s[i] = s[j] => i = j
        /\ r \in Links
    BY UserAssumption DEF Holds, Line
  <1>2. \A i \in 1..n : s[i] # u
    BY DEF Members
  <1>3. /\ \A i \in 1..n + 1 : i = 1 \/ (i - 1 \in 1..n /\ (i - 1) + 1 = i)
        /\ \A i \in 1..n : i + 1 \in 1..n + 1 /\ i + 1 # 1 /\ (i + 1) - 1 = i
        /\ 1 \in 1..n + 1
    BY <1>1
  <1>4. /\ t \in [1..n + 1 -> Users] /\ t[1] = u
        /\ \A i \in 1..n : t[i + 1] = s[i]
    BY <1>1, <1>3
  <1>5. \A i, j \in 1..n + 1 : t[i] = t[j] => i = j
    BY <1>1, <1>2, <1>3, <1>4
  <1>6. Members(n + 1, t) = Members(n, s) \cup {u}
    BY <1>3, <1>4 DEF Members
  <1> DEFINE x == ready(r, u)
  <1>7. /\ x \in Links /\ x.head = u
        /\ x.tail = IF r.head = NIL THEN u ELSE r.tail
        /\ x.next[u] = r.head
        /\ \A v \in Users : v # u => x.next[v] = r.next[v]
    BY <1>1 DEF ready, Links
  <1> HIDE DEF x
  <1>8. x.tail = t[n + 1] /\ x.next[t[n + 1]] = NIL
    <2>1. CASE n = 0
      BY <1>4, <1>7, <2>1 DEF Holds
    <2>2. CASE n > 0
      <3>1. n \in 1..n /\ 1 \in 1..n
        BY <1>1, <2>2
      <3>2. r.head = s[1] /\ r.tail = s[n] /\ r.next[s[n]] = NIL /\ s[n] \in Users /\ s[n] # u
            /\ s[1] # NIL
        BY <1>1, <1>2, <2>2, <3>1 DEF Holds
      <3>3. t[n + 1] = s[n]
        BY <1>4, <3>1
      <3> QED
        BY <1>7, <3>2, <3>3
    <2> QED
      BY <1>1, <2>1, <2>2
  <1>9. ASSUME NEW i \in 1..(n + 1) - 1
        PROVE  x.next[t[i]] = t[i + 1]
    <2>1. i \in 1..n
      BY <1>1
    <2>2. CASE i = 1
      <3>1. r.head = s[1] /\ t[1 + 1] = s[1]
        BY <1>1, <1>4, <2>1, <2>2 DEF Holds
      <3> QED
        BY <1>4, <1>7, <2>2, <3>1
    <2>3. CASE i # 1
      <3>1. i - 1 \in 1..n - 1 /\ i - 1 \in 1..n /\ (i - 1) + 1 = i
        BY <1>1, <2>1, <2>3
      <3>2. t[i] = s[i - 1] /\ s[i - 1] \in Users /\ s[i - 1] # u /\ t[i + 1] = s[i]
        BY <1>1, <1>2, <1>4, <2>1, <3>1
      <3>3. r.next[s[i - 1]] = s[i]
        BY <3>1 DEF Holds
      <3> QED
        BY <1>7, <3>2, <3>3
    <2> QED
      BY <2>2, <2>3
  <1>10. Holds(x, n + 1, t)
    <2>1. Line(n + 1, t)
      BY <1>1, <1>4, <1>5 DEF Line
    <2>2. n + 1 # 0 /\ x.head = t[1]
      BY <1>1, <1>4, <1>7
    <2> QED
      BY <1>7, <1>8, <1>9, <2>1, <2>2 DEF Holds
  <1> QED
    BY <1>6, <1>10 DEF x

\* unready(): out of its place, wherever that is.
LEMMA unreadyHolds ==
    ASSUME NEW r, NEW n, NEW s, Holds(r, n, s), NEW k \in 1..n,
           NEW t, t = [i \in 1..n - 1 |-> IF i < k THEN s[i] ELSE s[i + 1]]
    PROVE  /\ Holds(unready(r, s[k]), n - 1, t)
           /\ Members(n - 1, t) = Members(n, s) \ {s[k]}
  <1> DEFINE u == s[k]
             x == unready(r, u)
  <1>1. /\ n \in Nat /\ n > 0 /\ n - 1 \in Nat /\ s \in [1..n -> Users] /\ NIL \notin Users
        /\ \A i, j \in 1..n : s[i] = s[j] => i = j
        /\ r \in Links /\ u \in Users
        /\ r.head = s[1] /\ r.tail = s[n] /\ r.next[s[n]] = NIL
        /\ \A i \in 1..n - 1 : r.next[s[i]] = s[i + 1]
    BY UserAssumption DEF Holds, Line
  <1>2. /\ \A i \in 1..n - 1 : i \in 1..n /\ i + 1 \in 1..n
        /\ \A i \in 1..n : i # k => (i < k /\ i \in 1..n - 1)
                                    \/ (i - 1 \in 1..n - 1 /\ ~(i - 1 < k) /\ (i - 1) + 1 = i)
    BY <1>1
  <1>3. t \in [1..n - 1 -> Users]
        /\ \A i \in 1..n - 1 : t[i] = IF i < k THEN s[i] ELSE s[i + 1]
    BY <1>1, <1>2
  <1>4. \A i, j \in 1..n - 1 : t[i] = t[j] => i = j
    <2> SUFFICES ASSUME NEW i \in 1..n - 1, NEW j \in 1..n - 1, t[i] = t[j]
                 PROVE  i = j
      OBVIOUS
    <2>1. i \in 1..n /\ i + 1 \in 1..n /\ j \in 1..n /\ j + 1 \in 1..n
      BY <1>2
    <2>2. (IF i < k THEN i ELSE i + 1) = (IF j < k THEN j ELSE j + 1)
      BY <1>1, <1>3, <2>1
    <2> QED
      BY <2>1, <2>2
  <1>5. Members(n - 1, t) = Members(n, s) \ {u}
    <2>1. ASSUME NEW v, v \in Members(n - 1, t)
          PROVE  v \in Members(n, s) \ {u}
      <3>1. PICK i \in 1..n - 1 : t[i] = v
        BY <2>1 DEF Members
      <3>2. i \in 1..n /\ i + 1 \in 1..n /\ t[i] = IF i < k THEN s[i] ELSE s[i + 1]
        BY <1>2, <1>3
      <3>3. (i < k => i # k) /\ (~(i < k) => i + 1 # k)
        BY <3>2
      <3> QED
        BY <1>1, <3>1, <3>2, <3>3 DEF Members
    <2>2. ASSUME NEW v, v \in Members(n, s) \ {u}
          PROVE  v \in Members(n - 1, t)
      <3>1. PICK i \in 1..n : s[i] = v /\ i # k
        BY <2>2 DEF Members
      <3>2. CASE i < k /\ i \in 1..n - 1
        <4>1. t[i] = v
          BY <1>3, <3>1, <3>2
        <4> QED
          BY <3>2, <4>1 DEF Members
      <3>3. CASE i - 1 \in 1..n - 1 /\ ~(i - 1 < k) /\ (i - 1) + 1 = i
        <4>1. t[i - 1] = v
          BY <1>3, <3>1, <3>3
        <4> QED
          BY <3>3, <4>1 DEF Members
      <3> QED
        BY <1>2, <3>1, <3>2, <3>3
    <2> QED
      BY <2>1, <2>2
  <1>6. CASE k = 1
    <2>1. x = [r EXCEPT !.head = r.next[s[1]]]
      BY <1>1, <1>6 DEF unready
    <2>2. r.next[s[1]] \in Users \cup {NIL}
      BY <1>1, <1>6 DEF Links
    <2>3. x \in Links /\ x.head = r.next[s[1]] /\ x.tail = r.tail /\ x.next = r.next
      BY <1>1, <2>1, <2>2 DEF Links
    <2>4. \A i \in 1..n - 1 : t[i] = s[i + 1]
      BY <1>3, <1>6
    <2> HIDE DEF x
    <2>5. n - 1 = 0 => x.head = NIL
      BY <1>1, <2>3
    <2>6. n - 1 > 0 => x.head = t[1] /\ x.tail = t[n - 1] /\ x.next[t[n - 1]] = NIL
      <3> SUFFICES ASSUME n - 1 > 0
                   PROVE  x.head = t[1] /\ x.tail = t[n - 1] /\ x.next[t[n - 1]] = NIL
        OBVIOUS
      <3>1. 1 \in 1..n - 1 /\ n - 1 \in 1..n - 1 /\ (n - 1) + 1 = n
        BY <1>1
      <3>2. t[1] = s[1 + 1] /\ t[n - 1] = s[n] /\ r.next[s[1]] = s[1 + 1]
        BY <1>1, <2>4, <3>1
      <3> QED
        BY <1>1, <2>3, <3>2
    <2>7. ASSUME NEW i \in 1..(n - 1) - 1
          PROVE  x.next[t[i]] = t[i + 1]
      <3>1. i \in 1..n - 1 /\ i + 1 \in 1..n - 1
        BY <1>1
      <3>2. r.next[s[i + 1]] = s[(i + 1) + 1]
        BY <1>1, <3>1
      <3> QED
        BY <2>3, <2>4, <3>1, <3>2
    <2>8. Holds(x, n - 1, t)
      BY <1>1, <1>3, <1>4, <2>3, <2>5, <2>6, <2>7 DEF Holds, Line
    <2> QED
      BY <1>5, <2>8 DEF x, u
  <1>7. CASE k # 1
    <2> DEFINE p == s[k - 1]
    <2>1. /\ k - 1 \in 1..n /\ k - 1 \in 1..n - 1 /\ (k - 1) + 1 = k /\ k \in 1..n
          /\ k - 1 < k /\ n - 1 > 0 /\ 1 \in 1..n /\ n \in 1..n
      BY <1>1, <1>7
    <2>2. p \in Users /\ r.next[p] = u /\ p # u /\ r.head # u
      BY <1>1, <1>7, <2>1
    <2>3. InQueue(r) = Members(n, s) /\ p \in InQueue(r)
      BY <2>1, OrderIs DEF Members
    <2>4. \A v \in InQueue(r) : r.next[v] = u => v = p
      <3> SUFFICES ASSUME NEW i \in 1..n, r.next[s[i]] = u
                   PROVE  s[i] = p
        BY <2>3 DEF Members
      <3>1. i # n
        BY <1>1
      <3>2. i \in 1..n - 1 /\ i + 1 \in 1..n
        BY <1>1, <3>1
      <3>3. s[i + 1] = s[k]
        BY <1>1, <3>2
      <3>4. i + 1 = k
        BY <1>1, <2>1, <3>2, <3>3
      <3> QED
        BY <3>2, <3>4
    <2> HIDE DEF p, u
    <2>5. (CHOOSE v \in InQueue(r) : r.next[v] = u) = p
      BY <2>2, <2>3, <2>4
    <2>6. x = [r EXCEPT !.next[p] = r.next[u], !.tail = IF r.tail = u THEN p ELSE r.tail]
      BY <2>2, <2>3, <2>5 DEF unready
    <2>7. r.next[u] \in Users \cup {NIL} /\ r.tail \in Users \cup {NIL}
      BY <1>1 DEF Links
    <2>8. /\ x \in Links /\ x.head = r.head
          /\ x.tail = IF r.tail = u THEN p ELSE r.tail
          /\ x.next = [r.next EXCEPT ![p] = r.next[u]]
      <3> DEFINE h == r.next[u]
                 e == IF r.tail = u THEN p ELSE r.tail
      <3>1. h \in Users \cup {NIL} /\ e \in Users \cup {NIL}
        BY <2>2, <2>7
      <3> HIDE DEF h, e, x
      <3>2. x = [r EXCEPT !.next[p] = h, !.tail = e]
        BY <2>6 DEF h, e
      <3>3. x \in Links /\ x.head = r.head /\ x.tail = e /\ x.next = [r.next EXCEPT ![p] = h]
        BY <1>1, <2>2, <3>1, <3>2 DEF Links
      <3> QED
        BY <3>3 DEF h, e
    <2>9. x.next[p] = r.next[u] /\ \A v \in Users : v # p => x.next[v] = r.next[v]
      BY <1>1, <2>2, <2>8 DEF Links
    <2> HIDE DEF x
    <2>10. t[1] = s[1] /\ t[k - 1] = p
      BY <1>3, <1>7, <2>1 DEF p
    <2>11. \A i \in 1..n : i # k - 1 => s[i] # p
      BY <1>1, <2>1 DEF p
    <2>12. x.tail = t[n - 1] /\ x.next[t[n - 1]] = NIL
      <3>1. CASE k = n
        <4>1. t[n - 1] = p /\ r.tail = u /\ r.next[u] = NIL
          BY <1>1, <2>10, <3>1 DEF u
        <4> QED
          BY <2>8, <2>9, <4>1
      <3>2. CASE k # n
        <4>1. n - 1 \in 1..n - 1 /\ ~(n - 1 < k) /\ (n - 1) + 1 = n /\ n # k - 1
          BY <1>1, <2>1, <3>2
        <4>2. t[n - 1] = s[n] /\ s[n] # p /\ s[n] \in Users
          BY <1>1, <1>3, <2>1, <2>11, <4>1
        <4>3. r.tail # u
          BY <1>1, <2>1, <3>2 DEF u
        <4> QED
          BY <1>1, <2>8, <2>9, <4>2, <4>3
      <3> QED
        BY <3>1, <3>2
    <2>13. ASSUME NEW i \in 1..(n - 1) - 1
           PROVE  x.next[t[i]] = t[i + 1]
      <3>1. i \in 1..n - 1 /\ i + 1 \in 1..n - 1 /\ i \in 1..n /\ i + 1 \in 1..n
        BY <1>1
      <3>2. CASE i = k - 1
        <4>1. t[i] = p /\ ~(i + 1 < k) /\ i + 1 = k
          BY <2>1, <2>10, <3>2
        <4>2. t[i + 1] = s[k + 1] /\ r.next[s[k]] = s[k + 1]
          BY <1>1, <1>3, <3>1, <4>1
        <4> QED
          BY <2>9, <4>1, <4>2 DEF u
      <3>3. CASE i < k - 1
        <4>1. i < k /\ i + 1 < k /\ i # k - 1
          BY <2>1, <3>1, <3>3
        <4>2. t[i] = s[i] /\ t[i + 1] = s[i + 1] /\ s[i] # p /\ s[i] \in Users
          BY <1>1, <1>3, <2>11, <3>1, <4>1
        <4>3. r.next[s[i]] = s[i + 1]
          BY <1>1, <3>1
        <4> QED
          BY <2>9, <4>2, <4>3
      <3>4. CASE i > k - 1
        <4>1. ~(i < k) /\ ~(i + 1 < k) /\ i + 1 # k - 1
          BY <2>1, <3>1, <3>4
        <4>2. t[i] = s[i + 1] /\ t[i + 1] = s[(i + 1) + 1] /\ s[i + 1] # p /\ s[i + 1] \in Users
          BY <1>1, <1>3, <2>11, <3>1, <4>1
        <4>3. r.next[s[i + 1]] = s[(i + 1) + 1]
          BY <1>1, <3>1
        <4> QED
          BY <2>9, <4>2, <4>3
      <3> QED
        BY <2>1, <3>1, <3>2, <3>3, <3>4
    <2>14. Holds(x, n - 1, t)
      <3>1. x.head = t[1]
        BY <1>1, <2>8, <2>10
      <3>2. Line(n - 1, t)
        BY <1>1, <1>3, <1>4 DEF Line
      <3>3. n - 1 # 0
        BY <2>1
      <3> QED
        BY <2>8, <2>12, <2>13, <3>1, <3>2, <3>3 DEF Holds
    <2> QED
      BY <1>5, <2>14 DEF x, u
  <1> QED
    BY <1>6, <1>7

\* A line with its first process put at the end.
Rotated(n, s) == [i \in 1..n |-> IF i < n THEN s[i + 1] ELSE s[1]]

\* A line with its m-th process put in front.
Moved(n, s, m) == [i \in 1..n |-> IF i = 1 THEN s[m] ELSE IF i <= m THEN s[i - 1] ELSE s[i]]

\* A line put at the end is a line of the same processes.
LEMMA RotatedLine ==
    ASSUME NEW n, NEW s, Line(n, s), n > 0
    PROVE  /\ Line(n, Rotated(n, s))
           /\ Members(n, Rotated(n, s)) = Members(n, s)
           /\ Rotated(n, s)[n] = s[1]
           /\ \A i \in 1..n - 1 : Rotated(n, s)[i] = s[i + 1]
  <1> DEFINE t == Rotated(n, s)
  <1>1. /\ n \in Nat /\ s \in [1..n -> Users] /\ 1 \in 1..n /\ n \in 1..n
        /\ \A i, j \in 1..n : s[i] = s[j] => i = j
    BY DEF Line
  <1>2. \A i \in 1..n : i < n => i + 1 \in 1..n
    BY <1>1
  <1>3. /\ t \in [1..n -> Users]
        /\ \A i \in 1..n : t[i] = IF i < n THEN s[i + 1] ELSE s[1]
    BY <1>1, <1>2 DEF Rotated
  <1> HIDE DEF t
  <1>4. \A i, j \in 1..n : t[i] = t[j] => i = j
    <2> SUFFICES ASSUME NEW i \in 1..n, NEW j \in 1..n, t[i] = t[j]
                 PROVE  i = j
      OBVIOUS
    <2>1. (IF i < n THEN i + 1 ELSE 1) = (IF j < n THEN j + 1 ELSE 1)
      BY <1>1, <1>2, <1>3
    <2> QED
      BY <1>1, <2>1
  <1>5. Members(n, t) = Members(n, s)
    <2>1. \A i \in 1..n : \E j \in 1..n : t[i] = s[j]
      BY <1>1, <1>2, <1>3
    <2>2. \A j \in 1..n : \E i \in 1..n : t[i] = s[j]
      <3> SUFFICES ASSUME NEW j \in 1..n
                   PROVE  \E i \in 1..n : t[i] = s[j]
        OBVIOUS
      <3>1. CASE j = 1
        BY <1>1, <1>3, <3>1
      <3>2. CASE j # 1
        <4>1. j - 1 \in 1..n /\ j - 1 < n /\ (j - 1) + 1 = j
          BY <1>1, <3>2
        <4> QED
          BY <1>3, <4>1
      <3> QED
        BY <3>1, <3>2
    <2> QED
      BY <2>1, <2>2 DEF Members
  <1>6. \A i \in 1..n - 1 : i \in 1..n /\ i < n
    BY <1>1
  <1> QED
    BY <1>1, <1>3, <1>4, <1>5, <1>6 DEF t, Line

\* And so is one of which a process was put in front.
LEMMA MovedLine ==
    ASSUME NEW n, NEW s, Line(n, s), NEW m \in 1..n
    PROVE  /\ Line(n, Moved(n, s, m))
           /\ Members(n, Moved(n, s, m)) = Members(n, s)
           /\ \A i \in 1..n : Moved(n, s, m)[i] = IF i = 1 THEN s[m]
                                                  ELSE IF i <= m THEN s[i - 1] ELSE s[i]
  <1> DEFINE t == Moved(n, s, m)
  <1>1. /\ n \in Nat /\ s \in [1..n -> Users] /\ 1 \in 1..n
        /\ \A i, j \in 1..n : s[i] = s[j] => i = j
    BY DEF Line
  <1>2. \A i \in 1..n : i # 1 => i - 1 \in 1..n
    BY <1>1
  <1>3. /\ t \in [1..n -> Users]
        /\ \A i \in 1..n : t[i] = IF i = 1 THEN s[m] ELSE IF i <= m THEN s[i - 1] ELSE s[i]
    BY <1>1, <1>2 DEF Moved
  <1> HIDE DEF t
  <1>4. \A i, j \in 1..n : t[i] = t[j] => i = j
    <2> SUFFICES ASSUME NEW i \in 1..n, NEW j \in 1..n, t[i] = t[j]
                 PROVE  i = j
      OBVIOUS
    <2>1. (IF i = 1 THEN m ELSE IF i <= m THEN i - 1 ELSE i)
              = (IF j = 1 THEN m ELSE IF j <= m THEN j - 1 ELSE j)
      BY <1>1, <1>2, <1>3
    <2> QED
      BY <1>1, <2>1
  <1>5. Members(n, t) = Members(n, s)
    <2>1. \A i \in 1..n : \E j \in 1..n : t[i] = s[j]
      BY <1>1, <1>2, <1>3
    <2>2. \A j \in 1..n : \E i \in 1..n : t[i] = s[j]
      <3> SUFFICES ASSUME NEW j \in 1..n
                   PROVE  \E i \in 1..n : t[i] = s[j]
        OBVIOUS
      <3>1. CASE j = m
        BY <1>1, <1>3, <3>1
      <3>2. CASE j < m
        <4>1. j + 1 \in 1..n /\ j + 1 # 1 /\ j + 1 <= m /\ (j + 1) - 1 = j
          BY <1>1, <3>2
        <4> QED
          BY <1>3, <4>1
      <3>3. CASE j > m
        <4>1. j # 1 /\ ~(j <= m)
          BY <1>1, <3>3
        <4> QED
          BY <1>3, <4>1
      <3> QED
        BY <1>1, <3>1, <3>2, <3>3
    <2> QED
      BY <2>1, <2>2 DEF Members
  <1> QED
    BY <1>1, <1>3, <1>4, <1>5 DEF t, Line

\* sched() puts the head at the end.
LEMMA RotateHolds ==
    ASSUME NEW r, NEW n, NEW s, Holds(r, n, s), n > 0
    PROVE  Holds(Rotate(r), n, Rotated(n, s))
  <1> DEFINE x == Rotate(r)
             t == Rotated(n, s)
             a == s[1]
             z == s[n]
  <1>1. /\ n \in Nat /\ s \in [1..n -> Users] /\ NIL \notin Users
        /\ \A i, j \in 1..n : s[i] = s[j] => i = j
        /\ r \in Links /\ 1 \in 1..n /\ n \in 1..n /\ a \in Users /\ z \in Users
        /\ r.head = a /\ r.tail = z /\ r.next[z] = NIL
        /\ \A i \in 1..n - 1 : r.next[s[i]] = s[i + 1]
    BY UserAssumption DEF Holds, Line
  <1>2. /\ Line(n, t) /\ t[n] = a /\ \A i \in 1..n - 1 : t[i] = s[i + 1]
    BY RotatedLine DEF Holds
  <1> HIDE DEF t
  <1>3. a = z <=> n = 1
    BY <1>1
  <1>4. \A i \in 2..n : i \in 1..n /\ s[i] # a
    BY <1>1
  <1>5. \A i \in 1..n - 1 : i \in 1..n /\ s[i] # z
    BY <1>1
  <1> HIDE DEF a, z
  <1> DEFINE next == [r.next EXCEPT ![z] = a]
  <1>6. next \in [Users -> Users \cup {NIL}] /\ next[z] = a
        /\ \A v \in Users : v # z => next[v] = r.next[v]
    BY <1>1 DEF Links
  <1>7. x = [head |-> next[a], tail |-> a, next |-> [next EXCEPT ![a] = NIL]]
    BY <1>1 DEF Rotate
  <1> HIDE DEF next
  <1>8. /\ x \in Links /\ x.head = next[a] /\ x.tail = a /\ x.next[a] = NIL
        /\ \A v \in Users : v # a => x.next[v] = next[v]
    BY <1>1, <1>6, <1>7 DEF Links
  <1> HIDE DEF x
  <1>9. x.head = t[1]
    <2>1. CASE n = 1
      BY <1>2, <1>3, <1>6, <1>8, <2>1
    <2>2. CASE n # 1
      <3>1. 1 \in 1..n - 1 /\ a # z
        BY <1>1, <1>3, <2>2
      <3>2. r.next[s[1]] = s[1 + 1] /\ t[1] = s[1 + 1]
        BY <1>1, <1>2, <3>1
      <3> QED
        BY <1>1, <1>6, <1>8, <3>1, <3>2 DEF a
    <2> QED
      BY <2>1, <2>2
  <1>10. ASSUME NEW i \in 1..n - 1
         PROVE  x.next[t[i]] = t[i + 1]
    <2>1. i + 1 \in 2..n /\ i + 1 \in 1..n /\ t[i] = s[i + 1] /\ s[i + 1] \in Users /\ s[i + 1] # a
      BY <1>1, <1>2, <1>4
    <2>2. CASE i + 1 = n
      <3>1. x.next[z] = a
        BY <1>1, <1>6, <1>8, <2>1, <2>2 DEF z
      <3> QED
        BY <1>2, <2>1, <2>2, <3>1 DEF z
    <2>3. CASE i + 1 # n
      <3>1. i + 1 \in 1..n - 1
        BY <1>1, <2>1, <2>3
      <3>2. r.next[s[i + 1]] = s[(i + 1) + 1] /\ t[i + 1] = s[(i + 1) + 1] /\ s[i + 1] # z
        BY <1>1, <1>2, <1>5, <3>1
      <3> QED
        BY <1>6, <1>8, <2>1, <3>2
    <2> QED
      BY <2>2, <2>3
  <1>11. Holds(x, n, t)
    BY <1>2, <1>8, <1>9, <1>10 DEF Holds
  <1> QED
    BY <1>11 DEF x, t

\* The first process of group g comes to the front.
LEMMA BringHolds ==
    ASSUME NEW r, NEW n, NEW s, Holds(r, n, s), NEW grp, NEW g,
           NEW m \in 1..n, grp[s[m]] = g, \A j \in 1..n : j < m => grp[s[j]] # g
    PROVE  Holds(Bring(r, grp, g), n, Moved(n, s, m))
  <1> DEFINE x == Bring(r, grp, g)
             t == Moved(n, s, m)
  <1>1. /\ n \in Nat /\ n > 0 /\ s \in [1..n -> Users] /\ NIL \notin Users
        /\ \A i, j \in 1..n : s[i] = s[j] => i = j
        /\ r \in Links /\ 1 \in 1..n /\ n \in 1..n
        /\ r.head = s[1] /\ r.tail = s[n] /\ r.next[s[n]] = NIL
        /\ \A i \in 1..n - 1 : r.next[s[i]] = s[i + 1]
    BY UserAssumption DEF Holds, Line
  <1>2. /\ Line(n, t)
        /\ \A i \in 1..n : t[i] = IF i = 1 THEN s[m] ELSE IF i <= m THEN s[i - 1] ELSE s[i]
    BY MovedLine DEF Holds
  <1> HIDE DEF t
  <1>3. CASE m = 1
    <2>1. x = r
      BY <1>1, <1>3 DEF Bring
    <2>2. t = s
      <3>1. \A i \in 1..n : t[i] = s[i]
        BY <1>1, <1>2, <1>3
      <3>2. t \in [1..n -> Users]
        BY <1>2 DEF Line
      <3> QED
        BY <1>1, <3>1, <3>2
    <2> QED
      BY <2>1, <2>2 DEF t
  <1>4. CASE m # 1
    <2> DEFINE before == {v \in InQueue(r) : r.next[v] # NIL /\ grp[r.next[v]] = g}
               p == s[m - 1]
               u == s[m]
               prev == CHOOSE v \in before : \A y \in before : Place(r, v) <= Place(r, y)
    <2>1. /\ m - 1 \in 1..n /\ m - 1 \in 1..n - 1 /\ (m - 1) + 1 = m /\ m - 1 < m
          /\ n # 1 /\ 1 < m
      BY <1>1, <1>4
    <2>2. p \in Users /\ u \in Users /\ p # u /\ r.next[p] = u
      BY <1>1, <1>4, <2>1
    <2>3. InQueue(r) = Members(n, s) /\ \A i \in 1..n : Place(r, s[i]) = i
      BY OrderIs
    <2>4. p \in before /\ Place(r, p) = m - 1
      BY <1>1, <2>1, <2>2, <2>3 DEF Members
    <2>5. \A y \in before : \E i \in 1..n : y = s[i] /\ Place(r, y) = i /\ m - 1 <= i
      <3> SUFFICES ASSUME NEW i \in 1..n, r.next[s[i]] # NIL, grp[r.next[s[i]]] = g
                   PROVE  m - 1 <= i
        BY <2>3 DEF Members
      <3>1. i # n
        BY <1>1
      <3>2. i \in 1..n - 1 /\ i + 1 \in 1..n
        BY <1>1, <3>1
      <3>3. grp[s[i + 1]] = g
        BY <1>1, <3>2
      <3>4. ~(i + 1 < m)
        BY <3>2, <3>3
      <3> QED
        BY <1>1, <3>4
    <2> HIDE DEF before, p
    <2>6. prev = p
      <3>1. \A y \in before : Place(r, p) <= Place(r, y)
        BY <2>1, <2>4, <2>5
      <3>2. ASSUME NEW v \in before, \A y \in before : Place(r, v) <= Place(r, y)
            PROVE  v = p
        <4>1. PICK i \in 1..n : v = s[i] /\ Place(r, v) = i /\ m - 1 <= i
          BY <2>5
        <4>2. i <= m - 1
          BY <2>4, <3>2, <4>1
        <4>3. i = m - 1
          BY <2>1, <4>1, <4>2
        <4> QED
          BY <4>1, <4>3 DEF p
      <3> QED
        BY <2>4, <3>1, <3>2
    <2>7. grp[r.head] # g /\ before # {}
      BY <1>1, <2>1, <2>4
    <2>8. x = BringNext(r, prev)
      BY <2>7 DEF Bring, Before, before
    <2> HIDE DEF prev, u
    <2>9. x = [head |-> u, tail |-> IF r.tail = u THEN p ELSE r.tail,
               next |-> [r.next EXCEPT ![p] = r.next[u], ![u] = r.head]]
      BY <2>2, <2>6, <2>8 DEF BringNext
    <2>10. /\ r.next \in [Users -> Users \cup {NIL}] /\ r.next[u] \in Users \cup {NIL}
           /\ r.head \in Users \cup {NIL} /\ r.tail \in Users \cup {NIL}
      BY <1>1, <2>2 DEF Links
    <2>11. /\ x \in Links /\ x.head = u /\ x.tail = IF r.tail = u THEN p ELSE r.tail
           /\ x.next[p] = r.next[u] /\ x.next[u] = r.head
           /\ \A v \in Users : v # p /\ v # u => x.next[v] = r.next[v]
      <3> DEFINE w == [r.next EXCEPT ![p] = r.next[u], ![u] = r.head]
      <3>1. /\ w \in [Users -> Users \cup {NIL}]
            /\ w[p] = r.next[u] /\ w[u] = r.head
            /\ \A v \in Users : v # p /\ v # u => w[v] = r.next[v]
        BY <2>2, <2>10
      <3> HIDE DEF w
      <3>2. x = [head |-> u, tail |-> IF r.tail = u THEN p ELSE r.tail, next |-> w]
        BY <2>9 DEF w
      <3> QED
        BY <2>2, <2>10, <3>1, <3>2 DEF Links
    <2> HIDE DEF x
    <2>12. \A i \in 1..n : (i # m - 1 => s[i] # p) /\ (i # m => s[i] # u) /\ s[i] \in Users
      BY <1>1, <2>1 DEF p, u
    <2>13. x.head = t[1]
      BY <1>1, <1>2, <2>11 DEF u
    <2>14. x.tail = t[n] /\ x.next[t[n]] = NIL
      <3>1. CASE m = n
        <4>1. t[n] = p /\ r.tail = u /\ r.next[u] = NIL
          BY <1>1, <1>2, <2>1, <3>1 DEF p, u
        <4> QED
          BY <2>11, <4>1
      <3>2. CASE m # n
        <4>1. n # 1 /\ ~(n <= m) /\ n # m - 1
          BY <1>1, <2>1, <3>2
        <4>2. t[n] = s[n] /\ s[n] # p /\ s[n] # u /\ s[n] \in Users
          BY <1>1, <1>2, <2>12, <3>2, <4>1
        <4> QED
          BY <1>1, <2>11, <4>2
      <3> QED
        BY <3>1, <3>2
    <2>15. ASSUME NEW i \in 1..n - 1
           PROVE  x.next[t[i]] = t[i + 1]
      <3>1. i \in 1..n /\ i + 1 \in 1..n /\ i + 1 # 1 /\ (i + 1) - 1 = i
        BY <1>1
      <3>2. CASE i = 1
        <4>1. t[i] = u /\ t[i + 1] = s[1]
          <5>1. i + 1 <= m
            BY <2>1, <3>2
          <5> QED
            BY <1>2, <3>1, <3>2, <5>1 DEF u
        <4> QED
          BY <1>1, <2>11, <4>1
      <3>3. CASE i # 1 /\ i < m
        <4>1. i - 1 \in 1..n /\ i - 1 \in 1..n - 1 /\ (i - 1) + 1 = i /\ i - 1 # m - 1 /\ i - 1 # m
              /\ i <= m /\ i + 1 <= m
          BY <1>1, <3>1, <3>3
        <4>2. t[i] = s[i - 1] /\ t[i + 1] = s[i] /\ r.next[s[i - 1]] = s[i]
          BY <1>1, <1>2, <3>1, <3>3, <4>1
        <4>3. s[i - 1] # p /\ s[i - 1] # u /\ s[i - 1] \in Users
          BY <2>12, <4>1
        <4> QED
          BY <2>11, <4>2, <4>3
      <3>4. CASE i = m
        <4>1. i # 1 /\ i <= m /\ ~(i + 1 <= m)
          BY <1>4, <3>1, <3>4
        <4>2. t[i] = p /\ t[i + 1] = s[i + 1] /\ r.next[s[i]] = s[i + 1]
          BY <1>1, <1>2, <3>1, <3>4, <4>1 DEF p
        <4> QED
          BY <2>11, <3>4, <4>2 DEF u
      <3>5. CASE i > m
        <4>1. i # 1 /\ ~(i <= m) /\ ~(i + 1 <= m) /\ i # m - 1 /\ i # m
          BY <1>4, <3>1, <3>5
        <4>2. t[i] = s[i] /\ t[i + 1] = s[i + 1] /\ r.next[s[i]] = s[i + 1]
          BY <1>1, <1>2, <3>1, <4>1
        <4>3. s[i] # p /\ s[i] # u /\ s[i] \in Users
          BY <2>12, <3>1, <4>1
        <4> QED
          BY <2>11, <4>2, <4>3
      <3> QED
        BY <3>1, <3>2, <3>3, <3>4, <3>5
    <2>16. Holds(x, n, t)
      BY <1>1, <1>2, <2>11, <2>13, <2>14, <2>15 DEF Holds
    <2> QED
      BY <2>16 DEF x, t
  <1> QED
    BY <1>3, <1>4

\* Where no process is of group g the queue stays as it is.
LEMMA BringNone ==
    ASSUME NEW r, NEW n, NEW s, Holds(r, n, s), n > 0, NEW grp, NEW g,
           \A j \in 1..n : grp[s[j]] # g
    PROVE  Bring(r, grp, g) = r
  <1>1. /\ n \in Nat /\ NIL \notin Users /\ r.next[s[n]] = NIL
        /\ \A i \in 1..n - 1 : r.next[s[i]] = s[i + 1]
    BY UserAssumption DEF Holds, Line
  <1>2. InQueue(r) = Members(n, s)
    BY OrderIs
  <1>3. {v \in InQueue(r) : r.next[v] # NIL /\ grp[r.next[v]] = g} = {}
    <2> SUFFICES ASSUME NEW i \in 1..n, r.next[s[i]] # NIL, grp[r.next[s[i]]] = g
                 PROVE  FALSE
      BY <1>2 DEF Members
    <2>1. i \in 1..n - 1 /\ i + 1 \in 1..n
      BY <1>1
    <2> QED
      BY <1>1, <2>1
  <1> QED
    BY <1>3 DEF Bring, Before

-----------------------------------------------------------------------------
(* What sched() does to the line                                             *)

\* How far the group of a process is from the turn of `start`.
Distance(grp, u, start) == (grp[u] + 2 - start) % 3

\* The place of the process whose turn it is: the group next in the circle
\* after `start`, and in the group the first.
TurnOf(n, s, grp, start, m) ==
    /\ m \in 1..n
    /\ \A j \in 1..n :
           \/ Distance(grp, s[m], start) < Distance(grp, s[j], start)
           \/ Distance(grp, s[m], start) = Distance(grp, s[j], start) /\ m <= j

\* The groups by their distance.
LEMMA GroupCircle ==
    ASSUME NEW start \in Groups, NEW grp \in [Users -> Groups]
    PROVE  /\ (start + 1) % 3 \in Groups /\ (start + 2) % 3 \in Groups
           /\ (start + 1) % 3 # start /\ (start + 2) % 3 # start
           /\ (start + 1) % 3 # (start + 2) % 3
           /\ \A u \in Users :
                  /\ Distance(grp, u, start) \in 0..2
                  /\ Distance(grp, u, start) = 0 <=> grp[u] = (start + 1) % 3
                  /\ Distance(grp, u, start) = 1 <=> grp[u] = (start + 2) % 3
                  /\ Distance(grp, u, start) = 2 <=> grp[u] = start
  <1>1. start = 0 \/ start = 1 \/ start = 2
    BY DEF Groups
  <1>2. \A u \in Users : grp[u] = 0 \/ grp[u] = 1 \/ grp[u] = 2
    BY DEF Groups
  <1>3. CASE start = 0
    BY <1>2, <1>3 DEF Groups, Distance
  <1>4. CASE start = 1
    BY <1>2, <1>4 DEF Groups, Distance
  <1>5. CASE start = 2
    BY <1>2, <1>5 DEF Groups, Distance
  <1> QED
    BY <1>1, <1>3, <1>4, <1>5

\* The m-th is the first in the line for which grp says g.
First(n, s, grp, g, m) ==
    /\ m \in 1..n /\ grp[s[m]] = g
    /\ \A j \in 1..n : j < m => grp[s[j]] # g

\* If grp says g of any there is a first.
LEMMA FirstOfGroup ==
    ASSUME NEW n \in Nat, NEW s, NEW grp, NEW g, \E j \in 1..n : grp[s[j]] = g
    PROVE  \E m : First(n, s, grp, g, m)
  <1> DEFINE S == {j \in 1..n : grp[s[j]] = g}
  <1>1. S \subseteq Nat /\ S # {}
    OBVIOUS
  <1>2. PICK m \in S : \A j \in S : m <= j
    <2> HIDE DEF S
    <2> QED
      BY <1>1, LeastOfNat
  <1>3. m \in 1..n /\ grp[s[m]] = g
    OBVIOUS
  <1>4. \A j \in 1..n : j < m => grp[s[j]] # g
    BY <1>2, <1>3
  <1> QED
    BY <1>3, <1>4 DEF First

\* The loop of sched() puts the process whose turn it is in front.
LEMMA SearchHolds ==
    ASSUME NEW r, NEW n, NEW s, Holds(r, n, s), n > 0,
           NEW grp \in [Users -> Groups], NEW start \in Groups
    PROVE  \E m \in 1..n : /\ TurnOf(n, s, grp, start, m)
                           /\ Holds(Search(r, grp, start), n, Moved(n, s, m))
  <1> DEFINE g1 == (start + 1) % 3
             g2 == (start + 2) % 3
             D(j) == Distance(grp, s[j], start)
             first == Bring(r, grp, g1)
             second == IF grp[first.head] = g1 THEN first ELSE Bring(first, grp, g2)
  <1>1. /\ n \in Nat /\ 1 \in 1..n /\ s \in [1..n -> Users] /\ r.head = s[1]
    BY DEF Holds, Line
  <1>2. /\ g1 # start /\ g2 # start /\ g1 # g2
        /\ \A j \in 1..n : /\ D(j) \in 0..2
                           /\ D(j) = 0 <=> grp[s[j]] = g1
                           /\ D(j) = 1 <=> grp[s[j]] = g2
                           /\ D(j) = 2 <=> grp[s[j]] = start
    BY <1>1, GroupCircle
  <1>3. Search(r, grp, start) =
            IF grp[second.head] = g1 \/ grp[second.head] = g2 THEN second
            ELSE Bring(second, grp, start)
    BY DEF Search
  <1> HIDE DEF g1, g2, D
  <1>4. ASSUME NEW m \in 1..n, NEW x, Holds(x, n, Moved(n, s, m))
        PROVE  x.head = s[m]
    <2>1. Moved(n, s, m)[1] = s[m]
      BY <1>1, MovedLine DEF Holds
    <2> QED
      BY <1>4, <2>1 DEF Holds
  <1>5. CASE \E j \in 1..n : grp[s[j]] = g1
    <2>1. PICK m \in 1..n : grp[s[m]] = g1 /\ \A j \in 1..n : j < m => grp[s[j]] # g1
      <3>1. n \in Nat /\ \E j \in 1..n : grp[s[j]] = g1
        BY <1>1, <1>5
      <3>2. \E m : First(n, s, grp, g1, m)
        BY ONLY <3>1, FirstOfGroup
      <3> QED
        BY ONLY <3>2 DEF First
    <2>2. Holds(first, n, Moved(n, s, m))
      BY <2>1, BringHolds
    <2>3. grp[first.head] = g1
      BY <1>4, <2>1, <2>2
    <2> HIDE DEF first
    <2>4. second = first /\ Search(r, grp, start) = first
      BY <1>3, <2>3
    <2>5. TurnOf(n, s, grp, start, m)
      <3> SUFFICES ASSUME NEW j \in 1..n
                   PROVE  D(m) < D(j) \/ (D(m) = D(j) /\ m <= j)
        BY DEF TurnOf, D
      <3>1. D(m) = 0 /\ D(j) \in 0..2 /\ (D(j) = 0 => grp[s[j]] = g1)
        BY <1>2, <2>1
      <3> QED
        BY <1>1, <2>1, <3>1
    <2> QED
      BY <2>2, <2>4, <2>5
  <1>6. CASE /\ ~ \E j \in 1..n : grp[s[j]] = g1
             /\ \E j \in 1..n : grp[s[j]] = g2
    <2>1. PICK m \in 1..n : grp[s[m]] = g2 /\ \A j \in 1..n : j < m => grp[s[j]] # g2
      <3>1. n \in Nat /\ \E j \in 1..n : grp[s[j]] = g2
        BY <1>1, <1>6
      <3>2. \E m : First(n, s, grp, g2, m)
        BY ONLY <3>1, FirstOfGroup
      <3> QED
        BY ONLY <3>2 DEF First
    <2>2. first = r
      BY <1>6, BringNone
    <2>3. grp[first.head] # g1
      BY <1>1, <1>6, <2>2
    <2>4. second = Bring(r, grp, g2)
      BY <2>2, <2>3
    <2>5. Holds(second, n, Moved(n, s, m))
      BY <2>1, <2>4, BringHolds
    <2>6. grp[second.head] = g2
      BY <1>4, <2>1, <2>5
    <2> HIDE DEF first, second
    <2>7. Search(r, grp, start) = second
      BY <1>3, <2>6
    <2>8. TurnOf(n, s, grp, start, m)
      <3> SUFFICES ASSUME NEW j \in 1..n
                   PROVE  D(m) < D(j) \/ (D(m) = D(j) /\ m <= j)
        BY DEF TurnOf, D
      <3>1. D(m) = 1 /\ D(j) \in 0..2 /\ D(j) # 0 /\ (D(j) = 1 => grp[s[j]] = g2)
        BY <1>2, <1>6, <2>1
      <3> QED
        BY <1>1, <2>1, <3>1
    <2> QED
      BY <2>5, <2>7, <2>8
  <1>7. CASE /\ ~ \E j \in 1..n : grp[s[j]] = g1
             /\ ~ \E j \in 1..n : grp[s[j]] = g2
    <2>1. \A j \in 1..n : D(j) = 2 /\ grp[s[j]] = start
      BY <1>2, <1>7
    <2>2. first = r
      BY <1>7, BringNone
    <2>3. second = r
      <3>1. grp[first.head] # g1
        BY <1>1, <1>7, <2>2
      <3>2. Bring(r, grp, g2) = r
        BY <1>7, BringNone
      <3> QED
        BY <2>2, <3>1, <3>2
    <2> HIDE DEF first, second
    <2>4. Search(r, grp, start) = Bring(r, grp, start)
      BY <1>1, <1>3, <1>7, <2>3
    <2>5. grp[s[1]] = start /\ \A j \in 1..n : j < 1 => grp[s[j]] # start
      BY <1>1, <2>1
    <2>6. Holds(Bring(r, grp, start), n, Moved(n, s, 1))
      BY <1>1, <2>5, BringHolds
    <2>7. TurnOf(n, s, grp, start, 1)
      <3> SUFFICES ASSUME NEW j \in 1..n
                   PROVE  D(1) = D(j) /\ 1 <= j
        BY <1>1 DEF TurnOf, D
      <3> QED
        BY <1>1, <2>1
    <2> QED
      BY <1>1, <2>4, <2>6, <2>7
  <1> QED
    BY <1>5, <1>6, <1>7

\* sched(): the head goes to the end, and the next group has its turn.
LEMMA schedHolds ==
    ASSUME NEW r, NEW n, NEW s, Holds(r, n, s), n > 0,
           NEW grp \in [Users -> Groups]
    PROVE  \E m \in 1..n : /\ TurnOf(n, Rotated(n, s), grp, grp[s[1]], m)
                           /\ Holds(sched(r, grp), n, Moved(n, Rotated(n, s), m))
  <1>1. r.head = s[1] /\ s[1] \in Users /\ NIL \notin Users /\ grp[s[1]] \in Groups
    <2>1. r.head = s[1] /\ 1 \in 1..n /\ s \in [1..n -> Users]
      BY DEF Holds, Line
    <2> QED
      BY <2>1, UserAssumption
  <1>2. sched(r, grp) = Search(Rotate(r), grp, grp[s[1]])
    BY <1>1 DEF sched
  <1>3. Holds(Rotate(r), n, Rotated(n, s))
    BY RotateHolds
  <1> QED
    BY <1>1, <1>2, <1>3, SearchHolds

\* What InTurn makes of a line.
LEMMA InTurnIs ==
    ASSUME NEW n, NEW s, Line(n, s), n > 0, group \in [Users -> Groups],
           NEW m, TurnOf(n, Rotated(n, s), group, group[s[1]], m)
    PROVE  InTurn(s) = Moved(n, Rotated(n, s), m)
  <1> DEFINE t == Rotated(n, s)
             w == Moved(n, t, m)
             start == group[s[1]]
             D(i) == Distance(group, t[i], start)
  <1>1. /\ n \in Nat /\ s \in [1..n -> Users] /\ 1 \in 1..n /\ n \in 1..n /\ m \in 1..n
        /\ \A i \in 1..n - 1 : i + 1 \in 1..n
    BY DEF Line, TurnOf
  <1>2. /\ Line(n, t) /\ t[n] = s[1] /\ \A i \in 1..n - 1 : t[i] = s[i + 1]
    BY RotatedLine
  <1>3. /\ Line(n, w) /\ \A i \in 1..n : w[i] = IF i = 1 THEN t[m]
                                              ELSE IF i <= m THEN t[i - 1] ELSE t[i]
    <2> HIDE DEF t
    <2>1. Line(n, t) /\ m \in 1..n
      BY <1>1, <1>2
    <2> QED
      BY ONLY <2>1, MovedLine DEF w
  <1> HIDE DEF w
  <1>4. s \in Seq(Users) /\ Len(s) = n /\ s # << >>
    BY <1>1
  <1>5. Tail(s) \o <<Head(s)>> = t
    <2> DEFINE a == Tail(s)
               b == <<Head(s)>>
               c == a \o b
    <2>1. /\ a \in Seq(Users) /\ Len(a) = n - 1 /\ \A i \in 1..n - 1 : a[i] = s[i + 1]
      BY <1>1, <1>4
    <2>2. b \in Seq(Users) /\ Len(b) = 1 /\ b[1] = s[1]
      BY <1>1, <1>4
    <2> HIDE DEF a, b
    <2>3. /\ a \o b \in Seq(Users) /\ Len(a \o b) = Len(a) + Len(b)
          /\ \A i \in 1..Len(a) + Len(b) :
                 (a \o b)[i] = IF i <= Len(a) THEN a[i] ELSE b[i - Len(a)]
      BY <2>1, <2>2, ConcatProperties
    <2> HIDE DEF c, t
    <2>4. /\ c \in Seq(Users) /\ Len(c) = n
          /\ \A i \in 1..n : c[i] = IF i <= n - 1 THEN a[i] ELSE b[i - (n - 1)]
      <3>1. (n - 1) + 1 = n
        BY <1>1
      <3> QED
        BY <2>1, <2>2, <2>3, <3>1 DEF c
    <2>5. \A i \in 1..n : c[i] = t[i]
      <3> SUFFICES ASSUME NEW i \in 1..n
                   PROVE  c[i] = t[i]
        OBVIOUS
      <3>1. CASE i <= n - 1
        <4>1. i \in 1..n - 1
          BY <1>1, <3>1
        <4>2. t[i] = s[i + 1] /\ a[i] = s[i + 1]
          BY <1>2, <2>1, <4>1
        <4>3. c[i] = a[i]
          BY <2>4, <3>1
        <4> QED
          BY <4>2, <4>3
      <3>2. CASE i = n
        <4>1. ~(n <= n - 1) /\ n - (n - 1) = 1
          BY <1>1
        <4> QED
          BY <1>1, <1>2, <2>2, <2>4, <3>2, <4>1
      <3> QED
        BY <1>1, <3>1, <3>2
    <2>6. c = t
      <3>1. t \in [1..n -> Users] /\ c \in [1..n -> Users]
        BY <1>1, <1>2, <2>4 DEF Line
      <3> QED
        <4>1. c = [i \in 1..n |-> c[i]]
          BY ONLY <3>1
        <4>2. t = [i \in 1..n |-> t[i]]
          BY ONLY <3>1
        <4> QED
          BY ONLY <2>5, <4>1, <4>2
    <2> QED
      BY <2>6 DEF a, b, c
  <1>6. Head(s) = s[1]
    BY <1>4
  <1>7. DOMAIN t = 1..n
    BY <1>2 DEF Line
  <1>8. \A i \in 1..n : D(i) \in 0..2
    BY <1>1, <1>2, GroupCircle DEF Line
  <1>9. \A i \in 1..n : (group[t[i]] + 2 - group[Head(s)]) % 3 = D(i)
    BY <1>6 DEF Distance
  <1> DEFINE Turn(k) == \A j \in 1..n : D(k) < D(j) \/ (D(k) = D(j) /\ k <= j)
  <1>10. Turn(m)
    BY DEF TurnOf
  <1>11. \A k \in 1..n : Turn(k) => k = m
    <2> SUFFICES ASSUME NEW k \in 1..n, Turn(k)
                 PROVE  k = m
      OBVIOUS
    <2> HIDE DEF D
    <2>1. D(k) < D(m) \/ (D(k) = D(m) /\ k <= m)
      BY <1>1
    <2>2. D(m) < D(k) \/ (D(m) = D(k) /\ m <= k)
      BY <1>10
    <2>3. D(k) \in 0..2 /\ D(m) \in 0..2 /\ k \in Nat /\ m \in Nat
      BY <1>1, <1>8
    <2> QED
      BY <2>1, <2>2, <2>3
  <1> HIDE DEF t, D
  <1> DEFINE y == <<t[m]>> \o SubSeq(t, 1, m - 1) \o SubSeq(t, m + 1, n)
  <1>12. InTurn(s) = y
    <2> DEFINE pick == CHOOSE i \in 1..n : \A j \in 1..n : D(i) < D(j) \/ (D(i) = D(j) /\ i <= j)
    <2>1. Len(t) = n
      BY <1>1, <1>2 DEF Line
    <2>2. pick = m
      BY <1>1, <1>10, <1>11
    <2> DEFINE dist(i) == (group[t[i]] + 2 - group[Head(s)]) % 3
               next == CHOOSE i \in DOMAIN t : \A j \in DOMAIN t :
                           \/ dist(i) < dist(j)
                           \/ dist(i) = dist(j) /\ i <= j
    <2>3. InTurn(s) = <<t[next]>> \o SubSeq(t, 1, next - 1) \o SubSeq(t, next + 1, Len(t))
      BY <1>5 DEF InTurn
    <2>4. next = pick
      <3>1. \A i \in 1..n : dist(i) = D(i)
        BY <1>9
      <3> HIDE DEF dist
      <3>2. \A i \in 1..n : (\A j \in 1..n : \/ dist(i) < dist(j)
                                             \/ dist(i) = dist(j) /\ i <= j)
                            <=> Turn(i)
        BY <3>1
      <3>3. next = CHOOSE i \in 1..n : \A j \in 1..n : \/ dist(i) < dist(j)
                                                       \/ dist(i) = dist(j) /\ i <= j
        BY <1>7
      <3> HIDE DEF next, Turn
      <3>4. (CHOOSE i \in 1..n : \A j \in 1..n : \/ dist(i) < dist(j)
                                                 \/ dist(i) = dist(j) /\ i <= j) = m
        BY <1>1, <1>10, <1>11, <3>2
      <3> QED
        BY <2>2, <3>3, <3>4
    <2> HIDE DEF next, pick
    <2> QED
      BY <2>1, <2>2, <2>3, <2>4
  <1>13. y = w
    <2> DEFINE a == <<t[m]>>
               b == SubSeq(t, 1, m - 1)
               c == SubSeq(t, m + 1, n)
               d == a \o b
               e == d \o c
    <2>1. t \in Seq(Users) /\ Len(t) = n /\ t \in [1..n -> Users]
      BY <1>1, <1>2 DEF Line
    <2>2. a \in Seq(Users) /\ Len(a) = 1 /\ a[1] = t[m]
      BY <1>1, <2>1
    <2>3. /\ b \in Seq(Users) /\ Len(b) = m - 1 /\ \A i \in 1..m - 1 : b[i] = t[i]
      <3>1. 1 \in 1..Len(t) + 1 /\ m - 1 \in 0..Len(t)
        BY <1>1, <2>1
      <3>2. /\ SubSeq(t, 1, m - 1) \in Seq(Users)
            /\ Len(SubSeq(t, 1, m - 1)) = (IF 1 <= m - 1 THEN (m - 1) - 1 + 1 ELSE 0)
            /\ \A i \in 1..(m - 1) - 1 + 1 : SubSeq(t, 1, m - 1)[i] = t[1 + i - 1]
        BY <2>1, <3>1, SubSeqProperties
      <3> HIDE DEF b
      <3>3. b = SubSeq(t, 1, m - 1)
        BY DEF b
      <3> QED
        BY <1>1, <3>2, <3>3
    <2>4. /\ c \in Seq(Users) /\ Len(c) = n - m /\ \A i \in 1..n - m : c[i] = t[m + i]
      <3>1. m + 1 \in 1..Len(t) + 1 /\ n \in 0..Len(t)
        BY <1>1, <2>1
      <3>2. /\ SubSeq(t, m + 1, n) \in Seq(Users)
            /\ Len(SubSeq(t, m + 1, n)) = (IF m + 1 <= n THEN n - (m + 1) + 1 ELSE 0)
            /\ \A i \in 1..n - (m + 1) + 1 : SubSeq(t, m + 1, n)[i] = t[(m + 1) + i - 1]
        BY <2>1, <3>1, SubSeqProperties
      <3>3. n - (m + 1) + 1 = n - m /\ \A i \in 1..n - m : (m + 1) + i - 1 = m + i
        BY <1>1
      <3> HIDE DEF c
      <3>4. c = SubSeq(t, m + 1, n)
        BY DEF c
      <3> QED
        BY <1>1, <3>2, <3>3, <3>4
    <2> HIDE DEF a, b, c
    <2>5. /\ a \o b \in Seq(Users) /\ Len(a \o b) = Len(a) + Len(b)
          /\ \A i \in 1..Len(a) + Len(b) :
                 (a \o b)[i] = IF i <= Len(a) THEN a[i] ELSE b[i - Len(a)]
      BY <2>2, <2>3, ConcatProperties
    <2>6. d \in Seq(Users) /\ Len(d) = m /\ \A i \in 1..m : d[i] = IF i = 1 THEN t[m] ELSE t[i - 1]
      <3>1. 1 + (m - 1) = m /\ \A i \in 1..m : i <= 1 <=> i = 1
        BY <1>1
      <3>2. \A i \in 1..m : i # 1 => i - 1 \in 1..m - 1
        BY <1>1
      <3> HIDE DEF d
      <3>3. d = a \o b
        BY DEF d
      <3>4. d \in Seq(Users) /\ Len(d) = m /\ \A i \in 1..m : d[i] = IF i <= 1 THEN a[i] ELSE b[i - 1]
        BY <2>2, <2>3, <2>5, <3>1, <3>3
      <3> QED
        BY <2>2, <2>3, <3>1, <3>2, <3>4
    <2> HIDE DEF d
    <2>7. /\ d \o c \in Seq(Users) /\ Len(d \o c) = Len(d) + Len(c)
          /\ \A i \in 1..Len(d) + Len(c) :
                 (d \o c)[i] = IF i <= Len(d) THEN d[i] ELSE c[i - Len(d)]
      <3>1. d \in Seq(Users) /\ c \in Seq(Users)
        BY <2>4, <2>6
      <3> QED
        BY ONLY <3>1, ConcatProperties
    <2>8. /\ e \in Seq(Users) /\ Len(e) = n
          /\ \A i \in 1..n : e[i] = IF i <= m THEN d[i] ELSE c[i - m]
      <3>1. m + (n - m) = n
        BY <1>1
      <3> HIDE DEF e
      <3>2. e = d \o c
        BY DEF e
      <3> QED
        BY <2>4, <2>6, <2>7, <3>1, <3>2
    <2> HIDE DEF e
    <2>9. \A i \in 1..n : e[i] = w[i]
      <3> SUFFICES ASSUME NEW i \in 1..n
                   PROVE  e[i] = w[i]
        OBVIOUS
      <3>1. CASE i <= m
        <4>1. i \in 1..m
          BY <1>1, <3>1
        <4>2. e[i] = IF i = 1 THEN t[m] ELSE t[i - 1]
          BY <2>6, <2>8, <3>1, <4>1
        <4> QED
          BY <1>3, <3>1, <4>2
      <3>2. CASE i > m
        <4>1. ~(i <= m) /\ i # 1 /\ i - m \in 1..n - m /\ m + (i - m) = i
          BY <1>1, <3>2
        <4>2. e[i] = t[i]
          BY <2>4, <2>8, <4>1
        <4> QED
          BY <1>3, <4>1, <4>2
      <3> QED
        BY <1>1, <3>1, <3>2
    <2>10. e = w
      <3>1. e \in [1..n -> Users] /\ w \in [1..n -> Users]
        BY <1>1, <1>3, <2>8 DEF Line
      <3> QED
        <4>1. e = [i \in 1..n |-> e[i]]
          BY ONLY <3>1
        <4>2. w = [i \in 1..n |-> w[i]]
          BY ONLY <3>1
        <4> QED
          BY ONLY <2>9, <4>1, <4>2
    <2> QED
      BY <2>10 DEF a, b, c, d, e
  <1> QED
    BY <1>12, <1>13 DEF w, t

-----------------------------------------------------------------------------
(* The queue as a set of processes                                           *)

\* The processes of a queue, whatever their order.
QueueOf(r, S) == \E n, s : Holds(r, n, s) /\ S = Members(n, s)

\* The queue at the beginning has nobody.
LEMMA EmptyIsQueue == QueueOf(EmptyQueue, {})
  <1> DEFINE s == [i \in 1..0 |-> NIL]
             next == [u \in Users |-> NIL]
  <1>1. Line(0, s) /\ Members(0, s) = {}
    BY DEF Line, Members
  <1>2. EmptyQueue = [head |-> NIL, tail |-> NIL, next |-> next] /\ next \in [Users -> Users \cup {NIL}]
    BY DEF EmptyQueue
  <1> HIDE DEF s, next
  <1>3. EmptyQueue \in Links /\ EmptyQueue.head = NIL
    BY <1>2 DEF Links
  <1>4. Holds(EmptyQueue, 0, s)
    BY <1>1, <1>3 DEF Holds
  <1> QED
    BY <1>1, <1>4 DEF QueueOf

\* ready() adds one that is not there.
LEMMA ReadyAdds ==
    ASSUME NEW r, NEW S, QueueOf(r, S), NEW u \in Users, u \notin S
    PROVE  QueueOf(ready(r, u), S \cup {u})
  <1>1. PICK n, s : Holds(r, n, s) /\ S = Members(n, s)
    BY DEF QueueOf
  <1> DEFINE t == [i \in 1..n + 1 |-> IF i = 1 THEN u ELSE s[i - 1]]
             x == ready(r, u)
  <1>2. Holds(r, n, s) /\ u \notin Members(n, s) /\ t = [i \in 1..n + 1 |-> IF i = 1 THEN u ELSE s[i - 1]]
    BY <1>1
  <1> HIDE DEF t
  <1>3. Holds(x, n + 1, t) /\ Members(n + 1, t) = Members(n, s) \cup {u}
    BY <1>2, readyHolds
  <1> QED
    BY <1>1, <1>3 DEF QueueOf

\* unready() takes one away that is there.
LEMMA UnreadyTakes ==
    ASSUME NEW r, NEW S, QueueOf(r, S), NEW u \in S
    PROVE  QueueOf(unready(r, u), S \ {u})
  <1>1. PICK n, s : Holds(r, n, s) /\ S = Members(n, s)
    BY DEF QueueOf
  <1>2. PICK k \in 1..n : u = s[k]
    BY <1>1 DEF Members
  <1> DEFINE t == [i \in 1..n - 1 |-> IF i < k THEN s[i] ELSE s[i + 1]]
  <1>3. Holds(r, n, s) /\ k \in 1..n /\ t = [i \in 1..n - 1 |-> IF i < k THEN s[i] ELSE s[i + 1]]
    BY <1>1
  <1> HIDE DEF t
  <1>4. Holds(unready(r, s[k]), n - 1, t) /\ Members(n - 1, t) = Members(n, s) \ {s[k]}
    BY <1>3, unreadyHolds
  <1> QED
    BY <1>1, <1>2, <1>4 DEF QueueOf

\* sched() loses nobody and adds nobody.
LEMMA SchedKeeps ==
    ASSUME NEW r, NEW S, QueueOf(r, S), NEW grp \in [Users -> Groups]
    PROVE  QueueOf(sched(r, grp), S)
  <1>1. PICK n, s : Holds(r, n, s) /\ S = Members(n, s)
    BY DEF QueueOf
  <1>2. n \in Nat /\ Line(n, s)
    BY <1>1 DEF Holds, Line
  <1>3. CASE n = 0
    <2>1. sched(r, grp) = r
      BY <1>1, <1>3 DEF sched, Holds
    <2> QED
      BY <1>1, <2>1 DEF QueueOf
  <1>4. CASE n > 0
    <2> DEFINE t == Rotated(n, s)
    <2>1. PICK m \in 1..n : Holds(sched(r, grp), n, Moved(n, t, m))
      BY <1>1, <1>4, schedHolds
    <2>2. Line(n, t) /\ Members(n, t) = Members(n, s)
      BY <1>2, <1>4, RotatedLine
    <2> HIDE DEF t
    <2>3. Members(n, Moved(n, t, m)) = Members(n, t)
      BY <2>1, <2>2, MovedLine
    <2> QED
      BY <1>1, <2>1, <2>2, <2>3 DEF QueueOf
  <1> QED
    BY <1>2, <1>3, <1>4

\* What can be told of a queue from its links.
LEMMA QueueTells ==
    ASSUME NEW r, NEW S, QueueOf(r, S)
    PROVE  /\ r \in Links /\ S \subseteq Users
           /\ r.head # NIL => r.head \in S
           /\ r.head = NIL => S = {}
           /\ InQueue(r) = S
           /\ Len(Order(r)) = Cardinality(S)
           /\ r.head # NIL => r.tail = Order(r)[Len(Order(r))]
  <1>1. PICK n, s : Holds(r, n, s) /\ S = Members(n, s)
    BY DEF QueueOf
  <1>2. /\ n \in Nat /\ s \in [1..n -> Users] /\ NIL \notin Users
        /\ n = 0 => r.head = NIL
        /\ n > 0 => r.head = s[1] /\ r.tail = s[n]
        /\ n > 0 => 1 \in 1..n /\ n \in 1..n
    BY <1>1, UserAssumption DEF Holds, Line
  <1>3. r \in Links /\ S \subseteq Users
    BY <1>1, <1>2 DEF Holds, Members
  <1>4. /\ r.head # NIL => r.head \in S
        /\ r.head = NIL => S = {}
    <2>1. CASE n = 0
      BY <1>1, <1>2, <2>1 DEF Members
    <2>2. CASE n > 0
      BY <1>1, <1>2, <2>2 DEF Members
    <2> QED
      BY <1>2, <2>1, <2>2
  <1>5. Order(r) = s /\ InQueue(r) = S
    BY <1>1, OrderIs
  <1>6. Len(s) = n
    BY <1>2
  <1>7. Cardinality(S) = n
    BY <1>1, LineCounts DEF Holds
  <1>8. r.head # NIL => r.tail = s[n]
    BY <1>2
  <1> QED
    BY <1>3, <1>4, <1>5, <1>6, <1>7, <1>8

-----------------------------------------------------------------------------
(* The quanta                                                                *)

R == SCHED_RATE * Longest

\* No quantum is longer than Longest schedules, R ticks.
LEMMA LongestIs ==
    /\ SCHED_RATE \in Nat /\ SCHED_RATE >= 1
    /\ Longest \in Nat /\ Longest >= 3
    /\ \A v \in Quanta : v \in 1..100 => v <= Longest
    /\ R \in Nat /\ R >= SCHED_RATE /\ MaxRan = 2 * R
    /\ \A v \in 1..Longest : SCHED_RATE * v \in 1..R
  <1> DEFINE all == (Quanta \cap 1..100) \cup {1, 2, 3}
             below == {x \in 0..100 : 100 - x \in all}
  <1>1. PICK x \in below : \A y \in below : x <= y
    <2>1. below \subseteq Nat
      OBVIOUS
    <2>2. 97 \in below
      OBVIOUS
    <2> HIDE DEF below
    <2> QED
      BY <2>1, <2>2, LeastOfNat
  <1>2. \A v \in all : v \in 1..100 /\ 100 - v \in 0..100 /\ 100 - (100 - v) = v
    OBVIOUS
  <1>3. \A v \in all : 100 - v \in below
    BY <1>2
  <1>4. x \in 0..100 /\ 100 - x \in all
    OBVIOUS
  <1> HIDE DEF below
  <1>5. \A v \in all : v <= 100 - x
    BY <1>1, <1>2, <1>3, <1>4
  <1>6. Longest = CHOOSE m \in all : \A n \in all : n <= m
    BY DEF Longest
  <1>7. 3 \in all /\ \A v \in Quanta : v \in 1..100 => v \in all
    OBVIOUS
  <1> HIDE DEF all
  <1>8. Longest \in all /\ \A v \in all : v <= Longest
    BY <1>4, <1>5, <1>6
  <1>9. Longest \in Nat /\ Longest >= 3 /\ \A v \in Quanta : v \in 1..100 => v <= Longest
    BY <1>2, <1>7, <1>8
  <1>10. SCHED_RATE \in Nat /\ SCHED_RATE >= 1
    BY SchedulerAssumption
  <1>11. \A a, b \in Nat : a * b \in Nat
    OBVIOUS
  <1>12. ASSUME NEW a \in Nat, NEW v \in Nat, NEW b \in Nat, v <= b
         PROVE  a * v <= a * b
    <2>1. a * b = a * v + a * (b - v)
      BY <1>12
    <2>2. b - v \in Nat
      BY <1>12
    <2>3. a * v \in Nat /\ a * (b - v) \in Nat
      BY <1>11, <2>2
    <2> QED
      BY <2>1, <2>3
  <1>13. R \in Nat
    BY <1>9, <1>10, <1>11 DEF R
  <1>14. \A v \in 1..Longest : SCHED_RATE * v \in 1..R
    <2> SUFFICES ASSUME NEW v \in 1..Longest
                 PROVE  SCHED_RATE * v \in 1..R
      OBVIOUS
    <2>1. v \in Nat /\ v <= Longest /\ 1 <= v /\ 1 \in Nat
      BY <1>9
    <2>2. SCHED_RATE * v <= SCHED_RATE * Longest
      BY <1>9, <1>10, <1>12, <2>1
    <2>3. SCHED_RATE * 1 <= SCHED_RATE * v
      BY <1>10, <1>12, <2>1
    <2>4. SCHED_RATE * 1 = SCHED_RATE /\ SCHED_RATE * v \in Nat
      BY <1>10, <1>11, <2>1
    <2> QED
      BY <1>10, <1>13, <2>2, <2>3, <2>4 DEF R
  <1>15. R >= SCHED_RATE
    <2>1. 1 \in 1..Longest /\ SCHED_RATE * 1 = SCHED_RATE
      BY <1>9, <1>10
    <2>2. SCHED_RATE * 1 \in 1..R
      BY <1>14, <2>1
    <2> QED
      BY <1>13, <2>1, <2>2
  <1>16. MaxRan = 2 * R
    BY <1>9, <1>10 DEF MaxRan, R
  <1> QED
    BY <1>9, <1>10, <1>13, <1>14, <1>15, <1>16

-----------------------------------------------------------------------------
(* The inductive invariant                                                   *)

\* The links are a queue of the runnable processes.
Queue == QueueOf(q, runnable)

\* While a user process runs, no interrupt of the clock is left over and it is
\* the head of the queue; the CLOCK task has at most one more to handle when it
\* has counted to zero, and the clock counts below that once an event; and who
\* has used ticks is still in the queue.
Clock ==
    /\ cpu = "user" => clock_int = 0 /\ ~expiring /\ bill_ptr = q.head
    /\ expiring => clock_int <= 1 /\ sched_ticks >= -events
    /\ ran > 0 => bill_ptr \in runnable

\* The ticks left of the quantum, and those the CLOCK task has not counted yet.
Left(x, s) == IF x THEN 0 ELSE s
Due(x, c) == IF c > 0 /\ ~x THEN 1 ELSE 0

\* What a process has used with what is left to it is at most its quantum and,
\* once the clock has remembered it, the rest of the quantum it found.
Bounded(used, x, s, c, bill, prev) ==
    used + Left(x, s) - Due(x, c) <= IF bill = prev THEN 2 * R ELSE R

Debt == Bounded(ran, expiring, sched_ticks, clock_int, bill_ptr, prev_ptr)

IInv == TypeOK /\ Queue /\ Clock /\ Debt

\* A process that has used no tick has at most a quantum left.
LEMMA FreshIsBounded ==
    ASSUME NEW x, NEW s \in Int, NEW c \in Int, NEW bill, NEW prev,
           Left(x, s) <= R
    PROVE  Bounded(0, x, s, c, bill, prev)
  <1>1. R \in Nat
    BY LongestIs
  <1>2. Left(x, s) \in Int /\ Due(x, c) \in 0..1
    BY DEF Left, Due
  <1>3. 0 + Left(x, s) - Due(x, c) <= R /\ R <= 2 * R
    BY <1>1, <1>2
  <1>4. CASE bill = prev
    BY <1>1, <1>2, <1>3, <1>4 DEF Bounded
  <1>5. CASE bill # prev
    BY <1>1, <1>2, <1>3, <1>5 DEF Bounded
  <1> QED
    BY <1>4, <1>5

\* It holds at the beginning.
LEMMA InitInv == Init => IInv
  <1> SUFFICES ASSUME Init
               PROVE  IInv
    OBVIOUS
  <1>1. Queue
    <2>1. InitProc \in Users /\ runnable = {InitProc} /\ q = ready(EmptyQueue, InitProc)
      BY SchedulerAssumption DEF Init
    <2>2. QueueOf(ready(EmptyQueue, InitProc), {} \cup {InitProc})
      <3>1. QueueOf(EmptyQueue, {}) /\ InitProc \in Users /\ InitProc \notin {}
        BY <2>1, EmptyIsQueue
      <3> QED
        BY ONLY <3>1, ReadyAdds
    <2>3. {} \cup {InitProc} = runnable
      BY <2>1
    <2> QED
      BY <2>1, <2>2, <2>3 DEF Queue
  <1>2. q \in Links
    BY <1>1, QueueTells DEF Queue
  <1>3. quants \in [Groups -> 1..Longest]
    <2>1. \A g \in Groups : <<1, 3, 2>>[g + 1] \in 1..3
      BY DEF Groups
    <2>2. 1..3 \subseteq 1..Longest
      BY LongestIs
    <2>3. quants = [g \in Groups |-> <<1, 3, 2>>[g + 1]]
      BY DEF Init, InitialQuants
    <2> QED
      BY <2>1, <2>2, <2>3
  <1>4. /\ SCHED_RATE \in 1..R /\ MaxRan \in Nat
        /\ MaxEvents \in Nat /\ MaxForks \in Nat /\ InitProc \in Users
    BY LongestIs, SchedulerAssumption
  <1>5. /\ slots = {InitProc} /\ pids = {InitProc} /\ runnable = {InitProc}
        /\ cpu = "system" /\ bill_ptr = NIL /\ prev_ptr = NIL
        /\ sched_ticks = SCHED_RATE /\ alarm = FALSE /\ clock_int = 0 /\ expiring = FALSE
        /\ ran = 0 /\ forks = 0 /\ events = 0
        /\ group = [u \in Users |-> 0]
    BY DEF Init
  <1>6. TypeOK
    <2>1. q \in [head : Users \cup {NIL}, tail : Users \cup {NIL}, next : [Users -> Users \cup {NIL}]]
      BY <1>2 DEF Links
    <2>2. group \in [Users -> Groups]
      BY <1>5 DEF Groups
    <2>3. sched_ticks \in IF expiring THEN -MaxEvents..0 ELSE 1..SCHED_RATE * Longest
      BY <1>4, <1>5 DEF R
    <2>4. ran \in 0..MaxRan + 1 /\ events \in 0..MaxEvents /\ forks \in 0..MaxForks
      BY <1>4, <1>5
    <2>5. alarm \in BOOLEAN /\ clock_int \in 0..2
      <3>1. alarm \in BOOLEAN
        BY <1>5
      <3>2. clock_int \in 0..2
        BY <1>5
      <3> QED
        BY <3>1, <3>2
    <2> QED
      BY <1>3, <1>4, <1>5, <2>1, <2>2, <2>3, <2>4, <2>5 DEF TypeOK
  <1>7. Clock
    BY <1>5 DEF Clock
  <1>8. Debt
    <2>1. sched_ticks \in Int /\ clock_int \in Int /\ Left(expiring, sched_ticks) <= R
      <3>1. expiring = FALSE /\ sched_ticks = SCHED_RATE /\ clock_int = 0
        BY <1>5
      <3>2. SCHED_RATE \in Int /\ SCHED_RATE <= R
        BY LongestIs
      <3> QED
        BY <3>1, <3>2 DEF Left
    <2>2. Bounded(0, expiring, sched_ticks, clock_int, bill_ptr, prev_ptr)
      BY <2>1, FreshIsBounded
    <2> QED
      BY <1>5, <2>2 DEF Debt
  <1> QED
    BY <1>1, <1>6, <1>7, <1>8 DEF IInv

\* The queue stays that of the runnable processes.
LEMMA QueueStep ==
    ASSUME IInv, [Next]_vars
    PROVE  Queue'
  <1>1. /\ QueueOf(q, runnable) /\ runnable \subseteq slots /\ slots \subseteq Users
        /\ group \in [Users -> Groups]
    BY DEF IInv, TypeOK, Queue
  <1>2. CASE UNCHANGED queueVars
    BY <1>1, <1>2 DEF Queue, queueVars
  <1>3. ASSUME NEW u \in runnable, q' = unready(q, u), runnable' = runnable \ {u}
        PROVE  Queue'
    BY <1>1, <1>3, UnreadyTakes DEF Queue
  <1>4. ASSUME NEW u \in Users, u \notin runnable, q' = ready(q, u), runnable' = runnable \cup {u}
        PROVE  Queue'
    BY <1>1, <1>4, ReadyAdds DEF Queue
  <1>5. CASE Block
    <2>1. q.head \in runnable
      BY <1>1, <1>5, QueueTells DEF Block
    <2> QED
      BY <1>3, <1>5, <2>1 DEF Block
  <1>6. CASE SpendQuantum
    <2>1. CASE q' = sched(q, group)
      BY <1>1, <1>6, <2>1, SchedKeeps DEF Queue, SpendQuantum
    <2>2. CASE q' = q
      BY <1>1, <1>6, <2>2 DEF Queue, SpendQuantum
    <2> QED
      BY <1>6, <2>1, <2>2 DEF SpendQuantum
  <1>7. ASSUME NEW u \in Users, Wake(u) \/ do_fork(u)
        PROVE  Queue'
    BY <1>1, <1>4, <1>7 DEF Wake, do_fork
  <1>8. ASSUME NEW u \in Users, Stop(u)
        PROVE  Queue'
    BY <1>3, <1>8 DEF Stop
  <1>9. ASSUME NEW u \in Users, do_xit(u)
        PROVE  Queue'
    <2>1. CASE u \in runnable
      BY <1>3, <1>9, <2>1 DEF do_xit
    <2>2. CASE u \notin runnable
      <3>1. q' = q /\ runnable' = runnable
        BY <1>9, <2>2 DEF do_xit
      <3> QED
        BY <1>1, <3>1 DEF Queue
    <2> QED
      BY <2>1, <2>2
  <1>10. CASE Interrupt \/ PickUser \/ Tick \/ do_clocktick
    BY <1>2, <1>10 DEF Interrupt, PickUser, Tick, do_clocktick
  <1>11. ASSUME NEW u \in Users, NEW g \in Groups, do_setGroup(u, g)
         PROVE  Queue'
    BY <1>2, <1>11 DEF do_setGroup
  <1>12. ASSUME NEW g \in Groups, NEW v \in Quanta, do_setQuants(g, v)
         PROVE  Queue'
    BY <1>2, <1>12 DEF do_setQuants
  <1>13. CASE UNCHANGED vars
    BY <1>2, <1>13 DEF vars, queueVars
  <1> QED
    BY <1>5, <1>6, <1>7, <1>8, <1>9, <1>10, <1>11, <1>12, <1>13 DEF Next

\* Every variable keeps its type.
LEMMA TypeStep ==
    ASSUME IInv, [Next]_vars, Queue'
    PROVE  TypeOK'
  <1>1. q' \in Links /\ q \in Links
    BY QueueTells DEF Queue, IInv
  <1>2. /\ SCHED_RATE \in 1..R /\ MaxRan \in Nat /\ R \in Nat
        /\ MaxEvents \in Nat /\ MaxForks \in Nat
        /\ \A v \in 1..Longest : SCHED_RATE * v \in 1..R
    BY LongestIs, SchedulerAssumption
  <1>3. /\ TypeOK
        /\ group \in [Users -> Groups]
        /\ quants \in [Groups -> 1..Longest]
        /\ runnable \subseteq slots /\ slots \subseteq pids /\ pids \subseteq Users
        /\ cpu \in {"user", "system"}
        /\ bill_ptr \in Users \cup {NIL} /\ prev_ptr \in Users \cup {NIL}
        /\ sched_ticks \in (IF expiring THEN -MaxEvents..0 ELSE 1..R)
        /\ expiring => sched_ticks >= -events /\ clock_int <= 1
        /\ alarm \in BOOLEAN /\ clock_int \in 0..2
        /\ ran \in 0..MaxRan + 1 /\ events \in 0..MaxEvents /\ forks \in 0..MaxForks
        /\ q.head \in Users \cup {NIL}
    BY <1>1 DEF IInv, TypeOK, Clock, Links, R
  <1> DEFINE Clocks(s, x, a, c, r, e) ==
                 /\ s \in (IF x THEN -MaxEvents..0 ELSE 1..R)
                 /\ a \in BOOLEAN /\ c \in 0..2 /\ r \in 0..MaxRan + 1 /\ e \in 0..MaxEvents
             Sets(g, k, s, p, r, f) ==
                 /\ g \in [Users -> Groups] /\ k \in [Groups -> 1..Longest]
                 /\ r \subseteq s /\ s \subseteq p /\ p \subseteq Users /\ f \in 0..MaxForks
             Picked(c, b, p) ==
                 c \in {"user", "system"} /\ b \in Users \cup {NIL} /\ p \in Users \cup {NIL}
  <1>4. ASSUME Clocks(sched_ticks', expiring', alarm', clock_int', ran', events'),
               Sets(group', quants', slots', pids', runnable', forks'),
               Picked(cpu', bill_ptr', prev_ptr')
        PROVE  TypeOK'
    BY <1>1, <1>4 DEF TypeOK, Links, R
  <1>5. /\ Clocks(sched_ticks, expiring, alarm, clock_int, ran, events)
        /\ Sets(group, quants, slots, pids, runnable, forks)
        /\ Picked(cpu, bill_ptr, prev_ptr)
        /\ events < MaxEvents => Clocks(sched_ticks, expiring, alarm, clock_int, ran, events + 1)
        /\ Clocks(sched_ticks, expiring, alarm, clock_int, 0, events)
    BY <1>2, <1>3
  <1>6. ASSUME NEW u
        PROVE  /\ runnable \ {u} \subseteq slots /\ runnable \ {u} \subseteq slots \ {u}
               /\ slots \ {u} \subseteq pids
               /\ u \in slots => runnable \cup {u} \subseteq slots
               /\ u \in Users => /\ runnable \cup {u} \subseteq slots \cup {u}
                                 /\ slots \cup {u} \subseteq pids \cup {u}
                                 /\ pids \cup {u} \subseteq Users
    BY <1>3
  <1> HIDE DEF Clocks, Sets, Picked
  <1>7. CASE Block
    <2>1. Sets(group', quants', slots', pids', runnable', forks')
      BY <1>3, <1>6, <1>7 DEF Block, slotVars, groupVars, Sets
    <2>2. Clocks(sched_ticks', expiring', alarm', clock_int', ran', events')
      BY <1>5, <1>7 DEF Block, clockVars
    <2>3. Picked(cpu', bill_ptr', prev_ptr')
      BY <1>3, <1>7 DEF Block, clockVars, Picked
    <2> QED
      BY <1>4, <2>1, <2>2, <2>3
  <1>8. CASE Interrupt
    <2>1. Sets(group', quants', slots', pids', runnable', forks')
      BY <1>5, <1>8 DEF Interrupt, slotVars, groupVars, queueVars
    <2>2. Clocks(sched_ticks', expiring', alarm', clock_int', ran', events')
      BY <1>5, <1>8 DEF Interrupt, clockVars, Event
    <2>3. Picked(cpu', bill_ptr', prev_ptr')
      BY <1>3, <1>8 DEF Interrupt, clockVars, Picked
    <2> QED
      BY <1>4, <2>1, <2>2, <2>3
  <1>9. CASE PickUser
    <2>1. Sets(group', quants', slots', pids', runnable', forks')
      BY <1>5, <1>9 DEF PickUser, slotVars, groupVars, queueVars
    <2>2. Clocks(sched_ticks', expiring', alarm', clock_int', ran', events')
      BY <1>5, <1>9 DEF PickUser, clockVars
    <2>3. Picked(cpu', bill_ptr', prev_ptr')
      BY <1>3, <1>9 DEF PickUser, clockVars, Picked
    <2> QED
      BY <1>4, <2>1, <2>2, <2>3
  <1>10. CASE Tick
    <2>1. Sets(group', quants', slots', pids', runnable', forks')
      BY <1>5, <1>10 DEF Tick, slotVars, groupVars, queueVars
    <2>2. Picked(cpu', bill_ptr', prev_ptr')
      BY <1>3, <1>10 DEF Tick, CountDown, Picked
    <2>3. alarm' \in BOOLEAN /\ events' \in 0..MaxEvents /\ expiring' = expiring
      <3>1. alarm' = alarm \/ alarm' = TRUE
        BY <1>10 DEF Tick
      <3>2. alarm' \in BOOLEAN
        BY <1>3, <3>1
      <3>3. events' = events \/ (events < MaxEvents /\ events' = events + 1)
        BY <1>10 DEF Tick, Event
      <3>4. events' \in 0..MaxEvents
        BY <1>2, <1>3, <3>3
      <3>5. expiring' = expiring
        BY <1>10 DEF Tick
      <3> QED
        BY <3>2, <3>4, <3>5
    <2>4. clock_int' \in 0..2
      BY <1>3, <1>10 DEF Tick, InterruptClock, CountDown
    <2>5. ran' \in 0..MaxRan + 1
      BY <1>2, <1>3, <1>10 DEF Tick
    <2>6. sched_ticks' \in (IF expiring' THEN -MaxEvents..0 ELSE 1..R)
      <3>1. \/ UNCHANGED sched_ticks
            \/ sched_ticks # 1 /\ sched_ticks' = sched_ticks - 1
            \/ sched_ticks = 1 /\ NewQuantum(IF cpu = "user" THEN q.head ELSE NIL)
        BY <1>10 DEF Tick, CountDown
      <3>2. CASE UNCHANGED sched_ticks
        BY <1>3, <2>3, <3>2
      <3>3. CASE sched_ticks # 1 /\ sched_ticks' = sched_ticks - 1
        <4>1. CASE expiring
          <5>1. cpu = "system" /\ events < MaxEvents
            BY <1>3, <1>10, <4>1 DEF Tick, Event, Clock, IInv
          <5> QED
            BY <1>2, <1>3, <2>3, <3>3, <4>1, <5>1
        <4>2. CASE ~expiring
          BY <1>2, <1>3, <2>3, <3>3, <4>2
        <4> QED
          BY <4>1, <4>2
      <3>4. CASE sched_ticks = 1 /\ NewQuantum(IF cpu = "user" THEN q.head ELSE NIL)
        <4>1. ~expiring
          BY <1>2, <1>3, <3>4
        <4>2. sched_ticks' = SCHED_RATE \/ \E u \in Users : sched_ticks' = SCHED_RATE * quants[group[u]]
          BY <1>3, <3>4 DEF NewQuantum
        <4>3. \A u \in Users : SCHED_RATE * quants[group[u]] \in 1..R
          BY <1>2, <1>3
        <4> QED
          BY <1>2, <2>3, <4>1, <4>2, <4>3
      <3> QED
        BY <3>1, <3>2, <3>3, <3>4
    <2>7. Clocks(sched_ticks', expiring', alarm', clock_int', ran', events')
      BY <2>3, <2>4, <2>5, <2>6 DEF Clocks
    <2> QED
      BY <1>4, <2>1, <2>2, <2>7
  <1>11. CASE do_clocktick
    <2>1. Sets(group', quants', slots', pids', runnable', forks')
      BY <1>5, <1>11 DEF do_clocktick, slotVars, groupVars, queueVars
    <2>2. Picked(cpu', bill_ptr', prev_ptr')
      BY <1>5, <1>11 DEF do_clocktick
    <2>3. sched_ticks' \in (IF expiring' THEN -MaxEvents..0 ELSE 1..R)
      <3>1. /\ ~expiring /\ sched_ticks' = sched_ticks - 1
            /\ expiring' <=> sched_ticks = 1
        BY <1>11 DEF do_clocktick, AtWork
      <3>2. sched_ticks \in 1..R
        BY <1>3, <3>1
      <3>3. CASE sched_ticks = 1
        <4>1. sched_ticks' = 0 /\ expiring'
          BY <3>1, <3>3
        <4>2. 0 \in -MaxEvents..0
          BY <1>2
        <4> QED
          BY <4>1, <4>2
      <3>4. CASE sched_ticks # 1
        <4>1. ~expiring'
          BY <3>1, <3>4
        <4>2. sched_ticks' \in 1..R
          BY <1>2, <3>1, <3>2, <3>4
        <4> QED
          BY <4>1, <4>2
      <3> QED
        BY <3>3, <3>4
    <2>4. clock_int' \in 0..2 /\ alarm' \in BOOLEAN
      <3>1. clock_int' \in 0..2
        BY <1>3, <1>11 DEF do_clocktick
      <3>2. alarm' = FALSE
        BY <1>11 DEF do_clocktick
      <3> QED
        BY <3>1, <3>2
    <2>5. Clocks(sched_ticks', expiring', alarm', clock_int', ran', events')
      BY <1>3, <1>11, <2>3, <2>4 DEF do_clocktick, Clocks
    <2> QED
      BY <1>4, <2>1, <2>2, <2>5
  <1>12. CASE SpendQuantum
    <2>1. Sets(group', quants', slots', pids', runnable', forks')
      BY <1>5, <1>12 DEF SpendQuantum, slotVars, groupVars
    <2>2. Picked(cpu', bill_ptr', prev_ptr')
      BY <1>3, <1>12 DEF SpendQuantum, Picked
    <2>3. sched_ticks' = SCHED_RATE /\ expiring' = FALSE
      BY <1>12 DEF SpendQuantum, NewQuantum
    <2>4. ran' \in 0..MaxRan + 1
      BY <1>2, <1>3, <1>12 DEF SpendQuantum
    <2>5. Clocks(sched_ticks', expiring', alarm', clock_int', ran', events')
      BY <1>2, <1>3, <1>12, <2>3, <2>4 DEF SpendQuantum, Clocks
    <2> QED
      BY <1>4, <2>1, <2>2, <2>5
  <1>13. ASSUME NEW u \in Users, Wake(u)
         PROVE  TypeOK'
    <2>1. Sets(group', quants', slots', pids', runnable', forks')
      BY <1>3, <1>6, <1>13 DEF Wake, slotVars, groupVars, Sets
    <2>2. Clocks(sched_ticks', expiring', alarm', clock_int', ran', events')
      BY <1>5, <1>13 DEF Wake, clockVars, Event
    <2>3. Picked(cpu', bill_ptr', prev_ptr')
      BY <1>5, <1>13 DEF Wake, clockVars
    <2> QED
      BY <1>4, <2>1, <2>2, <2>3
  <1>14. ASSUME NEW u \in Users, Stop(u)
         PROVE  TypeOK'
    <2>1. Sets(group', quants', slots', pids', runnable', forks')
      BY <1>3, <1>6, <1>14 DEF Stop, slotVars, groupVars, Sets
    <2>2. Clocks(sched_ticks', expiring', alarm', clock_int', ran', events')
      BY <1>5, <1>14 DEF Stop, clockVars
    <2>3. Picked(cpu', bill_ptr', prev_ptr')
      BY <1>5, <1>14 DEF Stop, clockVars
    <2> QED
      BY <1>4, <2>1, <2>2, <2>3
  <1>15. ASSUME NEW u \in Users, do_fork(u)
         PROVE  TypeOK'
    <2>1. group' \in [Users -> Groups] /\ forks' \in 0..MaxForks
      BY <1>2, <1>3, <1>15 DEF do_fork, Groups
    <2>2. Sets(group', quants', slots', pids', runnable', forks')
      BY <1>3, <1>6, <1>15, <2>1 DEF do_fork, Sets
    <2>3. Clocks(sched_ticks', expiring', alarm', clock_int', ran', events')
      BY <1>5, <1>15 DEF do_fork, clockVars
    <2>4. Picked(cpu', bill_ptr', prev_ptr')
      BY <1>5, <1>15 DEF do_fork, clockVars
    <2> QED
      BY <1>4, <2>2, <2>3, <2>4
  <1>16. ASSUME NEW u \in Users, do_xit(u)
         PROVE  TypeOK'
    <2>1. Sets(group', quants', slots', pids', runnable', forks')
      BY <1>3, <1>6, <1>16 DEF do_xit, groupVars, Sets
    <2>2. Clocks(sched_ticks', expiring', alarm', clock_int', ran', events')
      BY <1>5, <1>16 DEF do_xit, clockVars
    <2>3. Picked(cpu', bill_ptr', prev_ptr')
      BY <1>5, <1>16 DEF do_xit, clockVars
    <2> QED
      BY <1>4, <2>1, <2>2, <2>3
  <1>17. ASSUME NEW u \in Users, NEW g \in Groups, do_setGroup(u, g)
         PROVE  TypeOK'
    <2>1. Sets(group', quants', slots', pids', runnable', forks')
      BY <1>3, <1>17 DEF do_setGroup, slotVars, queueVars, Sets
    <2>2. Clocks(sched_ticks', expiring', alarm', clock_int', ran', events')
      BY <1>5, <1>17 DEF do_setGroup, clockVars, Event
    <2>3. Picked(cpu', bill_ptr', prev_ptr')
      BY <1>5, <1>17 DEF do_setGroup, clockVars
    <2> QED
      BY <1>4, <2>1, <2>2, <2>3
  <1>18. ASSUME NEW g \in Groups, NEW v \in Quanta, do_setQuants(g, v)
         PROVE  TypeOK'
    <2>1. v \in 1..Longest
      BY <1>18, LongestIs DEF do_setQuants
    <2>2. Sets(group', quants', slots', pids', runnable', forks')
      BY <1>3, <1>18, <2>1 DEF do_setQuants, slotVars, queueVars, Sets
    <2>3. Clocks(sched_ticks', expiring', alarm', clock_int', ran', events')
      BY <1>5, <1>18 DEF do_setQuants, clockVars, Event
    <2>4. Picked(cpu', bill_ptr', prev_ptr')
      BY <1>5, <1>18 DEF do_setQuants, clockVars
    <2> QED
      BY <1>4, <2>2, <2>3, <2>4
  <1>19. CASE UNCHANGED vars
    BY <1>4, <1>5, <1>19 DEF vars
  <1> QED
    BY <1>7, <1>8, <1>9, <1>10, <1>11, <1>12, <1>13, <1>14, <1>15, <1>16, <1>17, <1>18, <1>19 DEF Next

\* The clock and the process it bills keep to Clock.
LEMMA ClockStep ==
    ASSUME IInv, [Next]_vars
    PROVE  Clock'
  <1>1. /\ q.head # NIL => q.head \in runnable
        /\ q.head = NIL => runnable = {}
        /\ NIL \notin Users /\ runnable \subseteq Users
    BY QueueTells, UserAssumption DEF Queue, IInv
  <1>2. /\ cpu = "user" => clock_int = 0 /\ ~expiring /\ bill_ptr = q.head
        /\ expiring => clock_int <= 1 /\ sched_ticks >= -events
        /\ ran > 0 => bill_ptr \in runnable
        /\ cpu \in {"user", "system"} /\ runnable \subseteq slots
        /\ clock_int \in 0..2 /\ sched_ticks \in Int /\ events \in Nat /\ ran \in Nat
    BY LongestIs, SchedulerAssumption DEF IInv, Clock, TypeOK, R
  <1>3. CASE Block
    BY <1>2, <1>3 DEF Block, clockVars, Clock
  <1>4. CASE Interrupt
    BY <1>2, <1>4 DEF Interrupt, clockVars, queueVars, Event, Clock
  <1>5. CASE PickUser
    BY <1>2, <1>5 DEF PickUser, clockVars, queueVars, AtWork, Clock
  <1>6. CASE Tick
    <2>1. cpu' = "user" => clock_int' = 0 /\ ~expiring' /\ bill_ptr' = q'.head
      BY <1>2, <1>6 DEF Tick, CountDown, queueVars
    <2>2. ran' > 0 => bill_ptr' \in runnable'
      BY <1>1, <1>2, <1>6 DEF Tick, queueVars
    <2>3. expiring' => clock_int' <= 1
      BY <1>2, <1>6 DEF Tick, InterruptClock, CountDown
    <2>4. expiring' => sched_ticks' >= -events'
      <3> SUFFICES ASSUME expiring'
                   PROVE  sched_ticks' >= -events'
        OBVIOUS
      <3>1. expiring /\ cpu = "system" /\ events' = events + 1
        BY <1>2, <1>6 DEF Tick, Event
      <3>2. sched_ticks # 1
        BY <3>1 DEF IInv, TypeOK
      <3>3. sched_ticks' = sched_ticks \/ sched_ticks' = sched_ticks - 1
        BY <1>6, <3>2 DEF Tick, CountDown
      <3> QED
        BY <1>2, <3>1, <3>3
    <2> QED
      BY <2>1, <2>2, <2>3, <2>4 DEF Clock
  <1>7. CASE do_clocktick
    <2>1. cpu' = "system" /\ ~expiring
      BY <1>2, <1>7 DEF do_clocktick, AtWork
    <2>2. ran' > 0 => bill_ptr' \in runnable'
      BY <1>2, <1>7 DEF do_clocktick, queueVars
    <2>3. clock_int' <= 1
      BY <1>2, <1>7 DEF do_clocktick
    <2>4. expiring' => sched_ticks' = 0 /\ events' = events
      <3>1. /\ events' = events /\ sched_ticks' = sched_ticks - 1
            /\ expiring' <=> sched_ticks = 1
        BY <1>7 DEF do_clocktick
      <3> QED
        BY <3>1
    <2>5. 0 >= -events
      BY <1>2
    <2> QED
      BY <2>1, <2>2, <2>3, <2>4, <2>5 DEF Clock
  <1>8. CASE SpendQuantum
    <2>1. cpu' = "system" /\ ~expiring'
      BY <1>2, <1>8 DEF SpendQuantum
    <2>2. ran' > 0 => bill_ptr' \in runnable'
      BY <1>2, <1>8 DEF SpendQuantum
    <2> QED
      BY <2>1, <2>2 DEF Clock
  <1>9. ASSUME NEW u \in Users, Wake(u)
        PROVE  Clock'
    BY <1>2, <1>9 DEF Wake, AtWork, clockVars, Event, Clock
  <1>10. ASSUME NEW u \in Users, Stop(u)
         PROVE  Clock'
    BY <1>2, <1>10 DEF Stop, AtWork, clockVars, Clock
  <1>11. ASSUME NEW u \in Users, do_fork(u)
         PROVE  Clock'
    BY <1>2, <1>11 DEF do_fork, AtWork, clockVars, Clock
  <1>12. ASSUME NEW u \in Users, do_xit(u)
         PROVE  Clock'
    BY <1>2, <1>12 DEF do_xit, AtWork, clockVars, Clock
  <1>13. ASSUME NEW u \in Users, NEW g \in Groups, do_setGroup(u, g)
         PROVE  Clock'
    BY <1>2, <1>13 DEF do_setGroup, AtWork, clockVars, queueVars, Event, Clock
  <1>14. ASSUME NEW g \in Groups, NEW v \in Quanta, do_setQuants(g, v)
         PROVE  Clock'
    BY <1>2, <1>14 DEF do_setQuants, AtWork, clockVars, queueVars, Event, Clock
  <1>15. CASE UNCHANGED vars
    BY <1>2, <1>15 DEF vars, Clock
  <1> QED
    BY <1>3, <1>4, <1>5, <1>6, <1>7, <1>8, <1>9, <1>10, <1>11, <1>12, <1>13, <1>14, <1>15 DEF Next

\* What is used and what is left of a quantum stay within their bound.
LEMMA DebtStep ==
    ASSUME IInv, [Next]_vars, TypeOK'
    PROVE  Debt'
  <1>1. /\ q.head # NIL => q.head \in runnable
        /\ q.head = NIL => runnable = {}
        /\ NIL \notin Users /\ runnable \subseteq Users
    BY QueueTells, UserAssumption DEF Queue, IInv
  <1>2. /\ cpu = "user" => clock_int = 0 /\ ~expiring /\ bill_ptr = q.head
        /\ expiring => sched_ticks \in Int /\ sched_ticks <= 0
        /\ ~expiring => sched_ticks \in 1..R
        /\ ran > 0 => bill_ptr \in runnable
        /\ cpu \in {"user", "system"}
        /\ clock_int \in 0..2 /\ sched_ticks \in Int /\ ran \in Nat
        /\ R \in Nat /\ SCHED_RATE \in 1..R
        /\ group \in [Users -> Groups] /\ quants \in [Groups -> 1..Longest]
        /\ \A v \in 1..Longest : SCHED_RATE * v \in 1..R
    BY LongestIs, SchedulerAssumption DEF IInv, Clock, TypeOK, R
  <1>3. /\ expiring' => sched_ticks' \in Int /\ sched_ticks' <= 0
        /\ ~expiring' => sched_ticks' \in 1..R
        /\ clock_int' \in 0..2
    BY LongestIs, SchedulerAssumption DEF TypeOK, R
  <1>4. ASSUME ran' = 0
        PROVE  Debt'
    <2>1. sched_ticks' \in Int /\ clock_int' \in Int /\ Left(expiring', sched_ticks') <= R
      BY <1>2, <1>3 DEF Left
    <2>2. Bounded(0, expiring', sched_ticks', clock_int', bill_ptr', prev_ptr')
      BY <2>1, FreshIsBounded
    <2> QED
      BY <1>4, <2>2 DEF Debt
  <1>5. ran = 0 \/ ran > 0
    BY <1>2
  <1>6. ASSUME UNCHANGED <<ran, clockVars, bill_ptr>>
        PROVE  Debt'
    BY <1>6 DEF IInv, Debt, Bounded, clockVars
  <1>7. ASSUME UNCHANGED <<clockVars, bill_ptr>>, ran' = 0 \/ ran' = ran
        PROVE  Debt'
    BY <1>4, <1>6, <1>7
  <1>8. CASE Block
    BY <1>4, <1>8 DEF Block
  <1>9. CASE Interrupt
    BY <1>6, <1>9 DEF Interrupt
  <1>10. CASE PickUser
    <2>1. CASE q.head = bill_ptr
      BY <1>6, <1>10, <2>1 DEF PickUser
    <2>2. CASE q.head # bill_ptr
      BY <1>4, <1>10, <2>2 DEF PickUser
    <2> QED
      BY <2>1, <2>2
  <1>11. CASE Tick
    <2>1. /\ expiring' = expiring /\ bill_ptr' = bill_ptr
          /\ ran' = ran \/ (cpu = "user" /\ q.head # NIL /\ ran' = ran + 1)
      BY <1>11 DEF Tick
    <2>2. CASE UNCHANGED <<sched_ticks, prev_ptr>> /\ InterruptClock
      <3>1. expiring => clock_int' \in 0..2 /\ ran' = ran
        BY <1>2, <1>3, <2>1
      <3>2. ~expiring => clock_int' > 0
        BY <1>2, <2>2 DEF InterruptClock
      <3> QED
        BY <1>2, <2>1, <2>2, <3>1, <3>2 DEF IInv, Debt, Bounded, Left, Due
    <2>3. CASE sched_ticks # 1 /\ sched_ticks' = sched_ticks - 1 /\ UNCHANGED <<prev_ptr, clock_int>>
      BY <1>2, <2>1, <2>3 DEF IInv, Debt, Bounded, Left, Due
    <2>4. CASE /\ sched_ticks = 1 /\ NewQuantum(IF cpu = "user" THEN q.head ELSE NIL)
               /\ prev_ptr' = bill_ptr /\ UNCHANGED clock_int
               /\ ~(bill_ptr = prev_ptr /\ q.head # NIL)
      <3>1. ~expiring /\ sched_ticks' \in 1..R
        BY <1>2, <1>3, <2>1, <2>4
      <3>2. CASE q.head = NIL
        <4>1. ran = 0 /\ ran' = ran
          BY <1>1, <1>5, <1>2, <2>1, <3>2
        <4> QED
          BY <1>4, <4>1
      <3>3. CASE bill_ptr # prev_ptr
        <4>1. ran + 1 - Due(expiring, clock_int) <= R
          BY <2>4, <3>1, <3>3 DEF IInv, Debt, Bounded, Left
        <4>2. ran' <= R
          <5>1. CASE cpu = "user"
            BY <1>2, <2>1, <4>1, <5>1 DEF Due
          <5>2. CASE cpu # "user"
            BY <1>2, <2>1, <4>1, <5>2 DEF Due
          <5> QED
            BY <5>1, <5>2
        <4>3. ran' \in Nat /\ Left(expiring', sched_ticks') <= R /\ Left(expiring', sched_ticks') \in Int
          BY <1>2, <2>1, <3>1 DEF Left
        <4>4. Due(expiring', clock_int') \in 0..1
          BY DEF Due
        <4>5. ran' + Left(expiring', sched_ticks') - Due(expiring', clock_int') <= 2 * R
          BY <1>2, <4>2, <4>3, <4>4
        <4>6. bill_ptr' = prev_ptr'
          BY <2>1, <2>4
        <4> QED
          BY <4>5, <4>6 DEF Debt, Bounded
      <3> QED
        BY <2>4, <3>2, <3>3
    <2> QED
      BY <1>11, <2>2, <2>3, <2>4 DEF Tick, CountDown
  <1>12. CASE do_clocktick
    <2>1. /\ ~expiring /\ clock_int > 0 /\ sched_ticks' = sched_ticks - 1
          /\ clock_int' = clock_int - 1
          /\ expiring' <=> sched_ticks = 1
          /\ UNCHANGED <<ran, bill_ptr, prev_ptr>>
      BY <1>12 DEF do_clocktick, AtWork
    <2>2. Left(expiring', sched_ticks') = sched_ticks - 1
      BY <1>2, <2>1 DEF Left
    <2>3. Due(expiring', clock_int') \in 0..1
      BY DEF Due
    <2>4. ran + sched_ticks - 1 <= IF bill_ptr = prev_ptr THEN 2 * R ELSE R
      BY <2>1 DEF IInv, Debt, Bounded, Left, Due
    <2>5. ran + (sched_ticks - 1) - Due(expiring', clock_int') <= ran + sched_ticks - 1
      BY <1>2, <2>3
    <2> QED
      BY <1>2, <2>1, <2>2, <2>3, <2>4, <2>5 DEF Debt, Bounded
  <1>13. CASE SpendQuantum
    <2>1. CASE bill_ptr = prev_ptr
      BY <1>4, <1>13, <2>1 DEF SpendQuantum
    <2>2. CASE bill_ptr # prev_ptr
      <3>1. expiring /\ ~expiring' /\ sched_ticks' = SCHED_RATE
            /\ prev_ptr' = bill_ptr /\ UNCHANGED <<ran, bill_ptr, clock_int>>
        BY <1>13, <2>2 DEF SpendQuantum, NewQuantum
      <3>2. ran <= R
        BY <1>2, <2>2, <3>1 DEF IInv, Debt, Bounded, Left, Due
      <3> QED
        BY <1>2, <3>1, <3>2 DEF Debt, Bounded, Left, Due
    <2> QED
      BY <2>1, <2>2
  <1>14. ASSUME NEW u \in Users, Wake(u)
         PROVE  Debt'
    BY <1>6, <1>14 DEF Wake
  <1>15. ASSUME NEW u \in Users, Stop(u)
         PROVE  Debt'
    BY <1>7, <1>15 DEF Stop
  <1>16. ASSUME NEW u \in Users, do_fork(u)
         PROVE  Debt'
    BY <1>6, <1>16 DEF do_fork
  <1>17. ASSUME NEW u \in Users, do_xit(u)
         PROVE  Debt'
    BY <1>7, <1>17 DEF do_xit
  <1>18. ASSUME NEW u \in Users, NEW g \in Groups, do_setGroup(u, g)
         PROVE  Debt'
    BY <1>6, <1>18 DEF do_setGroup
  <1>19. ASSUME NEW g \in Groups, NEW v \in Quanta, do_setQuants(g, v)
         PROVE  Debt'
    BY <1>6, <1>19 DEF do_setQuants
  <1>20. CASE UNCHANGED vars
    BY <1>6, <1>20 DEF vars, clockVars
  <1> QED
    BY <1>8, <1>9, <1>10, <1>11, <1>12, <1>13, <1>14, <1>15, <1>16, <1>17, <1>18, <1>19, <1>20 DEF Next

\* It is inductive.
LEMMA Inductive == IInv /\ [Next]_vars => IInv'
  BY QueueStep, TypeStep, ClockStep, DebtStep DEF IInv

\* It holds in every state.
LEMMA Invariant == Spec => []IInv
  BY InitInv, Inductive, PTL DEF Spec

-----------------------------------------------------------------------------
(* The theorems                                                              *)

\* Every variable keeps its type; in particular the counter that the interrupt
\* and the CLOCK task count down without a lock stays between 1 and the longest
\* quantum, except while do_clocktick() is about to set it anew.
THEOREM TypeCorrect == Spec => []TypeOK
  <1>1. IInv => TypeOK
    BY DEF IInv
  <1> QED
    BY <1>1, Invariant, PTL

\* The links make up a queue of exactly the runnable processes, each once, which
\* ends at rdy_tail, however many processes there are: sched() moving two of
\* them and unready() taking them out of the middle lose nobody.
THEOREM QueueIsOfRunnable == Spec => []QueueOfRunnable
  <1>1. IInv => QueueOfRunnable
    BY QueueTells DEF IInv, Queue, QueueOfRunnable
  <1> QED
    BY <1>1, Invariant, PTL

\* No process computes longer than twice the longest quantum before the queue is
\* looked at again, whatever SCHED_RATE and the quanta are and however the ticks
\* fall between the interrupt handler and the CLOCK task.
THEOREM NobodyHasMonopoly == Spec => []NoMonopoly
  <1>1. IInv => NoMonopoly
    <2> SUFFICES ASSUME IInv
                 PROVE  NoMonopoly
      OBVIOUS
    <2>1. /\ R \in Nat /\ MaxRan = 2 * R /\ ran \in Int
          /\ ~expiring => sched_ticks \in 1..R
          /\ clock_int \in 0..2
      BY LongestIs DEF IInv, TypeOK, R
    <2>2. Left(expiring, sched_ticks) - Due(expiring, clock_int) >= 0
      <3>1. CASE expiring
        BY <3>1 DEF Left, Due
      <3>2. CASE ~expiring
        <4>1. Due(expiring, clock_int) \in 0..1 /\ Left(expiring, sched_ticks) >= 1
          BY <2>1, <3>2 DEF Left, Due
        <4>2. Left(expiring, sched_ticks) \in Int
          BY <2>1, <3>2 DEF Left
        <4> QED
          BY <4>1, <4>2
      <3> QED
        BY <3>1, <3>2
    <2>3. Left(expiring, sched_ticks) \in Int /\ Due(expiring, clock_int) \in Int
      BY <2>1 DEF Left, Due
    <2>4. ran + Left(expiring, sched_ticks) - Due(expiring, clock_int)
              <= IF bill_ptr = prev_ptr THEN 2 * R ELSE R
      BY DEF IInv, Debt, Bounded
    <2>5. ran <= IF bill_ptr = prev_ptr THEN 2 * R ELSE R
      BY <2>1, <2>2, <2>3, <2>4
    <2> QED
      BY <2>1, <2>5 DEF NoMonopoly
  <1> QED
    BY <1>1, Invariant, PTL

\* When a quantum is used up, sched()'s two moves of a process in the links put
\* the next group of the circle in front and leave the order of the others, for
\* every queue and every grouping.
THEOREM TurnsAreTaken == Spec => GroupsTakeTurns
  <1> DEFINE A == SpendQuantum /\ prev_ptr = bill_ptr /\ q.head # NIL =>
                      Order(q') = InTurn(Order(q))
  <1>1. IInv => A
    <2> SUFFICES ASSUME IInv, SpendQuantum, prev_ptr = bill_ptr, q.head # NIL
                 PROVE  Order(q') = InTurn(Order(q))
      OBVIOUS
    <2>1. q' = sched(q, group) /\ group \in [Users -> Groups]
      BY DEF SpendQuantum, IInv, TypeOK
    <2>2. PICK n, s : Holds(q, n, s) /\ runnable = Members(n, s)
      BY DEF IInv, Queue, QueueOf
    <2>3. n > 0 /\ Line(n, s)
      BY <2>2 DEF Holds, Line
    <2>4. PICK m \in 1..n : /\ TurnOf(n, Rotated(n, s), group, group[s[1]], m)
                            /\ Holds(sched(q, group), n, Moved(n, Rotated(n, s), m))
      BY <2>1, <2>2, <2>3, schedHolds
    <2>5. Order(q) = s
      BY <2>2, OrderIs
    <2>6. Order(q') = Moved(n, Rotated(n, s), m)
      BY <2>1, <2>4, OrderIs
    <2>7. InTurn(s) = Moved(n, Rotated(n, s), m)
      BY <2>1, <2>3, <2>4, InTurnIs
    <2> QED
      BY <2>5, <2>6, <2>7
  <1>2. IInv /\ [Next]_vars => [A]_vars
    BY <1>1
  <1> QED
    BY <1>2, Invariant, PTL DEF Spec, GroupsTakeTurns

=============================================================================
