------------------------- MODULE FileSystemProofs -------------------------
(* Theorems about FileSystem, for every number and size of blocks, files and *)
(* open files: no call and no crash ever closes a ring in the table of       *)
(* blocks; opened_file_count counts the open slots; as long as nothing was   *)
(* rolled back the files divide up the blocks in use; a crash between two    *)
(* calls loses nothing; and a repair that is cut short is repeated to the    *)
(* same end.                                                                 *)
(*                                                                           *)
(* Chains are defined by a walk that may take NUM_BLOCKS links.  They are    *)
(* reasoned about without the walk: a table has no ring when no set of       *)
(* blocks is closed under its links (Acyclic), and the chain from b is then  *)
(* the least set with b that is closed under them (ChainClosed,              *)
(* ChainWithin).  Every table a call makes is an acyclic one with links cut, *)
(* or with free blocks linked on in ascending order (Cut, Detour).           *)
(*                                                                           *)
(* The invariant IInv adds to the properties that no ring is on the disk     *)
(* either nor among the writes to it, how much of saveToDisk() is left at    *)
(* each point (Left0 to Left4), that the slots behind the files are empty,   *)
(* and that during a start the disk gives what RAM has.                      *)
EXTENDS FileSystem, FiniteSetTheorems, SequenceTheorems, WellFoundedInduction, TLAPS

\* A set of natural numbers has a least one.
LEMMA LeastOfNat ==
    ASSUME NEW S, S \subseteq Nat, S # {}
    PROVE  \E m \in S : \A n \in S : m <= n
  <1>1. PICK R : IsWellFoundedOn(R, Nat) /\ \A x, y \in Nat : x < y => <<x, y>> \in R
    <2>1. \A x, y \in Nat : x < y => <<x, y>> \in OpToRel(<, Nat)
      BY DEF OpToRel
    <2> QED
      BY <2>1, NatLessThanWellFounded
  <1>2. PICK x \in S : \A y \in S : ~(<<y, x>> \in R)
    <2>1. S \subseteq Nat /\ S # {} /\ IsWellFoundedOn(R, Nat)
      BY <1>1
    <2> QED
      BY <2>1, WFMin
  <1>3. \A y \in S : ~(y < x)
    BY <1>1, <1>2
  <1> QED
    BY <1>3

\* Least picks the least member.
LEMMA LeastIs ==
    ASSUME NEW S, S \subseteq Nat, S # {}
    PROVE  Least(S) \in S /\ \A n \in S : Least(S) <= n
  BY LeastOfNat DEF Least

\* Induction up to n: a set with 0 and with m + 1 for each m below n in it.
LEMMA UpTo ==
    ASSUME NEW n \in Nat, NEW S,
           0 \in S, \A m \in 0..n : m # n /\ m \in S => m + 1 \in S
    PROVE  \A m \in 0..n : m \in S
  <1> DEFINE Bad == {m \in 0..n : m \notin S}
  <1>1. SUFFICES ASSUME Bad # {} PROVE FALSE
    OBVIOUS
  <1>2. Bad \subseteq Nat
    OBVIOUS
  <1>3. PICK m \in Bad : \A k \in Bad : m <= k
    <2> HIDE DEF Bad
    <2> QED
      BY <1>1, <1>2, LeastOfNat
  <1>4. m \in 0..n /\ m \notin S
    OBVIOUS
  <1>5. m # 0 /\ m - 1 \in 0..n /\ m - 1 # n /\ (m - 1) + 1 = m /\ ~(m <= m - 1)
    BY <1>4
  <1>6. m - 1 \in S
    BY <1>3, <1>5
  <1> QED
    BY <1>4, <1>5, <1>6

-----------------------------------------------------------------------------
(* Chains                                                                    *)

N == NUM_BLOCKS

Fats == [Blocks -> Blocks \cup {FREE_BLOCK, END_OF_CHAIN}]

\* There is no ring in the table: no set of blocks is left by none of its links.
Acyclic(f) == \A S \in SUBSET Blocks : S # {} => \E b \in S : f[b] \notin S

\* The numbers of the blocks.
LEMMA BlockNumbers ==
    /\ N \in Nat /\ N # 0
    /\ Blocks \subseteq Nat /\ IsFiniteSet(Blocks) /\ Cardinality(Blocks) = N
    /\ FREE_BLOCK \notin Blocks /\ END_OF_CHAIN \notin Blocks /\ -1 \notin Blocks
    /\ FREE_BLOCK # END_OF_CHAIN
  <1>1. N \in Nat /\ N # 0
    BY SizesAssumption DEF N
  <1>2. Blocks = 0..N - 1 /\ 0 \in Int /\ N - 1 \in Int
    BY <1>1 DEF Blocks, N
  <1>3. IsFiniteSet(0..N - 1) /\ Cardinality(0..N - 1) = (IF 0 > N - 1 THEN 0 ELSE N - 1 - 0 + 1)
    BY <1>2, FS_Interval
  <1> QED
    BY <1>1, <1>2, <1>3 DEF FREE_BLOCK, END_OF_CHAIN

\* The recursion of a walk has a value at each step.
LEMMA WalkSteps ==
    ASSUME NEW f, NEW b
    PROVE  /\ Walk(f, b)[0] = b
           /\ \A n \in 0..N : n # N =>
                  Walk(f, b)[n + 1] = IF Walk(f, b)[n] \in Blocks THEN f[Walk(f, b)[n]]
                                      ELSE Walk(f, b)[n]
  <1> DEFINE Up(g, i) == IF i = 0 THEN b ELSE IF g[i - 1] \in Blocks THEN f[g[i - 1]] ELSE g[i - 1]
             Solves(g, n) == g = [i \in 0..n |-> Up(g, i)]
             S == {n \in Nat : \E g : Solves(g, n)}
  <1>1. N \in Nat
    BY BlockNumbers
  <1>2. 0 \in S
    <2> DEFINE g == [i \in 0..0 |-> b]
    <2>1. \A i \in 0..0 : Up(g, i) = b
      OBVIOUS
    <2>2. g = [i \in 0..0 |-> Up(g, i)]
      <3> HIDE DEF Up
      <3> QED
        BY <2>1
    <2> QED
      BY <2>2
  <1>3. \A n \in 0..N : n # N /\ n \in S => n + 1 \in S
    <2> SUFFICES ASSUME NEW n \in Nat, n \in S PROVE n + 1 \in S
      BY <1>1
    <2>1. PICK h : Solves(h, n)
      OBVIOUS
    <2> DEFINE g == [i \in 0..n + 1 |-> IF i = n + 1 THEN Up(h, n + 1) ELSE h[i]]
    <2>2. \A i \in 0..n + 1 : i # 0 => g[i - 1] = h[i - 1]
      OBVIOUS
    <2>3. \A i \in 0..n + 1 : Up(g, i) = Up(h, i)
      BY <2>2
    <2>4. \A i \in 0..n + 1 : i # n + 1 => i \in 0..n
      OBVIOUS
    <2>5. \A i \in 0..n + 1 : g[i] = Up(h, i)
      <3> HIDE DEF Up
      <3>1. \A i \in 0..n : h[i] = Up(h, i)
        BY <2>1
      <3> QED
        BY <2>4, <3>1
    <2>6. g = [i \in 0..n + 1 |-> g[i]]
      OBVIOUS
    <2> HIDE DEF g, Up
    <2>7. Solves(g, n + 1)
      BY <2>3, <2>5, <2>6
    <2> QED
      BY <2>7
  <1>4. N \in S
    <2>1. N \in 0..N
      BY <1>1
    <2> HIDE DEF S
    <2> QED
      BY <1>1, <1>2, <1>3, <2>1, UpTo
  <1>5. Solves(Walk(f, b), N)
    <2>1. Walk(f, b) = CHOOSE g : Solves(g, N)
      BY DEF Walk, N
    <2> HIDE DEF Solves
    <2> QED
      BY <1>4, <2>1
  <1>6. \A i \in 0..N : Walk(f, b)[i] = Up(Walk(f, b), i)
    <2> HIDE DEF Up
    <2> QED
      BY <1>5
  <1>7. \A n \in 0..N : n # N => n + 1 \in 0..N /\ n + 1 # 0 /\ (n + 1) - 1 = n
    BY <1>1
  <1>8. 0 \in 0..N
    BY <1>1
  <1>9. Walk(f, b)[0] = b
    BY <1>6, <1>8
  <1>10. \A n \in 0..N : n # N => Walk(f, b)[n + 1] = Up(Walk(f, b), n + 1)
    <2> HIDE DEF Up
    <2> QED
      BY <1>6, <1>7
  <1> QED
    BY <1>7, <1>9, <1>10

\* Once a walk has left the table it stays where it is.
LEMMA WalkStays ==
    ASSUME NEW f, NEW b, NEW n \in 0..N, Walk(f, b)[n] \notin Blocks
    PROVE  \A m \in n..N : Walk(f, b)[m] = Walk(f, b)[n]
  <1> DEFINE at == Walk(f, b)
             S == {k \in 0..N : n <= k => at[k] = at[n]}
  <1> HIDE DEF at
  <1>1. N \in Nat
    BY BlockNumbers
  <1>2. \A k \in 0..N : k # N => at[k + 1] = IF at[k] \in Blocks THEN f[at[k]] ELSE at[k]
    BY WalkSteps DEF at
  <1>3. 0 \in S
    <2>1. 0 \in 0..N /\ (n <= 0 => n = 0)
      BY <1>1
    <2> QED
      BY <2>1
  <1>4. \A k \in 0..N : k # N /\ k \in S => k + 1 \in S
    <2> SUFFICES ASSUME NEW k \in 0..N, k # N, k \in S, n <= k + 1
                 PROVE  k + 1 \in 0..N /\ at[k + 1] = at[n]
      BY <1>1
    <2>1. k + 1 \in 0..N /\ (n <= k \/ n = k + 1)
      BY <1>1
    <2>2. CASE n = k + 1
      BY <2>1, <2>2
    <2>3. CASE n <= k
      <3>1. at[k] = at[n]
        BY <2>3
      <3>2. at[n] \notin Blocks
        BY DEF at
      <3> QED
        BY <1>2, <2>1, <3>1, <3>2
    <2> QED
      BY <2>1, <2>2, <2>3
  <1>5. \A k \in 0..N : k \in S
    <2> HIDE DEF S
    <2> QED
      BY <1>1, <1>3, <1>4, UpTo
  <1>6. \A m \in n..N : m \in 0..N /\ n <= m
    BY <1>1
  <1> QED
    BY <1>5, <1>6 DEF at

\* A walk along a table without rings leaves it.
LEMMA WalkEnds ==
    ASSUME NEW f, Acyclic(f), NEW b
    PROVE  Walk(f, b)[N] \notin Blocks
  <1> SUFFICES ASSUME Walk(f, b)[N] \in Blocks
               PROVE  FALSE
    OBVIOUS
  <1> DEFINE at == Walk(f, b)
  <1>1. N \in Nat
    BY BlockNumbers
  <1>2. \A k \in 0..N : k # N => at[k + 1] = IF at[k] \in Blocks THEN f[at[k]] ELSE at[k]
    BY WalkSteps
  <1>3. \A k \in 0..N : at[k] \in Blocks
    <2> SUFFICES ASSUME NEW k \in 0..N, at[k] \notin Blocks
                 PROVE  FALSE
      OBVIOUS
    <2>1. N \in k..N
      BY <1>1
    <2> QED
      BY <2>1, WalkStays
  <1> HIDE DEF at
  <1>4. PICK x \in 0..N, y \in 0..N : x # y /\ at[x] = at[y]
    <2> DEFINE g == [k \in 0..N |-> at[k]]
    <2>1. IsFiniteSet(0..N) /\ Cardinality(0..N) = N + 1
      <3>1. 0 \in Int /\ N \in Int
        BY <1>1
      <3> QED
        BY <1>1, <3>1, FS_Interval
    <2>2. IsFiniteSet(Blocks) /\ Cardinality(Blocks) < Cardinality(0..N)
      BY <1>1, <2>1, BlockNumbers
    <2>3. g \in [0..N -> Blocks]
      BY <1>3
    <2> HIDE DEF g
    <2>4. \E p, q \in 0..N : p # q /\ g[p] = g[q]
      BY <2>1, <2>2, <2>3, FS_PigeonHole
    <2> QED
      BY <2>4 DEF g
  <1>5. PICK i \in 0..N, j \in 0..N : i < j /\ at[i] = at[j]
    <2>1. x < y \/ y < x
      BY <1>1, <1>4
    <2> QED
      BY <1>4, <2>1
  <1> DEFINE S == {at[k] : k \in i..j - 1}
  <1>6. S \in SUBSET Blocks
    <2>1. \A k \in i..j - 1 : k \in 0..N
      BY <1>1
    <2> QED
      BY <1>3, <2>1
  <1>7. S # {}
    <2>1. i \in i..j - 1
      BY <1>5
    <2> QED
      BY <2>1
  <1>8. \A c \in S : f[c] \in S
    <2> SUFFICES ASSUME NEW k \in i..j - 1
                 PROVE  f[at[k]] \in S
      OBVIOUS
    <2>1. k \in 0..N /\ k # N
      BY <1>1
    <2>2. at[k + 1] = f[at[k]]
      BY <1>2, <1>3, <2>1
    <2>3. k + 1 \in i..j - 1 \/ k + 1 = j
      BY <1>1
    <2>4. i \in i..j - 1
      BY <1>5
    <2> QED
      BY <1>5, <2>2, <2>3, <2>4
  <1> HIDE DEF S
  <1> QED
    BY <1>6, <1>7, <1>8 DEF Acyclic

\* A chain has its first block and, with a block, the one it leads to.
LEMMA ChainClosed ==
    ASSUME NEW f, Acyclic(f), NEW b
    PROVE  /\ Chain(f, b) \subseteq Blocks
           /\ b \in Blocks => b \in Chain(f, b)
           /\ \A x \in Chain(f, b) : f[x] \in Blocks => f[x] \in Chain(f, b)
  <1> DEFINE at == Walk(f, b)
  <1>1. N \in Nat
    BY BlockNumbers
  <1>2. \A k \in 0..N : k # N => at[k + 1] = IF at[k] \in Blocks THEN f[at[k]] ELSE at[k]
    BY WalkSteps
  <1>3. at[N] \notin Blocks /\ at[0] = b
    BY WalkEnds, WalkSteps
  <1>4. Chain(f, b) = {at[k] : k \in 0..N} \cap Blocks
    BY DEF Chain, N
  <1> HIDE DEF at
  <1>5. b \in Blocks => b \in Chain(f, b)
    <2>1. 0 \in 0..N
      BY <1>1
    <2> QED
      BY <1>3, <1>4, <2>1
  <1>6. ASSUME NEW x \in Chain(f, b), f[x] \in Blocks
        PROVE  f[x] \in Chain(f, b)
    <2>1. PICK k \in 0..N : x = at[k]
      BY <1>4
    <2>2. k # N /\ x \in Blocks
      BY <1>3, <1>4, <2>1
    <2>3. at[k + 1] = f[x] /\ k + 1 \in 0..N
      BY <1>1, <1>2, <2>1, <2>2
    <2> QED
      BY <1>4, <1>6, <2>3
  <1> QED
    BY <1>4, <1>5, <1>6

\* A chain is within every set that has its first block and is closed.
LEMMA ChainWithin ==
    ASSUME NEW f, NEW b, NEW S, b \in Blocks => b \in S,
           \A x \in S : x \in Blocks /\ f[x] \in Blocks => f[x] \in S
    PROVE  Chain(f, b) \subseteq S
  <1> DEFINE at == Walk(f, b)
             G == {k \in 0..N : at[k] \in Blocks => at[k] \in S}
  <1>1. N \in Nat
    BY BlockNumbers
  <1>2. \A k \in 0..N : k # N => at[k + 1] = IF at[k] \in Blocks THEN f[at[k]] ELSE at[k]
    BY WalkSteps
  <1>3. at[0] = b
    BY WalkSteps
  <1>4. Chain(f, b) = {at[k] : k \in 0..N} \cap Blocks
    BY DEF Chain, N
  <1> HIDE DEF at
  <1>5. 0 \in G
    BY <1>1, <1>3
  <1>6. \A k \in 0..N : k # N /\ k \in G => k + 1 \in G
    <2> SUFFICES ASSUME NEW k \in 0..N, k # N, k \in G
                 PROVE  k + 1 \in G
      OBVIOUS
    <2>1. k + 1 \in 0..N
      BY <1>1
    <2> QED
      BY <1>2, <2>1
  <1>7. \A k \in 0..N : k \in G
    <2> HIDE DEF G
    <2> QED
      BY <1>1, <1>5, <1>6, UpTo
  <1> QED
    BY <1>4, <1>7

\* A chain has no more blocks than the table.
LEMMA ChainFinite ==
    ASSUME NEW f, NEW b
    PROVE  /\ IsFiniteSet(Chain(f, b))
           /\ Cardinality(Chain(f, b)) \in Nat /\ Cardinality(Chain(f, b)) <= N
  <1>1. Chain(f, b) \in SUBSET Blocks /\ IsFiniteSet(Blocks) /\ Cardinality(Blocks) = N
    BY BlockNumbers DEF Chain
  <1>2. IsFiniteSet(Chain(f, b)) /\ Cardinality(Chain(f, b)) <= N
    BY <1>1, FS_Subset
  <1> QED
    BY <1>2, FS_CardinalityType

\* A walk from a block leaves the table at an entry that is not a block; it
\* ends in END_OF_CHAIN unless the chain leads to a free block.
LEMMA ChainEnds ==
    ASSUME NEW f \in Fats, Acyclic(f), NEW b \in Blocks
    PROVE  /\ ChainEnd(f, b) \in {FREE_BLOCK, END_OF_CHAIN}
           /\ \E x \in Chain(f, b) : f[x] = ChainEnd(f, b)
           /\ ChainEnd(f, b) = END_OF_CHAIN <=> \A x \in Chain(f, b) : f[x] # FREE_BLOCK
  <1> DEFINE at == Walk(f, b)
             Out == {k \in 0..N : at[k] \notin Blocks}
  <1>1. N \in Nat /\ FREE_BLOCK # END_OF_CHAIN
        /\ FREE_BLOCK \notin Blocks /\ END_OF_CHAIN \notin Blocks
    BY BlockNumbers
  <1>2. \A k \in 0..N : k # N => at[k + 1] = IF at[k] \in Blocks THEN f[at[k]] ELSE at[k]
    BY WalkSteps
  <1>3. at[N] \notin Blocks /\ at[0] = b
    BY WalkEnds, WalkSteps
  <1>4. Chain(f, b) = {at[k] : k \in 0..N} \cap Blocks
    BY DEF Chain, N
  <1>5. ChainEnd(f, b) = at[N]
    BY <1>1 DEF ChainEnd, WalkAt, N
  <1>6. \A n \in 0..N : at[n] \notin Blocks => at[N] = at[n]
    <2> SUFFICES ASSUME NEW n \in 0..N, at[n] \notin Blocks
                 PROVE  at[N] = at[n]
      OBVIOUS
    <2>1. N \in n..N
      BY <1>1
    <2> QED
      BY <2>1, WalkStays
  <1> HIDE DEF at
  <1>7. \A x \in Blocks : f[x] \in Blocks \cup {FREE_BLOCK, END_OF_CHAIN}
    BY DEF Fats
  <1>8. PICK m \in Out : \A k \in Out : m <= k
    <2>1. Out \subseteq Nat
      OBVIOUS
    <2>2. N \in Out
      BY <1>1, <1>3
    <2> HIDE DEF Out
    <2> QED
      BY <2>1, <2>2, LeastOfNat
  <1>9. m \in 0..N /\ m # 0 /\ m - 1 \in 0..N /\ m - 1 # N /\ (m - 1) + 1 = m /\ ~(m <= m - 1)
    BY <1>1, <1>3
  <1>10. at[m - 1] \in Blocks
    BY <1>8, <1>9
  <1>11. f[at[m - 1]] = at[N] /\ at[m - 1] \in Chain(f, b)
    BY <1>2, <1>4, <1>6, <1>9, <1>10
  <1>12. at[N] \in {FREE_BLOCK, END_OF_CHAIN}
    BY <1>3, <1>7, <1>10, <1>11
  <1>13. ASSUME NEW x \in Chain(f, b), f[x] = FREE_BLOCK
         PROVE  at[N] = FREE_BLOCK
    <2>1. PICK k \in 0..N : x = at[k] /\ x \in Blocks
      BY <1>4
    <2>2. k # N
      BY <1>3, <2>1
    <2>3. at[k + 1] = FREE_BLOCK /\ k + 1 \in 0..N
      BY <1>1, <1>2, <1>13, <2>1, <2>2
    <2> QED
      BY <1>1, <1>6, <2>3
  <1> QED
    BY <1>1, <1>5, <1>11, <1>12, <1>13

\* Following fewer links than a chain has blocks leads to a block of it.
LEMMA WalkWithin ==
    ASSUME NEW f, NEW b, NEW k \in Nat, k < Cardinality(Chain(f, b))
    PROVE  WalkAt(f, b, k) \in Blocks
  <1> SUFFICES ASSUME WalkAt(f, b, k) \notin Blocks
               PROVE  FALSE
    OBVIOUS
  <1> DEFINE at == Walk(f, b)
             T == {at[i - 1] : i \in 1..k}
             g == [i \in 1..k |-> at[i - 1]]
  <1>1. N \in Nat /\ Cardinality(Chain(f, b)) \in Nat /\ Cardinality(Chain(f, b)) <= N
    BY BlockNumbers, ChainFinite
  <1>2. k \in 0..N /\ k < N
    BY <1>1
  <1>3. at[k] \notin Blocks
    BY <1>2 DEF WalkAt, N
  <1>4. \A m \in k..N : at[m] = at[k]
    BY <1>2, <1>3, WalkStays
  <1>5. Chain(f, b) = {at[m] : m \in 0..N} \cap Blocks
    BY DEF Chain, N
  <1> HIDE DEF at
  <1>6. Chain(f, b) \subseteq T
    <2> SUFFICES ASSUME NEW m \in 0..N, at[m] \in Blocks
                 PROVE  at[m] \in T
      BY <1>5
    <2>1. m \notin k..N
      BY <1>3, <1>4
    <2>2. m + 1 \in 1..k /\ (m + 1) - 1 = m
      BY <1>2, <2>1
    <2> QED
      BY <2>2
  <1>7. g \in Surjection(1..k, T)
    BY DEF Surjection
  <1> HIDE DEF T, g
  <1>8. IsFiniteSet(1..k) /\ Cardinality(1..k) = k
    <2>1. 1 \in Int /\ k \in Int
      OBVIOUS
    <2>2. IsFiniteSet(1..k) /\ Cardinality(1..k) = IF 1 > k THEN 0 ELSE k - 1 + 1
      BY <2>1, FS_Interval
    <2> QED
      BY <2>2
  <1>9. IsFiniteSet(T) /\ Cardinality(T) <= k
    BY <1>7, <1>8, FS_Surjection
  <1>10. Cardinality(Chain(f, b)) <= Cardinality(T)
    BY <1>6, <1>9, FS_Subset
  <1>11. Cardinality(T) \in Nat
    BY <1>9, FS_CardinalityType
  <1> QED
    BY <1>1, <1>9, <1>10, <1>11

-----------------------------------------------------------------------------
(* Changes of the table                                                      *)

\* A set of blocks has a greatest one.
LEMMA GreatestBlock ==
    ASSUME NEW S, S \subseteq Blocks, S # {}
    PROVE  \E m \in S : \A n \in S : n <= m
  <1> DEFINE T == {N - b : b \in S}
  <1>1. N \in Nat /\ \A b \in S : b \in Nat /\ b < N
    BY BlockNumbers DEF Blocks, N
  <1>2. T \subseteq Nat
    BY <1>1
  <1>3. T # {}
    OBVIOUS
  <1>4. PICK t \in T : \A u \in T : t <= u
    <2> HIDE DEF T
    <2> QED
      BY <1>2, <1>3, LeastOfNat
  <1>5. PICK m \in S : t = N - m
    OBVIOUS
  <1>6. ASSUME NEW n \in S
        PROVE  n <= m
    <2>1. N - m <= N - n
      BY <1>4, <1>5
    <2> QED
      BY <1>1, <2>1
  <1> QED
    BY <1>6

\* A table stays without rings when blocks of a set S are linked upwards among
\* themselves, and each other block keeps its entry, leads into S or nowhere.
LEMMA Detour ==
    ASSUME NEW f, Acyclic(f), NEW g, NEW S, S \subseteq Blocks,
           \A b \in S : g[b] \in Blocks => g[b] \in S /\ g[b] > b,
           \A b \in Blocks \ S : g[b] \in Blocks => g[b] = f[b] \/ g[b] \in S
    PROVE  Acyclic(g)
  <1> SUFFICES ASSUME NEW T \in SUBSET Blocks, T # {}, \A b \in T : g[b] \in T
               PROVE  FALSE
    BY DEF Acyclic
  <1>1. \A b \in T : b \in Nat /\ g[b] \in Blocks
    BY BlockNumbers
  <1>2. T \cap S = {}
    <2> SUFFICES ASSUME T \cap S # {}
                 PROVE  FALSE
      OBVIOUS
    <2>1. PICK m \in T \cap S : \A n \in T \cap S : n <= m
      BY GreatestBlock
    <2>2. g[m] \in T \cap S /\ g[m] > m
      BY <1>1
    <2> QED
      BY <1>1, <2>1, <2>2
  <1>3. \A b \in T : f[b] \in T
    BY <1>1, <1>2
  <1> QED
    BY <1>3 DEF Acyclic

\* It does when entries are only replaced by ends.
LEMMA Cut ==
    ASSUME NEW f, Acyclic(f), NEW g,
           \A b \in Blocks : g[b] \in Blocks => g[b] = f[b]
    PROVE  Acyclic(g)
  <1> SUFFICES ASSUME NEW T \in SUBSET Blocks, T # {}, \A b \in T : g[b] \in T
               PROVE  FALSE
    BY DEF Acyclic
  <1>1. \A b \in T : f[b] \in T
    OBVIOUS
  <1> QED
    BY <1>1 DEF Acyclic

\* What linking up the blocks of S makes of the table.
LEMMA LinkIs ==
    ASSUME NEW f \in Fats, NEW S, S \subseteq Blocks
    PROVE  /\ Link(f, S) \in Fats
           /\ \A b \in Blocks \ S : Link(f, S)[b] = f[b]
           /\ \A b \in S : \/ /\ Link(f, S)[b] = END_OF_CHAIN
                              /\ \A c \in S : c <= b
                           \/ /\ Link(f, S)[b] \in S /\ Link(f, S)[b] > b
                              /\ \A c \in S : c > b => Link(f, S)[b] <= c
  <1>1. ASSUME NEW b \in S
        PROVE  \/ /\ Link(f, S)[b] = END_OF_CHAIN
                  /\ \A c \in S : c <= b
               \/ /\ Link(f, S)[b] \in S /\ Link(f, S)[b] > b
                  /\ \A c \in S : c > b => Link(f, S)[b] <= c
    <2> DEFINE U == {c \in S : c > b}
    <2>1. b \in Blocks /\ S \subseteq Nat /\ U \subseteq Nat
      BY BlockNumbers
    <2>2. CASE U = {}
      <3>1. Link(f, S)[b] = END_OF_CHAIN
        BY <2>1, <2>2 DEF Link
      <3>2. \A c \in S : c <= b
        BY <2>1, <2>2
      <3> QED
        BY <3>1, <3>2
    <2>3. CASE U # {}
      <3>1. Link(f, S)[b] = Least(U)
        BY <2>1, <2>3 DEF Link
      <3> HIDE DEF U
      <3>2. Least(U) \in U /\ \A c \in U : Least(U) <= c
        BY <2>1, <2>3, LeastIs
      <3> QED
        BY <3>1, <3>2 DEF U
    <2> QED
      BY <2>2, <2>3
  <1>2. \A b \in Blocks \ S : Link(f, S)[b] = f[b]
    BY DEF Link
  <1>3. \A b \in Blocks : Link(f, S)[b] \in Blocks \cup {FREE_BLOCK, END_OF_CHAIN}
    BY <1>1, <1>2 DEF Fats
  <1>4. Link(f, S) = [b \in Blocks |-> Link(f, S)[b]]
    BY DEF Link
  <1>5. Link(f, S) \in Fats
    BY <1>3, <1>4 DEF Fats
  <1> QED
    BY <1>1, <1>2, <1>5

\* Linking a chain of its own makes no ring, nor does putting it behind a block
\* outside it.
LEMMA LinkAcyclic ==
    ASSUME NEW f \in Fats, Acyclic(f), NEW S, S \subseteq Blocks
    PROVE  /\ Acyclic(Link(f, S))
           /\ \A c \in Blocks \ S : S # {} =>
                  LET g == [Link(f, S) EXCEPT ![c] = Least(S)]
                  IN  g \in Fats /\ Acyclic(g)
  <1> DEFINE l == Link(f, S)
  <1>1. /\ l \in Fats /\ \A b \in Blocks \ S : l[b] = f[b]
        /\ \A b \in S : l[b] = END_OF_CHAIN \/ (l[b] \in S /\ l[b] > b)
    <2>1. /\ l \in Fats /\ \A b \in Blocks \ S : l[b] = f[b]
          /\ \A b \in S : \/ /\ l[b] = END_OF_CHAIN
                             /\ \A c \in S : c <= b
                          \/ /\ l[b] \in S /\ l[b] > b
                             /\ \A c \in S : c > b => l[b] <= c
      BY LinkIs
    <2> HIDE DEF l
    <2>2. ASSUME NEW b \in S
          PROVE  l[b] = END_OF_CHAIN \/ (l[b] \in S /\ l[b] > b)
      BY <2>1
    <2> QED
      BY <2>1, <2>2
  <1>2. END_OF_CHAIN \notin Blocks
    BY BlockNumbers
  <1> HIDE DEF l
  <1>3. Acyclic(l)
    BY <1>1, <1>2, Detour
  <1>4. ASSUME NEW c \in Blocks \ S, S # {}, NEW g, g = [l EXCEPT ![c] = Least(S)]
        PROVE  g \in Fats /\ Acyclic(g)
    <2>1. Least(S) \in S
      <3>1. S \subseteq Nat
        BY BlockNumbers
      <3> QED
        BY <1>4, <3>1, LeastIs
    <2>2. g \in Fats
      BY <1>1, <1>4, <2>1 DEF Fats
    <2>3. \A b \in Blocks : g[b] = IF b = c THEN Least(S) ELSE l[b]
      BY <1>1, <1>4 DEF Fats
    <2>4. \A b \in S : g[b] \in Blocks => g[b] \in S /\ g[b] > b
      BY <1>1, <1>2, <2>3
    <2>5. \A b \in Blocks \ S : g[b] \in Blocks => g[b] = f[b] \/ g[b] \in S
      BY <1>1, <2>1, <2>3
    <2> QED
      BY <2>2, <2>4, <2>5, Detour
  <1> QED
    BY <1>3, <1>4 DEF l

\* Taking blocks out of the chains makes no ring.
LEMMA FreedAcyclic ==
    ASSUME NEW f \in Fats, Acyclic(f), NEW C,
           NEW g, g = [b \in Blocks |-> IF b \in C THEN FREE_BLOCK ELSE f[b]]
    PROVE  g \in Fats /\ Acyclic(g)
  <1>1. g \in Fats
    BY DEF Fats
  <1>2. FREE_BLOCK \notin Blocks
    BY BlockNumbers
  <1>3. \A b \in Blocks : g[b] \in Blocks => g[b] = f[b]
    BY <1>2
  <1> QED
    BY <1>1, <1>3, Cut

Logs == [in_progress : BOOLEAN, file_idx : FileSlots \cup {-1},
         last_valid_block : Blocks \cup {-1}, first_new_block : Blocks \cup {-1}]

\* The rollback keeps the table one without rings, and done twice is as once.
LEMMA RollbackFat ==
    ASSUME NEW f \in Fats, Acyclic(f), NEW log \in Logs
    PROVE  LET g == transactionRollback(f, log)
           IN  g \in Fats /\ Acyclic(g) /\ transactionRollback(g, log) = g
  <1> DEFINE first == log.first_new_block
             last == log.last_valid_block
             C == Chain(f, first)
             h == clearNewAllocatedBlocks(f, log)
             g == transactionRollback(f, log)
  <1>1. first \in Blocks \cup {-1} /\ last \in Blocks \cup {-1}
    BY DEF Logs
  <1>2. h = [b \in Blocks |-> IF b \in C THEN FREE_BLOCK ELSE f[b]]
    BY DEF clearNewAllocatedBlocks
  <1>3. h \in Fats /\ Acyclic(h)
    BY <1>2, FreedAcyclic
  <1>4. g = IF last = -1 THEN h ELSE [h EXCEPT ![last] = END_OF_CHAIN]
    BY DEF transactionRollback
  <1>5. transactionRollback(g, log) =
            LET h2 == [b \in Blocks |-> IF b \in Chain(g, first) THEN FREE_BLOCK ELSE g[b]]
            IN  IF last = -1 THEN h2 ELSE [h2 EXCEPT ![last] = END_OF_CHAIN]
    BY DEF transactionRollback, clearNewAllocatedBlocks
  <1>6. first \in Blocks => first \in C
    BY ChainClosed
  <1>7. FREE_BLOCK \notin Blocks /\ END_OF_CHAIN \notin Blocks /\ -1 \notin Blocks
    BY BlockNumbers
  <1> HIDE DEF first, last, C, h, g
  <1>8. g \in Fats
    BY <1>1, <1>3, <1>4 DEF Fats
  <1>9. \A b \in Blocks : g[b] = IF b = last THEN END_OF_CHAIN
                                 ELSE IF b \in C THEN FREE_BLOCK ELSE f[b]
    BY <1>1, <1>2, <1>4, <1>7
  <1>10. Acyclic(g)
    <2>1. \A b \in Blocks : g[b] \in Blocks => g[b] = f[b]
      BY <1>7, <1>9
    <2> QED
      BY <2>1, Cut
  <1>11. Chain(g, first) \subseteq {first}
    <2>1. \A x \in {first} : x \in Blocks /\ g[x] \in Blocks => g[x] \in {first}
      BY <1>6, <1>7, <1>9
    <2> QED
      BY <2>1, ChainWithin
  <1>12. Chain(g, first) \subseteq C
    BY <1>6, <1>11 DEF Chain
  <1>13. \A b \in Blocks : transactionRollback(g, log)[b] = g[b]
    BY <1>1, <1>5, <1>7, <1>9, <1>12
  <1>14. transactionRollback(g, log) = [b \in Blocks |-> transactionRollback(g, log)[b]]
    BY <1>5
  <1>15. g = [b \in Blocks |-> g[b]]
    BY <1>8 DEF Fats
  <1>16. transactionRollback(g, log) = g
    BY <1>13, <1>14, <1>15
  <1> QED
    BY <1>8, <1>10, <1>16 DEF g

Tables == [FileSlots -> Descriptor]

\* The same for the descriptors.
LEMMA RollbackTable ==
    ASSUME NEW fds \in Tables, NEW log \in Logs
    PROVE  LET g == restoreOriginalFileSize(fds, log)
           IN  g \in Tables /\ restoreOriginalFileSize(g, log) = g
  <1> DEFINE g == restoreOriginalFileSize(fds, log)
             idx == log.file_idx
             last == log.last_valid_block
             size == (last + 1) * BLOCK_SIZE
             Skip == idx = -1 \/ last = -1
  <1>1. idx \in FileSlots \cup {-1} /\ last \in Blocks \cup {-1}
    BY DEF Logs
  <1>2. CASE Skip
    <2>1. g = fds
      BY <1>2 DEF restoreOriginalFileSize
    <2> QED
      BY <2>1
  <1>3. CASE ~Skip
    <2>1. idx \in FileSlots /\ last \in Blocks
      BY <1>1, <1>3
    <2>2. size \in Int
      <3>1. last \in Nat /\ BLOCK_SIZE \in Nat
        BY <2>1, BlockNumbers, SizesAssumption
      <3> QED
        BY <3>1
    <2>3. \A t : restoreOriginalFileSize(t, log) = [t EXCEPT ![idx].size = size]
      BY <1>3 DEF restoreOriginalFileSize
    <2> HIDE DEF idx, last, size
    <2>4. fds[idx] \in Descriptor
      BY <2>1 DEF Tables
    <2> DEFINE d == [fds[idx] EXCEPT !.size = size]
    <2>5. d \in Descriptor
      BY <2>2, <2>4 DEF Descriptor
    <2>6. [d EXCEPT !.size = size] = d
      BY <2>2, <2>4 DEF Descriptor
    <2>7. g = [fds EXCEPT ![idx] = d]
      BY <2>3
    <2> HIDE DEF d, g
    <2>8. g \in Tables /\ g[idx] = d
      BY <2>1, <2>5, <2>7 DEF Tables
    <2>9. restoreOriginalFileSize(g, log) = [g EXCEPT ![idx] = d]
      BY <2>3, <2>6, <2>8
    <2>10. [g EXCEPT ![idx] = d] = g
      BY <2>1, <2>8 DEF Tables
    <2> QED
      BY <2>8, <2>9, <2>10 DEF g
  <1> QED
    BY <1>2, <1>3

-----------------------------------------------------------------------------
(* What changes of the table make of chains                                  *)

\* A chain whose blocks keep their entries is the same chain.
LEMMA SameChain ==
    ASSUME NEW f, Acyclic(f), NEW g, Acyclic(g), NEW b,
           \A x \in Chain(f, b) : g[x] = f[x]
    PROVE  Chain(g, b) = Chain(f, b)
  <1>1. /\ b \in Blocks => b \in Chain(f, b) /\ b \in Chain(g, b)
        /\ \A x \in Chain(f, b) : f[x] \in Blocks => f[x] \in Chain(f, b)
        /\ \A x \in Chain(g, b) : g[x] \in Blocks => g[x] \in Chain(g, b)
    BY ChainClosed
  <1>2. Chain(g, b) \subseteq Chain(f, b)
    <2>1. \A x \in Chain(f, b) : x \in Blocks /\ g[x] \in Blocks => g[x] \in Chain(f, b)
      BY <1>1
    <2> QED
      BY <1>1, <2>1, ChainWithin
  <1>3. Chain(f, b) \subseteq Chain(f, b) \cap Chain(g, b)
    <2> DEFINE D == Chain(f, b) \cap Chain(g, b)
    <2>1. \A x \in D : x \in Blocks /\ f[x] \in Blocks => f[x] \in D
      BY <1>1
    <2>2. b \in Blocks => b \in D
      BY <1>1
    <2> HIDE DEF D
    <2>3. Chain(f, b) \subseteq D
      BY ONLY <2>1, <2>2, ChainWithin
    <2> QED
      BY <2>3 DEF D
  <1> QED
    BY <1>2, <1>3

\* A set linked upwards is the chain that begins at its least block.
LEMMA LinkedChain ==
    ASSUME NEW f \in Fats, NEW S, S \subseteq Blocks, S # {}, NEW g, Acyclic(g),
           \A x \in S : g[x] = Link(f, S)[x]
    PROVE  Chain(g, Least(S)) = S
  <1> DEFINE C == Chain(g, Least(S))
  <1>1. S \subseteq Nat /\ END_OF_CHAIN \notin Blocks
    BY BlockNumbers
  <1>2. Least(S) \in S /\ \A x \in S : Least(S) <= x
    BY <1>1, LeastIs
  <1>3. \A x \in S : \/ /\ g[x] = END_OF_CHAIN
                        /\ \A c \in S : c <= x
                     \/ /\ g[x] \in S /\ g[x] > x
                        /\ \A c \in S : c > x => g[x] <= c
    BY LinkIs
  <1>4. C \subseteq S
    <2>1. \A x \in S : x \in Blocks /\ g[x] \in Blocks => g[x] \in S
      BY <1>1, <1>3
    <2> QED
      BY <1>2, <2>1, ChainWithin
  <1>5. Least(S) \in C /\ \A x \in C : g[x] \in Blocks => g[x] \in C
    BY <1>2, ChainClosed
  <1> HIDE DEF C
  <1>6. S \ C = {}
    <2> DEFINE M == S \ C
    <2> SUFFICES ASSUME M # {}
                 PROVE  FALSE
      OBVIOUS
    <2>1. M \subseteq Nat
      BY <1>1
    <2>2. PICK x \in M : \A y \in M : x <= y
      <3> HIDE DEF M
      <3> QED
        BY <2>1, LeastOfNat
    <2> DEFINE P == {y \in S : y < x}
    <2>3. Least(S) \in P
      <3>1. x \in S /\ x \notin C
        OBVIOUS
      <3>2. Least(S) # x /\ Least(S) <= x
        BY <1>2, <1>5, <3>1
      <3>3. x \in Nat /\ Least(S) \in Nat
        BY <1>1, <1>2, <3>1
      <3>4. Least(S) < x
        BY <3>2, <3>3
      <3> QED
        BY <1>2, <3>4
    <2>4. P \subseteq Blocks /\ P # {}
      BY <2>3
    <2>5. PICK y \in P : \A z \in P : z <= y
      <3> HIDE DEF P
      <3> QED
        BY <2>4, GreatestBlock
    <2>6. y \in S /\ y < x /\ x \in S /\ x \in Nat /\ y \in Nat
      BY <1>1
    <2>7. y \in C
      BY <2>2, <2>6
    <2>8. g[y] \in S /\ g[y] > y /\ g[y] <= x
      BY <1>3, <2>6
    <2>9. g[y] \in Nat /\ ~(g[y] < x)
      <3>1. g[y] \in Nat
        BY <1>1, <2>8
      <3>2. ASSUME g[y] < x
            PROVE  g[y] <= y
        BY <2>5, <2>8, <3>2
      <3> QED
        BY <2>6, <2>8, <3>1, <3>2
    <2>10. g[y] = x
      BY <2>6, <2>8, <2>9
    <2> QED
      BY <1>5, <2>6, <2>7, <2>10
  <1> QED
    BY <1>4, <1>6 DEF C

\* A chain with another one put behind its last block.
LEMMA GrownChain ==
    ASSUME NEW f \in Fats, Acyclic(f), NEW b \in Blocks, NEW S, S \subseteq Blocks, S # {},
           S \cap Chain(f, b) = {}, NEW c \in Chain(f, b), f[c] = END_OF_CHAIN,
           NEW g, g \in Fats, Acyclic(g), g[c] = Least(S),
           \A x \in S : g[x] = Link(f, S)[x],
           \A x \in Blocks \ S : x # c => g[x] = f[x]
    PROVE  Chain(g, b) = Chain(f, b) \cup S
  <1> DEFINE C == Chain(f, b)
             D == Chain(g, b)
  <1>1. /\ c \in Blocks \ S /\ C \subseteq Blocks /\ b \in C
        /\ \A x \in C : f[x] \in Blocks => f[x] \in C
    BY ChainClosed
  <1>2. g \in Fats /\ Acyclic(g)
    OBVIOUS
  <1>3. /\ \A x \in S : g[x] = Link(f, S)[x]
        /\ \A x \in Blocks \ S : x # c => g[x] = f[x]
        /\ g[c] = Least(S)
    OBVIOUS
  <1>4. Least(S) \in S
    <2>1. S \subseteq Nat
      BY BlockNumbers
    <2> QED
      BY <2>1, LeastIs
  <1>5. Chain(g, Least(S)) = S
    <2>1. Acyclic(g) /\ \A x \in S : g[x] = Link(f, S)[x]
      BY <1>2, <1>3
    <2> QED
      BY ONLY f \in Fats, S \subseteq Blocks, S # {}, <2>1, LinkedChain
  <1>6. b \in D /\ \A x \in D : g[x] \in Blocks => g[x] \in D
    BY <1>2, ChainClosed
  <1>7. \A x \in S : g[x] \in Blocks => g[x] \in S
    BY <1>2, <1>4, <1>5, ChainClosed
  <1>8. END_OF_CHAIN \notin Blocks
    BY BlockNumbers
  <1>9. D \subseteq C \cup S
    <2>1. \A x \in C \cup S : x \in Blocks /\ g[x] \in Blocks => g[x] \in C \cup S
      BY <1>1, <1>3, <1>4, <1>7
    <2>2. b \in C \cup S
      BY <1>1
    <2> DEFINE U == C \cup S
    <2> HIDE DEF U
    <2>3. b \in U /\ \A x \in U : x \in Blocks /\ g[x] \in Blocks => g[x] \in U
      BY <2>1, <2>2 DEF U
    <2>4. D \subseteq U
      BY <2>3, ChainWithin
    <2> QED
      BY <2>4 DEF U
  <1>10. C \subseteq D
    <2>1. \A x \in C \cap D : x \in Blocks /\ f[x] \in Blocks => f[x] \in C \cap D
      BY <1>1, <1>3, <1>6, <1>8
    <2>2. b \in C \cap D
      BY <1>1, <1>6
    <2> HIDE DEF C, D
    <2>3. C \subseteq C \cap D
      BY <2>1, <2>2, ChainWithin DEF C
    <2> QED
      BY <2>3
  <1>11. S \subseteq D
    <2>1. Least(S) \in D
      BY <1>3, <1>4, <1>6, <1>10
    <2>2. \A x \in D : x \in Blocks /\ g[x] \in Blocks => g[x] \in D
      BY <1>6
    <2> HIDE DEF D
    <2>3. Chain(g, Least(S)) \subseteq D
      BY <2>1, <2>2, ChainWithin
    <2> QED
      BY <1>5, <2>3
  <1> QED
    BY <1>9, <1>10, <1>11

-----------------------------------------------------------------------------
(* Files that divide up the used blocks                                      *)

ChainOf(f, fds, i) == Chain(f, fds[i].starting_block)

\* The chain of a descriptor is long enough for the size it gives.
FileSound(f, d) ==
    /\ d.starting_block \in Blocks
    /\ d.size \in Nat
    /\ BlocksFor(d.size) <= Cardinality(Chain(f, d.starting_block))

\* What FilesPartitionBlocks says, of any table f and cnt files in fds, block by
\* block; and the descriptors behind the files are empty.
Sound(f, fds, cnt) ==
    /\ \A i \in 0..cnt - 1 : FileSound(f, fds[i])
    /\ \A i, j \in 0..cnt - 1 :
           i # j => /\ ChainOf(f, fds, i) \cap ChainOf(f, fds, j) = {}
                    /\ fds[i].name # fds[j].name
    /\ \A x \in Blocks : f[x] # FREE_BLOCK <=> \E i \in 0..cnt - 1 : x \in ChainOf(f, fds, i)
    /\ \A j \in FileSlots : j >= cnt => fds[j] = emptyFileDescriptor

\* A new file made of free blocks.
LEMMA CreateSound ==
    ASSUME NEW f \in Fats, Acyclic(f), NEW fds \in Tables, NEW cnt \in FileSlots,
           Sound(f, fds, cnt),
           NEW S, S \subseteq Free(f), S # {},
           NEW n, \A i \in FileSlots : fds[i].name # n,
           NEW size \in Nat, BlocksFor(size) <= Cardinality(S),
           NEW d, d = [name |-> n, starting_block |-> Least(S), size |-> size]
    PROVE  Sound(Link(f, S), [fds EXCEPT ![cnt] = d], cnt + 1)
  <1> DEFINE g == Link(f, S)
             t == [fds EXCEPT ![cnt] = d]
  <1>1. S \subseteq Blocks /\ \A x \in S : f[x] = FREE_BLOCK
    BY DEF Free
  <1>2. /\ g \in Fats /\ Acyclic(g) /\ \A x \in Blocks \ S : g[x] = f[x]
        /\ \A x \in S : g[x] # FREE_BLOCK
    <2>1. g \in Fats /\ Acyclic(g) /\ \A x \in Blocks \ S : g[x] = f[x]
      BY <1>1, LinkIs, LinkAcyclic
    <2>2. \A x \in S : g[x] = END_OF_CHAIN \/ g[x] \in S
      BY <1>1, LinkIs
    <2> QED
      BY <1>1, <2>1, <2>2, BlockNumbers
  <1>3. /\ cnt \in Nat /\ 0..(cnt + 1) - 1 = 0..cnt
        /\ \A i \in 0..cnt : i = cnt \/ i \in 0..cnt - 1
        /\ \A i \in 0..cnt - 1 : i \in 0..cnt /\ i # cnt
    BY DEF FileSlots
  <1>4. \A i \in 0..cnt : i \in FileSlots
    BY SizesAssumption DEF FileSlots
  <1>5. t[cnt] = d /\ \A i \in FileSlots : i # cnt => t[i] = fds[i]
    BY DEF Tables
  <1>6. Chain(g, Least(S)) = S
    BY <1>1, <1>2, LinkedChain
  <1>7. Least(S) \in S
    <2>1. S \subseteq Nat
      BY <1>1, BlockNumbers
    <2> QED
      BY <2>1, LeastIs
  <1> HIDE DEF g, t
  <1>8. ASSUME NEW i \in 0..cnt - 1
        PROVE  /\ t[i] = fds[i] /\ ChainOf(g, t, i) = ChainOf(f, fds, i)
               /\ ChainOf(f, fds, i) \cap S = {} /\ ChainOf(f, fds, i) \subseteq Blocks
    <2>1. t[i] = fds[i]
      BY <1>3, <1>4, <1>5
    <2>2. ChainOf(f, fds, i) \subseteq Blocks
      BY DEF ChainOf, Chain
    <2>3. \A x \in ChainOf(f, fds, i) : f[x] # FREE_BLOCK
      BY <2>2 DEF Sound
    <2>4. \A x \in ChainOf(f, fds, i) : g[x] = f[x] /\ x \notin S
      BY <1>1, <1>2, <2>2, <2>3
    <2>5. Chain(g, fds[i].starting_block) = Chain(f, fds[i].starting_block)
      BY <1>2, <2>4, SameChain DEF ChainOf
    <2> QED
      BY <2>1, <2>2, <2>4, <2>5 DEF ChainOf
  <1>9. ChainOf(g, t, cnt) = S
    BY <1>5, <1>6 DEF ChainOf
  <1>10. \A i \in 0..cnt : FileSound(g, t[i])
    <2>1. FileSound(g, t[cnt])
      BY <1>1, <1>5, <1>6, <1>7 DEF FileSound
    <2>2. ASSUME NEW i \in 0..cnt - 1
          PROVE  FileSound(g, t[i])
      <3>1. FileSound(f, fds[i])
        BY DEF Sound
      <3> QED
        BY <1>8, <3>1 DEF FileSound, ChainOf
    <2> QED
      BY <1>3, <2>1, <2>2
  <1>11. ASSUME NEW i \in 0..cnt, NEW j \in 0..cnt, i # j
         PROVE  ChainOf(g, t, i) \cap ChainOf(g, t, j) = {} /\ t[i].name # t[j].name
    <2>1. CASE i \in 0..cnt - 1 /\ j \in 0..cnt - 1
      BY <1>8, <1>11, <2>1 DEF Sound
    <2>2. CASE i \in 0..cnt - 1 /\ j = cnt
      <3>1. t[i].name # n
        BY <1>4, <1>8, <2>2
      <3> QED
        BY <1>5, <1>8, <1>9, <2>2, <3>1
    <2>3. CASE j \in 0..cnt - 1 /\ i = cnt
      <3>1. t[j].name # n
        BY <1>4, <1>8, <2>3
      <3> QED
        BY <1>5, <1>8, <1>9, <2>3, <3>1
    <2> QED
      BY <1>3, <1>11, <2>1, <2>2, <2>3
  <1>12. ASSUME NEW x \in Blocks
         PROVE  g[x] # FREE_BLOCK <=> \E i \in 0..cnt : x \in ChainOf(g, t, i)
    <2>1. CASE x \in S
      BY <1>2, <1>3, <1>9, <2>1
    <2>2. CASE x \notin S
      <3>1. g[x] = f[x]
        BY <1>2, <2>2
      <3>2. f[x] # FREE_BLOCK <=> \E i \in 0..cnt - 1 : x \in ChainOf(f, fds, i)
        BY DEF Sound
      <3> QED
        BY <1>3, <1>8, <1>9, <2>2, <3>1, <3>2
    <2> QED
      BY <2>1, <2>2
  <1>13. \A j \in FileSlots : j >= cnt + 1 => t[j] = emptyFileDescriptor
    <2> SUFFICES ASSUME NEW j \in FileSlots, j >= cnt + 1
                 PROVE  t[j] = emptyFileDescriptor
      OBVIOUS
    <2>1. j # cnt /\ j >= cnt
      BY <1>3 DEF FileSlots
    <2> QED
      BY <1>5, <2>1 DEF Sound
  <1>14. Sound(g, t, cnt + 1)
    BY <1>3, <1>10, <1>11, <1>12, <1>13 DEF Sound
  <1> QED
    BY <1>14 DEF g, t

\* A file whose size changes but not its blocks.
LEMMA ResizeSound ==
    ASSUME NEW f, NEW fds \in Tables, NEW cnt \in 0..NUM_FILES, Sound(f, fds, cnt),
           NEW k \in 0..cnt - 1, NEW size \in Nat,
           BlocksFor(size) <= Cardinality(ChainOf(f, fds, k))
    PROVE  Sound(f, [fds EXCEPT ![k].size = size], cnt)
  <1> DEFINE t == [fds EXCEPT ![k].size = size]
  <1>1. \A i \in 0..cnt - 1 : i \in FileSlots
    BY SizesAssumption DEF FileSlots
  <1>2. \A i \in FileSlots : fds[i] \in Descriptor
    BY DEF Tables
  <1>3. \A i \in FileSlots : /\ t[i].starting_block = fds[i].starting_block
                             /\ t[i].name = fds[i].name
                             /\ t[i].size = IF i = k THEN size ELSE fds[i].size
                             /\ i # k => t[i] = fds[i]
    BY <1>2 DEF Tables, Descriptor
  <1> HIDE DEF t
  <1>4. \A i \in 0..cnt - 1 : ChainOf(f, t, i) = ChainOf(f, fds, i)
    BY <1>1, <1>3 DEF ChainOf
  <1>5. ASSUME NEW i \in 0..cnt - 1
        PROVE  FileSound(f, t[i])
    <2>1. FileSound(f, fds[i])
      BY DEF Sound
    <2>2. CASE i = k
      BY <1>1, <1>3, <2>1, <2>2 DEF FileSound, ChainOf
    <2>3. CASE i # k
      BY <1>1, <1>3, <2>1, <2>3
    <2> QED
      BY <2>2, <2>3
  <1>6. ASSUME NEW i \in 0..cnt - 1, NEW j \in 0..cnt - 1, i # j
        PROVE  ChainOf(f, t, i) \cap ChainOf(f, t, j) = {} /\ t[i].name # t[j].name
    BY <1>1, <1>3, <1>4, <1>6 DEF Sound
  <1>7. \A x \in Blocks : f[x] # FREE_BLOCK <=> \E i \in 0..cnt - 1 : x \in ChainOf(f, t, i)
    BY <1>4 DEF Sound
  <1>8. \A j \in FileSlots : j >= cnt => t[j] = emptyFileDescriptor
    <2> SUFFICES ASSUME NEW j \in FileSlots, j >= cnt
                 PROVE  t[j] = emptyFileDescriptor
      OBVIOUS
    <2>1. j # k
      BY SizesAssumption DEF FileSlots
    <2> QED
      BY <1>3, <2>1 DEF Sound
  <1>9. Sound(f, t, cnt)
    BY <1>5, <1>6, <1>7, <1>8 DEF Sound
  <1> QED
    BY <1>9 DEF t

\* A file that gets free blocks behind its last one.
LEMMA GrowSound ==
    ASSUME NEW f \in Fats, Acyclic(f), NEW fds \in Tables, NEW cnt \in 0..NUM_FILES,
           Sound(f, fds, cnt), NEW k \in 0..cnt - 1,
           NEW S, S \subseteq Free(f), S # {},
           NEW c \in ChainOf(f, fds, k), f[c] = END_OF_CHAIN,
           NEW g, g = [Link(f, S) EXCEPT ![c] = Least(S)],
           NEW size \in Nat, BlocksFor(size) <= Cardinality(ChainOf(f, fds, k)) + Cardinality(S)
    PROVE  /\ Sound(g, [fds EXCEPT ![k].size = size], cnt)
           /\ BlocksFor(size) <= Cardinality(ChainOf(g, fds, k))
  <1> DEFINE C == ChainOf(f, fds, k)
  <1>1. /\ S \subseteq Blocks /\ \A x \in S : f[x] = FREE_BLOCK
        /\ FREE_BLOCK # END_OF_CHAIN /\ FREE_BLOCK \notin Blocks
    BY BlockNumbers DEF Free
  <1>2. \A i \in 0..cnt - 1 : /\ ChainOf(f, fds, i) \subseteq Blocks
                              /\ \A x \in ChainOf(f, fds, i) : f[x] # FREE_BLOCK
    <2>1. \A i \in 0..cnt - 1 : ChainOf(f, fds, i) \subseteq Blocks
      BY DEF ChainOf, Chain
    <2> QED
      BY <2>1 DEF Sound
  <1>3. c \in Blocks \ S
    BY <1>1, <1>2
  <1>4. g \in Fats /\ Acyclic(g)
    BY <1>1, <1>3, LinkAcyclic
  <1>5. Least(S) \in S
    <2>1. S \subseteq Nat
      BY <1>1, BlockNumbers
    <2> QED
      BY <2>1, LeastIs
  <1>6. \A x \in Blocks : g[x] = IF x = c THEN Least(S) ELSE Link(f, S)[x]
    <2>1. Link(f, S) \in Fats
      BY <1>1, LinkIs
    <2> QED
      BY <1>3, <2>1 DEF Fats
  <1>7. /\ \A x \in Blocks \ S : x # c => g[x] = f[x]
        /\ \A x \in S : g[x] # FREE_BLOCK
        /\ g[c] # FREE_BLOCK
    <2>1. /\ \A x \in Blocks \ S : Link(f, S)[x] = f[x]
          /\ \A x \in S : Link(f, S)[x] = END_OF_CHAIN \/ Link(f, S)[x] \in S
      BY <1>1, LinkIs
    <2>2. \A x \in Blocks \ S : x # c => g[x] = f[x]
      BY <1>6, <2>1
    <2>3. \A x \in S : g[x] # FREE_BLOCK
      BY <1>1, <1>3, <1>6, <2>1
    <2>4. g[c] # FREE_BLOCK
      BY <1>1, <1>3, <1>5, <1>6
    <2> QED
      BY <2>2, <2>3, <2>4
  <1>8. C \cap S = {}
    BY <1>1, <1>2
  <1>9. ChainOf(g, fds, k) = C \cup S
    <2> DEFINE b == fds[k].starting_block
    <2>1. b \in Blocks
      BY DEF Sound, FileSound
    <2>2. C = Chain(f, b) /\ ChainOf(g, fds, k) = Chain(g, b)
      BY DEF ChainOf
    <2> HIDE DEF C, b
    <2>3. S \cap Chain(f, b) = {} /\ S \subseteq Blocks /\ c \in Chain(f, b)
      BY <1>1, <1>8, <2>2 DEF C
    <2>4. Chain(g, b) = Chain(f, b) \cup S
      <3>1. /\ g[c] = Least(S) /\ \A x \in S : g[x] = Link(f, S)[x]
            /\ \A x \in Blocks \ S : x # c => g[x] = f[x]
        BY <1>1, <1>3, <1>6, <1>7
      <3> QED
        BY ONLY f \in Fats, Acyclic(f), S # {}, f[c] = END_OF_CHAIN,
                <1>4, <2>1, <2>3, <3>1, GrownChain
    <2> QED
      BY <2>2, <2>4
  <1>10. \A i \in 0..cnt - 1 : i # k => ChainOf(g, fds, i) = ChainOf(f, fds, i)
    <2> SUFFICES ASSUME NEW i \in 0..cnt - 1, i # k
                 PROVE  ChainOf(g, fds, i) = ChainOf(f, fds, i)
      OBVIOUS
    <2>1. ChainOf(f, fds, i) \cap C = {}
      BY DEF Sound
    <2>2. \A x \in ChainOf(f, fds, i) : g[x] = f[x]
      BY <1>1, <1>2, <1>7, <2>1
    <2> DEFINE b == fds[i].starting_block
    <2>3. \A x \in Chain(f, b) : g[x] = f[x]
      BY <2>2 DEF ChainOf
    <2> HIDE DEF b
    <2>4. Chain(g, b) = Chain(f, b)
      BY ONLY Acyclic(f), <1>4, <2>3, SameChain
    <2> QED
      BY <2>4 DEF b, ChainOf
  <1>11. /\ Cardinality(C) <= Cardinality(C \cup S)
         /\ BlocksFor(size) <= Cardinality(C \cup S)
    <2>1. IsFiniteSet(C) /\ IsFiniteSet(S)
      <3>1. IsFiniteSet(Blocks) /\ S \in SUBSET Blocks
        BY <1>1, BlockNumbers
      <3> QED
        BY <3>1, FS_Subset, ChainFinite DEF ChainOf
    <2>2. Cardinality(C \cup S) = Cardinality(C) + Cardinality(S) - Cardinality(C \cap S)
      BY <2>1, FS_Union
    <2>3. Cardinality(C \cap S) = 0
      BY <1>8, FS_EmptySet
    <2>4. Cardinality(C) \in Nat /\ Cardinality(S) \in Nat
      BY <2>1, FS_CardinalityType
    <2> QED
      BY <2>2, <2>3, <2>4
  <1> HIDE DEF C
  <1>12. ASSUME NEW i \in 0..cnt - 1
         PROVE  FileSound(g, fds[i])
    <2>1. FileSound(f, fds[i])
      BY DEF Sound
    <2>2. CASE i # k
      BY <1>10, <2>1, <2>2 DEF FileSound, ChainOf
    <2>3. CASE i = k
      <3>1. fds[k].size \in Nat /\ BlocksFor(fds[k].size) <= Cardinality(C)
        BY <2>1, <2>3 DEF FileSound, ChainOf, C
      <3>2. BlocksFor(fds[k].size) \in Nat
        BY <3>1, SizesAssumption DEF BlocksFor
      <3>3. Cardinality(C) \in Nat /\ Cardinality(C \cup S) \in Nat
        <4>1. IsFiniteSet(C) /\ Cardinality(C) \in Nat
          BY ChainFinite DEF C, ChainOf
        <4>2. Cardinality(ChainOf(g, fds, k)) \in Nat
          BY ChainFinite DEF ChainOf
        <4> QED
          BY <1>9, <4>1, <4>2
      <3>4. BlocksFor(fds[k].size) <= Cardinality(C \cup S)
        BY <1>11, <3>1, <3>2, <3>3
      <3> QED
        BY <1>9, <2>1, <2>3, <3>4 DEF FileSound, ChainOf
    <2> QED
      BY <2>2, <2>3
  <1>13. ASSUME NEW i \in 0..cnt - 1, NEW j \in 0..cnt - 1, i # j
         PROVE  ChainOf(g, fds, i) \cap ChainOf(g, fds, j) = {} /\ fds[i].name # fds[j].name
    <2>1. /\ ChainOf(f, fds, i) \cap ChainOf(f, fds, j) = {}
          /\ fds[i].name # fds[j].name
      BY <1>13 DEF Sound
    <2>2. \A m \in 0..cnt - 1 : ChainOf(f, fds, m) \cap S = {}
      BY <1>1, <1>2
    <2> QED
      BY <1>9, <1>10, <1>13, <2>1, <2>2 DEF C
  <1>14. ASSUME NEW x \in Blocks
         PROVE  g[x] # FREE_BLOCK <=> \E i \in 0..cnt - 1 : x \in ChainOf(g, fds, i)
    <2>1. f[x] # FREE_BLOCK <=> \E i \in 0..cnt - 1 : x \in ChainOf(f, fds, i)
      BY DEF Sound
    <2>2. CASE x \in S
      BY <1>7, <1>9, <2>2
    <2>3. CASE x = c
      BY <1>7, <1>9, <2>3 DEF C
    <2>4. CASE x \notin S /\ x # c
      <3>1. g[x] = f[x]
        BY <1>7, <2>4
      <3>2. \A i \in 0..cnt - 1 : x \in ChainOf(g, fds, i) <=> x \in ChainOf(f, fds, i)
        BY <1>9, <1>10, <2>4 DEF C
      <3> QED
        BY <2>1, <3>1, <3>2
    <2> QED
      BY <2>2, <2>3, <2>4
  <1>15. \A j \in FileSlots : j >= cnt => fds[j] = emptyFileDescriptor
    BY DEF Sound
  <1>16. Sound(g, fds, cnt)
    BY <1>12, <1>13, <1>14, <1>15 DEF Sound
  <1>17. BlocksFor(size) <= Cardinality(ChainOf(g, fds, k))
    BY <1>9, <1>11
  <1> QED
    BY <1>16, <1>17, ResizeSound

\* Deleting the first file: its blocks are freed, the descriptors move up.
LEMMA DeleteSound ==
    ASSUME NEW f \in Fats, Acyclic(f), NEW fds \in Tables,
           NEW cnt \in 1..NUM_FILES - 1, Sound(f, fds, cnt),
           NEW g, g = [b \in Blocks |-> IF b \in ChainOf(f, fds, 0) THEN FREE_BLOCK ELSE f[b]],
           NEW t, t = [j \in FileSlots |->
                          IF j < cnt - 1 THEN fds[j + 1]
                          ELSE IF j = cnt - 1 THEN emptyFileDescriptor
                          ELSE fds[j]]
    PROVE  Sound(g, t, cnt - 1)
  <1> DEFINE C == ChainOf(f, fds, 0)
  <1>1. /\ \A i \in 0..(cnt - 1) - 1 : /\ i + 1 \in 0..cnt - 1 /\ i + 1 # 0
                                      /\ i \in FileSlots /\ i < cnt - 1
        /\ \A i, j \in 0..(cnt - 1) - 1 : i # j => i + 1 # j + 1
        /\ \A i \in 0..cnt - 1 : i = 0 \/ (i - 1 \in 0..(cnt - 1) - 1 /\ (i - 1) + 1 = i)
        /\ 0 \in 0..cnt - 1
    BY SizesAssumption DEF FileSlots
  <1>2. g \in Fats /\ Acyclic(g)
    BY FreedAcyclic
  <1>3. \A x \in Blocks : g[x] = IF x \in C THEN FREE_BLOCK ELSE f[x]
    OBVIOUS
  <1> HIDE DEF C
  <1>4. ASSUME NEW i \in 0..(cnt - 1) - 1
        PROVE  /\ t[i] = fds[i + 1] /\ ChainOf(g, t, i) = ChainOf(f, fds, i + 1)
               /\ ChainOf(f, fds, i + 1) \cap C = {} /\ ChainOf(f, fds, i + 1) \subseteq Blocks
    <2>1. t[i] = fds[i + 1]
      BY <1>1
    <2>2. ChainOf(f, fds, i + 1) \subseteq Blocks
      BY DEF ChainOf, Chain
    <2>3. ChainOf(f, fds, i + 1) \cap C = {}
      BY <1>1 DEF Sound, C
    <2>4. \A x \in ChainOf(f, fds, i + 1) : g[x] = f[x]
      BY <1>3, <2>2, <2>3
    <2>5. Chain(g, fds[i + 1].starting_block) = Chain(f, fds[i + 1].starting_block)
      BY <1>2, <2>4, SameChain DEF ChainOf
    <2> QED
      BY <2>1, <2>2, <2>3, <2>5 DEF ChainOf
  <1>5. ASSUME NEW i \in 0..(cnt - 1) - 1
        PROVE  FileSound(g, t[i])
    <2>1. FileSound(f, fds[i + 1])
      BY <1>1 DEF Sound
    <2> QED
      BY <1>4, <2>1 DEF FileSound, ChainOf
  <1>6. ASSUME NEW i \in 0..(cnt - 1) - 1, NEW j \in 0..(cnt - 1) - 1, i # j
        PROVE  ChainOf(g, t, i) \cap ChainOf(g, t, j) = {} /\ t[i].name # t[j].name
    <2>1. i + 1 \in 0..cnt - 1 /\ j + 1 \in 0..cnt - 1 /\ i + 1 # j + 1
      BY <1>1, <1>6
    <2>2. /\ ChainOf(f, fds, i + 1) \cap ChainOf(f, fds, j + 1) = {}
          /\ fds[i + 1].name # fds[j + 1].name
      BY <2>1 DEF Sound
    <2> QED
      BY <1>4, <2>2
  <1>7. ASSUME NEW x \in Blocks
        PROVE  g[x] # FREE_BLOCK <=> \E i \in 0..(cnt - 1) - 1 : x \in ChainOf(g, t, i)
    <2>1. f[x] # FREE_BLOCK <=> \E i \in 0..cnt - 1 : x \in ChainOf(f, fds, i)
      BY DEF Sound
    <2>2. CASE x \in C
      <3>1. g[x] = FREE_BLOCK
        BY <1>3, <2>2
      <3>2. \A i \in 0..(cnt - 1) - 1 : x \notin ChainOf(g, t, i)
        BY <1>4, <2>2
      <3> QED
        BY <3>1, <3>2
    <2>3. CASE x \notin C
      <3>1. g[x] = f[x]
        BY <1>3, <2>3
      <3>2. ASSUME NEW i \in 0..cnt - 1, x \in ChainOf(f, fds, i)
            PROVE  \E j \in 0..(cnt - 1) - 1 : x \in ChainOf(g, t, j)
        <4>1. i # 0
          BY <2>3, <3>2 DEF C
        <4>2. i - 1 \in 0..(cnt - 1) - 1 /\ (i - 1) + 1 = i
          BY <1>1, <4>1
        <4>3. ChainOf(g, t, i - 1) = ChainOf(f, fds, i)
          BY <1>4, <4>2
        <4> QED
          BY <3>2, <4>2, <4>3
      <3>3. ASSUME NEW j \in 0..(cnt - 1) - 1, x \in ChainOf(g, t, j)
            PROVE  \E i \in 0..cnt - 1 : x \in ChainOf(f, fds, i)
        BY <1>1, <1>4, <3>3
      <3> QED
        BY <2>1, <3>1, <3>2, <3>3
    <2> QED
      BY <2>2, <2>3
  <1>8. ASSUME NEW j \in FileSlots, j >= cnt - 1
        PROVE  t[j] = emptyFileDescriptor
    <2>1. j \in Nat
      BY DEF FileSlots
    <2>2. CASE j = cnt - 1
      BY <2>1, <2>2
    <2>3. CASE j # cnt - 1
      <3>1. j >= cnt /\ ~(j < cnt - 1)
        BY <1>8, <2>1, <2>3
      <3>2. t[j] = fds[j]
        BY <2>3, <3>1
      <3> QED
        BY <3>1, <3>2 DEF Sound
    <2> QED
      BY <2>2, <2>3
  <1> QED
    BY <1>5, <1>6, <1>7, <1>8 DEF Sound

-----------------------------------------------------------------------------
(* The inductive invariant                                                   *)

OpenFile == [idx : FileSlots \cup {-1}, offset : Nat]

\* What may be written to the disk.
Writes ==
    [file : {"fat"}, value : {f \in Fats : Acyclic(f)}]
        \cup [file : {"fd_table"}, value : Tables]
        \cup [file : {"log"}, value : Logs]
        \cup [file : {"file_count"}, value : 0..NUM_FILES]

Typed ==
    /\ fat \in Fats /\ Acyclic(fat)
    /\ fd_table \in Tables
    /\ file_count \in 0..NUM_FILES
    /\ open_file_fd_table \in [OpenSlots -> OpenFile]
    /\ disk \in [fat : Fats, fd_table : Tables, log : Logs, file_count : 0..NUM_FILES]
    /\ Acyclic(disk.fat)
    /\ pending \in Seq(Writes)
    /\ booting \in BOOLEAN /\ defined \in BOOLEAN /\ intact \in BOOLEAN

\* The slots of a table of open files that are in use.
UsedSlots(t) == {s \in OpenSlots : t[s].idx # NO_OPENED_FILE}

OpenCounted == opened_file_count = Cardinality(UsedSlots(open_file_fd_table))

\* How far saveToDisk() has come: the files written so far have what is in RAM.
Left0 == pending = <<Put("fat", fat), Put("fd_table", fd_table), Put("log", emptyLog),
                     Put("file_count", file_count)>>
Left1 == /\ pending = <<Put("fd_table", fd_table), Put("log", emptyLog),
                        Put("file_count", file_count)>>
         /\ disk.fat = fat
Left2 == /\ pending = <<Put("log", emptyLog), Put("file_count", file_count)>>
         /\ disk.fat = fat /\ disk.fd_table = fd_table
Left3 == /\ pending = <<Put("file_count", file_count)>>
         /\ disk.fat = fat /\ disk.fd_table = fd_table /\ disk.log = emptyLog
Left4 == /\ pending = << >>
         /\ disk.fat = fat /\ disk.fd_table = fd_table /\ disk.log = emptyLog
         /\ disk.file_count = file_count

\* write() of a growing file saves its log before it saves the rest.
LogThenSaves ==
    \/ \E l \in Logs :
           pending = <<Put("log", l),
                       Put("fat", fat), Put("fd_table", fd_table), Put("log", emptyLog),
                       Put("file_count", file_count)>>
    \/ \E l, m \in Logs :
           pending = <<Put("log", l), Put("log", m),
                       Put("fat", fat), Put("fd_table", fd_table), Put("log", emptyLog),
                       Put("file_count", file_count)>>

\* While the constructor saves, a new start would find what it has found.
BootAgrees ==
    booting /\ defined =>
        /\ Restored = [fat |-> fat, fd_table |-> fd_table, file_count |-> file_count]
        /\ Left0 \/ Left1 \/ Left2 \/ Left3

\* What is still to be written brings the disk to what is in RAM.
SavesAgree ==
    intact /\ defined => Left0 \/ Left1 \/ Left2 \/ Left3 \/ Left4 \/ LogThenSaves

SoundNow == intact /\ defined => Sound(fat, fd_table, file_count)

IInv == Typed /\ OpenCounted /\ BootAgrees /\ SavesAgree /\ SoundNow

-----------------------------------------------------------------------------
(* Saving and restoring                                                      *)

\* The empty log is a log that asks for nothing.
LEMMA EmptyLog == emptyLog \in Logs /\ ~emptyLog.in_progress
  BY DEF emptyLog, Logs

\* What saveToDisk() writes is fit for the disk.
LEMMA SavesTyped ==
    ASSUME NEW f \in Fats, Acyclic(f), NEW t \in Tables, NEW c \in 0..NUM_FILES
    PROVE  /\ saveToDisk(f, t, c) \in Seq(Writes)
           /\ saveToDisk(f, t, c) = <<Put("fat", f), Put("fd_table", t), Put("log", emptyLog),
                                      Put("file_count", c)>>
  <1>1. Put("fat", f) \in Writes
    BY DEF Put, Writes
  <1>2. Put("fd_table", t) \in Writes
    BY DEF Put, Writes
  <1>3. Put("log", emptyLog) \in Writes
    BY EmptyLog DEF Put, Writes
  <1>4. Put("file_count", c) \in Writes
    BY DEF Put, Writes
  <1>5. saveToDisk(f, t, c) = <<Put("fat", f), Put("fd_table", t), Put("log", emptyLog),
                                Put("file_count", c)>>
    BY DEF saveToDisk
  <1> QED
    BY <1>1, <1>2, <1>3, <1>4, <1>5

\* Logs are fit for the disk.
LEMMA LogsTyped ==
    ASSUME NEW l \in Logs
    PROVE  Put("log", l) \in Writes
  BY DEF Put, Writes

\* What the constructor starts from has the right types, and no ring.
LEMMA RestoredTyped ==
    ASSUME Typed
    PROVE  /\ Restored.fat \in Fats /\ Acyclic(Restored.fat)
           /\ Restored.fd_table \in Tables
           /\ Restored.file_count \in 0..NUM_FILES /\ Restored.file_count = disk.file_count
           /\ Restored = [fat |-> Restored.fat, fd_table |-> Restored.fd_table,
                          file_count |-> Restored.file_count]
  <1>1. /\ disk.fat \in Fats /\ Acyclic(disk.fat) /\ disk.fd_table \in Tables
        /\ disk.log \in Logs /\ disk.file_count \in 0..NUM_FILES
    BY DEF Typed
  <1>2. CASE disk.log.in_progress
    <2>1. /\ transactionRollback(disk.fat, disk.log) \in Fats
          /\ Acyclic(transactionRollback(disk.fat, disk.log))
          /\ restoreOriginalFileSize(disk.fd_table, disk.log) \in Tables
      BY <1>1, RollbackFat, RollbackTable
    <2> QED
      BY <1>1, <1>2, <2>1 DEF Restored
  <1>3. CASE ~disk.log.in_progress
    BY <1>1, <1>3 DEF Restored
  <1> QED
    BY <1>2, <1>3

\* When the constructor finds what is in RAM, it still does with any file of it
\* saved that comes before the log.
LEMMA RestoredAgain ==
    ASSUME NEW f \in Fats, Acyclic(f), NEW t \in Tables, NEW log \in Logs,
           NEW g, g = transactionRollback(f, log),
           NEW u, u = restoreOriginalFileSize(t, log)
    PROVE  transactionRollback(g, log) = g /\ restoreOriginalFileSize(u, log) = u
  BY RollbackFat, RollbackTable

\* Where the next call begins: nothing is left to write.
LEMMA AtReady ==
    ASSUME IInv, Ready
    PROVE  /\ ~booting /\ defined /\ pending = << >>
           /\ intact => Left4 /\ Sound(fat, fd_table, file_count)
  <1>1. defined /\ pending = << >>
    BY DEF Ready
  <1>2. ~Left0 /\ ~Left1 /\ ~Left2 /\ ~Left3
    BY <1>1 DEF Left0, Left1, Left2, Left3
  <1>3. ~LogThenSaves
    BY <1>1 DEF LogThenSaves
  <1> QED
    BY <1>1, <1>2, <1>3 DEF IInv, BootAgrees, SavesAgree, SoundNow, Typed

\* The names found are those of files, which have descriptors.
LEMMA FileFound ==
    ASSUME Typed, NEW n, IndicesOf(n) # {}
    PROVE  /\ findFileIndexByName(n) \in IndicesOf(n)
           /\ findFileIndexByName(n) \in Files
           /\ findFileIndexByName(n) \in FileSlots /\ file_count \in 1..NUM_FILES
           /\ \A i \in IndicesOf(n) : findFileIndexByName(n) <= i
  <1>1. IndicesOf(n) \subseteq Files /\ Files \subseteq Nat /\ Files \subseteq FileSlots
    BY SizesAssumption DEF Typed, IndicesOf, Files, FileSlots
  <1>2. /\ findFileIndexByName(n) \in IndicesOf(n)
        /\ \A i \in IndicesOf(n) : findFileIndexByName(n) <= i
    <2>1. IndicesOf(n) \subseteq Nat
      BY <1>1
    <2> QED
      BY <2>1, LeastIs DEF findFileIndexByName
  <1>3. file_count \in 1..NUM_FILES
    BY <1>1, <1>2, SizesAssumption DEF Files, Typed
  <1> QED
    BY <1>1, <1>2, <1>3

-----------------------------------------------------------------------------
(* Open files                                                                *)

\* The slots can be counted.
LEMMA SlotsFinite ==
    /\ IsFiniteSet(OpenSlots) /\ OpenSlots \subseteq Nat
    /\ \A t : IsFiniteSet(UsedSlots(t)) /\ UsedSlots(t) \subseteq OpenSlots
  <1>1. 0 \in Int /\ NUM_OPENED_FILES - 1 \in Int
    BY SizesAssumption
  <1>2. IsFiniteSet(OpenSlots) /\ OpenSlots \subseteq Nat
    BY <1>1, FS_Interval DEF OpenSlots
  <1>3. \A t : UsedSlots(t) \in SUBSET OpenSlots
    BY DEF UsedSlots
  <1> QED
    BY <1>2, <1>3, FS_Subset

\* Filling a free slot.
LEMMA SlotFilled ==
    ASSUME NEW t \in [OpenSlots -> OpenFile], NEW s \in OpenSlots, t[s].idx = NO_OPENED_FILE,
           NEW x \in OpenFile, x.idx # NO_OPENED_FILE,
           NEW u, u = [t EXCEPT ![s] = x]
    PROVE  /\ u \in [OpenSlots -> OpenFile]
           /\ Cardinality(UsedSlots(u)) = Cardinality(UsedSlots(t)) + 1
  <1>1. u \in [OpenSlots -> OpenFile] /\ u[s] = x /\ \A r \in OpenSlots : r # s => u[r] = t[r]
    OBVIOUS
  <1>2. UsedSlots(u) = UsedSlots(t) \cup {s} /\ s \notin UsedSlots(t)
    BY <1>1 DEF UsedSlots
  <1> QED
    BY <1>1, <1>2, SlotsFinite, FS_AddElement

\* Emptying slots in use.
LEMMA SlotsEmptied ==
    ASSUME NEW t \in [OpenSlots -> OpenFile], NEW M, M \subseteq UsedSlots(t),
           NEW u, DOMAIN u = OpenSlots, u = [s \in OpenSlots |-> u[s]],
           \A s \in OpenSlots : u[s] = IF s \in M THEN emptyOpenedFile ELSE t[s]
    PROVE  /\ u \in [OpenSlots -> OpenFile]
           /\ Cardinality(UsedSlots(u)) = Cardinality(UsedSlots(t)) - Cardinality(M)
           /\ Cardinality(M) \in Nat
  <1>1. emptyOpenedFile \in OpenFile /\ emptyOpenedFile.idx = NO_OPENED_FILE
    BY DEF emptyOpenedFile, OpenFile, NO_OPENED_FILE
  <1>2. u \in [OpenSlots -> OpenFile]
    BY <1>1
  <1>3. UsedSlots(u) = UsedSlots(t) \ M
    BY <1>1 DEF UsedSlots
  <1>4. IsFiniteSet(UsedSlots(t)) /\ UsedSlots(t) \cap M = M
    BY SlotsFinite
  <1>5. Cardinality(UsedSlots(t) \ M) = Cardinality(UsedSlots(t)) - Cardinality(UsedSlots(t) \cap M)
    BY <1>4, FS_Difference
  <1>6. IsFiniteSet(M)
    BY <1>4, FS_Subset
  <1> QED
    BY <1>2, <1>3, <1>4, <1>5, <1>6, FS_CardinalityType

-----------------------------------------------------------------------------
(* Steps                                                                     *)

\* A program that has left its arrays.
LEMMA UndefinedKeeps ==
    ASSUME IInv, Undefined
    PROVE  IInv'
  <1>1. defined' = FALSE /\ UNCHANGED <<ram, disk, pending, booting, intact>>
    BY DEF Undefined
  <1>2. Typed'
    BY <1>1 DEF IInv, Typed, ram
  <1>3. OpenCounted'
    BY <1>1 DEF IInv, OpenCounted, ram
  <1> QED
    BY <1>1, <1>2, <1>3 DEF IInv, BootAgrees, SavesAgree, SoundNow

\* create(): the new chain is made of free blocks.
LEMMA createKeeps ==
    ASSUME IInv, NEW n \in Names, NEW size \in Sizes, create(n, size)
    PROVE  IInv'
  <1> DEFINE needed == IF size = 0 THEN 1 ELSE BlocksFor(size)
             S == firstFreeBlocks(fat, needed)
             d == [name |-> n, starting_block |-> Least(S), size |-> size]
  <1>1. /\ Ready /\ file_count < NUM_FILES /\ ~duplicateName(n)
        /\ Cardinality(S) = needed
        /\ fat' = Link(fat, S)
        /\ fd_table' = [fd_table EXCEPT ![file_count] = d]
        /\ file_count' = file_count + 1
        /\ pending' = saveToDisk(fat', fd_table', file_count')
        /\ UNCHANGED <<open_file_fd_table, opened_file_count, disk, booting, defined, intact>>
    BY DEF create
  <1>2. ~booting /\ defined /\ (intact => Sound(fat, fd_table, file_count))
    BY <1>1, AtReady
  <1>3. Typed
    BY DEF IInv
  <1>4. size \in Nat /\ needed \in Nat \ {0} /\ BlocksFor(size) <= needed
    BY SizesAssumption DEF BlocksFor
  <1>5. S \subseteq Free(fat) /\ Free(fat) \subseteq Blocks
    BY DEF firstFreeBlocks, Free
  <1> HIDE DEF S, needed
  <1>6. S # {} /\ Least(S) \in Blocks
    <2>1. S # {}
      BY <1>1, <1>4, FS_EmptySet
    <2>2. S \subseteq Nat
      BY <1>5, BlockNumbers
    <2> QED
      BY <1>5, <2>1, <2>2, LeastIs
  <1>7. d \in Descriptor
    BY <1>4, <1>6 DEF Descriptor
  <1>8. d.name = n /\ d.size = size /\ d.starting_block = Least(S)
        /\ d = [name |-> n, starting_block |-> Least(S), size |-> size]
    OBVIOUS
  <1> HIDE DEF d
  <1>9. /\ file_count \in FileSlots /\ file_count' \in 0..NUM_FILES
    BY <1>1, <1>3, SizesAssumption DEF Typed, FileSlots
  <1>10. fat' \in Fats /\ Acyclic(fat')
    <2>1. fat \in Fats /\ Acyclic(fat) /\ S \subseteq Blocks
      BY <1>3, <1>5 DEF Typed
    <2> QED
      BY <1>1, <2>1, LinkIs, LinkAcyclic
  <1>11. fd_table' \in Tables
    BY <1>1, <1>3, <1>7, <1>9 DEF Typed, Tables
  <1>12. pending' \in Seq(Writes) /\ Left0'
    <2>1. \A f, t, c : f \in Fats /\ Acyclic(f) /\ t \in Tables /\ c \in 0..NUM_FILES =>
            /\ saveToDisk(f, t, c) \in Seq(Writes)
            /\ saveToDisk(f, t, c) = <<Put("fat", f), Put("fd_table", t), Put("log", emptyLog),
                                       Put("file_count", c)>>
      BY SavesTyped
    <2> QED
      BY <1>1, <1>9, <1>10, <1>11, <2>1 DEF Left0
  <1>13. Typed'
    BY <1>1, <1>3, <1>9, <1>10, <1>11, <1>12 DEF Typed
  <1>14. OpenCounted'
    BY <1>1 DEF IInv, OpenCounted
  <1>15. BootAgrees' /\ SavesAgree'
    BY <1>1, <1>2, <1>12 DEF BootAgrees, SavesAgree
  <1>16. SoundNow'
    <2> SUFFICES ASSUME intact
                 PROVE  Sound(Link(fat, S), [fd_table EXCEPT ![file_count] = d], file_count + 1)
      BY <1>1 DEF SoundNow
    <2>1. fat \in Fats /\ Acyclic(fat) /\ fd_table \in Tables
      BY <1>3 DEF Typed
    <2>2. \A i \in FileSlots : fd_table[i].name # n
      BY <1>1 DEF duplicateName
    <2>3. BlocksFor(size) <= Cardinality(S)
      BY <1>1, <1>4
    <2>4. Sound(fat, fd_table, file_count)
      BY <1>2
    <2> QED
      BY ONLY <1>4, <1>5, <1>6, <1>8, <1>9, <2>1, <2>2, <2>3, <2>4, CreateSound
  <1> QED
    BY <1>13, <1>14, <1>15, <1>16 DEF IInv

\* A step that changes nothing but the table of open files.
LEMMA OnlyOpenFiles ==
    ASSUME IInv, Ready, open_file_fd_table' \in [OpenSlots -> OpenFile], OpenCounted',
           UNCHANGED <<fat, fd_table, file_count, disk, pending, booting, defined, intact>>
    PROVE  IInv'
  <1>1. ~booting /\ (intact => Left4)
    BY AtReady
  <1>2. Typed'
    BY DEF IInv, Typed
  <1>3. BootAgrees'
    BY <1>1 DEF BootAgrees
  <1>4. SavesAgree'
    BY <1>1 DEF SavesAgree, Left4
  <1>5. SoundNow'
    BY DEF IInv, SoundNow
  <1> QED
    BY <1>2, <1>3, <1>4, <1>5 DEF IInv

\* open(): one more slot in use.
LEMMA openKeeps ==
    ASSUME IInv, NEW n \in Names, open(n)
    PROVE  IInv'
  <1>1. CASE FreeOpenSlots # {} /\ ~Undefined
    <2> DEFINE s == Least(FreeOpenSlots)
               x == [idx |-> findFileIndexByName(n), offset |-> 0]
    <2>1. /\ Ready /\ IndicesOf(n) # {}
          /\ open_file_fd_table' = [open_file_fd_table EXCEPT ![s] = x]
          /\ opened_file_count' = opened_file_count + 1
          /\ UNCHANGED <<fat, fd_table, file_count, disk, pending, booting, defined, intact>>
      BY <1>1 DEF open
    <2>2. s \in OpenSlots /\ open_file_fd_table[s].idx = NO_OPENED_FILE
      <3>1. FreeOpenSlots \subseteq Nat
        BY SlotsFinite DEF FreeOpenSlots
      <3>2. s \in FreeOpenSlots
        BY <1>1, <3>1, LeastIs
      <3> QED
        BY <3>2 DEF FreeOpenSlots
    <2>3. x \in OpenFile /\ x.idx # NO_OPENED_FILE
      <3>1. findFileIndexByName(n) \in FileSlots
        BY <2>1, FileFound DEF IInv
      <3> QED
        BY <3>1 DEF OpenFile, FileSlots, NO_OPENED_FILE
    <2>4. open_file_fd_table \in [OpenSlots -> OpenFile]
      BY DEF IInv, Typed
    <2> HIDE DEF s, x
    <2>5. /\ open_file_fd_table' \in [OpenSlots -> OpenFile]
          /\ Cardinality(UsedSlots(open_file_fd_table')) =
                 Cardinality(UsedSlots(open_file_fd_table)) + 1
      BY <2>1, <2>2, <2>3, <2>4, SlotFilled
    <2>6. OpenCounted'
      BY <2>1, <2>5 DEF IInv, OpenCounted
    <2> QED
      BY <2>1, <2>5, <2>6, OnlyOpenFiles
  <1> QED
    BY <1>1, UndefinedKeeps DEF open

\* close(): one slot fewer in use.
LEMMA closeKeeps ==
    ASSUME IInv, NEW n \in Names, close(n)
    PROVE  IInv'
  <1>1. CASE OpenSlotsOf(n) # {} /\ ~Undefined
    <2> DEFINE s == Least(OpenSlotsOf(n))
    <2>1. /\ Ready
          /\ open_file_fd_table' = [open_file_fd_table EXCEPT ![s] = emptyOpenedFile]
          /\ opened_file_count' = opened_file_count - 1
          /\ UNCHANGED <<fat, fd_table, file_count, disk, pending, booting, defined, intact>>
      BY <1>1 DEF close
    <2>2. s \in OpenSlots /\ s \in UsedSlots(open_file_fd_table)
      <3>1. OpenSlotsOf(n) \subseteq Nat
        BY SlotsFinite DEF OpenSlotsOf
      <3>2. s \in OpenSlotsOf(n)
        BY <1>1, <3>1, LeastIs
      <3>3. s \in OpenSlots /\ open_file_fd_table[s].idx \in Files
        BY <3>2 DEF OpenSlotsOf
      <3>4. NO_OPENED_FILE \notin Files
        BY DEF Files, NO_OPENED_FILE, IInv, Typed
      <3> QED
        BY <3>3, <3>4 DEF UsedSlots
    <2>4. open_file_fd_table \in [OpenSlots -> OpenFile]
      BY DEF IInv, Typed
    <2> HIDE DEF s
    <2>5. /\ open_file_fd_table' \in [OpenSlots -> OpenFile]
          /\ Cardinality(UsedSlots(open_file_fd_table')) =
                 Cardinality(UsedSlots(open_file_fd_table)) - Cardinality({s})
      <3> DEFINE u == open_file_fd_table'
                 M == {s}
      <3>1. /\ DOMAIN u = OpenSlots /\ u = [r \in OpenSlots |-> u[r]]
            /\ \A r \in OpenSlots : u[r] = IF r \in M THEN emptyOpenedFile
                                           ELSE open_file_fd_table[r]
        BY <2>1, <2>4
      <3>2. M \subseteq UsedSlots(open_file_fd_table)
        BY <2>2
      <3> HIDE DEF u, M
      <3>3. /\ u \in [OpenSlots -> OpenFile]
            /\ Cardinality(UsedSlots(u)) =
                   Cardinality(UsedSlots(open_file_fd_table)) - Cardinality(M)
        BY <2>4, <3>1, <3>2, SlotsEmptied
      <3> QED
        BY <3>3 DEF u, M
    <2>6. OpenCounted'
      BY <2>1, <2>5, FS_Singleton DEF IInv, OpenCounted
    <2> QED
      BY <2>1, <2>5, <2>6, OnlyOpenFiles
  <1> QED
    BY <1>1, UndefinedKeeps DEF close

\* Moving the offset of an open file on.
LEMMA OffsetMoved ==
    ASSUME NEW t \in [OpenSlots -> OpenFile], NEW e \in OpenSlots,
           NEW x \in OpenFile, x.idx = t[e].idx,
           NEW u, u = [t EXCEPT ![e] = x]
    PROVE  u \in [OpenSlots -> OpenFile] /\ UsedSlots(u) = UsedSlots(t)
  <1>1. x \in OpenFile /\ x.idx = t[e].idx
    OBVIOUS
  <1>2. u = [t EXCEPT ![e] = x]
    OBVIOUS
  <1>3. u \in [OpenSlots -> OpenFile] /\ u[e] = x /\ \A s \in OpenSlots : s # e => u[s] = t[s]
    BY ONLY t \in [OpenSlots -> OpenFile], e \in OpenSlots, <1>1, <1>2
  <1>4. \A s \in OpenSlots : u[s].idx = t[s].idx
    BY <1>1, <1>3
  <1> QED
    BY <1>3, <1>4 DEF UsedSlots

\* read(): the offset stays within the file.
LEMMA readKeeps ==
    ASSUME IInv, NEW n \in Names, NEW size \in Sizes \ {0}, read(n, size)
    PROVE  IInv'
  <1> DEFINE e == EntryIndex(n)
             offset == Entry(n).offset
             fsize == fd_table[Entry(n).idx].size
             count == IF offset + size > fsize THEN fsize - offset ELSE size
  <1>1. CASE ~Undefined
    <2>1. /\ Ready /\ e \in OpenSlots /\ Entry(n).idx # NO_OPENED_FILE /\ offset <= fsize
          /\ open_file_fd_table' = [open_file_fd_table EXCEPT ![e].offset = @ + count]
          /\ UNCHANGED <<fat, fd_table, file_count, opened_file_count, disk, pending,
                         booting, defined, intact>>
      BY <1>1 DEF read
    <2>2. open_file_fd_table \in [OpenSlots -> OpenFile] /\ fd_table \in Tables
      BY DEF IInv, Typed
    <2>3. Entry(n) \in OpenFile
      BY <2>1, <2>2 DEF Entry
    <2>4. offset \in Nat /\ Entry(n).idx \in FileSlots
      BY <2>1, <2>3 DEF OpenFile, NO_OPENED_FILE
    <2>5. fsize \in Int
      BY <2>2, <2>4 DEF Tables, Descriptor
    <2>6. size \in Nat
      BY SizesAssumption
    <2>7. count \in Nat
      <3> HIDE DEF offset, fsize
      <3> QED
        BY <2>1, <2>4, <2>5, <2>6
    <2> HIDE DEF e, count
    <2>8. /\ open_file_fd_table' \in [OpenSlots -> OpenFile]
          /\ UsedSlots(open_file_fd_table') = UsedSlots(open_file_fd_table)
      <3> DEFINE t == open_file_fd_table
                 x == [t[e] EXCEPT !.offset = t[e].offset + count]
                 u == [t EXCEPT ![e] = x]
      <3>1. open_file_fd_table' = u
        BY <2>1
      <3>2. t \in [OpenSlots -> OpenFile]
        BY <2>2
      <3>3. x \in OpenFile /\ x.idx = t[e].idx
        <4>1. t[e] \in OpenFile
          BY <2>1, <3>2
        <4> HIDE DEF t
        <4> QED
          BY <2>7, <4>1 DEF OpenFile
      <3> HIDE DEF t, x
      <3>4. u = [t EXCEPT ![e] = x]
        OBVIOUS
      <3> HIDE DEF u
      <3>5. u \in [OpenSlots -> OpenFile] /\ UsedSlots(u) = UsedSlots(t)
        BY <2>1, <3>2, <3>3, <3>4, OffsetMoved
      <3> QED
        BY <3>1, <3>5 DEF t
    <2>9. OpenCounted'
      BY <2>1, <2>8 DEF IInv, OpenCounted
    <2> QED
      BY <2>1, <2>8, <2>9, OnlyOpenFiles
  <1> QED
    BY <1>1, UndefinedKeeps DEF read

-----------------------------------------------------------------------------
(* Writing                                                                   *)

\* The log a growing file saves is in front of the rest.
LEMMA OneInFront ==
    \A l, a, b, c, d : <<l>> \o <<a, b, c, d>> = <<l, a, b, c, d>>
  <1> SUFFICES ASSUME NEW l, NEW a, NEW b, NEW c, NEW d
               PROVE  <<l>> \o <<a, b, c, d>> = <<l, a, b, c, d>>
    OBVIOUS
  <1> DEFINE p == <<l>>
             q == <<a, b, c, d>>
             y == <<l, a, b, c, d>>
             S == {l, a, b, c, d}
             x == p \o q
  <1>1. p \in Seq(S) /\ Len(p) = 1 /\ p[1] = l
    OBVIOUS
  <1>2. q \in Seq(S) /\ Len(q) = 4 /\ q[1] = a /\ q[2] = b /\ q[3] = c /\ q[4] = d
    OBVIOUS
  <1>3. /\ y \in Seq(S) /\ Len(y) = 5
        /\ y[1] = l /\ y[2] = a /\ y[3] = b /\ y[4] = c /\ y[5] = d
    OBVIOUS
  <1> HIDE DEF p, q, y, S
  <1>4. /\ p \o q \in Seq(S) /\ Len(p \o q) = Len(p) + Len(q)
        /\ \A i \in 1..Len(p) + Len(q) :
               (p \o q)[i] = IF i <= Len(p) THEN p[i] ELSE q[i - Len(p)]
    BY <1>1, <1>2, ConcatProperties
  <1> HIDE DEF x
  <1>5. x \in Seq(S) /\ Len(x) = 5 /\ \A i \in 1..5 : x[i] = IF i <= 1 THEN p[i] ELSE q[i - 1]
    BY <1>1, <1>2, <1>4 DEF x
  <1>6. \A i \in 1..5 : i = 1 \/ i = 2 \/ i = 3 \/ i = 4 \/ i = 5
    OBVIOUS
  <1>7. x[1] = p[1] /\ x[2] = q[1] /\ x[3] = q[2] /\ x[4] = q[3] /\ x[5] = q[4]
    BY <1>5
  <1>8. \A i \in 1..5 : x[i] = y[i]
    BY <1>1, <1>2, <1>3, <1>6, <1>7
  <1>9. x = y
    BY <1>3, <1>5, <1>8, SeqEqual
  <1> QED
    BY <1>9 DEF x, p, q, y

\* The same for the two logs of a file that gets new blocks.
LEMMA TwoInFront ==
    \A l, m, a, b, c, d : <<l, m>> \o <<a, b, c, d>> = <<l, m, a, b, c, d>>
  <1> SUFFICES ASSUME NEW l, NEW m, NEW a, NEW b, NEW c, NEW d
               PROVE  <<l, m>> \o <<a, b, c, d>> = <<l, m, a, b, c, d>>
    OBVIOUS
  <1> DEFINE p == <<l, m>>
             q == <<a, b, c, d>>
             y == <<l, m, a, b, c, d>>
             S == {l, m, a, b, c, d}
             x == p \o q
  <1>1. p \in Seq(S) /\ Len(p) = 2 /\ p[1] = l /\ p[2] = m
    OBVIOUS
  <1>2. q \in Seq(S) /\ Len(q) = 4 /\ q[1] = a /\ q[2] = b /\ q[3] = c /\ q[4] = d
    OBVIOUS
  <1>3. /\ y \in Seq(S) /\ Len(y) = 6
        /\ y[1] = l /\ y[2] = m /\ y[3] = a /\ y[4] = b /\ y[5] = c /\ y[6] = d
    OBVIOUS
  <1> HIDE DEF p, q, y, S
  <1>4. /\ p \o q \in Seq(S) /\ Len(p \o q) = Len(p) + Len(q)
        /\ \A i \in 1..Len(p) + Len(q) :
               (p \o q)[i] = IF i <= Len(p) THEN p[i] ELSE q[i - Len(p)]
    BY <1>1, <1>2, ConcatProperties
  <1> HIDE DEF x
  <1>5. x \in Seq(S) /\ Len(x) = 6 /\ \A i \in 1..6 : x[i] = IF i <= 2 THEN p[i] ELSE q[i - 2]
    BY <1>1, <1>2, <1>4 DEF x
  <1>6. \A i \in 1..6 : i = 1 \/ i = 2 \/ i = 3 \/ i = 4 \/ i = 5 \/ i = 6
    OBVIOUS
  <1>7. /\ x[1] = p[1] /\ x[2] = p[2] /\ x[3] = q[1] /\ x[4] = q[2]
        /\ x[5] = q[3] /\ x[6] = q[4]
    BY <1>5
  <1>8. \A i \in 1..6 : x[i] = y[i]
    BY <1>1, <1>2, <1>3, <1>6, <1>7
  <1>9. x = y
    BY <1>3, <1>5, <1>8, SeqEqual
  <1> QED
    BY <1>9 DEF x, p, q, y

\* What write() has saved before it copies the bytes.
LogsOnly(saved) ==
    \/ saved = << >>
    \/ \E l \in Logs : saved = <<Put("log", l)>>
    \/ \E l, m \in Logs : saved = <<Put("log", l), Put("log", m)>>

\* Logs may be written to the disk.
LEMMA LogsOnlyTyped ==
    ASSUME NEW saved, LogsOnly(saved)
    PROVE  saved \in Seq(Writes)
  <1>1. \A l \in Logs : Put("log", l) \in Writes
    BY LogsTyped
  <1>2. \A l \in Logs : <<Put("log", l)>> \in Seq(Writes)
    BY <1>1
  <1>3. \A l, m \in Logs : <<Put("log", l), Put("log", m)>> \in Seq(Writes)
    BY <1>1
  <1>4. << >> \in Seq(Writes)
    OBVIOUS
  <1> QED
    BY <1>2, <1>3, <1>4 DEF LogsOnly

\* The second half of write(), for a table f and descriptors t that are sound;
\* when they are new, the walk to the first byte stays within the file.
LEMMA CopyInKeeps ==
    ASSUME IInv, Ready, NEW n, EntryIndex(n) \in OpenSlots, NEW size \in Nat,
           NEW f \in Fats, Acyclic(f), NEW t \in Tables,
           NEW saved, LogsOnly(saved),
           CopyIn(n, size, f, t, saved), intact' = intact,
           intact => Sound(f, t, file_count),
           intact => \/ saved = << >> /\ f = fat /\ t = fd_table
                     \/ WalkAt(f, t[Entry(n).idx].starting_block,
                               Entry(n).offset \div BLOCK_SIZE) # END_OF_CHAIN
    PROVE  IInv'
  <1> DEFINE e == EntryIndex(n)
             end == WalkAt(f, t[Entry(n).idx].starting_block,
                           Entry(n).offset \div BLOCK_SIZE) = END_OF_CHAIN
             moved == [open_file_fd_table EXCEPT ![e].offset = @ + size]
  <1>1. /\ fat' = f /\ fd_table' = t
        /\ UNCHANGED <<file_count, opened_file_count, disk, booting>>
        /\ end => pending' = saved /\ UNCHANGED <<open_file_fd_table, defined>>
        /\ ~end => /\ open_file_fd_table' = moved
                   /\ pending' = saved \o saveToDisk(f, t, file_count)
                   /\ defined' \in BOOLEAN
    BY DEF CopyIn
  <1> HIDE DEF end
  <1>2. ~booting /\ defined /\ (intact => Left4)
    BY AtReady
  <1>3. Typed
    BY DEF IInv
  <1>4. file_count \in 0..NUM_FILES
    BY <1>3 DEF Typed
  <1>5. saved \in Seq(Writes)
    BY LogsOnlyTyped
  <1>6. /\ saveToDisk(f, t, file_count) \in Seq(Writes)
        /\ saveToDisk(f, t, file_count) =
               <<Put("fat", f), Put("fd_table", t), Put("log", emptyLog),
                 Put("file_count", file_count)>>
    BY <1>4, SavesTyped
  <1>7. /\ moved \in [OpenSlots -> OpenFile]
        /\ UsedSlots(moved) = UsedSlots(open_file_fd_table)
    <2> DEFINE o == open_file_fd_table
               x == [o[e] EXCEPT !.offset = o[e].offset + size]
               u == [o EXCEPT ![e] = x]
    <2>1. moved = u
      OBVIOUS
    <2>2. o \in [OpenSlots -> OpenFile] /\ e \in OpenSlots
      BY <1>3 DEF Typed
    <2>3. x \in OpenFile /\ x.idx = o[e].idx
      <3>1. o[e] \in OpenFile
        BY <2>2
      <3> HIDE DEF o, e
      <3> QED
        BY <3>1 DEF OpenFile
    <2> HIDE DEF o, x, e, moved
    <2>4. u = [o EXCEPT ![e] = x]
      OBVIOUS
    <2> HIDE DEF u
    <2>5. u \in [OpenSlots -> OpenFile] /\ UsedSlots(u) = UsedSlots(o)
      BY <2>2, <2>3, <2>4, OffsetMoved
    <2> QED
      BY <2>1, <2>5 DEF o
  <1> HIDE DEF e, moved
  <1>8. pending' \in Seq(Writes) /\ defined' \in BOOLEAN
    <2>1. CASE end
      BY <1>1, <1>2, <1>5, <2>1
    <2>2. CASE ~end
      <3>1. pending' = saved \o saveToDisk(f, t, file_count) /\ defined' \in BOOLEAN
        BY <1>1, <2>2
      <3>2. saveToDisk(f, t, file_count) \in Seq(Writes)
        BY <1>6
      <3>3. saved \o saveToDisk(f, t, file_count) \in Seq(Writes)
        BY ONLY <1>5, <3>2, ConcatProperties
      <3> QED
        BY <3>1, <3>3
    <2> QED
      BY <2>1, <2>2
  <1>9. /\ open_file_fd_table' \in [OpenSlots -> OpenFile]
        /\ UsedSlots(open_file_fd_table') = UsedSlots(open_file_fd_table)
    <2>1. open_file_fd_table \in [OpenSlots -> OpenFile]
      BY <1>3 DEF Typed
    <2> QED
      BY <1>1, <1>7, <2>1
  <1>10. Typed'
    BY <1>1, <1>3, <1>8, <1>9 DEF Typed
  <1>11. OpenCounted'
    BY <1>1, <1>9 DEF IInv, OpenCounted
  <1>12. BootAgrees'
    BY <1>1, <1>2 DEF BootAgrees
  <1>13. SavesAgree'
    <2> SUFFICES ASSUME intact
                 PROVE  Left0' \/ Left4' \/ LogThenSaves'
      BY DEF SavesAgree
    <2>1. CASE end
      <3>1. saved = << >> /\ f = fat /\ t = fd_table
        BY <2>1 DEF end
      <3> QED
        BY <1>1, <1>2, <2>1, <3>1 DEF Left4
    <2>2. CASE ~end
      <3>1. pending' = saved \o <<Put("fat", fat'), Put("fd_table", fd_table'),
                                  Put("log", emptyLog), Put("file_count", file_count')>>
        BY <1>1, <1>6, <2>2
      <3> DEFINE a == Put("fat", fat')
                 b == Put("fd_table", fd_table')
                 c == Put("log", emptyLog)
                 d == Put("file_count", file_count')
      <3>2. CASE saved = << >>
        BY <3>1, <3>2 DEF Left0
      <3>3. ASSUME NEW l \in Logs, saved = <<Put("log", l)>>
            PROVE  LogThenSaves'
        <4> DEFINE x == Put("log", l)
        <4> HIDE DEF a, b, c, d, x
        <4>1. <<x>> \o <<a, b, c, d>> = <<x, a, b, c, d>>
          BY OneInFront
        <4>2. saved = <<x>> /\ pending' = saved \o <<a, b, c, d>>
          BY <3>1, <3>3 DEF a, b, c, d, x
        <4>3. pending' = <<x, a, b, c, d>>
          BY <4>1, <4>2
        <4> QED
          BY <4>3 DEF LogThenSaves, a, b, c, d, x
      <3>4. ASSUME NEW l \in Logs, NEW m \in Logs, saved = <<Put("log", l), Put("log", m)>>
            PROVE  LogThenSaves'
        <4> DEFINE x == Put("log", l)
                   y == Put("log", m)
        <4> HIDE DEF a, b, c, d, x, y
        <4>1. <<x, y>> \o <<a, b, c, d>> = <<x, y, a, b, c, d>>
          BY TwoInFront
        <4>2. saved = <<x, y>> /\ pending' = saved \o <<a, b, c, d>>
          BY <3>1, <3>4 DEF a, b, c, d, x, y
        <4>3. pending' = <<x, y, a, b, c, d>>
          BY <4>1, <4>2
        <4> QED
          BY <4>3 DEF LogThenSaves, a, b, c, d, x, y
      <3> QED
        BY <3>2, <3>3, <3>4 DEF LogsOnly
    <2> QED
      BY <2>1, <2>2
  <1>14. SoundNow'
    BY <1>1 DEF SoundNow
  <1> QED
    BY <1>10, <1>11, <1>12, <1>13, <1>14 DEF IInv

\* The entry of an open file, and the descriptor it stands for.
LEMMA OpenEntry ==
    ASSUME Typed, NEW n, EntryIndex(n) \in OpenSlots, Entry(n).idx # NO_OPENED_FILE
    PROVE  /\ Entry(n).idx \in FileSlots /\ Entry(n).offset \in Nat
           /\ fd_table[Entry(n).idx] \in Descriptor
           /\ fd_table[Entry(n).idx].size \in Int
           /\ fd_table[Entry(n).idx].starting_block \in Blocks \cup {-1}
  <1>1. Entry(n) \in OpenFile
    BY DEF Typed, Entry
  <1>2. Entry(n).idx \in FileSlots /\ Entry(n).offset \in Nat
    BY <1>1 DEF OpenFile, NO_OPENED_FILE
  <1>3. fd_table[Entry(n).idx] \in Descriptor
    BY <1>2 DEF Typed, Tables
  <1> QED
    BY <1>2, <1>3 DEF Descriptor

\* write() within the size of the file.
LEMMA writeInPlaceKeeps ==
    ASSUME IInv, NEW n, NEW size \in Sizes \ {0}, Ready, EntryIndex(n) \in OpenSlots,
           writeInPlace(n, size)
    PROVE  IInv'
  <1>1. CopyIn(n, size, fat, fd_table, << >>) /\ intact' = intact
    BY DEF writeInPlace
  <1>2. size \in Nat
    BY SizesAssumption
  <1>3. intact => Sound(fat, fd_table, file_count)
    BY AtReady
  <1>4. fat \in Fats /\ Acyclic(fat) /\ fd_table \in Tables /\ LogsOnly(<< >>)
    BY DEF IInv, Typed, LogsOnly
  <1> QED
    BY <1>1, <1>2, <1>3, <1>4, CopyInKeeps

\* A chain that begins at no block ends where it begins.
LEMMA NoChain ==
    ASSUME NEW f
    PROVE  ChainEnd(f, -1) # END_OF_CHAIN
  <1>1. N \in Nat /\ -1 \notin Blocks
    BY BlockNumbers
  <1>2. 0 \in 0..N /\ N \in 0..N
    BY <1>1
  <1>3. Walk(f, -1)[0] = -1
    BY WalkSteps
  <1>4. Walk(f, -1)[N] = -1
    BY <1>1, <1>2, <1>3, WalkStays
  <1>5. ChainEnd(f, -1) = -1
    BY <1>1, <1>4 DEF ChainEnd, WalkAt, N
  <1> QED
    BY <1>5 DEF END_OF_CHAIN

\* The arithmetic of blocks.
LEMMA BlocksForIs ==
    /\ \A s \in Nat : BlocksFor(s) \in Nat
    /\ \A s, o \in Nat : o < s => o \div BLOCK_SIZE \in Nat /\ o \div BLOCK_SIZE < BlocksFor(s)
    /\ \A s \in Nat : s >= 1 => BlocksFor(s) >= 1
    /\ BlocksFor(-1) = 0
  <1>1. \A s \in Nat : BlocksFor(s) \in Nat
    BY SizesAssumption DEF BlocksFor
  <1>2. ASSUME NEW s \in Nat, NEW o \in Nat, o < s
        PROVE  o \div BLOCK_SIZE \in Nat /\ o \div BLOCK_SIZE < BlocksFor(s)
    BY <1>2, SizesAssumption DEF BlocksFor
  <1>3. \A s \in Nat : s >= 1 => BlocksFor(s) >= 1
    BY SizesAssumption DEF BlocksFor
  <1>4. BlocksFor(-1) = 0
    BY SizesAssumption DEF BlocksFor
  <1> QED
    BY <1>1, <1>2, <1>3, <1>4

\* A chain with the blocks of S linked on behind its last one.
LEMMA Grown ==
    ASSUME NEW f \in Fats, Acyclic(f), NEW b \in Blocks \cup {-1},
           NEW S, S \subseteq Free(f), S = {} \/ ChainEnd(f, b) = END_OF_CHAIN,
           NEW g, g = IF S = {} THEN f ELSE [Link(f, S) EXCEPT ![LastBlock(f, b)] = Least(S)]
    PROVE  /\ g \in Fats /\ Acyclic(g)
           /\ S # {} => /\ b \in Blocks /\ Least(S) \in Blocks
                        /\ LastBlock(f, b) \in Chain(f, b)
                        /\ f[LastBlock(f, b)] = END_OF_CHAIN
  <1>1. CASE S = {}
    BY <1>1
  <1>2. CASE S # {}
    <2>1. S \subseteq Blocks /\ S \subseteq Nat /\ \A x \in S : f[x] = FREE_BLOCK
      BY BlockNumbers DEF Free
    <2>2. Least(S) \in Blocks
      BY <1>2, <2>1, LeastIs
    <2>3. b \in Blocks
      BY <1>2, NoChain
    <2>4. \E c \in Chain(f, b) : f[c] = END_OF_CHAIN
      BY <1>2, <2>3, ChainEnds
    <2>5. LastBlock(f, b) \in Chain(f, b) /\ f[LastBlock(f, b)] = END_OF_CHAIN
      BY <2>4 DEF LastBlock
    <2> DEFINE c == LastBlock(f, b)
    <2>6. c \in Blocks \ S
      BY <2>1, <2>5, BlockNumbers DEF Chain
    <2> HIDE DEF c
    <2>7. g = [Link(f, S) EXCEPT ![c] = Least(S)]
      BY <1>2 DEF c
    <2>8. g \in Fats /\ Acyclic(g)
      <3>1. \A x \in Blocks \ S : /\ [Link(f, S) EXCEPT ![x] = Least(S)] \in Fats
                                  /\ Acyclic([Link(f, S) EXCEPT ![x] = Least(S)])
        BY <1>2, <2>1, LinkAcyclic
      <3> QED
        BY <2>6, <2>7, <3>1
    <2> QED
      BY <2>2, <2>3, <2>5, <2>8
  <1> QED
    BY <1>1, <1>2

\* A sound file k that write() gives the blocks it is short of for size bytes
\* from offset on: all stays sound, and the walk to offset stays within the file.
LEMMA GrownFile ==
    ASSUME NEW f \in Fats, Acyclic(f), NEW fds \in Tables, NEW cnt \in 0..NUM_FILES,
           Sound(f, fds, cnt), NEW k \in FileSlots,
           NEW offset \in Nat, NEW size \in Nat \ {0}, offset + size > fds[k].size,
           NEW S, S \subseteq Free(f),
           Cardinality(S) = BlocksFor(offset + size) - BlocksFor(fds[k].size),
           S = {} \/ ChainEnd(f, fds[k].starting_block) = END_OF_CHAIN,
           NEW g, g = IF S = {} THEN f
                      ELSE [Link(f, S) EXCEPT ![LastBlock(f, fds[k].starting_block)] = Least(S)]
    PROVE  /\ Sound(g, [fds EXCEPT ![k].size = offset + size], cnt)
           /\ WalkAt(g, fds[k].starting_block, offset \div BLOCK_SIZE) # END_OF_CHAIN
  <1> DEFINE b == fds[k].starting_block
             new == offset + size
             hops == offset \div BLOCK_SIZE
             C(h) == ChainOf(h, fds, k)
  <1>1. new \in Nat /\ offset < new /\ new >= 1
    OBVIOUS
  <1> HIDE DEF new
  <1>2. BlocksFor(new) \in Nat /\ BlocksFor(new) >= 1
    BY <1>1, BlocksForIs
  <1>3. hops \in Nat /\ hops < BlocksFor(new)
    BY <1>1, BlocksForIs
  <1> HIDE DEF hops
  <1>4. fds[k] \in Descriptor /\ b \in Blocks \cup {-1}
    BY DEF Tables, Descriptor
  <1>5. k \in 0..cnt - 1
    <2> SUFFICES ASSUME k >= cnt
                 PROVE  FALSE
      BY SizesAssumption DEF FileSlots
    <2>1. fds[k] = emptyFileDescriptor
      BY DEF Sound
    <2>2. b = -1 /\ fds[k].size = -1
      BY <2>1 DEF emptyFileDescriptor
    <2>3. S = {}
      BY <2>2, NoChain
    <2>4. BlocksFor(fds[k].size) = 0
      BY <2>2, BlocksForIs
    <2>5. Cardinality(S) = 0
      BY <2>3, FS_EmptySet
    <2> QED
      BY <1>2, <2>4, <2>5 DEF new
  <1>6. FileSound(f, fds[k])
    BY <1>5 DEF Sound
  <1>7. /\ b \in Blocks /\ fds[k].size \in Nat
        /\ BlocksFor(fds[k].size) <= Cardinality(C(f)) /\ Cardinality(C(f)) \in Nat
        /\ BlocksFor(fds[k].size) \in Nat
    BY <1>6, ChainFinite, BlocksForIs DEF FileSound, ChainOf
  <1>8. Cardinality(S) = BlocksFor(new) - BlocksFor(fds[k].size)
    BY DEF new
  <1>9. Sound(g, [fds EXCEPT ![k].size = new], cnt) /\ BlocksFor(new) <= Cardinality(C(g))
    <2>1. CASE S = {}
      <3>1. BlocksFor(new) <= Cardinality(C(f))
        BY <1>2, <1>7, <1>8, <2>1, FS_EmptySet
      <3>2. g = f
        BY <2>1
      <3>3. Sound(f, [fds EXCEPT ![k].size = new], cnt)
        BY <1>1, <1>5, <3>1, ResizeSound
      <3> QED
        BY <3>1, <3>2, <3>3
    <2>2. CASE S # {}
      <3> DEFINE c == LastBlock(f, b)
      <3>1. c \in Chain(f, b) /\ f[c] = END_OF_CHAIN
        BY <1>4, <2>2, Grown
      <3>2. g = [Link(f, S) EXCEPT ![c] = Least(S)]
        BY <2>2
      <3> HIDE DEF c
      <3>3. c \in ChainOf(f, fds, k)
        BY <3>1 DEF ChainOf
      <3>4. BlocksFor(new) <= Cardinality(ChainOf(f, fds, k)) + Cardinality(S)
        BY <1>2, <1>7, <1>8
      <3> QED
        BY ONLY f \in Fats, Acyclic(f), fds \in Tables, cnt \in 0..NUM_FILES, Sound(f, fds, cnt),
                S \subseteq Free(f), <1>1, <1>5, <2>2, <3>1, <3>2, <3>3, <3>4, GrowSound
    <2> QED
      BY <2>1, <2>2
  <1>10. WalkAt(g, b, hops) \in Blocks
    <2>1. Cardinality(Chain(g, b)) \in Nat
      BY ChainFinite
    <2>2. hops < Cardinality(Chain(g, b))
      BY <1>2, <1>3, <1>9, <2>1 DEF ChainOf
    <2> QED
      BY <1>3, <2>2, WalkWithin
  <1> QED
    BY <1>9, <1>10, BlockNumbers DEF new, hops

\* write() of a file that grows: with the blocks it needs, or without them.
LEMMA writeExtendingKeeps ==
    ASSUME IInv, NEW n, NEW size \in Sizes \ {0}, Ready, IndicesOf(n) # {},
           EntryIndex(n) \in OpenSlots, Entry(n).idx # NO_OPENED_FILE,
           writeExtending(n, size)
    PROVE  IInv'
  <1> DEFINE fd == Entry(n).idx
             offset == Entry(n).offset
             start == fd_table[fd].starting_block
             wanted == BlocksFor(offset + size) - BlocksFor(fd_table[fd].size)
             S == firstFreeBlocks(fat, wanted)
             log1 == [in_progress |-> TRUE, file_idx |-> EntryIndex(n),
                      last_valid_block |-> start, first_new_block |-> -1]
             log2 == [log1 EXCEPT !.first_new_block = Least(S)]
             g == IF S = {} THEN fat
                  ELSE [Link(fat, S) EXCEPT ![LastBlock(fat, start)] = Least(S)]
             log == IF S = {} THEN log1 ELSE log2
             saved == IF S = {} THEN <<Put("log", log1)>>
                      ELSE <<Put("log", log1), Put("log", log2)>>
             t == [fd_table EXCEPT ![fd].size = offset + size]
  <1>1. /\ offset + size > fd_table[fd].size
        /\ \/ Undefined
           \/ /\ S = {} \/ ChainEnd(fat, start) = END_OF_CHAIN
              /\ fat' = transactionRollback(g, log)
              /\ fd_table' = restoreOriginalFileSize(fd_table, log)
              /\ pending' = saved
              /\ intact' = FALSE
              /\ UNCHANGED <<file_count, open_file_fd_table, opened_file_count,
                             disk, booting, defined>>
           \/ /\ S = {} \/ ChainEnd(fat, start) = END_OF_CHAIN
              /\ Cardinality(S) = wanted
              /\ CopyIn(n, size, g, t, saved)
              /\ UNCHANGED intact
    BY DEF writeExtending
  <1>2. Typed
    BY DEF IInv
  <1>3. ~booting /\ defined /\ (intact => Sound(fat, fd_table, file_count))
    BY AtReady
  <1>4. /\ fat \in Fats /\ Acyclic(fat) /\ fd_table \in Tables /\ file_count \in 0..NUM_FILES
    BY <1>2 DEF Typed
  <1>5. /\ fd \in FileSlots /\ offset \in Nat
        /\ fd_table[fd] \in Descriptor /\ fd_table[fd].size \in Int
        /\ start \in Blocks \cup {-1}
    BY <1>2, OpenEntry
  <1>6. size \in Nat \ {0} /\ size \in Nat /\ offset + size \in Nat
    <2>1. size \in Nat \ {0}
      BY SizesAssumption
    <2>2. offset \in Nat
      BY <1>5
    <2> HIDE DEF offset
    <2> QED
      BY <2>1, <2>2
  <1>7. S \subseteq Free(fat) /\ S \subseteq Blocks /\ S \subseteq Nat
    BY BlockNumbers DEF firstFreeBlocks, Free
  <1>8. EntryIndex(n) \in FileSlots
    BY <1>2, FileFound DEF EntryIndex
  <1>9. log1 \in Logs
    BY <1>5, <1>8 DEF Logs
  <1>10. S # {} => log2 \in Logs
    <2> SUFFICES ASSUME S # {} PROVE log2 \in Logs
      OBVIOUS
    <2>1. Least(S) \in Blocks
      BY <1>7, LeastIs
    <2> HIDE DEF S, log1
    <2> QED
      BY <1>9, <2>1 DEF Logs
  <1> HIDE DEF log1, log2
  <1>11. log \in Logs /\ LogsOnly(saved)
    BY <1>9, <1>10 DEF LogsOnly
  <1>12. t \in Tables
    <2>1. [fd_table[fd] EXCEPT !.size = offset + size] \in Descriptor
      BY <1>5, <1>6 DEF Descriptor
    <2> QED
      BY <1>4, <1>5, <2>1 DEF Tables
  <1>13. t[fd].starting_block = start
    BY <1>4, <1>5 DEF Tables, Descriptor
  <1>14. g = IF S = {} THEN fat
             ELSE [Link(fat, S) EXCEPT ![LastBlock(fat, start)] = Least(S)]
    OBVIOUS
  <1>15. t = [fd_table EXCEPT ![fd].size = offset + size]
    OBVIOUS
  <1> HIDE DEF S, g, t, log, saved
  <1>16. S = {} \/ ChainEnd(fat, start) = END_OF_CHAIN => g \in Fats /\ Acyclic(g)
    BY <1>4, <1>5, <1>7, <1>14, Grown
  <1>17. CASE Undefined
    BY <1>17, UndefinedKeeps
  <1>18. CASE /\ S = {} \/ ChainEnd(fat, start) = END_OF_CHAIN
              /\ fat' = transactionRollback(g, log)
              /\ fd_table' = restoreOriginalFileSize(fd_table, log)
              /\ pending' = saved
              /\ intact' = FALSE
              /\ UNCHANGED <<file_count, open_file_fd_table, opened_file_count,
                             disk, booting, defined>>
    <2>1. fat' \in Fats /\ Acyclic(fat')
      BY <1>11, <1>16, <1>18, RollbackFat
    <2>2. fd_table' \in Tables
      BY <1>4, <1>11, <1>18, RollbackTable
    <2>3. saved \in Seq(Writes)
      BY <1>11, LogsOnlyTyped
    <2>4. Typed'
      BY <1>2, <1>18, <2>1, <2>2, <2>3 DEF Typed
    <2>5. OpenCounted'
      BY <1>18 DEF IInv, OpenCounted
    <2>6. BootAgrees' /\ SavesAgree' /\ SoundNow'
      BY <1>3, <1>18 DEF BootAgrees, SavesAgree, SoundNow
    <2> QED
      BY <2>4, <2>5, <2>6 DEF IInv
  <1>19. CASE /\ S = {} \/ ChainEnd(fat, start) = END_OF_CHAIN
              /\ Cardinality(S) = wanted
              /\ CopyIn(n, size, g, t, saved)
              /\ UNCHANGED intact
    <2>1. intact => /\ Sound(g, t, file_count)
                    /\ WalkAt(g, start, offset \div BLOCK_SIZE) # END_OF_CHAIN
      <3>1. S = {} \/ ChainEnd(fat, fd_table[fd].starting_block) = END_OF_CHAIN
        BY <1>19
      <3>2. Cardinality(S) = BlocksFor(offset + size) - BlocksFor(fd_table[fd].size)
        BY <1>19
      <3>3. g = IF S = {} THEN fat
                ELSE [Link(fat, S) EXCEPT ![LastBlock(fat, fd_table[fd].starting_block)] = Least(S)]
        BY <1>14
      <3>4. offset + size > fd_table[fd].size
        BY <1>1
      <3> HIDE DEF fd, offset
      <3>5. intact => /\ Sound(g, [fd_table EXCEPT ![fd].size = offset + size], file_count)
                      /\ WalkAt(g, fd_table[fd].starting_block, offset \div BLOCK_SIZE)
                             # END_OF_CHAIN
        BY ONLY <1>3, <1>4, <1>5, <1>6, <1>7, <3>1, <3>2, <3>3, <3>4, GrownFile
      <3> QED
        BY <1>15, <3>5
    <2>2. g \in Fats /\ Acyclic(g)
      BY <1>16, <1>19
    <2>3. intact' = intact /\ CopyIn(n, size, g, t, saved)
      BY <1>19
    <2>4. intact => Sound(g, t, file_count)
      BY <2>1
    <2>5. intact => \/ saved = << >> /\ g = fat /\ t = fd_table
                    \/ WalkAt(g, t[Entry(n).idx].starting_block,
                              Entry(n).offset \div BLOCK_SIZE) # END_OF_CHAIN
      BY <1>13, <2>1
    <2> QED
      BY <1>6, <1>11, <1>12, <2>2, <2>3, <2>4, <2>5, CopyInKeeps
  <1> QED
    BY <1>1, <1>17, <1>18, <1>19

\* write(), whether it stays within the file or not.
LEMMA writeKeeps ==
    ASSUME IInv, NEW n \in Names, NEW size \in Sizes \ {0}, write(n, size)
    PROVE  IInv'
  <1>1. /\ Ready /\ IndicesOf(n) # {}
        /\ \/ Undefined
           \/ /\ EntryIndex(n) \in OpenSlots
              /\ Entry(n).idx # NO_OPENED_FILE
              /\ writeInPlace(n, size) \/ writeExtending(n, size)
    BY DEF write
  <1> QED
    BY <1>1, UndefinedKeeps, writeInPlaceKeeps, writeExtendingKeeps

-----------------------------------------------------------------------------
(* Deleting                                                                  *)

\* delete_(): the chain is freed, the descriptors behind move up.
LEMMA deleteKeeps ==
    ASSUME IInv, NEW n \in Names, delete_(n)
    PROVE  IInv'
  <1> DEFINE i == findFileIndexByName(n)
             start == fd_table[i].starting_block
             g == [b \in Blocks |-> IF b \in Chain(fat, start) THEN FREE_BLOCK ELSE fat[b]]
             t == [j \in FileSlots |->
                     IF j < file_count - 1 THEN fd_table[j + 1]
                     ELSE IF j = file_count - 1 THEN emptyFileDescriptor
                     ELSE fd_table[j]]
             M == ClosedByDelete(i)
             u == [s \in OpenSlots |-> IF s \in M THEN emptyOpenedFile
                                       ELSE open_file_fd_table[s]]
  <1>1. /\ Ready /\ IndicesOf(n) # {}
        /\ \/ Undefined
           \/ /\ file_count < NUM_FILES
              /\ fat' = g /\ fd_table' = t /\ file_count' = file_count - 1
              /\ open_file_fd_table' = u
              /\ opened_file_count' = opened_file_count - Cardinality(M)
              /\ pending' = saveToDisk(fat', fd_table', file_count')
              /\ intact' = (intact /\ i = 0)
              /\ UNCHANGED <<disk, booting, defined>>
    BY DEF delete_
  <1>2. CASE Undefined
    BY <1>2, UndefinedKeeps
  <1>3. CASE /\ file_count < NUM_FILES
             /\ fat' = g /\ fd_table' = t /\ file_count' = file_count - 1
             /\ open_file_fd_table' = u
             /\ opened_file_count' = opened_file_count - Cardinality(M)
             /\ pending' = saveToDisk(fat', fd_table', file_count')
             /\ intact' = (intact /\ i = 0)
             /\ UNCHANGED <<disk, booting, defined>>
    <2>1. Typed
      BY DEF IInv
    <2>2. ~booting /\ defined /\ (intact => Sound(fat, fd_table, file_count))
      BY <1>1, AtReady
    <2>3. i \in FileSlots /\ i # NO_OPENED_FILE /\ file_count \in 1..NUM_FILES
      BY <1>1, <2>1, FileFound DEF FileSlots, NO_OPENED_FILE
    <2>4. /\ fat \in Fats /\ Acyclic(fat) /\ fd_table \in Tables
          /\ open_file_fd_table \in [OpenSlots -> OpenFile]
      BY <2>1 DEF Typed
    <2>5. g \in Fats /\ Acyclic(g)
      <3> DEFINE C == Chain(fat, start)
      <3> HIDE DEF C
      <3>1. g = [b \in Blocks |-> IF b \in C THEN FREE_BLOCK ELSE fat[b]]
        BY DEF C
      <3> HIDE DEF g
      <3> QED
        BY <2>4, <3>1, FreedAcyclic
    <2>6. t \in Tables
      <3>1. emptyFileDescriptor \in Descriptor
        BY DEF emptyFileDescriptor, Descriptor, NoName
      <3>2. \A j \in FileSlots : fd_table[j] \in Descriptor
        BY <2>4 DEF Tables
      <3>3. \A j \in FileSlots : j < file_count - 1 => j + 1 \in FileSlots
        BY <2>3, SizesAssumption DEF FileSlots
      <3>4. \A j \in FileSlots : t[j] \in Descriptor
        BY <3>1, <3>2, <3>3
      <3> QED
        BY <3>4 DEF Tables
    <2>7. M \subseteq UsedSlots(open_file_fd_table)
      BY <2>3 DEF ClosedByDelete, UsedSlots
    <2> HIDE DEF M
    <2>8. /\ DOMAIN u = OpenSlots /\ u = [s \in OpenSlots |-> u[s]]
          /\ \A s \in OpenSlots : u[s] = IF s \in M THEN emptyOpenedFile
                                         ELSE open_file_fd_table[s]
      OBVIOUS
    <2> HIDE DEF u
    <2>9. /\ u \in [OpenSlots -> OpenFile]
          /\ Cardinality(UsedSlots(u)) =
                 Cardinality(UsedSlots(open_file_fd_table)) - Cardinality(M)
      BY <2>4, <2>7, <2>8, SlotsEmptied
    <2> HIDE DEF g, t
    <2>10. file_count' \in 0..NUM_FILES
      BY <1>3, <2>3, SizesAssumption
    <2>11. pending' \in Seq(Writes) /\ Left0'
      <3>1. \A f, fds, c : f \in Fats /\ Acyclic(f) /\ fds \in Tables /\ c \in 0..NUM_FILES =>
              /\ saveToDisk(f, fds, c) \in Seq(Writes)
              /\ saveToDisk(f, fds, c) =
                     <<Put("fat", f), Put("fd_table", fds), Put("log", emptyLog),
                       Put("file_count", c)>>
        BY SavesTyped
      <3> QED
        BY <1>3, <2>5, <2>6, <2>10, <3>1 DEF Left0
    <2>12. Typed'
      BY <1>3, <2>1, <2>5, <2>6, <2>9, <2>10, <2>11 DEF Typed
    <2>13. OpenCounted'
      BY <1>3, <2>9 DEF IInv, OpenCounted
    <2>14. BootAgrees' /\ SavesAgree'
      BY <1>3, <2>2, <2>11 DEF BootAgrees, SavesAgree
    <2>15. SoundNow'
      <3> SUFFICES ASSUME intact, i = 0
                   PROVE  Sound(g, t, file_count - 1)
        BY <1>3 DEF SoundNow
      <3>1. Sound(fat, fd_table, file_count) /\ file_count \in 1..NUM_FILES - 1
        BY <1>3, <2>2, <2>3, SizesAssumption
      <3>2. g = [b \in Blocks |-> IF b \in ChainOf(fat, fd_table, 0) THEN FREE_BLOCK
                                  ELSE fat[b]]
        BY DEF g, ChainOf
      <3>3. t = [j \in FileSlots |->
                   IF j < file_count - 1 THEN fd_table[j + 1]
                   ELSE IF j = file_count - 1 THEN emptyFileDescriptor
                   ELSE fd_table[j]]
        BY DEF t
      <3> QED
        BY ONLY <2>4, <3>1, <3>2, <3>3, DeleteSound
    <2> QED
      BY <2>12, <2>13, <2>14, <2>15 DEF IInv
  <1> QED
    BY <1>1, <1>2, <1>3

-----------------------------------------------------------------------------
(* The disk and the life of the program                                      *)

\* What is left of the writes when the first has been made.
LEMMA FirstOfSix ==
    \A a, b, c, d, e, f : /\ Head(<<a, b, c, d, e, f>>) = a
                          /\ Tail(<<a, b, c, d, e, f>>) = <<b, c, d, e, f>>
  OBVIOUS

\* The same for five writes.
LEMMA FirstOfFive ==
    \A a, b, c, d, e : Head(<<a, b, c, d, e>>) = a /\ Tail(<<a, b, c, d, e>>) = <<b, c, d, e>>
  OBVIOUS

\* The same for four.
LEMMA FirstOfFour ==
    \A a, b, c, d : Head(<<a, b, c, d>>) = a /\ Tail(<<a, b, c, d>>) = <<b, c, d>>
  OBVIOUS

\* The same for three.
LEMMA FirstOfThree ==
    \A a, b, c : Head(<<a, b, c>>) = a /\ Tail(<<a, b, c>>) = <<b, c>>
  OBVIOUS

\* The same for two.
LEMMA FirstOfTwo ==
    \A a, b : Head(<<a, b>>) = a /\ Tail(<<a, b>>) = <<b>>
  OBVIOUS

\* The same for one.
LEMMA FirstOfOne ==
    \A a : Head(<<a>>) = a /\ Tail(<<a>>) = << >> /\ Len(<<a>>) = 1
  OBVIOUS

\* A write leaves the disk one that the constructor can start from.
LEMMA DiskWritten ==
    ASSUME Typed, pending # << >>,
           NEW d, d = [disk EXCEPT ![Head(pending).file] = Head(pending).value]
    PROVE  /\ d \in [fat : Fats, fd_table : Tables, log : Logs, file_count : 0..NUM_FILES]
           /\ Acyclic(d.fat)
           /\ Tail(pending) \in Seq(Writes)
  <1> DEFINE w == Head(pending)
             Disks == [fat : Fats, fd_table : Tables, log : Logs, file_count : 0..NUM_FILES]
  <1>1. w \in Writes /\ Tail(pending) \in Seq(Writes)
    <2>1. pending \in Seq(Writes)
      BY DEF Typed
    <2> QED
      BY <2>1
  <1>2. disk \in Disks /\ Acyclic(disk.fat)
    BY DEF Typed
  <1>3. d = [disk EXCEPT ![w.file] = w.value]
    OBVIOUS
  <1> HIDE DEF w
  <1>4. \/ w.file = "fat" /\ w.value \in Fats /\ Acyclic(w.value)
        \/ w.file = "fd_table" /\ w.value \in Tables
        \/ w.file = "log" /\ w.value \in Logs
        \/ w.file = "file_count" /\ w.value \in 0..NUM_FILES
    BY <1>1 DEF Writes
  <1>5. CASE w.file = "fat" /\ w.value \in Fats /\ Acyclic(w.value)
    BY <1>1, <1>2, <1>3, <1>5
  <1>6. CASE w.file = "fd_table" /\ w.value \in Tables
    BY <1>1, <1>2, <1>3, <1>6
  <1>7. CASE w.file = "log" /\ w.value \in Logs
    BY <1>1, <1>2, <1>3, <1>7
  <1>8. CASE w.file = "file_count" /\ w.value \in 0..NUM_FILES
    BY <1>1, <1>2, <1>3, <1>8
  <1> QED
    BY <1>4, <1>5, <1>6, <1>7, <1>8

\* One of the files is written.
LEMMA FlushKeeps ==
    ASSUME IInv, Flush
    PROVE  IInv'
  <1> DEFINE a == Put("fat", fat)
             b == Put("fd_table", fd_table)
             c == Put("log", emptyLog)
             d == Put("file_count", file_count)
             w == Head(pending)
  <1>1. /\ defined /\ pending # << >>
        /\ disk' = [disk EXCEPT ![w.file] = w.value]
        /\ pending' = Tail(pending)
        /\ booting' = (booting /\ Len(pending) > 1)
        /\ UNCHANGED <<fat, fd_table, file_count, open_file_fd_table, opened_file_count,
                       defined, intact>>
    BY DEF Flush, ram
  <1>2. Typed /\ booting \in BOOLEAN
    BY DEF IInv, Typed
  <1>3. Typed'
    <2>1. /\ disk' \in [fat : Fats, fd_table : Tables, log : Logs, file_count : 0..NUM_FILES]
          /\ Acyclic(disk'.fat) /\ pending' \in Seq(Writes)
      BY <1>1, <1>2, DiskWritten
    <2> QED
      BY <1>1, <1>2, <2>1 DEF Typed
  <1>4. disk \in [fat : Fats, fd_table : Tables, log : Logs, file_count : 0..NUM_FILES]
    BY <1>2 DEF Typed
  <1>5. OpenCounted' /\ SoundNow'
    BY <1>1 DEF IInv, OpenCounted, SoundNow
  <1>6. ASSUME Left0 PROVE Left1' /\ disk' = [disk EXCEPT !.fat = fat]
    <2>1. pending = <<a, b, c, d>>
      BY <1>6 DEF Left0
    <2>2. a.file = "fat" /\ a.value = fat
      BY DEF Put
    <2> HIDE DEF a, b, c, d
    <2>3. w = a /\ pending' = <<b, c, d>>
      BY <1>1, <2>1, FirstOfFour
    <2> HIDE DEF w
    <2>4. disk' = [disk EXCEPT !.fat = fat]
      BY <1>1, <2>2, <2>3
    <2>5. disk'.fat = fat
      BY <1>4, <2>4
    <2> QED
      BY <1>1, <2>3, <2>4, <2>5 DEF Left1, b, c, d
  <1>7. ASSUME Left1 PROVE Left2' /\ disk' = [disk EXCEPT !.fd_table = fd_table]
    <2>1. pending = <<b, c, d>> /\ disk.fat = fat
      BY <1>7 DEF Left1
    <2>2. b.file = "fd_table" /\ b.value = fd_table
      BY DEF Put
    <2> HIDE DEF b, c, d
    <2>3. w = b /\ pending' = <<c, d>>
      BY <1>1, <2>1, FirstOfThree
    <2> HIDE DEF w
    <2>4. disk' = [disk EXCEPT !.fd_table = fd_table]
      BY <1>1, <2>2, <2>3
    <2>5. disk'.fat = fat /\ disk'.fd_table = fd_table
      BY <1>4, <2>1, <2>4
    <2> QED
      BY <1>1, <2>3, <2>4, <2>5 DEF Left2, c, d
  <1>8. ASSUME Left2 PROVE Left3' /\ disk' = [disk EXCEPT !.log = emptyLog]
    <2>1. pending = <<c, d>> /\ disk.fat = fat /\ disk.fd_table = fd_table
      BY <1>8 DEF Left2
    <2>2. c.file = "log" /\ c.value = emptyLog
      BY DEF Put
    <2> HIDE DEF c, d
    <2>3. w = c /\ pending' = <<d>>
      BY <1>1, <2>1, FirstOfTwo
    <2> HIDE DEF w
    <2>4. disk' = [disk EXCEPT !.log = emptyLog]
      BY <1>1, <2>2, <2>3
    <2>5. disk'.fat = fat /\ disk'.fd_table = fd_table /\ disk'.log = emptyLog
      BY <1>4, <2>1, <2>4
    <2> QED
      BY <1>1, <2>3, <2>4, <2>5 DEF Left3, d
  <1>9. ASSUME Left3 PROVE Left4' /\ ~booting'
    <2>1. /\ pending = <<d>> /\ disk.fat = fat /\ disk.fd_table = fd_table
          /\ disk.log = emptyLog
      BY <1>9 DEF Left3
    <2>2. d.file = "file_count" /\ d.value = file_count
      BY DEF Put
    <2> HIDE DEF d
    <2>3. w = d /\ pending' = << >> /\ Len(pending) = 1
      BY <1>1, <2>1, FirstOfOne
    <2> HIDE DEF w
    <2>4. disk' = [disk EXCEPT !.file_count = file_count]
      BY <1>1, <2>2, <2>3
    <2>5. /\ disk'.fat = fat /\ disk'.fd_table = fd_table /\ disk'.log = emptyLog
          /\ disk'.file_count = file_count
      BY <1>4, <2>1, <2>4
    <2>6. ~(Len(pending) > 1)
      BY <2>3
    <2>7. ~booting'
      BY <1>1, <2>6
    <2>8. Left4'
      BY <1>1, <2>3, <2>5 DEF Left4
    <2> QED
      BY <2>7, <2>8
  <1>10. ASSUME LogThenSaves PROVE Left0' \/ LogThenSaves'
    <2>1. \/ \E l \in Logs : pending = <<Put("log", l), a, b, c, d>>
          \/ \E l, m \in Logs : pending = <<Put("log", l), Put("log", m), a, b, c, d>>
      BY <1>10 DEF LogThenSaves
    <2>2. ASSUME NEW l \in Logs, pending = <<Put("log", l), a, b, c, d>>
          PROVE  Left0'
      <3> HIDE DEF a, b, c, d
      <3>1. pending' = <<a, b, c, d>>
        BY <1>1, <2>2, FirstOfFive
      <3> QED
        BY <1>1, <3>1 DEF Left0, a, b, c, d
    <2>3. ASSUME NEW l \in Logs, NEW m \in Logs,
                 pending = <<Put("log", l), Put("log", m), a, b, c, d>>
          PROVE  LogThenSaves'
      <3> HIDE DEF a, b, c, d
      <3>1. pending' = <<Put("log", m), a, b, c, d>>
        BY <1>1, <2>3, FirstOfSix
      <3>2. pending' = <<Put("log", m), Put("fat", fat'), Put("fd_table", fd_table'),
                         Put("log", emptyLog), Put("file_count", file_count')>>
        BY <1>1, <3>1 DEF a, b, c, d
      <3> QED
        BY <3>2 DEF LogThenSaves
    <2> QED
      BY <2>1, <2>2, <2>3
  <1>11. SavesAgree'
    <2> SUFFICES ASSUME intact
                 PROVE  Left0' \/ Left1' \/ Left2' \/ Left3' \/ Left4' \/ LogThenSaves'
      BY <1>1 DEF SavesAgree
    <2>1. Left0 \/ Left1 \/ Left2 \/ Left3 \/ Left4 \/ LogThenSaves
      BY <1>1 DEF IInv, SavesAgree
    <2>2. ~Left4
      BY <1>1 DEF Left4
    <2> QED
      BY <1>6, <1>7, <1>8, <1>9, <1>10, <2>1, <2>2
  <1>12. BootAgrees'
    <2> SUFFICES ASSUME booting'
                 PROVE  /\ Restored' = [fat |-> fat, fd_table |-> fd_table,
                                        file_count |-> file_count]
                        /\ Left0' \/ Left1' \/ Left2' \/ Left3'
      BY <1>1 DEF BootAgrees
    <2>1. /\ Restored = [fat |-> fat, fd_table |-> fd_table, file_count |-> file_count]
          /\ Left0 \/ Left1 \/ Left2 \/ Left3
      BY <1>1, <1>2 DEF IInv, BootAgrees
    <2> DEFINE log == disk.log
    <2>2. log \in Logs /\ disk.fat \in Fats /\ Acyclic(disk.fat) /\ disk.fd_table \in Tables
      BY <1>2 DEF Typed
    <2>3. disk.file_count = file_count
      BY <2>1 DEF Restored
    <2>4. /\ log.in_progress => /\ fat = transactionRollback(disk.fat, log)
                                /\ fd_table = restoreOriginalFileSize(disk.fd_table, log)
                                /\ transactionRollback(fat, log) = fat
                                /\ restoreOriginalFileSize(fd_table, log) = fd_table
          /\ ~log.in_progress => fat = disk.fat /\ fd_table = disk.fd_table
      <3>1. CASE log.in_progress
        <4>1. /\ fat = transactionRollback(disk.fat, log)
              /\ fd_table = restoreOriginalFileSize(disk.fd_table, log)
          BY <2>1, <3>1 DEF Restored
        <4> HIDE DEF log
        <4>2. /\ transactionRollback(fat, log) = fat
              /\ restoreOriginalFileSize(fd_table, log) = fd_table
          BY <2>2, <4>1, RestoredAgain
        <4> QED
          BY <3>1, <4>1, <4>2
      <3>2. CASE ~log.in_progress
        BY <2>1, <3>2 DEF Restored
      <3> QED
        BY <3>1, <3>2
    <2>5. CASE Left0
      <3>1. /\ disk'.fat = fat /\ disk'.fd_table = disk.fd_table
            /\ disk'.log = log /\ disk'.file_count = file_count
        BY <1>4, <1>6, <2>3, <2>5
      <3> QED
        BY <1>6, <2>4, <2>5, <3>1 DEF Restored
    <2>6. CASE Left1
      <3>1. /\ disk'.fat = fat /\ disk'.fd_table = fd_table
            /\ disk'.log = log /\ disk'.file_count = file_count
        BY <1>4, <1>7, <2>3, <2>6 DEF Left1
      <3> QED
        BY <1>7, <2>4, <2>6, <3>1 DEF Restored
    <2>7. CASE Left2
      <3>1. /\ disk'.fat = fat /\ disk'.fd_table = fd_table
            /\ disk'.log = emptyLog /\ disk'.file_count = file_count
        BY <1>4, <1>8, <2>3, <2>7 DEF Left2
      <3> QED
        BY <1>8, <2>7, <3>1, EmptyLog DEF Restored
    <2>8. CASE Left3
      BY <1>9, <2>8
    <2> QED
      BY <2>1, <2>5, <2>6, <2>7, <2>8
  <1> QED
    BY <1>3, <1>5, <1>11, <1>12 DEF IInv

\* The constructor: RAM has what it finds on the disk.
LEMMA CrashKeeps ==
    ASSUME IInv, Crash
    PROVE  IInv'
  <1> DEFINE t == [s \in OpenSlots |-> emptyOpenedFile]
  <1>1. /\ defined
        /\ fat' = Restored.fat /\ fd_table' = Restored.fd_table
        /\ file_count' = Restored.file_count
        /\ open_file_fd_table' = t /\ opened_file_count' = 0
        /\ pending' = saveToDisk(fat', fd_table', file_count')
        /\ booting' = TRUE
        /\ intact' = (intact /\ (pending = << >> \/ booting))
        /\ disk' = disk /\ defined' = defined
    BY DEF Crash
  <1>2. Typed
    BY DEF IInv
  <1>3. /\ fat' \in Fats /\ Acyclic(fat') /\ fd_table' \in Tables
        /\ file_count' \in 0..NUM_FILES
        /\ Restored = [fat |-> fat', fd_table |-> fd_table', file_count |-> file_count']
    BY <1>1, <1>2, RestoredTyped
  <1>4. t \in [OpenSlots -> OpenFile] /\ UsedSlots(t) = {}
    BY DEF OpenFile, emptyOpenedFile, UsedSlots, NO_OPENED_FILE
  <1> HIDE DEF t
  <1>5. pending' \in Seq(Writes) /\ Left0'
    <2>1. \A f, fds, c : f \in Fats /\ Acyclic(f) /\ fds \in Tables /\ c \in 0..NUM_FILES =>
            /\ saveToDisk(f, fds, c) \in Seq(Writes)
            /\ saveToDisk(f, fds, c) =
                   <<Put("fat", f), Put("fd_table", fds), Put("log", emptyLog),
                     Put("file_count", c)>>
      BY SavesTyped
    <2> QED
      BY <1>1, <1>3, <2>1 DEF Left0
  <1>6. Typed'
    <2>1. booting' \in BOOLEAN /\ defined' \in BOOLEAN /\ intact' \in BOOLEAN
      BY <1>1, <1>2 DEF Typed
    <2> QED
      BY <1>1, <1>2, <1>3, <1>4, <1>5, <2>1 DEF Typed
  <1>7. OpenCounted'
    BY <1>1, <1>4, FS_EmptySet DEF OpenCounted
  <1>8. SavesAgree'
    BY <1>5 DEF SavesAgree
  <1>9. BootAgrees'
    <2>1. Restored' = Restored
      BY <1>1 DEF Restored
    <2> QED
      BY <1>3, <1>5, <2>1 DEF BootAgrees
  <1>10. SoundNow'
    <2> SUFFICES ASSUME intact, pending = << >> \/ booting
                 PROVE  fat' = fat /\ fd_table' = fd_table /\ file_count' = file_count
      BY <1>1 DEF SoundNow, IInv
    <2>1. CASE booting
      BY <1>1, <2>1 DEF IInv, BootAgrees
    <2>2. CASE pending = << >>
      <3>1. Left4
        BY <1>1, <2>2, AtReady DEF Ready
      <3> QED
        BY <1>1, <3>1, EmptyLog DEF Left4, Restored
    <2> QED
      BY <2>1, <2>2
  <1> QED
    BY <1>6, <1>7, <1>8, <1>9, <1>10 DEF IInv

-----------------------------------------------------------------------------
(* The theorems                                                              *)

\* A program that starts for the first time has no files.
LEMMA InitIInv == Init => IInv
  <1> SUFFICES ASSUME Init
               PROVE  IInv
    OBVIOUS
  <1>1. /\ fat = EmptyFat /\ fd_table = EmptyTable /\ file_count = 0
        /\ open_file_fd_table = [s \in OpenSlots |-> emptyOpenedFile]
        /\ opened_file_count = 0
        /\ disk = [fat |-> fat, fd_table |-> fd_table, log |-> emptyLog, file_count |-> 0]
        /\ pending = saveToDisk(fat, fd_table, 0)
        /\ booting = TRUE /\ defined = TRUE /\ intact = TRUE
    BY DEF Init
  <1>2. 0 \in 0..NUM_FILES
    BY SizesAssumption
  <1>3. fat \in Fats /\ Acyclic(fat) /\ Free(fat) = Blocks
    <2>1. fat \in Fats /\ \A b \in Blocks : fat[b] = FREE_BLOCK
      BY <1>1 DEF EmptyFat, Fats
    <2>2. Free(fat) = Blocks
      BY <2>1 DEF Free
    <2>3. Acyclic(fat)
      <3> SUFFICES ASSUME NEW S \in SUBSET Blocks, S # {}
                   PROVE  \E b \in S : fat[b] \notin S
        BY DEF Acyclic
      <3>1. PICK b \in S : TRUE
        OBVIOUS
      <3>2. fat[b] = FREE_BLOCK /\ FREE_BLOCK \notin S
        BY <2>1, BlockNumbers
      <3> QED
        BY <3>1, <3>2
    <2> QED
      BY <2>1, <2>2, <2>3
  <1>4. fd_table \in Tables /\ \A j \in FileSlots : fd_table[j] = emptyFileDescriptor
    BY <1>1 DEF EmptyTable, Tables, emptyFileDescriptor, Descriptor
  <1>5. /\ open_file_fd_table \in [OpenSlots -> OpenFile]
        /\ UsedSlots(open_file_fd_table) = {}
    BY <1>1 DEF OpenFile, emptyOpenedFile, UsedSlots, NO_OPENED_FILE
  <1>6. pending \in Seq(Writes) /\ Left0
    BY <1>1, <1>2, <1>3, <1>4, SavesTyped DEF Left0
  <1>7. Typed
    <2>1. disk \in [fat : Fats, fd_table : Tables, log : Logs, file_count : 0..NUM_FILES]
      BY <1>1, <1>2, <1>3, <1>4, EmptyLog
    <2>2. disk.fat = fat
      BY <1>1
    <2> QED
      BY <1>1, <1>2, <1>3, <1>4, <1>5, <1>6, <2>1, <2>2 DEF Typed
  <1>8. OpenCounted
    BY <1>1, <1>5, FS_EmptySet DEF OpenCounted
  <1>9. BootAgrees /\ SavesAgree
    <2>1. Restored = [fat |-> fat, fd_table |-> fd_table, file_count |-> file_count]
      BY <1>1, EmptyLog DEF Restored
    <2> QED
      BY <1>6, <2>1 DEF BootAgrees, SavesAgree
  <1>10. SoundNow
    <2>1. \A i : i \notin 0..file_count - 1
      BY <1>1
    <2>2. \A x \in Blocks : fat[x] = FREE_BLOCK
      BY <1>3 DEF Free
    <2> QED
      BY <1>4, <2>1, <2>2 DEF SoundNow, Sound
  <1> QED
    BY <1>7, <1>8, <1>9, <1>10 DEF IInv

\* Every step keeps the invariant.
LEMMA NextKeeps == IInv /\ [Next]_vars => IInv'
  <1> SUFFICES ASSUME IInv, [Next]_vars
               PROVE  IInv'
    OBVIOUS
  <1>1. ASSUME NEW n \in Names, NEW size \in Sizes, create(n, size)
        PROVE  IInv'
    BY <1>1, createKeeps
  <1>2. ASSUME NEW n \in Names, open(n)
        PROVE  IInv'
    BY <1>2, openKeeps
  <1>3. ASSUME NEW n \in Names, close(n)
        PROVE  IInv'
    BY <1>3, closeKeeps
  <1>4. ASSUME NEW n \in Names, NEW size \in Sizes \ {0}, read(n, size)
        PROVE  IInv'
    BY <1>4, readKeeps
  <1>5. ASSUME NEW n \in Names, NEW size \in Sizes \ {0}, write(n, size)
        PROVE  IInv'
    BY <1>5, writeKeeps
  <1>6. ASSUME NEW n \in Names, delete_(n)
        PROVE  IInv'
    BY <1>6, deleteKeeps
  <1>7. CASE Flush
    BY <1>7, FlushKeeps
  <1>8. CASE Crash
    BY <1>8, CrashKeeps
  <1>9. CASE UNCHANGED vars
    <2>1. /\ fat' = fat /\ fd_table' = fd_table /\ file_count' = file_count
          /\ open_file_fd_table' = open_file_fd_table
          /\ opened_file_count' = opened_file_count /\ disk' = disk
          /\ pending' = pending /\ booting' = booting /\ defined' = defined
          /\ intact' = intact
      BY <1>9 DEF vars, ram
    <2>2. Typed' /\ OpenCounted' /\ SoundNow'
      BY <2>1 DEF IInv, Typed, OpenCounted, SoundNow
    <2>3. SavesAgree'
      BY <2>1 DEF IInv, SavesAgree, Left0, Left1, Left2, Left3, Left4, LogThenSaves
    <2>4. BootAgrees'
      BY <2>1 DEF IInv, BootAgrees, Restored, Left0, Left1, Left2, Left3
    <2> QED
      BY <2>2, <2>3, <2>4 DEF IInv
  <1> QED
    BY <1>1, <1>2, <1>3, <1>4, <1>5, <1>6, <1>7, <1>8, <1>9 DEF Next

\* The strengthened invariant holds throughout.
THEOREM Invariance == Spec => []IInv
  BY InitIInv, NextKeeps, PTL DEF Spec

\* Types, and opened_file_count as the number of slots in use.
THEOREM TypeCorrect == Spec => []TypeOK
  <1>1. IInv => TypeOK
    <2> SUFFICES ASSUME IInv
                 PROVE  TypeOK
      OBVIOUS
    <2>1. OpenSlots \ FreeOpenSlots = UsedSlots(open_file_fd_table)
      BY DEF FreeOpenSlots, UsedSlots
    <2> QED
      BY <2>1 DEF IInv, Typed, OpenCounted, TypeOK, Fats, Tables, OpenFile
  <1> QED
    BY <1>1, Invariance, PTL

\* No call and no crash ever closes a ring in the table: chains end.
THEOREM ChainsDoEnd == Spec => []ChainsEnd
  <1>1. IInv => ChainsEnd
    <2> SUFFICES ASSUME IInv, NEW b \in Blocks
                 PROVE  ChainEnd(fat, b) \notin Blocks
      BY DEF ChainsEnd
    <2>1. Walk(fat, b)[N] \notin Blocks
      BY WalkEnds DEF IInv, Typed
    <2> QED
      BY <2>1, BlockNumbers DEF ChainEnd, WalkAt, N
  <1> QED
    BY <1>1, Invariance, PTL

\* The files divide up the blocks in use.
THEOREM FilesDoPartition == Spec => []FilesPartitionBlocks
  <1>1. IInv => FilesPartitionBlocks
    <2> DEFINE C(i) == Chain(fat, fd_table[i].starting_block)
    <2> SUFFICES ASSUME IInv, intact, defined
                 PROVE  /\ \A i \in Files :
                               /\ ChainEnd(fat, fd_table[i].starting_block) = END_OF_CHAIN
                               /\ Cardinality(C(i)) >= BlocksFor(fd_table[i].size)
                        /\ \A i, j \in Files :
                               i # j => /\ C(i) \cap C(j) = {}
                                        /\ fd_table[i].name # fd_table[j].name
                        /\ Blocks \ Free(fat) = UNION {C(i) : i \in Files}
      BY DEF FilesPartitionBlocks
    <2>1. Sound(fat, fd_table, file_count) /\ fat \in Fats /\ Acyclic(fat)
      BY DEF IInv, SoundNow, Typed
    <2>2. \A i : ChainOf(fat, fd_table, i) = C(i)
      BY DEF ChainOf
    <2>3. \A i \in Files : /\ fd_table[i].starting_block \in Blocks
                           /\ BlocksFor(fd_table[i].size) <= Cardinality(C(i))
                           /\ BlocksFor(fd_table[i].size) \in Nat
      BY <2>1, BlocksForIs DEF Sound, FileSound, Files
    <2>4. \A i \in Files : \A x \in C(i) : x \in Blocks /\ fat[x] # FREE_BLOCK
      BY <2>1, <2>2, ChainClosed DEF Sound, Files
    <2>5. \A i \in Files : ChainEnd(fat, fd_table[i].starting_block) = END_OF_CHAIN
      BY <2>1, <2>3, <2>4, ChainEnds
    <2>6. \A i \in Files : Cardinality(C(i)) >= BlocksFor(fd_table[i].size)
      BY <2>3, ChainFinite
    <2>7. \A i, j \in Files : i # j => /\ C(i) \cap C(j) = {}
                                       /\ fd_table[i].name # fd_table[j].name
      BY <2>1, <2>2 DEF Sound, Files
    <2>8. Blocks \ Free(fat) = UNION {C(i) : i \in Files}
      <3>1. \A x \in Blocks : x \notin Free(fat) <=> \E i \in Files : x \in C(i)
        BY <2>1, <2>2 DEF Sound, Files, Free
      <3>2. \A i \in Files : C(i) \subseteq Blocks
        BY <2>4
      <3> QED
        BY <3>1, <3>2
    <2> QED
      BY <2>5, <2>6, <2>7, <2>8
  <1> QED
    BY <1>1, Invariance, PTL

\* A second start finds what the first had found, however far that one had got
\* with writing it back.
THEOREM RepairIsIdempotent == Spec => RepairIdempotent
  <1>1. IInv => (Crash /\ booting => UNCHANGED <<fat, fd_table, file_count>>)
    BY DEF IInv, BootAgrees, Crash
  <1> QED
    BY <1>1, Invariance, PTL DEF RepairIdempotent

\* A start after a crash between two calls finds the files there were.
THEOREM DurableHolds == Spec => DurableBetweenCalls
  <1>1. IInv => (Crash /\ intact /\ pending = << >> => UNCHANGED Contents)
    <2> SUFFICES ASSUME IInv, Crash, intact, pending = << >>
                 PROVE  UNCHANGED Contents
      OBVIOUS
    <2>1. defined /\ fat' = Restored.fat /\ fd_table' = Restored.fd_table
          /\ file_count' = Restored.file_count
      BY DEF Crash
    <2>2. Left4
      BY <2>1, AtReady DEF Ready
    <2>3. fat' = fat /\ fd_table' = fd_table /\ file_count' = file_count
      BY <2>1, <2>2, EmptyLog DEF Left4, Restored
    <2> QED
      BY <2>3 DEF Contents, Files, Free
  <1> QED
    BY <1>1, Invariance, PTL DEF DurableBetweenCalls
=============================================================================
