---------------------------- MODULE MemoryProofs ----------------------------
(* Theorems about Memory, for any number of processes, chunks of memory, size  *)
(* of the swap area and sizes of processes: no click is lost or owned twice,  *)
(* the list stays sorted and merged and fits into its table, the flags and    *)
(* the inswap queue agree with where processes are, and every call ends.      *)
(*                                                                            *)
(* First what the operators of HoleList do to a list in order: which clicks   *)
(* are free afterwards.  A step of alloc_mem, swap_in or swap_out then moves  *)
(* clicks between the list and one process (Take, Give, Move).  The inductive *)
(* invariant IInv adds what these steps rely on: the holes are apart, a slot  *)
(* without a process has no flag set, and the queue and the cursor of swap_in *)
(* belong together.                                                           *)
EXTENDS Memory, SequenceTheorems, FiniteSetTheorems, WellFoundedInduction, TLAPS

-----------------------------------------------------------------------------
(* Numbers                                                                   *)

\* A set of natural numbers has a least one.
LEMMA LeastOfNat ==
    ASSUME NEW S, S \subseteq Nat, S # {}
    PROVE  \E m \in S : \A n \in S : m <= n
  <1>1. PICK R : IsWellFoundedOn(R, Nat) /\ \A x, y \in Nat : x < y => <<x, y>> \in R
    <2>1. \A x, y \in Nat : x < y => <<x, y>> \in OpToRel(<, Nat)
      BY DEF OpToRel
    <2> QED
      BY <2>1, NatLessThanWellFounded
  <1>2. PICK x \in S : \A y \in S : ~(<<y, x>> \in R)
    <2>1. S \subseteq Nat /\ S # {} /\ IsWellFoundedOn(R, Nat)
      BY <1>1
    <2> QED
      BY <2>1, WFMin
  <1>3. \A y \in S : ~(y < x)
    BY <1>1, <1>2
  <1> QED
    BY <1>3

\* First picks the least member.
LEMMA FirstIsLeast ==
    ASSUME NEW S, S \subseteq Nat, S # {}
    PROVE  First(S) \in S /\ \A n \in S : First(S) <= n
  BY LeastOfNat DEF First

-----------------------------------------------------------------------------
(* Lists of holes                                                            *)

Holes == [base : Nat, len : Nat \ {0}]

EndOf(x) == x.base + x.len

\* In the order of their addresses, perhaps touching.
Ordered(h) ==
    /\ h \in Seq(Holes)
    /\ \A i, j \in 1..Len(h) : i < j => EndOf(h[i]) <= h[j].base

\* In order and apart from each other.
Apart(h) ==
    /\ h \in Seq(Holes)
    /\ \A i, j \in 1..Len(h) : i < j => EndOf(h[i]) < h[j].base

\* Holes are made of numbers.
LEMMA HoleNumbers ==
    ASSUME NEW h \in Seq(Holes)
    PROVE  /\ Len(h) \in Nat /\ DOMAIN h = 1..Len(h)
           /\ \A i \in 1..Len(h) : /\ h[i] \in Holes
                                   /\ h[i].base \in Nat /\ h[i].len \in Nat \ {0}
                                   /\ EndOf(h[i]) \in Nat /\ h[i].base < EndOf(h[i])
  <1>1. Len(h) \in Nat /\ DOMAIN h = 1..Len(h)
    BY LenProperties
  <1>2. ASSUME NEW i \in 1..Len(h)
        PROVE  h[i] \in Holes
    BY ElementOfSeq
  <1> QED
    BY <1>1, <1>2 DEF Holes, EndOf

\* A free click is in a hole.
LEMMA FreeClick ==
    ASSUME NEW h \in Seq(Holes)
    PROVE  /\ FreeClicks(h) \subseteq Nat
           /\ \A c \in Nat : c \in FreeClicks(h) <=>
                  \E i \in 1..Len(h) : h[i].base <= c /\ c < EndOf(h[i])
  <1>1. \A i \in 1..Len(h) : h[i].base \in Nat /\ h[i].len \in Nat \ {0}
    BY HoleNumbers
  <1>2. \A c : c \in FreeClicks(h) <=>
                 \E i \in 1..Len(h) : c \in h[i].base..(h[i].base + h[i].len - 1)
    BY DEF FreeClicks, Span
  <1>3. Len(h) \in Nat
    BY HoleNumbers
  <1>4. FreeClicks(h) \subseteq Nat
    BY <1>1, <1>2, <1>3
  <1>5. ASSUME NEW c \in Nat, NEW i \in 1..Len(h)
        PROVE  c \in h[i].base..(h[i].base + h[i].len - 1) <=> h[i].base <= c /\ c < EndOf(h[i])
    <2>1. h[i].base \in Nat /\ h[i].len \in Nat
      BY <1>1
    <2> QED
      BY <2>1 DEF EndOf
  <1> QED
    BY <1>2, <1>4, <1>5

\* Lists that do not touch anywhere are apart.
LEMMA OrderedApart ==
    ASSUME NEW h, Ordered(h), \A i \in 1..Len(h) : ~Touches(h, i)
    PROVE  Apart(h)
  <1>1. \A i \in 1..Len(h) : /\ h[i].base \in Nat /\ h[i].len \in Nat \ {0}
                              /\ EndOf(h[i]) = h[i].base + h[i].len
    BY HoleNumbers DEF Ordered, EndOf
  <1>2. Len(h) \in Nat
    BY HoleNumbers DEF Ordered
  <1>3. ASSUME NEW i \in 1..Len(h), NEW j \in 1..Len(h), i < j
        PROVE  EndOf(h[i]) < h[j].base
    <2>1. EndOf(h[i]) < h[i + 1].base
      <3>1. ~Touches(h, i) /\ i < Len(h) /\ i + 1 \in 1..Len(h)
        BY <1>2, <1>3
      <3>2. EndOf(h[i]) <= h[i + 1].base
        BY <1>2, <1>3, <3>1 DEF Ordered
      <3> QED
        <4>1. h[i].base + h[i].len # h[i + 1].base
          BY <3>1 DEF Touches
        <4>2. EndOf(h[i]) = h[i].base + h[i].len
          BY <1>1
        <4>3. h[i].base \in Nat /\ h[i].len \in Nat
          BY <1>1
        <4>4. h[i + 1].base \in Nat
          BY <1>1, <3>1
        <4> QED
          BY <3>2, <4>1, <4>2, <4>3, <4>4
    <2>2. CASE j = i + 1
      BY <2>1, <2>2
    <2>3. CASE j > i + 1
      <3>1. i + 1 \in 1..Len(h) /\ i + 1 < j
        BY <1>2, <1>3, <2>3
      <3>2. EndOf(h[i + 1]) <= h[j].base
        BY <3>1 DEF Ordered
      <3>3. EndOf(h[i]) \in Nat /\ h[j].base \in Nat
        BY <1>1
      <3>4. /\ h[i + 1].base \in Nat /\ h[i + 1].len \in Nat \ {0}
            /\ EndOf(h[i + 1]) = h[i + 1].base + h[i + 1].len
        BY <1>1, <3>1
      <3>5. EndOf(h[i + 1]) \in Nat /\ h[i + 1].base < EndOf(h[i + 1])
        BY ONLY <3>4, SMTT(30)
      <3> QED
        BY <2>1, <3>2, <3>3, <3>4, <3>5
    <2> QED
      BY <1>2, <1>3, <2>2, <2>3
  <1> QED
    BY <1>3 DEF Apart, Ordered

\* What leaves and enters the list: its elements one by one.
LEMMA DelSlot ==
    ASSUME NEW S, NEW h \in Seq(S), NEW i \in 1..Len(h)
    PROVE  /\ del_slot(h, i) \in Seq(S)
           /\ Len(del_slot(h, i)) = Len(h) - 1
           /\ \A j \in 1..Len(h) - 1 :
                  del_slot(h, i)[j] = IF j < i THEN h[j] ELSE h[j + 1]
  <1> DEFINE a == SubSeq(h, 1, i - 1)
             b == SubSeq(h, i + 1, Len(h))
             c == a \o b
  <1>1. Len(h) \in Nat
    BY LenProperties
  <1>2. /\ a \in Seq(S) /\ Len(a) = i - 1
        /\ \A j \in 1..i - 1 : a[j] = h[j]
    BY <1>1, SubSeqProperties
  <1>3. /\ b \in Seq(S) /\ Len(b) = Len(h) - i
        /\ \A j \in 1..Len(h) - i : b[j] = h[i + j]
    BY <1>1, SubSeqProperties
  <1> HIDE DEF a, b
  <1>4. /\ c \in Seq(S) /\ Len(c) = Len(a) + Len(b)
        /\ \A j \in 1..Len(a) + Len(b) : c[j] = IF j <= Len(a) THEN a[j] ELSE b[j - Len(a)]
    BY <1>2, <1>3, ConcatProperties
  <1> HIDE DEF c
  <1>5. ASSUME NEW j \in 1..Len(h) - 1
        PROVE  c[j] = IF j < i THEN h[j] ELSE h[j + 1]
    <2>0. c[j] = IF j <= i - 1 THEN a[j] ELSE b[j - (i - 1)]
      <3>1. Len(a) = i - 1 /\ j \in 1..Len(a) + Len(b)
        BY <1>1, <1>2, <1>3
      <3> QED
        BY <1>4, <3>1
    <2>1. CASE j < i
      <3>1. j <= i - 1 /\ j \in 1..i - 1
        BY <1>1, <2>1
      <3> QED
        BY <1>2, <2>0, <2>1, <3>1
    <2>2. CASE j >= i
      <3>1. c[j] = b[j - (i - 1)]
        BY <1>1, <2>0, <2>2
      <3>2. j - (i - 1) \in 1..Len(h) - i /\ i + (j - (i - 1)) = j + 1
        BY <1>1, <2>2
      <3> QED
        BY <1>3, <2>2, <3>1, <3>2
    <2> QED
      BY <1>1, <2>1, <2>2
  <1>6. del_slot(h, i) = c
    BY DEF del_slot, a, b, c
  <1> QED
    BY <1>1, <1>2, <1>3, <1>4, <1>5, <1>6

\* A list with a hole put in, hole by hole.
LEMMA Inserted ==
    ASSUME NEW S, NEW h \in Seq(S), NEW k \in 0..Len(h), NEW x \in S
    PROVE  /\ InsertHole(h, k, x) \in Seq(S)
           /\ Len(InsertHole(h, k, x)) = Len(h) + 1
           /\ \A j \in 1..Len(h) + 1 :
                  InsertHole(h, k, x)[j] =
                      IF j <= k THEN h[j] ELSE IF j = k + 1 THEN x ELSE h[j - 1]
  <1> DEFINE a == SubSeq(h, 1, k)
             b == SubSeq(h, k + 1, Len(h))
             c == a \o <<x>>
             d == c \o b
  <1>1. Len(h) \in Nat
    BY LenProperties
  <1>2. /\ a \in Seq(S) /\ Len(a) = k
        /\ \A j \in 1..k : a[j] = h[j]
    BY <1>1, SubSeqProperties
  <1>3. /\ b \in Seq(S) /\ Len(b) = Len(h) - k
        /\ \A j \in 1..Len(h) - k : b[j] = h[k + j]
    BY <1>1, SubSeqProperties
  <1>4. <<x>> \in Seq(S) /\ Len(<<x>>) = 1 /\ <<x>>[1] = x
    OBVIOUS
  <1> HIDE DEF a, b
  <1>5. /\ c \in Seq(S) /\ Len(c) = k + 1
        /\ \A j \in 1..k + 1 : c[j] = IF j <= k THEN a[j] ELSE <<x>>[j - k]
    BY <1>2, <1>4, ConcatProperties
  <1>6. \A j \in 1..k + 1 : c[j] = IF j <= k THEN h[j] ELSE x
    BY <1>2, <1>4, <1>5
  <1> HIDE DEF c
  <1>7. /\ d \in Seq(S) /\ Len(d) = Len(c) + Len(b)
        /\ \A j \in 1..Len(c) + Len(b) : d[j] = IF j <= Len(c) THEN c[j] ELSE b[j - Len(c)]
    BY <1>3, <1>5, ConcatProperties
  <1> HIDE DEF d
  <1>8. ASSUME NEW j \in 1..Len(h) + 1
        PROVE  d[j] = IF j <= k THEN h[j] ELSE IF j = k + 1 THEN x ELSE h[j - 1]
    <2>0. d[j] = IF j <= k + 1 THEN c[j] ELSE b[j - (k + 1)]
      <3>1. Len(c) = k + 1 /\ j \in 1..Len(c) + Len(b)
        BY <1>1, <1>3, <1>5
      <3> QED
        BY <1>7, <3>1
    <2>1. CASE j <= k + 1
      <3>1. j \in 1..k + 1
        BY <1>1, <2>1
      <3> QED
        BY <1>1, <1>6, <2>0, <2>1, <3>1
    <2>2. CASE j > k + 1
      <3>1. d[j] = b[j - (k + 1)]
        BY <1>1, <2>0, <2>2
      <3>2. j - (k + 1) \in 1..Len(h) - k /\ k + (j - (k + 1)) = j - 1
        BY <1>1, <2>2
      <3> QED
        BY <1>1, <1>3, <2>2, <3>1, <3>2
    <2> QED
      BY <1>1, <2>1, <2>2
  <1>9. InsertHole(h, k, x) = d
    BY DEF InsertHole, a, b, c, d
  <1> QED
    BY <1>1, <1>3, <1>5, <1>7, <1>8, <1>9

-----------------------------------------------------------------------------
(* Biting off, absorbing and inserting                                       *)

\* What alloc_mem and swap_out take of a hole is free no longer, and nothing else.
LEMMA BiteTakes ==
    ASSUME NEW h, Apart(h), NEW i \in 1..Len(h), NEW clicks \in 1..h[i].len
    PROVE  /\ Apart(Bite(h, i, clicks))
           /\ Span(h[i].base, clicks) \subseteq FreeClicks(h)
           /\ FreeClicks(Bite(h, i, clicks)) = FreeClicks(h) \ Span(h[i].base, clicks)
  <1> DEFINE g == Bite(h, i, clicks)
  <1>1. h \in Seq(Holes) /\ Len(h) \in Nat
    BY HoleNumbers DEF Apart
  <1>2. \A j \in 1..Len(h) : /\ h[j] \in Holes
                              /\ h[j].base \in Nat /\ h[j].len \in Nat \ {0}
                              /\ EndOf(h[j]) \in Nat /\ h[j].base < EndOf(h[j])
                              /\ EndOf(h[j]) = h[j].base + h[j].len
    BY <1>1, HoleNumbers DEF EndOf
  <1>3. \A m, n \in 1..Len(h) : m < n => EndOf(h[m]) < h[n].base
    BY DEF Apart
  <1>4. clicks \in Nat \ {0} /\ clicks <= h[i].len
    BY <1>2
  <1>5. \A c : c \in Span(h[i].base, clicks) <=>
                  c \in Nat /\ h[i].base <= c /\ c < h[i].base + clicks
    BY <1>2, <1>4 DEF Span
  <1>6. /\ FreeClicks(h) \subseteq Nat
        /\ \A c \in Nat : c \in FreeClicks(h) <=>
               \E j \in 1..Len(h) : h[j].base <= c /\ c < EndOf(h[j])
    BY <1>1, FreeClick
  <1>7. Span(h[i].base, clicks) \subseteq FreeClicks(h)
    <2>1. ASSUME NEW c \in Nat, h[i].base <= c, c < h[i].base + clicks
          PROVE  c < EndOf(h[i])
      BY <1>2, <1>4, <2>1
    <2> QED
      BY <1>5, <1>6, <2>1
  \* A click of another hole is not in the bite.
  <1>8. ASSUME NEW j \in 1..Len(h), j # i, NEW c \in Nat, h[j].base <= c, c < EndOf(h[j])
        PROVE  ~(h[i].base <= c /\ c < EndOf(h[i]))
    <2>1. CASE j < i
      BY <1>2, <1>3, <1>8, <2>1
    <2>2. CASE i < j
      BY <1>2, <1>3, <1>8, <2>2
    <2> QED
      BY <1>1, <1>8, <2>1, <2>2
  <1>9. CASE h[i].len = clicks
    <2>1. /\ g \in Seq(Holes) /\ Len(g) = Len(h) - 1
          /\ \A j \in 1..Len(h) - 1 : g[j] = IF j < i THEN h[j] ELSE h[j + 1]
      BY <1>1, <1>9, DelSlot DEF Bite
    <2> DEFINE old(j) == IF j < i THEN j ELSE j + 1
    <2>2. ASSUME NEW j \in 1..Len(g)
          PROVE  g[j] = h[old(j)] /\ old(j) \in 1..Len(h) /\ old(j) # i
      BY <1>1, <2>1
    <2>3. ASSUME NEW m \in 1..Len(g), NEW n \in 1..Len(g), m < n
          PROVE  EndOf(g[m]) < g[n].base
      <3>1. old(m) < old(n)
        BY <1>1, <2>1, <2>3
      <3> HIDE DEF g, old
      <3> QED
        BY <1>3, <2>2, <3>1
    <2>4. Apart(g)
      BY <2>1, <2>3 DEF Apart
    <2>5. /\ FreeClicks(g) \subseteq Nat
          /\ \A c \in Nat : c \in FreeClicks(g) <=>
                 \E j \in 1..Len(g) : g[j].base <= c /\ c < EndOf(g[j])
      BY <2>1, FreeClick
    <2>6. ASSUME NEW j \in 1..Len(h), j # i
          PROVE  \E n \in 1..Len(g) : g[n] = h[j]
      <3>1. CASE j < i
        <4>1. j \in 1..Len(g) /\ g[j] = h[j]
          BY <1>1, <2>1, <3>1
        <4> QED
          BY <4>1
      <3>2. CASE i < j
        <4>1. j - 1 \in 1..Len(g) /\ ~(j - 1 < i) /\ j - 1 + 1 = j
          BY <1>1, <2>1, <3>2
        <4>2. g[j - 1] = h[j]
          BY <1>1, <2>1, <4>1
        <4> QED
          BY <4>1, <4>2
      <3> QED
        BY <1>1, <2>6, <3>1, <3>2
    <2> HIDE DEF g
    <2>7. ASSUME NEW c \in Nat
          PROVE  c \in FreeClicks(g) <=> c \in FreeClicks(h) /\ c \notin Span(h[i].base, clicks)
      <3>1. h[i].base + clicks = EndOf(h[i])
        BY <1>2, <1>9
      <3>2. ASSUME c \in FreeClicks(g)
            PROVE  c \in FreeClicks(h) /\ c \notin Span(h[i].base, clicks)
        <4>1. PICK n \in 1..Len(g) : g[n].base <= c /\ c < EndOf(g[n])
          BY <2>5, <3>2
        <4> HIDE DEF old
        <4> QED
          BY <1>5, <1>6, <1>8, <2>2, <3>1, <4>1
      <3>3. ASSUME c \in FreeClicks(h), c \notin Span(h[i].base, clicks)
            PROVE  c \in FreeClicks(g)
        <4>1. PICK j \in 1..Len(h) : h[j].base <= c /\ c < EndOf(h[j])
          BY <1>6, <3>3
        <4>2. j # i
          BY <1>5, <3>1, <3>3, <4>1
        <4> QED
          BY <2>5, <2>6, <4>1, <4>2
      <3> QED
        BY <3>2, <3>3
    <2> QED
      BY <1>6, <1>7, <2>4, <2>5, <2>7 DEF g
  <1>10. CASE h[i].len # clicks
    <2> DEFINE x == Hole(h[i].base + clicks, h[i].len - clicks)
    <2>1. x \in Holes /\ x.base = h[i].base + clicks /\ EndOf(x) = EndOf(h[i]) /\ x.base < EndOf(x)
      BY <1>2, <1>4, <1>10 DEF Hole, Holes, EndOf
    <2>2. g = [h EXCEPT ![i] = x]
      BY <1>10 DEF Bite
    <2> HIDE DEF g, x
    <2>3. /\ g \in Seq(Holes) /\ Len(g) = Len(h)
          /\ \A j \in 1..Len(h) : g[j] = IF j = i THEN x ELSE h[j]
      BY <1>1, <2>1, <2>2, ExceptSeq
    <2>4. ASSUME NEW m \in 1..Len(g), NEW n \in 1..Len(g), m < n
          PROVE  EndOf(g[m]) < g[n].base
      <3>1. EndOf(g[m]) = EndOf(h[m]) /\ h[n].base <= g[n].base /\ g[n].base \in Nat
        BY SMTT(30), <1>2, <1>4, <2>1, <2>3
      <3>2. EndOf(h[m]) < h[n].base
        BY <1>3, <2>3, <2>4
      <3>3. EndOf(h[m]) \in Nat /\ h[n].base \in Nat
        BY <1>2, <2>3
      <3> QED
        BY <3>1, <3>2, <3>3
    <2>5. Apart(g)
      BY <2>3, <2>4 DEF Apart
    <2>6. /\ FreeClicks(g) \subseteq Nat
          /\ \A c \in Nat : c \in FreeClicks(g) <=>
                 \E j \in 1..Len(g) : g[j].base <= c /\ c < EndOf(g[j])
      BY <2>3, FreeClick
    <2>7. ASSUME NEW c \in Nat
          PROVE  c \in FreeClicks(g) <=> c \in FreeClicks(h) /\ c \notin Span(h[i].base, clicks)
      <3>1. ASSUME c \in FreeClicks(g)
            PROVE  c \in FreeClicks(h) /\ c \notin Span(h[i].base, clicks)
        <4>1. PICK n \in 1..Len(g) : g[n].base <= c /\ c < EndOf(g[n])
          BY <2>6, <3>1
        <4>2. CASE n = i
          <5>1. h[i].base + clicks <= c /\ c < EndOf(h[i])
            BY <2>1, <2>3, <4>1, <4>2
          <5>2. h[i].base <= c
            BY <1>2, <1>4, <5>1
          <5>3. c \notin Span(h[i].base, clicks)
            BY <1>2, <1>4, <1>5, <5>1
          <5> QED
            BY <1>6, <5>1, <5>2, <5>3
        <4>3. CASE n # i
          <5>1. h[n].base <= c /\ c < EndOf(h[n]) /\ n \in 1..Len(h)
            BY <2>3, <4>1, <4>3
          <5>2. c \notin Span(h[i].base, clicks)
            BY SMTT(30), <1>5, <1>6, <1>8, <1>2, <1>4, <4>3, <5>1
          <5> QED
            BY <1>6, <5>1, <5>2
        <4> QED
          BY <4>2, <4>3
      <3>2. ASSUME c \in FreeClicks(h), c \notin Span(h[i].base, clicks)
            PROVE  c \in FreeClicks(g)
        <4>1. PICK j \in 1..Len(h) : h[j].base <= c /\ c < EndOf(h[j])
          BY <1>6, <3>2
        <4>2. CASE j = i
          <5>1. ~(c < h[i].base + clicks)
            BY <1>5, <3>2, <4>1, <4>2
          <5>2. g[i].base <= c /\ c < EndOf(g[i])
            BY <1>2, <1>4, <2>1, <2>3, <4>1, <4>2, <5>1
          <5> QED
            BY <2>3, <2>6, <5>2
        <4>3. CASE j # i
          BY <2>3, <2>6, <4>1, <4>3
        <4> QED
          BY <4>2, <4>3
      <3> QED
        BY <3>1, <3>2
    <2> QED
      BY <1>6, <1>7, <2>5, <2>6, <2>7 DEF g
  <1> QED
    BY <1>9, <1>10

\* One attempt to merge frees nothing and takes nothing, and what touches after it
\* touched before.
LEMMA AbsorbKeeps ==
    ASSUME NEW h, Ordered(h), NEW i \in 1..Len(h)
    PROVE  LET g == Absorb(h, i) IN
           /\ Ordered(g)
           /\ FreeClicks(g) = FreeClicks(h)
           /\ ~Touches(h, i) => g = h
           /\ Touches(h, i) =>
                  /\ Len(g) = Len(h) - 1
                  /\ \A j \in 1..Len(g) : Touches(g, j) =>
                         IF j < i THEN Touches(h, j) ELSE Touches(h, j + 1)
  <1>1. h \in Seq(Holes) /\ Len(h) \in Nat
    BY HoleNumbers DEF Ordered
  <1>2. \A j \in 1..Len(h) : /\ h[j] \in Holes
                              /\ h[j].base \in Nat /\ h[j].len \in Nat \ {0}
                              /\ EndOf(h[j]) \in Nat /\ h[j].base < EndOf(h[j])
                              /\ EndOf(h[j]) = h[j].base + h[j].len
    BY <1>1, HoleNumbers DEF EndOf
  <1>3. \A m, n \in 1..Len(h) : m < n => EndOf(h[m]) <= h[n].base
    BY DEF Ordered
  <1>4. CASE ~Touches(h, i)
    BY <1>4 DEF Absorb
  <1>5. CASE Touches(h, i)
    <2> DEFINE x == [h[i] EXCEPT !.len = @ + h[i + 1].len]
               w == [h EXCEPT ![i] = x]
               g == Absorb(h, i)
    <2>1. i + 1 \in 1..Len(h) /\ EndOf(h[i]) = h[i + 1].base
      BY <1>1, <1>5 DEF Touches, EndOf
    <2>2. x \in Holes /\ x.base = h[i].base /\ EndOf(x) = EndOf(h[i + 1])
      <3>1. x = [base |-> h[i].base, len |-> h[i].len + h[i + 1].len]
        BY <1>2 DEF Holes
      <3>2. /\ h[i].base \in Nat /\ h[i].len \in Nat \ {0} /\ h[i + 1].len \in Nat \ {0}
            /\ EndOf(h[i + 1]) = h[i + 1].base + h[i + 1].len
            /\ h[i].base + h[i].len = h[i + 1].base
        BY <1>2, <2>1
      <3> HIDE DEF x
      <3> QED
        BY <3>1, <3>2 DEF Holes, EndOf
    <2>3. g = del_slot(w, i + 1)
      BY <1>5 DEF Absorb
    <2> HIDE DEF x
    <2>4. /\ w \in Seq(Holes) /\ Len(w) = Len(h)
          /\ \A j \in 1..Len(h) : w[j] = IF j = i THEN x ELSE h[j]
      BY <1>1, <2>2, ExceptSeq
    <2> HIDE DEF w, g
    <2>5. /\ g \in Seq(Holes) /\ Len(g) = Len(h) - 1
          /\ \A j \in 1..Len(h) - 1 : g[j] = IF j < i + 1 THEN w[j] ELSE w[j + 1]
      <3>1. w \in Seq(Holes) /\ i + 1 \in 1..Len(w)
        BY <2>1, <2>4
      <3> DEFINE d == del_slot(w, i + 1)
      <3>2. /\ d \in Seq(Holes) /\ Len(d) = Len(w) - 1
            /\ \A j \in 1..Len(w) - 1 : d[j] = IF j < i + 1 THEN w[j] ELSE w[j + 1]
        BY <3>1, DelSlot
      <3> HIDE DEF d
      <3> QED
        BY <2>3, <2>4, <3>2 DEF d
    <2>6. ASSUME NEW j \in 1..Len(g)
          PROVE  g[j] = IF j < i THEN h[j] ELSE IF j = i THEN x ELSE h[j + 1]
      BY <1>1, <2>4, <2>5
    \* Hole j of g reaches from the beginning of low(j) to the end of high(j).
    <2> DEFINE low(j) == IF j <= i THEN j ELSE j + 1
               high(j) == IF j < i THEN j ELSE j + 1
    <2>7. ASSUME NEW j \in 1..Len(g)
          PROVE  /\ low(j) \in 1..Len(h) /\ high(j) \in 1..Len(h)
                 /\ g[j].base = h[low(j)].base
                 /\ EndOf(g[j]) = EndOf(h[high(j)])
      <3>1. j \in 1..Len(h) /\ j + 1 \in 1..Len(h)
        BY <1>1, <2>5
      <3>2. CASE j < i
        BY <2>6, <3>1, <3>2
      <3>3. CASE j = i
        BY <2>2, <2>6, <3>1, <3>3
      <3>4. CASE i < j
        BY <2>6, <3>1, <3>4
      <3> QED
        BY <1>1, <3>2, <3>3, <3>4, <2>5
    <2>8. ASSUME NEW m \in 1..Len(g), NEW n \in 1..Len(g), m < n
          PROVE  high(m) < low(n)
      BY <1>1, <2>5, <2>8
    <2> HIDE DEF low, high
    <2>9. ASSUME NEW m \in 1..Len(g), NEW n \in 1..Len(g), m < n
          PROVE  EndOf(g[m]) <= g[n].base
      BY <1>3, <2>7, <2>8, <2>9
    <2>10. Ordered(g)
      BY <2>5, <2>9 DEF Ordered
    <2>11. /\ FreeClicks(h) \subseteq Nat
           /\ \A c \in Nat : c \in FreeClicks(h) <=>
                  \E j \in 1..Len(h) : h[j].base <= c /\ c < EndOf(h[j])
      BY <1>1, FreeClick
    <2>12. /\ FreeClicks(g) \subseteq Nat
           /\ \A c \in Nat : c \in FreeClicks(g) <=>
                  \E j \in 1..Len(g) : g[j].base <= c /\ c < EndOf(g[j])
      BY <2>5, FreeClick
    <2>13. ASSUME NEW c \in Nat, NEW n \in 1..Len(g), g[n].base <= c, c < EndOf(g[n])
           PROVE  c \in FreeClicks(h)
      <3>1. CASE n = i
        <4>1. h[i].base <= c /\ c < EndOf(h[i + 1])
          BY <2>2, <2>6, <2>13, <3>1
        <4>2. c < EndOf(h[i]) \/ h[i + 1].base <= c
          BY <1>2, <2>1, <4>1
        <4> QED
          BY <2>1, <2>11, <4>1, <4>2
      <3>2. CASE n # i
        <4>1. low(n) = high(n)
          BY <1>1, <2>5, <3>2 DEF low, high
        <4> QED
          BY <2>7, <2>11, <2>13, <4>1
      <3> QED
        BY <3>1, <3>2
    <2>14. ASSUME NEW c \in Nat, NEW j \in 1..Len(h), h[j].base <= c, c < EndOf(h[j])
           PROVE  c \in FreeClicks(g)
      <3>0. i \in 1..Len(g) /\ g[i] = x
        BY <1>1, <2>1, <2>5, <2>6
      <3>1. CASE j < i
        <4>1. j \in 1..Len(g) /\ g[j] = h[j]
          BY <1>1, <2>1, <2>5, <2>6, <3>1
        <4> QED
          BY <2>12, <2>14, <4>1
      <3>2. CASE j = i
        <4>1. EndOf(h[i]) <= EndOf(x)
          BY <1>2, <2>1, <2>2
        <4>2. c < EndOf(x) /\ x.base <= c
          BY <1>2, <2>1, <2>2, <2>14, <3>2, <4>1
        <4> QED
          BY <2>12, <3>0, <4>2
      <3>3. CASE j = i + 1
        <4>1. x.base <= h[j].base
          BY <1>2, <2>1, <2>2, <3>3
        <4>2. c < EndOf(x) /\ x.base <= c
          BY <1>2, <2>2, <2>14, <3>3, <4>1
        <4> QED
          BY <2>12, <3>0, <4>2
      <3>4. CASE i + 1 < j
        <4>1. j - 1 \in 1..Len(g) /\ ~(j - 1 <= i) /\ j - 1 + 1 = j
          BY <1>1, <2>1, <2>5, <3>4
        <4>2. g[j - 1] = h[j]
          BY <2>6, <4>1
        <4> QED
          BY <2>12, <2>14, <4>1, <4>2
      <3> QED
        BY <1>1, <3>1, <3>2, <3>3, <3>4
    <2>15. FreeClicks(g) = FreeClicks(h)
      BY <2>11, <2>12, <2>13, <2>14
    <2>16. ASSUME NEW j \in 1..Len(g), Touches(g, j)
           PROVE  IF j < i THEN Touches(h, j) ELSE Touches(h, j + 1)
      <3>1. j + 1 \in 1..Len(g) /\ EndOf(g[j]) = g[j + 1].base
        BY <1>1, <2>5, <2>16 DEF Touches, EndOf
      <3>2. EndOf(h[high(j)]) = h[low(j + 1)].base
        BY <2>7, <3>1
      <3>3. low(j + 1) = high(j) + 1 /\ high(j) = (IF j < i THEN j ELSE j + 1)
        BY <1>1, <2>5 DEF low, high
      <3>4. Touches(h, high(j))
        <4>1. high(j) < Len(h)
          BY <1>1, <2>7, <3>1, <3>3
        <4> QED
          BY <3>2, <3>3, <4>1 DEF Touches, EndOf
      <3> QED
        BY <3>3, <3>4
    <2> QED
      BY <1>5, <2>5, <2>10, <2>15, <2>16 DEF g
  <1> QED
    BY <1>4, <1>5

\* A list that touches only behind hole i and the one after it is apart once merged.
LEMMA MergeParts ==
    ASSUME NEW h, Ordered(h), NEW i \in 1..Len(h),
           \A j \in 1..Len(h) : Touches(h, j) => j \in {i, i + 1}
    PROVE  /\ Apart(merge(h, i))
           /\ FreeClicks(merge(h, i)) = FreeClicks(h)
  <1> DEFINE a == Absorb(h, i)
  <1>1. Len(h) \in Nat
    BY HoleNumbers DEF Ordered
  <1>2. CASE Touches(h, i)
    <2>1. i < Len(h)
      BY <1>2 DEF Touches
    <2>2. /\ Ordered(a) /\ FreeClicks(a) = FreeClicks(h) /\ Len(a) = Len(h) - 1
          /\ \A j \in 1..Len(a) : Touches(a, j) =>
                 IF j < i THEN Touches(h, j) ELSE Touches(h, j + 1)
      BY <1>2, AbsorbKeeps
    <2>3. merge(h, i) = Absorb(a, i)
      BY <1>2 DEF merge
    <2> HIDE DEF a
    <2>4. i \in 1..Len(a)
      BY <1>1, <2>1, <2>2
    <2>5. \A j \in 1..Len(a) : Touches(a, j) => j = i
      BY <1>1, <2>2
    <2> DEFINE b == Absorb(a, i)
    <2>6. /\ Ordered(b) /\ FreeClicks(b) = FreeClicks(a)
          /\ ~Touches(a, i) => b = a
          /\ Touches(a, i) =>
                 /\ Len(b) = Len(a) - 1
                 /\ \A j \in 1..Len(b) : Touches(b, j) =>
                        IF j < i THEN Touches(a, j) ELSE Touches(a, j + 1)
      BY <2>2, <2>4, AbsorbKeeps
    <2> HIDE DEF b
    <2>7. ASSUME NEW j \in 1..Len(b), Touches(b, j)
          PROVE  FALSE
      <3>1. CASE Touches(a, i)
        BY <1>1, <2>2, <2>5, <2>6, <2>7, <3>1
      <3>2. CASE ~Touches(a, i)
        BY <2>5, <2>6, <2>7, <3>2
      <3> QED
        BY <3>1, <3>2
    <2> QED
      BY <2>2, <2>3, <2>6, <2>7, OrderedApart DEF b
  <1>3. CASE ~Touches(h, i)
    <2>1. a = h /\ merge(h, i) = Absorb(h, i + 1)
      BY <1>3, AbsorbKeeps DEF merge
    <2>2. \A j \in 1..Len(h) : Touches(h, j) => j = i + 1
      BY <1>3
    <2>3. CASE i = Len(h)
      <3>1. ~Touches(h, i + 1)
        BY <1>1, <2>3 DEF Touches
      <3>2. merge(h, i) = h
        BY <2>1, <3>1 DEF Absorb
      <3>3. \A j \in 1..Len(h) : ~Touches(h, j)
        BY <1>1, <2>2, <2>3
      <3> QED
        BY <3>2, <3>3, OrderedApart
    <2>4. CASE i < Len(h)
      <3>1. i + 1 \in 1..Len(h)
        BY <1>1, <2>4
      <3> DEFINE b == Absorb(h, i + 1)
      <3>2. /\ Ordered(b) /\ FreeClicks(b) = FreeClicks(h)
            /\ ~Touches(h, i + 1) => b = h
            /\ Touches(h, i + 1) =>
                   /\ Len(b) = Len(h) - 1
                   /\ \A j \in 1..Len(b) : Touches(b, j) =>
                          IF j < i + 1 THEN Touches(h, j) ELSE Touches(h, j + 1)
        BY <3>1, AbsorbKeeps
      <3> HIDE DEF b
      <3>3. ASSUME NEW j \in 1..Len(b), Touches(b, j)
            PROVE  FALSE
        <4>1. CASE Touches(h, i + 1)
          BY <1>1, <2>2, <3>2, <3>3, <4>1
        <4>2. CASE ~Touches(h, i + 1)
          BY <2>2, <3>2, <3>3, <4>2
        <4> QED
          BY <4>1, <4>2
      <3> QED
        BY <2>1, <3>2, <3>3, OrderedApart DEF b
    <2> QED
      BY <1>1, <2>3, <2>4
  <1> QED
    BY <1>2, <1>3

\* A block that is given back is free, and nothing else becomes so.
LEMMA FreeMemFrees ==
    ASSUME NEW h, Apart(h), NEW base \in Nat, NEW clicks \in Nat,
           Span(base, clicks) \cap FreeClicks(h) = {}
    PROVE  /\ Apart(free_mem(h, base, clicks))
           /\ FreeClicks(free_mem(h, base, clicks)) = FreeClicks(h) \cup Span(base, clicks)
  <1>1. h \in Seq(Holes) /\ Len(h) \in Nat
    BY HoleNumbers DEF Apart
  <1>2. \A j \in 1..Len(h) : /\ h[j] \in Holes
                              /\ h[j].base \in Nat /\ h[j].len \in Nat \ {0}
                              /\ EndOf(h[j]) \in Nat /\ h[j].base < EndOf(h[j])
                              /\ EndOf(h[j]) = h[j].base + h[j].len
    BY <1>1, HoleNumbers DEF EndOf
  <1>3. \A m, n \in 1..Len(h) : m < n => EndOf(h[m]) < h[n].base
    BY DEF Apart
  <1>4. \A c : c \in Span(base, clicks) <=> c \in Nat /\ base <= c /\ c < base + clicks
    BY DEF Span
  <1>5. /\ FreeClicks(h) \subseteq Nat
        /\ \A c \in Nat : c \in FreeClicks(h) <=>
               \E j \in 1..Len(h) : h[j].base <= c /\ c < EndOf(h[j])
    BY <1>1, FreeClick
  <1>6. CASE clicks = 0
    <2>1. free_mem(h, base, clicks) = h
      BY <1>6 DEF free_mem
    <2>2. Span(base, clicks) = {}
      BY <1>4, <1>6
    <2> QED
      BY <2>1, <2>2
  <1>7. CASE clicks # 0
    <2> DEFINE B == Before(h, base)
               k == IF B = {} THEN 0 ELSE CHOOSE i \in B : i + 1 \notin B
               x == Hole(base, clicks)
               g == InsertHole(h, k, x)
               at == IF k = 0 THEN 1 ELSE k
    <2>1. B = {j \in 1..Len(h) : h[j].base < base}
      BY DEF Before
    <2>2. ASSUME NEW m \in 1..Len(h), NEW n \in B, m < n
          PROVE  m \in B
      BY <1>1, <1>2, <1>3, <2>1, <2>2
    <2> HIDE DEF B
    <2>3. /\ k \in 0..Len(h)
          /\ \A j \in 1..Len(h) : j <= k <=> h[j].base < base
      <3>1. CASE B = {}
        BY <1>1, <1>2, <2>1, <3>1
      <3>2. CASE B # {}
        <4> DEFINE N == {j \in 1..Len(h) + 1 : j \notin B}
        <4>1. N \subseteq Nat /\ Len(h) + 1 \in N
          BY <1>1, <2>1
        <4>2. PICK m \in N : \A n \in N : m <= n
          BY <4>1, LeastOfNat
        <4>3. m # 1
          <5>1. PICK j \in B : TRUE
            BY <3>2
          <5>2. j \in 1..Len(h) /\ 1 \in 1..Len(h)
            BY <1>1, <2>1, <5>1
          <5>3. CASE j = 1
            BY <4>2, <5>1, <5>3
          <5>4. CASE 1 < j
            BY <2>2, <4>2, <5>2, <5>4
          <5> QED
            BY <5>2, <5>3, <5>4
        <4>4. m - 1 \in B /\ m - 1 + 1 \notin B
          <5>1. m - 1 \in 1..Len(h) /\ m - 1 + 1 = m /\ m - 1 < m
            BY <1>1, <4>2, <4>3
          <5>2. m - 1 \notin N
            BY <4>1, <4>2, <5>1
          <5> QED
            BY <1>1, <4>2, <5>1, <5>2
        <4>5. k \in B /\ k + 1 \notin B
          BY <3>2, <4>4
        <4> HIDE DEF k
        <4>6. ASSUME NEW j \in 1..Len(h)
              PROVE  j <= k <=> h[j].base < base
          <5>1. k \in 1..Len(h)
            BY <2>1, <4>5
          <5>2. CASE j <= k
            BY <1>1, <2>1, <2>2, <4>5, <5>1, <5>2
          <5>3. CASE k < j
            <6>1. CASE j = k + 1
              BY <2>1, <4>5, <5>3, <6>1, <1>1, <5>1
            <6>2. CASE k + 1 < j
              <7>1. k + 1 \in 1..Len(h)
                BY <1>1, <5>1, <6>2
              <7>2. j \notin B
                BY <2>2, <4>5, <6>2, <7>1
              <7> QED
                BY <1>1, <2>1, <5>1, <5>3, <7>2
            <6> QED
              BY <1>1, <5>1, <5>3, <6>1, <6>2
          <5> QED
            BY <1>1, <5>1, <5>2, <5>3
        <4> QED
          BY <1>1, <2>1, <4>5, <4>6
      <3> QED
        BY <3>1, <3>2
    <2> HIDE DEF k
    <2>4. x \in Holes /\ x.base = base /\ EndOf(x) = base + clicks
      BY <1>7 DEF Hole, Holes, EndOf
    <2> HIDE DEF x
    <2>5. /\ g \in Seq(Holes) /\ Len(g) = Len(h) + 1
          /\ \A j \in 1..Len(h) + 1 :
                 g[j] = IF j <= k THEN h[j] ELSE IF j = k + 1 THEN x ELSE h[j - 1]
      <3>1. h \in Seq(Holes) /\ k \in 0..Len(h) /\ x \in Holes
        BY <1>1, <2>3, <2>4
      <3> QED
        BY <3>1, Inserted
    <2> HIDE DEF g
    \* The holes before end where the block begins, those behind begin where it ends.
    <2>6. ASSUME NEW j \in 1..Len(h), j <= k
          PROVE  EndOf(h[j]) <= base
      <3>1. base \in Span(base, clicks)
        BY <1>4, <1>7
      <3>2. base \notin FreeClicks(h)
        BY <3>1
      <3>3. h[j].base < base
        BY <2>3, <2>6
      <3>4. ~(base < EndOf(h[j]))
        BY <1>2, <1>5, <3>2, <3>3
      <3> QED
        BY <1>2, <3>4
    <2>7. ASSUME NEW j \in 1..Len(h), ~(j <= k)
          PROVE  base + clicks <= h[j].base
      <3>1. base <= h[j].base
        BY <1>2, <2>3, <2>7
      <3>2. h[j].base \in FreeClicks(h) /\ h[j].base \in Nat
        BY <1>2, <1>5
      <3>3. h[j].base \notin Span(base, clicks)
        BY <3>2
      <3> QED
        BY <1>4, <3>1, <3>2, <3>3
    <2>8. ASSUME NEW m \in 1..Len(g), NEW n \in 1..Len(g), m < n
          PROVE  /\ EndOf(g[m]) <= g[n].base
                 /\ EndOf(g[m]) = g[n].base => m \in {k, k + 1}
      <3>1. CASE n <= k
        <4>1. g[m] = h[m] /\ g[n] = h[n] /\ m \in 1..Len(h) /\ n \in 1..Len(h)
          BY <1>1, <2>3, <2>5, <2>8, <3>1
        <4>2. EndOf(h[m]) < h[n].base
          BY <1>3, <2>8, <4>1
        <4> QED
          BY <1>2, <4>1, <4>2
      <3>2. CASE n = k + 1
        <4>1. g[m] = h[m] /\ g[n] = x /\ m \in 1..Len(h) /\ m <= k
          BY <1>1, <2>3, <2>5, <2>8, <3>2
        <4>2. EndOf(g[m]) <= g[n].base
          BY <2>4, <2>6, <4>1
        <4>3. m # k => EndOf(g[m]) # g[n].base
          <5>1. SUFFICES ASSUME m # k
                         PROVE  EndOf(g[m]) # g[n].base
            OBVIOUS
          <5>2. k \in 1..Len(h) /\ m < k
            BY <2>3, <4>1, <5>1
          <5>3. EndOf(h[m]) < h[k].base /\ h[k].base < base
            BY <1>3, <2>3, <4>1, <5>2
          <5> QED
            BY <1>2, <2>4, <4>1, <5>2, <5>3
        <4> QED
          BY <4>2, <4>3
      <3>3. CASE k + 1 < n
        <4>1. g[n] = h[n - 1] /\ n - 1 \in 1..Len(h) /\ ~(n - 1 <= k)
          BY <1>1, <2>3, <2>5, <3>3
        <4>2. CASE m <= k
          <5>1. g[m] = h[m] /\ m \in 1..Len(h) /\ m < n - 1
            BY <1>1, <2>3, <2>5, <3>3, <4>2
          <5>2. EndOf(h[m]) < h[n - 1].base
            BY <1>3, <4>1, <5>1
          <5> QED
            BY <1>2, <4>1, <5>1, <5>2
        <4>3. CASE m = k + 1
          <5>1. g[m] = x
            BY <1>1, <2>3, <2>5, <4>3
          <5> QED
            BY <2>4, <2>7, <4>1, <4>3, <5>1
        <4>4. CASE k + 1 < m
          <5>1. g[m] = h[m - 1] /\ m - 1 \in 1..Len(h) /\ m - 1 < n - 1
            BY <1>1, <2>3, <2>5, <2>8, <4>4
          <5>2. EndOf(h[m - 1]) < h[n - 1].base
            BY <1>3, <4>1, <5>1
          <5> QED
            BY <1>2, <4>1, <5>1, <5>2
        <4> QED
          BY <1>1, <2>3, <2>5, <4>2, <4>3, <4>4
      <3> QED
        BY <1>1, <2>3, <2>5, <3>1, <3>2, <3>3
    <2>9. Ordered(g)
      BY <2>5, <2>8 DEF Ordered
    <2>10. at \in 1..Len(g)
      BY <1>1, <2>3, <2>5
    <2>11. ASSUME NEW j \in 1..Len(g), Touches(g, j)
           PROVE  j \in {at, at + 1}
      <3>1. j + 1 \in 1..Len(g) /\ EndOf(g[j]) = g[j + 1].base
        BY <1>1, <2>5, <2>11 DEF Touches, EndOf
      <3>2. j \in {k, k + 1}
        BY <2>8, <3>1
      <3> QED
        BY <2>3, <3>2
    <2>12. /\ Apart(merge(g, at)) /\ FreeClicks(merge(g, at)) = FreeClicks(g)
      BY <2>9, <2>10, <2>11, MergeParts
    <2>13. /\ FreeClicks(g) \subseteq Nat
           /\ \A c \in Nat : c \in FreeClicks(g) <=>
                  \E j \in 1..Len(g) : g[j].base <= c /\ c < EndOf(g[j])
      BY <2>5, FreeClick
    <2>14. ASSUME NEW c \in Nat, NEW n \in 1..Len(g), g[n].base <= c, c < EndOf(g[n])
           PROVE  c \in FreeClicks(h) \cup Span(base, clicks)
      <3>1. g[n] = x \/ \E j \in 1..Len(h) : g[n] = h[j]
        <4>1. CASE n <= k
          BY <1>1, <2>3, <2>5, <4>1
        <4>2. CASE n = k + 1
          BY <1>1, <2>3, <2>5, <4>2
        <4>3. CASE k + 1 < n
          <5>1. g[n] = h[n - 1] /\ n - 1 \in 1..Len(h)
            BY <1>1, <2>3, <2>5, <4>3
          <5> QED
            BY <5>1
        <4> QED
          BY <1>1, <2>3, <2>5, <4>1, <4>2, <4>3
      <3> QED
        BY <1>4, <1>5, <2>4, <2>14, <3>1
    <2>15. ASSUME NEW c \in Nat, c \in FreeClicks(h) \cup Span(base, clicks)
           PROVE  c \in FreeClicks(g)
      <3>1. CASE c \in Span(base, clicks)
        <4>1. k + 1 \in 1..Len(g) /\ g[k + 1] = x
          BY <1>1, <2>3, <2>5
        <4> QED
          BY <1>4, <2>4, <2>13, <3>1, <4>1
      <3>2. CASE c \in FreeClicks(h)
        <4>1. PICK j \in 1..Len(h) : h[j].base <= c /\ c < EndOf(h[j])
          BY <1>5, <3>2
        <4>2. \E n \in 1..Len(g) : g[n] = h[j]
          <5>1. CASE j <= k
            <6>1. j \in 1..Len(g) /\ g[j] = h[j]
              BY <1>1, <2>3, <2>5, <5>1
            <6> QED
              BY <6>1
          <5>2. CASE k < j
            <6>1. j + 1 \in 1..Len(g) /\ ~(j + 1 <= k) /\ j + 1 # k + 1 /\ j + 1 - 1 = j
              BY <1>1, <2>3, <2>5, <5>2
            <6>2. g[j + 1] = h[j]
              BY <2>5, <6>1
            <6> QED
              BY <6>1, <6>2
          <5> QED
            BY <1>1, <2>3, <5>1, <5>2
        <4> QED
          BY <2>13, <4>1, <4>2
      <3> QED
        BY <2>15, <3>1, <3>2
    <2>16. FreeClicks(g) = FreeClicks(h) \cup Span(base, clicks)
      <3>1. Span(base, clicks) \subseteq Nat
        BY <1>4
      <3> QED
        BY <1>5, <2>13, <2>14, <2>15, <3>1
    <2>17. free_mem(h, base, clicks) = merge(g, at)
      BY <1>7 DEF free_mem, g, k, B, x
    <2> QED
      BY <2>12, <2>16, <2>17
  <1> QED
    BY <1>6, <1>7

-----------------------------------------------------------------------------
(* Choosing among holes                                                      *)

\* Finitely many numbers have a largest one.
LEMMA LargestOf ==
    ASSUME NEW n \in Nat, NEW S, S \subseteq 1..n, S # {},
           NEW f, \A i \in S : f[i] \in Nat
    PROVE  \E i \in S : \A j \in S : f[j] <= f[i]
  <1> DEFINE Max(A) == \E i \in A : \A j \in A : f[j] <= f[i]
             Bad == {m \in Nat : \E A \in SUBSET S : A \subseteq 1..m /\ A # {} /\ ~Max(A)}
  <1>1. SUFFICES ASSUME ~Max(S)
                 PROVE  FALSE
    OBVIOUS
  <1>2. n \in Bad
    BY <1>1
  <1>3. PICK m \in Bad : \A k \in Bad : m <= k
    <2>1. Bad \subseteq Nat /\ Bad # {}
      BY <1>2
    <2> HIDE DEF Bad
    <2> QED
      BY <2>1, LeastOfNat
  <1>4. PICK A \in SUBSET S : A \subseteq 1..m /\ A # {} /\ ~Max(A)
    BY <1>3
  <1>5. m \in Nat /\ m # 0
    <2>1. m \in Nat
      BY <1>3
    <2>2. PICK x \in A : TRUE
      BY <1>4
    <2>3. x \in 1..m
      BY <1>4
    <2> QED
      BY <2>1, <2>3
  <1> HIDE DEF Max
  <1>6. m \in A
    <2>1. SUFFICES ASSUME m \notin A
                   PROVE  FALSE
      OBVIOUS
    <2>2. A \subseteq 1..m - 1 /\ m - 1 \in Nat /\ m - 1 < m
      BY <1>4, <1>5, <2>1
    <2>3. m - 1 \in Bad
      BY <1>4, <2>2
    <2>4. m <= m - 1
      BY <1>3, <2>3
    <2> QED
      BY <1>5, <2>4
  <1> DEFINE B == A \ {m}
  <1>7. CASE B = {}
    <2>1. A = {m}
      BY <1>6, <1>7
    <2>2. Max(A)
      BY <2>1 DEF Max
    <2> QED
      BY <1>4, <2>2
  <1>8. CASE B # {}
    <2>1. B \subseteq 1..m - 1 /\ m - 1 \in Nat /\ m - 1 < m
      BY <1>4, <1>5
    <2>2. Max(B)
      <3>1. SUFFICES ASSUME ~Max(B)
                     PROVE  FALSE
        OBVIOUS
      <3>2. m - 1 \in Bad
        <4>1. B \in SUBSET S
          OBVIOUS
        <4> QED
          BY <1>8, <2>1, <3>1, <4>1
      <3>3. m <= m - 1
        BY <1>3, <3>2
      <3> QED
        BY <1>5, <3>3
    <2>3. PICK i \in B : \A j \in B : f[j] <= f[i]
      BY <2>2 DEF Max
    <2>4. \A j \in A : j = m \/ j \in B
      OBVIOUS
    <2>5. \A j \in A : f[j] \in Nat
      OBVIOUS
    <2>6. CASE f[m] <= f[i]
      BY <1>4, <2>3, <2>4, <2>6 DEF Max
    <2>7. CASE f[i] <= f[m]
      <3>1. \A j \in A : f[j] <= f[m]
        BY <1>6, <2>3, <2>4, <2>5, <2>7
      <3> QED
        BY <1>4, <1>6, <3>1 DEF Max
    <2> QED
      BY <1>6, <2>3, <2>5, <2>6, <2>7
  <1> QED
    BY <1>7, <1>8 DEF Max

\* The biggest hole is one of those it is sought among.
LEMMA BiggestIsIn ==
    ASSUME NEW h \in Seq(Holes), NEW S, S \subseteq 1..Len(h), S # {}
    PROVE  Biggest(h, S) \in S
  <1> DEFINE f == [i \in S |-> h[i].len]
             M == {i \in S : \A j \in S : h[j].len <= h[i].len}
  <1>1. /\ Len(h) \in Nat
        /\ \A i \in S : f[i] \in Nat
    BY HoleNumbers
  <1> HIDE DEF f
  <1>2. \E i \in S : \A j \in S : f[j] <= f[i]
    BY <1>1, LargestOf
  <1>3. M # {} /\ M \subseteq Nat
    <2>1. PICK i \in S : \A j \in S : f[j] <= f[i]
      BY <1>2
    <2>2. \A j \in S : h[j].len <= h[i].len
      BY <2>1 DEF f
    <2>3. i \in M
      BY <2>2
    <2>4. S \subseteq Nat
      BY <1>1
    <2> QED
      BY <2>3, <2>4
  <1> HIDE DEF M
  <1>4. First(M) \in M
    BY <1>3, FirstIsLeast
  <1> QED
    BY <1>4 DEF M, Biggest

-----------------------------------------------------------------------------
(* Memory and swap area                                                      *)

\* The swap area is above memory, with a click between that is never free.
LEMMA SwapBase ==
    /\ swap_base \in Nat \ {0}
    /\ MemoryClicks \subseteq Nat
    /\ \A c \in MemoryClicks : c < swap_base - 1
  <1> DEFINE E == [i \in DOMAIN Chunks |-> EndOf(Chunks[i])]
             Tops == {Chunks[i].base + Chunks[i].len : i \in DOMAIN Chunks}
             Top == CHOOSE top \in Tops :
                        \A i \in DOMAIN Chunks : Chunks[i].base + Chunks[i].len <= top
  <1>1. Chunks \in Seq(Holes) /\ Chunks # << >>
    BY ChunksAssumption DEF Holes
  <1>2. /\ Len(Chunks) \in Nat \ {0} /\ DOMAIN Chunks = 1..Len(Chunks)
        /\ \A i \in DOMAIN Chunks : Chunks[i].base \in Nat /\ Chunks[i].len \in Nat \ {0}
    BY <1>1, HoleNumbers, EmptySeq
  <1>3. \A i \in DOMAIN Chunks : E[i] = Chunks[i].base + Chunks[i].len /\ E[i] \in Nat
    BY <1>2 DEF EndOf
  <1> HIDE DEF E
  <1>4. PICK i \in DOMAIN Chunks : \A j \in DOMAIN Chunks : E[j] <= E[i]
    <2> DEFINE D == DOMAIN Chunks
    <2>1. D \subseteq 1..Len(Chunks) /\ D # {} /\ \A j \in D : E[j] \in Nat
      BY <1>2, <1>3
    <2> HIDE DEF D
    <2>2. \E k \in D : \A j \in D : E[j] <= E[k]
      BY <1>2, <2>1, LargestOf
    <2> QED
      BY <2>2 DEF D
  <1>5. /\ E[i] \in Tops
        /\ \A j \in DOMAIN Chunks : Chunks[j].base + Chunks[j].len <= E[i]
    BY <1>3, <1>4
  <1>6. Top \in Tops /\ \A j \in DOMAIN Chunks : Chunks[j].base + Chunks[j].len <= Top
    BY <1>5
  <1>7. Top \in Nat /\ swap_base = 1 + Top
    <2>1. PICK j \in DOMAIN Chunks : Top = Chunks[j].base + Chunks[j].len
      BY <1>6
    <2>2. swap_base = 1 + Top
      BY DEF swap_base
    <2> HIDE DEF Top
    <2>3. Top \in Nat
      BY <1>2, <2>1
    <2> QED
      BY <2>2, <2>3
  <1> HIDE DEF Top
  <1>8. ASSUME NEW c \in MemoryClicks
        PROVE  c \in Nat /\ c < Top
    <2>1. PICK j \in DOMAIN Chunks :
                 c \in Chunks[j].base..(Chunks[j].base + Chunks[j].len - 1)
      BY <1>8 DEF MemoryClicks, Span
    <2>2. Chunks[j].base + Chunks[j].len <= Top
      BY <1>6
    <2> QED
      BY <1>2, <1>7, <2>1, <2>2
  <1> QED
    BY <1>7, <1>8

\* A hole that begins below the swap area ends there.
LEMMA HoleSide ==
    ASSUME NEW h \in Seq(Holes), swap_base - 1 \notin FreeClicks(h),
           NEW i \in 1..Len(h), h[i].base < swap_base
    PROVE  EndOf(h[i]) < swap_base
  <1>1. swap_base - 1 \in Nat /\ swap_base \in Nat
    BY SwapBase
  <1>2. h[i].base \in Nat /\ EndOf(h[i]) \in Nat
    BY HoleNumbers
  <1>3. ~(h[i].base <= swap_base - 1 /\ swap_base - 1 < EndOf(h[i]))
    BY <1>1, FreeClick
  <1> QED
    BY <1>1, <1>2, <1>3

\* Clicks T are divided up into free ones F and the shares of owners.
Shares(T, F, own) ==
    /\ T = F \cup UNION {own[p] : p \in DOMAIN own}
    /\ \A p \in DOMAIN own : own[p] \cap F = {}
    /\ \A p, q \in DOMAIN own : p # q => own[p] \cap own[q] = {}

Owned == [p \in Living |-> Block(p)]

\* ClicksAccounted, as a division of clicks among the list and the processes.
LEMMA AccountedShares ==
    ClicksAccounted <=> Shares(MemoryClicks \cup SwapClicks, FreeClicks(holes), Owned)
  BY DEF ClicksAccounted, Shares, Owned

\* A new owner takes free clicks (alloc_mem).
LEMMA Take ==
    ASSUME NEW T, NEW F, NEW own, Shares(T, F, own),
           NEW p, p \notin DOMAIN own, NEW S, S \subseteq F
    PROVE  Shares(T, F \ S, [q \in DOMAIN own \cup {p} |-> IF q = p THEN S ELSE own[q]])
  <1> DEFINE new == [q \in DOMAIN own \cup {p} |-> IF q = p THEN S ELSE own[q]]
  <1>1. UNION {new[q] : q \in DOMAIN new} = S \cup UNION {own[q] : q \in DOMAIN own}
    OBVIOUS
  <1>2. T = (F \ S) \cup UNION {new[q] : q \in DOMAIN new}
    BY <1>1 DEF Shares
  <1>3. \A q \in DOMAIN new : new[q] \cap (F \ S) = {}
    BY DEF Shares
  <1>4. \A q, r \in DOMAIN new : q # r => new[q] \cap new[r] = {}
    BY DEF Shares
  <1> QED
    BY <1>2, <1>3, <1>4 DEF Shares

\* An owner's clicks become free (free_mem).
LEMMA Give ==
    ASSUME NEW T, NEW F, NEW own, Shares(T, F, own), NEW p \in DOMAIN own
    PROVE  Shares(T, F \cup own[p], [q \in DOMAIN own \ {p} |-> own[q]])
  <1> DEFINE new == [q \in DOMAIN own \ {p} |-> own[q]]
  <1>1. UNION {own[q] : q \in DOMAIN own} = own[p] \cup UNION {new[q] : q \in DOMAIN new}
    OBVIOUS
  <1>2. T = (F \cup own[p]) \cup UNION {new[q] : q \in DOMAIN new}
    BY <1>1 DEF Shares
  <1>3. \A q \in DOMAIN new : new[q] \cap (F \cup own[p]) = {}
    BY DEF Shares
  <1>4. \A q, r \in DOMAIN new : q # r => new[q] \cap new[r] = {}
    BY DEF Shares
  <1> QED
    BY <1>2, <1>3, <1>4 DEF Shares

\* An owner takes free clicks and gives its own back (swap_in, swap_out).
LEMMA Move ==
    ASSUME NEW T, NEW F, NEW own, Shares(T, F, own),
           NEW p \in DOMAIN own, NEW S, S \subseteq F,
           NEW new, DOMAIN new = DOMAIN own, new[p] = S,
           \A q \in DOMAIN own : q # p => new[q] = own[q]
    PROVE  Shares(T, (F \ S) \cup own[p], new)
  <1> DEFINE U == UNION {new[q] : q \in DOMAIN new}
             V == UNION {own[q] : q \in DOMAIN own}
             rest == UNION {own[q] : q \in DOMAIN own \ {p}}
  <1>1. /\ DOMAIN new = DOMAIN own /\ new[p] = S
        /\ \A q \in DOMAIN own \ {p} : new[q] = own[q]
    OBVIOUS
  <1>2. /\ \A c : c \in V <=> \E q \in DOMAIN own : c \in own[q]
        /\ \A c : c \in rest <=> \E q \in DOMAIN own \ {p} : c \in own[q]
    OBVIOUS
  <1>3. T = F \cup V
    BY DEF Shares
  <1>4. \A q \in DOMAIN own : own[q] \cap F = {}
    BY DEF Shares
  <1>5. \A q, r \in DOMAIN own : q # r => own[q] \cap own[r] = {}
    BY DEF Shares
  <1>6. \A c : c \in U <=> \E q \in DOMAIN own : c \in new[q]
    BY <1>1
  <1> HIDE DEF U, V, rest
  <1>7. V = own[p] \cup rest /\ U = S \cup rest
    BY <1>1, <1>2, <1>6
  <1>8. T = ((F \ S) \cup own[p]) \cup U
    BY <1>3, <1>7
  <1>9. \A q \in DOMAIN new : new[q] \cap ((F \ S) \cup own[p]) = {}
    BY <1>1, <1>4, <1>5
  <1>10. \A q, r \in DOMAIN new : q # r => new[q] \cap new[r] = {}
    BY <1>1, <1>4, <1>5
  <1>11. Shares(T, (F \ S) \cup own[p], new)
    BY <1>8, <1>9, <1>10 DEF Shares, U
  <1> QED
    BY <1>11


-----------------------------------------------------------------------------
(* The list mem_init() makes                                                 *)

\* The clicks of the first n chunks.
FirstChunks(n) == UNION {Span(Chunks[i].base, Chunks[i].len) : i \in 1..n}

\* The recursion over the chunks has a value at each of them.
LEMMA FreedDefined ==
    /\ freed[0] = << >>
    /\ \A i \in 1..Len(Chunks) :
           freed[i] = free_mem(freed[i - 1], Chunks[i].base, Chunks[i].len)
  <1> DEFINE Up(g, i) == IF i = 0 THEN << >>
                         ELSE free_mem(g[i - 1], Chunks[i].base, Chunks[i].len)
             Solves(g, n) == g = [i \in 0..n |-> Up(g, i)]
             Bad == {n \in Nat : ~\E g : Solves(g, n)}
  <1>1. Len(Chunks) \in Nat
    BY ChunksAssumption, LenProperties
  <1>2. \E g : Solves(g, Len(Chunks))
    <2>1. SUFFICES ASSUME Len(Chunks) \in Bad
                   PROVE  FALSE
      BY <1>1
    <2>2. PICK n \in Bad : \A m \in Bad : n <= m
      <3>1. Bad \subseteq Nat /\ Bad # {}
        BY <2>1
      <3> HIDE DEF Bad
      <3> QED
        BY <3>1, LeastOfNat
    <2>3. n \in Nat
      OBVIOUS
    <2>4. CASE n = 0
      <3> DEFINE g == [i \in 0..0 |-> << >>]
      <3>1. Solves(g, 0)
        <4>1. \A i \in 0..0 : Up(g, i) = << >>
          OBVIOUS
        <4> HIDE DEF Up
        <4> QED
          BY <4>1
      <3> QED
        BY <2>4, <3>1
    <2>5. CASE n # 0
      <3>1. n - 1 \in Nat /\ ~(n <= n - 1)
        BY <2>3, <2>5
      <3>2. PICK f : Solves(f, n - 1)
        <4>1. n - 1 \notin Bad
          BY <2>2, <3>1
        <4> QED
          BY <3>1, <4>1
      <3> DEFINE g == [i \in 0..n |-> IF i = n THEN Up(f, n) ELSE f[i]]
      <3>3. \A i \in 0..n : i # 0 => g[i - 1] = f[i - 1]
        BY <2>3
      <3>4. \A i \in 0..n : Up(g, i) = Up(f, i)
        BY <3>3
      <3>5. \A i \in 0..n : i # n => i \in 0..n - 1
        BY <2>3
      <3>6. \A i \in 0..n : g[i] = Up(f, i)
        <4> HIDE DEF Up
        <4>1. \A i \in 0..n - 1 : f[i] = Up(f, i)
          BY <3>2
        <4> QED
          BY <3>5, <4>1
      <3>7. g = [i \in 0..n |-> g[i]]
        OBVIOUS
      <3> HIDE DEF g, Up
      <3>8. Solves(g, n)
        BY <3>4, <3>6, <3>7
      <3> QED
        BY <3>8
    <2> QED
      BY <2>4, <2>5
  <1>3. Solves(freed, Len(Chunks))
    <2>1. freed = CHOOSE g : Solves(g, Len(Chunks))
      BY DEF freed
    <2> HIDE DEF Solves
    <2> QED
      BY <1>2, <2>1
  <1>4. \A i \in 0..Len(Chunks) : freed[i] = Up(freed, i)
    <2> HIDE DEF Up
    <2> QED
      BY <1>3
  <1>5. 0 \in 0..Len(Chunks) /\ \A i \in 1..Len(Chunks) : i \in 0..Len(Chunks) /\ i # 0
    BY <1>1
  <1> QED
    BY <1>4, <1>5

\* mem_init() frees the chunks, and nothing else.
LEMMA InitialHolesApart ==
    Apart(InitialHoles) /\ FreeClicks(InitialHoles) = MemoryClicks
  <1> DEFINE n == Len(Chunks)
             Good(m) == Apart(freed[m]) /\ FreeClicks(freed[m]) = FirstChunks(m)
             Bad == {m \in 0..n : ~Good(m)}
  <1>1. /\ n \in Nat /\ DOMAIN Chunks = 1..n
        /\ \A i \in 1..n : Chunks[i].base \in Nat /\ Chunks[i].len \in Nat
    BY ChunksAssumption, HoleNumbers DEF Holes
  <1>2. Good(n)
    <2>1. SUFFICES ASSUME n \in Bad
                   PROVE  FALSE
      BY <1>1
    <2>2. PICK m \in Bad : \A k \in Bad : m <= k
      <3>1. Bad \subseteq Nat /\ Bad # {}
        BY <1>1, <2>1
      <3> HIDE DEF Bad
      <3> QED
        BY <3>1, LeastOfNat
    <2>3. m \in 0..n /\ ~Good(m)
      OBVIOUS
    <2>4. CASE m = 0
      <3>1. freed[0] = << >> /\ << >> \in Seq(Holes) /\ Len(<< >>) = 0
        BY FreedDefined, EmptySeq
      <3>2. Apart(freed[0])
        BY <3>1 DEF Apart
      <3>3. FreeClicks(freed[0]) = {} /\ FirstChunks(0) = {}
        BY <3>1 DEF FreeClicks, FirstChunks
      <3> QED
        BY <2>3, <2>4, <3>2, <3>3
    <2>5. CASE m # 0
      <3> DEFINE g == freed[m - 1]
                 S == Span(Chunks[m].base, Chunks[m].len)
      <3>1. m - 1 \in 0..n /\ m \in 1..n /\ ~(m <= m - 1)
        BY <1>1, <2>3, <2>5
      <3>2. Good(m - 1)
        BY <2>2, <3>1
      <3>3. Apart(g) /\ FreeClicks(g) = FirstChunks(m - 1)
        BY <3>2
      <3>4. freed[m] = free_mem(g, Chunks[m].base, Chunks[m].len)
        BY <3>1, FreedDefined
      <3> HIDE DEF g, Good, Bad
      <3>5. S \cap FirstChunks(m - 1) = {}
        <4>1. \A i \in 1..m - 1 : i \in DOMAIN Chunks /\ m \in DOMAIN Chunks /\ i # m
          BY <1>1, <3>1
        <4>2. \A i \in 1..m - 1 : Span(Chunks[i].base, Chunks[i].len) \cap S = {}
          BY <4>1, ChunksAssumption
        <4> QED
          BY <4>2 DEF FirstChunks
      <3>6. FirstChunks(m) = FirstChunks(m - 1) \cup S
        <4>1. 1..m = (1..m - 1) \cup {m}
          BY <1>1, <3>1
        <4> QED
          BY <4>1 DEF FirstChunks
      <3>7. Chunks[m].base \in Nat /\ Chunks[m].len \in Nat
        BY <1>1, <3>1
      <3>8. S \cap FreeClicks(g) = {}
        BY <3>3, <3>5
      <3>9. /\ Apart(free_mem(g, Chunks[m].base, Chunks[m].len))
            /\ FreeClicks(free_mem(g, Chunks[m].base, Chunks[m].len)) = FreeClicks(g) \cup S
        BY <3>3, <3>7, <3>8, FreeMemFrees
      <3> QED
        BY <2>3, <3>3, <3>4, <3>6, <3>9 DEF Good
    <2> QED
      BY <2>4, <2>5
  <1>3. FirstChunks(n) = MemoryClicks
    BY <1>1 DEF FirstChunks, MemoryClicks
  <1> QED
    BY <1>2, <1>3 DEF InitialHoles

-----------------------------------------------------------------------------
(* The inswap queue                                                          *)

\* There are NR_PROCS processes.
LEMMA ProcsFinite ==
    /\ IsFiniteSet(Procs) /\ Cardinality(Procs) = NR_PROCS
    /\ Procs \subseteq Nat /\ NR_PROCS \in Nat \ {0}
  BY MemoryAssumption, FS_Interval DEF Procs

\* Ascending lists every member of its argument once.
LEMMA AscendingLists ==
    ASSUME NEW S \in SUBSET Procs
    PROVE  /\ Ascending(S) \in Seq(Procs)
           /\ \A i \in 1..Len(Ascending(S)) : Ascending(S)[i] \in S
           /\ \A i, j \in 1..Len(Ascending(S)) : Ascending(S)[i] = Ascending(S)[j] => i = j
           /\ \A p \in S : \E i \in 1..Len(Ascending(S)) : Ascending(S)[i] = p
  <1> DEFINE n == Cardinality(S)
             less(p) == {q \in S : q < p}
             rank == [p \in S |-> Cardinality(less(p))]
  <1>1. IsFiniteSet(S) /\ S \subseteq Nat
    BY ProcsFinite, FS_Subset
  <1>2. n \in Nat
    BY <1>1, FS_CardinalityType
  <1>3. \A p \in S : IsFiniteSet(less(p)) /\ Cardinality(less(p)) \in Nat
    BY <1>1, FS_Subset, FS_CardinalityType
  <1>4. ASSUME NEW p \in S
        PROVE  Cardinality(less(p)) \in 0..n - 1
    <2>1. less(p) \in SUBSET S /\ less(p) # S
      BY <1>1
    <2>2. Cardinality(less(p)) <= n /\ (n = Cardinality(less(p)) => S = less(p))
      BY <1>1, <2>1, FS_Subset
    <2> HIDE DEF less, n
    <2> QED
      BY <1>2, <1>3, <2>1, <2>2
  <1>5. ASSUME NEW p \in S, NEW q \in S, p < q
        PROVE  Cardinality(less(p)) # Cardinality(less(q))
    <2>1. less(p) \in SUBSET less(q) /\ less(p) # less(q)
      <3>1. p \in less(q) /\ p \notin less(p)
        BY <1>1, <1>5
      <3>2. \A x \in less(p) : x \in less(q)
        BY <1>1, <1>5
      <3> QED
        BY <3>1, <3>2
    <2> HIDE DEF less
    <2> QED
      BY <1>3, <2>1, FS_Subset
  <1> HIDE DEF less
  <1>6. rank \in Injection(S, 0..n - 1)
    <2>1. rank \in [S -> 0..n - 1]
      BY <1>4
    <2>2. \A p, q \in S : rank[p] = rank[q] => p = q
      BY <1>1, <1>5
    <2> HIDE DEF rank
    <2> QED
      BY <2>1, <2>2 DEF Injection, IsInjective
  <1>7. rank \in Surjection(S, 0..n - 1)
    <2>1. IsFiniteSet(0..n - 1) /\ Cardinality(0..n - 1) = n
      <3>1. 0 \in Int /\ n - 1 \in Int
        BY <1>2
      <3>2. /\ IsFiniteSet(0..n - 1)
            /\ Cardinality(0..n - 1) = IF 0 > n - 1 THEN 0 ELSE n - 1 - 0 + 1
        BY <3>1, FS_Interval
      <3> HIDE DEF n
      <3> QED
        BY <1>2, <3>2
    <2> HIDE DEF rank, n
    <2>2. Cardinality(S) = Cardinality(0..n - 1)
      BY <2>1 DEF n
    <2> QED
      BY <1>6, <2>1, <2>2, FS_Injection
  <1> DEFINE A == Ascending(S)
             At(i) == CHOOSE p \in S : rank[p] = i - 1
  <1>8. \A i \in 1..n : At(i) \in S /\ rank[At(i)] = i - 1
    <2>1. ASSUME NEW i \in 1..n
          PROVE  \E p \in S : rank[p] = i - 1
      <3>1. i - 1 \in 0..n - 1
        BY <1>2
      <3> HIDE DEF rank, n
      <3> QED
        BY <1>7, <3>1 DEF Surjection
    <2> HIDE DEF rank, n
    <2> QED
      BY <2>1
  <1>9. A = [i \in 1..n |-> At(i)]
    <2>1. \A i : \A p \in S : rank[p] = i - 1 <=> Cardinality({q \in S : q < p}) = i - 1
      BY DEF less
    <2> DEFINE C(i) == CHOOSE p \in S : Cardinality({q \in S : q < p}) = i - 1
    <2>2. \A i : At(i) = C(i)
      BY DEF less
    <2>3. A = [i \in 1..n |-> C(i)]
      BY DEF Ascending
    <2> HIDE DEF A, At, C, n
    <2> QED
      BY <2>2, <2>3
  <1> HIDE DEF At, A, rank, n
  <1>10. A \in Seq(Procs) /\ Len(A) = n
    <2>1. A \in [1..n -> Procs]
      BY <1>8, <1>9
    <2> QED
      BY <1>2, <2>1
  <1>11. \A i \in 1..n : A[i] \in S /\ rank[A[i]] = i - 1
    BY <1>8, <1>9
  <1>12. \A i, j \in 1..n : A[i] = A[j] => i = j
    BY <1>2, <1>11
  <1>13. ASSUME NEW p \in S
         PROVE  \E i \in 1..n : A[i] = p
    <2>1. rank[p] \in 0..n - 1
      BY <1>6 DEF Injection
    <2>2. rank[p] + 1 \in 1..n
      BY <1>2, <2>1
    <2>3. rank[A[rank[p] + 1]] = rank[p] /\ A[rank[p] + 1] \in S
      BY <1>2, <1>11, <2>1, <2>2
    <2>4. A[rank[p] + 1] = p
      BY <1>6, <2>3 DEF Injection, IsInjective
    <2> QED
      BY <2>2, <2>4
  <1> QED
    BY <1>10, <1>11, <1>12, <1>13 DEF A


-----------------------------------------------------------------------------
(* The inductive invariant                                                   *)

Process == [alive : BOOLEAN, base : Nat, size : Nat, paused : BOOLEAN,
            pending : BOOLEAN, onswap : BOOLEAN, swapin : BOOLEAN]

Mode == [at : {"idle", "fork", "scan", "refill", "lost"},
         who : Procs \cup {0}, cursor : Nat, off : BOOLEAN]

Typed ==
    /\ Apart(holes)
    /\ isWorstFit \in BOOLEAN /\ swapping \in BOOLEAN
    /\ mproc \in [Procs -> Process]
    /\ in_queue \in Seq(Procs)
    /\ outswap \in Procs
    /\ mode \in Mode

\* A slot without a process has no flag set; a process has memory, is on swap if
\* its memory is there, and waits to be swapped in only if it is on swap.
FlagsOf(x) ==
    /\ ~x.alive => ~x.paused /\ ~x.onswap /\ ~x.swapin
    /\ x.alive => /\ x.size # 0
                  /\ x.onswap <=> x.base >= swap_base
    /\ x.swapin => x.onswap

FlagsAgree == \A p \in Procs : FlagsOf(mproc[p])

\* The queue has every process at most once, and every one that waits to be
\* swapped in; the others in it were killed, and the cursor is still to find them.
NoRepeats(q) == \A i, j \in 1..Len(q) : q[i] = q[j] => i = j

QueueAgrees ==
    /\ NoRepeats(in_queue)
    /\ \A p \in Procs : mproc[p].swapin => \E i \in 1..Len(in_queue) : in_queue[i] = p
    /\ \A i \in 1..Len(in_queue) :
           \/ mproc[in_queue[i]].swapin
           \/ mode.at \in {"scan", "refill"} /\ mode.cursor <= i

\* What the memory manager is at fits the process and the entry it works on.
ModeAgrees ==
    /\ mode.at = "idle" => mode = Idle
    /\ mode.at = "lost" => mode = Lost
    /\ mode.at = "fork" => /\ mode.who \in Procs /\ ~mproc[mode.who].alive
                           /\ mproc[mode.who].size # 0
    /\ mode.at = "scan" => mode.cursor \in 1..Len(in_queue) + 1
    /\ mode.at = "refill" => /\ mode.who \in Procs /\ mode.cursor \in 1..Len(in_queue)
                             /\ in_queue[mode.cursor] = mode.who
                             /\ mproc[mode.who].swapin

IInv == Typed /\ FlagsAgree /\ QueueAgrees /\ ModeAgrees /\ ClicksAccounted

-----------------------------------------------------------------------------
(* What the steps have in common                                             *)

\* The modes, field by field.
LEMMA Modes ==
    /\ Idle = [at |-> "idle", who |-> 0, cursor |-> 0, off |-> FALSE]
    /\ Lost = [at |-> "lost", who |-> 0, cursor |-> 0, off |-> FALSE]
    /\ \A c, off : Scanning(c, off) = [at |-> "scan", who |-> 0, cursor |-> c, off |-> off]
    /\ \A p : Forking(p) = [at |-> "fork", who |-> p, cursor |-> 0, off |-> FALSE]
    /\ \A p, c, off : Refilling(p, c, off) = [at |-> "refill", who |-> p, cursor |-> c, off |-> off]
  <1>1. Lost = [at |-> "lost", who |-> 0, cursor |-> 0, off |-> FALSE]
    <2> DEFINE r == [at |-> "lost", who |-> 0, cursor |-> 0, off |-> FALSE]
    <2>1. DOMAIN Lost = {"at", "who", "cursor", "off"}
      BY DEF Idle, Lost
    <2>2. /\ Lost.at = "lost" /\ Lost.who = 0
          /\ Lost.cursor = 0 /\ Lost.off = FALSE
      BY DEF Idle, Lost
    <2>3. DOMAIN r = {"at", "who", "cursor", "off"}
      OBVIOUS
    <2>4. Lost = [f \in DOMAIN Lost |-> Lost[f]]
      BY DEF Lost
    <2>5. Lost = r
      BY <2>1, <2>2, <2>3, <2>4
    <2> QED
      BY <2>5
  <1>2. ASSUME NEW c, NEW off
        PROVE  Scanning(c, off) = [at |-> "scan", who |-> 0, cursor |-> c, off |-> off]
    <2> DEFINE r == [at |-> "scan", who |-> 0, cursor |-> c, off |-> off]
    <2>1. DOMAIN Scanning(c, off) = {"at", "who", "cursor", "off"}
      BY DEF Idle, Scanning
    <2>2. /\ Scanning(c, off).at = "scan" /\ Scanning(c, off).who = 0
          /\ Scanning(c, off).cursor = c /\ Scanning(c, off).off = off
      BY DEF Idle, Scanning
    <2>3. DOMAIN r = {"at", "who", "cursor", "off"}
      OBVIOUS
    <2>4. Scanning(c, off) = [f \in DOMAIN Scanning(c, off) |-> Scanning(c, off)[f]]
      BY DEF Scanning
    <2>5. Scanning(c, off) = r
      BY <2>1, <2>2, <2>3, <2>4
    <2> QED
      BY <2>5
  <1>3. ASSUME NEW p
        PROVE  Forking(p) = [at |-> "fork", who |-> p, cursor |-> 0, off |-> FALSE]
    <2> DEFINE r == [at |-> "fork", who |-> p, cursor |-> 0, off |-> FALSE]
    <2>1. DOMAIN Forking(p) = {"at", "who", "cursor", "off"}
      BY DEF Idle, Forking
    <2>2. /\ Forking(p).at = "fork" /\ Forking(p).who = p
          /\ Forking(p).cursor = 0 /\ Forking(p).off = FALSE
      BY DEF Idle, Forking
    <2>3. DOMAIN r = {"at", "who", "cursor", "off"}
      OBVIOUS
    <2>4. Forking(p) = [f \in DOMAIN Forking(p) |-> Forking(p)[f]]
      BY DEF Forking
    <2>5. Forking(p) = r
      BY <2>1, <2>2, <2>3, <2>4
    <2> QED
      BY <2>5
  <1> QED
    BY <1>1, <1>2, <1>3 DEF Idle, Refilling

\* The queue is looked through from a place in it.
LEMMA ScanAgrees ==
    ASSUME in_queue' \in Seq(Procs), NEW c \in 1..Len(in_queue') + 1,
           NEW off \in BOOLEAN, mode' = Scanning(c, off)
    PROVE  /\ mode' \in Mode /\ ModeAgrees' /\ mode' # Lost
           /\ mode'.at = "scan" /\ mode'.cursor = c
  <1>1. mode' = [at |-> "scan", who |-> 0, cursor |-> c, off |-> off]
    BY Modes
  <1>2. Len(in_queue') \in Nat
    BY LenProperties
  <1>3. c \in Nat
    BY <1>2
  <1>4. mode' \in Mode
    BY <1>1, <1>3 DEF Mode
  <1>5. mode'.at = "scan" /\ mode'.cursor = c
    BY <1>1
  <1>6. ModeAgrees'
    BY <1>5 DEF ModeAgrees
  <1>7. mode' # Lost
    BY <1>5, Modes
  <1> QED
    BY <1>4, <1>5, <1>6, <1>7

\* A served request has the queue looked through from its start.
LEMMA ServedAgrees ==
    ASSUME in_queue' \in Seq(Procs), Served
    PROVE  /\ mode' \in Mode /\ ModeAgrees' /\ mode' # Lost
           /\ mode'.at = "scan" /\ mode'.cursor = 1
  <1>1. 1 \in 1..Len(in_queue') + 1
    <2>1. Len(in_queue') \in Nat
      BY LenProperties
    <2> QED
      BY <2>1
  <1>2. mode' = Scanning(1, FALSE) /\ FALSE \in BOOLEAN
    BY DEF Served
  <1> QED
    BY <1>1, <1>2, ScanAgrees

\* A step that changes one process.
LEMMA OneProcess ==
    ASSUME mproc \in [Procs -> Process], FlagsAgree,
           NEW p \in Procs, NEW x \in Process, FlagsOf(x),
           mproc' = [mproc EXCEPT ![p] = x]
    PROVE  /\ mproc' \in [Procs -> Process] /\ FlagsAgree'
           /\ mproc'[p] = x
           /\ \A q \in Procs : q # p => mproc'[q] = mproc[q]
  <1>1. mproc' \in [Procs -> Process]
    OBVIOUS
  <1>2. mproc'[p] = x /\ \A q \in Procs : q # p => mproc'[q] = mproc[q]
    OBVIOUS
  <1>3. FlagsAgree'
    <2>1. \A q \in Procs : FlagsOf(mproc[q])
      BY DEF FlagsAgree
    <2>2. \A q \in Procs : FlagsOf(mproc'[q])
      BY <1>2, <2>1
    <2> QED
      BY <2>2 DEF FlagsAgree, FlagsOf
  <1> QED
    BY <1>1, <1>2, <1>3

\* What is owned after a step that changes one process.
LEMMA OwnedNext ==
    ASSUME NEW p \in Procs, \A q \in Procs : q # p => mproc'[q] = mproc[q]
    PROVE  /\ mproc'[p].alive =>
                  Owned' = [q \in DOMAIN Owned \cup {p} |->
                               IF q = p THEN Span(mproc'[p].base, mproc'[p].size) ELSE Owned[q]]
           /\ ~mproc'[p].alive => Owned' = [q \in DOMAIN Owned \ {p} |-> Owned[q]]
  <1>1. /\ DOMAIN Owned = Living
        /\ \A q \in Living : Owned[q] = Span(mproc[q].base, mproc[q].size)
    BY DEF Owned, Block
  <1>2. Owned' = [q \in Living' |-> Span(mproc'[q].base, mproc'[q].size)]
    BY DEF Owned, Block
  <1>3. CASE mproc'[p].alive
    <2>1. Living' = Living \cup {p}
      BY <1>3 DEF Living
    <2>2. \A q \in Living : q # p => mproc'[q] = mproc[q]
      BY DEF Living
    <2> QED
      BY <1>1, <1>2, <1>3, <2>1, <2>2
  <1>4. CASE ~mproc'[p].alive
    <2>1. Living' = Living \ {p}
      BY <1>4 DEF Living
    <2>2. \A q \in Living : q # p => mproc'[q] = mproc[q]
      BY DEF Living
    <2> QED
      BY <1>1, <1>2, <1>4, <2>1, <2>2
  <1> QED
    BY <1>3, <1>4

\* ClicksAccounted after a step, from the division after it.
LEMMA SharesNext ==
    ASSUME NEW own, own = Owned', NEW F, F = FreeClicks(holes'),
           NEW T, T = MemoryClicks \cup SwapClicks', Shares(T, F, own)
    PROVE  ClicksAccounted'
  <1>1. MemoryClicks' = MemoryClicks
    BY DEF MemoryClicks
  <1>2. Owned' = [p \in Living' |-> Block(p)']
    BY DEF Owned
  <1> QED
    BY <1>1, <1>2 DEF ClicksAccounted, Shares

\* The swap area stays what it was.
LEMMA SwapClicksNext ==
    ASSUME swapping' = swapping, mode # Lost, mode' # Lost
    PROVE  SwapClicks' = SwapClicks
  <1>1. swap_base' = swap_base
    BY DEF swap_base
  <1> QED
    BY <1>1 DEF SwapClicks

\* A step that leaves the holes alone, and every process where it is.
LEMMA QuietClicks ==
    ASSUME ClicksAccounted, holes' = holes, swapping' = swapping,
           mode # Lost, mode' # Lost,
           \A p \in Procs : /\ mproc'[p].alive = mproc[p].alive
                            /\ mproc[p].alive => /\ mproc'[p].base = mproc[p].base
                                                 /\ mproc'[p].size = mproc[p].size
    PROVE  ClicksAccounted'
  <1>1. SwapClicks' = SwapClicks
    BY SwapClicksNext
  <1>2. Living' = Living
    BY DEF Living
  <1>3. Owned' = Owned
    BY <1>2 DEF Owned, Living, Block
  <1>4. Shares(MemoryClicks \cup SwapClicks, FreeClicks(holes), Owned)
    BY AccountedShares
  <1> QED
    BY <1>1, <1>3, <1>4, SharesNext

\* An entry leaves the queue.
LEMMA QueueWithout ==
    ASSUME NEW q \in Seq(Procs), NoRepeats(q), NEW c \in 1..Len(q)
    PROVE  LET r == del_slot(q, c) IN
           /\ r \in Seq(Procs) /\ Len(r) = Len(q) - 1 /\ Len(q) \in Nat
           /\ NoRepeats(r)
           /\ \A i \in 1..Len(r) : r[i] # q[c] /\ (i < c => r[i] = q[i])
           /\ \A i \in 1..Len(q) : i # c => \E j \in 1..Len(r) : r[j] = q[i]
  <1> DEFINE r == del_slot(q, c)
  <1>1. Len(q) \in Nat
    BY LenProperties
  <1>2. /\ r \in Seq(Procs) /\ Len(r) = Len(q) - 1
        /\ \A j \in 1..Len(q) - 1 : r[j] = IF j < c THEN q[j] ELSE q[j + 1]
    BY DelSlot
  <1> HIDE DEF r
  <1>4. \A j \in 1..Len(r) : j \in 1..Len(q) /\ j + 1 \in 1..Len(q)
    BY <1>1, <1>2
  <1>5. NoRepeats(r)
    <2>1. SUFFICES ASSUME NEW i \in 1..Len(r), NEW j \in 1..Len(r), r[i] = r[j]
                   PROVE  i = j
      BY DEF NoRepeats
    <2> DEFINE old(k) == IF k < c THEN k ELSE k + 1
    <2>2. /\ old(i) \in 1..Len(q) /\ old(j) \in 1..Len(q)
          /\ r[i] = q[old(i)] /\ r[j] = q[old(j)]
      BY <1>2, <1>4
    <2>3. old(i) = old(j)
      BY <2>1, <2>2 DEF NoRepeats
    <2> QED
      BY <1>1, <1>2, <2>3
  <1>6. ASSUME NEW i \in 1..Len(r)
        PROVE  r[i] # q[c] /\ (i < c => r[i] = q[i])
    <2>1. /\ i \in 1..Len(q) /\ i + 1 \in 1..Len(q)
          /\ r[i] = IF i < c THEN q[i] ELSE q[i + 1]
      BY <1>2, <1>4
    <2>2. CASE i < c
      BY <1>1, <2>1, <2>2 DEF NoRepeats
    <2>3. CASE ~(i < c)
      <3>1. i + 1 # c /\ r[i] = q[i + 1]
        BY <1>1, <2>1, <2>3
      <3> QED
        BY <2>1, <2>3, <3>1 DEF NoRepeats
    <2> QED
      BY <2>2, <2>3
  <1>7. ASSUME NEW i \in 1..Len(q), i # c
        PROVE  \E j \in 1..Len(r) : r[j] = q[i]
    <2>1. CASE i < c
      <3>1. i \in 1..Len(r) /\ r[i] = q[i]
        BY <1>1, <1>2, <2>1
      <3> QED
        BY <3>1
    <2>2. CASE i > c
      <3>1. i - 1 \in 1..Len(r) /\ ~(i - 1 < c) /\ (i - 1) + 1 = i
        BY <1>1, <1>2, <2>2
      <3>2. r[i - 1] = q[i]
        BY <1>2, <3>1
      <3> QED
        BY <3>1, <3>2
    <2> QED
      BY <1>1, <1>7, <2>1, <2>2
  <1> QED
    BY <1>1, <1>2, <1>5, <1>6, <1>7 DEF r


-----------------------------------------------------------------------------
(* The steps of alloc_mem                                                    *)

\* The hole alloc_mem chooses is in memory and big enough, under either fit.
LEMMA ChosenFits ==
    ASSUME holes \in Seq(Holes), Fits # {}
    PROVE  /\ Chosen \in 1..Len(holes)
           /\ holes[Chosen].base < swap_base /\ Wanted <= holes[Chosen].len
  <1>1. Fits \subseteq 1..Len(holes)
    BY DEF Fits, MemoryFits
  <1>2. Len(holes) \in Nat
    BY LenProperties
  <1>3. Chosen \in Fits
    <2>1. CASE isWorstFit
      <3>1. Biggest(holes, Fits) \in Fits
        BY <1>1, BiggestIsIn
      <3> QED
        BY <2>1, <3>1 DEF Chosen
    <2>2. CASE ~isWorstFit
      <3>1. Fits \subseteq Nat
        BY <1>1, <1>2
      <3>2. First(Fits) \in Fits
        BY <3>1, FirstIsLeast
      <3> QED
        BY <2>2, <3>2 DEF Chosen
    <2> QED
      BY <2>1, <2>2
  <1>4. /\ \A j \in 1..Chosen : holes[j].base < swap_base
        /\ holes[Chosen].len >= Wanted
    BY <1>3 DEF Fits, MemoryFits
  <1>5. \A j \in 1..Len(holes) : holes[j].len \in Nat
    BY HoleNumbers
  <1>6. Wanted <= holes[Chosen].len \/ ~(Wanted <= holes[Chosen].len)
    OBVIOUS
  <1>7. Chosen \in 1..Chosen
    BY <1>1, <1>2, <1>3
  <1> QED
    BY <1>1, <1>3, <1>4, <1>7

\* Memory for a new process.
LEMMA AllocForForkKeeps ==
    ASSUME IInv, AllocForFork
    PROVE  IInv'
  <1> DEFINE p == mode.who
             i == Chosen
             S == Span(holes[i].base, Wanted)
             F == FreeClicks(holes)
             x == [mproc[p] EXCEPT !.base = holes[i].base, !.alive = TRUE]
  <1> USE DEF IInv
  <1>1. /\ p \in Procs /\ ~mproc[p].alive /\ Wanted = mproc[p].size
        /\ mproc \in [Procs -> Process]
    BY DEF AllocForFork, ModeAgrees, Wanted, Typed
  <1>2. /\ Wanted \in Nat \ {0} /\ mproc[p] \in Process
    BY <1>1 DEF AllocForFork, ModeAgrees, Process
  <1>3. Apart(holes) /\ holes \in Seq(Holes)
    BY DEF Typed, Apart
  <1>4. i \in 1..Len(holes) /\ holes[i].base < swap_base /\ Wanted <= holes[i].len
    BY <1>3, ChosenFits DEF AllocForFork
  <1>5. holes[i].base \in Nat /\ holes[i].len \in Nat
    BY <1>3, <1>4, HoleNumbers
  <1>6. Wanted \in 1..holes[i].len
    BY <1>2, <1>4, <1>5
  <1>7. holes' = Bite(holes, i, Wanted)
    BY DEF AllocForFork
  <1>8. Apart(holes') /\ S \subseteq F /\ FreeClicks(holes') = F \ S
    BY <1>3, <1>4, <1>6, <1>7, BiteTakes
  <1>9. mproc' = [mproc EXCEPT ![p] = x]
    BY <1>1 DEF AllocForFork
  <1>10. FlagsOf(mproc[p])
    BY <1>1 DEF FlagsAgree
  <1>11. /\ x \in Process /\ x.alive /\ x.base = holes[i].base /\ x.size = Wanted
         /\ x.swapin = mproc[p].swapin
    BY <1>1, <1>2, <1>5 DEF Process
  <1>12. FlagsOf(x)
    <2>1. swap_base \in Nat /\ ~x.onswap
      BY <1>1, <1>2, <1>10, SwapBase DEF FlagsOf, Process
    <2>2. ~x.swapin
      BY <1>1, <1>2, <1>10 DEF FlagsOf, Process
    <2>3. ~(x.base >= swap_base)
      BY <1>4, <1>5, <1>11, <2>1
    <2> HIDE DEF x
    <2> QED
      BY <1>2, <1>11, <2>1, <2>2, <2>3 DEF FlagsOf
  <1> HIDE DEF x, i, p
  <1>13. /\ mproc' \in [Procs -> Process] /\ FlagsAgree'
         /\ mproc'[p] = x /\ \A q \in Procs : q # p => mproc'[q] = mproc[q]
    BY <1>1, <1>9, <1>11, <1>12, OneProcess
  <1>14. /\ in_queue' = in_queue /\ in_queue' \in Seq(Procs) /\ swapping' = swapping
         /\ isWorstFit' = isWorstFit /\ outswap' = outswap /\ Served
         /\ mode.at = "fork"
    BY DEF AllocForFork, Typed
  <1>15. mode' \in Mode /\ ModeAgrees' /\ mode' # Lost /\ mode'.at = "scan" /\ mode'.cursor = 1
    BY <1>14, ServedAgrees
  <1>16. Typed'
    BY <1>8, <1>13, <1>14, <1>15 DEF Typed
  <1>17. QueueAgrees'
    <2>1. \A q \in Procs : mproc'[q].swapin = mproc[q].swapin
      BY <1>11, <1>13
    <2>2. \A k \in 1..Len(in_queue) : 1 <= k
      OBVIOUS
    <2> QED
      BY <1>14, <1>15, <2>1, <2>2 DEF QueueAgrees
  <1>18. ClicksAccounted'
    <2> DEFINE T == MemoryClicks \cup SwapClicks
               own == [q \in DOMAIN Owned \cup {p} |-> IF q = p THEN S ELSE Owned[q]]
    <2>1. Shares(T, F, Owned)
      BY AccountedShares
    <2>2. p \notin DOMAIN Owned
      BY <1>1 DEF Owned, Living, p
    <2>3. Shares(T, F \ S, own)
      BY <1>8, <2>1, <2>2, Take
    <2>4. Owned' = own
      <3>1. p \in Procs /\ \A q \in Procs : q # p => mproc'[q] = mproc[q]
        BY <1>1, <1>13
      <3>2. mproc'[p].alive /\ Span(mproc'[p].base, mproc'[p].size) = S
        BY <1>11, <1>13 DEF i
      <3> QED
        BY ONLY <3>1, <3>2, OwnedNext
    <2>5. SwapClicks' = SwapClicks
      <3>1. mode # Lost
        BY <1>14, Modes
      <3> QED
        BY <1>14, <1>15, <3>1, SwapClicksNext
    <2> HIDE DEF own, F, S
    <2> QED
      BY <1>8, <2>3, <2>4, <2>5, SharesNext
  <1> QED
    BY <1>13, <1>15, <1>16, <1>17, <1>18


\* A process moves to the front of hole i, and the memory it had is freed.
LEMMA MoveTo ==
    ASSUME Apart(holes), mproc \in [Procs -> Process], ClicksAccounted,
           NEW p \in Procs, mproc[p].alive, mproc[p].size # 0,
           NEW i \in 1..Len(holes), mproc[p].size <= holes[i].len,
           holes' = free_mem(Bite(holes, i, mproc[p].size), mproc[p].base, mproc[p].size),
           \A q \in Procs : q # p => mproc'[q] = mproc[q],
           mproc'[p].alive, mproc'[p].base = holes[i].base, mproc'[p].size = mproc[p].size,
           swapping' = swapping, mode # Lost, mode' # Lost
    PROVE  Apart(holes') /\ ClicksAccounted'
  <1> DEFINE n == mproc[p].size
             g == Bite(holes, i, n)
             S == Span(holes[i].base, n)
             B == Span(mproc[p].base, n)
             F == FreeClicks(holes)
             T == MemoryClicks \cup SwapClicks
             own == [q \in DOMAIN Owned |-> IF q = p THEN S ELSE Owned[q]]
  <1>1. n \in Nat \ {0} /\ mproc[p].base \in Nat
    BY DEF Process
  <1>2. holes \in Seq(Holes)
    BY DEF Apart
  <1>3. holes[i].base \in Nat /\ holes[i].len \in Nat
    BY <1>2, HoleNumbers
  <1>4. n \in 1..holes[i].len
    BY <1>1, <1>3
  <1>5. Apart(g) /\ S \subseteq F /\ FreeClicks(g) = F \ S
    BY <1>4, BiteTakes
  <1>6. Shares(T, F, Owned)
    BY AccountedShares
  <1>7. p \in DOMAIN Owned /\ Owned[p] = B
    BY DEF Owned, Living, Block
  <1>8. B \cap FreeClicks(g) = {}
    <2>1. Owned[p] \cap F = {}
      BY <1>6, <1>7 DEF Shares
    <2> QED
      BY <1>5, <1>7, <2>1
  <1>9. holes' = free_mem(g, mproc[p].base, n)
    OBVIOUS
  <1> HIDE DEF g, n
  <1>10. Apart(holes') /\ FreeClicks(holes') = (F \ S) \cup B
    BY <1>1, <1>5, <1>8, <1>9, FreeMemFrees
  <1>11. Shares(T, (F \ S) \cup B, own)
    <2>1. /\ DOMAIN own = DOMAIN Owned /\ own[p] = S
          /\ \A q \in DOMAIN Owned : q # p => own[q] = Owned[q]
      BY <1>7
    <2> HIDE DEF own, F, S, B, T
    <2>2. Shares(T, (F \ S) \cup Owned[p], own)
      BY <1>5, <1>6, <1>7, <2>1, Move
    <2> QED
      BY <1>7, <2>2
  <1>12. Owned' = own
    <2>1. mproc'[p].size = n
      BY DEF n
    <2>2. Owned' = [q \in DOMAIN Owned \cup {p} |->
                       IF q = p THEN Span(mproc'[p].base, mproc'[p].size) ELSE Owned[q]]
      BY OwnedNext
    <2>3. DOMAIN Owned \cup {p} = DOMAIN Owned
      BY <1>7
    <2> QED
      BY <2>1, <2>2, <2>3
  <1>13. SwapClicks' = SwapClicks
    BY SwapClicksNext
  <1> HIDE DEF own, F, S, B
  <1>14. ClicksAccounted'
    BY <1>10, <1>11, <1>12, <1>13, SharesNext
  <1> QED
    BY <1>10, <1>14

\* Memory for a process that is swapped in.
LEMMA AllocForSwapInKeeps ==
    ASSUME IInv, AllocForSwapIn
    PROVE  IInv'
  <1> DEFINE p == mode.who
             c == mode.cursor
             i == Chosen
             x == [mproc[p] EXCEPT !.base = holes[i].base, !.onswap = FALSE, !.swapin = FALSE,
                                   !.paused = @ /\ ~mproc[p].pending, !.pending = FALSE]
  <1> USE DEF IInv
  <1>1. /\ mode.at = "refill" /\ p \in Procs /\ c \in 1..Len(in_queue)
        /\ in_queue[c] = p /\ mproc[p].swapin
    BY DEF AllocForSwapIn, ModeAgrees
  <1>2. /\ mproc \in [Procs -> Process] /\ mproc[p] \in Process /\ in_queue \in Seq(Procs)
        /\ Apart(holes) /\ holes \in Seq(Holes) /\ mode.off \in BOOLEAN
    BY <1>1 DEF Typed, Apart, Mode
  <1>3. FlagsOf(mproc[p])
    BY <1>1 DEF FlagsAgree
  <1>4. mproc[p].alive /\ mproc[p].size # 0
    BY <1>1, <1>3 DEF FlagsOf
  <1>5. Wanted = mproc[p].size
    BY DEF Wanted
  <1>6. i \in 1..Len(holes) /\ holes[i].base < swap_base /\ Wanted <= holes[i].len
    BY <1>2, ChosenFits DEF AllocForSwapIn
  <1>7. holes[i].base \in Nat /\ swap_base \in Nat
    BY <1>2, <1>6, HoleNumbers, SwapBase
  <1>8. mproc' = [mproc EXCEPT ![p] = x]
    BY <1>1, <1>2 DEF AllocForSwapIn
  <1>9. /\ x \in Process /\ x.alive = mproc[p].alive /\ x.base = holes[i].base
        /\ x.size = mproc[p].size /\ ~x.swapin /\ ~x.onswap
    BY <1>2, <1>7 DEF Process
  <1> HIDE DEF x, i, p, c
  <1>10. FlagsOf(x)
    BY <1>4, <1>6, <1>7, <1>9 DEF FlagsOf
  <1>11. /\ mproc' \in [Procs -> Process] /\ FlagsAgree'
         /\ mproc'[p] = x /\ \A q \in Procs : q # p => mproc'[q] = mproc[q]
    BY <1>1, <1>2, <1>8, <1>9, <1>10, OneProcess
  <1>12. /\ in_queue' = SubSeq(in_queue, 1, c - 1) \o SubSeq(in_queue, c + 1, Len(in_queue))
         /\ mode' = Scanning(c, mode.off)
         /\ swapping' = swapping /\ isWorstFit' = isWorstFit /\ outswap' = outswap
         /\ holes' = free_mem(Bite(holes, i, mproc[p].size), mproc[p].base, mproc[p].size)
    BY <1>5 DEF AllocForSwapIn, c, i, p
  <1>13. NoRepeats(in_queue)
    BY DEF QueueAgrees
  <1>14. /\ in_queue' \in Seq(Procs) /\ Len(in_queue') = Len(in_queue) - 1 /\ Len(in_queue) \in Nat
         /\ NoRepeats(in_queue')
         /\ \A k \in 1..Len(in_queue') :
                in_queue'[k] # p /\ (k < c => in_queue'[k] = in_queue[k])
         /\ \A k \in 1..Len(in_queue) :
                k # c => \E j \in 1..Len(in_queue') : in_queue'[j] = in_queue[k]
    <2> DEFINE r == del_slot(in_queue, c)
    <2>1. /\ r \in Seq(Procs) /\ Len(r) = Len(in_queue) - 1 /\ Len(in_queue) \in Nat
          /\ NoRepeats(r)
          /\ \A k \in 1..Len(r) : r[k] # in_queue[c] /\ (k < c => r[k] = in_queue[k])
          /\ \A k \in 1..Len(in_queue) : k # c => \E j \in 1..Len(r) : r[j] = in_queue[k]
      <3>1. in_queue \in Seq(Procs) /\ c \in 1..Len(in_queue) /\ NoRepeats(in_queue)
        BY <1>1, <1>2, <1>13
      <3> QED
        BY ONLY <3>1, QueueWithout
    <2>2. in_queue' = r
      BY <1>12 DEF del_slot
    <2> HIDE DEF r
    <2> QED
      BY <1>1, <2>1, <2>2
  <1>15. c \in 1..Len(in_queue') + 1
    BY <1>1, <1>14
  <1>16. mode' \in Mode /\ ModeAgrees' /\ mode' # Lost /\ mode'.at = "scan" /\ mode'.cursor = c
    BY <1>2, <1>12, <1>14, <1>15, ScanAgrees
  <1>17. mode # Lost
    BY <1>1, Modes
  <1>18. Apart(holes') /\ ClicksAccounted'
    BY <1>1, <1>2, <1>4, <1>5, <1>6, <1>9, <1>11, <1>12, <1>16, <1>17, MoveTo
  <1>19. Typed'
    BY <1>11, <1>12, <1>14, <1>16, <1>18 DEF Typed
  <1>20. QueueAgrees'
    <2>1. \A q \in Procs : mproc'[q].swapin => q # p /\ mproc[q].swapin
      BY <1>9, <1>11
    <2>2. ASSUME NEW q \in Procs, mproc'[q].swapin
          PROVE  \E j \in 1..Len(in_queue') : in_queue'[j] = q
      <3>1. PICK k \in 1..Len(in_queue) : in_queue[k] = q
        BY <2>1, <2>2 DEF QueueAgrees
      <3>2. k # c
        BY <1>1, <2>1, <2>2, <3>1
      <3> QED
        BY <1>14, <3>1, <3>2
    <2>3. ASSUME NEW k \in 1..Len(in_queue'), ~(c <= k)
          PROVE  mproc'[in_queue'[k]].swapin
      <3>1. k < c /\ k \in 1..Len(in_queue)
        BY <1>1, <1>14, <2>3
      <3>2. in_queue'[k] = in_queue[k] /\ in_queue[k] # p
        BY <1>14, <3>1
      <3>3. in_queue[k] \in Procs
        BY <1>2, <3>1, ElementOfSeq
      <3>4. mproc[in_queue[k]].swapin
        BY <2>3, <3>1 DEF QueueAgrees, c
      <3> QED
        BY <1>11, <3>2, <3>3, <3>4
    <2> QED
      BY <1>14, <1>16, <2>2, <2>3 DEF QueueAgrees
  <1> QED
    BY <1>11, <1>16, <1>18, <1>19, <1>20

\* The process swap_out() takes is one that it may take.
LEMMA VictimIsOne ==
    ASSUME Victims # {}, outswap \in Procs
    PROVE  Victim \in Victims
  <1> DEFINE Turns == {Turn(p) : p \in Victims}
  <1>1. Victims \subseteq Procs
    BY DEF Victims
  <1>2. \A p \in Procs : Turn(p) \in Nat
    BY ProcsFinite DEF Turn, Procs
  <1>3. Turns \subseteq Nat /\ Turns # {}
    BY <1>1, <1>2
  <1> HIDE DEF Turns
  <1>4. PICK t \in Turns : \A u \in Turns : t <= u
    BY <1>3, LeastOfNat
  <1>5. PICK p \in Victims : \A q \in Victims : Turn(p) <= Turn(q)
    BY <1>4 DEF Turns
  <1> QED
    BY <1>5 DEF Victim

\* A process moves to the swap area.
LEMMA SwapOutKeeps ==
    ASSUME IInv, SwapOut
    PROVE  IInv'
  <1> DEFINE p == Victim
             Fitting == SwapFits(holes, swap_base, mproc[p].size)
             i == First(Fitting)
             x == [mproc[p] EXCEPT !.base = holes[i].base, !.onswap = TRUE]
  <1> USE DEF IInv
  <1>1. /\ mproc \in [Procs -> Process] /\ in_queue \in Seq(Procs) /\ outswap \in Procs
        /\ Apart(holes) /\ holes \in Seq(Holes) /\ mode \in Mode
    BY DEF Typed, Apart
  <1>2. p \in Victims
    BY <1>1, VictimIsOne DEF SwapOut
  <1>3. p \in Procs /\ mproc[p].paused /\ ~mproc[p].onswap /\ Fitting # {}
    BY <1>2 DEF Victims
  <1>4. mproc[p] \in Process /\ FlagsOf(mproc[p])
    BY <1>1, <1>3 DEF FlagsAgree
  <1>5. /\ mproc[p].alive /\ mproc[p].size # 0 /\ ~mproc[p].swapin
        /\ mproc[p].size \in Nat
    BY <1>3, <1>4 DEF FlagsOf, Process
  <1>6. Fitting \subseteq 1..Len(holes) /\ Fitting \subseteq Nat
    <2>1. Len(holes) \in Nat
      BY <1>1, LenProperties
    <2> QED
      BY <2>1 DEF SwapFits
  <1>7. i \in Fitting
    <2> HIDE DEF Fitting
    <2> QED
      BY <1>3, <1>6, FirstIsLeast
  <1>8. i \in 1..Len(holes) /\ holes[i].base >= swap_base /\ holes[i].len >= mproc[p].size
    BY <1>7 DEF SwapFits
  <1>9. holes[i].base \in Nat /\ swap_base \in Nat /\ holes[i].len \in Nat
    BY <1>1, <1>8, HoleNumbers, SwapBase
  <1>10. mproc' = [mproc EXCEPT ![p] = x]
    BY <1>1, <1>3 DEF SwapOut
  <1>11. /\ x \in Process /\ x.alive = mproc[p].alive /\ x.base = holes[i].base
         /\ x.size = mproc[p].size /\ x.swapin = mproc[p].swapin /\ x.onswap
    BY <1>4, <1>9 DEF Process
  <1>12. /\ holes' = free_mem(Bite(holes, i, mproc[p].size), mproc[p].base, mproc[p].size)
         /\ outswap' = p /\ UNCHANGED <<isWorstFit, swapping, in_queue, mode>>
         /\ mode.at \in {"fork", "refill"}
    BY DEF SwapOut, Allocating
  <1> HIDE DEF x, i, p
  <1>13. FlagsOf(x)
    BY <1>5, <1>8, <1>9, <1>11 DEF FlagsOf
  <1>14. /\ mproc' \in [Procs -> Process] /\ FlagsAgree'
         /\ mproc'[p] = x /\ \A q \in Procs : q # p => mproc'[q] = mproc[q]
    BY <1>1, <1>3, <1>10, <1>11, <1>13, OneProcess
  <1>15. mode # Lost /\ mode' # Lost
    BY <1>12, Modes
  <1>16. mproc[p].size <= holes[i].len
    BY <1>5, <1>8, <1>9
  <1>17. Apart(holes') /\ ClicksAccounted'
    BY <1>1, <1>3, <1>5, <1>8, <1>11, <1>12, <1>14, <1>15, <1>16, MoveTo
  <1>18. Typed'
    BY <1>1, <1>3, <1>12, <1>14, <1>17 DEF Typed
  <1>19. \A q \in Procs : mproc'[q].swapin = mproc[q].swapin /\ mproc'[q].alive = mproc[q].alive
                          /\ mproc'[q].size = mproc[q].size
    BY <1>11, <1>14
  <1>20. \A k \in 1..Len(in_queue) : in_queue[k] \in Procs
    BY <1>1, ElementOfSeq
  <1>21. QueueAgrees'
    BY <1>12, <1>19, <1>20 DEF QueueAgrees
  <1>22. ModeAgrees'
    BY <1>12, <1>19 DEF ModeAgrees
  <1> QED
    BY <1>14, <1>17, <1>18, <1>21, <1>22


\* No memory for a process.
LEMMA NoMemKeeps ==
    ASSUME IInv, NoMem
    PROVE  IInv'
  <1> DEFINE p == mode.who
  <1> USE DEF IInv
  <1>1. /\ mproc \in [Procs -> Process] /\ in_queue \in Seq(Procs) /\ mode \in Mode
        /\ Len(in_queue) \in Nat
    BY LenProperties DEF Typed
  <1>2. /\ UNCHANGED <<holes, isWorstFit, swapping, in_queue, outswap>>
        /\ mode.at \in {"fork", "refill"}
    BY DEF NoMem, Allocating
  <1>3. mode # Lost /\ p \in Procs
    BY <1>2, Modes DEF ModeAgrees
  <1>4. CASE mode.at = "fork"
    <2>1. Dead \in Process /\ FlagsOf(Dead) /\ ~Dead.alive
      BY DEF Dead, Process, FlagsOf
    <2>2. ~mproc[p].alive /\ mproc' = [mproc EXCEPT ![p] = Dead] /\ Served
      BY <1>4 DEF ModeAgrees, NoMem
    <2>3. ~mproc[p].swapin
      <3>1. mproc[p] \in Process /\ FlagsOf(mproc[p])
        BY <1>1, <1>3 DEF FlagsAgree
      <3> QED
        BY <2>2, <3>1 DEF FlagsOf, Process
    <2>4. ~Dead.swapin
      BY DEF Dead
    <2> HIDE DEF p
    <2>5. /\ mproc' \in [Procs -> Process] /\ FlagsAgree'
          /\ mproc'[p] = Dead /\ \A q \in Procs : q # p => mproc'[q] = mproc[q]
      BY <1>1, <1>3, <2>1, <2>2, OneProcess
    <2>6. /\ mode' \in Mode /\ ModeAgrees' /\ mode' # Lost
          /\ mode'.at = "scan" /\ mode'.cursor = 1
      BY <1>1, <1>2, <2>2, ServedAgrees
    <2>7. Typed'
      BY <1>2, <2>5, <2>6 DEF Typed, Apart
    <2>8. QueueAgrees'
      <3>1. \A q \in Procs : mproc'[q].swapin => mproc[q].swapin
        BY <2>4, <2>5
      <3>2. \A k \in 1..Len(in_queue) : 1 <= k
        OBVIOUS
      <3> QED
        BY <1>2, <2>6, <3>1, <3>2 DEF QueueAgrees
    <2>9. ClicksAccounted'
      <3>1. \A q \in Procs : /\ mproc'[q].alive = mproc[q].alive
                             /\ mproc[q].alive => /\ mproc'[q].base = mproc[q].base
                                                  /\ mproc'[q].size = mproc[q].size
        <4>1. mproc[p].alive \in BOOLEAN
          BY <1>1, <1>3 DEF Process
        <4>2. mproc[p].alive = FALSE
          BY <2>2, <4>1
        <4>3. Dead.alive = FALSE
          BY DEF Dead
        <4> QED
          BY <2>5, <4>2, <4>3
      <3> QED
        BY <1>2, <1>3, <2>6, <3>1, QuietClicks
    <2> QED
      BY <2>5, <2>6, <2>7, <2>8, <2>9
  <1>5. CASE mode.at = "refill"
    <2> DEFINE c == mode.cursor
    <2>1. c \in 1..Len(in_queue) /\ in_queue[c] = p /\ mproc[p].swapin /\ mode.off \in BOOLEAN
      BY <1>1, <1>5 DEF ModeAgrees, Mode
    <2>2. mode' = Scanning(c + 1, mode.off) /\ mproc' = mproc
      BY <1>5 DEF NoMem
    <2>3. c + 1 \in 1..Len(in_queue') + 1
      BY <1>1, <1>2, <2>1
    <2> HIDE DEF c, p
    <2>4. /\ mode' \in Mode /\ ModeAgrees' /\ mode' # Lost
          /\ mode'.at = "scan" /\ mode'.cursor = c + 1
      <3>1. in_queue' \in Seq(Procs)
        BY <1>1, <1>2
      <3> QED
        BY <2>1, <2>2, <2>3, <3>1, ScanAgrees
    <2>5. Typed'
      BY <1>2, <2>2, <2>4 DEF Typed, Apart
    <2>6. QueueAgrees'
      <3>1. ASSUME NEW k \in 1..Len(in_queue)
            PROVE  mproc[in_queue[k]].swapin \/ c + 1 <= k
        <4>1. mproc[in_queue[k]].swapin \/ c <= k
          BY DEF QueueAgrees, c
        <4>2. CASE k = c
          BY <2>1, <4>2
        <4>3. CASE k # c
          BY <1>1, <2>1, <4>1, <4>3
        <4> QED
          BY <4>2, <4>3
      <3> QED
        BY <1>2, <2>2, <2>4, <3>1 DEF QueueAgrees
    <2>7. FlagsAgree'
      BY <2>2 DEF FlagsAgree, FlagsOf
    <2>8. ClicksAccounted'
      BY <1>2, <1>3, <2>2, <2>4, QuietClicks
    <2> QED
      BY <2>4, <2>5, <2>6, <2>7, <2>8
  <1> QED
    BY <1>2, <1>4, <1>5

-----------------------------------------------------------------------------
(* The steps of swap_in                                                      *)

\* A look at an entry of the queue.
LEMMA ScanKeeps ==
    ASSUME IInv, Scan
    PROVE  IInv'
  <1> DEFINE c == mode.cursor
             p == in_queue[c]
  <1> USE DEF IInv
  <1>1. /\ mproc \in [Procs -> Process] /\ in_queue \in Seq(Procs) /\ mode \in Mode
        /\ Len(in_queue) \in Nat /\ mode.off \in BOOLEAN
    BY LenProperties DEF Typed, Mode
  <1>2. mode.at = "scan" /\ c \in 1..Len(in_queue)
    BY <1>1 DEF Scan, ModeAgrees
  <1>3. p \in Procs
    BY <1>1, <1>2, ElementOfSeq
  <1>4. UNCHANGED <<holes, isWorstFit, swapping, mproc, outswap>>
    BY DEF Scan
  <1>5. mode # Lost
    BY <1>2, Modes
  <1>6. FlagsAgree'
    BY <1>4 DEF FlagsAgree, FlagsOf
  <1>7. NoRepeats(in_queue)
    BY DEF QueueAgrees
  <1>8. CASE /\ ~mproc[p].swapin /\ mode' = mode
             /\ in_queue' = SubSeq(in_queue, 1, c - 1) \o SubSeq(in_queue, c + 1, Len(in_queue))
    <2>1. /\ in_queue' \in Seq(Procs) /\ Len(in_queue') = Len(in_queue) - 1
          /\ NoRepeats(in_queue')
          /\ \A k \in 1..Len(in_queue') :
                 in_queue'[k] # p /\ (k < c => in_queue'[k] = in_queue[k])
          /\ \A k \in 1..Len(in_queue) :
                k # c => \E j \in 1..Len(in_queue') : in_queue'[j] = in_queue[k]
      <3>1. in_queue' = del_slot(in_queue, c)
        BY <1>8 DEF del_slot
      <3>2. in_queue \in Seq(Procs) /\ c \in 1..Len(in_queue) /\ NoRepeats(in_queue)
        BY <1>1, <1>2, <1>7
      <3> HIDE DEF c
      <3> QED
        BY ONLY SMTT(30), <3>1, <3>2, QueueWithout DEF p
    <2> HIDE DEF c, p
    <2>2. c \in 1..Len(in_queue') + 1
      BY <1>1, <1>2, <2>1
    <2>3. ModeAgrees'
      BY <1>2, <1>8, <2>2 DEF ModeAgrees, c
    <2>4. Typed'
      BY <1>1, <1>4, <1>8, <2>1 DEF Typed, Apart
    <2>5. QueueAgrees'
      <3>1. ASSUME NEW q \in Procs, mproc[q].swapin
            PROVE  \E j \in 1..Len(in_queue') : in_queue'[j] = q
        <4>1. PICK k \in 1..Len(in_queue) : in_queue[k] = q
          BY <3>1 DEF QueueAgrees
        <4>2. k # c
          BY <1>8, <3>1, <4>1 DEF p
        <4> QED
          BY <2>1, <4>1, <4>2
      <3>2. ASSUME NEW k \in 1..Len(in_queue'), ~(c <= k)
            PROVE  mproc[in_queue'[k]].swapin
        <4>1. k < c /\ k \in 1..Len(in_queue)
          BY <1>1, <1>2, <2>1, <3>2
        <4>2. in_queue'[k] = in_queue[k]
          BY <2>1, <4>1
        <4>3. mproc[in_queue[k]].swapin
          BY <3>2, <4>1 DEF QueueAgrees, c
        <4> QED
          BY <4>2, <4>3
      <3> QED
        BY <1>2, <1>4, <1>8, <2>1, <3>1, <3>2 DEF QueueAgrees, c
    <2>6. ClicksAccounted'
      BY <1>4, <1>5, <1>8, QuietClicks
    <2> QED
      BY <1>6, <2>3, <2>4, <2>5, <2>6
  <1>9. CASE mproc[p].swapin /\ mode' = Refilling(p, c, mode.off) /\ in_queue' = in_queue
    <2>1. mode' = [at |-> "refill", who |-> p, cursor |-> c, off |-> mode.off]
      BY <1>9, Modes
    <2>2. c \in Nat
      BY <1>1, <1>2
    <2> HIDE DEF c, p
    <2>3. mode' \in Mode
      BY <1>1, <1>3, <2>1, <2>2 DEF Mode
    <2>4. mode'.at = "refill" /\ mode'.who = p /\ mode'.cursor = c
      BY <2>1
    <2>5. mode' # Lost
      BY <2>4, Modes
    <2>6. ModeAgrees'
      BY <1>2, <1>3, <1>4, <1>9, <2>4 DEF ModeAgrees, p
    <2>7. Typed'
      BY <1>4, <1>9, <2>3 DEF Typed, Apart
    <2>8. QueueAgrees'
      BY <1>2, <1>4, <1>9, <2>4 DEF QueueAgrees, c
    <2>9. ClicksAccounted'
      BY <1>4, <1>5, <2>5, QuietClicks
    <2> QED
      BY <1>6, <2>6, <2>7, <2>8, <2>9
  <1> QED
    BY <1>8, <1>9 DEF Scan

\* The end of swap_in.
LEMMA ScanDoneKeeps ==
    ASSUME IInv, ScanDone
    PROVE  IInv'
  <1> USE DEF IInv
  <1>1. /\ mode.at = "scan" /\ mode.cursor > Len(in_queue) /\ mode' = Idle
        /\ UNCHANGED <<holes, isWorstFit, swapping, mproc, in_queue, outswap>>
    BY DEF ScanDone
  <1>2. in_queue \in Seq(Procs) /\ mode \in Mode /\ Len(in_queue) \in Nat /\ mode.cursor \in Nat
    BY LenProperties DEF Typed, Mode
  <1>3. /\ Idle \in Mode /\ Idle.at = "idle" /\ Idle # Lost /\ mode # Lost
    BY <1>1, Modes DEF Mode
  <1>4. Typed'
    BY <1>1, <1>3 DEF Typed, Apart
  <1>5. FlagsAgree'
    BY <1>1 DEF FlagsAgree, FlagsOf
  <1>6. QueueAgrees'
    <2>1. \A k \in 1..Len(in_queue) : ~(mode.cursor <= k)
      BY <1>1, <1>2
    <2> QED
      BY <1>1, <2>1 DEF QueueAgrees
  <1>7. ModeAgrees'
    BY <1>1, <1>3 DEF ModeAgrees
  <1>8. ClicksAccounted'
    BY <1>1, <1>3, QuietClicks
  <1> QED
    BY <1>4, <1>5, <1>6, <1>7, <1>8


-----------------------------------------------------------------------------
(* The swap device is opened and closed                                      *)

\* Every click that is accounted for is in memory or in the swap area.
LEMMA ClickPlaces ==
    ASSUME Apart(holes), mproc \in [Procs -> Process], ClicksAccounted
    PROVE  /\ FreeClicks(holes) \subseteq MemoryClicks \cup SwapClicks
           /\ \A p \in Living : Block(p) \subseteq MemoryClicks \cup SwapClicks
           /\ swap_base - 1 \notin FreeClicks(holes)
           /\ \A c \in MemoryClicks \cup SwapClicks : c \in Nat /\ c # swap_base - 1
           /\ \A c \in MemoryClicks \cup SwapClicks : c < swap_base <=> c \in MemoryClicks
           /\ \A c \in SwapClicks : c < swap_base + SwapSize
  <1>1. swap_base \in Nat \ {0} /\ MemoryClicks \subseteq Nat
        /\ \A c \in MemoryClicks : c < swap_base - 1
    BY SwapBase
  <1>2. SwapSize \in Nat
    BY MemoryAssumption
  <1>3. \A c \in SwapClicks : c \in Nat /\ swap_base <= c /\ c < swap_base + SwapSize
    BY <1>1, <1>2 DEF SwapClicks, Span
  <1>4. /\ FreeClicks(holes) \subseteq MemoryClicks \cup SwapClicks
        /\ \A p \in Living : Block(p) \subseteq MemoryClicks \cup SwapClicks
    BY DEF ClicksAccounted
  <1>5. \A c \in MemoryClicks \cup SwapClicks : c \in Nat /\ c # swap_base - 1
    BY <1>1, <1>3
  <1>6. \A c \in MemoryClicks \cup SwapClicks : c < swap_base <=> c \in MemoryClicks
    BY <1>1, <1>3
  <1>7. swap_base - 1 \notin FreeClicks(holes)
    BY <1>4, <1>5
  <1> QED
    BY <1>3, <1>4, <1>5, <1>6, <1>7

\* The memory of a process that is not on swap is below the swap area.
LEMMA BlockInMemory ==
    ASSUME Apart(holes), mproc \in [Procs -> Process], FlagsAgree, ClicksAccounted,
           NEW p \in Living, ~mproc[p].onswap
    PROVE  Block(p) \subseteq MemoryClicks
  <1>1. p \in Procs /\ mproc[p].alive
    BY DEF Living
  <1>2. /\ mproc[p].base \in Nat /\ mproc[p].size \in Nat
        /\ mproc[p].onswap \in BOOLEAN
    BY <1>1 DEF Process
  <1>3. swap_base \in Nat \ {0}
    BY SwapBase
  <1>4. mproc[p].base < swap_base
    BY <1>1, <1>2, <1>3 DEF FlagsAgree, FlagsOf
  <1>5. /\ Block(p) \subseteq MemoryClicks \cup SwapClicks
        /\ \A c \in MemoryClicks \cup SwapClicks : c \in Nat /\ c # swap_base - 1
        /\ \A c \in MemoryClicks \cup SwapClicks : c < swap_base <=> c \in MemoryClicks
    BY ClickPlaces
  <1>6. \A c \in Nat : c \in Block(p) <=> mproc[p].base <= c /\ c < mproc[p].base + mproc[p].size
    BY <1>2 DEF Block, Span
  <1>7. swap_base - 1 \notin Block(p) /\ swap_base - 1 \in Nat
    BY <1>3, <1>5
  <1>8. mproc[p].base + mproc[p].size <= swap_base - 1
    BY <1>2, <1>3, <1>4, <1>6, <1>7
  <1>9. \A c \in Block(p) : c \in Nat /\ c < swap_base
    BY <1>2, <1>3, <1>5, <1>6, <1>8
  <1> QED
    BY <1>5, <1>9

\* With no process on swap the swap area is one hole, or there is none.
LEMMA OneSwapHole ==
    ASSUME Apart(holes), mproc \in [Procs -> Process], FlagsAgree, ClicksAccounted,
           \A p \in Procs : ~mproc[p].onswap,
           NEW i \in 1..Len(holes), NEW j \in 1..Len(holes),
           holes[i].base >= swap_base, holes[j].base >= swap_base, i < j
    PROVE  FALSE
  <1> DEFINE e == EndOf(holes[i])
  <1>1. holes \in Seq(Holes) /\ Len(holes) \in Nat
    BY LenProperties DEF Apart
  <1>2. \A k \in 1..Len(holes) : /\ holes[k].base \in Nat /\ EndOf(holes[k]) \in Nat
                                 /\ holes[k].base < EndOf(holes[k])
    BY <1>1, HoleNumbers
  <1>3. \A m, n \in 1..Len(holes) : m < n => EndOf(holes[m]) < holes[n].base
    BY DEF Apart
  <1>4. \A c \in Nat : c \in FreeClicks(holes) <=>
            \E k \in 1..Len(holes) : holes[k].base <= c /\ c < EndOf(holes[k])
    BY <1>1, FreeClick
  <1>5. swap_base \in Nat \ {0} /\ SwapSize \in Nat
    BY SwapBase, MemoryAssumption
  <1>6. e \in Nat /\ swap_base <= e /\ e < holes[j].base
    BY <1>2, <1>3, <1>5
  <1>7. holes[j].base \in FreeClicks(holes)
    BY <1>2, <1>4
  <1>8. holes[j].base \in SwapClicks /\ holes[j].base < swap_base + SwapSize
    <2>1. /\ holes[j].base \in MemoryClicks \cup SwapClicks
          /\ ~(holes[j].base < swap_base)
      BY <1>2, <1>5, <1>7, ClickPlaces
    <2> QED
      BY <2>1, ClickPlaces
  <1>9. e \in SwapClicks
    <2>1. SwapClicks = Span(swap_base, SwapSize)
      BY <1>8 DEF SwapClicks
    <2>2. holes[j].base \in Nat
      BY <1>2
    <2> HIDE DEF e
    <2> QED
      BY <1>5, <1>6, <1>8, <2>1, <2>2 DEF Span
  <1> HIDE DEF e
  <1>10. e \notin FreeClicks(holes)
    <2>1. SUFFICES ASSUME NEW k \in 1..Len(holes), holes[k].base <= e, e < EndOf(holes[k])
                   PROVE  FALSE
      BY <1>4, <1>6
    <2>2. CASE k < i
      <3>1. EndOf(holes[k]) < holes[i].base /\ holes[i].base < e
        BY <1>2, <1>3, <2>2 DEF e
      <3> QED
        BY <1>2, <1>6, <2>1, <3>1
    <2>3. CASE k > i
      <3>1. e < holes[k].base
        BY <1>1, <1>3, <2>3 DEF e
      <3> QED
        BY <1>2, <1>6, <2>1, <3>1
    <2>4. CASE k = i
      BY <1>6, <2>1, <2>4 DEF e
    <2> QED
      BY <1>1, <2>2, <2>3, <2>4
  <1>11. PICK p \in Living : e \in Block(p)
    BY <1>9, <1>10 DEF ClicksAccounted
  <1>12. e \in MemoryClicks
    <2>1. ~mproc[p].onswap
      BY DEF Living
    <2> QED
      BY <1>11, <2>1, BlockInMemory
  <1>13. e < swap_base
    BY <1>9, <1>12, ClickPlaces
  <1> QED
    BY <1>5, <1>6, <1>13


\* What swap_off() leaves of the list when no process is on swap.
LEMMA SwapHoleLeaves ==
    ASSUME Apart(holes), mproc \in [Procs -> Process], FlagsAgree, ClicksAccounted,
           \A p \in Procs : ~mproc[p].onswap,
           NEW S, S = {i \in 1..Len(holes) : holes[i].base >= swap_base},
           NEW kept, kept = IF S = {} THEN holes ELSE del_slot(holes, First(S))
    PROVE  /\ Apart(kept)
           /\ FreeClicks(kept) = FreeClicks(holes) \cap MemoryClicks
  <1>1. holes \in Seq(Holes) /\ Len(holes) \in Nat
    BY LenProperties DEF Apart
  <1>2. \A k \in 1..Len(holes) : /\ holes[k].base \in Nat /\ EndOf(holes[k]) \in Nat
                                 /\ holes[k].base < EndOf(holes[k])
    BY <1>1, HoleNumbers
  <1>3. \A c \in Nat : c \in FreeClicks(holes) <=>
            \E k \in 1..Len(holes) : holes[k].base <= c /\ c < EndOf(holes[k])
    BY <1>1, FreeClick
  <1>4. swap_base \in Nat \ {0}
    BY SwapBase
  <1>5. ASSUME NEW k \in 1..Len(holes), k \notin S
        PROVE  EndOf(holes[k]) < swap_base
    <2>1. holes[k].base < swap_base
      BY <1>2, <1>4, <1>5
    <2>2. swap_base - 1 \notin FreeClicks(holes)
      BY ClickPlaces
    <2> QED
      BY <1>1, <2>1, <2>2, HoleSide
  <1>6. \A c \in FreeClicks(holes) : c \in Nat /\ (c < swap_base <=> c \in MemoryClicks)
    BY ClickPlaces
  <1>7. MemoryClicks \subseteq Nat
    BY SwapBase
  <1>8. CASE S = {}
    <2>1. FreeClicks(holes) \subseteq MemoryClicks
      <3>1. SUFFICES ASSUME NEW c \in FreeClicks(holes)
                     PROVE  c < swap_base
        BY <1>6
      <3>2. PICK k \in 1..Len(holes) : holes[k].base <= c /\ c < EndOf(holes[k])
        BY <1>3, <1>6
      <3>3. EndOf(holes[k]) < swap_base
        BY <1>5, <1>8
      <3> QED
        BY <1>2, <1>4, <1>6, <3>2, <3>3
    <2> QED
      BY <1>8, <2>1
  <1>9. CASE S # {}
    <2> DEFINE i == First(S)
    <2>1. i \in S
      <3>1. S \subseteq Nat
        BY <1>1
      <3> QED
        BY <1>9, <3>1, FirstIsLeast
    <2>2. i \in 1..Len(holes) /\ holes[i].base >= swap_base
      BY <2>1
    <2>3. kept = del_slot(holes, i)
      BY <1>9
    <2> HIDE DEF i
    <2>4. /\ kept \in Seq(Holes) /\ Len(kept) = Len(holes) - 1
          /\ \A j \in 1..Len(holes) - 1 : kept[j] = IF j < i THEN holes[j] ELSE holes[j + 1]
      BY <1>1, <2>2, <2>3, DelSlot
    <2>5. \A k \in 1..Len(holes) : k # i => k \notin S
      <3>1. SUFFICES ASSUME NEW k \in 1..Len(holes), k # i, k \in S
                     PROVE  FALSE
        OBVIOUS
      <3>2. holes[k].base >= swap_base
        BY <3>1
      <3>3. CASE k < i
        BY <2>2, <3>2, <3>3, OneSwapHole
      <3>4. CASE i < k
        BY <2>2, <3>2, <3>4, OneSwapHole
      <3> QED
        BY <1>1, <2>2, <3>1, <3>3, <3>4
    <2>6. Apart(kept)
      <3>1. SUFFICES ASSUME NEW m \in 1..Len(kept), NEW n \in 1..Len(kept), m < n
                     PROVE  EndOf(kept[m]) < kept[n].base
        BY <2>4 DEF Apart
      <3> DEFINE old(k) == IF k < i THEN k ELSE k + 1
      <3>2. /\ old(m) \in 1..Len(holes) /\ old(n) \in 1..Len(holes) /\ old(m) < old(n)
            /\ kept[m] = holes[old(m)] /\ kept[n] = holes[old(n)]
        <4>1. m \in 1..Len(holes) - 1 /\ n \in 1..Len(holes) - 1
          BY <1>1, <2>4
        <4>2. kept[m] = holes[old(m)] /\ kept[n] = holes[old(n)]
          BY <2>4, <4>1
        <4>3. old(m) \in 1..Len(holes) /\ old(n) \in 1..Len(holes)
          BY <1>1, <4>1
        <4>4. i \in Nat /\ m \in Nat /\ n \in Nat
          BY <1>1, <2>2, <4>1
        <4>5. old(m) < old(n)
          BY <3>1, <4>4
        <4> QED
          BY <4>2, <4>3, <4>5
      <3> HIDE DEF old
      <3> QED
        BY <3>2 DEF Apart
    <2>7. \A c \in Nat : c \in FreeClicks(kept) <=>
              \E j \in 1..Len(kept) : kept[j].base <= c /\ c < EndOf(kept[j])
      BY <2>4, FreeClick
    <2>8. FreeClicks(kept) \subseteq Nat
      BY <2>4, FreeClick
    <2>9. ASSUME NEW c \in FreeClicks(kept)
          PROVE  c \in FreeClicks(holes) \cap MemoryClicks
      <3>1. PICK j \in 1..Len(kept) : kept[j].base <= c /\ c < EndOf(kept[j])
        BY <2>7, <2>8
      <3> DEFINE k == IF j < i THEN j ELSE j + 1
      <3>2. k \in 1..Len(holes) /\ k # i /\ kept[j] = holes[k]
        BY SMTT(30), <1>1, <2>2, <2>4
      <3> HIDE DEF k
      <3>3. c \in FreeClicks(holes)
        BY <1>3, <2>8, <3>1, <3>2
      <3>4. EndOf(holes[k]) < swap_base
        BY <1>5, <2>5, <3>2
      <3>5. c < swap_base
        <4>1. c < EndOf(holes[k]) /\ c \in Nat /\ EndOf(holes[k]) \in Nat
          BY <1>2, <2>8, <3>1, <3>2
        <4> QED
          BY <1>4, <3>4, <4>1
      <3> QED
        BY <1>6, <3>3, <3>5
    <2>10. ASSUME NEW c \in FreeClicks(holes), c \in MemoryClicks
           PROVE  c \in FreeClicks(kept)
      <3>1. PICK k \in 1..Len(holes) : holes[k].base <= c /\ c < EndOf(holes[k])
        BY <1>3, <1>6
      <3>2. c \in Nat /\ c < swap_base
        BY <1>6, <2>10
      <3>3. k # i
        BY <1>2, <1>4, <2>2, <3>1, <3>2
      <3> DEFINE j == IF k < i THEN k ELSE k - 1
      <3>4. j \in 1..Len(kept) /\ kept[j] = holes[k]
        <4>1. j \in 1..Len(holes) - 1 /\ (j < i => j = k) /\ (~(j < i) => j + 1 = k)
          BY <1>1, <2>2, <3>3
        <4> HIDE DEF j
        <4> QED
          BY <2>4, <4>1
      <3> HIDE DEF j
      <3> QED
        BY <2>7, <3>1, <3>2, <3>4
    <2> QED
      BY <2>6, <2>9, <2>10
  <1> QED
    BY <1>8, <1>9

\* swap_off() closes the device, or leaves it open.
LEMMA SwapOffDoneKeeps ==
    ASSUME IInv, SwapOffDone
    PROVE  IInv'
  <1> DEFINE S == {i \in 1..Len(holes) : holes[i].base >= swap_base}
             kept == IF S = {} THEN holes ELSE del_slot(holes, First(S))
  <1> USE DEF IInv
  <1>1. /\ mode.at = "scan" /\ mode.cursor > Len(in_queue)
        /\ UNCHANGED <<isWorstFit, mproc, in_queue, outswap>>
    BY DEF SwapOffDone
  <1>2. /\ in_queue \in Seq(Procs) /\ mode \in Mode /\ Len(in_queue) \in Nat
        /\ mode.cursor \in Nat /\ mproc \in [Procs -> Process] /\ Apart(holes)
    BY LenProperties DEF Typed, Mode
  <1>3. FlagsAgree'
    BY <1>1 DEF FlagsAgree, FlagsOf
  <1>4. \A k \in 1..Len(in_queue) : mproc[in_queue[k]].swapin
    <2>1. \A k \in 1..Len(in_queue) : ~(mode.cursor <= k)
      BY <1>1, <1>2
    <2> QED
      BY <2>1 DEF QueueAgrees
  <1>5. QueueAgrees'
    BY <1>1, <1>4 DEF QueueAgrees
  <1>6. in_queue' \in Seq(Procs)
    BY <1>1, <1>2
  <1>7. mode # Lost
    BY <1>1, Modes
  <1>8. CASE Served /\ holes' = holes /\ swapping' = swapping
    <2>1. mode' \in Mode /\ ModeAgrees' /\ mode' # Lost
      BY <1>6, <1>8, ServedAgrees
    <2>2. Typed'
      BY <1>1, <1>8, <2>1 DEF Typed, Apart
    <2>3. ClicksAccounted'
      BY <1>1, <1>7, <1>8, <2>1, QuietClicks
    <2> QED
      BY <1>3, <1>5, <2>1, <2>2, <2>3
  <1>9. ASSUME \A p \in Procs : ~mproc[p].onswap,
               holes' = kept, SwapClicks' = {}, mode' \in Mode, ModeAgrees',
               swapping' \in BOOLEAN
        PROVE  IInv'
    <2>1. Apart(holes') /\ FreeClicks(holes') = FreeClicks(holes) \cap MemoryClicks
      BY <1>2, <1>9, SwapHoleLeaves
    <2>2. Typed'
      BY <1>1, <1>2, <1>9, <2>1 DEF Typed
    <2>3. ClicksAccounted'
      <3> DEFINE F == FreeClicks(holes)
      <3>1. \A p \in Living : Block(p) \subseteq MemoryClicks
        <4>1. \A p \in Living : ~mproc[p].onswap
          BY <1>9 DEF Living
        <4> QED
          BY <1>2, <4>1, BlockInMemory
      <3>2. Shares(MemoryClicks \cup SwapClicks, F, Owned)
        BY AccountedShares
      <3>3. DOMAIN Owned = Living /\ \A p \in Living : Owned[p] = Block(p)
        BY DEF Owned
      <3>4. MemoryClicks = (F \cap MemoryClicks) \cup UNION {Owned[p] : p \in DOMAIN Owned}
        BY <3>1, <3>2, <3>3 DEF Shares
      <3> HIDE DEF F
      <3>5. Shares(MemoryClicks, F \cap MemoryClicks, Owned)
        BY <3>2, <3>4 DEF Shares
      <3>6. Owned' = Owned
        BY <1>1 DEF Owned, Living, Block
      <3> QED
        BY <1>9, <2>1, <3>5, <3>6, SharesNext DEF F
    <2> QED
      BY <1>3, <1>5, <1>9, <2>2, <2>3
  <1>10. CASE /\ \A p \in Procs : ~mproc[p].onswap
              /\ holes' = kept /\ swapping' = FALSE /\ Served
    <2>1. mode' \in Mode /\ ModeAgrees'
      BY <1>6, <1>10, ServedAgrees
    <2>2. SwapClicks' = {}
      BY <1>10 DEF SwapClicks
    <2> HIDE DEF kept
    <2> QED
      BY <1>9, <1>10, <2>1, <2>2
  <1>11. CASE /\ \A p \in Procs : ~mproc[p].onswap
              /\ holes' = kept /\ mode' = Lost /\ swapping' = swapping
    <2>1. Lost \in Mode /\ Lost.at = "lost"
      BY Modes DEF Mode
    <2>2. ModeAgrees'
      BY <1>11, <2>1 DEF ModeAgrees
    <2>3. SwapClicks' = {}
      <3>1. mode' = Lost'
        BY <1>11 DEF Lost, Idle
      <3> QED
        BY <3>1 DEF SwapClicks
    <2>4. swapping' \in BOOLEAN
      BY <1>11 DEF Typed
    <2> HIDE DEF kept
    <2> QED
      BY <1>9, <1>11, <2>1, <2>2, <2>3, <2>4
  <1> HIDE DEF IInv
  <1>12. \/ Served /\ holes' = holes /\ swapping' = swapping
         \/ /\ \A p \in Procs : ~mproc[p].onswap
            /\ holes' = kept /\ swapping' = FALSE /\ Served
         \/ /\ \A p \in Procs : ~mproc[p].onswap
            /\ holes' = kept /\ mode' = Lost /\ swapping' = swapping
    BY DEF SwapOffDone
  <1> QED
    BY <1>8, <1>10, <1>11, <1>12


\* swap_on() adds the swap area.
LEMMA SwapOnKeeps ==
    ASSUME IInv, swap_on
    PROVE  IInv'
  <1> DEFINE X == Span(swap_base, SwapSize)
             F == FreeClicks(holes)
  <1> USE DEF IInv
  <1>1. /\ mode = Idle /\ ~swapping /\ swapping' = TRUE /\ Served
        /\ holes' = free_mem(holes, swap_base, SwapSize)
        /\ UNCHANGED <<isWorstFit, mproc, in_queue, outswap>>
    BY DEF swap_on
  <1>2. /\ in_queue \in Seq(Procs) /\ mproc \in [Procs -> Process] /\ Apart(holes)
        /\ Len(in_queue) \in Nat
    BY LenProperties DEF Typed
  <1>3. /\ mode' \in Mode /\ ModeAgrees' /\ mode' # Lost
        /\ mode'.at = "scan" /\ mode'.cursor = 1
    BY <1>1, <1>2, ServedAgrees
  <1>4. swap_base \in Nat /\ SwapSize \in Nat
    BY SwapBase, MemoryAssumption
  <1>5. SwapClicks = {} /\ SwapClicks' = X
    <2>1. swap_base' = swap_base /\ Lost' = Lost
      BY DEF swap_base, Lost, Idle
    <2> QED
      BY <1>1, <1>3, <2>1 DEF SwapClicks
  <1>6. \A c \in X : c \notin MemoryClicks
    <2>1. \A c \in X : c \in Nat /\ ~(c < swap_base - 1)
      BY <1>4 DEF Span
    <2> QED
      BY <2>1, SwapBase
  <1>7. Shares(MemoryClicks, F, Owned)
    BY <1>5, AccountedShares
  <1> HIDE DEF X, F
  <1>8. X \cap F = {}
    BY <1>6, <1>7 DEF Shares
  <1>9. Apart(holes') /\ FreeClicks(holes') = F \cup X
    BY <1>1, <1>2, <1>4, <1>8, FreeMemFrees DEF X, F
  <1>10. ClicksAccounted'
    <2>1. \A p \in DOMAIN Owned : Owned[p] \cap X = {}
      BY <1>6, <1>7 DEF Shares
    <2>2. Shares(MemoryClicks \cup X, F \cup X, Owned)
      BY <1>7, <2>1 DEF Shares
    <2>3. Owned' = Owned
      BY <1>1 DEF Owned, Living, Block
    <2> QED
      BY <1>5, <1>9, <2>2, <2>3, SharesNext
  <1>11. Typed'
    BY <1>1, <1>3, <1>9 DEF Typed
  <1>12. FlagsAgree'
    BY <1>1 DEF FlagsAgree, FlagsOf
  <1>13. QueueAgrees'
    <2>1. \A k \in 1..Len(in_queue) : 1 <= k
      OBVIOUS
    <2> QED
      BY <1>1, <1>3, <2>1 DEF QueueAgrees
  <1> QED
    BY <1>3, <1>10, <1>11, <1>12, <1>13

\* Processes on swap are queued, those that are queued already are not.
LEMMA QueueMore ==
    ASSUME mproc \in [Procs -> Process], FlagsAgree, QueueAgrees, in_queue \in Seq(Procs),
           mode = Idle, NEW S \in SUBSET Procs, swap_inqueue(S)
    PROVE  /\ in_queue' \in Seq(Procs) /\ NoRepeats(in_queue')
           /\ \A p \in Procs : mproc[p].swapin \/ p \in S =>
                  \E i \in 1..Len(in_queue') : in_queue'[i] = p
           /\ \A i \in 1..Len(in_queue') : mproc[in_queue'[i]].swapin \/ in_queue'[i] \in S
  <1> DEFINE N == ToQueue(S)
             A == Ascending(N)
             q == in_queue
  <1>1. N \in SUBSET Procs /\ N \subseteq S /\ \A p \in N : ~mproc[p].swapin
    BY DEF ToQueue
  <1>2. /\ A \in Seq(Procs)
        /\ \A i \in 1..Len(A) : A[i] \in N
        /\ \A i, j \in 1..Len(A) : A[i] = A[j] => i = j
        /\ \A p \in N : \E i \in 1..Len(A) : A[i] = p
    <2> HIDE DEF N
    <2> QED
      BY <1>1, AscendingLists
  <1>3. Len(A) \in Nat /\ Len(q) \in Nat
    BY <1>2, LenProperties
  <1>4. in_queue' = q \o A
    BY DEF swap_inqueue
  <1>5. \A p \in Procs : p \in S /\ p \notin N => mproc[p].swapin
    BY DEF ToQueue
  <1> HIDE DEF A, N
  <1>6. /\ in_queue' \in Seq(Procs) /\ Len(in_queue') = Len(q) + Len(A)
        /\ \A i \in 1..Len(q) + Len(A) :
               in_queue'[i] = IF i <= Len(q) THEN q[i] ELSE A[i - Len(q)]
    BY <1>2, <1>4, ConcatProperties
  <1>7. /\ \A i, j \in 1..Len(q) : q[i] = q[j] => i = j
        /\ \A i \in 1..Len(q) : mproc[q[i]].swapin
        /\ \A p \in Procs : mproc[p].swapin => \E i \in 1..Len(q) : q[i] = p
    <2>1. mode.at = "idle"
      BY Modes
    <2> QED
      BY <2>1 DEF QueueAgrees, NoRepeats
  <1> HIDE DEF q
  <1>8. \A i \in 1..Len(q) : i \in 1..Len(in_queue') /\ in_queue'[i] = q[i]
    BY <1>3, <1>6
  <1>9. \A i \in 1..Len(A) : i + Len(q) \in 1..Len(in_queue') /\ in_queue'[i + Len(q)] = A[i]
    <2>1. SUFFICES ASSUME NEW i \in 1..Len(A)
                   PROVE  i + Len(q) \in 1..Len(in_queue') /\ in_queue'[i + Len(q)] = A[i]
      OBVIOUS
    <2>2. /\ i + Len(q) \in 1..Len(q) + Len(A) /\ ~(i + Len(q) <= Len(q))
          /\ (i + Len(q)) - Len(q) = i
      BY <1>3
    <2> QED
      BY <1>6, <2>2
  <1>10. \A i \in 1..Len(in_queue') : i \in 1..Len(q) \/ \E j \in 1..Len(A) : i = j + Len(q)
    <2>1. SUFFICES ASSUME NEW i \in 1..Len(in_queue'), i \notin 1..Len(q)
                   PROVE  \E j \in 1..Len(A) : i = j + Len(q)
      OBVIOUS
    <2>2. i - Len(q) \in 1..Len(A) /\ i = (i - Len(q)) + Len(q)
      BY <1>3, <1>6, <2>1
    <2> QED
      BY <2>2
  <1>11. \A i \in 1..Len(in_queue') : mproc[in_queue'[i]].swapin \/ in_queue'[i] \in S
    <2>1. ASSUME NEW i \in 1..Len(q)
          PROVE  mproc[in_queue'[i]].swapin
      BY <1>7, <1>8
    <2>2. ASSUME NEW j \in 1..Len(A)
          PROVE  in_queue'[j + Len(q)] \in S
      <3>1. A[j] \in N /\ in_queue'[j + Len(q)] = A[j]
        BY <1>2, <1>9
      <3> QED
        BY <1>1, <3>1
    <2> QED
      BY <1>10, <2>1, <2>2
  <1>12. ASSUME NEW p \in Procs, mproc[p].swapin \/ p \in S
         PROVE  \E i \in 1..Len(in_queue') : in_queue'[i] = p
    <2>1. CASE mproc[p].swapin
      BY <1>7, <1>8, <2>1
    <2>2. CASE p \in N
      BY <1>2, <1>9, <2>2
    <2> QED
      BY <1>5, <1>12, <2>1, <2>2
  <1>13. NoRepeats(in_queue')
    <2>1. SUFFICES ASSUME NEW i \in 1..Len(in_queue'), NEW j \in 1..Len(in_queue'),
                          in_queue'[i] = in_queue'[j]
                   PROVE  i = j
      BY DEF NoRepeats
    <2>2. CASE i \in 1..Len(q) /\ j \in 1..Len(q)
      BY <1>7, <1>8, <2>1, <2>2
    <2>3. ASSUME NEW k \in 1..Len(A), NEW m \in 1..Len(A), i = k + Len(q), j = m + Len(q)
          PROVE  i = j
      BY <1>2, <1>9, <2>1, <2>3
    <2>4. ASSUME NEW k \in 1..Len(A), NEW m \in 1..Len(q), in_queue'[k + Len(q)] = in_queue'[m]
          PROVE  FALSE
      <3>1. in_queue'[k + Len(q)] = A[k] /\ A[k] \in N
        BY <1>2, <1>9
      <3>2. in_queue'[m] = q[m] /\ mproc[q[m]].swapin
        BY <1>7, <1>8
      <3>3. A[k] = q[m]
        BY <2>4, <3>1, <3>2
      <3> QED
        BY <1>1, <3>1, <3>2, <3>3
    <2> QED
      BY <1>10, <2>1, <2>2, <2>3, <2>4
  <1> QED
    BY <1>6, <1>11, <1>12, <1>13


\* What a request from the idle state leaves behind.
LEMMA RequestKeeps ==
    ASSUME IInv, mode = Idle, Served, swapping' = swapping, Apart(holes'),
           isWorstFit' \in BOOLEAN, outswap' = outswap,
           mproc' \in [Procs -> Process], FlagsAgree', ClicksAccounted',
           in_queue' \in Seq(Procs), NoRepeats(in_queue'),
           \A p \in Procs : mproc'[p].swapin => \E i \in 1..Len(in_queue') : in_queue'[i] = p
    PROVE  IInv'
  <1>1. mode' \in Mode /\ ModeAgrees' /\ mode'.at = "scan" /\ mode'.cursor = 1
    BY ServedAgrees
  <1>2. swapping' \in BOOLEAN /\ outswap' \in Procs
    BY DEF IInv, Typed
  <1>3. Typed'
    BY <1>1, <1>2 DEF Typed
  <1>4. QueueAgrees'
    <2>1. Len(in_queue') \in Nat
      BY LenProperties
    <2>2. \A k \in 1..Len(in_queue') : 1 <= k
      BY <2>1
    <2> QED
      BY <1>1, <2>2 DEF QueueAgrees
  <1> QED
    BY <1>1, <1>3, <1>4 DEF IInv

\* What holds when the memory manager waits for a request.
LEMMA AtIdle ==
    ASSUME IInv, mode = Idle
    PROVE  /\ mproc \in [Procs -> Process] /\ in_queue \in Seq(Procs) /\ Apart(holes)
           /\ NoRepeats(in_queue) /\ isWorstFit \in BOOLEAN
           /\ \A p \in Procs : mproc[p].swapin => \E i \in 1..Len(in_queue) : in_queue[i] = p
           /\ \A p \in Procs : mproc[p] \in Process /\ FlagsOf(mproc[p])
           /\ mode # Lost
  BY Modes DEF IInv, Typed, QueueAgrees, FlagsAgree

\* The processes on swap are queued.
LEMMA SwapOffKeeps ==
    ASSUME IInv, swap_off
    PROVE  IInv'
  <1> DEFINE S == {p \in Procs : mproc[p].onswap}
  <1>1. /\ mode = Idle /\ swap_inqueue(S) /\ mproc' = Marked(S)
        /\ mode' = Scanning(1, TRUE)
        /\ UNCHANGED <<holes, isWorstFit, swapping, outswap>>
    BY DEF swap_off
  <1>2. /\ mproc \in [Procs -> Process] /\ in_queue \in Seq(Procs) /\ Apart(holes)
        /\ \A p \in Procs : mproc[p] \in Process /\ FlagsOf(mproc[p])
        /\ mode # Lost
    BY <1>1, AtIdle
  <1>3. \A p \in Procs : mproc'[p] = [mproc[p] EXCEPT !.swapin = @ \/ p \in S]
    BY <1>1 DEF Marked
  <1>4. \A p \in Procs : p \in S <=> mproc[p].onswap
    OBVIOUS
  <1> HIDE DEF S
  <1>5. S \in SUBSET Procs
    BY DEF S
  <1>6. \A p \in Procs :
            /\ mproc'[p] \in Process
            /\ mproc'[p].alive = mproc[p].alive /\ mproc'[p].base = mproc[p].base
            /\ mproc'[p].size = mproc[p].size /\ mproc'[p].paused = mproc[p].paused
            /\ mproc'[p].onswap = mproc[p].onswap
            /\ mproc'[p].swapin <=> mproc[p].swapin \/ p \in S
    <2> TAKE p \in Procs
    <2>1. mproc[p] \in Process
      BY <1>2
    <2>2. mproc'[p] = [mproc[p] EXCEPT !.swapin = @ \/ p \in S]
      BY <1>3
    <2>3. (mproc[p].swapin \/ p \in S) \in BOOLEAN
      OBVIOUS
    <2> QED
      BY <2>1, <2>2, <2>3 DEF Process
  <1>7. mproc' \in [Procs -> Process]
    <2>1. mproc' = [p \in Procs |-> mproc'[p]]
      BY <1>1 DEF Marked
    <2> QED
      BY <1>6, <2>1
  <1>8. FlagsAgree'
    <2>1. \A p \in Procs : FlagsOf(mproc'[p])
      BY <1>2, <1>4, <1>6 DEF FlagsOf
    <2> QED
      BY <2>1 DEF FlagsAgree, FlagsOf
  <1>9. /\ in_queue' \in Seq(Procs) /\ NoRepeats(in_queue')
        /\ \A p \in Procs : mproc[p].swapin \/ p \in S =>
               \E i \in 1..Len(in_queue') : in_queue'[i] = p
    <2>1. FlagsAgree /\ QueueAgrees
      BY DEF IInv
    <2> QED
      BY <1>1, <1>2, <1>5, <2>1, QueueMore
  <1>10. /\ mode' \in Mode /\ ModeAgrees' /\ mode' # Lost
         /\ mode'.at = "scan" /\ mode'.cursor = 1
    <2>1. Len(in_queue') \in Nat
      BY <1>9, LenProperties
    <2>2. 1 \in 1..Len(in_queue') + 1
      BY <2>1
    <2> QED
      BY <1>1, <1>9, <2>2, ScanAgrees
  <1>11. ClicksAccounted'
    BY <1>1, <1>2, <1>6, <1>10, QuietClicks DEF IInv
  <1>12. Typed'
    BY <1>1, <1>7, <1>9, <1>10 DEF IInv, Typed, Apart
  <1>13. QueueAgrees'
    <2>1. Len(in_queue') \in Nat
      BY <1>9, LenProperties
    <2>2. \A k \in 1..Len(in_queue') : 1 <= k
      BY <2>1
    <2> QED
      BY <1>6, <1>9, <1>10, <2>2 DEF QueueAgrees
  <1> QED
    BY <1>8, <1>10, <1>11, <1>12, <1>13 DEF IInv

-----------------------------------------------------------------------------
(* The requests                                                              *)

\* The fit is changed.
LEMMA WorstFitKeeps ==
    ASSUME IInv, do_worst_fit
    PROVE  IInv'
  <1>1. /\ mode = Idle /\ Served /\ isWorstFit' \in BOOLEAN
        /\ UNCHANGED <<holes, swapping, mproc, in_queue, outswap>>
    BY DEF do_worst_fit
  <1>2. /\ mproc \in [Procs -> Process] /\ in_queue \in Seq(Procs) /\ Apart(holes)
        /\ NoRepeats(in_queue) /\ mode # Lost
        /\ \A p \in Procs : mproc[p].swapin => \E i \in 1..Len(in_queue) : in_queue[i] = p
    BY <1>1, AtIdle
  <1>3. mode' # Lost
    BY <1>1, <1>2, ServedAgrees
  <1>4. FlagsAgree'
    BY <1>1 DEF IInv, FlagsAgree, FlagsOf
  <1>5. ClicksAccounted'
    BY <1>1, <1>2, <1>3, QuietClicks DEF IInv
  <1> QED
    BY <1>1, <1>2, <1>4, <1>5, RequestKeeps

\* A slot is taken for a new process.
LEMMA ForkKeeps ==
    ASSUME IInv, NEW p \in Procs, NEW size \in Sizes, Fork(p, size)
    PROVE  IInv'
  <1> DEFINE x == [Dead EXCEPT !.size = size]
  <1>1. /\ mode = Idle /\ ~mproc[p].alive /\ mproc' = [mproc EXCEPT ![p] = x]
        /\ mode' = Forking(p)
        /\ UNCHANGED <<holes, isWorstFit, swapping, in_queue, outswap>>
    BY DEF Fork
  <1>2. /\ mproc \in [Procs -> Process] /\ in_queue \in Seq(Procs) /\ Apart(holes)
        /\ mproc[p] \in Process /\ FlagsOf(mproc[p]) /\ mode # Lost
    BY <1>1, AtIdle
  <1>3. size \in Nat \ {0}
    BY MemoryAssumption
  <1>4. x \in Process /\ FlagsOf(x) /\ x.size = size /\ x.alive = FALSE /\ x.swapin = FALSE
    BY <1>3 DEF Dead, Process, FlagsOf
  <1> HIDE DEF x
  <1>5. /\ mproc' \in [Procs -> Process] /\ FlagsAgree'
        /\ mproc'[p] = x /\ \A q \in Procs : q # p => mproc'[q] = mproc[q]
    BY <1>1, <1>2, <1>4, OneProcess DEF IInv
  <1>6. mproc[p].alive = FALSE /\ mproc[p].swapin = FALSE
    BY <1>1, <1>2 DEF Process, FlagsOf
  <1>7. mode' = [at |-> "fork", who |-> p, cursor |-> 0, off |-> FALSE]
    BY <1>1, Modes
  <1>8. /\ mode' \in Mode /\ mode'.at = "fork" /\ mode'.who = p
    BY <1>7 DEF Mode
  <1>9. mode' # Lost
    BY <1>8, Modes
  <1>10. ModeAgrees'
    BY <1>3, <1>4, <1>5, <1>8 DEF ModeAgrees
  <1>11. Typed'
    BY <1>1, <1>5, <1>8 DEF IInv, Typed, Apart
  <1>12. QueueAgrees'
    <2>1. \A q \in Procs : mproc'[q].swapin = mproc[q].swapin
      BY <1>4, <1>5, <1>6
    <2>2. mode.at = "idle"
      BY <1>1, Modes
    <2>3. \A k \in 1..Len(in_queue) : in_queue[k] \in Procs
      BY <1>2, ElementOfSeq
    <2> QED
      BY <1>1, <2>1, <2>2, <2>3 DEF IInv, QueueAgrees
  <1>13. ClicksAccounted'
    <2>1. \A q \in Procs : /\ mproc'[q].alive = mproc[q].alive
                           /\ mproc[q].alive => mproc'[q] = mproc[q]
      BY <1>4, <1>5, <1>6
    <2> QED
      BY <1>1, <1>2, <1>9, <2>1, QuietClicks DEF IInv
  <1> QED
    BY <1>5, <1>10, <1>11, <1>12, <1>13 DEF IInv

\* A process ends, in memory or on swap.
LEMMA ExitKeeps ==
    ASSUME IInv, NEW p \in Procs, Exit(p)
    PROVE  IInv'
  <1> DEFINE F == FreeClicks(holes)
             B == Span(mproc[p].base, mproc[p].size)
             T == MemoryClicks \cup SwapClicks
             own == [q \in DOMAIN Owned \ {p} |-> Owned[q]]
  <1>1. /\ mode = Idle /\ mproc[p].alive /\ mproc' = [mproc EXCEPT ![p] = Dead]
        /\ holes' = free_mem(holes, mproc[p].base, mproc[p].size) /\ Served
        /\ UNCHANGED <<isWorstFit, swapping, in_queue, outswap>>
    BY DEF Exit
  <1>2. /\ mproc \in [Procs -> Process] /\ in_queue \in Seq(Procs) /\ Apart(holes)
        /\ mproc[p] \in Process /\ NoRepeats(in_queue) /\ mode # Lost /\ isWorstFit \in BOOLEAN
        /\ \A q \in Procs : mproc[q].swapin => \E i \in 1..Len(in_queue) : in_queue[i] = q
    BY <1>1, AtIdle
  <1>3. Dead \in Process /\ FlagsOf(Dead) /\ Dead.alive = FALSE /\ Dead.swapin = FALSE
    BY DEF Dead, Process, FlagsOf
  <1>4. /\ mproc' \in [Procs -> Process] /\ FlagsAgree'
        /\ mproc'[p] = Dead /\ \A q \in Procs : q # p => mproc'[q] = mproc[q]
    BY <1>1, <1>2, <1>3, OneProcess DEF IInv
  <1>5. Shares(T, F, Owned)
    BY AccountedShares DEF IInv
  <1>6. p \in DOMAIN Owned /\ Owned[p] = B
    BY <1>1 DEF Owned, Living, Block
  <1>7. B \cap F = {}
    BY <1>5, <1>6 DEF Shares
  <1>8. mproc[p].base \in Nat /\ mproc[p].size \in Nat
    BY <1>2 DEF Process
  <1>9. Apart(holes') /\ FreeClicks(holes') = F \cup B
    BY <1>1, <1>2, <1>7, <1>8, FreeMemFrees
  <1>10. Shares(T, F \cup Owned[p], own)
    BY ONLY <1>5, <1>6, Give DEF own
  <1>11. Owned' = own
    BY <1>3, <1>4, OwnedNext
  <1>12. mode' # Lost
    BY <1>1, <1>2, ServedAgrees
  <1>13. SwapClicks' = SwapClicks
    BY <1>1, <1>2, <1>12, SwapClicksNext
  <1> HIDE DEF own, F, B
  <1>14. ClicksAccounted'
    BY <1>6, <1>9, <1>10, <1>11, <1>13, SharesNext
  <1>15. \A q \in Procs : mproc'[q].swapin => mproc[q].swapin
    BY <1>3, <1>4
  <1> QED
    BY <1>1, <1>2, <1>4, <1>9, <1>14, <1>15, RequestKeeps

\* A process blocks.
LEMMA PauseKeeps ==
    ASSUME IInv, NEW p \in Procs, Pause(p)
    PROVE  IInv'
  <1> DEFINE x == [mproc[p] EXCEPT !.paused = TRUE]
  <1>1. /\ mode = Idle /\ mproc[p].alive /\ mproc' = [mproc EXCEPT ![p].paused = TRUE]
        /\ Served /\ UNCHANGED <<holes, isWorstFit, swapping, in_queue, outswap>>
    BY DEF Pause
  <1>2. /\ mproc \in [Procs -> Process] /\ in_queue \in Seq(Procs) /\ Apart(holes)
        /\ mproc[p] \in Process /\ FlagsOf(mproc[p]) /\ NoRepeats(in_queue)
        /\ mode # Lost /\ isWorstFit \in BOOLEAN
        /\ \A q \in Procs : mproc[q].swapin => \E i \in 1..Len(in_queue) : in_queue[i] = q
    BY <1>1, AtIdle
  <1>3. mproc' = [mproc EXCEPT ![p] = x]
    BY <1>1, <1>2
  <1>4. /\ x \in Process /\ x.alive = mproc[p].alive /\ x.base = mproc[p].base
        /\ x.size = mproc[p].size /\ x.onswap = mproc[p].onswap /\ x.swapin = mproc[p].swapin
    BY <1>2 DEF Process
  <1> HIDE DEF x
  <1>5. FlagsOf(x)
    BY <1>1, <1>2, <1>4 DEF FlagsOf
  <1>6. /\ mproc' \in [Procs -> Process] /\ FlagsAgree'
        /\ mproc'[p] = x /\ \A q \in Procs : q # p => mproc'[q] = mproc[q]
    BY <1>2, <1>3, <1>4, <1>5, OneProcess DEF IInv
  <1>7. \A q \in Procs : /\ mproc'[q].swapin = mproc[q].swapin /\ mproc'[q].alive = mproc[q].alive
                         /\ mproc'[q].base = mproc[q].base /\ mproc'[q].size = mproc[q].size
    BY <1>4, <1>6
  <1>8. mode' # Lost
    BY <1>1, <1>2, ServedAgrees
  <1>9. ClicksAccounted'
    BY <1>1, <1>2, <1>7, <1>8, QuietClicks DEF IInv
  <1> QED
    BY <1>1, <1>2, <1>6, <1>7, <1>9, RequestKeeps

\* A process is woken, at once or through the queue.
LEMMA WakeKeeps ==
    ASSUME IInv, NEW p \in Procs, Wake(p)
    PROVE  IInv'
  <1> DEFINE x == [mproc[p] EXCEPT !.swapin = TRUE, !.pending = TRUE]
             y == [mproc[p] EXCEPT !.paused = FALSE]
  <1>1. /\ mode = Idle /\ mproc[p].paused /\ Served
        /\ UNCHANGED <<holes, isWorstFit, swapping, outswap>>
    BY DEF Wake
  <1>2. /\ mproc \in [Procs -> Process] /\ in_queue \in Seq(Procs) /\ Apart(holes)
        /\ mproc[p] \in Process /\ FlagsOf(mproc[p]) /\ NoRepeats(in_queue)
        /\ mode # Lost /\ isWorstFit \in BOOLEAN
        /\ \A q \in Procs : mproc[q] \in Process
        /\ \A q \in Procs : mproc[q].swapin => \E i \in 1..Len(in_queue) : in_queue[i] = q
    BY <1>1, AtIdle
  <1>3. CASE /\ mproc[p].onswap /\ swap_inqueue({p})
             /\ mproc' = [Marked({p}) EXCEPT ![p].pending = TRUE]
    <2>1. mproc' = [mproc EXCEPT ![p] = x]
      <3>1. \A q \in Procs : q # p => Marked({p})[q] = mproc[q]
        <4>1. \A q \in Procs : mproc[q] = [mproc[q] EXCEPT !.swapin = mproc[q].swapin]
          BY <1>2 DEF Process
        <4>2. SUFFICES ASSUME NEW q \in Procs, q # p
                       PROVE  Marked({p})[q] = mproc[q]
          OBVIOUS
        <4>3. (mproc[q].swapin \/ q \in {p}) = mproc[q].swapin
          BY <1>2, <4>2 DEF Process
        <4> QED
          BY <4>1, <4>3 DEF Marked
      <3>2. Marked({p})[p] = [mproc[p] EXCEPT !.swapin = TRUE]
        <4>1. (mproc[p].swapin \/ p \in {p}) = TRUE
          OBVIOUS
        <4> QED
          BY <4>1 DEF Marked
      <3>3. DOMAIN Marked({p}) = Procs
        BY DEF Marked
      <3>4. mproc'[p] = x
        BY <1>3, <3>2, <3>3
      <3>5. \A q \in Procs : q # p => mproc'[q] = mproc[q]
        BY <1>3, <3>1, <3>3
      <3>6. mproc' = [q \in Procs |-> mproc'[q]]
        BY <1>3, <3>3
      <3> HIDE DEF x
      <3> QED
        BY <1>2, <3>4, <3>5, <3>6
    <2>2. /\ x \in Process /\ x.alive = mproc[p].alive /\ x.base = mproc[p].base
          /\ x.size = mproc[p].size /\ x.onswap = mproc[p].onswap /\ x.paused = mproc[p].paused
      BY <1>2 DEF Process
    <2> HIDE DEF x
    <2>3. FlagsOf(x)
      BY <1>1, <1>2, <1>3, <2>2 DEF FlagsOf
    <2>4. /\ mproc' \in [Procs -> Process] /\ FlagsAgree'
          /\ mproc'[p] = x /\ \A q \in Procs : q # p => mproc'[q] = mproc[q]
      BY <1>2, <2>1, <2>2, <2>3, OneProcess DEF IInv
    <2>5. \A q \in Procs : /\ mproc'[q].alive = mproc[q].alive
                           /\ mproc'[q].base = mproc[q].base /\ mproc'[q].size = mproc[q].size
      BY <2>2, <2>4
    <2>6. {p} \in SUBSET Procs /\ FlagsAgree /\ QueueAgrees
      BY DEF IInv
    <2>7. /\ in_queue' \in Seq(Procs) /\ NoRepeats(in_queue')
          /\ \A q \in Procs : mproc[q].swapin \/ q \in {p} =>
                 \E i \in 1..Len(in_queue') : in_queue'[i] = q
      BY <1>1, <1>2, <1>3, <2>6, QueueMore
    <2>8. \A q \in Procs : mproc'[q].swapin => mproc[q].swapin \/ q \in {p}
      BY <2>4
    <2>9. mode' # Lost
      BY <1>1, <2>7, ServedAgrees
    <2>10. ClicksAccounted'
      BY <1>1, <1>2, <2>5, <2>9, QuietClicks DEF IInv
    <2> QED
      BY <1>1, <1>2, <2>4, <2>7, <2>8, <2>10, RequestKeeps
  <1>4. CASE /\ ~mproc[p].onswap /\ in_queue' = in_queue
             /\ mproc' = [mproc EXCEPT ![p].paused = FALSE]
    <2>1. mproc' = [mproc EXCEPT ![p] = y]
      BY <1>2, <1>4
    <2>2. /\ y \in Process /\ y.alive = mproc[p].alive /\ y.base = mproc[p].base /\ y.paused = FALSE
          /\ y.size = mproc[p].size /\ y.onswap = mproc[p].onswap /\ y.swapin = mproc[p].swapin
      BY <1>2 DEF Process
    <2> HIDE DEF y
    <2>3. FlagsOf(y)
      BY <1>2, <2>2 DEF FlagsOf
    <2>4. /\ mproc' \in [Procs -> Process] /\ FlagsAgree'
          /\ mproc'[p] = y /\ \A q \in Procs : q # p => mproc'[q] = mproc[q]
      BY <1>2, <2>1, <2>2, <2>3, OneProcess DEF IInv
    <2>5. \A q \in Procs : /\ mproc'[q].swapin = mproc[q].swapin /\ mproc'[q].alive = mproc[q].alive
                           /\ mproc'[q].base = mproc[q].base /\ mproc'[q].size = mproc[q].size
      BY <2>2, <2>4
    <2>6. mode' # Lost
      BY <1>1, <1>2, <1>4, ServedAgrees
    <2>7. ClicksAccounted'
      BY <1>1, <1>2, <2>5, <2>6, QuietClicks DEF IInv
    <2> QED
      BY <1>1, <1>2, <1>4, <2>4, <2>5, <2>7, RequestKeeps
  <1> QED
    BY <1>3, <1>4 DEF Wake


-----------------------------------------------------------------------------
(* The invariant                                                             *)

\* mem_init() establishes the invariant.
LEMMA InitIInv == Init => IInv
  <1> SUFFICES ASSUME Init
               PROVE  IInv
    OBVIOUS
  <1> USE DEF Init
  <1>1. Dead \in Process /\ FlagsOf(Dead) /\ ~Dead.alive /\ ~Dead.swapin
    BY DEF Dead, Process, FlagsOf
  <1>2. << >> \in Seq(Procs) /\ Len(<< >>) = 0
    BY EmptySeq
  <1>3. Apart(holes) /\ FreeClicks(holes) = MemoryClicks
    BY InitialHolesApart
  <1>4. Idle \in Mode /\ Idle.at = "idle" /\ Idle # Lost
    BY Modes DEF Mode
  <1>5. 1 \in Procs
    BY MemoryAssumption DEF Procs
  <1>6. Typed
    BY <1>1, <1>2, <1>3, <1>4, <1>5 DEF Typed
  <1>7. \A p \in Procs : mproc[p] = Dead
    OBVIOUS
  <1>8. FlagsAgree
    BY <1>1, <1>7 DEF FlagsAgree
  <1>9. QueueAgrees
    BY <1>1, <1>2, <1>7 DEF QueueAgrees, NoRepeats
  <1>10. ModeAgrees
    BY <1>4 DEF ModeAgrees
  <1>11. ClicksAccounted
    <2>1. Living = {}
      BY <1>1, <1>7 DEF Living
    <2>2. SwapClicks = {}
      BY DEF SwapClicks
    <2> QED
      BY <1>3, <2>1, <2>2 DEF ClicksAccounted
  <1> QED
    BY <1>6, <1>8, <1>9, <1>10, <1>11 DEF IInv

\* Every step keeps the invariant.
LEMMA NextKeeps ==
    ASSUME IInv, [Next]_vars
    PROVE  IInv'
  <1>1. CASE UNCHANGED vars
    <2> USE <1>1 DEF vars
    <2>1. Typed'
      BY DEF IInv, Typed, Apart
    <2>2. FlagsAgree'
      BY DEF IInv, FlagsAgree, FlagsOf
    <2>3. QueueAgrees'
      BY DEF IInv, QueueAgrees, NoRepeats
    <2>4. ModeAgrees'
      BY DEF IInv, ModeAgrees
    <2>5. ClicksAccounted'
      <3>1. SwapClicks' = SwapClicks
        BY DEF SwapClicks, swap_base, Lost, Idle
      <3>2. Owned' = Owned
        BY DEF Owned, Living, Block
      <3>3. Shares(MemoryClicks \cup SwapClicks, FreeClicks(holes), Owned)
        BY AccountedShares DEF IInv
      <3> QED
        BY <3>1, <3>2, <3>3, SharesNext
    <2> QED
      BY <2>1, <2>2, <2>3, <2>4, <2>5 DEF IInv
  <1>2. CASE AllocForFork
    BY <1>2, AllocForForkKeeps
  <1>3. CASE AllocForSwapIn
    BY <1>3, AllocForSwapInKeeps
  <1>4. CASE SwapOut
    BY <1>4, SwapOutKeeps
  <1>5. CASE NoMem
    BY <1>5, NoMemKeeps
  <1>6. CASE Scan
    BY <1>6, ScanKeeps
  <1>7. CASE ScanDone
    BY <1>7, ScanDoneKeeps
  <1>8. CASE SwapOffDone
    BY <1>8, SwapOffDoneKeeps
  <1>9. CASE swap_on
    BY <1>9, SwapOnKeeps
  <1>10. CASE swap_off
    BY <1>10, SwapOffKeeps
  <1>11. CASE do_worst_fit
    BY <1>11, WorstFitKeeps
  <1>12. ASSUME NEW p \in Procs, \E size \in Sizes : Fork(p, size)
         PROVE  IInv'
    BY <1>12, ForkKeeps
  <1>13. ASSUME NEW p \in Procs, Exit(p)
         PROVE  IInv'
    BY <1>13, ExitKeeps
  <1>14. ASSUME NEW p \in Procs, Pause(p)
         PROVE  IInv'
    BY <1>14, PauseKeeps
  <1>15. ASSUME NEW p \in Procs, Wake(p)
         PROVE  IInv'
    BY <1>15, WakeKeeps
  <1> QED
    BY <1>1, <1>2, <1>3, <1>4, <1>5, <1>6, <1>7, <1>8, <1>9, <1>10, <1>11, <1>12, <1>13,
       <1>14, <1>15 DEF Next

\* The strengthened invariant: the holes are in order and apart, no flag of a process
\* contradicts another or the place of its memory, the inswap queue has those that wait
\* and a cursor that does not run past it, and every click is accounted for.
THEOREM Invariance == Spec => []IInv
  <1>1. Init => IInv
    BY InitIInv
  <1>2. IInv /\ [Next]_vars => IInv'
    BY NextKeeps
  <1> QED
    BY <1>1, <1>2, PTL DEF Spec

\* No click of memory or swap is ever lost, owned twice or in two holes, whatever
\* sequence of forks, exits, signals and swaps alloc_mem, free_mem, swap_in and
\* swap_out carry out, for any chunks of memory and any sizes.
THEOREM ClicksStayAccounted == Spec => []ClicksAccounted
  <1>1. IInv => ClicksAccounted
    BY DEF IInv
  <1> QED
    BY <1>1, Invariance, PTL

\* The invariant has the holes apart.
LEMMA HolesApartState == IInv => HolesApart
  <1> SUFFICES ASSUME IInv
               PROVE  HolesApart
    OBVIOUS
  <1>1. Apart(holes) /\ Len(holes) \in Nat
    BY LenProperties DEF IInv, Typed, Apart
  <1>2. ASSUME NEW i \in 1..Len(holes) - 1
        PROVE  holes[i].base + holes[i].len < holes[i + 1].base
    <2>1. i \in 1..Len(holes) /\ i + 1 \in 1..Len(holes) /\ i < i + 1
      BY <1>1
    <2>2. EndOf(holes[i]) < holes[i + 1].base
      BY <1>1, <2>1 DEF Apart
    <2> QED
      BY <2>2 DEF EndOf
  <1> QED
    BY <1>2 DEF HolesApart

\* free_mem and merge keep the list sorted and leave no two holes that touch
\* (alloc.c:139-141, 201-231).
THEOREM HolesStayApart == Spec => []HolesApart
  BY HolesApartState, Invariance, PTL

\* The invariant has the flags true.
LEMMA SwapFlagsState == IInv => SwapFlagsTrue
  <1> SUFFICES ASSUME IInv
               PROVE  SwapFlagsTrue
    OBVIOUS
  <1>1. \A p \in Procs : mproc[p] \in Process /\ FlagsOf(mproc[p])
    BY DEF IInv, Typed, FlagsAgree
  <1>2. \A p \in Living : p \in Procs /\ mproc[p].alive
    BY DEF Living
  <1>3. \A p \in Living : /\ mproc[p].onswap <=> mproc[p].base >= swap_base
                          /\ mproc[p].swapin => mproc[p].onswap
    BY <1>1, <1>2 DEF FlagsOf
  <1>4. ASSUME NEW p \in Procs, mproc[p].swapin
        PROVE  Cardinality({i \in 1..Len(in_queue) : in_queue[i] = p}) = 1
    <2>1. PICK k \in 1..Len(in_queue) : in_queue[k] = p
      BY <1>4 DEF IInv, QueueAgrees
    <2>2. {i \in 1..Len(in_queue) : in_queue[i] = p} = {k}
      BY <2>1 DEF IInv, QueueAgrees, NoRepeats
    <2> QED
      BY <2>2, FS_Singleton
  <1> QED
    BY <1>3, <1>4 DEF SwapFlagsTrue

\* ONSWAP tells where a process is (alloc.c:397, 452), and a process marked SWAPIN
\* is on swap and in the queue exactly once (alloc.c:350-356).
THEOREM SwapFlagsStayTrue == Spec => []SwapFlagsTrue
  BY SwapFlagsState, Invariance, PTL


-----------------------------------------------------------------------------
(* The table is big enough                                                   *)

\* A hole ends where a process, the end of a chunk or that of the swap area is.
LEMMA HoleEnds ==
    ASSUME IInv, NEW i \in 1..Len(holes)
    PROVE  \/ \E p \in Procs : EndOf(holes[i]) = mproc[p].base
           \/ \E j \in 1..Len(Chunks) : EndOf(holes[i]) = EndOf(Chunks[j])
           \/ EndOf(holes[i]) = swap_base + SwapSize
  <1> DEFINE e == EndOf(holes[i])
             F == FreeClicks(holes)
  <1>1. /\ Apart(holes) /\ holes \in Seq(Holes) /\ Len(holes) \in Nat
        /\ mproc \in [Procs -> Process] /\ ClicksAccounted
    BY LenProperties DEF IInv, Typed, Apart
  <1>2. \A k \in 1..Len(holes) : /\ holes[k].base \in Nat /\ EndOf(holes[k]) \in Nat
                                 /\ holes[k].base < EndOf(holes[k])
    BY <1>1, HoleNumbers
  <1>3. \A m, n \in 1..Len(holes) : m < n => EndOf(holes[m]) < holes[n].base
    BY <1>1 DEF Apart
  <1>4. \A c \in Nat : c \in F <=>
            \E k \in 1..Len(holes) : holes[k].base <= c /\ c < EndOf(holes[k])
    BY <1>1, FreeClick
  <1>5. e \in Nat \ {0} /\ e - 1 \in Nat /\ e - 1 \in F
    <2>1. holes[i].base \in Nat /\ e \in Nat /\ holes[i].base < e
      BY <1>2
    <2>2. e - 1 \in Nat /\ holes[i].base <= e - 1 /\ e - 1 < e /\ e # 0
      BY <2>1
    <2> HIDE DEF F
    <2> QED
      BY <1>4, <2>1, <2>2
  <1> HIDE DEF F
  <1>6. e \notin F
    <2>1. SUFFICES ASSUME NEW k \in 1..Len(holes), holes[k].base <= e, e < EndOf(holes[k])
                   PROVE  FALSE
      BY <1>4, <1>5
    <2>2. CASE k < i
      <3>1. EndOf(holes[k]) < holes[i].base /\ holes[i].base < e
        BY <1>2, <1>3, <2>2
      <3> QED
        BY <1>2, <1>5, <2>1, <3>1
    <2>3. CASE k > i
      <3>1. e < holes[k].base
        BY <1>1, <1>3, <2>3
      <3> QED
        BY <1>2, <1>5, <2>1, <3>1
    <2>4. CASE k = i
      BY <1>5, <2>1, <2>4
    <2> QED
      BY <1>1, <2>2, <2>3, <2>4
  <1> HIDE DEF e
  <1>7. CASE e \in MemoryClicks \cup SwapClicks
    <2>1. PICK p \in Living : e \in Block(p)
      BY <1>1, <1>6, <1>7 DEF ClicksAccounted, F
    <2>2. p \in Procs /\ mproc[p].base \in Nat /\ mproc[p].size \in Nat
      BY <1>1 DEF Living, Process
    <2>3. \A c \in Nat : c \in Block(p) <=> mproc[p].base <= c /\ c < mproc[p].base + mproc[p].size
      BY <2>2 DEF Block, Span
    <2>4. e - 1 \notin Block(p)
      BY <1>1, <1>5 DEF ClicksAccounted, F
    <2>5. e = mproc[p].base
      BY <1>5, <2>1, <2>2, <2>3, <2>4
    <2> QED
      BY <2>2, <2>5 DEF e
  <1>8. CASE e \notin MemoryClicks \cup SwapClicks
    <2>1. e - 1 \in MemoryClicks \cup SwapClicks
      BY <1>1, <1>5, ClickPlaces DEF F
    <2>2. CASE e - 1 \in MemoryClicks
      <3>1. PICK j \in DOMAIN Chunks : e - 1 \in Span(Chunks[j].base, Chunks[j].len)
        BY <2>2 DEF MemoryClicks
      <3>2. e \notin Span(Chunks[j].base, Chunks[j].len)
        BY <1>8 DEF MemoryClicks
      <3>3. j \in 1..Len(Chunks) /\ Chunks[j].base \in Nat /\ Chunks[j].len \in Nat
        BY ChunksAssumption, HoleNumbers DEF Holes
      <3>4. e = Chunks[j].base + Chunks[j].len
        BY <1>5, <3>1, <3>2, <3>3 DEF Span
      <3> QED
        BY <3>3, <3>4 DEF EndOf, e
    <2>3. CASE e - 1 \in SwapClicks
      <3>1. SwapClicks = Span(swap_base, SwapSize)
        BY <2>3 DEF SwapClicks
      <3>2. swap_base \in Nat /\ SwapSize \in Nat
        BY SwapBase, MemoryAssumption
      <3>3. e = swap_base + SwapSize
        BY <1>5, <1>8, <2>3, <3>1, <3>2 DEF Span
      <3> QED
        BY <3>3 DEF e
    <2> QED
      BY <2>1, <2>2, <2>3
  <1> QED
    BY <1>7, <1>8

\* There are no more holes than processes, chunks and swap areas to end at.
LEMMA TableHolds ==
    ASSUME IInv
    PROVE  Len(holes) <= NR_PROCS + Len(Chunks) + 1
  <1> DEFINE H == 1..Len(holes)
             N == NR_PROCS + Len(Chunks) + 1
             K == [k \in 1..N |->
                      IF k <= NR_PROCS THEN mproc[k].base
                      ELSE IF k = N THEN swap_base + SwapSize
                      ELSE EndOf(Chunks[k - NR_PROCS])]
             g == [i \in H |-> CHOOSE k \in 1..N : K[k] = EndOf(holes[i])]
  <1>1. /\ Len(holes) \in Nat /\ NR_PROCS \in Nat \ {0} /\ Len(Chunks) \in Nat
        /\ Apart(holes) /\ holes \in Seq(Holes)
    BY LenProperties, MemoryAssumption, ChunksAssumption DEF IInv, Typed, Apart
  <1>2. N \in Nat
    BY <1>1
  <1>3. ASSUME NEW i \in H
        PROVE  \E k \in 1..N : K[k] = EndOf(holes[i])
    <2>1. ASSUME NEW p \in Procs, EndOf(holes[i]) = mproc[p].base
          PROVE  \E k \in 1..N : K[k] = EndOf(holes[i])
      <3>1. p \in 1..N /\ p <= NR_PROCS
        BY <1>1 DEF Procs
      <3>2. K[p] = mproc[p].base
        BY <3>1
      <3> QED
        BY <2>1, <3>1, <3>2
    <2>2. ASSUME NEW j \in 1..Len(Chunks), EndOf(holes[i]) = EndOf(Chunks[j])
          PROVE  \E k \in 1..N : K[k] = EndOf(holes[i])
      <3> DEFINE k == NR_PROCS + j
      <3>1. k \in 1..N /\ ~(k <= NR_PROCS) /\ k # N /\ k - NR_PROCS = j
        BY <1>1
      <3> HIDE DEF k, N
      <3>2. K[k] = EndOf(Chunks[j])
        BY <3>1
      <3> QED
        BY <2>2, <3>1, <3>2
    <2>3. CASE EndOf(holes[i]) = swap_base + SwapSize
      <3>1. N \in 1..N /\ ~(N <= NR_PROCS)
        BY <1>1
      <3> HIDE DEF N
      <3>2. K[N] = swap_base + SwapSize
        BY <3>1
      <3> QED
        BY <2>3, <3>1, <3>2
    <2> HIDE DEF K
    <2> QED
      BY <2>1, <2>2, <2>3, HoleEnds
  <1> HIDE DEF K, N
  <1>4. g \in [H -> 1..N] /\ \A i \in H : K[g[i]] = EndOf(holes[i])
    BY <1>3
  <1>5. \A i, j \in H : EndOf(holes[i]) = EndOf(holes[j]) => i = j
    <2>1. SUFFICES ASSUME NEW i \in H, NEW j \in H, i < j
                   PROVE  EndOf(holes[i]) # EndOf(holes[j])
      BY <1>1
    <2>2. EndOf(holes[i]) < holes[j].base
      BY <1>1, <2>1 DEF Apart
    <2>3. /\ holes[j].base < EndOf(holes[j]) /\ holes[j].base \in Nat
          /\ EndOf(holes[i]) \in Nat /\ EndOf(holes[j]) \in Nat
      BY <1>1, HoleNumbers
    <2> QED
      BY <2>2, <2>3
  <1> HIDE DEF g
  <1>6. g \in Injection(H, 1..N)
    BY <1>4, <1>5 DEF Injection, IsInjective
  <1>7. IsFiniteSet(1..N) /\ Cardinality(1..N) = N
    BY <1>2, FS_Interval
  <1>8. Cardinality(H) = Len(holes)
    <2>1. Cardinality(H) = IF 1 > Len(holes) THEN 0 ELSE Len(holes) - 1 + 1
      <3>1. 1 \in Int /\ Len(holes) \in Int
        BY <1>1
      <3> QED
        BY ONLY <3>1, FS_Interval DEF H
    <2> HIDE DEF H
    <2> QED
      BY <1>1, <2>1
  <1>9. Cardinality(H) <= Cardinality(1..N)
    BY <1>6, <1>7, FS_Injection
  <1> QED
    BY <1>7, <1>8, <1>9 DEF N

\* Every variable has its type, and the hole table is never full, if it has an
\* entry more than there are processes, chunks and swap areas: MINIX has two
\* entries for each slot of the process table (alloc.c:24).
THEOREM TypeCorrect ==
    ASSUME NR_HOLES > NR_PROCS + Len(Chunks) + 1
    PROVE  Spec => []TypeOK
  <1>1. IInv => TypeOK
    <2> SUFFICES ASSUME IInv
                 PROVE  TypeOK
      OBVIOUS
    <2>1. Typed
      BY DEF IInv
    <2>2. /\ Apart(holes) /\ holes \in Seq(Holes) /\ mproc \in [Procs -> Process]
          /\ ClicksAccounted /\ Len(holes) \in Nat
      BY <2>1, LenProperties DEF Typed, Apart, IInv
    <2>3. Len(holes) < NR_HOLES
      <3>1. Len(holes) <= NR_PROCS + Len(Chunks) + 1
        BY TableHolds
      <3>2. Len(Chunks) \in Nat /\ NR_PROCS \in Nat /\ NR_HOLES \in Nat
        BY ChunksAssumption, MemoryAssumption, LenProperties
      <3> QED
        BY <2>2, <3>1, <3>2
    <2>4. ASSUME NEW i \in 1..Len(holes)
          PROVE  holes[i] \in [base : Clicks, len : Clicks \ {0}]
      <3> DEFINE b == holes[i].base
                 n == holes[i].len
                 top == swap_base + SwapSize
      <3>1. /\ b \in Nat /\ n \in Nat \ {0} /\ holes[i] \in Holes
            /\ EndOf(holes[i]) = b + n
        BY <2>2, HoleNumbers DEF EndOf
      <3>2. top \in Nat /\ swap_base \in Nat /\ SwapSize \in Nat /\ top = swap_base + SwapSize
        BY SwapBase, MemoryAssumption
      <3>3. \A c \in FreeClicks(holes) : c \in Nat /\ c < top
        <4>1. SUFFICES ASSUME NEW c \in FreeClicks(holes)
                       PROVE  c \in Nat /\ c < top
          OBVIOUS
        <4>2. /\ c \in MemoryClicks \cup SwapClicks /\ c \in Nat
              /\ c \in MemoryClicks => c < swap_base
              /\ c \in SwapClicks => c < swap_base + SwapSize
          BY <2>2, ClickPlaces
        <4> QED
          BY <3>2, <4>2
      <3> HIDE DEF b, n, top
      <3>4. b + n - 1 \in FreeClicks(holes)
        <4>1. b <= b + n - 1 /\ b + n - 1 < b + n /\ b + n - 1 \in Nat
          BY <3>1
        <4> QED
          BY <2>2, <3>1, <4>1, FreeClick DEF b
      <3>5. b + n - 1 < top
        BY <3>3, <3>4
      <3>6. b \in Clicks /\ n \in Clicks \ {0}
        BY <3>1, <3>2, <3>5 DEF Clicks, top
      <3> QED
        BY <3>1, <3>6 DEF Holes, b, n
    <2> QED
      BY <2>1, <2>3, <2>4 DEF TypeOK, Typed, Mode
  <1> QED
    BY <1>1, Invariance, PTL


-----------------------------------------------------------------------------
(* Every call ends                                                           *)

Round == NR_PROCS + 3
InMemory(m) == Cardinality({p \in Procs : ~m[p].onswap})
Pass(q) == 1 + Round * Len(q)
Rest(q, c) == 1 + Round * (Len(q) + 1 - c)
After(m, q) == IF m.off THEN Pass(q) ELSE 0

\* The measure, by what the memory manager is at.
StepsOf(m, q, procs) ==
    IF m.at = "fork" THEN Pass(q) + 1 + InMemory(procs)
    ELSE IF m.at = "scan" THEN Rest(q, m.cursor) + After(m, q)
    ELSE IF m.at = "refill"
         THEN Rest(q, m.cursor) - (NR_PROCS + 2) + InMemory(procs) + After(m, q)
    ELSE 0

\* StepsLeft by parts.
LEMMA StepsLeftIs ==
    /\ StepsLeft = StepsOf(mode, in_queue, mproc)
    /\ StepsLeft' = StepsOf(mode', in_queue', mproc')
  <1>1. StepsLeft = StepsOf(mode, in_queue, mproc)
    BY DEF StepsLeft, StepsOf, Pass, Rest, After, InMemory, Round
  <1>2. StepsLeft' = StepsOf(mode', in_queue', mproc')
    BY DEF StepsLeft, StepsOf, Pass, Rest, After, InMemory, Round, Procs
  <1> QED
    BY <1>1, <1>2

\* No more processes are in memory than there are.
LEMMA InMemoryBounds ==
    ASSUME NEW m
    PROVE  InMemory(m) \in 0..NR_PROCS
  <1> DEFINE S == {p \in Procs : ~m[p].onswap}
  <1>1. S \in SUBSET Procs
    OBVIOUS
  <1>2. IsFiniteSet(S) /\ Cardinality(S) <= NR_PROCS
    BY <1>1, ProcsFinite, FS_Subset
  <1>3. Cardinality(S) \in Nat
    BY <1>2, FS_CardinalityType
  <1> QED
    BY <1>2, <1>3, ProcsFinite DEF InMemory

\* A process that is swapped out is one less in memory.
LEMMA InMemoryLess ==
    ASSUME NEW m, NEW n, NEW p \in Procs, ~m[p].onswap, n[p].onswap,
           \A q \in Procs : q # p => n[q].onswap = m[q].onswap
    PROVE  InMemory(n) = InMemory(m) - 1
  <1> DEFINE S == {q \in Procs : ~m[q].onswap}
             R == {q \in Procs : ~n[q].onswap}
  <1>1. R = S \ {p} /\ p \in S
    OBVIOUS
  <1>2. S \in SUBSET Procs
    OBVIOUS
  <1> HIDE DEF S, R
  <1>3. IsFiniteSet(S)
    BY <1>2, ProcsFinite, FS_Subset
  <1>4. Cardinality(R) = Cardinality(S) - 1
    BY <1>1, <1>3, FS_RemoveElement
  <1> QED
    BY <1>4 DEF InMemory, S, R

\* What is left of the queue, one entry further and one entry shorter.
LEMMA RestSteps ==
    ASSUME NEW q \in Seq(Procs), NEW c \in 1..Len(q) + 1
    PROVE  /\ Rest(q, c) \in Nat \ {0} /\ Pass(q) \in Nat \ {0}
           /\ Rest(q, 1) = Pass(q)
           /\ c = Len(q) + 1 => Rest(q, c) = 1
           /\ c <= Len(q) =>
                  /\ Rest(q, c) > Round /\ Rest(q, c + 1) = Rest(q, c) - Round
                  /\ \A r \in Seq(Procs) : Len(r) = Len(q) - 1 =>
                         Rest(r, c) = Rest(q, c) - Round /\ Pass(r) = Pass(q) - Round
           /\ Round = NR_PROCS + 3 /\ Round \in Nat
  <1> DEFINE L == Len(q)
             R == Round
  <1>1. L \in Nat /\ c \in Nat \ {0} /\ R \in Nat /\ L + 1 - c \in Nat
    BY LenProperties, MemoryAssumption DEF Round
  <1>2. \A a \in Nat : R * (a + 1) = R * a + R
    <2> HIDE DEF R
    <2> QED
      BY <1>1
  <1>3. \A a \in Nat : R * a \in Nat
    <2> HIDE DEF R
    <2> QED
      BY <1>1
  <1>4. R * 0 = 0
    <2> HIDE DEF R
    <2> QED
      BY <1>1
  <1> HIDE DEF R, L
  <1>5. /\ \A x : Rest(q, x) = 1 + R * (L + 1 - x)
        /\ Pass(q) = 1 + R * L
    BY DEF Rest, Pass, R, L
  <1>6. Rest(q, c) \in Nat \ {0} /\ Pass(q) \in Nat \ {0}
    <2>1. R * (L + 1 - c) \in Nat /\ R * L \in Nat
      BY <1>1, <1>3
    <2> QED
      BY <1>5, <2>1
  <1>7. Rest(q, 1) = Pass(q)
    <2>1. L + 1 - 1 = L
      BY <1>1
    <2> QED
      BY <1>5, <2>1
  <1>8. ASSUME c = L + 1
        PROVE  Rest(q, c) = 1
    <2>1. L + 1 - c = 0
      BY <1>1, <1>8
    <2> QED
      BY <1>4, <1>5, <2>1
  <1>9. ASSUME c <= L
        PROVE  Rest(q, c) > R /\ Rest(q, c + 1) = Rest(q, c) - R
    <2> DEFINE a == L + 1 - (c + 1)
    <2>1. a \in Nat /\ L + 1 - c = a + 1
      BY <1>1, <1>9
    <2>2. Rest(q, c + 1) = 1 + R * a /\ Rest(q, c) = 1 + R * (a + 1)
      BY <1>5, <2>1
    <2> HIDE DEF a
    <2>3. R * (a + 1) = R * a + R /\ R * a \in Nat
      BY <1>2, <1>3, <2>1
    <2> DEFINE X == R * a
               Y == R * (a + 1)
    <2> HIDE DEF X, Y
    <2>4. Rest(q, c + 1) = 1 + X /\ Rest(q, c) = 1 + Y /\ Y = X + R /\ X \in Nat
      BY <2>2, <2>3 DEF X, Y
    <2> QED
      BY <1>1, <2>4
  <1>10. ASSUME c <= L, NEW r \in Seq(Procs), Len(r) = L - 1
         PROVE  Rest(r, c) = Rest(q, c) - R /\ Pass(r) = Pass(q) - R
    <2>1. Rest(r, c) = 1 + R * (Len(r) + 1 - c) /\ Pass(r) = 1 + R * Len(r)
      BY DEF Rest, Pass, R
    <2>2. Len(r) + 1 - c = L + 1 - (c + 1) /\ Len(r) \in Nat /\ L = Len(r) + 1
      BY <1>1, <1>10
    <2>3. Rest(r, c) = Rest(q, c + 1)
      BY <1>5, <2>1, <2>2
    <2> DEFINE X == R * Len(r)
    <2>4. R * L = X + R /\ X \in Nat
      BY <1>2, <1>3, <2>2
    <2> HIDE DEF X
    <2>5. Pass(q) = 1 + (X + R) /\ Pass(r) = 1 + X
      BY <1>5, <2>1, <2>4 DEF X
    <2>6. Pass(r) = Pass(q) - R
      BY <1>1, <2>4, <2>5
    <2> QED
      BY <1>9, <1>10, <2>3, <2>6
  <1>11. R = NR_PROCS + 3
    BY DEF R, Round
  <1> QED
    BY <1>1, <1>6, <1>7, <1>8, <1>9, <1>10, <1>11 DEF L, R


\* A step of a call gets it nearer to its end.
LEMMA StepEnds ==
    ASSUME IInv, Next, mode # Idle
    PROVE  StepsLeft' \in Nat /\ StepsLeft' < StepsLeft
  <1> DEFINE q == in_queue
             c == mode.cursor
             A == After(mode, q)
             M == InMemory(mproc)
  <1>1. /\ mproc \in [Procs -> Process] /\ q \in Seq(Procs) /\ mode \in Mode
        /\ Len(q) \in Nat /\ mode.off \in BOOLEAN /\ c \in Nat /\ outswap \in Procs
    BY LenProperties DEF IInv, Typed, Mode
  <1>2. mode.at \in {"fork", "scan", "refill"}
    <2>1. mode.at \in {"idle", "fork", "scan", "refill", "lost"}
      BY <1>1 DEF Mode
    <2>2. mode.at # "idle"
      BY DEF IInv, ModeAgrees
    <2>3. mode.at # "lost"
      <3>1. SUFFICES ASSUME mode.at = "lost"
                     PROVE  FALSE
        OBVIOUS
      <3> QED
        BY <3>1 DEF Next, AllocForFork, AllocForSwapIn, SwapOut, NoMem, Allocating, Scan, ScanDone,
                    SwapOffDone, swap_on, swap_off, do_worst_fit, Fork, Exit, Pause, Wake
    <2> QED
      BY <2>1, <2>2, <2>3
  <1>3. IInv'
    BY NextKeeps
  <1>4. /\ StepsLeft = StepsOf(mode, q, mproc)
        /\ StepsLeft' = StepsOf(mode', q', mproc')
    BY StepsLeftIs
  <1>5. M \in 0..NR_PROCS /\ InMemory(mproc') \in 0..NR_PROCS /\ NR_PROCS \in Nat
    BY InMemoryBounds, ProcsFinite
  <1>6. /\ Pass(q) \in Nat \ {0} /\ Rest(q, 1) = Pass(q)
        /\ Round = NR_PROCS + 3
    <2>1. 1 \in 1..Len(q) + 1
      BY <1>1
    <2> QED
      BY <1>1, <2>1, RestSteps
  <1>7. A \in Nat /\ (~mode.off => A = 0) /\ (mode.off => A = Pass(q))
    BY <1>6 DEF After
  <1>8. ASSUME NEW d \in 1..Len(q') + 1, q' \in Seq(Procs)
        PROVE  Rest(q', d) \in Nat \ {0} /\ Pass(q') \in Nat \ {0} /\ Rest(q', 1) = Pass(q')
    BY <1>8, RestSteps
  <1>9. ASSUME NEW x \in Nat, NEW off \in BOOLEAN, mode' = Scanning(x, off)
        PROVE  StepsLeft' = Rest(q', x) + IF off THEN Pass(q') ELSE 0
    <2>1. mode'.at = "scan" /\ mode'.cursor = x /\ mode'.off = off
      BY <1>9, Modes
    <2> QED
      BY <1>4, <2>1 DEF StepsOf, After
  <1>10. ASSUME Served, q' = q
         PROVE  StepsLeft' = Pass(q)
    <2>1. StepsLeft' = Rest(q', 1) + 0
      BY <1>9, <1>10 DEF Served
    <2> HIDE DEF q
    <2> QED
      BY <1>6, <1>10, <2>1
  <1>11. mode.at = "fork" => StepsLeft = Pass(q) + 1 + M
    BY <1>4 DEF StepsOf
  <1>12. mode.at = "scan" => StepsLeft = Rest(q, c) + A /\ c \in 1..Len(q) + 1
    BY <1>4 DEF StepsOf, IInv, ModeAgrees
  <1>13. mode.at = "refill" => /\ StepsLeft = Rest(q, c) - (NR_PROCS + 2) + M + A
                               /\ c \in 1..Len(q)
    BY <1>4 DEF StepsOf, IInv, ModeAgrees
  <1>14. ASSUME c \in 1..Len(q) + 1
         PROVE  /\ Rest(q, c) \in Nat \ {0}
                /\ c = Len(q) + 1 => Rest(q, c) = 1
                /\ c <= Len(q) =>
                       /\ Rest(q, c) > Round /\ Rest(q, c + 1) = Rest(q, c) - Round
                       /\ \A r \in Seq(Procs) : Len(r) = Len(q) - 1 =>
                              Rest(r, c) = Rest(q, c) - Round /\ Pass(r) = Pass(q) - Round
    BY <1>1, <1>14, RestSteps
  <1> HIDE DEF A, M
  <1>15. CASE AllocForFork
    <2>1. mode.at = "fork" /\ Served /\ q' = q
      BY <1>15 DEF AllocForFork
    <2> QED
      BY <1>5, <1>6, <1>10, <1>11, <2>1
  <1>16. CASE NoMem /\ mode.at = "fork"
    <2>1. Served /\ q' = q
      BY <1>16 DEF NoMem
    <2> QED
      BY <1>5, <1>6, <1>10, <1>11, <1>16, <2>1
  <1>17. CASE NoMem /\ mode.at = "refill"
    <2>1. mode' = Scanning(c + 1, mode.off) /\ q' = q
      BY <1>17 DEF NoMem
    <2>2. StepsLeft' = Rest(q, c + 1) + A
      <3>1. c + 1 \in Nat
        BY <1>1
      <3>2. StepsLeft' = Rest(q', c + 1) + IF mode.off THEN Pass(q') ELSE 0
        BY <1>1, <1>9, <2>1, <3>1
      <3> HIDE DEF q
      <3> QED
        BY <1>7, <2>1, <3>2
    <2>3. /\ c \in 1..Len(q) + 1 /\ c <= Len(q)
      BY <1>1, <1>13, <1>17
    <2>4. Rest(q, c) > Round /\ Rest(q, c + 1) = Rest(q, c) - Round /\ Rest(q, c) \in Nat
      BY <1>14, <2>3
    <2> HIDE DEF q, c
    <2> QED
      BY SMTT(30), <1>5, <1>6, <1>7, <1>13, <1>17, <2>2, <2>4
  <1>18. CASE SwapOut
    <2> DEFINE p == Victim
    <2>1. UNCHANGED <<in_queue, mode>>
      BY <1>18 DEF SwapOut
    <2>2. /\ p \in Procs /\ ~mproc[p].onswap /\ mproc'[p].onswap
          /\ \A r \in Procs : r # p => mproc'[r].onswap = mproc[r].onswap
      <3>1. p \in Victims
        BY <1>1, <1>18, VictimIsOne DEF SwapOut
      <3>2. p \in Procs /\ ~mproc[p].onswap
        BY <3>1 DEF Victims
      <3>3. mproc[p] \in Process
        BY <1>1, <3>2
      <3> QED
        BY <1>1, <1>18, <3>2, <3>3 DEF SwapOut, Process
    <2> HIDE DEF p
    <2>3. InMemory(mproc') = M - 1
      BY <2>2, InMemoryLess DEF M
    <2>4. CASE mode.at = "fork"
      <3>1. StepsLeft' = Pass(q) + 1 + InMemory(mproc')
        BY <1>4, <2>1, <2>4 DEF StepsOf
      <3> QED
        BY <1>5, <1>6, <1>11, <2>3, <2>4, <3>1
    <2>5. CASE mode.at = "refill"
      <3>1. StepsLeft' = Rest(q, c) - (NR_PROCS + 2) + InMemory(mproc') + A
        BY <1>4, <2>1, <2>5 DEF StepsOf, A
      <3>2. c \in 1..Len(q) + 1 /\ c <= Len(q)
        BY <1>1, <1>13, <2>5
      <3>3. Rest(q, c) > Round /\ Rest(q, c) \in Nat
        BY <1>14, <3>2
      <3> HIDE DEF q, c
      <3> QED
        BY SMTT(30), <1>5, <1>6, <1>7, <1>13, <2>3, <2>5, <3>1, <3>3
    <2> QED
      BY <1>18, <2>4, <2>5 DEF SwapOut, Allocating
  <1>19. ASSUME c \in 1..Len(q), q' \in Seq(Procs), Len(q') = Len(q) - 1,
                mode' = Scanning(c, mode.off)
         PROVE  /\ StepsLeft' = Rest(q', c) + IF mode.off THEN Pass(q') ELSE 0
                /\ Rest(q', c) = Rest(q, c) - Round /\ Pass(q') = Pass(q) - Round
                /\ Rest(q', c) \in Nat /\ Pass(q') \in Nat
                /\ Rest(q, c) \in Nat
    <2>1. c \in 1..Len(q) + 1 /\ c <= Len(q) /\ c \in 1..Len(q') + 1
      BY <1>1, <1>19
    <2>2. Rest(q', c) = Rest(q, c) - Round /\ Pass(q') = Pass(q) - Round
      BY <1>14, <1>19, <2>1
    <2>3. Rest(q', c) \in Nat /\ Pass(q') \in Nat
      BY <1>8, <1>19, <2>1
    <2>4. Rest(q, c) \in Nat
      BY <1>14, <2>1
    <2> QED
      BY <1>1, <1>9, <1>19, <2>2, <2>3, <2>4
  <1>20. ASSUME c \in 1..Len(q), in_queue' = SubSeq(q, 1, c - 1) \o SubSeq(q, c + 1, Len(q))
         PROVE  q' \in Seq(Procs) /\ Len(q') = Len(q) - 1
    <2>1. q' = del_slot(q, c)
      BY <1>20 DEF del_slot
    <2>2. del_slot(q, c) \in Seq(Procs) /\ Len(del_slot(q, c)) = Len(q) - 1
      BY <1>1, <1>20, DelSlot
    <2> QED
      BY <2>1, <2>2
  <1>21. CASE AllocForSwapIn
    <2>1. /\ mode.at = "refill" /\ mode' = Scanning(c, mode.off)
          /\ in_queue' = SubSeq(q, 1, c - 1) \o SubSeq(q, c + 1, Len(q))
      BY <1>21 DEF AllocForSwapIn
    <2>2. c \in 1..Len(q)
      BY <1>13, <2>1
    <2>3. q' \in Seq(Procs) /\ Len(q') = Len(q) - 1
      BY <1>20, <2>1, <2>2
    <2>4. /\ StepsLeft' = Rest(q', c) + IF mode.off THEN Pass(q') ELSE 0
          /\ Rest(q', c) = Rest(q, c) - Round /\ Pass(q') = Pass(q) - Round
          /\ Rest(q', c) \in Nat /\ Pass(q') \in Nat
          /\ Rest(q, c) \in Nat
      BY <1>19, <2>1, <2>2, <2>3
    <2>5. StepsLeft = Rest(q, c) - (NR_PROCS + 2) + M + A
      BY <1>13, <2>1
    <2> HIDE DEF q, c
    <2> QED
      BY <1>5, <1>6, <1>7, <2>4, <2>5
  <1>22. CASE Scan
    <2>1. mode.at = "scan" /\ c \in 1..Len(q) /\ mproc' = mproc
      BY <1>1, <1>12, <1>22 DEF Scan
    <2>2. c \in 1..Len(q) + 1 /\ c <= Len(q)
      BY <1>1, <2>1
    <2>3. StepsLeft = Rest(q, c) + A /\ Rest(q, c) > Round /\ Rest(q, c) \in Nat
      BY <1>12, <1>14, <2>1, <2>2
    <2>4. CASE /\ in_queue' = SubSeq(q, 1, c - 1) \o SubSeq(q, c + 1, Len(q))
               /\ mode' = mode
      <3>1. q' \in Seq(Procs) /\ Len(q') = Len(q) - 1
        BY <1>20, <2>1, <2>4
      <3>2. Rest(q', c) = Rest(q, c) - Round /\ Pass(q') = Pass(q) - Round
        BY <1>14, <2>2, <3>1
      <3>3. c \in 1..Len(q') + 1
        BY <1>1, <2>1, <3>1
      <3>4. Rest(q', c) \in Nat /\ Pass(q') \in Nat
        BY <1>8, <3>1, <3>3
      <3>5. StepsLeft' = Rest(q', c) + IF mode.off THEN Pass(q') ELSE 0
        BY <1>4, <2>1, <2>4 DEF StepsOf, After
      <3> HIDE DEF q, c
      <3> QED
        BY <1>5, <1>6, <1>7, <2>3, <3>2, <3>4, <3>5
    <2>5. CASE /\ mode' = Refilling(q[c], c, mode.off) /\ in_queue' = in_queue
      <3>1. mode'.at = "refill" /\ mode'.cursor = c /\ mode'.off = mode.off
        BY <2>5, Modes
      <3>2. StepsLeft' = Rest(q', c) - (NR_PROCS + 2) + InMemory(mproc')
                         + IF mode.off THEN Pass(q') ELSE 0
        BY <1>4, <3>1 DEF StepsOf, After
      <3>3. q' = q /\ InMemory(mproc') = M
        BY <2>1, <2>5 DEF M
      <3> HIDE DEF q, c
      <3>4. StepsLeft' = Rest(q, c) - (NR_PROCS + 2) + M + A
        BY <1>7, <3>2, <3>3
      <3> QED
        BY <1>5, <1>6, <1>7, <2>3, <3>4
    <2> QED
      BY <1>22, <2>4, <2>5 DEF Scan
  <1>23. CASE ScanDone
    <2>1. mode.at = "scan" /\ ~mode.off /\ c > Len(q) /\ mode' = Idle
      BY <1>23 DEF ScanDone
    <2>2. StepsLeft' = 0
      <3>1. mode'.at = "idle"
        BY <2>1, Modes
      <3> QED
        BY <1>4, <3>1 DEF StepsOf
    <2>3. StepsLeft = Rest(q, c) + A /\ Rest(q, c) \in Nat \ {0}
      BY <1>12, <1>14, <2>1
    <2> QED
      BY <1>7, <2>2, <2>3
  <1>24. CASE SwapOffDone
    <2>1. mode.at = "scan" /\ mode.off /\ c > Len(q) /\ q' = q
      BY <1>24 DEF SwapOffDone
    <2>2. StepsLeft = Rest(q, c) + A /\ Rest(q, c) \in Nat \ {0}
      BY <1>12, <1>14, <2>1
    <2>3. Served \/ mode' = Lost
      BY <1>24 DEF SwapOffDone
    <2>4. CASE Served
      <3>1. StepsLeft' = Pass(q)
        BY <1>10, <2>1, <2>4
      <3> HIDE DEF q, c
      <3> QED
        BY <1>6, <1>7, <2>1, <2>2, <3>1
    <2>5. CASE mode' = Lost
      <3>1. mode'.at = "lost"
        BY <2>5, Modes
      <3>2. StepsLeft' = 0
        BY <1>4, <3>1 DEF StepsOf
      <3> HIDE DEF q, c
      <3> QED
        BY <1>7, <2>2, <3>2
    <2> QED
      BY <2>3, <2>4, <2>5
  <1>25. \/ AllocForFork \/ AllocForSwapIn \/ SwapOut \/ NoMem \/ Scan \/ ScanDone \/ SwapOffDone
    BY DEF Next, swap_on, swap_off, do_worst_fit, Fork, Exit, Pause, Wake
  <1>26. NoMem => mode.at \in {"fork", "refill"}
    BY DEF NoMem, Allocating
  <1> QED
    BY <1>15, <1>16, <1>17, <1>18, <1>21, <1>22, <1>23, <1>24, <1>25, <1>26

\* Every call ends (the loops of alloc_mem, alloc.c:87-125, and of swap_in,
\* alloc.c:372-403): whatever is swapped out and in on the way, each step of a
\* call gets it nearer to its end.
THEOREM CallsDoEnd == Spec => CallsEnd
  <1>1. IInv /\ [Next]_vars => [mode # Idle => StepsLeft' \in Nat /\ StepsLeft' < StepsLeft]_vars
    BY StepEnds
  <1> QED
    BY <1>1, Invariance, PTL DEF Spec, CallsEnd

=============================================================================
