------------------------------ MODULE HoleList ------------------------------
(* The hole list of src/memory-management/src/mm/alloc.c: the free memory as *)
(* a linked list of holes, here the sequence of the holes in list order.     *)
(* The table slots that are in no list are those the sequence leaves over.   *)
EXTENDS Naturals, Sequences

Hole(base, len) == [base |-> base, len |-> len]

\* del_slot(): hole i leaves the list.
del_slot(h, i) == SubSeq(h, 1, i - 1) \o SubSeq(h, i + 1, Len(h))

\* Slip: a hole that is used up stays in the list.
BiteKeepingEmpty(h, i, clicks) ==
    [h EXCEPT ![i] = Hole(@.base + clicks, @.len - clicks)]

\* Biting `clicks` off the front of hole i, which goes when nothing is left of
\* it: what alloc_mem and swap_out both do with the hole they have chosen.
Bite(h, i, clicks) ==
    IF h[i].len = clicks THEN del_slot(h, i)
    ELSE [h EXCEPT ![i] = Hole(@.base + clicks, @.len - clicks)]

\* Hole i reaches as far as the next one begins.
Touches(h, i) ==
    /\ i < Len(h)
    /\ h[i].base + h[i].len = h[i + 1].base

\* The first absorbs the second.
Absorb(h, i) ==
    IF Touches(h, i)
    THEN del_slot([h EXCEPT ![i].len = @ + h[i + 1].len], i + 1)
    ELSE h

\* Slip: the second attempt made on the same hole whether it grew or not.
mergeTwiceInPlace(h, i) == Absorb(Absorb(h, i), i)

\* merge(): hole i and its two successors.
merge(h, i) ==
    LET next == IF Touches(h, i) THEN i ELSE i + 1
    IN  Absorb(Absorb(h, i), next)

\* How many holes the new one goes behind.
Before(h, base) == {i \in 1..Len(h) : h[i].base < base}

InsertHole(h, k, hole) == SubSeq(h, 1, k) \o <<hole>> \o SubSeq(h, k + 1, Len(h))

\* free_mem(): the block is put in its place and merged with its neighbours.
free_mem(h, base, clicks) ==
    LET k == IF Before(h, base) = {} THEN 0
             ELSE CHOOSE i \in Before(h, base) : i + 1 \notin Before(h, base)
    IN  IF clicks = 0 THEN h
        ELSE merge(InsertHole(h, k, Hole(base, clicks)), IF k = 0 THEN 1 ELSE k)

\* The holes that lie in memory and are big enough, and in the swap area.
MemoryFits(h, swap_base, clicks) ==
    {i \in 1..Len(h) : /\ \A j \in 1..i : h[j].base < swap_base
                       /\ h[i].len >= clicks}
SwapFits(h, swap_base, clicks) ==
    {i \in 1..Len(h) : h[i].base >= swap_base /\ h[i].len >= clicks}

First(S) == CHOOSE i \in S : \A j \in S : i <= j

\* findBiggestHole(): the first of the biggest ones.
Biggest(h, S) ==
    First({i \in S : \A j \in S : h[j].len <= h[i].len})

\* The clicks a hole or block covers.
Span(base, len) == base..(base + len - 1)

FreeClicks(h) == UNION {Span(h[i].base, h[i].len) : i \in 1..Len(h)}
=============================================================================
