------------------------------ MODULE ProcTree ------------------------------
(* The searches over MM's process table that the exercises of misc_dummy.c  *)
(* and the calls LONGESTCHILDLESSCHAIN and WHOLONGESTCHILDLESSCHAIN make.   *)
(* No state: every operator takes the table t as an argument.  Its slots    *)
(* are 0 .. NR_PROCS - 1, and a slot that is not in use keeps its fields.   *)
EXTENDS Integers, Sequences, FiniteSets, SequencesExt

CONSTANT NR_PROCS

ASSUME NrProcsAssumption == NR_PROCS \in Nat \ {0}

Slots == 0 .. NR_PROCS - 1

InUse(t, i) == "IN_USE" \in t[i].mp_flags

isChild(t, parentProc, candidate) ==
  InUse(t, candidate) /\ t[candidate].mp_parent = parentProc

procHasChildren(t, currentProc) == \E procNr \in Slots : isChild(t, currentProc, procNr)

---------------------------------------------------------------------------
(* The longest chain of descendants, on a stack *)

Entry == [proc : Slots, depth : Nat]

\* A full stack swallows what is pushed.
pushToStack(stack, entry) ==
  IF Len(stack) >= NR_PROCS THEN stack ELSE Append(stack, entry)

pushChildrenToStack(t, stack, currentProc, procDepth, excluded) ==
  LET push[i \in 0 .. NR_PROCS] ==
        IF i = 0 THEN stack
        ELSE IF isChild(t, currentProc, i - 1) /\ t[i - 1].mp_pid # excluded
          THEN pushToStack(push[i - 1], [proc |-> i - 1, depth |-> procDepth + 1])
          ELSE push[i - 1]
  IN push[NR_PROCS]

\* Slip: the depth of the last childless process.
DeeperLast(d, maxDepth) == d

Deeper(d, maxDepth) == IF d > maxDepth THEN d ELSE maxDepth

determinePathToChildless(t, start_proc, excluded) ==
  LET Search[stack \in Seq(Entry), visitedProcs \in SUBSET Slots, maxDepth \in Int] ==
        IF stack = <<>> THEN maxDepth
        ELSE
          LET rest == SubSeq(stack, 1, Len(stack) - 1)
              p == stack[Len(stack)].proc
              d == stack[Len(stack)].depth
          IN IF t[p].mp_pid = excluded \/ ~InUse(t, p) \/ p \in visitedProcs
               THEN Search[rest, visitedProcs, maxDepth]
             ELSE IF ~procHasChildren(t, p)
               THEN Search[rest, visitedProcs \cup {p}, Deeper(d, maxDepth)]
               ELSE Search[pushChildrenToStack(t, rest, p, d, excluded),
                           visitedProcs \cup {p}, maxDepth]
  IN Search[pushToStack(<<>>, [proc |-> start_proc, depth |-> 1]), {}, -1]

\* The loops that look for the first slot with the largest value: who and how
\* much, or -1 and -1 if no slot is a candidate.
FirstLargest(t, found) ==
  LET most == Max({-1} \cup {found[p] : p \in DOMAIN found})
  IN [most |-> most,
      who |-> IF most = -1 THEN -1
              ELSE t[Min({p \in DOMAIN found : found[p] = most})].mp_pid]

longestChildlessChain(t, excluded) ==
  FirstLargest(t, [p \in {p \in Slots : InUse(t, p) /\ t[p].mp_pid # excluded} |->
                     determinePathToChildless(t, p, excluded)])

---------------------------------------------------------------------------
(* The number of descendants, with a queue and by recursion *)

Queued(t, proc_nr, current_proc) ==
  {i \in Slots : InUse(t, i) /\ proc_nr # i /\ t[i].mp_parent = current_proc}

\* What a search writes past the end of its queue has no defined outcome.
OVERFLOW == -2

countAllDescendants(t, proc_nr) ==
  LET Count[queue \in Seq(Slots), start \in Nat] ==
        IF Len(queue) > NR_PROCS THEN OVERFLOW
        ELSE IF start = Len(queue) THEN Len(queue) - 1
        ELSE Count[queue \o SetToSortSeq(Queued(t, proc_nr, queue[start + 1]), <), start + 1]
  IN Count[<<proc_nr>>, 0]

\* Those on the last level are counted, but not queued.
countDescendants(t, proc_nr, N) ==
  LET Count[queue \in Seq(Entry), start \in Nat, descendants \in Nat] ==
        IF Len(queue) > NR_PROCS THEN OVERFLOW
        ELSE IF start = Len(queue) THEN descendants
        ELSE LET e == queue[start + 1]
                 found == SetToSortSeq(Queued(t, proc_nr, e.proc), <)
                 next == IF e.depth < N
                           THEN [i \in DOMAIN found |-> [proc |-> found[i], depth |-> e.depth + 1]]
                           ELSE <<>>
             IN Count[queue \o next, start + 1, descendants + Len(found)]
  IN Count[<<[proc |-> proc_nr, depth |-> 1]>>, 0, 0]

countDescendantsRecursive(t, proc_nr, N) ==
  LET Count[p \in Slots, curr_depth \in Nat] ==
        FoldSet(LAMBDA i, n : n + 1 + IF curr_depth < N THEN Count[i, curr_depth + 1] ELSE 0,
                0, Queued(t, p, p))
  IN Count[proc_nr, 1]

\* A <= descendants <= B as C reads it: the first comparison gives 0 or 1.
InBounds(descendants, A, B) == (IF A <= descendants THEN 1 ELSE 0) <= B

\* Slip: the upper bound itself is left out.
maxDescendantsBelow(t, A, B) ==
  FirstLargest(t, [p \in {p \in Slots : InUse(t, p) /\ countAllDescendants(t, p) \in A .. B - 1}
                     |-> countAllDescendants(t, p)])

maxDescendantsInBounds(t, A, B) ==
  FirstLargest(t, [p \in {p \in Slots : InUse(t, p) /\ InBounds(countAllDescendants(t, p), A, B)}
                     |-> countAllDescendants(t, p)])

maxNDescendants(t, N) ==
  FirstLargest(t, [p \in {p \in Slots : InUse(t, p)} |-> countDescendantsRecursive(t, p, N)])
=============================================================================
