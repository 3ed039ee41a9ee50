------------------------ MODULE ProcessTableProofs ------------------------
(* Theorems about ProcessTable, for a table of any size and any pids: the    *)
(* parents form a tree under MM, a process that waits can be woken, and the  *)
(* group calls find the process that lives under a pid.                      *)
(*                                                                           *)
(* The line of parents in TypeOK takes at most NR_PROCS - 1 steps.  What is  *)
(* shown to last is that no set of processes is closed under going to the    *)
(* parent (Rooted); that a line then ends at MM follows by counting          *)
(* (LineEnds).  MM's calls change the table in several steps - children      *)
(* given to INIT, a slot cleaned, a parent released - so the predicates are  *)
(* about any table t and each step has a lemma (TreeKept, ReleasedKeeps,     *)
(* GoneKeeps, MovedKeeps); between two of them one waiter may be excepted.   *)
EXTENDS ProcessTable, FiniteSetTheorems, WellFoundedInduction, TLAPS

\* A set of natural numbers has a least one.
LEMMA LeastOfNat ==
    ASSUME NEW S, S \subseteq Nat, S # {}
    PROVE  \E m \in S : \A n \in S : m <= n
  <1>1. PICK R : IsWellFoundedOn(R, Nat) /\ \A x, y \in Nat : x < y => <<x, y>> \in R
    <2>1. \A x, y \in Nat : x < y => <<x, y>> \in OpToRel(<, Nat)
      BY DEF OpToRel
    <2> QED
      BY <2>1, NatLessThanWellFounded
  <1>2. PICK x \in S : \A y \in S : ~(<<y, x>> \in R)
    <2>1. S \subseteq Nat /\ S # {} /\ IsWellFoundedOn(R, Nat)
      BY <1>1
    <2> QED
      BY <2>1, WFMin
  <1>3. \A y \in S : ~(y < x)
    BY <1>1, <1>2
  <1> QED
    BY <1>3

\* Min picks it, which is how the loops over a table find the first slot.
LEMMA MinIs ==
    ASSUME NEW S, S \subseteq Nat, S # {}
    PROVE  Min(S) \in S /\ \A n \in S : Min(S) <= n
  BY LeastOfNat DEF Min

\* The slots are numbers, MM's and INIT's among them.
LEMMA SlotNumbers ==
    /\ NR_PROCS \in Nat /\ NR_PROCS > 2 /\ Slots = 0 .. NR_PROCS - 1 /\ Slots \subseteq Nat
    /\ MM_PROC_NR \in Slots /\ INIT_PROC_NR \in Slots /\ INIT_PROC_NR # MM_PROC_NR
    /\ Users \subseteq Slots /\ MM_PROC_NR \notin Users
  <1>1. NR_PROCS \in Nat /\ NR_PROCS > 2
    BY NrProcsAssumption, InitAssumption DEF INIT_PROC_NR, Slots
  <1> QED
    BY <1>1, InitAssumption DEF INIT_PROC_NR, MM_PROC_NR, Slots, Users

\* Induction up to n: a set with 0 and with m + 1 for each m below n in it.
LEMMA UpTo ==
    ASSUME NEW n \in Nat, NEW S,
           0 \in S, \A m \in 0..n : m # n /\ m \in S => m + 1 \in S
    PROVE  \A m \in 0..n : m \in S
  <1> DEFINE Bad == {m \in 0..n : m \notin S}
  <1>1. SUFFICES ASSUME Bad # {} PROVE FALSE
    OBVIOUS
  <1>2. Bad \subseteq Nat
    OBVIOUS
  <1>3. PICK m \in Bad : \A k \in Bad : m <= k
    <2> HIDE DEF Bad
    <2> QED
      BY <1>1, <1>2, LeastOfNat
  <1>4. m \in 0..n /\ m # 0
    OBVIOUS
  <1>5. m - 1 \in 0..n /\ m - 1 # n /\ (m - 1) + 1 = m
    BY <1>4
  <1>6. m - 1 \in S
    BY <1>3, <1>5
  <1> QED
    BY <1>5, <1>6

\* The index of the last slot bounds the lines of parents.
N == NR_PROCS - 1

\* Ancestor(p) starts with p and goes on with parents.
LEMMA AncestorSteps ==
    ASSUME NEW p
    PROVE  /\ Ancestor(p)[0] = p
           /\ \A n \in 0..N : n # N =>
                /\ n + 1 \in 0..N
                /\ Ancestor(p)[n + 1] = mproc[Ancestor(p)[n]].mp_parent
  <1> DEFINE Up(g, i) == IF i = 0 THEN p ELSE mproc[g[i - 1]].mp_parent
             Solves(g, n) == g = [i \in 0..n |-> Up(g, i)]
             S == {n \in Nat : \E g : Solves(g, n)}
  <1>1. N \in Nat
    BY SlotNumbers DEF N
  <1>2. 0 \in S
    <2> DEFINE g == [i \in 0..0 |-> p]
    <2>1. \A i \in 0..0 : Up(g, i) = p
      OBVIOUS
    <2>2. g = [i \in 0..0 |-> Up(g, i)]
      <3> HIDE DEF Up
      <3> QED
        BY <2>1
    <2> QED
      BY <2>2
  <1>3. \A n \in 0..N : n # N /\ n \in S => n + 1 \in S
    <2> SUFFICES ASSUME NEW n \in Nat, n \in S PROVE n + 1 \in S
      BY <1>1
    <2>1. PICK h : Solves(h, n)
      OBVIOUS
    <2> DEFINE g == [i \in 0..n + 1 |-> IF i = n + 1 THEN Up(h, n + 1) ELSE h[i]]
    <2>2. \A i \in 0..n + 1 : i # 0 => g[i - 1] = h[i - 1]
      OBVIOUS
    <2>3. \A i \in 0..n + 1 : Up(g, i) = Up(h, i)
      BY <2>2
    <2>4. \A i \in 0..n + 1 : i # n + 1 => i \in 0..n
      OBVIOUS
    <2>5. \A i \in 0..n + 1 : g[i] = Up(h, i)
      <3> HIDE DEF Up
      <3>1. \A i \in 0..n : h[i] = Up(h, i)
        BY <2>1
      <3> QED
        BY <2>4, <3>1
    <2>6. g = [i \in 0..n + 1 |-> g[i]]
      OBVIOUS
    <2> HIDE DEF g, Up
    <2>7. Solves(g, n + 1)
      BY <2>3, <2>5, <2>6
    <2> QED
      BY <2>7
  <1>4. N \in S
    <2>1. N \in 0..N
      BY <1>1
    <2> HIDE DEF S
    <2> QED
      BY <1>1, <1>2, <1>3, <2>1, UpTo
  <1>5. Solves(Ancestor(p), N)
    <2>1. Ancestor(p) = CHOOSE g : Solves(g, N)
      BY DEF Ancestor, N
    <2> HIDE DEF Solves
    <2> QED
      BY <1>4, <2>1
  <1>6. \A i \in 0..N : Ancestor(p)[i] = Up(Ancestor(p), i)
    <2> HIDE DEF Up
    <2> QED
      BY <1>5
  <1>7. \A n \in 0..N : n # N => n + 1 \in 0..N /\ n + 1 # 0 /\ (n + 1) - 1 = n
    BY <1>1
  <1>8. 0 \in 0..N
    BY <1>1
  <1>9. Ancestor(p)[0] = p
    BY <1>6, <1>8
  <1>10. \A n \in 0..N : n # N => Ancestor(p)[n + 1] = Up(Ancestor(p), n + 1)
    <2> HIDE DEF Up
    <2> QED
      BY <1>6, <1>7
  <1> QED
    BY <1>7, <1>9, <1>10

-----------------------------------------------------------------------------
(* A table of processes: whose parent is alive, and whose line of parents    *)
(* ends.  The predicates take the table as an argument, since MM's calls     *)
(* make the next one in several steps.                                       *)

Flags == {"IN_USE", "ZOMBIE", "WAITING"}

EntryType ==
  [mp_pid : PIDS \cup {0, 1}, mp_procgrp : PIDS \cup {0}, mp_parent : Slots,
   mp_flags : SUBSET Flags, mp_wpid : WaitArgs]

TableType == [Slots -> EntryType]

AliveIn(t, p) == InUse(t, p) /\ "ZOMBIE" \notin t[p].mp_flags

\* MM and INIT stay where they are.
Founded(t) ==
  /\ AliveIn(t, MM_PROC_NR) /\ t[MM_PROC_NR].mp_parent = MM_PROC_NR
  /\ "WAITING" \notin t[MM_PROC_NR].mp_flags
  /\ AliveIn(t, INIT_PROC_NR) /\ t[INIT_PROC_NR].mp_parent = MM_PROC_NR

ParentsAlive(t) == \A p \in Slots : InUse(t, p) => AliveIn(t, t[p].mp_parent)

\* No processes but MM are each other's ancestors: of every set of them one has
\* a parent outside.
Rooted(t) ==
  \A S \in SUBSET {p \in Slots \ {MM_PROC_NR} : InUse(t, p)} :
    S # {} => \E p \in S : t[p].mp_parent \notin S

Tree(t) == t \in TableType /\ Founded(t) /\ ParentsAlive(t) /\ Rooted(t)

\* Only numbered processes exit (do_svrctl makes servers of living ones).
ZombiesNumbered(t) ==
  \A p \in Slots : InUse(t, p) /\ "ZOMBIE" \in t[p].mp_flags => t[p].mp_pid # 0

\* A process that can still end the wait of p.
Awaits(t, p, c) ==
  /\ c # p /\ isChild(t, p, c) /\ AliveIn(t, c)
  /\ t[p].mp_wpid \in {ANY_CHILD, OfPid(t[c].mp_pid), OfGroup(t[c].mp_procgrp)}

WaitsIn(t, p) == InUse(t, p) /\ "WAITING" \in t[p].mp_flags

\* Who waits can be woken; those in X are excepted.
WaitersBut(t, X) ==
  \A p \in Slots : p \notin X /\ WaitsIn(t, p) => \E c \in Slots : Awaits(t, p, c)

\* The line of parents of a process ends at MM.
LEMMA LineEnds ==
    ASSUME Tree(mproc), NEW p \in Slots, InUse(mproc, p)
    PROVE  \E k \in 0..N : Ancestor(p)[k] = MM_PROC_NR
  <1> SUFFICES ASSUME \A k \in 0..N : Ancestor(p)[k] # MM_PROC_NR
               PROVE  FALSE
    OBVIOUS
  <1> DEFINE at == Ancestor(p)
             E == {q \in Slots \ {MM_PROC_NR} : InUse(mproc, q)}
  <1>1. N \in Nat /\ Slots = 0..N /\ MM_PROC_NR = 0
    BY SlotNumbers DEF N, MM_PROC_NR
  <1>2. at[0] = p /\ \A k \in 0..N : k # N => at[k + 1] = mproc[at[k]].mp_parent
    BY AncestorSteps
  <1>3. \A q \in Slots : InUse(mproc, q) =>
           mproc[q].mp_parent \in Slots /\ InUse(mproc, mproc[q].mp_parent)
    <2>1. \A q \in Slots : mproc[q] \in EntryType
      BY DEF Tree, TableType
    <2>2. \A q \in Slots : mproc[q].mp_parent \in Slots
      BY <2>1 DEF EntryType
    <2> QED
      BY <2>2 DEF Tree, ParentsAlive, AliveIn
  <1>4. \A k \in 0..N : at[k] # MM_PROC_NR
    OBVIOUS
  <1> HIDE DEF at
  <1>5. \A k \in 0..N : at[k] \in E
    <2> DEFINE S == {k \in 0..N : at[k] \in E}
    <2>1. 0 \in S
      BY <1>1, <1>2, <1>4
    <2>2. \A k \in 0..N : k # N /\ k \in S => k + 1 \in S
      <3> SUFFICES ASSUME NEW k \in 0..N, k # N, k \in S
                   PROVE  k + 1 \in S
        OBVIOUS
      <3>1. k + 1 \in 0..N
        BY <1>1
      <3>2. at[k] \in Slots /\ InUse(mproc, at[k])
        OBVIOUS
      <3>3. at[k + 1] \in Slots /\ InUse(mproc, at[k + 1])
        BY <1>2, <1>3, <3>2
      <3> QED
        BY <1>4, <3>1, <3>3
    <2> HIDE DEF S
    <2>3. \A k \in 0..N : k \in S
      BY <1>1, <2>1, <2>2, UpTo
    <2> QED
      BY <2>3 DEF S
  <1>6. PICK x \in 0..N, y \in 0..N : x # y /\ at[x] = at[y]
    <2> DEFINE g == [k \in 0..N |-> at[k]]
    <2>1. IsFiniteSet(0..N) /\ Cardinality(0..N) = N + 1
      <3>1. 0 \in Int /\ N \in Int
        BY <1>1
      <3> QED
        BY <1>1, <3>1, FS_Interval
    <2>2. IsFiniteSet(1..N) /\ Cardinality(1..N) = N
      <3>1. 1 \in Int /\ N \in Int
        BY <1>1
      <3> QED
        BY <1>1, <3>1, FS_Interval
    <2>3. E \subseteq 1..N
      BY <1>1
    <2>4. g \in [0..N -> 1..N]
      BY <1>5, <2>3
    <2>5. Cardinality(1..N) < Cardinality(0..N)
      BY <1>1, <2>1, <2>2
    <2> HIDE DEF g
    <2>6. \E i, j \in 0..N : i # j /\ g[i] = g[j]
      BY <2>1, <2>2, <2>4, <2>5, FS_PigeonHole
    <2> QED
      BY <2>6 DEF g
  <1>7. PICK i \in 0..N, j \in 0..N : i < j /\ at[i] = at[j]
    <2>1. x < y \/ y < x
      BY <1>1, <1>6
    <2> QED
      BY <1>6, <2>1
  <1> DEFINE S == {at[k] : k \in i..j - 1}
  <1>8. S \in SUBSET E
    <2>1. \A k \in i..j - 1 : k \in 0..N
      BY <1>1
    <2> QED
      BY <1>5, <2>1
  <1>9. S # {}
    <2>1. i \in i..j - 1
      BY <1>7
    <2> QED
      BY <2>1
  <1>10. \A q \in S : mproc[q].mp_parent \in S
    <2> SUFFICES ASSUME NEW k \in i..j - 1
                 PROVE  mproc[at[k]].mp_parent \in S
      OBVIOUS
    <2>1. k \in 0..N /\ k # N
      BY <1>1
    <2>2. at[k + 1] = mproc[at[k]].mp_parent
      BY <1>2, <2>1
    <2>3. k + 1 \in i..j - 1 \/ k + 1 = j
      BY <1>1
    <2>4. i \in i..j - 1
      BY <1>7
    <2> QED
      BY <1>7, <2>2, <2>3, <2>4
  <1> HIDE DEF S
  <1> QED
    BY <1>8, <1>9, <1>10 DEF Tree, Rooted

-----------------------------------------------------------------------------
(* Changes of a table that keep it a tree                                    *)

\* A table stays a tree when processes go and each that is left has its old
\* parent, still alive, or MM or INIT.
LEMMA TreeKept ==
    ASSUME NEW t, Tree(t), NEW u \in TableType, Founded(u),
           \A c \in Slots : InUse(u, c) => InUse(t, c),
           \A c \in Slots : InUse(u, c) =>
              \/ u[c].mp_parent = t[c].mp_parent /\ AliveIn(u, t[c].mp_parent)
              \/ u[c].mp_parent \in {MM_PROC_NR, INIT_PROC_NR}
    PROVE  Tree(u)
  <1>1. AliveIn(u, MM_PROC_NR) /\ AliveIn(u, INIT_PROC_NR)
    BY DEF Founded
  <1>2. ParentsAlive(u)
    BY <1>1 DEF ParentsAlive
  <1>3. Rooted(u)
    <2> SUFFICES ASSUME NEW S \in SUBSET {p \in Slots \ {MM_PROC_NR} : InUse(u, p)},
                        S # {}, \A p \in S : u[p].mp_parent \in S
                 PROVE  FALSE
      BY DEF Rooted
    <2>1. MM_PROC_NR \notin S
      OBVIOUS
    <2>2. INIT_PROC_NR \notin S
      BY <2>1 DEF Founded
    <2>3. \A p \in S : t[p].mp_parent \in S
      BY <2>1, <2>2
    <2>4. S \in SUBSET {p \in Slots \ {MM_PROC_NR} : InUse(t, p)}
      OBVIOUS
    <2> QED
      BY <2>3, <2>4 DEF Tree, Rooted
  <1> QED
    BY <1>2, <1>3 DEF Tree

\* No process has p for its parent.
Childless(t, p) == \A c \in Slots : InUse(t, c) => t[c].mp_parent # p

\* The fields of an entry have their types.
LEMMA EntryIs ==
    ASSUME NEW t \in TableType, NEW p \in Slots
    PROVE  /\ t[p] \in EntryType
           /\ t[p].mp_flags \in SUBSET Flags /\ t[p].mp_parent \in Slots
           /\ t[p].mp_pid \in PIDS \cup {0, 1} /\ t[p].mp_procgrp \in PIDS \cup {0}
           /\ t[p].mp_wpid \in WaitArgs
  BY DEF TableType, EntryType

\* The parent of a call that ends or signs on stops waiting (misc.c:115-120).
LEMMA ReleasedIs ==
    ASSUME NEW t \in TableType, NEW p \in Slots
    PROVE  /\ Released(t, p) \in TableType
           /\ Released(t, p)[p].mp_flags = t[p].mp_flags \ {"WAITING"}
           /\ \A c \in Slots :
                 /\ c # p => Released(t, p)[c] = t[c]
                 /\ Released(t, p)[c].mp_parent = t[c].mp_parent
                 /\ Released(t, p)[c].mp_pid = t[c].mp_pid
                 /\ Released(t, p)[c].mp_procgrp = t[c].mp_procgrp
                 /\ InUse(Released(t, p), c) <=> InUse(t, c)
                 /\ AliveIn(Released(t, p), c) <=> AliveIn(t, c)
  <1>1. t[p] \in EntryType
    BY EntryIs
  <1> DEFINE e == [t[p] EXCEPT !.mp_flags = @ \ {"WAITING"}, !.mp_wpid = ANY_CHILD]
  <1>2. /\ e \in EntryType /\ e.mp_flags = t[p].mp_flags \ {"WAITING"}
        /\ e.mp_parent = t[p].mp_parent /\ e.mp_pid = t[p].mp_pid
        /\ e.mp_procgrp = t[p].mp_procgrp
    BY <1>1 DEF EntryType, WaitArgs
  <1>3. Released(t, p) = [t EXCEPT ![p] = e]
    BY <1>1 DEF Released, TableType, EntryType
  <1> HIDE DEF e
  <1>4. Released(t, p) \in TableType /\ Released(t, p)[p] = e
        /\ \A c \in Slots : c # p => Released(t, p)[c] = t[c]
    BY <1>2, <1>3 DEF TableType
  <1>5. \A c \in Slots : /\ Released(t, p)[c].mp_parent = t[c].mp_parent
                         /\ Released(t, p)[c].mp_pid = t[c].mp_pid
                 /\ Released(t, p)[c].mp_procgrp = t[c].mp_procgrp
    BY <1>2, <1>4
  <1>6. \A c \in Slots : \A f \in {"IN_USE", "ZOMBIE"} :
           f \in Released(t, p)[c].mp_flags <=> f \in t[c].mp_flags
    BY <1>2, <1>4
  <1> QED
    BY <1>2, <1>4, <1>5, <1>6 DEF InUse, AliveIn

\* cleanup() gives a slot back.
LEMMA CleanedIs ==
    ASSUME NEW t \in TableType, NEW p \in Slots
    PROVE  /\ Cleaned(t, p) \in TableType
           /\ Cleaned(t, p)[p].mp_flags = {} /\ ~InUse(Cleaned(t, p), p)
           /\ \A c \in Slots : c # p => Cleaned(t, p)[c] = t[c]
  <1>1. t[p] \in EntryType
    BY EntryIs
  <1> DEFINE e == [t[p] EXCEPT !.mp_flags = {}, !.mp_procgrp = 0, !.mp_wpid = ANY_CHILD]
  <1>2. e \in EntryType /\ e.mp_flags = {}
    BY <1>1 DEF EntryType, WaitArgs
  <1>3. Cleaned(t, p) = [t EXCEPT ![p] = e]
    BY <1>1 DEF Cleaned, TableType, EntryType
  <1> HIDE DEF e
  <1>4. Cleaned(t, p) \in TableType /\ Cleaned(t, p)[p] = e
        /\ \A c \in Slots : c # p => Cleaned(t, p)[c] = t[c]
    BY <1>2, <1>3 DEF TableType
  <1> QED
    BY <1>2, <1>4 DEF InUse

\* Releasing keeps the tree, the zombies' numbers and the other waiters.
LEMMA ReleasedKeeps ==
    ASSUME NEW t, Tree(t), NEW p \in Slots, NEW X
    PROVE  /\ Tree(Released(t, p))
           /\ ZombiesNumbered(t) => ZombiesNumbered(Released(t, p))
           /\ WaitersBut(t, X \cup {p}) => WaitersBut(Released(t, p), X)
           /\ WaitersBut(t, X) => WaitersBut(Released(t, p), X)
  <1> DEFINE u == Released(t, p)
  <1>0. t \in TableType
    BY DEF Tree
  <1>1. /\ u \in TableType
        /\ u[p].mp_flags = t[p].mp_flags \ {"WAITING"}
        /\ \A c \in Slots :
              /\ c # p => u[c] = t[c]
              /\ u[c].mp_parent = t[c].mp_parent
              /\ u[c].mp_pid = t[c].mp_pid
              /\ u[c].mp_procgrp = t[c].mp_procgrp
              /\ InUse(u, c) <=> InUse(t, c)
              /\ AliveIn(u, c) <=> AliveIn(t, c)
    BY <1>0, ReleasedIs
  <1> HIDE DEF u
  <1>2. Founded(u)
    BY <1>1, SlotNumbers DEF Founded, Tree
  <1>3. Tree(u)
    <2>1. \A c \in Slots : InUse(u, c) =>
             u[c].mp_parent = t[c].mp_parent /\ AliveIn(u, t[c].mp_parent)
      <3> SUFFICES ASSUME NEW c \in Slots, InUse(u, c)
                   PROVE  AliveIn(u, t[c].mp_parent)
        BY <1>1
      <3>1. t[c].mp_parent \in Slots
        BY <1>0, EntryIs
      <3>2. AliveIn(t, t[c].mp_parent)
        BY <1>1 DEF Tree, ParentsAlive
      <3> QED
        BY <1>1, <3>1, <3>2
    <2> QED
      BY <1>1, <1>2, <2>1, TreeKept
  <1>4. ZombiesNumbered(t) => ZombiesNumbered(u)
    BY <1>1 DEF ZombiesNumbered, InUse
  <1>5. \A q \in Slots : WaitsIn(u, q) => q # p /\ WaitsIn(t, q)
    BY <1>1 DEF WaitsIn
  <1>6. \A q, c \in Slots : q # p /\ Awaits(t, q, c) => Awaits(u, q, c)
    BY <1>1 DEF Awaits, isChild
  <1>7. WaitersBut(t, X) => WaitersBut(u, X)
    BY <1>5, <1>6 DEF WaitersBut
  <1>8. WaitersBut(t, X \cup {p}) => WaitersBut(u, X)
    BY <1>5, <1>6 DEF WaitersBut
  <1> QED
    BY <1>3, <1>4, <1>7, <1>8 DEF u

\* A process that nobody alive has for a parent is given back, or becomes a
\* zombie; X are those who may have waited for it.
LEMMA GoneKeeps ==
    ASSUME NEW t, Tree(t), NEW p \in Slots \ {MM_PROC_NR, INIT_PROC_NR}, Childless(t, p),
           NEW u \in TableType, ~AliveIn(u, p), ~WaitsIn(u, p),
           \A c \in Slots : c # p => u[c] = t[c],
           InUse(u, p) => InUse(t, p) /\ u[p].mp_parent = t[p].mp_parent,
           NEW X, NEW Y, WaitersBut(t, X),
           \A q \in Slots : q \notin Y => q \notin X \ {p} /\ ~(WaitsIn(t, q) /\ Awaits(t, q, p))
    PROVE  Tree(u) /\ WaitersBut(u, Y)
  <1>1. /\ t \in TableType /\ Founded(t) /\ ParentsAlive(t)
        /\ MM_PROC_NR \in Slots /\ INIT_PROC_NR \in Slots
    BY SlotNumbers DEF Tree
  <1>2. \A c \in Slots : c # p => (InUse(u, c) <=> InUse(t, c)) /\ (AliveIn(u, c) <=> AliveIn(t, c))
                                  /\ (WaitsIn(u, c) <=> WaitsIn(t, c))
    BY DEF InUse, AliveIn, WaitsIn
  <1>3. Founded(u)
    BY <1>1, <1>2 DEF Founded
  <1>4. \A c \in Slots : InUse(u, c) =>
             u[c].mp_parent = t[c].mp_parent /\ AliveIn(u, t[c].mp_parent)
    <2> SUFFICES ASSUME NEW c \in Slots, InUse(u, c)
                 PROVE  u[c].mp_parent = t[c].mp_parent /\ AliveIn(u, t[c].mp_parent)
      OBVIOUS
    <2>1. InUse(t, c) /\ u[c].mp_parent = t[c].mp_parent
      BY <1>2
    <2>2. t[c].mp_parent \in Slots /\ t[c].mp_parent # p /\ AliveIn(t, t[c].mp_parent)
      BY <1>1, <2>1, EntryIs DEF Childless, ParentsAlive
    <2> QED
      BY <1>2, <2>1, <2>2
  <1>5. Tree(u)
    <2>1. \A c \in Slots : InUse(u, c) => InUse(t, c)
      BY <1>2
    <2> QED
      BY <1>3, <1>4, <2>1, TreeKept
  <1>6. WaitersBut(u, Y)
    <2> SUFFICES ASSUME NEW q \in Slots, q \notin Y, WaitsIn(u, q)
                 PROVE  \E c \in Slots : Awaits(u, q, c)
      BY DEF WaitersBut
    <2>1. q # p /\ q \notin X /\ WaitsIn(t, q)
      BY <1>2
    <2>2. PICK c \in Slots : Awaits(t, q, c)
      BY <2>1 DEF WaitersBut
    <2>3. c # p
      BY <2>1, <2>2
    <2>4. u[c] = t[c] /\ u[q] = t[q]
      BY <2>1, <2>3
    <2>5. Awaits(u, q, c)
      BY <1>2, <2>2, <2>3, <2>4 DEF Awaits, isChild
    <2> QED
      BY <2>5
  <1> QED
    BY <1>5, <1>6

\* Who is not alive has no children.
LEMMA DeadChildless ==
    ASSUME NEW t, Tree(t), NEW p, ~AliveIn(t, p)
    PROVE  Childless(t, p)
  BY DEF Tree, ParentsAlive, Childless

\* Only MM is its own parent.
LEMMA NotOwnParent ==
    ASSUME NEW t, Tree(t), NEW p \in Slots \ {MM_PROC_NR}, InUse(t, p)
    PROVE  t[p].mp_parent # p
  <1>1. {p} \in SUBSET {q \in Slots \ {MM_PROC_NR} : InUse(t, q)} /\ {p} # {}
    OBVIOUS
  <1>2. \E q \in {p} : t[q].mp_parent \notin {p}
    BY <1>1 DEF Tree, Rooted
  <1> QED
    BY <1>2

\* The entries with p for a parent given to INIT.
Moved(t, p) ==
  [c \in Slots |-> IF InUse(t, c) /\ t[c].mp_parent = p
                     THEN [t[c] EXCEPT !.mp_parent = INIT_PROC_NR] ELSE t[c]]

\* Moving children leaves everything else, and p has none after it.
LEMMA MovedIs ==
    ASSUME NEW t \in TableType, NEW p \in Slots \ {INIT_PROC_NR}
    PROVE  /\ Moved(t, p) \in TableType
           /\ \A c \in Slots :
                 /\ Moved(t, p)[c].mp_flags = t[c].mp_flags
                 /\ Moved(t, p)[c].mp_pid = t[c].mp_pid
                 /\ Moved(t, p)[c].mp_procgrp = t[c].mp_procgrp
                 /\ Moved(t, p)[c].mp_wpid = t[c].mp_wpid
                 /\ InUse(t, c) /\ t[c].mp_parent = p
                      => Moved(t, p)[c].mp_parent = INIT_PROC_NR
                 /\ ~(InUse(t, c) /\ t[c].mp_parent = p) => Moved(t, p)[c] = t[c]
           /\ Childless(Moved(t, p), p)
  <1> DEFINE m == Moved(t, p)
  <1>1. \A c \in Slots : m[c] = IF InUse(t, c) /\ t[c].mp_parent = p
                                  THEN [t[c] EXCEPT !.mp_parent = INIT_PROC_NR] ELSE t[c]
    BY DEF Moved
  <1>2. m = [c \in Slots |-> m[c]]
    BY DEF Moved
  <1>3. \A c \in Slots : LET e == [t[c] EXCEPT !.mp_parent = INIT_PROC_NR] IN
          /\ e \in EntryType /\ e.mp_flags = t[c].mp_flags /\ e.mp_pid = t[c].mp_pid
          /\ e.mp_wpid = t[c].mp_wpid /\ e.mp_procgrp = t[c].mp_procgrp
          /\ e.mp_parent = INIT_PROC_NR
    BY SlotNumbers DEF TableType, EntryType
  <1> HIDE DEF m
  <1>4. \A c \in Slots : t[c] \in EntryType
    BY EntryIs
  <1>5. \A c \in Slots : m[c] \in EntryType
    BY <1>1, <1>3, <1>4
  <1>6. m \in TableType
    <2> HIDE DEF EntryType
    <2> QED
      BY <1>2, <1>5 DEF TableType
  <1>7. \A c \in Slots :
          /\ m[c].mp_flags = t[c].mp_flags /\ m[c].mp_pid = t[c].mp_pid
          /\ m[c].mp_wpid = t[c].mp_wpid /\ m[c].mp_procgrp = t[c].mp_procgrp
          /\ InUse(t, c) /\ t[c].mp_parent = p => m[c].mp_parent = INIT_PROC_NR
          /\ ~(InUse(t, c) /\ t[c].mp_parent = p) => m[c] = t[c]
    BY <1>1, <1>3
  <1>8. Childless(m, p)
    BY <1>7 DEF Childless, InUse
  <1> QED
    BY <1>6, <1>7, <1>8 DEF m

\* Of the waiters only p can lose something by it.
LEMMA MovedKeeps ==
    ASSUME NEW t, Tree(t), NEW p \in Users \ {INIT_PROC_NR}, NEW X
    PROVE  /\ Tree(Moved(t, p))
           /\ ZombiesNumbered(t) => ZombiesNumbered(Moved(t, p))
           /\ WaitersBut(t, X) => WaitersBut(Moved(t, p), X \cup {p})
           /\ InUse(t, p) => Moved(t, p)[p] = t[p]
  <1> DEFINE m == Moved(t, p)
  <1>0. /\ t \in TableType /\ Founded(t) /\ ParentsAlive(t) /\ p \in Slots
        /\ p # MM_PROC_NR /\ p # INIT_PROC_NR
        /\ MM_PROC_NR \in Slots /\ INIT_PROC_NR \in Slots
    BY SlotNumbers DEF Tree
  <1>1. /\ m \in TableType
        /\ \A c \in Slots :
              /\ m[c].mp_flags = t[c].mp_flags
              /\ m[c].mp_pid = t[c].mp_pid
              /\ m[c].mp_procgrp = t[c].mp_procgrp
              /\ m[c].mp_wpid = t[c].mp_wpid
              /\ InUse(t, c) /\ t[c].mp_parent = p => m[c].mp_parent = INIT_PROC_NR
              /\ ~(InUse(t, c) /\ t[c].mp_parent = p) => m[c] = t[c]
    BY <1>0, MovedIs
  <1> HIDE DEF m
  <1>2. \A c \in Slots : (InUse(m, c) <=> InUse(t, c)) /\ (AliveIn(m, c) <=> AliveIn(t, c))
                         /\ (WaitsIn(m, c) <=> WaitsIn(t, c))
    BY <1>1 DEF InUse, AliveIn, WaitsIn
  <1>3. Founded(m)
    BY <1>0, <1>1, <1>2 DEF Founded
  <1>4. \A c \in Slots : InUse(m, c) =>
              \/ m[c].mp_parent = t[c].mp_parent /\ AliveIn(m, t[c].mp_parent)
              \/ m[c].mp_parent \in {MM_PROC_NR, INIT_PROC_NR}
    <2> SUFFICES ASSUME NEW c \in Slots, InUse(m, c), m[c].mp_parent # INIT_PROC_NR
                 PROVE  m[c].mp_parent = t[c].mp_parent /\ AliveIn(m, t[c].mp_parent)
      OBVIOUS
    <2>1. InUse(t, c) /\ m[c].mp_parent = t[c].mp_parent
      BY <1>1, <1>2
    <2>2. t[c].mp_parent \in Slots /\ AliveIn(t, t[c].mp_parent)
      BY <1>0, <2>1, EntryIs DEF ParentsAlive
    <2> QED
      BY <1>2, <2>1, <2>2
  <1>5. Tree(m)
    BY <1>1, <1>2, <1>3, <1>4, TreeKept
  <1>6. ZombiesNumbered(t) => ZombiesNumbered(m)
    BY <1>1, <1>2 DEF ZombiesNumbered
  <1>7. WaitersBut(t, X) => WaitersBut(m, X \cup {p})
    <2> SUFFICES ASSUME WaitersBut(t, X), NEW q \in Slots, q # p, q \notin X, WaitsIn(m, q)
                 PROVE  \E c \in Slots : Awaits(m, q, c)
      BY DEF WaitersBut
    <2>1. PICK c \in Slots : Awaits(t, q, c)
      BY <1>2 DEF WaitersBut
    <2>2. m[c] = t[c]
      BY <1>1, <2>1 DEF Awaits, isChild
    <2>3. Awaits(m, q, c)
      BY <1>1, <1>2, <2>1, <2>2 DEF Awaits, isChild
    <2> QED
      BY <2>3
  <1>8. InUse(t, p) => m[p] = t[p]
    BY <1>0, <1>1, NotOwnParent
  <1> QED
    BY <1>5, <1>6, <1>7, <1>8 DEF m

\* What a process that exits leaves of its children: p's own entry is as it was,
\* nobody begins to wait, and it has no children any more.
LEMMA OrphanedKeeps ==
    ASSUME Tree(mproc), ZombiesNumbered(mproc), NEW X, WaitersBut(mproc, X),
           NEW p \in Users \ {INIT_PROC_NR}, Alive(p),
           NEW o, o = Orphaned(mproc, p)
    PROVE  /\ Tree(o) /\ ZombiesNumbered(o) /\ WaitersBut(o, X \cup {p}) /\ Childless(o, p)
           /\ o[p] = mproc[p]
           /\ \A c \in Slots : /\ InUse(o, c) => InUse(mproc, c)
                               /\ InUse(mproc, c) /\ ~InUse(o, c) => mproc[c].mp_pid # 0
                               /\ o[c].mp_pid = mproc[c].mp_pid
                               /\ WaitsIn(o, c) => WaitsIn(mproc, c)
                                                   /\ o[c].mp_wpid = mproc[c].mp_wpid
  <1> DEFINE m == Moved(mproc, p)
             Z == {c \in ChildrenOf(p) : "ZOMBIE" \in mproc[c].mp_flags
                                         /\ AwaitedBy(INIT_PROC_NR, c)}
             z == Min(Z)
             k == Cleaned(m, z)
  <1>0. /\ mproc \in TableType /\ p \in Slots /\ p # MM_PROC_NR /\ p # INIT_PROC_NR
        /\ INIT_PROC_NR \in Slots /\ InUse(mproc, p) /\ AliveIn(mproc, p)
    BY SlotNumbers DEF Tree, Alive, AliveIn
  <1>1. /\ Tree(m) /\ ZombiesNumbered(m) /\ WaitersBut(m, X \cup {p}) /\ m[p] = mproc[p]
        /\ m \in TableType
    BY <1>0, MovedKeeps DEF Tree
  <1>2. /\ Childless(m, p)
        /\ \A c \in Slots :
              /\ m[c].mp_flags = mproc[c].mp_flags
              /\ m[c].mp_pid = mproc[c].mp_pid
              /\ m[c].mp_wpid = mproc[c].mp_wpid
    BY <1>0, MovedIs
  <1>3. o = IF Z = {} THEN m ELSE Released(k, INIT_PROC_NR)
    BY DEF Orphaned, Moved
  <1> HIDE DEF m
  <1>4. CASE Z = {}
    <2>1. o = m
      BY <1>3, <1>4
    <2> QED
      BY <1>1, <1>2, <2>1 DEF InUse, WaitsIn
  <1>5. CASE Z # {}
    <2>0. o = Released(k, INIT_PROC_NR)
      BY <1>3, <1>5
    <2>1. z \in Z
      <3>1. Z \subseteq Nat
        BY SlotNumbers DEF ChildrenOf
      <3> HIDE DEF Z
      <3> QED
        BY <1>5, <3>1, MinIs
    <2>2. z \in Slots /\ z # p /\ InUse(mproc, z) /\ "ZOMBIE" \in mproc[z].mp_flags
      BY <2>1 DEF ChildrenOf, isChild
    <2> HIDE DEF z, Z
    <2>3. ~AliveIn(mproc, z) /\ ~AliveIn(m, z) /\ z \notin {MM_PROC_NR, INIT_PROC_NR}
      <3>1. ~AliveIn(mproc, z) /\ ~AliveIn(m, z)
        BY <1>2, <2>2 DEF AliveIn
      <3> QED
        BY <3>1 DEF Tree, Founded
    <2>4. /\ k \in TableType /\ k[z].mp_flags = {} /\ ~InUse(k, z)
          /\ \A c \in Slots : c # z => k[c] = m[c]
      BY <1>1, <2>2, CleanedIs
    <2>5. k[z].mp_pid = m[z].mp_pid
      <3>1. m[z] \in EntryType
        BY <1>1, <2>2, EntryIs
      <3> QED
        BY <1>1, <2>2, <3>1 DEF Cleaned, TableType, EntryType
    <2> HIDE DEF k
    <2>6. Childless(m, z)
      BY <1>1, <2>3, DeadChildless
    <2>7. Tree(k) /\ WaitersBut(k, X \cup {p})
      <3>1. ~AliveIn(k, z) /\ ~WaitsIn(k, z)
        BY <2>4 DEF AliveIn, WaitsIn
      <3>2. \A q \in Slots : q \notin X \cup {p} =>
               q \notin (X \cup {p}) \ {z} /\ ~(WaitsIn(m, q) /\ Awaits(m, q, z))
        BY <2>3 DEF Awaits
      <3>3. z \in Slots \ {MM_PROC_NR, INIT_PROC_NR}
        BY <2>2, <2>3
      <3>4. InUse(k, z) => InUse(m, z) /\ k[z].mp_parent = m[z].mp_parent
        BY <2>4
      <3> QED
        BY <1>1, <2>4, <2>6, <3>1, <3>2, <3>3, <3>4, GoneKeeps
    <2>8. ZombiesNumbered(k)
      BY <1>1, <2>4 DEF ZombiesNumbered, InUse
    <2>9. Childless(k, p)
      <3>1. \A c \in Slots : InUse(k, c) => c # z /\ k[c] = m[c]
        BY <2>4
      <3> QED
        BY <1>2, <3>1 DEF Childless, InUse
    <2>10. /\ o[INIT_PROC_NR].mp_flags = k[INIT_PROC_NR].mp_flags \ {"WAITING"}
           /\ \A c \in Slots :
                 /\ c # INIT_PROC_NR => o[c] = k[c]
                 /\ o[c].mp_parent = k[c].mp_parent
                 /\ o[c].mp_pid = k[c].mp_pid
                 /\ InUse(o, c) <=> InUse(k, c)
      <3>1. k \in TableType /\ INIT_PROC_NR \in Slots
        BY <1>0, <2>4
      <3> QED
        BY <2>0, <3>1, ReleasedIs
    <2>11. Tree(o) /\ ZombiesNumbered(o) /\ WaitersBut(o, X \cup {p})
      <3> DEFINE Y == X \cup {p}
      <3>1. Tree(k) /\ ZombiesNumbered(k) /\ WaitersBut(k, Y) /\ INIT_PROC_NR \in Slots
        BY <1>0, <2>7, <2>8
      <3> HIDE DEF Y
      <3>2. Tree(o) /\ ZombiesNumbered(o) /\ WaitersBut(o, Y)
        BY <2>0, <3>1, ReleasedKeeps
      <3> QED
        BY <3>2 DEF Y
    <2>12. Childless(o, p)
      BY <2>9, <2>10 DEF Childless
    <2>13. o[p] = mproc[p]
      BY <1>0, <1>1, <2>2, <2>4, <2>10
    <2>14. ASSUME NEW c \in Slots
           PROVE  /\ InUse(o, c) => InUse(mproc, c)
                  /\ InUse(mproc, c) /\ ~InUse(o, c) => mproc[c].mp_pid # 0
                  /\ o[c].mp_pid = mproc[c].mp_pid
                  /\ WaitsIn(o, c) => WaitsIn(mproc, c) /\ o[c].mp_wpid = mproc[c].mp_wpid
      <3>1. CASE c = z
        BY <1>2, <2>2, <2>4, <2>5, <2>10, <3>1 DEF ZombiesNumbered, WaitsIn
      <3>2. CASE c # z
        <4>1. k[c] = m[c]
          BY <2>4, <3>2
        <4>2. (InUse(o, c) <=> InUse(mproc, c)) /\ o[c].mp_pid = mproc[c].mp_pid
          BY <1>2, <2>10, <4>1 DEF InUse
        <4>3. WaitsIn(o, c) => o[c] = m[c]
          BY <2>10, <4>1 DEF WaitsIn
        <4> QED
          BY <1>2, <4>2, <4>3 DEF WaitsIn
      <3> QED
        BY <3>1, <3>2
    <2> QED
      BY <2>11, <2>12, <2>13, <2>14
  <1> QED
    BY <1>4, <1>5

-----------------------------------------------------------------------------
(* The invariant.  MM's table is a tree whose waiters can be woken; and a    *)
(* search for the pid of a living process does not stop at a dead slot, since *)
(* a pid is given again only to the first free slot.                         *)

Families(t) == Tree(t) /\ ZombiesNumbered(t)

\* A process without such a child waits for a group that the last one left.
Waiting(t, d) == WaitersBut(t, d) /\ \A p \in d : p \in Slots /\ WaitsIn(t, p)

\* The kernel has MM's number for a process, or none.
PidsAgree(t, pids) ==
  \A p \in Slots : InUse(t, p) /\ t[p].mp_pid # 0 => pids[p] \in {0, t[p].mp_pid}

\* Another slot with the pid of p is behind it, or a server's for MM only.
FirstHasPid(t, pids) ==
  \A p, c \in Slots :
    InUse(t, p) /\ c # p /\ pids[c] = t[p].mp_pid /\ t[p].mp_pid # 0
      => c > p \/ (InUse(t, c) /\ t[c].mp_pid = 0)

Pids(t, pids) ==
  pids \in [Slots -> PIDS \cup {0, 1}] /\ PidsAgree(t, pids) /\ FirstHasPid(t, pids)

IInv == Families(mproc) /\ Waiting(mproc, deserted) /\ Pids(mproc, p_pid)

\* Processes that end, and such as become servers, keep the pids in order.
LEMMA PidsKept ==
    ASSUME NEW t, NEW u, NEW pids, Pids(t, pids),
           \A c \in Slots : /\ InUse(u, c) => InUse(t, c)
                            /\ u[c].mp_pid \in {0, t[c].mp_pid}
                            /\ InUse(t, c) /\ ~InUse(u, c) => t[c].mp_pid # 0
    PROVE  Pids(u, pids)
  <1>1. PidsAgree(u, pids)
    <2> SUFFICES ASSUME NEW p \in Slots, InUse(u, p), u[p].mp_pid # 0
                 PROVE  pids[p] \in {0, u[p].mp_pid}
      BY DEF PidsAgree
    <2>1. InUse(t, p) /\ u[p].mp_pid = t[p].mp_pid
      OBVIOUS
    <2> QED
      BY <2>1 DEF Pids, PidsAgree
  <1>2. FirstHasPid(u, pids)
    <2> SUFFICES ASSUME NEW p \in Slots, NEW c \in Slots,
                        InUse(u, p), c # p, pids[c] = u[p].mp_pid, u[p].mp_pid # 0
                 PROVE  c > p \/ (InUse(u, c) /\ u[c].mp_pid = 0)
      BY DEF FirstHasPid
    <2>1. InUse(t, p) /\ u[p].mp_pid = t[p].mp_pid
      OBVIOUS
    <2>2. c > p \/ (InUse(t, c) /\ t[c].mp_pid = 0)
      BY <2>1 DEF Pids, FirstHasPid
    <2>3. InUse(t, c) /\ t[c].mp_pid = 0 => InUse(u, c) /\ u[c].mp_pid = 0
      OBVIOUS
    <2> QED
      BY <2>2, <2>3
  <1> QED
    BY <1>1, <1>2 DEF Pids

\* With its wait the history of a waiter is forgotten.
LEMMA StillDesertedKeeps ==
    ASSUME IInv, WaitersBut(mproc', deserted), deserted' = StillDeserted
    PROVE  Waiting(mproc', deserted')
  BY DEF IInv, Waiting, StillDeserted, WaitersBut, WaitsIn

\* What every caller is.
LEMMA CallerIs ==
    ASSUME Families(mproc), NEW p, Caller(p)
    PROVE  /\ p \in Users /\ p \in Slots /\ p # MM_PROC_NR
           /\ AliveIn(mproc, p) /\ InUse(mproc, p) /\ ~WaitsIn(mproc, p)
           /\ mproc \in TableType
  BY SlotNumbers DEF Caller, Alive, AliveIn, WaitsIn, Families, Tree

\* An exit releases the parent that waits for it, or leaves a zombie.
LEMMA ExitKeeps ==
    ASSUME IInv, NEW p \in Users, Exit(p)
    PROVE  IInv'
  <1> DEFINE o == Orphaned(mproc, p)
             q == mproc[p].mp_parent
             r == Cleaned(o, p)
             u == [o EXCEPT ![p].mp_flags = {"IN_USE", "ZOMBIE"}, ![p].mp_wpid = ANY_CHILD]
  <1>1. /\ p \in Users \ {INIT_PROC_NR} /\ Alive(p) /\ mproc[p].mp_pid # 0 /\ p_pid' = p_pid
        /\ deserted' = StillDeserted
        /\ mproc' = IF AwaitedBy(q, p) THEN Released(r, q) ELSE u
    BY DEF Exit
  <1>2. /\ Tree(mproc) /\ ZombiesNumbered(mproc) /\ WaitersBut(mproc, deserted)
        /\ mproc \in TableType /\ p \in Slots \ {MM_PROC_NR, INIT_PROC_NR} /\ InUse(mproc, p)
        /\ p \in Slots
    BY <1>1, SlotNumbers DEF IInv, Families, Waiting, Tree, Alive
  <1>3. /\ Tree(o) /\ ZombiesNumbered(o) /\ WaitersBut(o, deserted \cup {p}) /\ Childless(o, p)
        /\ o[p] = mproc[p]
        /\ \A c \in Slots : /\ InUse(o, c) => InUse(mproc, c)
                            /\ InUse(mproc, c) /\ ~InUse(o, c) => mproc[c].mp_pid # 0
                            /\ o[c].mp_pid = mproc[c].mp_pid
                            /\ WaitsIn(o, c) => WaitsIn(mproc, c)
                                                /\ o[c].mp_wpid = mproc[c].mp_wpid
    <2>1. o = Orphaned(mproc, p)
      OBVIOUS
    <2> HIDE DEF o
    <2> QED
      BY <1>1, <1>2, <2>1, OrphanedKeeps
  <1> HIDE DEF o
  <1>4. /\ q \in Slots /\ q # p /\ o \in TableType
        /\ InUse(o, p) /\ o[p] \in EntryType
    <2>1. q \in Slots /\ q # p /\ o \in TableType /\ InUse(o, p)
      BY <1>2, <1>3, EntryIs, NotOwnParent DEF InUse, Tree
    <2> QED
      BY <1>2, <2>1, EntryIs
  <1>5. \A x \in Slots : Awaits(o, x, p) => x = q
    BY <1>3 DEF Awaits, isChild
  <1>6. /\ r \in TableType /\ r[p].mp_flags = {} /\ ~InUse(r, p)
        /\ \A c \in Slots : c # p => r[c] = o[c]
    BY <1>2, <1>4, CleanedIs
  <1>7. r[p].mp_pid = o[p].mp_pid
    BY <1>4, <1>2 DEF Cleaned, TableType, EntryType
  <1>8. CASE AwaitedBy(q, p)
    <2> HIDE DEF r
    <2>1. Tree(r) /\ WaitersBut(r, deserted \cup {q})
      <3>1. ~AliveIn(r, p) /\ ~WaitsIn(r, p)
        BY <1>6 DEF AliveIn, WaitsIn
      <3>2. \A x \in Slots : x \notin deserted \cup {q} =>
               x \notin (deserted \cup {p}) \ {p} /\ ~(WaitsIn(o, x) /\ Awaits(o, x, p))
        BY <1>5
      <3>3. InUse(r, p) => InUse(o, p) /\ r[p].mp_parent = o[p].mp_parent
        BY <1>6
      <3> QED
        BY <1>2, <1>3, <1>6, <3>1, <3>2, <3>3, GoneKeeps
    <2>2. ZombiesNumbered(r)
      <3>1. \A c \in Slots : InUse(r, c) => c # p /\ r[c] = o[c] /\ InUse(o, c)
        BY <1>6 DEF InUse
      <3> QED
        BY <1>3, <3>1 DEF ZombiesNumbered
    <2>3. mproc' = Released(r, q)
      BY <1>1, <1>8
    <2>4. Families(mproc') /\ WaitersBut(mproc', deserted)
      BY <1>4, <2>1, <2>2, <2>3, ReleasedKeeps DEF Families
    <2>5. \A c \in Slots : /\ mproc'[c].mp_pid = r[c].mp_pid
                           /\ InUse(mproc', c) <=> InUse(r, c)
      BY <1>4, <1>6, <2>3, ReleasedIs
    <2>6. \A c \in Slots : /\ InUse(mproc', c) => InUse(mproc, c)
                           /\ mproc'[c].mp_pid \in {0, mproc[c].mp_pid}
                           /\ InUse(mproc, c) /\ ~InUse(mproc', c) => mproc[c].mp_pid # 0
      <3>1. \A c \in Slots : c # p => (InUse(r, c) <=> InUse(o, c)) /\ r[c].mp_pid = o[c].mp_pid
        BY <1>6 DEF InUse
      <3> QED
        BY <1>1, <1>3, <1>6, <1>7, <2>5, <3>1
    <2>7. Pids(mproc', p_pid)
      BY <2>6, PidsKept DEF IInv
    <2> QED
      BY <1>1, <2>4, <2>7, StillDesertedKeeps DEF IInv
  <1>9. CASE ~AwaitedBy(q, p)
    <2>1. mproc' = u
      BY <1>1, <1>9
    <2>2. /\ u \in TableType /\ u[p].mp_flags = {"IN_USE", "ZOMBIE"}
          /\ u[p].mp_parent = o[p].mp_parent /\ u[p].mp_pid = o[p].mp_pid
          /\ \A c \in Slots : c # p => u[c] = o[c]
      <3> DEFINE e == [o[p] EXCEPT !.mp_flags = {"IN_USE", "ZOMBIE"}, !.mp_wpid = ANY_CHILD]
      <3>1. /\ e \in EntryType /\ e.mp_flags = {"IN_USE", "ZOMBIE"}
            /\ e.mp_parent = o[p].mp_parent /\ e.mp_pid = o[p].mp_pid
        BY <1>4 DEF EntryType, Flags, WaitArgs
      <3>2. u = [o EXCEPT ![p] = e]
        BY <1>4 DEF TableType, EntryType
      <3> HIDE DEF e, u
      <3> QED
        BY <1>2, <1>4, <3>1, <3>2 DEF TableType
    <2> HIDE DEF u
    <2>3. ~AliveIn(u, p) /\ ~WaitsIn(u, p) /\ InUse(u, p)
      BY <2>2 DEF AliveIn, WaitsIn, InUse
    <2>4. ~(WaitsIn(o, q) /\ Awaits(o, q, p))
      <3> SUFFICES ASSUME WaitsIn(o, q), Awaits(o, q, p)
                   PROVE  AwaitedBy(q, p)
        BY <1>9
      <3>1. WaitsIn(mproc, q) /\ o[q].mp_wpid = mproc[q].mp_wpid
        BY <1>3, <1>4
      <3> QED
        BY <1>3, <3>1 DEF AwaitedBy, Wanted, Awaits, WaitsIn
    <2>5. Tree(u) /\ WaitersBut(u, deserted)
      <3>1. \A x \in Slots : x \notin deserted =>
               x \notin (deserted \cup {p}) \ {p} /\ ~(WaitsIn(o, x) /\ Awaits(o, x, p))
        BY <1>5, <2>4
      <3>2. InUse(u, p) => InUse(o, p) /\ u[p].mp_parent = o[p].mp_parent
        BY <1>4, <2>2
      <3> QED
        BY <1>2, <1>3, <2>2, <2>3, <3>1, <3>2, GoneKeeps
    <2>6. ZombiesNumbered(u)
      <3> SUFFICES ASSUME NEW c \in Slots, InUse(u, c), "ZOMBIE" \in u[c].mp_flags
                   PROVE  u[c].mp_pid # 0
        BY DEF ZombiesNumbered
      <3>1. CASE c = p
        BY <1>1, <1>3, <2>2, <3>1
      <3>2. CASE c # p
        BY <1>3, <2>2, <3>2 DEF ZombiesNumbered, InUse
      <3> QED
        BY <3>1, <3>2
    <2>7. \A c \in Slots : /\ InUse(u, c) => InUse(mproc, c)
                           /\ u[c].mp_pid \in {0, mproc[c].mp_pid}
                           /\ InUse(mproc, c) /\ ~InUse(u, c) => mproc[c].mp_pid # 0
      <3>1. \A c \in Slots : c # p => (InUse(u, c) <=> InUse(o, c)) /\ u[c].mp_pid = o[c].mp_pid
        BY <2>2 DEF InUse
      <3> QED
        BY <1>2, <1>3, <2>2, <2>3, <3>1
    <2>8. Pids(u, p_pid)
      BY <2>7, PidsKept DEF IInv
    <2> QED
      BY <1>1, <2>1, <2>5, <2>6, <2>8, StillDesertedKeeps DEF IInv, Families
  <1> QED
    BY <1>8, <1>9

\* wait takes a zombie, or waits for a child that is alive.
LEMMA WaitKeeps ==
    ASSUME IInv, NEW p \in Users, NEW wpid \in WaitArgs, Wait(p, wpid)
    PROVE  IInv'
  <1> DEFINE wanted == {c \in ChildrenOf(p) : Wanted(wpid, c)}
             zombies == {c \in wanted : "ZOMBIE" \in mproc[c].mp_flags}
             z == Min(zombies)
             k == Cleaned(mproc, z)
             u == [mproc EXCEPT ![p].mp_flags = @ \cup {"WAITING"}, ![p].mp_wpid = wpid]
  <1>1. /\ Caller(p) /\ wanted # {} /\ p_pid' = p_pid /\ deserted' = StillDeserted
        /\ mproc' = IF zombies # {} THEN k ELSE u
    BY DEF Wait
  <1>2. /\ Tree(mproc) /\ ZombiesNumbered(mproc) /\ WaitersBut(mproc, deserted)
        /\ mproc \in TableType /\ p \in Slots /\ AliveIn(mproc, p) /\ InUse(mproc, p)
        /\ p # MM_PROC_NR
    BY <1>1, CallerIs DEF IInv, Families, Waiting
  <1>3. CASE zombies # {}
    <2>1. z \in zombies
      <3>1. zombies \subseteq Nat
        BY SlotNumbers DEF ChildrenOf
      <3> HIDE DEF zombies
      <3> QED
        BY <1>3, <3>1, MinIs
    <2>2. z \in Slots /\ InUse(mproc, z) /\ "ZOMBIE" \in mproc[z].mp_flags /\ z # p
      BY <2>1 DEF ChildrenOf, isChild
    <2> HIDE DEF z, zombies
    <2>3. ~AliveIn(mproc, z) /\ z \in Slots \ {MM_PROC_NR, INIT_PROC_NR}
      BY <1>2, <2>2 DEF Tree, Founded, AliveIn
    <2>4. /\ k \in TableType /\ k[z].mp_flags = {} /\ ~InUse(k, z)
          /\ \A c \in Slots : c # z => k[c] = mproc[c]
      BY <1>2, <2>2, CleanedIs
    <2>5. k[z].mp_pid = mproc[z].mp_pid
      <3>1. mproc[z] \in EntryType
        BY <1>2, <2>2, EntryIs
      <3> QED
        BY <1>2, <2>2, <3>1 DEF Cleaned, TableType, EntryType
    <2> HIDE DEF k
    <2>6. Tree(k) /\ WaitersBut(k, deserted)
      <3>1. ~AliveIn(k, z) /\ ~WaitsIn(k, z)
        BY <2>4 DEF AliveIn, WaitsIn
      <3>2. \A q \in Slots : q \notin deserted =>
               q \notin deserted \ {z} /\ ~(WaitsIn(mproc, q) /\ Awaits(mproc, q, z))
        BY <2>3 DEF Awaits
      <3>3. InUse(k, z) => InUse(mproc, z) /\ k[z].mp_parent = mproc[z].mp_parent
        BY <2>4
      <3>4. Childless(mproc, z)
        BY <1>2, <2>3, DeadChildless
      <3> QED
        BY <1>2, <2>3, <2>4, <3>1, <3>2, <3>3, <3>4, GoneKeeps
    <2>7. \A c \in Slots : c # z => (InUse(k, c) <=> InUse(mproc, c))
      BY <2>4 DEF InUse
    <2>8. ZombiesNumbered(k)
      BY <1>2, <2>4, <2>7 DEF ZombiesNumbered
    <2>9. \A c \in Slots : /\ InUse(k, c) => InUse(mproc, c)
                           /\ k[c].mp_pid \in {0, mproc[c].mp_pid}
                           /\ InUse(mproc, c) /\ ~InUse(k, c) => mproc[c].mp_pid # 0
      BY <1>2, <2>2, <2>4, <2>5, <2>7 DEF ZombiesNumbered
    <2>10. Pids(k, p_pid)
      BY <2>9, PidsKept DEF IInv
    <2> QED
      BY <1>1, <1>3, <2>6, <2>8, <2>10, StillDesertedKeeps DEF IInv, Families
  <1>4. CASE zombies = {}
    <2>1. mproc' = u
      BY <1>1, <1>4
    <2>2. /\ u \in TableType /\ u[p].mp_flags = mproc[p].mp_flags \cup {"WAITING"}
          /\ u[p].mp_wpid = wpid
          /\ u[p].mp_parent = mproc[p].mp_parent /\ u[p].mp_pid = mproc[p].mp_pid
          /\ u[p].mp_procgrp = mproc[p].mp_procgrp
          /\ \A c \in Slots : c # p => u[c] = mproc[c]
      <3> DEFINE e == [mproc[p] EXCEPT !.mp_flags = @ \cup {"WAITING"}, !.mp_wpid = wpid]
      <3>0. mproc[p] \in EntryType
        BY <1>2, EntryIs
      <3>1. /\ e \in EntryType /\ e.mp_flags = mproc[p].mp_flags \cup {"WAITING"}
            /\ e.mp_wpid = wpid
            /\ e.mp_parent = mproc[p].mp_parent /\ e.mp_pid = mproc[p].mp_pid
            /\ e.mp_procgrp = mproc[p].mp_procgrp
        BY <3>0 DEF EntryType, Flags
      <3>2. u = [mproc EXCEPT ![p] = e]
        BY <1>2, <3>0 DEF TableType, EntryType
      <3> HIDE DEF e, u
      <3> QED
        BY <1>2, <3>1, <3>2 DEF TableType
    <2>3. PICK c \in Slots : c \in ChildrenOf(p) /\ Wanted(wpid, c)
      BY <1>1 DEF ChildrenOf
    <2>4. /\ c # p /\ isChild(mproc, p, c) /\ AliveIn(mproc, c)
          /\ wpid \in {ANY_CHILD, OfPid(mproc[c].mp_pid), OfGroup(mproc[c].mp_procgrp)}
      BY <1>4, <2>3 DEF ChildrenOf, isChild, AliveIn, Wanted
    <2> HIDE DEF u, wanted, zombies
    <2>5. \A d \in Slots : /\ InUse(u, d) <=> InUse(mproc, d)
                           /\ AliveIn(u, d) <=> AliveIn(mproc, d)
                           /\ d # p => (WaitsIn(u, d) <=> WaitsIn(mproc, d))
                           /\ u[d].mp_parent = mproc[d].mp_parent
                           /\ u[d].mp_pid = mproc[d].mp_pid
                           /\ u[d].mp_procgrp = mproc[d].mp_procgrp
      BY <2>2 DEF InUse, AliveIn, WaitsIn
    <2>6. Founded(u)
      <3>1. Founded(mproc)
        BY <1>2 DEF Tree
      <3> QED
        BY <1>2, <2>2, <2>5, <3>1, SlotNumbers DEF Founded
    <2>7. Tree(u)
      <3>1. \A d \in Slots : InUse(u, d) =>
               u[d].mp_parent = mproc[d].mp_parent /\ AliveIn(u, mproc[d].mp_parent)
        <4> SUFFICES ASSUME NEW d \in Slots, InUse(u, d)
                     PROVE  AliveIn(u, mproc[d].mp_parent)
          BY <2>5
        <4>1. mproc[d].mp_parent \in Slots /\ AliveIn(mproc, mproc[d].mp_parent)
          BY <1>2, <2>5, EntryIs DEF Tree, ParentsAlive
        <4> QED
          BY <2>5, <4>1
      <3> QED
        BY <1>2, <2>2, <2>5, <2>6, <3>1, TreeKept
    <2>8. ZombiesNumbered(u)
      BY <1>2, <2>2, <2>5 DEF ZombiesNumbered
    <2>9. WaitersBut(u, deserted)
      <3> SUFFICES ASSUME NEW q \in Slots, q \notin deserted, WaitsIn(u, q)
                   PROVE  \E d \in Slots : Awaits(u, q, d)
        BY DEF WaitersBut
      <3>1. CASE q = p
        <4>1. Awaits(u, q, c)
          BY <2>2, <2>4, <2>5, <3>1 DEF Awaits, isChild
        <4> QED
          BY <4>1
      <3>2. CASE q # p
        <4>1. PICK d \in Slots : Awaits(mproc, q, d)
          BY <1>2, <2>5, <3>2 DEF WaitersBut
        <4>2. Awaits(u, q, d)
          BY <2>2, <2>5, <3>2, <4>1 DEF Awaits, isChild
        <4> QED
          BY <4>2
      <3> QED
        BY <3>1, <3>2
    <2>10. Pids(u, p_pid)
      <3>1. \A d \in Slots : /\ InUse(u, d) => InUse(mproc, d)
                             /\ u[d].mp_pid \in {0, mproc[d].mp_pid}
                             /\ InUse(mproc, d) /\ ~InUse(u, d) => mproc[d].mp_pid # 0
        BY <2>5
      <3> QED
        BY <3>1, PidsKept DEF IInv
    <2> QED
      BY <1>1, <2>1, <2>7, <2>8, <2>9, <2>10, StillDesertedKeeps DEF IInv, Families
  <1> QED
    BY <1>3, <1>4

\* A process that MM signs on leaves its parent as if it had ended, and INIT
\* gets its children (misc.c:100-133).
LEMMA MMSIGNONKeeps ==
    ASSUME IInv, NEW p \in Users, MMSIGNON(p)
    PROVE  IInv'
  <1> DEFINE q == mproc[p].mp_parent
             t == IF AwaitedBy(q, p) THEN Released(mproc, q) ELSE mproc
             m == Moved(t, p)
             u == mproc'
  <1>1. /\ Caller(p) /\ p # INIT_PROC_NR /\ p_pid' = p_pid /\ deserted' = StillDeserted
        /\ u = [c \in Slots |->
                  IF c = p THEN [t[c] EXCEPT !.mp_pid = 0, !.mp_procgrp = 0, !.mp_parent = MM_PROC_NR]
                  ELSE IF InUse(t, c) /\ t[c].mp_parent = p
                    THEN [t[c] EXCEPT !.mp_parent = INIT_PROC_NR] ELSE t[c]]
    BY DEF MMSIGNON
  <1>2. /\ Tree(mproc) /\ ZombiesNumbered(mproc) /\ WaitersBut(mproc, deserted)
        /\ mproc \in TableType /\ p \in Slots /\ AliveIn(mproc, p) /\ InUse(mproc, p)
        /\ p # MM_PROC_NR /\ ~WaitsIn(mproc, p)
    BY <1>1, CallerIs DEF IInv, Families, Waiting
  <1>3. q \in Slots /\ q # p
    BY <1>2, EntryIs, NotOwnParent
  <1>4. /\ Tree(t) /\ ZombiesNumbered(t) /\ WaitersBut(t, deserted)
        /\ \A x \in Slots : ~(WaitsIn(t, x) /\ Awaits(t, x, p))
        /\ t[p] = mproc[p]
        /\ \A c \in Slots : /\ InUse(t, c) <=> InUse(mproc, c)
                            /\ t[c].mp_pid = mproc[c].mp_pid
    <2>1. CASE AwaitedBy(q, p)
      <3>1. t = Released(mproc, q)
        BY <2>1
      <3> HIDE DEF t
      <3>2. Tree(t) /\ ZombiesNumbered(t) /\ WaitersBut(t, deserted)
        BY <1>2, <1>3, <3>1, ReleasedKeeps
      <3>3. /\ t[q].mp_flags = mproc[q].mp_flags \ {"WAITING"}
            /\ \A c \in Slots :
                  /\ c # q => t[c] = mproc[c]
                  /\ t[c].mp_parent = mproc[c].mp_parent
                  /\ t[c].mp_pid = mproc[c].mp_pid
                  /\ InUse(t, c) <=> InUse(mproc, c)
        BY <1>2, <1>3, <3>1, ReleasedIs
      <3>4. \A x \in Slots : Awaits(t, x, p) => x = q
        BY <1>2, <3>3 DEF Awaits, isChild
      <3>5. ~WaitsIn(t, q)
        BY <3>3 DEF WaitsIn
      <3> QED
        BY <1>2, <1>3, <3>2, <3>3, <3>4, <3>5
    <2>2. CASE ~AwaitedBy(q, p)
      <3>1. t = mproc
        BY <2>2
      <3>2. \A x \in Slots : Awaits(mproc, x, p) /\ WaitsIn(mproc, x) => x = q /\ AwaitedBy(x, p)
        BY DEF Awaits, isChild, AwaitedBy, Wanted, WaitsIn
      <3> QED
        BY <1>2, <2>2, <3>1, <3>2
    <2> QED
      BY <2>1, <2>2
  <1> HIDE DEF t
  <1>5. /\ t \in TableType /\ t[p] \in EntryType /\ InUse(t, p)
        /\ AliveIn(t, p) /\ ~WaitsIn(t, p) /\ p \in Slots \ {INIT_PROC_NR}
        /\ p \in Users \ {INIT_PROC_NR}
    BY <1>1, <1>2, <1>4, EntryIs DEF Tree, InUse, AliveIn, WaitsIn
  <1>6. /\ Tree(m) /\ ZombiesNumbered(m) /\ WaitersBut(m, deserted \cup {p}) /\ m[p] = t[p]
        /\ m \in TableType
    BY <1>4, <1>5, MovedKeeps DEF Tree
  <1>7. /\ Childless(m, p)
        /\ \A c \in Slots : /\ m[c].mp_flags = t[c].mp_flags /\ m[c].mp_pid = t[c].mp_pid
                            /\ m[c].mp_wpid = t[c].mp_wpid
    BY <1>5, MovedIs
  <1>8. \A c \in Slots : m[c] = IF InUse(t, c) /\ t[c].mp_parent = p
                                  THEN [t[c] EXCEPT !.mp_parent = INIT_PROC_NR] ELSE t[c]
    BY DEF Moved
  <1> HIDE DEF m
  <1>9. /\ u \in TableType /\ u[p].mp_flags = t[p].mp_flags
        /\ u[p].mp_parent = MM_PROC_NR /\ u[p].mp_pid = 0
        /\ \A c \in Slots : c # p => u[c] = m[c]
    <2> DEFINE e == [t[p] EXCEPT !.mp_pid = 0, !.mp_procgrp = 0, !.mp_parent = MM_PROC_NR]
    <2>1. /\ e \in EntryType /\ e.mp_flags = t[p].mp_flags
          /\ e.mp_parent = MM_PROC_NR /\ e.mp_pid = 0
      BY <1>5, SlotNumbers DEF EntryType
    <2>2. \A c \in Slots : u[c] = IF c = p THEN e ELSE m[c]
      BY <1>1, <1>8
    <2>3. u = [c \in Slots |-> u[c]]
      BY <1>1
    <2> HIDE DEF u, e
    <2>4. \A c \in Slots : u[c] \in EntryType
      BY <1>6, <2>1, <2>2, EntryIs
    <2>5. u \in TableType
      <3> HIDE DEF EntryType
      <3> QED
        BY <2>3, <2>4 DEF TableType
    <2> QED
      BY <1>2, <2>1, <2>2, <2>5
  <1> HIDE DEF u
  <1>10. \A c \in Slots : /\ InUse(u, c) <=> InUse(m, c)
                          /\ AliveIn(u, c) <=> AliveIn(m, c)
                          /\ WaitsIn(u, c) <=> WaitsIn(m, c)
    BY <1>6, <1>9 DEF InUse, AliveIn, WaitsIn
  <1>11. Tree(u)
    <2>1. Founded(u)
      <3>1. Founded(m)
        BY <1>6 DEF Tree
      <3> QED
        BY <1>1, <1>2, <1>9, <1>10, <3>1, SlotNumbers DEF Founded
    <2>2. \A c \in Slots : InUse(u, c) =>
              \/ u[c].mp_parent = m[c].mp_parent /\ AliveIn(u, m[c].mp_parent)
              \/ u[c].mp_parent \in {MM_PROC_NR, INIT_PROC_NR}
      <3> SUFFICES ASSUME NEW c \in Slots, InUse(u, c), c # p
                   PROVE  u[c].mp_parent = m[c].mp_parent /\ AliveIn(u, m[c].mp_parent)
        BY <1>9
      <3>1. m[c].mp_parent \in Slots /\ AliveIn(m, m[c].mp_parent)
        BY <1>6, <1>10, EntryIs DEF Tree, ParentsAlive
      <3> QED
        BY <1>9, <1>10, <3>1
    <2> QED
      BY <1>6, <1>9, <1>10, <2>1, <2>2, TreeKept
  <1>12. ZombiesNumbered(u)
    <2> SUFFICES ASSUME NEW c \in Slots, InUse(u, c), "ZOMBIE" \in u[c].mp_flags
                 PROVE  u[c].mp_pid # 0
      BY DEF ZombiesNumbered
    <2>1. c # p
      BY <1>5, <1>9 DEF AliveIn
    <2> QED
      BY <1>6, <1>9, <1>10, <2>1 DEF ZombiesNumbered
  <1>13. WaitersBut(u, deserted)
    <2> SUFFICES ASSUME NEW x \in Slots, x \notin deserted, WaitsIn(u, x)
                 PROVE  \E c \in Slots : Awaits(u, x, c)
      BY DEF WaitersBut
    <2>1. x # p
      BY <1>5, <1>6, <1>10 DEF WaitsIn, InUse
    <2>2. PICK c \in Slots : Awaits(m, x, c)
      BY <1>6, <1>10, <2>1 DEF WaitersBut
    <2>3. CASE c # p
      <3>1. Awaits(u, x, c)
        BY <1>9, <1>10, <2>1, <2>2, <2>3 DEF Awaits, isChild
      <3> QED
        BY <3>1
    <2>4. CASE c = p
      <3>1. WaitsIn(t, x)
        BY <1>7, <1>10 DEF WaitsIn, InUse
      <3>2. Awaits(t, x, p)
        BY <1>5, <1>6, <1>7, <2>2, <2>4 DEF Awaits, isChild
      <3> QED
        BY <1>4, <3>1, <3>2
    <2> QED
      BY <2>3, <2>4
  <1>14. Pids(u, p_pid)
    <2>1. \A c \in Slots : /\ InUse(u, c) => InUse(mproc, c)
                           /\ u[c].mp_pid \in {0, mproc[c].mp_pid}
                           /\ InUse(mproc, c) /\ ~InUse(u, c) => mproc[c].mp_pid # 0
      <3>1. \A c \in Slots : InUse(u, c) <=> InUse(mproc, c)
        BY <1>4, <1>7, <1>10 DEF InUse
      <3>2. \A c \in Slots : c # p => u[c].mp_pid = mproc[c].mp_pid
        BY <1>4, <1>7, <1>9
      <3> QED
        BY <1>9, <3>1, <3>2
    <2> QED
      BY <2>1, PidsKept DEF IInv
  <1> QED
    BY <1>1, <1>11, <1>12, <1>13, <1>14, StillDesertedKeeps DEF IInv, Families, u

\* A child goes to the first free slot, whose old pid is overwritten.
LEMMA ForkKeeps ==
    ASSUME IInv, NEW p \in Users, Fork(p)
    PROVE  IInv'
  <1> DEFINE free == {c \in Slots : ~InUse(mproc, c)}
             z == Min(free)
             u == mproc'
  <1>1. /\ Tree(mproc) /\ ZombiesNumbered(mproc) /\ WaitersBut(mproc, deserted)
        /\ mproc \in TableType /\ p \in Slots /\ AliveIn(mproc, p) /\ InUse(mproc, p)
        /\ p # MM_PROC_NR /\ ~WaitsIn(mproc, p)
    BY CallerIs DEF Fork, IInv, Families, Waiting
  <1>2. z \in free /\ \A c \in free : z <= c
    <2>1. free # {} /\ free \subseteq Nat
      BY SlotNumbers DEF Fork
    <2> HIDE DEF free
    <2> QED
      BY <2>1, MinIs
  <1>3. PICK pid \in PIDS \ UNION {{mproc[c].mp_pid, mproc[c].mp_procgrp} :
                                      c \in {c \in Slots : InUse(mproc, c)}} :
           /\ mproc' = [mproc EXCEPT ![z] = [mproc[p] EXCEPT !.mp_pid = pid, !.mp_parent = p]]
           /\ p_pid' = [p_pid EXCEPT ![z] = pid]
           /\ deserted' = deserted
    BY DEF Fork
  <1>4. /\ z \in Slots /\ ~InUse(mproc, z) /\ z # p
        /\ \A c \in Slots : c < z => InUse(mproc, c)
    <2>1. z \in Slots /\ ~InUse(mproc, z)
      BY <1>2
    <2>2. \A c \in Slots : c < z => ~(z <= c)
      BY <2>1, SlotNumbers
    <2>3. \A c \in Slots : c < z => c \notin free
      BY <1>2, <2>2
    <2> QED
      BY <1>1, <2>1, <2>3
  <1> HIDE DEF z, free
  <1>5. pid \in PIDS /\ \A c \in Slots : InUse(mproc, c) => mproc[c].mp_pid # pid
    BY <1>3
  <1>6. /\ u \in TableType /\ u[z].mp_flags = mproc[p].mp_flags
        /\ u[z].mp_parent = p /\ u[z].mp_pid = pid
        /\ \A c \in Slots : c # z => u[c] = mproc[c]
    <2> DEFINE e == [mproc[p] EXCEPT !.mp_pid = pid, !.mp_parent = p]
    <2>0. mproc[p] \in EntryType
      BY <1>1, EntryIs
    <2>1. /\ e \in EntryType /\ e.mp_flags = mproc[p].mp_flags
          /\ e.mp_parent = p /\ e.mp_pid = pid
      BY <1>1, <1>5, <2>0 DEF EntryType
    <2>2. u = [mproc EXCEPT ![z] = e]
      BY <1>3
    <2> HIDE DEF e, u
    <2> QED
      BY <1>1, <1>4, <2>1, <2>2 DEF TableType
  <1> HIDE DEF u
  <1>7. /\ InUse(u, z) /\ AliveIn(u, z) /\ ~WaitsIn(u, z)
        /\ \A c \in Slots : c # z => /\ InUse(u, c) <=> InUse(mproc, c)
                                     /\ AliveIn(u, c) <=> AliveIn(mproc, c)
                                     /\ WaitsIn(u, c) <=> WaitsIn(mproc, c)
    BY <1>1, <1>6 DEF InUse, AliveIn, WaitsIn
  <1>8. Founded(u)
    <2>1. Founded(mproc) /\ z # MM_PROC_NR /\ z # INIT_PROC_NR
      BY <1>1, <1>4 DEF Tree, Founded, AliveIn
    <2> QED
      BY <1>6, <1>7, <2>1, SlotNumbers DEF Founded
  <1>9. ASSUME NEW c \in Slots, InUse(mproc, c)
        PROVE  c # z /\ mproc[c].mp_parent \in Slots \ {z} /\ AliveIn(mproc, mproc[c].mp_parent)
    BY <1>1, <1>4, <1>9, EntryIs DEF Tree, ParentsAlive, AliveIn
  <1>10. ParentsAlive(u)
    <2> SUFFICES ASSUME NEW c \in Slots, InUse(u, c)
                 PROVE  AliveIn(u, u[c].mp_parent)
      BY DEF ParentsAlive
    <2>1. CASE c = z
      BY <1>1, <1>4, <1>6, <1>7, <2>1
    <2>2. CASE c # z
      <3>1. InUse(mproc, c) /\ u[c] = mproc[c]
        BY <1>6, <1>7, <2>2
      <3>2. mproc[c].mp_parent \in Slots \ {z} /\ AliveIn(mproc, mproc[c].mp_parent)
        BY <1>9, <3>1
      <3> QED
        BY <1>7, <3>1, <3>2
    <2> QED
      BY <2>1, <2>2
  <1>11. Rooted(u)
    <2> SUFFICES ASSUME NEW S \in SUBSET {c \in Slots \ {MM_PROC_NR} : InUse(u, c)},
                        S # {}, \A c \in S : u[c].mp_parent \in S
                 PROVE  FALSE
      BY DEF Rooted
    <2> DEFINE T == S \ {z}
    <2>1. T \in SUBSET {c \in Slots \ {MM_PROC_NR} : InUse(mproc, c)}
      BY <1>7
    <2>2. T # {}
      <3>1. z \in S => p \in S
        BY <1>6
      <3> QED
        BY <1>4, <3>1
    <2>3. \A c \in T : mproc[c].mp_parent \in T
      <3> SUFFICES ASSUME NEW c \in T
                   PROVE  mproc[c].mp_parent \in T
        OBVIOUS
      <3>1. c \in Slots /\ InUse(mproc, c) /\ u[c] = mproc[c]
        BY <1>6, <2>1
      <3>2. mproc[c].mp_parent # z
        BY <1>9, <3>1
      <3> QED
        BY <3>1, <3>2
    <2> HIDE DEF T
    <2> QED
      BY <1>1, <2>1, <2>2, <2>3 DEF Tree, Rooted
  <1>12. ZombiesNumbered(u)
    <2> SUFFICES ASSUME NEW c \in Slots, InUse(u, c), "ZOMBIE" \in u[c].mp_flags
                 PROVE  u[c].mp_pid # 0
      BY DEF ZombiesNumbered
    <2>1. c # z
      BY <1>7 DEF AliveIn
    <2> QED
      BY <1>1, <1>6, <1>7, <2>1 DEF ZombiesNumbered
  <1>13. WaitersBut(u, deserted)
    <2> SUFFICES ASSUME NEW x \in Slots, x \notin deserted, WaitsIn(u, x)
                 PROVE  \E c \in Slots : Awaits(u, x, c)
      BY DEF WaitersBut
    <2>1. x # z /\ WaitsIn(mproc, x)
      BY <1>7
    <2>2. PICK c \in Slots : Awaits(mproc, x, c)
      BY <1>1, <2>1 DEF WaitersBut
    <2>3. c # z
      BY <1>4, <2>2 DEF Awaits, AliveIn
    <2>4. Awaits(u, x, c)
      BY <1>6, <1>7, <2>1, <2>2, <2>3 DEF Awaits, isChild
    <2> QED
      BY <2>4
  <1>14. Pids(u, p_pid')
    <2> DEFINE k == p_pid'
    <2>1. /\ k \in [Slots -> PIDS \cup {0, 1}] /\ k[z] = pid
          /\ \A c \in Slots : c # z => k[c] = p_pid[c]
      BY <1>3, <1>4, <1>5 DEF IInv, Pids
    <2> HIDE DEF k
    <2>2. PidsAgree(u, k)
      <3> SUFFICES ASSUME NEW x \in Slots, InUse(u, x), u[x].mp_pid # 0
                   PROVE  k[x] \in {0, u[x].mp_pid}
        BY DEF PidsAgree
      <3>1. CASE x = z
        BY <1>6, <2>1, <3>1
      <3>2. CASE x # z
        BY <1>6, <1>7, <2>1, <3>2 DEF IInv, Pids, PidsAgree
      <3> QED
        BY <3>1, <3>2
    <2>3. FirstHasPid(u, k)
      <3> SUFFICES ASSUME NEW x \in Slots, NEW c \in Slots,
                          InUse(u, x), c # x, k[c] = u[x].mp_pid, u[x].mp_pid # 0
                   PROVE  c > x \/ (InUse(u, c) /\ u[c].mp_pid = 0)
        BY DEF FirstHasPid
      <3>1. CASE x = z
        <4>1. p_pid[c] = pid /\ pid # 0 /\ u[c] = mproc[c]
          BY <1>6, <2>1, <3>1
        <4>2. CASE c > z
          BY <3>1, <4>2
        <4>3. CASE ~(c > z)
          <5>1. c < z
            BY <1>4, <3>1, <4>3, SlotNumbers
          <5>2. InUse(mproc, c) /\ mproc[c].mp_pid # pid
            BY <1>4, <1>5, <5>1
          <5>3. mproc[c].mp_pid = 0
            BY <4>1, <5>2 DEF IInv, Pids, PidsAgree
          <5> QED
            BY <1>7, <3>1, <4>1, <5>2, <5>3
        <4> QED
          BY <4>2, <4>3
      <3>2. CASE x # z
        <4>1. InUse(mproc, x) /\ u[x] = mproc[x]
          BY <1>6, <1>7, <3>2
        <4>2. c # z
          BY <1>5, <2>1, <4>1
        <4>3. p_pid[c] = mproc[x].mp_pid /\ u[c] = mproc[c]
          BY <1>6, <2>1, <4>1, <4>2
        <4>4. c > x \/ (InUse(mproc, c) /\ mproc[c].mp_pid = 0)
          BY <4>1, <4>3 DEF IInv, Pids, FirstHasPid
        <4> QED
          BY <1>7, <4>2, <4>3, <4>4
      <3> QED
        BY <3>1, <3>2
    <2> QED
      BY <2>1, <2>2, <2>3 DEF Pids, k
  <1>15. Waiting(u, deserted)
    <2>1. \A x \in deserted : x \in Slots /\ x # z /\ WaitsIn(mproc, x)
      BY <1>4 DEF IInv, Waiting, WaitsIn
    <2> QED
      BY <1>7, <1>13, <2>1 DEF Waiting
  <1> QED
    BY <1>3, <1>6, <1>8, <1>10, <1>11, <1>12, <1>14, <1>15 DEF IInv, Families, Tree, u

\* Who leaves a group ends no wait for it any more; the waiter whom that leaves
\* without such a child is excepted.
LEMMA SetsidKeeps ==
    ASSUME IInv, NEW p \in Users, Setsid(p)
    PROVE  IInv'
  <1> DEFINE q == mproc[p].mp_parent
             u == mproc'
             pid == mproc[p].mp_pid
             left == /\ "WAITING" \in mproc[q].mp_flags
                     /\ mproc[q].mp_wpid = OfGroup(mproc[p].mp_procgrp)
                     /\ \A c \in ChildrenOf(q) \ {p} : ~(Alive(c) /\ AwaitedBy(q, c))
  <1>1. /\ Caller(p) /\ pid \in PIDS /\ p_pid' = p_pid
        /\ u = [mproc EXCEPT ![p].mp_procgrp = pid]
        /\ deserted' = IF left THEN deserted \cup {q} ELSE deserted
    BY DEF Setsid
  <1>2. /\ Tree(mproc) /\ ZombiesNumbered(mproc) /\ Waiting(mproc, deserted)
        /\ WaitersBut(mproc, deserted) /\ Pids(mproc, p_pid)
        /\ mproc \in TableType /\ p \in Slots /\ AliveIn(mproc, p) /\ InUse(mproc, p)
        /\ p # MM_PROC_NR
    BY <1>1, CallerIs DEF IInv, Families, Waiting
  <1>3. q \in Slots /\ q # p /\ AliveIn(mproc, q) /\ mproc[p] \in EntryType
    BY <1>2, EntryIs, NotOwnParent DEF Tree, ParentsAlive
  <1>4. /\ u \in TableType
        /\ \A c \in Slots : /\ c # p => u[c] = mproc[c]
                            /\ u[c].mp_flags = mproc[c].mp_flags
                            /\ u[c].mp_parent = mproc[c].mp_parent
                            /\ u[c].mp_pid = mproc[c].mp_pid
                            /\ u[c].mp_wpid = mproc[c].mp_wpid
    <2> DEFINE e == [mproc[p] EXCEPT !.mp_procgrp = pid]
    <2>1. /\ e \in EntryType /\ e.mp_flags = mproc[p].mp_flags
          /\ e.mp_parent = mproc[p].mp_parent /\ e.mp_pid = mproc[p].mp_pid
          /\ e.mp_wpid = mproc[p].mp_wpid
      BY <1>1, <1>3 DEF EntryType
    <2>2. u = [mproc EXCEPT ![p] = e]
      BY <1>1, <1>2, <1>3 DEF TableType, EntryType
    <2> HIDE DEF e, u
    <2> QED
      BY <1>2, <2>1, <2>2 DEF TableType
  <1> HIDE DEF u, left
  <1>5. \A c \in Slots : /\ InUse(u, c) <=> InUse(mproc, c)
                         /\ AliveIn(u, c) <=> AliveIn(mproc, c)
                         /\ WaitsIn(u, c) <=> WaitsIn(mproc, c)
    BY <1>4 DEF InUse, AliveIn, WaitsIn
  <1>6. Tree(u)
    <2>1. Founded(u)
      BY <1>2, <1>4, <1>5, SlotNumbers DEF Tree, Founded
    <2>2. \A c \in Slots : InUse(u, c) =>
             u[c].mp_parent = mproc[c].mp_parent /\ AliveIn(u, mproc[c].mp_parent)
      <3> SUFFICES ASSUME NEW c \in Slots, InUse(u, c)
                   PROVE  AliveIn(u, mproc[c].mp_parent)
        BY <1>4
      <3>1. mproc[c].mp_parent \in Slots /\ AliveIn(mproc, mproc[c].mp_parent)
        BY <1>2, <1>5, EntryIs DEF Tree, ParentsAlive
      <3> QED
        BY <1>5, <3>1
    <2> QED
      BY <1>2, <1>4, <1>5, <2>1, <2>2, TreeKept
  <1>7. ZombiesNumbered(u)
    BY <1>2, <1>4, <1>5 DEF ZombiesNumbered
  <1>8. WaitersBut(u, deserted')
    <2> SUFFICES ASSUME NEW x \in Slots, x \notin deserted', WaitsIn(u, x)
                 PROVE  \E c \in Slots : Awaits(u, x, c)
      BY DEF WaitersBut
    <2>1. x \notin deserted /\ WaitsIn(mproc, x) /\ (left => x # q)
      BY <1>1, <1>5
    <2>2. PICK c \in Slots : Awaits(mproc, x, c)
      BY <1>2, <2>1 DEF WaitersBut
    <2>3. ASSUME NEW d \in Slots, d # p, Awaits(mproc, x, d)
          PROVE  Awaits(u, x, d)
      BY <1>4, <1>5, <2>3 DEF Awaits, isChild
    <2>4. CASE c # p
      BY <2>2, <2>3, <2>4
    <2>5. CASE c = p /\ mproc[x].mp_wpid \in {ANY_CHILD, OfPid(pid)}
      <3>1. Awaits(u, x, p)
        BY <1>4, <1>5, <2>2, <2>5 DEF Awaits, isChild
      <3> QED
        BY <1>2, <3>1
    <2>6. CASE c = p /\ mproc[x].mp_wpid \notin {ANY_CHILD, OfPid(pid)}
      <3>1. x = q /\ mproc[q].mp_wpid = OfGroup(mproc[p].mp_procgrp) /\ ~left
        BY <2>1, <2>2, <2>6 DEF Awaits, isChild
      <3>2. PICK d \in ChildrenOf(q) \ {p} : Alive(d) /\ AwaitedBy(q, d)
        BY <2>1, <3>1 DEF left, WaitsIn
      <3>3. d \in Slots /\ d # p /\ Awaits(mproc, x, d)
        BY <3>1, <3>2 DEF ChildrenOf, Alive, AliveIn, AwaitedBy, Wanted, Awaits
      <3> QED
        BY <2>3, <3>3
    <2> QED
      BY <2>4, <2>5, <2>6
  <1>9. \A x \in deserted' : x \in Slots /\ WaitsIn(u, x)
    <2>1. left => WaitsIn(mproc, q)
      BY <1>3 DEF left, WaitsIn, AliveIn
    <2> QED
      BY <1>1, <1>2, <1>3, <1>5, <2>1 DEF Waiting
  <1>10. Pids(u, p_pid)
    <2>1. \A c \in Slots : /\ InUse(u, c) => InUse(mproc, c)
                           /\ u[c].mp_pid \in {0, mproc[c].mp_pid}
                           /\ InUse(mproc, c) /\ ~InUse(u, c) => mproc[c].mp_pid # 0
      BY <1>4, <1>5
    <2> QED
      BY <1>2, <2>1, PidsKept
  <1> QED
    BY <1>1, <1>6, <1>7, <1>8, <1>9, <1>10 DEF IInv, Families, Waiting, u

\* The kernel forgets the number of a server (system.c:999-1010).
LEMMA SYSSIGNONKeeps ==
    ASSUME IInv, NEW p \in Users, SYSSIGNON(p)
    PROVE  IInv'
  <1>1. p \in Slots /\ mproc' = mproc /\ p_pid' = [p_pid EXCEPT ![p] = 0]
        /\ deserted' = deserted
    BY SlotNumbers DEF SYSSIGNON
  <1> DEFINE k == p_pid'
  <1>2. /\ k \in [Slots -> PIDS \cup {0, 1}] /\ k[p] = 0
        /\ \A c \in Slots : c # p => k[c] = p_pid[c]
    BY <1>1 DEF IInv, Pids
  <1> HIDE DEF k
  <1>3. Pids(mproc, k)
    BY <1>2 DEF IInv, Pids, PidsAgree, FirstHasPid
  <1> QED
    BY <1>1, <1>3 DEF IInv, k

\* Only MM, FS and INIT run at the start.
LEMMA InitIInv == Init => IInv
  <1> SUFFICES ASSUME Init PROVE IInv
    OBVIOUS
  <1>1. /\ MM_PROC_NR \in Slots /\ INIT_PROC_NR \in Slots
        /\ \A p \in Slots : /\ mproc[p].mp_parent = MM_PROC_NR /\ mproc[p].mp_wpid = ANY_CHILD
                            /\ mproc[p].mp_procgrp = 0
                            /\ mproc[p].mp_pid = (IF p = INIT_PROC_NR THEN 1 ELSE 0)
                            /\ mproc[p].mp_flags = (IF p <= INIT_PROC_NR THEN {"IN_USE"} ELSE {})
    BY SlotNumbers DEF Init, Entry0
  <1>2. mproc \in TableType
    <2>1. \A p \in Slots : Entry0(IF p = INIT_PROC_NR THEN 1 ELSE 0,
                                  IF p <= INIT_PROC_NR THEN {"IN_USE"} ELSE {}) \in EntryType
      BY <1>1 DEF Entry0, EntryType, Flags, WaitArgs
    <2> HIDE DEF EntryType
    <2> QED
      BY <2>1 DEF Init, TableType
  <1>3. /\ \A p \in Slots : InUse(mproc, p) <=> p <= INIT_PROC_NR
        /\ \A p \in Slots : AliveIn(mproc, p) <=> p <= INIT_PROC_NR
        /\ \A p \in Slots : ~WaitsIn(mproc, p) /\ "WAITING" \notin mproc[p].mp_flags
    BY <1>1 DEF InUse, AliveIn, WaitsIn
  <1>4. Founded(mproc) /\ ParentsAlive(mproc)
    BY <1>1, <1>3 DEF Founded, ParentsAlive, MM_PROC_NR, INIT_PROC_NR
  <1>5. Rooted(mproc)
    BY <1>1 DEF Rooted
  <1>6. ZombiesNumbered(mproc) /\ Waiting(mproc, deserted)
    <2>1. deserted = {}
      BY DEF Init
    <2> QED
      BY <1>3, <2>1 DEF ZombiesNumbered, Waiting, WaitersBut, AliveIn
  <1>7. p_pid = [p \in Slots |-> IF p = INIT_PROC_NR THEN 1 ELSE 0]
    BY DEF Init
  <1>8. p_pid \in [Slots -> PIDS \cup {0, 1}]
    BY <1>7
  <1>9. PidsAgree(mproc, p_pid)
    BY <1>1, <1>7 DEF PidsAgree
  <1>10. FirstHasPid(mproc, p_pid)
    BY <1>1, <1>7 DEF FirstHasPid
  <1> QED
    BY <1>2, <1>4, <1>5, <1>6, <1>8, <1>9, <1>10 DEF IInv, Families, Tree, Pids

\* The inductive invariant is one.
LEMMA NextIInv == IInv /\ [Next]_vars => IInv'
  <1> SUFFICES ASSUME IInv, [Next]_vars PROVE IInv'
    OBVIOUS
  <1>1. ASSUME NEW p \in Users, Fork(p) \/ Setsid(p) \/ Exit(p) \/ MMSIGNON(p) \/ SYSSIGNON(p)
        PROVE  IInv'
    BY <1>1, ForkKeeps, SetsidKeeps, ExitKeeps, MMSIGNONKeeps, SYSSIGNONKeeps
  <1>2. ASSUME NEW p \in Users, NEW wpid \in WaitArgs, Wait(p, wpid)
        PROVE  IInv'
    BY <1>2, WaitKeeps
  <1>3. CASE UNCHANGED vars
    BY <1>3 DEF vars, IInv
  <1> QED
    BY <1>1, <1>2, <1>3 DEF Next

\* It holds in every reachable state.
THEOREM Invariance == Spec => []IInv
  BY InitIInv, NextIInv, PTL DEF Spec

\* A table that is a tree has the type the run checks.
LEMMA TreeTyped == IInv => TypeOK
  <1> SUFFICES ASSUME IInv PROVE TypeOK
    OBVIOUS
  <1>1. /\ Tree(mproc) /\ mproc \in TableType /\ p_pid \in [Slots -> PIDS \cup {0, 1}]
        /\ \A p \in deserted : InUse(mproc, p) /\ "WAITING" \in mproc[p].mp_flags
    BY DEF IInv, Families, Waiting, WaitsIn, Tree, Pids
  <1>2. \A p \in Slots : /\ mproc[p].mp_flags \subseteq {"IN_USE", "ZOMBIE", "WAITING"}
                         /\ mproc[p].mp_procgrp \in PIDS \cup {0}
                         /\ p_pid[p] \in PIDS \cup {0, 1}
    BY <1>1, EntryIs DEF Flags
  <1>3. ASSUME NEW p \in Existing
        PROVE  Alive(mproc[p].mp_parent) /\ Level(p, MM_PROC_NR) < NR_PROCS
    <2>1. p \in Slots /\ InUse(mproc, p)
      BY DEF Existing
    <2>2. Alive(mproc[p].mp_parent)
      BY <1>1, <2>1 DEF Tree, ParentsAlive, Alive, AliveIn
    <2> DEFINE levels == {k \in 0 .. NR_PROCS - 1 : Ancestor(p)[k] = MM_PROC_NR}
    <2>3. levels # {} /\ levels \subseteq Nat
      BY <1>1, <2>1, LineEnds, SlotNumbers DEF N
    <2>4. Level(p, MM_PROC_NR) = Min(levels)
      BY <2>3 DEF Level
    <2>5. Min(levels) \in levels
      <3> HIDE DEF levels
      <3> QED
        BY <2>3, MinIs
    <2> QED
      BY <2>2, <2>4, <2>5, SlotNumbers
  <1> QED
    BY <1>1, <1>2, <1>3 DEF TypeOK

\* Every existing process has a living parent and a line of parents to MM,
\* whatever exits, is killed or becomes a server.
THEOREM TypeCorrect == Spec => []TypeOK
  BY Invariance, TreeTyped, PTL

\* A process waits only while it has a child whose end would end the wait, for
\* waits for any child, for a pid and for a group, unless the last child left the
\* group; that MM releases the parent of a new server is needed for it
\* (misc.c:112-120).
THEOREM WaitersHaveChildrenHolds == Spec => []WaitersHaveChildren
  <1>1. IInv => WaitersHaveChildren
    <2> SUFFICES ASSUME IInv, NEW p \in Existing \ deserted, "WAITING" \in mproc[p].mp_flags
                 PROVE  \E c \in ChildrenOf(p) : Alive(c) /\ Wanted(mproc[p].mp_wpid, c)
      BY TreeTyped DEF WaitersHaveChildren
    <2>1. p \in Slots /\ p \notin deserted /\ WaitsIn(mproc, p)
      BY DEF Existing, WaitsIn
    <2>2. PICK c \in Slots : Awaits(mproc, p, c)
      BY <2>1 DEF IInv, Waiting, WaitersBut
    <2> QED
      BY <2>2 DEF Awaits, ChildrenOf, Alive, AliveIn, Wanted
  <1> QED
    BY Invariance, <1>1, PTL

\* The search of the group calls from the first slot up finds the process that
\* lives under the pid (system.c:202-214), however many dead slots have it too.
THEOREM GroupCallsReachLiveHolds == Spec => []GroupCallsReachLive
  <1>1. IInv => GroupCallsReachLive
    <2> SUFFICES ASSUME IInv, \A p \in Existing : mproc[p].mp_pid = 0 => p_pid[p] = 0,
                        NEW p \in Users, Alive(p), p_pid[p] # 0
                 PROVE  findProcDescriptor(mproc[p].mp_pid) = p
      BY DEF GroupCallsReachLive
    <2> DEFINE pid == mproc[p].mp_pid
               found == {c \in Slots : p_pid[c] # 0 /\ p_pid[c] = pid}
    <2>1. p \in Slots /\ InUse(mproc, p)
      BY SlotNumbers DEF Alive
    <2>2. pid # 0 /\ p_pid[p] = pid
      BY <2>1 DEF Existing, IInv, Pids, PidsAgree
    <2>3. p \in found /\ found \subseteq Nat
      BY <2>1, <2>2, SlotNumbers
    <2>4. \A c \in found : c # p => c > p
      <3> SUFFICES ASSUME NEW c \in found, c # p
                   PROVE  c > p
        OBVIOUS
      <3>1. c \in Slots /\ p_pid[c] = pid /\ p_pid[c] # 0
        OBVIOUS
      <3>2. ~(InUse(mproc, c) /\ mproc[c].mp_pid = 0)
        BY <3>1 DEF Existing
      <3> QED
        BY <2>1, <2>2, <3>1, <3>2 DEF IInv, Pids, FirstHasPid
    <2>5. findProcDescriptor(pid) = Min(found)
      BY <2>3 DEF findProcDescriptor
    <2> HIDE DEF found, pid
    <2>6. Min(found) \in found /\ Min(found) <= p
      BY <2>3, MinIs
    <2>7. Min(found) = p
      <3>1. Min(found) \in Nat /\ p \in Nat
        BY <2>3, <2>6
      <3> QED
        BY <2>4, <2>6, <3>1
    <2> QED
      BY <2>5, <2>7 DEF pid
  <1> QED
    BY Invariance, <1>1, PTL
=============================================================================
