---------------------------- MODULE ProcessTable ----------------------------
(* The process tables of MM and of the kernel, over which the searches of   *)
(* ProcTree run and in which the group calls find a process by its pid.  A  *)
(* slot of the kernel keeps the pid of its last process until it is taken   *)
(* again.  MM serves one call at a time and waits for the system task, so a *)
(* call is one step.  fork, setsid, exit and wait of MM are not in the      *)
(* repository: they are modelled from what the code here relies on.         *)
EXTENDS ProcTree

CONSTANTS PIDS,      \* numbers that MM gives to processes, and gives again
          LEADERS    \* bound: the slots whose processes may call setsid

ASSUME PidsAssumption == PIDS \cap {-1, 0, 1} = {}

MM_PROC_NR == 0
FS_PROC_NR == 1
INIT_PROC_NR == 2
NoSlot == -1

\* What a process waits for: -1, a pid or the negated number of a group.
ANY_CHILD == <<"any", 0>>
OfPid(pid) == <<"pid", pid>>
OfGroup(group) == <<"group", group>>
Groups == {OfGroup(n) : n \in PIDS}
WaitArgs == {ANY_CHILD} \cup {OfPid(n) : n \in PIDS} \cup Groups

Users == {p \in Slots : p >= INIT_PROC_NR}

\* MM, FS and INIT have their slots.
ASSUME InitAssumption == INIT_PROC_NR \in Slots

VARIABLES mproc,       \* MM's table
          p_pid,       \* that of the kernel's slots
          deserted     \* history: who waits for a group that its last child there left

vars == <<mproc, p_pid, deserted>>

Entry0(pid, flags) ==
  [mp_pid |-> pid, mp_procgrp |-> 0, mp_parent |-> MM_PROC_NR, mp_flags |-> flags,
   mp_wpid |-> ANY_CHILD]

Init ==
  /\ mproc = [p \in Slots |-> Entry0(IF p = INIT_PROC_NR THEN 1 ELSE 0,
                                     IF p <= INIT_PROC_NR THEN {"IN_USE"} ELSE {})]
  /\ p_pid = [p \in Slots |-> IF p = INIT_PROC_NR THEN 1 ELSE 0]
  /\ deserted = {}

Alive(p) == InUse(mproc, p) /\ "ZOMBIE" \notin mproc[p].mp_flags

Caller(p) == p \in Users /\ Alive(p) /\ "WAITING" \notin mproc[p].mp_flags

ChildrenOf(p) == {c \in Slots \ {p} : isChild(mproc, p, c)}

Wanted(wpid, c) == wpid \in {ANY_CHILD, OfPid(mproc[c].mp_pid), OfGroup(mproc[c].mp_procgrp)}

\* The parent is waiting for c.
AwaitedBy(parent, c) ==
  "WAITING" \in mproc[parent].mp_flags /\ Wanted(mproc[parent].mp_wpid, c)

Released(t, parent) == [t EXCEPT ![parent].mp_flags = @ \ {"WAITING"},
                                 ![parent].mp_wpid = ANY_CHILD]

Cleaned(t, c) == [t EXCEPT ![c].mp_flags = {}, ![c].mp_procgrp = 0, ![c].mp_wpid = ANY_CHILD]

\* The history of a wait ends with it.
StillDeserted == {p \in deserted : InUse(mproc', p) /\ "WAITING" \in mproc'[p].mp_flags}

---------------------------------------------------------------------------
(* fork, setsid, exit and wait *)

\* The child takes the first free slot and a number that no process and no group
\* has, and joins its parent's group; the kernel's slot becomes its own.
Fork(p) ==
  /\ Caller(p)
  /\ {c \in Slots : ~InUse(mproc, c)} # {}
  /\ LET child == Min({c \in Slots : ~InUse(mproc, c)}) IN
     \E pid \in PIDS \ UNION {{mproc[c].mp_pid, mproc[c].mp_procgrp} :
                              c \in {c \in Slots : InUse(mproc, c)}} :
       /\ mproc' = [mproc EXCEPT ![child] = [mproc[p] EXCEPT !.mp_pid = pid, !.mp_parent = p]]
       /\ p_pid' = [p_pid EXCEPT ![child] = pid]
  /\ UNCHANGED deserted

\* setsid: the caller leads a group of its own.  If its parent waits for the group
\* it leaves, and has no other child there, nobody is left to end that wait.
Setsid(p) ==
  /\ Caller(p) /\ p \in LEADERS
  /\ mproc[p].mp_pid \in PIDS /\ mproc[p].mp_procgrp # mproc[p].mp_pid
  /\ mproc' = [mproc EXCEPT ![p].mp_procgrp = mproc[p].mp_pid]
  /\ LET parent == mproc[p].mp_parent
         left == /\ "WAITING" \in mproc[parent].mp_flags
                 /\ mproc[parent].mp_wpid = OfGroup(mproc[p].mp_procgrp)
                 /\ \A c \in ChildrenOf(parent) \ {p} : ~(Alive(c) /\ AwaitedBy(parent, c))
     IN deserted' = IF left THEN deserted \cup {parent} ELSE deserted
  /\ UNCHANGED p_pid

\* Its children go to INIT, which may be waiting for one that is a zombie.
Orphaned(t, p) ==
  LET moved == [c \in Slots |-> IF InUse(t, c) /\ t[c].mp_parent = p
                                  THEN [t[c] EXCEPT !.mp_parent = INIT_PROC_NR] ELSE t[c]]
      zombies == {c \in ChildrenOf(p) : "ZOMBIE" \in t[c].mp_flags
                                        /\ AwaitedBy(INIT_PROC_NR, c)}
  IN IF zombies = {} THEN moved
     ELSE Released(Cleaned(moved, Min(zombies)), INIT_PROC_NR)

\* Servers and INIT stay; a user process may also be killed while it waits.
Exit(p) ==
  /\ p \in Users \ {INIT_PROC_NR} /\ Alive(p) /\ mproc[p].mp_pid # 0
  /\ LET parent == mproc[p].mp_parent
         t == Orphaned(mproc, p)
     IN mproc' = IF AwaitedBy(parent, p) THEN Released(Cleaned(t, p), parent)
                 ELSE [t EXCEPT ![p].mp_flags = {"IN_USE", "ZOMBIE"}, ![p].mp_wpid = ANY_CHILD]
  /\ deserted' = StillDeserted
  /\ UNCHANGED p_pid

\* A zombie is cleaned up; without one the caller waits, if it has such a child.
\* INIT does not wait for groups.
Wait(p, wpid) ==
  /\ Caller(p) /\ (p = INIT_PROC_NR => wpid \notin Groups)
  /\ LET wanted == {c \in ChildrenOf(p) : Wanted(wpid, c)}
         zombies == {c \in wanted : "ZOMBIE" \in mproc[c].mp_flags}
     IN /\ wanted # {}
        /\ mproc' = IF zombies # {} THEN Cleaned(mproc, Min(zombies))
                    ELSE [mproc EXCEPT ![p].mp_flags = @ \cup {"WAITING"}, ![p].mp_wpid = wpid]
  /\ deserted' = StillDeserted
  /\ UNCHANGED p_pid

---------------------------------------------------------------------------
(* A process that becomes a server: do_svrctl of MM, do_sysctl of the kernel *)

\* Slip: a parent that waits for the group is not released.
MMSIGNONNoGroup(p) ==
  /\ Caller(p) /\ p # INIT_PROC_NR
  /\ LET parent == mproc[p].mp_parent
         t == IF "WAITING" \in mproc[parent].mp_flags
                 /\ mproc[parent].mp_wpid \in {ANY_CHILD, OfPid(mproc[p].mp_pid)}
                THEN Released(mproc, parent) ELSE mproc
     IN mproc' = [c \in Slots |->
          IF c = p THEN [t[c] EXCEPT !.mp_pid = 0, !.mp_procgrp = 0, !.mp_parent = MM_PROC_NR]
          ELSE IF InUse(t, c) /\ t[c].mp_parent = p
            THEN [t[c] EXCEPT !.mp_parent = INIT_PROC_NR] ELSE t[c]]
  /\ deserted' = StillDeserted
  /\ UNCHANGED p_pid

\* As at an exit the parent is released and the children go to INIT.
MMSIGNON(p) ==
  /\ Caller(p) /\ p # INIT_PROC_NR
  /\ LET parent == mproc[p].mp_parent
         t == IF AwaitedBy(parent, p) THEN Released(mproc, parent) ELSE mproc
     IN mproc' = [c \in Slots |->
          IF c = p THEN [t[c] EXCEPT !.mp_pid = 0, !.mp_procgrp = 0, !.mp_parent = MM_PROC_NR]
          ELSE IF InUse(t, c) /\ t[c].mp_parent = p
            THEN [t[c] EXCEPT !.mp_parent = INIT_PROC_NR] ELSE t[c]]
  /\ deserted' = StillDeserted
  /\ UNCHANGED p_pid

SYSSIGNON(p) ==
  /\ Caller(p) /\ p # INIT_PROC_NR
  /\ p_pid' = [p_pid EXCEPT ![p] = 0]
  /\ UNCHANGED <<mproc, deserted>>

---------------------------------------------------------------------------
(* How the group calls find a process *)

\* Slip: the search goes down from the end of the table.
findProcDescriptorLast(pid) ==
  LET found == {p \in Slots : p_pid[p] # 0 /\ p_pid[p] = pid}
  IN IF found = {} THEN NoSlot ELSE Max(found)

findProcDescriptor(pid) ==
  LET found == {p \in Slots : p_pid[p] # 0 /\ p_pid[p] = pid}
  IN IF found = {} THEN NoSlot ELSE Min(found)

Next ==
  \/ \E p \in Users : Fork(p) \/ Setsid(p) \/ Exit(p) \/ MMSIGNON(p) \/ SYSSIGNON(p)
  \/ \E p \in Users, wpid \in WaitArgs : Wait(p, wpid)

Spec == Init /\ [][Next]_vars

---------------------------------------------------------------------------
(* Properties.  What the searches should find is said with the line of       *)
(* parents that every process has up to MM.                                  *)

Ancestor(p) ==
  LET up[k \in 0 .. NR_PROCS - 1] == IF k = 0 THEN p ELSE mproc[up[k - 1]].mp_parent IN up

Level(p, ancestor) ==
  LET levels == {k \in 0 .. NR_PROCS - 1 : Ancestor(p)[k] = ancestor}
  IN IF levels = {} THEN NR_PROCS ELSE Min(levels)

Existing == {p \in Slots : InUse(mproc, p)}

First(S) == IF S = {} THEN -1 ELSE mproc[Min(S)].mp_pid

TypeOK ==
  /\ \A p \in Slots : /\ mproc[p].mp_flags \subseteq {"IN_USE", "ZOMBIE", "WAITING"}
                      /\ mproc[p].mp_procgrp \in PIDS \cup {0}
                      /\ p_pid[p] \in PIDS \cup {0, 1}
  /\ \A p \in Existing : Alive(mproc[p].mp_parent) /\ Level(p, MM_PROC_NR) < NR_PROCS
  /\ \A p \in deserted : InUse(mproc, p) /\ "WAITING" \in mproc[p].mp_flags

\* Besides the types and the tree of parents: a process that MM lets wait has a
\* child that can still end the wait, also when children exit, are killed or
\* turn into servers (do_svrctl) - unless its last one in the group it waits for has
\* left that group.
WaitersHaveChildren ==
  /\ TypeOK
  /\ \A p \in Existing \ deserted : "WAITING" \in mproc[p].mp_flags =>
       \E c \in ChildrenOf(p) : Alive(c) /\ Wanted(mproc[p].mp_wpid, c)

\* The group calls reach the process that has the pid, although dead slots keep
\* theirs and pids come again - unless a process has become a server for MM only.
GroupCallsReachLive ==
  (\A p \in Existing : mproc[p].mp_pid = 0 => p_pid[p] = 0) =>
    \A p \in Users : Alive(p) /\ p_pid[p] # 0 => findProcDescriptor(mproc[p].mp_pid) = p

\* The lines from childless processes up to others.
Chains ==
  {[top |-> l[2], length |-> Level(l[1], l[2]) + 1,
    pids |-> {mproc[Ancestor(l[1])[k]].mp_pid : k \in 0 .. Level(l[1], l[2])}] :
     l \in {l \in Existing \X Existing : /\ ~procHasChildren(mproc, l[1])
                                        /\ Level(l[1], l[2]) < NR_PROCS}}

\* determinePathToChildless returns the length of the longest such line that avoids
\* excluded, or -1, though MM is its own parent and the stack no longer than the
\* table; of all processes LONGESTCHILDLESSCHAIN finds the first with the longest.
LongestChainFound ==
  LET chains == Chains
      Longest(p, pid) ==
        Max({-1} \cup {c.length : c \in {l \in chains : l.top = p /\ pid \notin l.pids}})
  IN \A excluded \in {mproc[p].mp_pid : p \in Existing} \cup {-1} :
       LET lengths == {<<p, Longest(p, excluded)>> : p \in Existing}
           longest == Max({l[2] : l \in lengths})
       IN /\ \A l \in lengths : determinePathToChildless(mproc, l[1], excluded) = l[2]
          /\ longestChildlessChain(mproc, excluded) =
               [most |-> longest,
                who |-> First({p \in Existing : <<p, longest>> \in lengths /\ longest # -1})]

\* The search by levels, the recursion and the one without a limit count the same
\* processes, however the table is filled (level 1 in any case), and the one with
\* the most is found: of all levels when their number is one from A to B.
DescendantsCounted ==
  LET levels == {<<c, p, Level(c, p)>> : c \in Existing, p \in Existing}
      Below(p, n) == Cardinality({l \in levels : l[2] = p /\ l[3] \in 1 .. n})
      Most(n) == LET counts == {<<p, Below(p, n)>> : p \in Existing}
                     most == Max({c[2] : c \in counts})
                 IN [who |-> First({p \in Existing : <<p, most>> \in counts}), most |-> most]
      all == Most(NR_PROCS - 1)
  IN /\ \A p \in Existing :
          /\ countAllDescendants(mproc, p) = Below(p, NR_PROCS - 1)
          /\ \A N \in 0 .. NR_PROCS - 1 :
               /\ countDescendants(mproc, p, N) = Below(p, Max({N, 1}))
               /\ countDescendantsRecursive(mproc, p, N) = Below(p, Max({N, 1}))
     /\ \A A \in {0, all.most}, B \in {all.most, NR_PROCS} :
          maxDescendantsInBounds(mproc, A, B) = all
     /\ \A N \in {1, 2} : maxNDescendants(mproc, N) = Most(N)
=============================================================================
