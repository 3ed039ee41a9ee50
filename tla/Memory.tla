------------------------------- MODULE Memory -------------------------------
(* Memory management in src/memory-management/src/mm/alloc.c: allocation by  *)
(* first or worst fit, and the swapping of whole processes.                  *)
(*                                                                           *)
(* The memory manager serves one request at a time, and looks at the inswap  *)
(* queue after each.  A request is broken into steps where it loops: one     *)
(* round of alloc_mem's do loop, one round of swap_in's while loop.  What    *)
(* fork, exit, signals and wait do to a process (mm/forkexit.c, signal.c,    *)
(* main.c) is not in the repository: it is modelled from how alloc.c uses    *)
(* the fields of mproc, and marked external.                                 *)
EXTENDS HoleList, FiniteSets

CONSTANTS
    NR_PROCS,       \* user processes have the numbers 1..NR_PROCS
    NR_HOLES,       \* entries of the hole table
    Chunks,         \* the sequence of memory chunks SYS_MEM reports
    SwapSize,       \* clicks on the swap device
    Sizes           \* clicks a process may need

ASSUME MemoryAssumption ==
    /\ NR_PROCS \in Nat \ {0}
    /\ NR_HOLES \in Nat
    /\ SwapSize \in Nat
    /\ Sizes \subseteq Nat \ {0}

\* A chunk of no clicks ends the list (alloc.c:268), and there is some memory.
ASSUME ChunksAssumption ==
    /\ Chunks \in Seq([base : Nat, len : Nat \ {0}])
    /\ Chunks # << >>
    /\ \A i, j \in DOMAIN Chunks : i # j =>
           Span(Chunks[i].base, Chunks[i].len) \cap Span(Chunks[j].base, Chunks[j].len) = {}

VARIABLES
    holes,          \* the list at hole_head
    isWorstFit,
    swapping,       \* swap_fd # -1
    mproc,          \* mproc[p]: where it is, and its flags
    in_queue,       \* the inswap queue
    outswap,        \* the process swapped out last
    mode            \* what the memory manager is at

vars == <<holes, isWorstFit, swapping, mproc, in_queue, outswap, mode>>

Procs == 1..NR_PROCS

\* mem_init(): one free_mem for each chunk.
freed[i \in 0..Len(Chunks)] ==
    IF i = 0 THEN << >>
    ELSE free_mem(freed[i - 1], Chunks[i].base, Chunks[i].len)

InitialHoles == freed[Len(Chunks)]

\* ... and a swap area separated from memory by a click that is never free.
swap_base ==
    1 + (CHOOSE top \in {Chunks[i].base + Chunks[i].len : i \in DOMAIN Chunks} :
             \A i \in DOMAIN Chunks : Chunks[i].base + Chunks[i].len <= top)

Dead == [alive |-> FALSE, base |-> 0, size |-> 0,
         paused |-> FALSE, pending |-> FALSE,
         onswap |-> FALSE, swapin |-> FALSE]

\* Waiting for a request; running alloc_mem for a new process; running swap_in,
\* about to look at the cursor-th process of the queue; running alloc_mem for it.
\* `off` tells that swap_off called swap_in.
Idle == [at |-> "idle", who |-> 0, cursor |-> 0, off |-> FALSE]
Forking(p) == [Idle EXCEPT !.at = "fork", !.who = p]
Scanning(c, off) == [Idle EXCEPT !.at = "scan", !.cursor = c, !.off = off]
Refilling(p, c, off) == [at |-> "refill", who |-> p, cursor |-> c, off |-> off]

\* Following a pointer that is not a hole's: what comes then is undefined.
Lost == [Idle EXCEPT !.at = "lost"]

Init ==
    /\ holes = InitialHoles
    /\ isWorstFit = FALSE
    /\ swapping = FALSE
    /\ mproc = [p \in Procs |-> Dead]
    /\ in_queue = << >>
    /\ outswap = 1
    /\ mode = Idle

\* The main loop calls swap_in() when a request has been served.
Served == mode' = Scanning(1, FALSE)

-----------------------------------------------------------------------------
(* alloc_mem                                                                 *)

Allocating == mode.at \in {"fork", "refill"}
Wanted == mproc[mode.who].size

Fits == MemoryFits(holes, swap_base, Wanted)

Chosen == IF isWorstFit THEN Biggest(holes, Fits) ELSE First(Fits)

\* alloc_mem finds a hole for a new process.
AllocForFork ==
    /\ mode.at = "fork"
    /\ Fits # {}
    /\ holes' = Bite(holes, Chosen, Wanted)
    /\ mproc' = [mproc EXCEPT ![mode.who].base = holes[Chosen].base,
                              ![mode.who].alive = TRUE]
    /\ Served
    /\ UNCHANGED <<isWorstFit, swapping, in_queue, outswap>>

\* swap_in got memory: the process moves there and its swap area is freed.
\* check_pending wakes it if it was for a signal or reply that it came in.
AllocForSwapIn ==
    LET p == mode.who
    IN  /\ mode.at = "refill"
        /\ Fits # {}
        /\ holes' = free_mem(Bite(holes, Chosen, Wanted), mproc[p].base, Wanted)
        /\ mproc' = [mproc EXCEPT ![p].base = holes[Chosen].base,
                                  ![p].onswap = FALSE, ![p].swapin = FALSE,
                                  ![p].paused = @ /\ ~mproc[p].pending,
                                  ![p].pending = FALSE]
        /\ in_queue' = SubSeq(in_queue, 1, mode.cursor - 1)
                         \o SubSeq(in_queue, mode.cursor + 1, Len(in_queue))
        /\ mode' = Scanning(mode.cursor, mode.off)
        /\ UNCHANGED <<isWorstFit, swapping, outswap>>

\* The processes swap_out() may take, in its order: from the one after outswap
\* round to outswap itself.
Victims ==
    {p \in Procs : /\ mproc[p].paused
                   /\ ~mproc[p].onswap
                   /\ SwapFits(holes, swap_base, mproc[p].size) # {}}

Turn(p) == IF p > outswap THEN p - outswap ELSE p - outswap + NR_PROCS

Victim == CHOOSE p \in Victims : \A q \in Victims : Turn(p) <= Turn(q)

\* Slip: swap_out() gives up the victim's memory but keeps its old address.
SwapOutUnmoved ==
    LET i == First(SwapFits(holes, swap_base, mproc[Victim].size))
    IN  /\ Allocating
        /\ Fits = {}
        /\ Victims # {}
        /\ holes' = free_mem(Bite(holes, i, mproc[Victim].size),
                             mproc[Victim].base, mproc[Victim].size)
        /\ mproc' = [mproc EXCEPT ![Victim].onswap = TRUE]
        /\ outswap' = Victim
        /\ UNCHANGED <<isWorstFit, swapping, in_queue, mode>>

\* No hole is big enough: swap_out() moves one process to swap, and alloc_mem
\* tries again.
SwapOut ==
    LET i == First(SwapFits(holes, swap_base, mproc[Victim].size))
    IN  /\ Allocating
        /\ Fits = {}
        /\ Victims # {}
        /\ holes' = free_mem(Bite(holes, i, mproc[Victim].size),
                             mproc[Victim].base, mproc[Victim].size)
        /\ mproc' = [mproc EXCEPT ![Victim].base = holes[i].base,
                                  ![Victim].onswap = TRUE]
        /\ outswap' = Victim
        /\ UNCHANGED <<isWorstFit, swapping, in_queue, mode>>

\* Slip: swap_in tries the same process again.
NoMemStays ==
    /\ Allocating
    /\ Fits = {} /\ Victims = {}
    /\ \/ /\ mode.at = "fork"
          /\ mproc' = [mproc EXCEPT ![mode.who] = Dead]
          /\ Served
       \/ /\ mode.at = "refill"
          /\ mode' = Scanning(mode.cursor, mode.off)
          /\ UNCHANGED mproc
    /\ UNCHANGED <<holes, isWorstFit, swapping, in_queue, outswap>>

\* NO_MEM: fork fails; swap_in leaves the process queued and tries the next.
NoMem ==
    /\ Allocating
    /\ Fits = {} /\ Victims = {}
    /\ \/ /\ mode.at = "fork"
          /\ mproc' = [mproc EXCEPT ![mode.who] = Dead]
          /\ Served
       \/ /\ mode.at = "refill"
          /\ mode' = Scanning(mode.cursor + 1, mode.off)
          /\ UNCHANGED mproc
    /\ UNCHANGED <<holes, isWorstFit, swapping, in_queue, outswap>>

-----------------------------------------------------------------------------
(* swap_in and swap_off                                                      *)

\* One round of swap_in's loop: a process killed meanwhile leaves the queue, any
\* other is given memory.
Scan ==
    /\ mode.at = "scan"
    /\ mode.cursor <= Len(in_queue)
    /\ LET p == in_queue[mode.cursor]
       IN  \/ /\ ~mproc[p].swapin
              /\ in_queue' = SubSeq(in_queue, 1, mode.cursor - 1)
                               \o SubSeq(in_queue, mode.cursor + 1, Len(in_queue))
              /\ UNCHANGED mode
           \/ /\ mproc[p].swapin
              /\ mode' = Refilling(p, mode.cursor, mode.off)
              /\ UNCHANGED in_queue
    /\ UNCHANGED <<holes, isWorstFit, swapping, mproc, outswap>>

\* swap_in returns to the main loop.
ScanDone ==
    /\ mode.at = "scan" /\ ~mode.off
    /\ mode.cursor > Len(in_queue)
    /\ mode' = Idle
    /\ UNCHANGED <<holes, isWorstFit, swapping, mproc, in_queue, outswap>>

\* swap_in returns to swap_off, which removes the swap hole and closes the
\* device when no process is left there.  By then the swap area is one hole, the
\* last of the list; after removing it the loop reads the link of hole_head,
\* which is NIL if no memory is free.
SwapOffDone ==
    /\ mode.at = "scan" /\ mode.off
    /\ mode.cursor > Len(in_queue)
    /\ LET swapHoles == {i \in 1..Len(holes) : holes[i].base >= swap_base}
           kept == IF swapHoles = {} THEN holes ELSE del_slot(holes, First(swapHoles))
       IN  \/ /\ \E p \in Procs : mproc[p].onswap        \* ENOMEM
              /\ Served
              /\ UNCHANGED <<holes, swapping>>
           \/ /\ \A p \in Procs : ~mproc[p].onswap
              /\ holes' = kept /\ swapping' = FALSE
              /\ Served
           \/ /\ \A p \in Procs : ~mproc[p].onswap
              /\ kept = << >> /\ holes # << >>
              /\ holes' = kept /\ mode' = Lost
              /\ UNCHANGED swapping
    /\ UNCHANGED <<isWorstFit, mproc, in_queue, outswap>>

\* The members of S in ascending order.
Ascending(S) ==
    [i \in 1..Cardinality(S) |->
        CHOOSE p \in S : Cardinality({q \in S : q < p}) = i - 1]

\* Slip: a process that is in the queue already is queued again.
QueueAll(S) == S

\* swap_inqueue() queues those that are not queued already.
ToQueue(S) == {p \in S : ~mproc[p].swapin}

\* mproc after swap_inqueue() for every process in S.
Marked(S) == [p \in Procs |-> [mproc[p] EXCEPT !.swapin = @ \/ p \in S]]

\* swap_inqueue() for every process in S, in the order of their numbers.
swap_inqueue(S) == in_queue' = in_queue \o Ascending(ToQueue(S))

\* swap_off() up to its call of swap_in().
swap_off ==
    /\ mode = Idle
    /\ swapping
    /\ LET swapped == {p \in Procs : mproc[p].onswap}
       IN  swap_inqueue(swapped) /\ mproc' = Marked(swapped)
    /\ mode' = Scanning(1, TRUE)
    /\ UNCHANGED <<holes, isWorstFit, swapping, outswap>>

swap_on ==
    /\ mode = Idle
    /\ ~swapping
    /\ holes' = free_mem(holes, swap_base, SwapSize)
    /\ swapping' = TRUE
    /\ Served
    /\ UNCHANGED <<isWorstFit, mproc, in_queue, outswap>>

-----------------------------------------------------------------------------
(* Requests                                                                  *)

do_worst_fit ==
    /\ mode = Idle
    /\ isWorstFit' \in BOOLEAN
    /\ Served
    /\ UNCHANGED <<holes, swapping, mproc, in_queue, outswap>>

\* A fork or exec needs memory for slot p.
Fork(p, size) ==
    /\ mode = Idle
    /\ ~mproc[p].alive
    /\ mproc' = [mproc EXCEPT ![p] = [Dead EXCEPT !.size = size]]
    /\ mode' = Forking(p)
    /\ UNCHANGED <<holes, isWorstFit, swapping, in_queue, outswap>>

\* Process p ends, wherever it is; its place in the queue is left to swap_in.
Exit(p) ==
    /\ mode = Idle
    /\ mproc[p].alive
    /\ holes' = free_mem(holes, mproc[p].base, mproc[p].size)
    /\ mproc' = [mproc EXCEPT ![p] = Dead]
    /\ Served
    /\ UNCHANGED <<isWorstFit, swapping, in_queue, outswap>>

\* Process p blocks in wait, pause or sigsuspend.
Pause(p) ==
    /\ mode = Idle
    /\ mproc[p].alive /\ ~mproc[p].paused
    /\ mproc' = [mproc EXCEPT ![p].paused = TRUE]
    /\ Served
    /\ UNCHANGED <<holes, isWorstFit, swapping, in_queue, outswap>>

\* A signal or reply for p: at once in memory, through the queue on swap.
Wake(p) ==
    /\ mode = Idle
    /\ mproc[p].paused
    /\ \/ /\ mproc[p].onswap
          /\ swap_inqueue({p})
          /\ mproc' = [Marked({p}) EXCEPT ![p].pending = TRUE]
       \/ /\ ~mproc[p].onswap
          /\ mproc' = [mproc EXCEPT ![p].paused = FALSE]
          /\ UNCHANGED in_queue
    /\ Served
    /\ UNCHANGED <<holes, isWorstFit, swapping, outswap>>

Next ==
    \/ AllocForFork \/ AllocForSwapIn \/ SwapOut \/ NoMem
    \/ Scan \/ ScanDone \/ SwapOffDone
    \/ swap_on \/ swap_off \/ do_worst_fit
    \/ \E p \in Procs :
           \/ \E size \in Sizes : Fork(p, size)
           \/ Exit(p) \/ Pause(p) \/ Wake(p)

Spec == Init /\ [][Next]_vars

-----------------------------------------------------------------------------
(* Properties                                                                *)

Clicks == 0..(swap_base + SwapSize)

\* Every variable has its type; the list fits into the table even while
\* free_mem has taken a slot that merge has not given back yet ("Hole table
\* full", alloc.c:146).
TypeOK ==
    /\ \A i \in 1..Len(holes) : holes[i] \in [base : Clicks, len : Clicks \ {0}]
    /\ Len(holes) < NR_HOLES
    /\ isWorstFit \in BOOLEAN /\ swapping \in BOOLEAN
    /\ in_queue \in Seq(Procs)
    /\ outswap \in Procs
    /\ mode.at \in {"idle", "fork", "scan", "refill", "lost"}

\* The holes are in the order of their addresses and do not touch: all that
\* can be merged is merged (alloc.c:139-141).
HolesApart ==
    \A i \in 1..Len(holes) - 1 : holes[i].base + holes[i].len < holes[i + 1].base

Block(p) == Span(mproc[p].base, mproc[p].size)
Living == {p \in Procs : mproc[p].alive}

MemoryClicks == UNION {Span(Chunks[i].base, Chunks[i].len) : i \in DOMAIN Chunks}
SwapClicks == IF swapping /\ mode # Lost THEN Span(swap_base, SwapSize) ELSE {}

\* Every click of memory and of the swap area is in one hole or belongs to one
\* process, and nothing else is: no leak and no overlap, whatever sequence of
\* forks, exits and swaps there was.
ClicksAccounted ==
    /\ MemoryClicks \cup SwapClicks =
           FreeClicks(holes) \cup UNION {Block(p) : p \in Living}
    /\ \A p \in Living : Block(p) \cap FreeClicks(holes) = {}
    /\ \A p, q \in Living : p # q => Block(p) \cap Block(q) = {}

\* A process is marked ONSWAP exactly when its memory is in the swap area
\* (alloc.c:397, 452), so swap_in frees swap and swap_out frees memory; one
\* marked SWAPIN is on swap and in the queue, once: swap_inqueue relies on the
\* flag alone (alloc.c:350).
SwapFlagsTrue ==
    /\ \A p \in Living : /\ mproc[p].onswap <=> mproc[p].base >= swap_base
                         /\ mproc[p].swapin => mproc[p].onswap
    /\ \A p \in Procs : mproc[p].swapin =>
           Cardinality({i \in 1..Len(in_queue) : in_queue[i] = p}) = 1

\* How many steps a call can still take: the processes of the queue that the
\* cursor has not passed, for each of them those that can be swapped out, and
\* for swap_off the pass over the queue that the main loop makes afterwards.
StepsLeft ==
    LET round == NR_PROCS + 3
        pass == 1 + round * Len(in_queue)
        rest == 1 + round * (Len(in_queue) + 1 - mode.cursor)
        inMemory == Cardinality({p \in Procs : ~mproc[p].onswap})
        after == IF mode.off THEN pass ELSE 0
    IN  CASE mode.at = "fork" -> pass + 1 + inMemory
          [] mode.at = "scan" -> rest + after
          [] mode.at = "refill" -> rest - (NR_PROCS + 2) + inMemory + after
          [] OTHER -> 0

\* Every call ends: each round of the loops of alloc_mem and swap_in, both of
\* which change what the other works on and may swap a process out that was
\* brought in by the same call, gets the call nearer to its end.
CallsEnd ==
    [][mode # Idle => StepsLeft' \in Nat /\ StepsLeft' < StepsLeft]_vars
=============================================================================
