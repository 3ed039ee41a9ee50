---------------------------- MODULE KernelProofs ----------------------------
(* Proofs about MessagePassing, Alarms and Signals, for any tasks, servers,  *)
(* users, interrupts, delays and times.  All stand on the lemmas of          *)
(* MessagesProofs about the operators that change the kernel's tables.       *)
EXTENDS MessagePassing, Alarms, Signals, MessagesProofs

HardInt == Message(HARDWARE, "HARD_INT")

-----------------------------------------------------------------------------
(* Calls and interrupts (MessagePassing)                                     *)
(*                                                                           *)
(* An interrupt that a task has not received is held or blocked.  Only       *)
(* interrupt, unhold and mini_rec touch these two places; the lemmas say     *)
(* that all the other operators of Messages leave them alone, and that what  *)
(* these three take out of them they put into the other or into the inbox.   *)
(*                                                                           *)
(* The queues are right and nobody waits in vain: MessagesProofs says this   *)
(* of every operator, and here nobody has a signal or is stopped.            *)

\* a has the fields that interrupts pass through.
HasFields(a) == {"held", "int_blocked", "inbox", "rdy", "proc_ptr"} \subseteq DOMAIN a

\* b has the held and blocked interrupts of a, and inboxes for the same processes.
SameInterrupts(a, b) ==
    /\ DOMAIN b = DOMAIN a
    /\ b.held = a.held /\ b.int_blocked = a.int_blocked
    /\ DOMAIN b.inbox = DOMAIN a.inbox

SameInboxes(a, b) == SameInterrupts(a, b) /\ b.inbox = a.inbox

\* The tables that interrupts pass through have their types.
HeldTyped(a) ==
    /\ HasFields(a) /\ DOMAIN a.inbox = Procs
    /\ a.held \in Seq(INTERRUPTED) /\ a.int_blocked \subseteq INTERRUPTED

\* In b the interrupt of t is held, blocked or just received.
HasInterrupt(b, t) == t \in Members(b.held) \cup b.int_blocked \/ b.inbox[t] = HardInt

\* b has lost none of a's interrupts.
Keeps(a, b) == HeldTyped(b) /\ \A t \in Members(a.held) \cup a.int_blocked : HasInterrupt(b, t)

InterruptInv ==
    /\ HeldTyped(k)
    /\ unholding => k.held # << >>
    /\ InterruptsKept

-----------------------------------------------------------------------------
(* The operators that leave interrupts alone.                                *)

\* The queues are no place for interrupts.
LEMMA ReadyKeeps ==
    ASSUME NEW a, HasFields(a), NEW p
    PROVE  /\ SameInboxes(a, ready(a, p)) /\ SameInboxes(a, unready(a, p))
           /\ SameInboxes(a, ReadyIfRunnable(a, p)) /\ SameInboxes(a, UnreadyIfRunnable(a, p))
           /\ SameInboxes(a, pick_proc(a))
  <1>1. SameInboxes(a, ready(a, p))
    BY DEF ready, HasFields, SameInboxes, SameInterrupts
  <1>2. SameInboxes(a, pick_proc(a))
    BY DEF pick_proc, HasFields, SameInboxes, SameInterrupts
  <1>3. SameInboxes(a, unready(a, p))
    BY DEF unready, pick_proc, HasFields, SameInboxes, SameInterrupts
  <1>4. SameInboxes(a, ReadyIfRunnable(a, p)) /\ SameInboxes(a, UnreadyIfRunnable(a, p))
    BY <1>1, <1>3 DEF ReadyIfRunnable, UnreadyIfRunnable, SameInboxes, SameInterrupts
  <1> QED
    BY <1>1, <1>2, <1>3, <1>4

\* What leaves interrupts alone leaves the fields alone, and may be repeated.
LEMMA SameTwice ==
    ASSUME NEW a, HasFields(a), NEW b, SameInterrupts(a, b)
    PROVE  /\ HasFields(b)
           /\ \A c : SameInterrupts(b, c) => SameInterrupts(a, c)
  BY DEF HasFields, SameInterrupts

\* A message may be delivered or wait.
LEMMA SendKeeps ==
    ASSUME NEW a, HasFields(a), NEW p, NEW dest, NEW m
    PROVE  SameInterrupts(a, mini_send(a, p, dest, m).k)
  <1>1. SameInterrupts(a, Deliver(a, dest, m))
    <2> DEFINE b == [a EXCEPT !.inbox[dest] = m, !.p_getfrom[dest] = NONE]
    <2>1. SameInterrupts(a, b)
      BY DEF HasFields, SameInterrupts
    <2>2. HasFields(b)
      BY <2>1, SameTwice
    <2>3. Deliver(a, dest, m) = ReadyIfRunnable(b, dest)
      BY DEF Deliver
    <2> HIDE DEF b
    <2>4. SameInterrupts(b, ReadyIfRunnable(b, dest))
      BY <2>2, ReadyKeeps DEF SameInboxes
    <2> QED
      BY <2>1, <2>3, <2>4, SameTwice
  <1>2. SameInterrupts(a, BlockSending(a, p, dest, m))
    <2> DEFINE b == UnreadyIfRunnable(a, p)
    <2>1. SameInterrupts(a, b) /\ HasFields(b)
      BY ReadyKeeps, SameTwice DEF SameInboxes
    <2>2. BlockSending(a, p, dest, m) = [b EXCEPT !.p_messbuf[p] = m, !.p_sendto[p] = dest,
                                                  !.p_callerq[dest] = Append(@, p)]
      BY DEF BlockSending
    <2> HIDE DEF b
    <2> QED
      BY <2>1, <2>2 DEF HasFields, SameInterrupts
  <1> QED
    BY <1>1, <1>2 DEF mini_send, SameInterrupts

\* Telling MM of signals is a message.
LEMMA InformKeeps ==
    ASSUME NEW a, HasFields(a)
    PROVE  SameInterrupts(a, inform(a))
  <1>1. PICK p, ksig :
          LET k1 == mini_send(a, HARDWARE, MM, ksig).k
          IN inform(a) = pick_proc([k1 EXCEPT !.sig_procs = @ - 1,
                                              !.p_pending[p] = {},
                                              !.p_flags[p] = @ \ {"PENDING"}])
    BY DEF inform
  <1> DEFINE b == mini_send(a, HARDWARE, MM, ksig).k
             c == [b EXCEPT !.sig_procs = @ - 1, !.p_pending[p] = {},
                            !.p_flags[p] = @ \ {"PENDING"}]
  <1>2. SameInterrupts(a, b) /\ HasFields(b)
    BY SendKeeps, SameTwice
  <1>3. inform(a) = pick_proc(c)
    BY <1>1
  <1> HIDE DEF b
  <1>4. SameInterrupts(b, c) /\ HasFields(c)
    BY <1>2 DEF HasFields, SameInterrupts
  <1> HIDE DEF c
  <1>5. SameInterrupts(c, pick_proc(c))
    BY <1>4, ReadyKeeps DEF SameInboxes
  <1> QED
    BY <1>2, <1>3, <1>4, <1>5, SameTwice

\* A process that exits and one that is forked take no interrupts along.
LEMMA ExitForkKeep ==
    ASSUME NEW a, HasFields(a), NEW p, NEW q
    PROVE  /\ SameInterrupts(a, do_xit(a, p))
           /\ SameInterrupts(a, do_newmap(do_fork(a, p, q), q))
  <1>1. SameInterrupts(a, do_xit(a, p))
    <2> DEFINE b == UnreadyIfRunnable(a, p)
    <2>1. SameInterrupts(a, b) /\ HasFields(b)
      BY ReadyKeeps, SameTwice DEF SameInboxes
    <2> DEFINE c == [b EXCEPT !.in_use = @ \ {p}, !.p_pending[p] = {}, !.p_pendcount[p] = 0]
    <2>2. Killed(a, p) = c
      BY DEF Killed
    <2> HIDE DEF b
    <2>3. SameInterrupts(a, c) /\ HasFields(c)
      BY <2>1 DEF HasFields, SameInterrupts
    <2>4. PICK callers, told :
            do_xit(a, p) = [c EXCEPT !.p_flags[p] = {}, !.p_getfrom[p] = NONE,
                                     !.p_sendto[p] = NONE, !.p_messbuf[p] = NoMessage,
                                     !.p_callerq = callers, !.sig_procs = told]
      BY <2>2 DEF do_xit
    <2> HIDE DEF c
    <2> QED
      BY <2>3, <2>4 DEF HasFields, SameInterrupts
  <1>2. SameInterrupts(a, do_newmap(do_fork(a, p, q), q))
    <2> DEFINE b == do_fork(a, p, q)
               c == [b EXCEPT !.p_flags[q] = @ \ {"NO_MAP"}]
    <2>1. SameInterrupts(a, b) /\ HasFields(b)
      BY DEF do_fork, HasFields, SameInterrupts
    <2>2. do_newmap(b, q) \in {b, ReadyIfRunnable(c, q)}
      BY DEF do_newmap
    <2> HIDE DEF b
    <2>3. SameInterrupts(b, c) /\ HasFields(c)
      BY <2>1 DEF HasFields, SameInterrupts
    <2> HIDE DEF c
    <2>4. SameInterrupts(c, ReadyIfRunnable(c, q))
      BY <2>3, ReadyKeeps DEF SameInboxes
    <2>5. SameInterrupts(a, b) /\ SameInterrupts(a, ReadyIfRunnable(c, q))
      BY <2>1, <2>3, <2>4, SameTwice
    <2> QED
      BY <2>2, <2>5 DEF b
  <1> QED
    BY <1>1, <1>2

-----------------------------------------------------------------------------
(* The operators that move interrupts.                                       *)

\* Leaving interrupts alone is keeping them.
LEMMA SameKeeps ==
    ASSUME NEW a, HeldTyped(a), NEW b, SameInterrupts(a, b)
    PROVE  Keeps(a, b)
  BY DEF HeldTyped, HasFields, SameInterrupts, Keeps, HasInterrupt

\* A message is received, and an interrupt if there is no message.
LEMMA ReceiveKeepsInterrupts ==
    ASSUME NEW a, HeldTyped(a), NEW p, NEW src
    PROVE  Keeps(a, mini_rec(a, p, src))
  <1>1. SameInterrupts(a, BlockReceiving(a, p, src))
    <2> DEFINE b == UnreadyIfRunnable(a, p)
               c == [b EXCEPT !.p_getfrom[p] = src]
    <2>1. SameInterrupts(a, b) /\ HasFields(b)
      BY ReadyKeeps, SameTwice DEF SameInboxes, HeldTyped
    <2>2. BlockReceiving(a, p, src) \in {c, inform(c)}
      BY DEF BlockReceiving
    <2> HIDE DEF b
    <2>3. SameInterrupts(a, c) /\ HasFields(c)
      BY <2>1 DEF HasFields, SameInterrupts
    <2> HIDE DEF c
    <2>4. SameInterrupts(c, inform(c))
      BY <2>3, InformKeeps
    <2>5. HasFields(a)
      BY DEF HeldTyped
    <2>6. SameInterrupts(a, c) /\ SameInterrupts(a, inform(c))
      BY <2>3, <2>4, <2>5, SameTwice
    <2> QED
      BY <2>2, <2>6
  <1>2. ASSUME NEW sender PROVE SameInterrupts(a, TakeFrom(a, p, sender))
    <2> DEFINE b == [a EXCEPT !.inbox[p] = a.p_messbuf[sender],
                              !.p_messbuf[sender] = NoMessage,
                              !.p_sendto[sender] = NONE,
                              !.p_callerq[p] = Without(@, sender)]
    <2>1. SameInterrupts(a, b) /\ HasFields(b)
      BY DEF HasFields, SameInterrupts, HeldTyped
    <2>2. TakeFrom(a, p, sender) = ReadyIfRunnable(b, sender)
      BY DEF TakeFrom
    <2> HIDE DEF b
    <2>3. SameInterrupts(b, ReadyIfRunnable(b, sender))
      BY <2>1, ReadyKeeps DEF SameInboxes
    <2> QED
      BY <2>1, <2>2, <2>3, SameTwice DEF HeldTyped
  <1>3. ASSUME p \in a.int_blocked PROVE Keeps(a, TakeInterrupt(a, p))
    <2>1. p \in DOMAIN a.inbox
      BY <1>3, InterruptedAssumption DEF HeldTyped, Procs
    <2>2. /\ DOMAIN TakeInterrupt(a, p) = DOMAIN a
          /\ TakeInterrupt(a, p).held = a.held
          /\ TakeInterrupt(a, p).int_blocked = a.int_blocked \ {p}
          /\ TakeInterrupt(a, p).inbox = [a.inbox EXCEPT ![p] = HardInt]
      BY DEF TakeInterrupt, HardInt, HeldTyped, HasFields
    <2> QED
      BY <1>3, <2>1, <2>2 DEF Keeps, HeldTyped, HasFields, HasInterrupt
  <1> QED
    BY <1>1, <1>2, <1>3, SameKeeps DEF mini_rec

\* A call of a process sends, receives or does both.
LEMMA CallKeeps ==
    ASSUME NEW a, HeldTyped(a), NEW function, NEW other, NEW m
    PROVE  Keeps(a, sys_call(a, function, other, m).k)
  <1> DEFINE p == a.proc_ptr
             b == mini_send(a, p, other, m).k
  <1>1. SameInterrupts(a, a) /\ SameInterrupts(a, b)
    BY SendKeeps DEF SameInterrupts, HeldTyped
  <1>2. HeldTyped(a) /\ HeldTyped(b)
    BY <1>1 DEF HeldTyped, HasFields, SameInterrupts
  <1>3. sys_call(a, function, other, m).k
          \in {a, b, mini_rec(a, p, other), mini_rec(b, p, other)}
    BY DEF sys_call
  <1> HIDE DEF b
  <1>4. Keeps(a, a) /\ Keeps(a, b)
    BY <1>1, <1>2, SameKeeps
  <1>5. Keeps(a, mini_rec(a, p, other)) /\ Keeps(b, mini_rec(b, p, other))
    BY <1>2, ReceiveKeepsInterrupts
  <1>6. Keeps(a, mini_rec(b, p, other))
    BY <1>1, <1>5 DEF Keeps, SameInterrupts
  <1> QED
    BY <1>3, <1>4, <1>5, <1>6

\* Holding one more interrupt keeps the others.
LEMMA HoldKeeps ==
    ASSUME NEW a, HeldTyped(a), NEW t \in INTERRUPTED
    PROVE  /\ HeldTyped(Hold(a, t)) /\ Hold(a, t).inbox = a.inbox
           /\ Hold(a, t).int_blocked = a.int_blocked
           /\ Members(Hold(a, t).held) = Members(a.held) \cup {t}
           /\ Hold(a, t).held # << >>
  <1>1. CASE t \in Members(a.held)
    <2>1. a.held # << >>
      BY <1>1 DEF Members
    <2> QED
      BY <1>1, <2>1 DEF Hold
  <1>2. CASE t \notin Members(a.held)
    <2> DEFINE b == [a EXCEPT !.held = Append(@, t)]
    <2>1. /\ DOMAIN b = DOMAIN a /\ b.held = Append(a.held, t)
          /\ b.int_blocked = a.int_blocked /\ b.inbox = a.inbox
      BY DEF HeldTyped, HasFields
    <2>2. Hold(a, t) = b
      BY <1>2 DEF Hold
    <2> HIDE DEF b
    <2>3. a.held \in Seq(INTERRUPTED)
      BY DEF HeldTyped
    <2>4. Append(a.held, t) \in Seq(INTERRUPTED) /\ Append(a.held, t) # << >>
      BY <2>3
    <2>5. Members(Append(a.held, t)) = Members(a.held) \cup {t}
      <3>1. /\ Len(Append(a.held, t)) = Len(a.held) + 1 /\ Len(a.held) \in Nat
            /\ DOMAIN a.held = 1 .. Len(a.held)
            /\ DOMAIN Append(a.held, t) = 1 .. Len(a.held) + 1
            /\ \A i \in 1 .. Len(a.held) : Append(a.held, t)[i] = a.held[i]
            /\ Append(a.held, t)[Len(a.held) + 1] = t
        BY <2>3
      <3> QED
        BY <3>1 DEF Members
    <2> QED
      BY <2>1, <2>2, <2>4, <2>5 DEF HeldTyped, HasFields
  <1> QED
    BY <1>1, <1>2

\* An interrupt is received at once or blocked, and the others are kept.
LEMMA InterruptKeeps ==
    ASSUME NEW a, HeldTyped(a), NEW t \in INTERRUPTED
    PROVE  /\ Keeps(a, interrupt(a, t)) /\ HasInterrupt(interrupt(a, t), t)
           /\ interrupt(a, t).held = a.held
  <1> DEFINE b == [a EXCEPT !.int_blocked = @ \cup {t}]
             c == [a EXCEPT !.inbox[t] = HardInt, !.p_getfrom[t] = NONE,
                            !.int_blocked = @ \ {t}]
  <1>1. interrupt(a, t) \in {b, ready(c, t)}
    BY DEF interrupt, HardInt
  <1>2. Keeps(a, b) /\ HasInterrupt(b, t) /\ b.held = a.held
    BY DEF HeldTyped, HasFields, Keeps, HasInterrupt
  <1>3. Keeps(a, c) /\ HasInterrupt(c, t) /\ c.inbox[t] = HardInt /\ c.held = a.held
    <2>1. t \in DOMAIN a.inbox
      BY InterruptedAssumption DEF HeldTyped, Procs
    <2>2. /\ DOMAIN c = DOMAIN a /\ c.held = a.held
          /\ c.int_blocked = a.int_blocked \ {t}
          /\ c.inbox = [a.inbox EXCEPT ![t] = HardInt]
      BY DEF HeldTyped, HasFields
    <2> QED
      BY <2>1, <2>2 DEF Keeps, HeldTyped, HasFields, HasInterrupt
  <1> HIDE DEF b, c
  <1>4. SameInboxes(c, ready(c, t))
    BY <1>3, ReadyKeeps DEF Keeps, HeldTyped
  <1>5. Keeps(a, ready(c, t)) /\ HasInterrupt(ready(c, t), t) /\ ready(c, t).held = a.held
    BY <1>3, <1>4 DEF Keeps, HeldTyped, HasFields, HasInterrupt, SameInboxes, SameInterrupts
  <1> QED
    BY <1>1, <1>2, <1>5

\* What is held is its head and its tail.
LEMMA HeadAndTail ==
    ASSUME NEW s \in Seq(INTERRUPTED), s # << >>
    PROVE  /\ Head(s) \in INTERRUPTED /\ Tail(s) \in Seq(INTERRUPTED)
           /\ Members(s) = Members(Tail(s)) \cup {Head(s)}
  <1>1. /\ Len(s) \in Nat /\ Len(s) # 0 /\ Len(Tail(s)) = Len(s) - 1
        /\ DOMAIN s = 1 .. Len(s) /\ DOMAIN Tail(s) = 1 .. Len(s) - 1
        /\ \A i \in 1 .. Len(s) - 1 : Tail(s)[i] = s[i + 1]
        /\ Head(s) = s[1] /\ Tail(s) \in Seq(INTERRUPTED)
    OBVIOUS
  <1>2. Head(s) \in INTERRUPTED
    OBVIOUS
  <1>3. Members(s) \subseteq Members(Tail(s)) \cup {Head(s)}
    <2> SUFFICES ASSUME NEW i \in 1 .. Len(s), i # 1
                 PROVE  s[i] \in Members(Tail(s))
      BY <1>1 DEF Members
    <2>1. i - 1 \in 1 .. Len(s) - 1 /\ Tail(s)[i - 1] = s[i]
      BY <1>1
    <2> QED
      BY <1>1, <2>1 DEF Members
  <1>4. Members(Tail(s)) \cup {Head(s)} \subseteq Members(s)
    BY <1>1 DEF Members
  <1> QED
    BY <1>1, <1>2, <1>3, <1>4

\* A round of unhold takes one interrupt out of what is held, and may hold another.
LEMMA UnholdKeeps ==
    ASSUME NEW a, HeldTyped(a), a.held # << >>, NEW late \in Late
    PROVE  /\ Keeps(a, unhold(a, late))
           /\ late # NONE => late \in Members(unhold(a, late).held)
  <1> DEFINE t == Head(a.held)
             b == [a EXCEPT !.held = Tail(@)]
             c == IF late = NONE THEN b ELSE Hold(b, late)
  <1>1. /\ DOMAIN b = DOMAIN a /\ b.held = Tail(a.held)
        /\ b.int_blocked = a.int_blocked /\ b.inbox = a.inbox
    BY DEF HeldTyped, HasFields
  <1>2. /\ t \in INTERRUPTED /\ Tail(a.held) \in Seq(INTERRUPTED)
        /\ Members(a.held) = Members(Tail(a.held)) \cup {t}
    BY HeadAndTail DEF HeldTyped
  <1>3. HeldTyped(b) /\ Members(a.held) = Members(b.held) \cup {t}
    BY <1>1, <1>2 DEF HeldTyped, HasFields
  <1>4. unhold(a, late) = interrupt(c, t)
    BY DEF unhold
  <1> HIDE DEF b, t
  <1>5. /\ HeldTyped(c) /\ c.int_blocked = b.int_blocked
        /\ Members(b.held) \subseteq Members(c.held)
        /\ late # NONE => late \in Members(c.held)
    BY <1>3, HoldKeeps DEF Late
  <1> HIDE DEF c
  <1>6. Keeps(c, interrupt(c, t)) /\ HasInterrupt(interrupt(c, t), t) /\ interrupt(c, t).held = c.held
    BY <1>2, <1>5, InterruptKeeps
  <1> QED
    BY <1>1, <1>3, <1>4, <1>5, <1>6 DEF Keeps

-----------------------------------------------------------------------------
(* Each step keeps the invariant.                                            *)

\* Nothing is held or blocked at first.
LEMMA InitInterruptInv == MessagesInit => InterruptInv
  BY EmptySeq DEF MessagesInit, Boot, InterruptInv, HeldTyped, HasFields, InterruptsKept

\* Interrupts are held and blocked for processes.
LEMMA HeldAreProcs ==
    ASSUME NEW a, HeldTyped(a)
    PROVE  Members(a.held) \cup a.int_blocked \subseteq Procs
  <1>1. INTERRUPTED \subseteq Procs
    BY InterruptedAssumption DEF Procs
  <1>2. Members(a.held) \subseteq INTERRUPTED
    BY DEF HeldTyped, Members
  <1> QED
    BY <1>1, <1>2 DEF HeldTyped

\* The kernel goes on with tables that have lost no interrupt.
LEMMA BecomeInterruptInv ==
    ASSUME InterruptInv, NEW a, Keeps(k, a),
           NEW raised \in SUBSET Procs, \A t \in raised : HasInterrupt(a, t),
           NEW late, late # NONE => late \in Members(a.held),
           NEW flush, Become(a, raised, late, flush)
    PROVE  InterruptInv'
  <1>1. /\ DOMAIN k' = DOMAIN a /\ k'.held = a.held /\ k'.int_blocked = a.int_blocked
        /\ DOMAIN k'.inbox = Procs
    BY DEF Become, Taken, Keeps, HeldTyped, HasFields
  <1>2. HeldTyped(k')
    BY <1>1 DEF Keeps, HeldTyped, HasFields
  <1>3. unholding' => k'.held # << >>
    BY <1>1 DEF Become
  <1>4. InterruptsKept'
    <2> SUFFICES ASSUME NEW t \in owed' PROVE t \in Members(a.held) \cup a.int_blocked
      BY <1>1 DEF InterruptsKept
    <2>1. CASE t \in (owed \cup raised) \ Got(a)
      <3>1. HasInterrupt(a, t)
        BY <2>1 DEF InterruptInv, InterruptsKept, Keeps
      <3>2. t \in Procs
        BY <2>1, HeldAreProcs DEF InterruptInv, InterruptsKept
      <3> QED
        BY <2>1, <3>1, <3>2 DEF HasInterrupt, Got, HardInt
    <2>2. CASE t \in {late} \ {NONE}
      BY <2>2
    <2> QED
      BY <2>1, <2>2 DEF Become
  <1> QED
    BY <1>2, <1>3, <1>4 DEF InterruptInv

\* An interrupt that comes too late during a call is held.
LEMMA LateInterruptInv ==
    ASSUME InterruptInv, NEW a, Keeps(k, a),
           NEW raised \in SUBSET Procs, \A t \in raised : HasInterrupt(a, t),
           NEW late \in Late, NEW flush, Become(HoldLate(a, late), raised, late, flush)
    PROVE  InterruptInv'
  <1> DEFINE b == HoldLate(a, late)
  <1>1. /\ HeldTyped(b) /\ b.inbox = a.inbox /\ b.int_blocked = a.int_blocked
        /\ Members(a.held) \subseteq Members(b.held)
        /\ late # NONE => late \in Members(b.held)
    BY HoldKeeps DEF HoldLate, Late, Keeps
  <1>2. Keeps(k, b) /\ \A t \in raised : HasInterrupt(b, t)
    BY <1>1 DEF Keeps, HasInterrupt
  <1> HIDE DEF b
  <1> QED
    BY <1>1, <1>2, BecomeInterruptInv DEF b

\* So every step keeps the invariant.
LEMMA NextInterruptInv == InterruptInv /\ [MessagesNext]_messages_vars => InterruptInv'
  <1> SUFFICES ASSUME InterruptInv, [MessagesNext]_messages_vars PROVE InterruptInv'
    OBVIOUS
  <1>0. HeldTyped(k) /\ HasFields(k)
    BY DEF InterruptInv, HeldTyped
  <1>1. CASE UNCHANGED messages_vars
    BY <1>1 DEF messages_vars, InterruptInv, HeldTyped, HasFields, InterruptsKept
  <1>2. ASSUME NEW late \in Late, NEW function, NEW other, Call(function, other, late)
        PROVE  InterruptInv'
    BY <1>0, <1>2, CallKeeps, LateInterruptInv DEF Call
  <1>3. ASSUME NEW late \in Late, NEW task \in INTERRUPTED, Interrupt(task, late)
        PROVE  InterruptInv'
    <2>1. {task} \in SUBSET Procs
      BY InterruptedAssumption DEF Procs
    <2> QED
      BY <1>0, <1>3, <2>1, InterruptKeeps, LateInterruptInv DEF Interrupt
  <1>4. ASSUME NEW late \in Late, Unhold(late)
        PROVE  InterruptInv'
    <2>1. k.held # << >>
      BY <1>4 DEF Unhold, InterruptInv
    <2> QED
      BY <1>0, <1>4, <2>1, UnholdKeeps, BecomeInterruptInv DEF Unhold
  <1>5. ASSUME NEW late \in Late, NEW u, Exit(u, late)
        PROVE  InterruptInv'
    <2>1. Keeps(k, do_xit(k, u))
      BY <1>0, ExitForkKeep, SameKeeps
    <2> QED
      BY <1>5, <2>1, LateInterruptInv DEF Exit
  <1>6. ASSUME NEW late \in Late, NEW parent, NEW child, Fork(parent, child, late)
        PROVE  InterruptInv'
    <2>1. Keeps(k, do_newmap(do_fork(k, parent, child), child))
      BY <1>0, ExitForkKeep, SameKeeps
    <2> QED
      BY <1>6, <2>1, LateInterruptInv DEF Fork
  <1> QED
    BY <1>1, <1>2, <1>3, <1>4, <1>5, <1>6 DEF MessagesNext

\* The invariant holds for any tasks, servers, users and interrupts.
THEOREM InterruptInvHolds == MessagesSpec => []InterruptInv
  BY InitInterruptInv, NextInterruptInv, PTL DEF MessagesSpec

\* An interrupt that a task has not received is held or blocked: it is not lost
\* between the switching of processes, unhold and mini_rec (proc.c:51-110, 278-300,
\* 555-575), however many interrupts and processes there are.
THEOREM InterruptsKeptHolds == MessagesSpec => []InterruptsKept
  <1>1. InterruptInv => InterruptsKept
    BY DEF InterruptInv
  <1> QED
    BY <1>1, InterruptInvHolds, PTL
-----------------------------------------------------------------------------
(* Each step keeps the queues and the waits.                                 *)

\* Nobody is stopped or has got a signal.
Unsignalled(a) == a.sig_procs = 0 /\ a.p_flags = [p \in Procs |-> {}]

CallsInOrder(a) == Core(a) /\ HighestRuns(a) /\ Unsignalled(a)

CoreInv == CallsInOrder(k)

\* What is held or in an inbox is nothing to the queues.
LEMMA SameCallsInOrder ==
    ASSUME NEW a, CallsInOrder(a), NEW b, SameCore(a, b)
    PROVE  CallsInOrder(b)
  <1>1. Core(b) /\ HighestRuns(b)
    BY SameCoreKeeps DEF CallsInOrder
  <1>2. Unsignalled(b)
    BY DEF CallsInOrder, Unsignalled, SameCore, SameWaits
  <1> QED
    BY <1>1, <1>2 DEF CallsInOrder

\* A message is no signal.
LEMMA SignalsInOrder ==
    ASSUME NEW a, CallsInOrder(a), NEW b, Core(b), HighestRuns(b), SameSignals(a, b)
    PROVE  CallsInOrder(b)
  BY DEF CallsInOrder, Unsignalled, SameSignals

\* Nor is a call, an interrupt, the end of a process or a new one.
LEMMA CallInOrder ==
    ASSUME NEW a, CallsInOrder(a), NEW b, Core(b), HighestRuns(b), NEW function, NEW other, NEW m,
           Called(a, b, function, other, m)
    PROVE  CallsInOrder(b)
  <1>1. \A c, d, p, dest : Sent(c, d, p, dest, m) => SameSignals(c, d)
    BY DEF Sent, Delivered, WaitsToSend, SameSignals
  <1>2. ASSUME NEW c, NEW d, NEW p, NEW src, Received(c, d, p, src) PROVE SameSignals(c, d)
    <2>1. \/ \E sender \in Procs : TookFrom(c, d, p, sender)
          \/ TookInterrupt(c, d, p) \/ WaitsFor(c, d, p, src)
      BY <1>2 DEF Received
    <2> QED
      BY <2>1 DEF TookFrom, TookInterrupt, WaitsFor
  <1>3. SameSignals(a, b)
    BY <1>1, <1>2 DEF Called, SameSignals
  <1> QED
    BY <1>3, SignalsInOrder

\* An interrupt leaves the tables in order.
LEMMA InterruptInOrder ==
    ASSUME NEW a, CallsInOrder(a), NEW t \in TASKS
    PROVE  CallsInOrder(interrupt(a, t))
  <1> DEFINE b == interrupt(a, t)
  <1>1. Core(b) /\ HighestRuns(b) /\ Interrupted(a, b, t)
    BY InterruptCore DEF CallsInOrder
  <1>2. SameSignals(a, b)
    BY <1>1 DEF Interrupted, Delivered
  <1> HIDE DEF b
  <1> QED
    BY <1>1, <1>2, SignalsInOrder DEF b

\* So does an exit.
LEMMA ExitInOrder ==
    ASSUME NEW a, CallsInOrder(a), NEW u \in USERS
    PROVE  CallsInOrder(do_xit(a, u))
  <1> DEFINE b == do_xit(a, u)
  <1>1. Core(b) /\ HighestRuns(b) /\ Exited(a, b, u)
    BY ExitCore DEF CallsInOrder
  <1> HIDE DEF b
  <1>2. a.p_flags = [p \in Procs |-> {}] /\ a.sig_procs = 0 /\ u \in Procs
    BY DEF CallsInOrder, Unsignalled, Procs
  <1>3. Unsignalled(b)
    BY <1>1, <1>2 DEF Exited, Unsignalled
  <1> QED
    BY <1>1, <1>3 DEF CallsInOrder, b

\* The child gets its memory in the same step, and waits for MM as its parent does.
LEMMA ForkInOrder ==
    ASSUME NEW a, CallsInOrder(a), NEW parent \in USERS, NEW child \in USERS \ a.in_use,
           a.p_getfrom[parent] = MM, a.p_sendto[parent] = NONE
    PROVE  CallsInOrder(do_newmap(do_fork(a, parent, child), child))
  <1> DEFINE b == do_fork(a, parent, child)
             d == do_newmap(b, child)
  <1>1. Core(b) /\ HighestRuns(b) /\ Forked(a, b, parent, child)
    BY ForkCore DEF CallsInOrder
  <1>2. /\ a.p_flags = [p \in Procs |-> {}] /\ a.sig_procs = 0
        /\ child \in Procs /\ parent \in Procs
        /\ a.p_getfrom \in [Procs -> Procs \cup {ANY, HARDWARE, NONE}]
    BY DEF CallsInOrder, Unsignalled, Procs, Core, Typed
  <1>3. MM # NONE
    BY DEF MM, NONE, ANY
  <1> HIDE DEF b
  <1>4. child \in b.in_use /\ b.p_getfrom[child] # NONE
    BY <1>1, <1>2, <1>3 DEF Forked
  <1>5. /\ Core(d) /\ HighestRuns(d)
        /\ d.p_flags = [b.p_flags EXCEPT ![child] = @ \ {"NO_MAP"}]
        /\ d.sig_procs = b.sig_procs
    BY <1>1, <1>4, NewmapCore
  <1> HIDE DEF d
  <1>6. b.p_flags = [a.p_flags EXCEPT ![child] = {"NO_MAP"}]
    <2>1. (a.p_flags[parent] \cup {"NO_MAP"}) \ {"PENDING", "SIG_PENDING", "P_STOP"}
            = {"NO_MAP"}
      BY <1>2
    <2> QED
      BY <1>1, <2>1 DEF Forked
  <1>7. d.p_flags = [p \in Procs |-> {}]
    <2>1. b.p_flags = [p \in Procs |-> IF p = child THEN {"NO_MAP"} ELSE {}]
      BY <1>2, <1>6
    <2>2. b.p_flags[child] \ {"NO_MAP"} = {}
      BY <1>2, <2>1
    <2>3. d.p_flags = [b.p_flags EXCEPT ![child] = {}]
      BY <1>5, <2>2
    <2> QED
      BY <1>2, <2>1, <2>3
  <1>8. Unsignalled(d)
    BY <1>1, <1>2, <1>5, <1>7 DEF Forked, Unsignalled
  <1> QED
    BY <1>5, <1>8 DEF CallsInOrder, b, d

\* A late interrupt is held.
LEMMA LateSame ==
    ASSUME NEW a, Typed(a), NEW late
    PROVE  SameCore(a, HoldLate(a, late))
  <1>1. SameCore(a, [a EXCEPT !.held = Append(@, late)]) /\ SameCore(a, a)
    BY DEF Typed, Fields, SameCore, SameWaits, SameDomains
  <1> QED
    BY <1>1 DEF HoldLate, Hold

\* The kernel goes on with such tables.
LEMMA BecomeCoreInv ==
    ASSUME NEW a, CallsInOrder(a), NEW raised, NEW late, NEW flush,
           Become(a, raised, late, flush)
    PROVE  CoreInv'
  <1>1. k' = [a EXCEPT !.inbox = [p \in Procs |-> NoMessage]]
    BY DEF Become, Taken
  <1>2. SameCore(a, k')
    BY <1>1 DEF CallsInOrder, Core, Typed, Fields, SameCore, SameWaits, SameDomains
  <1>3. CallsInOrder(k')
    BY <1>2, SameCallsInOrder
  <1> QED
    BY <1>3 DEF CoreInv

\* A late interrupt is held before the kernel goes on.
LEMMA LateCoreInv ==
    ASSUME NEW a, CallsInOrder(a), NEW raised, NEW late, NEW flush,
           Become(HoldLate(a, late), raised, late, flush)
    PROVE  CoreInv'
  <1>1. CallsInOrder(HoldLate(a, late))
    BY LateSame, SameCallsInOrder DEF CallsInOrder, Core
  <1> QED
    BY <1>1, BecomeCoreInv

\* After main() everybody is in his queue and nobody waits.
LEMMA InitCoreInv == MessagesInit => CoreInv
  <1> SUFFICES ASSUME MessagesInit PROVE CoreInv
    OBVIOUS
  <1>1. k = Boot(INIT_PROC_NR)
    BY DEF MessagesInit
  <1>2. Unsignalled(k)
    BY <1>1 DEF Boot, Unsignalled
  <1>3. Core(k) /\ HighestRuns(k)
    BY <1>1, InitAssumption, BootCore
  <1> QED
    BY <1>2, <1>3 DEF CoreInv, CallsInOrder

\* Each step keeps the invariant.  Unhold needs to know that what is held are
\* interrupts of tasks.
LEMMA NextCoreInv == InterruptInv /\ CoreInv /\ [MessagesNext]_messages_vars => CoreInv'
  <1> SUFFICES ASSUME InterruptInv, CoreInv, [MessagesNext]_messages_vars PROVE CoreInv'
    OBVIOUS
  <1>0. CallsInOrder(k) /\ Core(k) /\ HighestRuns(k) /\ Typed(k)
    BY DEF CoreInv, CallsInOrder, Core
  <1>1. CASE UNCHANGED messages_vars
    <2>1. k' = k
      BY <1>1 DEF messages_vars
    <2> QED
      BY <1>0, <2>1 DEF CoreInv
  <1>2. ASSUME NEW late \in Late, NEW function \in {"SEND", "RECEIVE", "BOTH"},
               NEW other \in Procs \cup {ANY, HARDWARE}, Call(function, other, late)
        PROVE  CoreInv'
    <2> DEFINE p == k.proc_ptr
               m == Message(p, "message")
               b == sys_call(k, function, other, m).k
    <2>1. p # IDLE /\ Allowed(p, function, other)
      BY <1>2 DEF Call
    <2>2. p \in Procs
      BY <1>0, <2>1, RunningProcess
    <2>3. function # "RECEIVE" /\ p \notin USERS /\ other \in USERS => k.p_getfrom[other] = p
      BY <2>1 DEF Allowed
    <2>4. Become(HoldLate(b, late), {}, late, TRUE)
      BY <1>2 DEF Call
    <2>5. ~ToBeTold(k, p, other)
      BY <1>0 DEF CallsInOrder, Unsignalled, ToBeTold
    <2> HIDE DEF m
    <2>6. ASSUME p \in USERS /\ function = "BOTH" /\ other \notin Procs
          PROVE  CallsInOrder(b)
      <3>1. other \notin SERVERS
        BY <2>6 DEF Procs
      <3>2. mini_send(k, p, other, m) = [k |-> k, result |-> "E_BAD_DEST"]
        BY <2>6, <3>1 DEF mini_send
      <3>3. b = k
        BY <2>6, <3>2 DEF sys_call
      <3> QED
        BY <1>0, <3>3
    <2>7. ASSUME ~(p \in USERS /\ function = "BOTH" /\ other \notin Procs)
          PROVE  CallsInOrder(b)
      <3>1. function = "RECEIVE" \/ (p \in USERS /\ function # "BOTH") \/ other \in Procs \ {p}
        BY <2>1, <2>7 DEF Allowed, Procs
      <3>2. Core(b) /\ HighestRuns(b) /\ Called(k, b, function, other, m)
        BY <1>0, <2>1, <2>3, <2>5, <3>1, CallCore
      <3> HIDE DEF b
      <3> QED
        BY <1>0, <3>2, CallInOrder
    <2>8. CallsInOrder(b)
      BY <2>6, <2>7
    <2> HIDE DEF b
    <2> QED
      BY <2>4, <2>8, LateCoreInv
  <1>3. ASSUME NEW late \in Late, NEW task \in INTERRUPTED, Interrupt(task, late)
        PROVE  CoreInv'
    BY <1>0, <1>3, InterruptedAssumption, InterruptInOrder, LateCoreInv DEF Interrupt
  <1>4. ASSUME NEW late \in Late, Unhold(late)
        PROVE  CoreInv'
    <2> DEFINE a == [k EXCEPT !.held = Tail(@)]
               b == IF late = NONE THEN a ELSE Hold(a, late)
    <2>1. Become(unhold(k, late), {}, late, TRUE) /\ k.held # << >>
      BY <1>4 DEF Unhold, InterruptInv
    <2>2. Head(k.held) \in TASKS
      BY <2>1, HeadAndTail, InterruptedAssumption DEF InterruptInv, HeldTyped
    <2>3. unhold(k, late) = interrupt(b, Head(k.held))
      BY DEF unhold
    <2>4. SameCore(k, a)
      BY <1>0 DEF Typed, Fields, SameCore, SameWaits, SameDomains
    <2> HIDE DEF a
    <2>5. CallsInOrder(a)
      BY <1>0, <2>4, SameCallsInOrder
    <2>6. b = HoldLate(a, late)
      BY DEF HoldLate
    <2>7. CallsInOrder(b)
      BY <2>5, <2>6, LateSame, SameCallsInOrder DEF CallsInOrder, Core
    <2> HIDE DEF b
    <2>8. CallsInOrder(interrupt(b, Head(k.held)))
      BY <2>2, <2>7, InterruptInOrder
    <2> QED
      BY <2>1, <2>3, <2>8, BecomeCoreInv
  <1>5. ASSUME NEW late \in Late, NEW u \in USERS, Exit(u, late)
        PROVE  CoreInv'
    BY <1>0, <1>5, ExitInOrder, LateCoreInv DEF Exit
  <1>6. ASSUME NEW late \in Late, NEW parent \in USERS, NEW child \in USERS,
               Fork(parent, child, late)
        PROVE  CoreInv'
    <2> DEFINE d == do_newmap(do_fork(k, parent, child), child)
    <2>1. /\ child \in USERS \ k.in_use
          /\ k.p_getfrom[parent] = MM /\ k.p_sendto[parent] = NONE
          /\ Become(HoldLate(d, late), {}, late, FALSE)
      BY <1>6 DEF Fork
    <2>2. CallsInOrder(d)
      BY <1>0, <2>1, ForkInOrder
    <2> HIDE DEF d
    <2> QED
      BY <2>1, <2>2, LateCoreInv
  <1> QED
    BY <1>1, <1>2, <1>3, <1>4, <1>5, <1>6 DEF MessagesNext

-----------------------------------------------------------------------------
(* What holds of every behaviour.                                            *)

\* The invariant of queues and waits (proc.c:51-431 and do_fork, do_newmap and
\* do_xit, system.c:274-505) holds for any tasks, servers and users: it is the
\* strengthening that the theorems below need, since ready, unready and mini_rec
\* each rely on both the queues and the waits.
THEOREM CoreInvHolds == MessagesSpec => []CoreInv
  BY InitCoreInv, NextCoreInv, InterruptInvHolds, PTL DEF MessagesSpec

\* The tables of proc.c and system.c hold what belongs there; a process that is not in
\* use waits for nothing, and unhold (proc.c:555-575) only runs with something held.
THEOREM TypeOKHolds == MessagesSpec => []MessagesTypeOK
  <1>1. CoreInv /\ InterruptInv => MessagesTypeOK
    <2> SUFFICES ASSUME CoreInv, InterruptInv PROVE MessagesTypeOK
      OBVIOUS
    <2>1. Core(k) /\ Typed(k) /\ Waits(k) /\ HighestRuns(k)
      BY DEF CoreInv, CallsInOrder, Core
    <2>2. /\ k.p_getfrom \in [Procs -> Procs \cup {ANY, HARDWARE, NONE}]
          /\ k.p_sendto \in [Procs -> Procs \cup {NONE}]
          /\ k.in_use \subseteq USERS /\ k.int_blocked \subseteq INTERRUPTED
      BY <2>1 DEF Typed, InterruptInv, HeldTyped
    <2>3. \A s \in Seq(Procs) : Members(s) \subseteq Procs
      BY DEF Members
    <2>4. /\ \A p \in Procs : Members(k.p_callerq[p]) \subseteq Procs
          /\ \A q \in DOMAIN k.rdy : Members(k.rdy[q]) \subseteq Procs
      BY <2>1, <2>3 DEF Typed
    <2>5. \A u \in USERS \ k.in_use : Runnable(k, u)
      BY <2>1 DEF Waits
    <2>6. Members(k.held) \subseteq INTERRUPTED
      BY DEF InterruptInv, HeldTyped, Members
    <2>7. k.proc_ptr \in Procs \cup {IDLE}
      BY <2>1, RunningProcess
    <2>8. owed \subseteq INTERRUPTED
      BY <2>2, <2>6 DEF InterruptInv, InterruptsKept
    <2>9. unholding => k.held # << >>
      BY DEF InterruptInv
    <2> QED
      BY <2>2, <2>4, <2>5, <2>6, <2>7, <2>8, <2>9 DEF MessagesTypeOK
  <1> QED
    BY <1>1, CoreInvHolds, InterruptInvHolds, PTL

\* ready, unready and pick_proc (proc.c:302-431) keep each process with p_flags == 0
\* once in its queue and no other, and proc_ptr on the head of the highest queue,
\* for any number of processes.
THEOREM ReadyAreRunnableHolds == MessagesSpec => []ReadyAreRunnable
  <1>1. CoreInv => ReadyAreRunnable
    BY DEF CoreInv, CallsInOrder, Core, HighestRuns, ReadyAreRunnable
  <1> QED
    BY <1>1, CoreInvHolds, PTL

\* mini_send (proc.c:217-234), mini_rec (proc.c:259-275) and do_xit (system.c:470-495)
\* keep in p_callerq of a process those that are SENDING to it, each once.
THEOREM CallersQueuedHolds == MessagesSpec => []CallersQueued
  <1>1. CoreInv => CallersQueued
    BY DEF CoreInv, CallsInOrder, Core, Waits, CallersQueued
  <1> QED
    BY <1>1, CoreInvHolds, PTL

\* The search for a ring in mini_send (proc.c:198-208) is enough for rings of any length
\* among any number of processes: there never is one.
THEOREM NoSendRingHolds == MessagesSpec => []NoSendRing
  <1>1. CoreInv => NoSendRing
    BY DEF CoreInv, CallsInOrder, Core, Waits, NoRing, NoSendRing
  <1> QED
    BY <1>1, CoreInvHolds, PTL

\* mini_rec (proc.c:242-300) and interrupt (proc.c:51-110) leave no process RECEIVING
\* while a caller or a blocked interrupt it accepts is there.
THEOREM NoneWaitsInVainHolds == MessagesSpec => []NoneWaitsInVain
  <1>1. CoreInv => NoneWaitsInVain
    BY DEF CoreInv, CallsInOrder, Core, Waits, NoneWaitsInVain
  <1> QED
    BY <1>1, CoreInvHolds, PTL

-----------------------------------------------------------------------------
(* Alarms                                                                     *)
(*                                                                            *)
(* What the two tasks of clock.c keep in their tables depends on the messages *)
(* between them and the servers: the clock task may trust that who asked it   *)
(* waits for the answer, that it stops within its loop only where an alarm of *)
(* a client goes off, and that the alarm task waits for it only with nothing  *)
(* to send.  So the invariant joins the tables of clock.c and of proc.c.      *)

\* What a server asks the clock task for.
ClockRequest(a, m) ==
    /\ m.m_source \in SERVERS
    /\ m.m_type \in {"GET_UPTIME", "SET_ALARM", "SET_SYNC_AL"}
    /\ m.m_type = "SET_ALARM" =>
         m.m_source = MM /\ m.CLOCK_PROC_NR \in a.in_use /\ m.DELTA_TICKS \in DELAYS
    /\ m.m_type = "SET_SYNC_AL" =>
         m.CLOCK_PROC_NR \in CLIENTS /\ m.DELTA_TICKS \in DELAYS

\* The queues are right, nobody has a signal, and users wait for nothing.
Calm(a) ==
    /\ Core(a) /\ HighestRuns(a) /\ a.sig_procs = 0
    /\ \A u \in USERS : /\ a.p_getfrom[u] = NONE /\ a.p_sendto[u] = NONE
                        /\ "PENDING" \notin a.p_flags[u]

\* Who asked the clock task waits for its answer and for nothing else.
AskedClock(a, m) ==
    ClockRequest(a, m) /\ a.p_getfrom[m.m_source] = CLOCK /\ a.p_sendto[m.m_source] = NONE

\* The clock task is sent nothing but requests, and sends to the alarm task only if
\* it has to wait.
ClockInOrder(a) ==
    /\ a.inbox[CLOCK] \in {NoMessage, HardInt} \/ AskedClock(a, a.inbox[CLOCK])
    /\ \A p \in Procs : a.p_sendto[p] = CLOCK =>
         /\ ClockRequest(a, a.p_messbuf[p]) /\ a.p_messbuf[p].m_source = p
         /\ a.p_getfrom[p] = CLOCK
    /\ a.p_sendto[CLOCK] \in {NONE, SYN_ALRM_TASK}

\* The alarm task waits for the clock task or for a client, never for both.
SynInOrder(a) ==
    /\ a.p_getfrom[SYN_ALRM_TASK] \in {NONE, CLOCK}
    /\ a.p_getfrom[SYN_ALRM_TASK] = CLOCK => a.p_sendto[SYN_ALRM_TASK] = NONE

InOrder(a) == Calm(a) /\ ClockInOrder(a) /\ SynInOrder(a)

\* Times and tables have their types.
Timed ==
    /\ realtime \in Nat /\ pending_ticks \in Nat /\ realtime + pending_ticks <= MAX_TIME
    /\ next_alarm \in Nat
    /\ p_alarm \in [Procs -> 0 .. LONG_MAX - 1]
    /\ \A u \in USERS \ k.in_use : p_alarm[u] = 0
    /\ watch_dog \subseteq CLIENTS /\ syn_table \subseteq CLIENTS
    /\ strays \subseteq k.in_use

\* next_alarm is not later than an alarm that the loop, if there is one, has passed,
\* those apart that came there by a fork when it had.
Covered(loop, alarm, next, copied) ==
    /\ loop = None => \A p \in Procs \ copied : alarm[p] # 0 => next <= alarm[p]
    /\ loop # None => \A p \in Procs \ copied :
         p <= loop.at /\ alarm[p] # 0 /\ ~(loop.fired /\ p = loop.at) => next <= alarm[p]

\* Only while an alarm of a client goes off may the clock task stop within its loop.
LoopInOrder ==
    /\ clock_loop \in [at : Procs \cup {-1000, NONE}, fired : BOOLEAN]
    /\ clock_loop.fired => clock_loop.at \in Procs /\ p_alarm[clock_loop.at] # 0
    /\ clock_loop # None =>
         clock_loop.at # NONE
         /\ ((clock_loop.fired /\ clock_loop.at \in CLIENTS) \/ k.proc_ptr = CLOCK)
    /\ Covered(clock_loop, p_alarm, next_alarm, strays)

\* The alarm task that waits for the clock task has said so, and has nothing to send.
SynLoopInOrder ==
    /\ k.p_getfrom[SYN_ALRM_TASK] = CLOCK => syn_table = {} /\ syn_al_alive = FALSE
    /\ syn_loop.work_done => syn_loop.at = -1000

AlarmInv == InOrder(k) /\ Timed /\ LoopInOrder /\ SynLoopInOrder

-----------------------------------------------------------------------------
(* Slots and times.                                                          *)

\* The processes have the numbers that table.c and com.h give them.
LEMMA Numbers ==
    /\ CLOCK \in TASKS /\ SYN_ALRM_TASK \in TASKS /\ CLOCK # SYN_ALRM_TASK
    /\ TASKS \subseteq Procs /\ SERVERS \subseteq Procs /\ USERS \subseteq Procs
    /\ TASKS \cap SERVERS = {} /\ TASKS \cap USERS = {} /\ SERVERS \cap USERS = {}
    /\ CLIENTS \subseteq SERVERS
    /\ NONE \notin Procs /\ ANY \notin Procs /\ HARDWARE \notin Procs /\ IDLE \notin Procs
    /\ NONE # ANY /\ NONE # HARDWARE /\ ANY # HARDWARE
    /\ Procs \subseteq Int /\ \A p \in Procs : p > -1000
  <1>1. CLOCK # SYN_ALRM_TASK
    BY DEF CLOCK, SYN_ALRM_TASK
  <1>2. NONE # ANY /\ NONE # HARDWARE /\ ANY # HARDWARE
    BY DEF NONE, ANY, HARDWARE
  <1>3. Procs \subseteq Int
    <2>1. ASSUME NEW s \in Seq(Int) PROVE Members(s) \subseteq Int
      BY DEF Members
    <2>2. USERS \subseteq Int
      BY SlotsInOrder
    <2> QED
      BY <2>1, <2>2, SlotsAssumption DEF Procs, TASKS, SERVERS
  <1>4. TASKS \subseteq Procs /\ SERVERS \subseteq Procs /\ USERS \subseteq Procs
    BY DEF Procs
  <1> QED
    BY <1>1, <1>2, <1>3, <1>4, SlotsAssumption, SlotsInOrder, ClientsAreServers

\* There is a first slot.
LEMMA FirstSlot ==
    ASSUME NEW T \in SUBSET Procs, T # {}
    PROVE  Smallest(T) \in T /\ \A y \in T : Smallest(T) <= y
  <1> DEFINE U == {x + 1000 : x \in T}
  <1>1. \A x \in T : x \in Int /\ x + 1000 \in Nat
    BY Numbers
  <1>2. U \in SUBSET Nat /\ U # {}
    BY <1>1
  <1>3. Smallest(U) \in U /\ \A y \in U : Smallest(U) <= y
    BY <1>2, SmallestIsIn
  <1>4. PICK x \in T : Smallest(U) = x + 1000
    BY <1>3
  <1>5. ASSUME NEW y \in T PROVE x <= y
    <2>1. x + 1000 <= y + 1000
      BY <1>3, <1>4
    <2> QED
      BY <1>1, <2>1
  <1> QED
    BY <1>5 DEF Smallest

\* The earliest alarm is as early as every alarm.
LEMMA EarliestProperties ==
    ASSUME NEW alarm \in [Procs -> 0 .. LONG_MAX - 1]
    PROVE  /\ Earliest(alarm) \in Nat
           /\ \A p \in Procs : alarm[p] # 0 => Earliest(alarm) <= alarm[p]
  <1> DEFINE T == {LONG_MAX} \cup ({alarm[p] : p \in Procs} \ {0})
  <1>1. T \in SUBSET Nat /\ T # {}
    BY TimesAssumption DEF LONG_MAX
  <1>2. Earliest(alarm) = Smallest(T)
    BY DEF Earliest
  <1>3. Smallest(T) \in T /\ \A y \in T : Smallest(T) <= y
    BY <1>1, SmallestIsIn
  <1> QED
    BY <1>1, <1>2, <1>3

-----------------------------------------------------------------------------
(* Messages of servers and of the two tasks.                                 *)

\* Users are neither told nor asked.
LEMMA CalmKept ==
    ASSUME NEW a, Calm(a), NEW b, Core(b), HighestRuns(b), SameSignals(a, b),
           \A u \in USERS : b.p_getfrom[u] = a.p_getfrom[u] /\ b.p_sendto[u] = a.p_sendto[u]
    PROVE  Calm(b)
  BY DEF Calm, SameSignals

\* The clock task's mail when what is under way is left alone.
LEMMA ClockUntouched ==
    ASSUME NEW a, ClockInOrder(a), NEW b,
           a.in_use \subseteq b.in_use \/ a.p_getfrom[MM] # CLOCK,
           \/ b.inbox[CLOCK] \in {NoMessage, HardInt}
           \/ /\ b.inbox[CLOCK] = a.inbox[CLOCK]
              /\ \A s \in SERVERS : a.p_getfrom[s] = CLOCK /\ a.p_sendto[s] = NONE =>
                   b.p_getfrom[s] = CLOCK /\ b.p_sendto[s] = NONE,
           \A p \in Procs : b.p_sendto[p] = CLOCK =>
             /\ a.p_sendto[p] = CLOCK /\ b.p_messbuf[p] = a.p_messbuf[p]
             /\ b.p_getfrom[p] = a.p_getfrom[p],
           b.p_sendto[CLOCK] \in {NONE, SYN_ALRM_TASK}
    PROVE  ClockInOrder(b)
  <1>1. ASSUME NEW m, ClockRequest(a, m), a.p_getfrom[m.m_source] = CLOCK PROVE ClockRequest(b, m)
    BY <1>1 DEF ClockRequest
  <1>2. b.inbox[CLOCK] \in {NoMessage, HardInt} \/ AskedClock(b, b.inbox[CLOCK])
    <2> SUFFICES ASSUME b.inbox[CLOCK] \notin {NoMessage, HardInt}
                 PROVE  AskedClock(b, b.inbox[CLOCK])
      OBVIOUS
    <2> DEFINE m == a.inbox[CLOCK]
    <2>1. /\ b.inbox[CLOCK] = m
          /\ \A s \in SERVERS : a.p_getfrom[s] = CLOCK /\ a.p_sendto[s] = NONE =>
               b.p_getfrom[s] = CLOCK /\ b.p_sendto[s] = NONE
      OBVIOUS
    <2>2. AskedClock(a, m)
      BY <2>1 DEF ClockInOrder
    <2> HIDE DEF m
    <2>3. ClockRequest(b, m)
      BY <1>1, <2>2 DEF AskedClock
    <2>4. m.m_source \in SERVERS
      BY <2>2 DEF AskedClock, ClockRequest
    <2> QED
      BY <2>1, <2>2, <2>3, <2>4 DEF AskedClock
  <1>3. ASSUME NEW p \in Procs, b.p_sendto[p] = CLOCK
        PROVE  /\ ClockRequest(b, b.p_messbuf[p]) /\ b.p_messbuf[p].m_source = p
               /\ b.p_getfrom[p] = CLOCK
    <2>1. /\ a.p_sendto[p] = CLOCK /\ b.p_messbuf[p] = a.p_messbuf[p]
          /\ b.p_getfrom[p] = a.p_getfrom[p]
      BY <1>3
    <2>2. /\ ClockRequest(a, a.p_messbuf[p]) /\ a.p_messbuf[p].m_source = p
          /\ a.p_getfrom[p] = CLOCK
      BY <2>1 DEF ClockInOrder
    <2> QED
      BY <1>1, <2>1, <2>2
  <1> QED
    BY <1>2, <1>3 DEF ClockInOrder

\* A process that runs waits for nothing.
LEMMA RunsFree ==
    ASSUME NEW a, InOrder(a), NEW p, p = a.proc_ptr, p # IDLE
    PROVE  /\ p \in Procs /\ a.p_getfrom[p] = NONE /\ a.p_sendto[p] = NONE
           /\ Core(a) /\ HighestRuns(a)
  BY RunningProcess DEF InOrder, Calm, Free

\* An inbox is emptied before the process makes its call.
LEMMA EmptyInbox ==
    ASSUME NEW a, InOrder(a), NEW p \in Procs
    PROVE  LET b == [a EXCEPT !.inbox[p] = NoMessage] IN
           /\ InOrder(b) /\ b.proc_ptr = a.proc_ptr /\ b.in_use = a.in_use
           /\ b.p_getfrom = a.p_getfrom /\ b.p_sendto = a.p_sendto
           /\ b.p_messbuf = a.p_messbuf /\ b.inbox[p] = NoMessage
           /\ \A q \in Procs \ {p} : b.inbox[q] = a.inbox[q]
  <1> DEFINE b == [a EXCEPT !.inbox[p] = NoMessage]
  <1>1. Core(a) /\ HighestRuns(a) /\ Typed(a)
    BY DEF InOrder, Calm, Core
  <1>2. /\ SameCore(a, b) /\ SameSignals(a, b) /\ b.proc_ptr = a.proc_ptr
        /\ b.p_getfrom = a.p_getfrom /\ b.p_sendto = a.p_sendto
        /\ b.p_messbuf = a.p_messbuf /\ b.inbox = [a.inbox EXCEPT ![p] = NoMessage]
    BY <1>1 DEF Typed, Fields, SameCore, SameWaits, SameDomains, SameSignals
  <1> HIDE DEF b
  <1>3. b.inbox[p] = NoMessage /\ \A q \in Procs \ {p} : b.inbox[q] = a.inbox[q]
    BY <1>1, <1>2 DEF Typed
  <1>4. Core(b) /\ HighestRuns(b)
    BY <1>1, <1>2, SameCoreKeeps
  <1>5. Calm(b)
    BY <1>2, <1>4, CalmKept DEF InOrder
  <1>6. ClockInOrder(b)
    <2>1. b.inbox[CLOCK] = NoMessage \/ b.inbox[CLOCK] = a.inbox[CLOCK]
      BY <1>3, Numbers
    <2>2. a.in_use \subseteq b.in_use /\ ClockInOrder(a)
      BY <1>2 DEF SameSignals, InOrder
    <2>3. b.p_sendto[CLOCK] \in {NONE, SYN_ALRM_TASK}
      BY <1>2, <2>2 DEF ClockInOrder
    <2> QED
      BY <1>2, <2>1, <2>2, <2>3, ClockUntouched
  <1>7. SynInOrder(b)
    BY <1>2 DEF InOrder, SynInOrder
  <1> QED
    BY <1>2, <1>3, <1>5, <1>6, <1>7 DEF InOrder, SameSignals, b

\* What a server or a task calls.
LEMMA CallEffect ==
    ASSUME NEW a, InOrder(a), NEW p \in TASKS \cup SERVERS, p = a.proc_ptr,
           NEW function \in {"SEND", "RECEIVE", "BOTH"},
           NEW other \in TASKS \cup SERVERS \cup {ANY},
           function # "RECEIVE" => other \in (TASKS \cup SERVERS) \ {p},
           NEW m
    PROVE  LET b == sys_call(a, function, other, m).k IN
           /\ Core(b) /\ HighestRuns(b)
           /\ \/ function # "RECEIVE" /\ Refused(a, p, other) /\ b = a
              \/ function = "SEND" /\ ~Refused(a, p, other) /\ Sent(a, b, p, other, m)
              \/ function = "RECEIVE" /\ Received(a, b, p, other)
              \/ /\ function = "BOTH" /\ ~Refused(a, p, other)
                 /\ \E c : Sent(a, c, p, other, m) /\ Received(c, b, p, other)
  <1> DEFINE b == sys_call(a, function, other, m).k
  <1>1. p \in Procs /\ p \notin USERS /\ p # IDLE /\ other \in Procs \cup {ANY, HARDWARE}
    <2>1. /\ TASKS \cup SERVERS \subseteq Procs
          /\ (TASKS \cup SERVERS) \cap USERS = {} /\ IDLE \notin Procs
      BY Numbers
    <2>2. p \in Procs /\ p \notin USERS
      BY <2>1
    <2>3. p # IDLE
      BY <2>1, <2>2
    <2>4. other \in Procs \cup {ANY, HARDWARE}
      BY <2>1
    <2> QED
      BY <2>2, <2>3, <2>4
  <1>2. other \notin USERS \/ function = "RECEIVE"
    BY Numbers
  <1>3. Core(a) /\ HighestRuns(a) /\ ~ToBeTold(a, p, other)
    BY DEF InOrder, Calm, ToBeTold
  <1>4. function = "RECEIVE" \/ (p \in USERS /\ function # "BOTH") \/ other \in Procs \ {p}
    <2>1. TASKS \cup SERVERS \subseteq Procs
      BY DEF Procs
    <2> QED
      BY <2>1
  <1>5. Core(b) /\ HighestRuns(b) /\ Called(a, b, function, other, m)
    BY <1>1, <1>2, <1>3, <1>4, CallCore
  <1> HIDE DEF b
  <1> QED
    BY <1>1, <1>5 DEF Called, b

\* A server receives.
LEMMA ServerReceives ==
    ASSUME NEW a, InOrder(a), NEW p \in SERVERS, p = a.proc_ptr, NEW m
    PROVE  LET b == sys_call(a, "RECEIVE", ANY, m).k IN
           /\ InOrder(b) /\ b.in_use = a.in_use
           /\ b.p_getfrom[SYN_ALRM_TASK] = a.p_getfrom[SYN_ALRM_TASK]
  <1> DEFINE b == sys_call(a, "RECEIVE", ANY, m).k
  <1>1. Core(b) /\ HighestRuns(b) /\ Received(a, b, p, ANY)
    BY CallEffect
  <1> HIDE DEF b
  <1>2. /\ p \in Procs /\ a.p_getfrom[p] = NONE /\ a.p_sendto[p] = NONE
        /\ Typed(a) /\ Waits(a) /\ p \notin TASKS /\ p \notin USERS
        /\ CLOCK \in Procs /\ CLOCK \in TASKS /\ SYN_ALRM_TASK \in TASKS
        /\ SYN_ALRM_TASK \in Procs /\ CLOCK # SYN_ALRM_TASK /\ CLOCK # NONE
    BY RunsFree, Numbers DEF Core
  <1>3. CASE \E sender \in Procs : a.p_sendto[sender] = p /\ TookFrom(a, b, p, sender)
    <2>1. PICK sender \in Procs : a.p_sendto[sender] = p /\ TookFrom(a, b, p, sender)
      BY <1>3
    <2>2. /\ SameSignals(a, b) /\ b.p_getfrom = a.p_getfrom
          /\ b.p_sendto[sender] = NONE
          /\ \A q \in Procs \ {sender} : /\ b.p_sendto[q] = a.p_sendto[q]
                                         /\ b.p_messbuf[q] = a.p_messbuf[q]
          /\ b.inbox[CLOCK] = a.inbox[CLOCK]
      BY <1>2, <2>1 DEF TookFrom, Typed
    <2>3. sender \notin USERS
      BY <1>2, <2>1, Numbers DEF InOrder, Calm
    <2>4. Calm(b)
      BY <1>1, <2>2, <2>3, CalmKept, Numbers DEF InOrder
    <2>5. ClockInOrder(b)
      <3>1. ClockInOrder(a) /\ a.in_use \subseteq b.in_use
        BY <2>2 DEF InOrder, SameSignals
      <3>2. \A s \in SERVERS : a.p_getfrom[s] = CLOCK /\ a.p_sendto[s] = NONE =>
              b.p_getfrom[s] = CLOCK /\ b.p_sendto[s] = NONE
        BY <2>2, Numbers
      <3>3. \A q \in Procs : b.p_sendto[q] = CLOCK =>
              /\ a.p_sendto[q] = CLOCK /\ b.p_messbuf[q] = a.p_messbuf[q]
              /\ b.p_getfrom[q] = a.p_getfrom[q]
        BY <1>2, <2>2
      <3>4. b.p_sendto[CLOCK] \in {NONE, SYN_ALRM_TASK}
        BY <1>2, <2>2, <3>1 DEF ClockInOrder
      <3> QED
        BY <2>2, <3>1, <3>2, <3>3, <3>4, ClockUntouched
    <2>6. SynInOrder(b)
      BY <1>2, <2>2 DEF InOrder, SynInOrder
    <2> QED
      BY <2>2, <2>4, <2>5, <2>6 DEF InOrder, SameSignals, b
  <1>4. CASE WaitsFor(a, b, p, ANY)
    <2>2. /\ SameSignals(a, b) /\ b.p_sendto = a.p_sendto
          /\ \A q \in Procs \ {p} : b.p_getfrom[q] = a.p_getfrom[q]
          /\ b.p_messbuf = a.p_messbuf /\ b.inbox = a.inbox
      BY <1>2, <1>4 DEF WaitsFor, Typed
    <2>4. Calm(b)
      BY <1>1, <1>2, <2>2, CalmKept, Numbers DEF InOrder
    <2>5. ClockInOrder(b)
      <3>1. ClockInOrder(a) /\ a.in_use \subseteq b.in_use
        BY <2>2 DEF InOrder, SameSignals
      <3>2. \A s \in SERVERS : a.p_getfrom[s] = CLOCK /\ a.p_sendto[s] = NONE =>
              b.p_getfrom[s] = CLOCK /\ b.p_sendto[s] = NONE
        BY <1>2, <2>2, Numbers
      <3>3. \A q \in Procs : b.p_sendto[q] = CLOCK =>
              /\ a.p_sendto[q] = CLOCK /\ b.p_messbuf[q] = a.p_messbuf[q]
              /\ b.p_getfrom[q] = a.p_getfrom[q]
        BY <1>2, <2>2
      <3>4. b.p_sendto[CLOCK] \in {NONE, SYN_ALRM_TASK}
        BY <2>2, <3>1 DEF ClockInOrder
      <3> QED
        BY <2>2, <3>1, <3>2, <3>3, <3>4, ClockUntouched
    <2>6. SynInOrder(b) /\ b.p_getfrom[SYN_ALRM_TASK] = a.p_getfrom[SYN_ALRM_TASK]
      BY <1>2, <2>2 DEF InOrder, SynInOrder
    <2> QED
      BY <2>2, <2>4, <2>5, <2>6 DEF InOrder, SameSignals, b
  <1>5. p \notin a.int_blocked
    BY <1>2 DEF Typed
  <1> QED
    BY <1>1, <1>3, <1>4, <1>5 DEF Received

\* A server asks the clock task and waits for the answer.
LEMMA ServerAsks ==
    ASSUME NEW a, InOrder(a), NEW p \in SERVERS, p = a.proc_ptr,
           NEW m, ClockRequest(a, m), m.m_source = p
    PROVE  LET b == sys_call(a, "BOTH", CLOCK, m).k IN
           /\ InOrder(b) /\ b.in_use = a.in_use
           /\ b.p_getfrom[SYN_ALRM_TASK] = a.p_getfrom[SYN_ALRM_TASK]
  <1> DEFINE b == sys_call(a, "BOTH", CLOCK, m).k
  <1>2. /\ p \in Procs /\ a.p_getfrom[p] = NONE /\ a.p_sendto[p] = NONE
        /\ Typed(a) /\ Waits(a) /\ p \notin TASKS /\ p \notin USERS /\ p # CLOCK
        /\ CLOCK \in Procs /\ CLOCK \in TASKS /\ SYN_ALRM_TASK \in TASKS
        /\ SYN_ALRM_TASK \in Procs /\ CLOCK # SYN_ALRM_TASK
        /\ CLOCK # NONE /\ CLOCK # ANY /\ CLOCK # HARDWARE /\ p # SYN_ALRM_TASK
        /\ CLOCK \notin USERS /\ CLOCK \notin SERVERS /\ p # NONE
    BY RunsFree, Numbers DEF Core
  <1>1. /\ Core(b) /\ HighestRuns(b)
        /\ \/ b = a
           \/ /\ ~Refused(a, p, CLOCK)
              /\ \E c : Sent(a, c, p, CLOCK, m) /\ Received(c, b, p, CLOCK)
    <2>1. p \in TASKS \cup SERVERS /\ CLOCK \in (TASKS \cup SERVERS) \ {p}
          /\ CLOCK \in TASKS \cup SERVERS \cup {ANY} /\ "BOTH" \in {"SEND", "RECEIVE", "BOTH"}
      BY <1>2
    <2> QED
      BY <2>1, CallEffect
  <1> HIDE DEF b
  <1>3. CASE b = a
    BY <1>2, <1>3 DEF b
  <1>4. CASE /\ ~Refused(a, p, CLOCK)
             /\ \E c : Sent(a, c, p, CLOCK, m) /\ Received(c, b, p, CLOCK)
    <2>1. PICK c : Sent(a, c, p, CLOCK, m) /\ Received(c, b, p, CLOCK)
      BY <1>4
    <2>2. /\ SameSignals(a, c) /\ c.p_getfrom[p] = NONE
          /\ c.p_sendto[CLOCK] \in {NONE, SYN_ALRM_TASK}
          /\ \A q \in Procs \ {p, CLOCK} : /\ c.p_getfrom[q] = a.p_getfrom[q]
                                           /\ c.p_sendto[q] = a.p_sendto[q]
                                           /\ c.p_messbuf[q] = a.p_messbuf[q]
          /\ c.p_getfrom[CLOCK] \in {NONE, a.p_getfrom[CLOCK]}
          /\ DOMAIN c.p_getfrom = Procs
          /\ \/ c.p_sendto[p] = NONE /\ c.inbox[CLOCK] = m
             \/ c.p_sendto[p] = CLOCK /\ c.inbox[CLOCK] = a.inbox[CLOCK] /\ c.p_messbuf[p] = m
      <3>1. a.p_sendto[CLOCK] \in {NONE, SYN_ALRM_TASK}
        BY DEF InOrder, ClockInOrder
      <3>2. CASE Delivered(a, c, CLOCK, m)
        BY <1>2, <3>1, <3>2 DEF Delivered, Typed
      <3>3. CASE WaitsToSend(a, c, p, CLOCK, m)
        BY <1>2, <3>1, <3>3 DEF WaitsToSend, Typed
      <3> QED
        BY <1>4, <2>1, <3>2, <3>3 DEF Sent
    <2>3. WaitsFor(c, b, p, CLOCK)
      <3>1. ~(\E sender \in Procs : /\ c.p_sendto[p] = NONE /\ c.p_sendto[sender] = p
                                    /\ CLOCK \in {ANY, sender} /\ TookFrom(c, b, p, sender))
        BY <1>2, <2>2
      <3>2. CLOCK \notin {ANY, HARDWARE}
        BY <1>2
      <3> QED
        BY <2>1, <3>1, <3>2 DEF Received
    <2>4. /\ SameSignals(a, b) /\ b.p_getfrom[p] = CLOCK
          /\ b.p_sendto = c.p_sendto /\ b.p_messbuf = c.p_messbuf /\ b.inbox = c.inbox
          /\ \A q \in Procs \ {p, CLOCK} : b.p_getfrom[q] = a.p_getfrom[q]
      BY <1>2, <2>2, <2>3 DEF WaitsFor, SameSignals
    <2>5. Calm(b)
      <3>1. \A u \in USERS : b.p_getfrom[u] = a.p_getfrom[u] /\ b.p_sendto[u] = a.p_sendto[u]
        BY <1>2, <2>2, <2>4, Numbers
      <3> QED
        BY <1>1, <2>4, <3>1, CalmKept DEF InOrder
    <2>6. ClockRequest(b, m)
      BY <2>4 DEF SameSignals, ClockRequest
    <2>7. b.inbox[CLOCK] \in {NoMessage, HardInt} \/ AskedClock(b, b.inbox[CLOCK])
      <3>1. CASE c.p_sendto[p] = NONE /\ c.inbox[CLOCK] = m
        BY <2>4, <2>6, <3>1 DEF AskedClock
      <3>2. CASE c.inbox[CLOCK] = a.inbox[CLOCK]
        <4> SUFFICES ASSUME b.inbox[CLOCK] \notin {NoMessage, HardInt}
                     PROVE  AskedClock(b, b.inbox[CLOCK])
          OBVIOUS
        <4> DEFINE n == a.inbox[CLOCK]
        <4>1. AskedClock(a, n) /\ b.inbox[CLOCK] = n
          BY <2>4, <3>2 DEF InOrder, ClockInOrder
        <4> HIDE DEF n
        <4>2. n.m_source \in Procs \ {p, CLOCK}
          BY <1>2, <4>1, Numbers DEF AskedClock, ClockRequest
        <4>3. ClockRequest(b, n)
          BY <2>4, <4>1 DEF SameSignals, ClockRequest, AskedClock
        <4> QED
          BY <2>2, <2>4, <4>1, <4>2, <4>3 DEF AskedClock
      <3> QED
        BY <2>2, <3>1, <3>2
    <2>8. ASSUME NEW q \in Procs, b.p_sendto[q] = CLOCK
          PROVE  /\ ClockRequest(b, b.p_messbuf[q]) /\ b.p_messbuf[q].m_source = q
                 /\ b.p_getfrom[q] = CLOCK
      <3>1. CASE q = p
        BY <1>2, <2>2, <2>4, <2>6, <2>8, <3>1
      <3>2. CASE q # p
        <4>1. q # CLOCK /\ a.p_sendto[q] = CLOCK
          BY <1>2, <2>2, <2>4, <2>8, <3>2
        <4>2. /\ ClockRequest(a, a.p_messbuf[q]) /\ a.p_messbuf[q].m_source = q
              /\ a.p_getfrom[q] = CLOCK
          BY <4>1 DEF InOrder, ClockInOrder
        <4>3. b.p_messbuf[q] = a.p_messbuf[q] /\ b.p_getfrom[q] = a.p_getfrom[q]
          BY <2>2, <2>4, <3>2, <4>1
        <4>4. ClockRequest(b, a.p_messbuf[q])
          BY <2>4, <4>2 DEF SameSignals, ClockRequest
        <4> QED
          BY <4>2, <4>3, <4>4
      <3> QED
        BY <3>1, <3>2
    <2>9. ClockInOrder(b)
      BY <2>2, <2>4, <2>7, <2>8 DEF ClockInOrder
    <2>10. SynInOrder(b) /\ b.p_getfrom[SYN_ALRM_TASK] = a.p_getfrom[SYN_ALRM_TASK]
      BY <1>2, <2>2, <2>4 DEF InOrder, SynInOrder
    <2> QED
      BY <2>4, <2>5, <2>9, <2>10 DEF InOrder, SameSignals, b
  <1> QED
    BY <1>1, <1>3, <1>4

\* The clock task receives.
LEMMA ClockReceivesKeeps ==
    ASSUME NEW a, InOrder(a), CLOCK = a.proc_ptr, NEW m
    PROVE  LET b == sys_call(a, "RECEIVE", ANY, m).k IN
           /\ InOrder(b) /\ b.in_use = a.in_use
           /\ b.p_getfrom[SYN_ALRM_TASK] = a.p_getfrom[SYN_ALRM_TASK]
  <1> DEFINE b == sys_call(a, "RECEIVE", ANY, m).k
  <1>1. Core(b) /\ HighestRuns(b) /\ Received(a, b, CLOCK, ANY)
    BY CallEffect, Numbers
  <1> HIDE DEF b
  <1>2. /\ CLOCK \in Procs /\ CLOCK \in TASKS /\ CLOCK \notin SERVERS
        /\ SYN_ALRM_TASK \in Procs /\ CLOCK # SYN_ALRM_TASK /\ CLOCK # NONE
        /\ CLOCK \notin USERS /\ CLOCK # IDLE
    BY Numbers
  <1>3. a.p_getfrom[CLOCK] = NONE /\ a.p_sendto[CLOCK] = NONE /\ Typed(a)
    BY <1>2, RunsFree DEF Core
  <1>4. CASE \E sender \in Procs : a.p_sendto[sender] = CLOCK /\ TookFrom(a, b, CLOCK, sender)
    <2>1. PICK sender \in Procs : a.p_sendto[sender] = CLOCK /\ TookFrom(a, b, CLOCK, sender)
      BY <1>4
    <2> DEFINE n == a.p_messbuf[sender]
    <2>2. /\ SameSignals(a, b) /\ b.p_getfrom = a.p_getfrom
          /\ b.p_sendto[sender] = NONE
          /\ \A q \in Procs \ {sender} : /\ b.p_sendto[q] = a.p_sendto[q]
                                         /\ b.p_messbuf[q] = a.p_messbuf[q]
          /\ b.inbox[CLOCK] = n
      BY <1>2, <1>3, <2>1 DEF TookFrom, Typed
    <2>3. ClockRequest(a, n) /\ n.m_source = sender /\ a.p_getfrom[sender] = CLOCK
      BY <2>1 DEF InOrder, ClockInOrder
    <2> HIDE DEF n
    <2>4. sender \in SERVERS
      BY <2>3 DEF ClockRequest
    <2>5. Calm(b)
      BY <1>1, <2>2, <2>4, CalmKept, Numbers DEF InOrder
    <2>6. ClockInOrder(b)
      <3>1. \A r : ClockRequest(a, r) => ClockRequest(b, r)
        BY <2>2 DEF SameSignals, ClockRequest
      <3>2. AskedClock(b, b.inbox[CLOCK])
        BY <2>2, <2>3, <3>1 DEF AskedClock
      <3>3. \A q \in Procs : b.p_sendto[q] = CLOCK =>
              /\ ClockRequest(b, b.p_messbuf[q]) /\ b.p_messbuf[q].m_source = q
              /\ b.p_getfrom[q] = CLOCK
        <4> SUFFICES ASSUME NEW q \in Procs, b.p_sendto[q] = CLOCK
                     PROVE  /\ ClockRequest(b, b.p_messbuf[q]) /\ b.p_messbuf[q].m_source = q
                            /\ b.p_getfrom[q] = CLOCK
          OBVIOUS
        <4>1. q # sender /\ a.p_sendto[q] = CLOCK /\ b.p_messbuf[q] = a.p_messbuf[q]
          BY <1>2, <2>2
        <4> QED
          BY <2>2, <3>1, <4>1 DEF InOrder, ClockInOrder
      <3>4. b.p_sendto[CLOCK] \in {NONE, SYN_ALRM_TASK}
        BY <1>2, <2>2, <2>4 DEF InOrder, ClockInOrder
      <3> QED
        BY <3>2, <3>3, <3>4 DEF ClockInOrder
    <2>7. SynInOrder(b)
      BY <1>2, <2>2 DEF InOrder, SynInOrder
    <2> QED
      BY <2>2, <2>5, <2>6, <2>7 DEF InOrder, SameSignals, b
  <1>5. CASE TookInterrupt(a, b, CLOCK) \/ WaitsFor(a, b, CLOCK, ANY)
    <2>1. /\ SameSignals(a, b) /\ b.p_sendto = a.p_sendto /\ b.p_messbuf = a.p_messbuf
          /\ \A q \in Procs \ {CLOCK} : b.p_getfrom[q] = a.p_getfrom[q]
          /\ b.inbox[CLOCK] \in {HardInt, a.inbox[CLOCK]}
      <3>1. CASE TookInterrupt(a, b, CLOCK)
        BY <1>2, <1>3, <3>1 DEF TookInterrupt, Typed, HardInt
      <3>2. CASE WaitsFor(a, b, CLOCK, ANY)
        BY <1>2, <1>3, <3>2 DEF WaitsFor, Typed
      <3> QED
        BY <1>5, <3>1, <3>2
    <2>2. Calm(b)
      BY <1>1, <1>2, <2>1, CalmKept, Numbers DEF InOrder
    <2>3. ClockInOrder(b)
      <3>1. ClockInOrder(a) /\ a.in_use \subseteq b.in_use
        BY <2>1 DEF InOrder, SameSignals
      <3>2. \A s \in SERVERS : a.p_getfrom[s] = CLOCK /\ a.p_sendto[s] = NONE =>
              b.p_getfrom[s] = CLOCK /\ b.p_sendto[s] = NONE
        BY <1>2, <2>1, Numbers
      <3>3. \A q \in Procs : b.p_sendto[q] = CLOCK =>
              /\ a.p_sendto[q] = CLOCK /\ b.p_messbuf[q] = a.p_messbuf[q]
              /\ b.p_getfrom[q] = a.p_getfrom[q]
        BY <1>2, <1>3, <2>1
      <3>4. b.p_sendto[CLOCK] \in {NONE, SYN_ALRM_TASK}
        BY <2>1, <3>1 DEF ClockInOrder
      <3>5. b.inbox[CLOCK] \in {NoMessage, HardInt} \/ b.inbox[CLOCK] = a.inbox[CLOCK]
        BY <2>1
      <3> QED
        BY <3>1, <3>2, <3>3, <3>4, <3>5, ClockUntouched
    <2>4. SynInOrder(b) /\ b.p_getfrom[SYN_ALRM_TASK] = a.p_getfrom[SYN_ALRM_TASK]
      BY <1>2, <2>1 DEF InOrder, SynInOrder
    <2> QED
      BY <2>1, <2>2, <2>3, <2>4 DEF InOrder, SameSignals, b
  <1> QED
    BY <1>1, <1>4, <1>5 DEF Received

\* The clock task answers a server that waits for it: it does not have to wait.
LEMMA ClockAnswers ==
    ASSUME NEW a, InOrder(a), CLOCK = a.proc_ptr, a.inbox[CLOCK] = NoMessage,
           NEW s \in SERVERS, a.p_getfrom[s] = CLOCK, a.p_sendto[s] = NONE, NEW m
    PROVE  LET b == sys_call(a, "SEND", s, m).k IN
           /\ InOrder(b) /\ b.in_use = a.in_use
           /\ b.p_getfrom[SYN_ALRM_TASK] = a.p_getfrom[SYN_ALRM_TASK]
  <1> DEFINE b == sys_call(a, "SEND", s, m).k
  <1>2. /\ CLOCK \in Procs /\ CLOCK \in TASKS /\ CLOCK \notin SERVERS
        /\ SYN_ALRM_TASK \in Procs /\ CLOCK # SYN_ALRM_TASK /\ CLOCK # NONE
        /\ CLOCK \notin USERS /\ CLOCK # IDLE /\ s \in Procs /\ s \notin USERS /\ s # CLOCK
        /\ s # SYN_ALRM_TASK
    BY Numbers
  <1>1. /\ Core(b) /\ HighestRuns(b)
        /\ \/ Refused(a, CLOCK, s)
           \/ ~Refused(a, CLOCK, s) /\ Sent(a, b, CLOCK, s, m)
    <2>1. /\ CLOCK \in TASKS \cup SERVERS /\ s \in TASKS \cup SERVERS \cup {ANY}
          /\ s \in (TASKS \cup SERVERS) \ {CLOCK} /\ "SEND" \in {"SEND", "RECEIVE", "BOTH"}
      BY <1>2
    <2> QED
      BY <2>1, CallEffect
  <1> HIDE DEF b
  <1>3. a.p_getfrom[CLOCK] = NONE /\ a.p_sendto[CLOCK] = NONE /\ Typed(a)
    BY <1>2, RunsFree DEF Core
  <1>4. ~Refused(a, CLOCK, s)
    <2>1. ~Ring(a, CLOCK, s)
      <3>1. {s} \in SUBSET Procs /\ s \in {s} /\ \A q \in {s} : a.p_sendto[q] \in {s} \cup {NONE}
        BY <1>2
      <3>2. ~(\E q \in {s} : a.p_sendto[q] = CLOCK)
        BY <1>2
      <3> QED
        BY <3>1, <3>2 DEF Ring
    <2> QED
      BY <1>2, <2>1 DEF Refused, InUse
  <1>5. Delivered(a, b, s, m)
    <2>1. Awaits(a, s, CLOCK)
      BY DEF Awaits
    <2> QED
      BY <1>1, <1>4, <2>1 DEF Sent
  <1>6. /\ SameSignals(a, b) /\ b.p_sendto = a.p_sendto /\ b.p_messbuf = a.p_messbuf
        /\ \A q \in Procs \ {s} : b.p_getfrom[q] = a.p_getfrom[q]
        /\ b.inbox[CLOCK] = NoMessage
    BY <1>2, <1>3, <1>5 DEF Delivered, Typed
  <1>7. Calm(b)
    BY <1>1, <1>2, <1>6, CalmKept, Numbers DEF InOrder
  <1>8. ClockInOrder(b)
    <2>1. ClockInOrder(a) /\ a.in_use \subseteq b.in_use
      BY <1>6 DEF InOrder, SameSignals
    <2>2. \A q \in Procs : b.p_sendto[q] = CLOCK =>
            /\ a.p_sendto[q] = CLOCK /\ b.p_messbuf[q] = a.p_messbuf[q]
            /\ b.p_getfrom[q] = a.p_getfrom[q]
      BY <1>2, <1>6
    <2>3. b.p_sendto[CLOCK] \in {NONE, SYN_ALRM_TASK}
      BY <1>6, <2>1 DEF ClockInOrder
    <2> QED
      BY <1>6, <2>1, <2>2, <2>3, ClockUntouched
  <1>9. SynInOrder(b) /\ b.p_getfrom[SYN_ALRM_TASK] = a.p_getfrom[SYN_ALRM_TASK]
    BY <1>2, <1>6 DEF InOrder, SynInOrder
  <1> QED
    BY <1>6, <1>7, <1>8, <1>9 DEF InOrder, SameSignals, b

\* The clock task wakes the alarm task, or waits until it listens.
LEMMA ClockWakesSyn ==
    ASSUME NEW a, InOrder(a), CLOCK = a.proc_ptr, NEW m
    PROVE  LET b == sys_call(a, "SEND", SYN_ALRM_TASK, m).k IN
           /\ InOrder(b) /\ b.in_use = a.in_use /\ b.p_getfrom[SYN_ALRM_TASK] = NONE
  <1> DEFINE b == sys_call(a, "SEND", SYN_ALRM_TASK, m).k
  <1>2. /\ CLOCK \in Procs /\ CLOCK \in TASKS /\ CLOCK \notin SERVERS
        /\ SYN_ALRM_TASK \in Procs /\ SYN_ALRM_TASK \in TASKS /\ CLOCK # SYN_ALRM_TASK
        /\ SYN_ALRM_TASK \notin SERVERS /\ SYN_ALRM_TASK # NONE
        /\ CLOCK # NONE /\ CLOCK \notin USERS /\ CLOCK # IDLE /\ SYN_ALRM_TASK \notin USERS
    BY Numbers
  <1>1. /\ Core(b) /\ HighestRuns(b)
        /\ \/ Refused(a, CLOCK, SYN_ALRM_TASK) /\ b = a
           \/ ~Refused(a, CLOCK, SYN_ALRM_TASK) /\ Sent(a, b, CLOCK, SYN_ALRM_TASK, m)
    <2>1. /\ CLOCK \in TASKS \cup SERVERS /\ SYN_ALRM_TASK \in TASKS \cup SERVERS \cup {ANY}
          /\ SYN_ALRM_TASK \in (TASKS \cup SERVERS) \ {CLOCK}
          /\ "SEND" \in {"SEND", "RECEIVE", "BOTH"}
      BY <1>2
    <2> QED
      BY <2>1, CallEffect
  <1> HIDE DEF b
  <1>3. a.p_getfrom[CLOCK] = NONE /\ a.p_sendto[CLOCK] = NONE /\ Typed(a)
    BY <1>2, RunsFree DEF Core
  <1>4. /\ a.p_getfrom[SYN_ALRM_TASK] \in {NONE, CLOCK}
        /\ a.p_getfrom[SYN_ALRM_TASK] = CLOCK =>
             ~Refused(a, CLOCK, SYN_ALRM_TASK) /\ Awaits(a, SYN_ALRM_TASK, CLOCK)
    <2> SUFFICES ASSUME a.p_getfrom[SYN_ALRM_TASK] = CLOCK
                 PROVE  ~Refused(a, CLOCK, SYN_ALRM_TASK) /\ Awaits(a, SYN_ALRM_TASK, CLOCK)
      BY DEF InOrder, SynInOrder
    <2>0. a.p_sendto[SYN_ALRM_TASK] = NONE
      BY DEF InOrder, SynInOrder
    <2>1. ~Ring(a, CLOCK, SYN_ALRM_TASK)
      <3> DEFINE S == {SYN_ALRM_TASK}
      <3>1. S \in SUBSET Procs /\ SYN_ALRM_TASK \in S /\ \A q \in S : a.p_sendto[q] \in S \cup {NONE}
        BY <1>2, <2>0
      <3>2. ~(\E q \in S : a.p_sendto[q] = CLOCK)
        BY <1>2, <2>0
      <3> HIDE DEF S
      <3> QED
        BY <3>1, <3>2 DEF Ring
    <2> QED
      BY <1>2, <2>0, <2>1 DEF Refused, InUse, Awaits
  <1>5. CASE b = a
    <2>1. a.p_getfrom[SYN_ALRM_TASK] # CLOCK
      <3> SUFFICES ASSUME a.p_getfrom[SYN_ALRM_TASK] = CLOCK PROVE FALSE
        OBVIOUS
      <3>1. Delivered(a, b, SYN_ALRM_TASK, m)
        BY <1>1, <1>4 DEF Sent
      <3>2. b.p_getfrom[SYN_ALRM_TASK] = NONE
        BY <1>2, <1>3, <3>1 DEF Delivered, Typed
      <3> QED
        BY <1>2, <1>5, <3>2
    <2> QED
      BY <1>4, <1>5, <2>1 DEF b
  <1>6. CASE Delivered(a, b, SYN_ALRM_TASK, m) \/ WaitsToSend(a, b, CLOCK, SYN_ALRM_TASK, m)
    <2>1. /\ SameSignals(a, b) /\ b.p_sendto[CLOCK] \in {NONE, SYN_ALRM_TASK}
          /\ b.inbox[CLOCK] = a.inbox[CLOCK]
          /\ \A q \in Procs \ {CLOCK} : /\ b.p_sendto[q] = a.p_sendto[q]
                                        /\ b.p_messbuf[q] = a.p_messbuf[q]
          /\ \A q \in Procs \ {SYN_ALRM_TASK} : b.p_getfrom[q] = a.p_getfrom[q]
          /\ b.p_getfrom[SYN_ALRM_TASK] \in {NONE, a.p_getfrom[SYN_ALRM_TASK]}
      <3>1. CASE Delivered(a, b, SYN_ALRM_TASK, m)
        BY <1>2, <1>3, <3>1 DEF Delivered, Typed
      <3>2. CASE WaitsToSend(a, b, CLOCK, SYN_ALRM_TASK, m)
        BY <1>2, <1>3, <3>2 DEF WaitsToSend, Typed
      <3> QED
        BY <1>6, <3>1, <3>2
    <2>2. b.p_getfrom[SYN_ALRM_TASK] = NONE
      <3>1. CASE a.p_getfrom[SYN_ALRM_TASK] = NONE
        BY <2>1, <3>1
      <3>2. CASE a.p_getfrom[SYN_ALRM_TASK] = CLOCK
        <4>1. Delivered(a, b, SYN_ALRM_TASK, m)
          BY <1>1, <1>4, <3>2 DEF Sent
        <4> QED
          BY <1>2, <1>3, <4>1 DEF Delivered, Typed
      <3> QED
        BY <1>4, <3>1, <3>2
    <2>3. Calm(b)
      BY <1>1, <1>2, <2>1, CalmKept, Numbers DEF InOrder
    <2>4. ClockInOrder(b)
      <3>1. ClockInOrder(a) /\ a.in_use \subseteq b.in_use
        BY <2>1 DEF InOrder, SameSignals
      <3>2. \A s \in SERVERS : a.p_getfrom[s] = CLOCK /\ a.p_sendto[s] = NONE =>
              b.p_getfrom[s] = CLOCK /\ b.p_sendto[s] = NONE
        BY <1>2, <2>1, Numbers
      <3>3. \A q \in Procs : b.p_sendto[q] = CLOCK =>
              /\ a.p_sendto[q] = CLOCK /\ b.p_messbuf[q] = a.p_messbuf[q]
              /\ b.p_getfrom[q] = a.p_getfrom[q]
        <4>1. a.p_sendto[SYN_ALRM_TASK] # CLOCK
          <5>1. a.p_sendto[SYN_ALRM_TASK] = CLOCK => SYN_ALRM_TASK \in SERVERS
            BY <1>2, <3>1 DEF ClockInOrder, ClockRequest
          <5> QED
            BY <1>2, <5>1
        <4>2. b.p_sendto[CLOCK] # CLOCK /\ b.p_sendto[SYN_ALRM_TASK] # CLOCK
          BY <1>2, <2>1, <4>1
        <4> QED
          BY <2>1, <4>2
      <3> QED
        BY <2>1, <3>1, <3>2, <3>3, ClockUntouched
    <2>5. SynInOrder(b)
      BY <1>2, <2>2 DEF SynInOrder
    <2> QED
      BY <2>1, <2>2, <2>3, <2>4, <2>5 DEF InOrder, SameSignals, b
  <1> QED
    BY <1>1, <1>5, <1>6 DEF Sent

\* The alarm task waits for the clock task, or takes what that has sent.
LEMMA SynReceives ==
    ASSUME NEW a, InOrder(a), SYN_ALRM_TASK = a.proc_ptr, NEW m
    PROVE  LET b == sys_call(a, "RECEIVE", CLOCK, m).k IN
           InOrder(b) /\ b.in_use = a.in_use
  <1> DEFINE b == sys_call(a, "RECEIVE", CLOCK, m).k
  <1>2. /\ CLOCK \in Procs /\ CLOCK \in TASKS /\ CLOCK \notin SERVERS
        /\ SYN_ALRM_TASK \in Procs /\ SYN_ALRM_TASK \in TASKS /\ CLOCK # SYN_ALRM_TASK
        /\ SYN_ALRM_TASK \notin SERVERS /\ SYN_ALRM_TASK # NONE /\ SYN_ALRM_TASK # IDLE
        /\ CLOCK # NONE /\ CLOCK \notin USERS /\ CLOCK # ANY /\ CLOCK # HARDWARE
        /\ SYN_ALRM_TASK \notin USERS
    BY Numbers
  <1>1. Core(b) /\ HighestRuns(b) /\ Received(a, b, SYN_ALRM_TASK, CLOCK)
    <2>1. /\ SYN_ALRM_TASK \in TASKS \cup SERVERS /\ CLOCK \in TASKS \cup SERVERS \cup {ANY}
          /\ "RECEIVE" \in {"SEND", "RECEIVE", "BOTH"}
      BY <1>2
    <2> QED
      BY <2>1, CallEffect
  <1> HIDE DEF b
  <1>3. a.p_getfrom[SYN_ALRM_TASK] = NONE /\ a.p_sendto[SYN_ALRM_TASK] = NONE /\ Typed(a)
    BY <1>2, RunsFree DEF Core
  <1>4. TookFrom(a, b, SYN_ALRM_TASK, CLOCK) \/ WaitsFor(a, b, SYN_ALRM_TASK, CLOCK)
    BY <1>1, <1>2 DEF Received
  <1>5. /\ SameSignals(a, b) /\ b.p_sendto[CLOCK] \in {NONE, SYN_ALRM_TASK}
        /\ b.inbox[CLOCK] = a.inbox[CLOCK] /\ b.p_sendto[SYN_ALRM_TASK] = NONE
        /\ \A q \in Procs \ {CLOCK} : /\ b.p_sendto[q] = a.p_sendto[q]
                                      /\ b.p_messbuf[q] = a.p_messbuf[q]
        /\ \A q \in Procs \ {SYN_ALRM_TASK} : b.p_getfrom[q] = a.p_getfrom[q]
        /\ b.p_getfrom[SYN_ALRM_TASK] \in {NONE, CLOCK}
    <2>1. a.p_sendto[CLOCK] \in {NONE, SYN_ALRM_TASK}
      BY DEF InOrder, ClockInOrder
    <2>2. CASE TookFrom(a, b, SYN_ALRM_TASK, CLOCK)
      BY <1>2, <1>3, <2>2 DEF TookFrom, Typed
    <2>3. CASE WaitsFor(a, b, SYN_ALRM_TASK, CLOCK)
      BY <1>2, <1>3, <2>1, <2>3 DEF WaitsFor, Typed
    <2> QED
      BY <1>4, <2>2, <2>3
  <1>6. Calm(b)
    BY <1>1, <1>2, <1>5, CalmKept, Numbers DEF InOrder
  <1>7. ClockInOrder(b)
    <2>1. ClockInOrder(a) /\ a.in_use \subseteq b.in_use
      BY <1>5 DEF InOrder, SameSignals
    <2>2. \A s \in SERVERS : a.p_getfrom[s] = CLOCK /\ a.p_sendto[s] = NONE =>
            b.p_getfrom[s] = CLOCK /\ b.p_sendto[s] = NONE
      BY <1>2, <1>5, Numbers
    <2>3. \A q \in Procs : b.p_sendto[q] = CLOCK =>
            /\ a.p_sendto[q] = CLOCK /\ b.p_messbuf[q] = a.p_messbuf[q]
            /\ b.p_getfrom[q] = a.p_getfrom[q]
      <3>1. b.p_sendto[CLOCK] # CLOCK /\ b.p_sendto[SYN_ALRM_TASK] # CLOCK
        BY <1>2, <1>5
      <3> QED
        BY <1>5, <3>1
    <2> QED
      BY <1>5, <2>1, <2>2, <2>3, ClockUntouched
  <1>8. SynInOrder(b)
    BY <1>5 DEF SynInOrder
  <1> QED
    BY <1>5, <1>6, <1>7, <1>8 DEF InOrder, SameSignals, b

\* The alarm task tells a client, or waits until it listens.
LEMMA SynTells ==
    ASSUME NEW a, InOrder(a), SYN_ALRM_TASK = a.proc_ptr, NEW p \in CLIENTS, NEW m
    PROVE  LET b == sys_call(a, "SEND", p, m).k IN
           /\ InOrder(b) /\ b.in_use = a.in_use /\ b.p_getfrom[SYN_ALRM_TASK] = NONE
  <1> DEFINE b == sys_call(a, "SEND", p, m).k
  <1>2. /\ CLOCK \in Procs /\ CLOCK \in TASKS /\ CLOCK \notin SERVERS
        /\ SYN_ALRM_TASK \in Procs /\ SYN_ALRM_TASK \in TASKS /\ CLOCK # SYN_ALRM_TASK
        /\ SYN_ALRM_TASK \notin SERVERS /\ SYN_ALRM_TASK # NONE /\ SYN_ALRM_TASK # IDLE
        /\ CLOCK # NONE /\ CLOCK \notin USERS /\ CLOCK # ANY
        /\ SYN_ALRM_TASK \notin USERS /\ p \in Procs /\ p \in SERVERS /\ p \notin USERS
        /\ p # CLOCK /\ p # SYN_ALRM_TASK
    BY Numbers
  <1>1. /\ Core(b) /\ HighestRuns(b)
        /\ \/ b = a
           \/ Sent(a, b, SYN_ALRM_TASK, p, m)
    <2>1. /\ SYN_ALRM_TASK \in TASKS \cup SERVERS /\ p \in TASKS \cup SERVERS \cup {ANY}
          /\ p \in (TASKS \cup SERVERS) \ {SYN_ALRM_TASK}
          /\ "SEND" \in {"SEND", "RECEIVE", "BOTH"}
      BY <1>2
    <2> QED
      BY <2>1, CallEffect
  <1> HIDE DEF b
  <1>3. a.p_getfrom[SYN_ALRM_TASK] = NONE /\ a.p_sendto[SYN_ALRM_TASK] = NONE /\ Typed(a)
    BY <1>2, RunsFree DEF Core
  <1>4. CASE b = a
    BY <1>3, <1>4 DEF b
  <1>5. CASE \/ Awaits(a, p, SYN_ALRM_TASK) /\ Delivered(a, b, p, m)
             \/ WaitsToSend(a, b, SYN_ALRM_TASK, p, m)
    <2>1. /\ SameSignals(a, b) /\ b.p_sendto[CLOCK] = a.p_sendto[CLOCK]
          /\ b.inbox[CLOCK] = a.inbox[CLOCK] /\ b.p_sendto[SYN_ALRM_TASK] \in {NONE, p}
          /\ \A q \in Procs \ {SYN_ALRM_TASK} : /\ b.p_sendto[q] = a.p_sendto[q]
                                                /\ b.p_messbuf[q] = a.p_messbuf[q]
          /\ \A q \in Procs \ {p} : b.p_getfrom[q] = a.p_getfrom[q]
          /\ a.p_getfrom[p] = CLOCK => b.p_getfrom[p] = CLOCK
          /\ a.p_sendto[p] = CLOCK => b.p_getfrom[p] = a.p_getfrom[p]
      <3>1. CASE Awaits(a, p, SYN_ALRM_TASK) /\ Delivered(a, b, p, m)
        BY <1>2, <1>3, <3>1 DEF Delivered, Typed, Awaits
      <3>2. CASE WaitsToSend(a, b, SYN_ALRM_TASK, p, m)
        BY <1>2, <1>3, <3>2 DEF WaitsToSend, Typed
      <3> QED
        BY <1>5, <3>1, <3>2
    <2>2. Calm(b)
      BY <1>1, <1>2, <2>1, CalmKept, Numbers DEF InOrder
    <2>3. ClockInOrder(b)
      <3>1. ClockInOrder(a) /\ a.in_use \subseteq b.in_use
        BY <2>1 DEF InOrder, SameSignals
      <3>2. \A s \in SERVERS : a.p_getfrom[s] = CLOCK /\ a.p_sendto[s] = NONE =>
              b.p_getfrom[s] = CLOCK /\ b.p_sendto[s] = NONE
        BY <1>2, <2>1, Numbers
      <3>3. \A q \in Procs : b.p_sendto[q] = CLOCK =>
              /\ a.p_sendto[q] = CLOCK /\ b.p_messbuf[q] = a.p_messbuf[q]
              /\ b.p_getfrom[q] = a.p_getfrom[q]
        BY <1>2, <2>1
      <3>4. b.p_sendto[CLOCK] \in {NONE, SYN_ALRM_TASK}
        BY <2>1, <3>1 DEF ClockInOrder
      <3> QED
        BY <2>1, <3>1, <3>2, <3>3, <3>4, ClockUntouched
    <2>4. SynInOrder(b) /\ b.p_getfrom[SYN_ALRM_TASK] = NONE
      BY <1>2, <1>3, <2>1 DEF SynInOrder
    <2> QED
      BY <2>1, <2>2, <2>3, <2>4 DEF InOrder, SameSignals, b
  <1> QED
    BY <1>1, <1>4, <1>5 DEF Sent

\* The clock interrupts: a clock task that runs goes on.
LEMMA ClockInterrupts ==
    ASSUME NEW a, InOrder(a)
    PROVE  LET b == interrupt(a, CLOCK) IN
           /\ InOrder(b) /\ b.in_use = a.in_use
           /\ b.p_getfrom[SYN_ALRM_TASK] = a.p_getfrom[SYN_ALRM_TASK]
           /\ a.proc_ptr = CLOCK => b.proc_ptr = CLOCK
  <1> DEFINE b == interrupt(a, CLOCK)
  <1>1. /\ CLOCK \in Procs /\ CLOCK \in TASKS /\ CLOCK \notin SERVERS
        /\ SYN_ALRM_TASK \in Procs /\ CLOCK # SYN_ALRM_TASK /\ CLOCK # NONE
        /\ CLOCK \notin USERS /\ CLOCK # IDLE /\ NONE \notin {ANY, HARDWARE}
    BY Numbers
  <1>2. Core(a) /\ HighestRuns(a) /\ Typed(a)
    BY DEF InOrder, Calm, Core
  <1>3. Core(b) /\ HighestRuns(b) /\ Interrupted(a, b, CLOCK)
    BY <1>1, <1>2, InterruptCore
  <1>4. ASSUME a.proc_ptr = CLOCK PROVE b.proc_ptr = CLOCK
    <2>1. a.p_getfrom[CLOCK] = NONE
      BY <1>1, <1>4, RunsFree
    <2>2. b = [a EXCEPT !.int_blocked = @ \cup {CLOCK}]
      BY <1>1, <2>1 DEF interrupt
    <2> QED
      BY <1>4, <2>2
  <1> HIDE DEF b
  <1>5. /\ SameSignals(a, b) /\ b.p_sendto = a.p_sendto /\ b.p_messbuf = a.p_messbuf
        /\ b.inbox[CLOCK] = HardInt \/ b.inbox[CLOCK] = a.inbox[CLOCK]
        /\ \A q \in Procs \ {CLOCK} : b.p_getfrom[q] = a.p_getfrom[q]
        /\ a.p_sendto[CLOCK] # NONE => b.p_getfrom[CLOCK] = a.p_getfrom[CLOCK]
    BY <1>1, <1>2, <1>3 DEF Interrupted, Delivered, Typed, HardInt
  <1>6. Calm(b)
    BY <1>1, <1>3, <1>5, CalmKept, Numbers DEF InOrder
  <1>7. ClockInOrder(b)
    <2>1. ClockInOrder(a) /\ a.in_use \subseteq b.in_use
      BY <1>5 DEF InOrder, SameSignals
    <2>2. \A s \in SERVERS : a.p_getfrom[s] = CLOCK /\ a.p_sendto[s] = NONE =>
            b.p_getfrom[s] = CLOCK /\ b.p_sendto[s] = NONE
      BY <1>1, <1>5, Numbers
    <2>3. \A q \in Procs : b.p_sendto[q] = CLOCK =>
            /\ a.p_sendto[q] = CLOCK /\ b.p_messbuf[q] = a.p_messbuf[q]
            /\ b.p_getfrom[q] = a.p_getfrom[q]
      BY <1>1, <1>5
    <2>4. b.p_sendto[CLOCK] \in {NONE, SYN_ALRM_TASK}
      BY <1>5, <2>1 DEF ClockInOrder
    <2> QED
      BY <1>5, <2>1, <2>2, <2>3, <2>4, ClockUntouched
  <1>8. SynInOrder(b) /\ b.p_getfrom[SYN_ALRM_TASK] = a.p_getfrom[SYN_ALRM_TASK]
    BY <1>1, <1>5 DEF InOrder, SynInOrder
  <1> QED
    BY <1>4, <1>5, <1>6, <1>7, <1>8 DEF InOrder, SameSignals, b

\* A user process exits while MM does not wait for the clock task.
LEMMA ExitKeeps ==
    ASSUME NEW a, InOrder(a), a.p_getfrom[MM] # CLOCK, NEW u \in USERS
    PROVE  LET b == do_xit(a, u) IN
           /\ InOrder(b) /\ b.in_use = a.in_use \ {u}
           /\ b.p_getfrom[SYN_ALRM_TASK] = a.p_getfrom[SYN_ALRM_TASK]
  <1> DEFINE b == do_xit(a, u)
  <1>1. /\ CLOCK \in Procs /\ SYN_ALRM_TASK \in Procs /\ u \in Procs /\ u # CLOCK
        /\ u # SYN_ALRM_TASK /\ u \notin SERVERS /\ CLOCK # NONE
    BY Numbers
  <1>2. Core(b) /\ HighestRuns(b) /\ Exited(a, b, u) /\ Typed(a)
    BY ExitCore DEF InOrder, Calm, Core
  <1> HIDE DEF b
  <1>3. /\ b.in_use = a.in_use \ {u} /\ b.inbox = a.inbox
        /\ b.p_sendto[u] = NONE /\ b.p_getfrom[u] = NONE /\ b.p_flags[u] = {}
        /\ \A q \in Procs \ {u} : /\ b.p_getfrom[q] = a.p_getfrom[q]
                                  /\ b.p_sendto[q] = a.p_sendto[q]
                                  /\ b.p_messbuf[q] = a.p_messbuf[q]
                                  /\ b.p_flags[q] = a.p_flags[q]
        /\ b.sig_procs = 0
    BY <1>1, <1>2 DEF Exited, Typed, InOrder, Calm
  <1>4. Calm(b)
    <2>1. USERS \subseteq Procs
      BY Numbers
    <2>2. \A v \in USERS : /\ b.p_getfrom[v] = NONE /\ b.p_sendto[v] = NONE
                           /\ "PENDING" \notin b.p_flags[v]
      BY <1>3, <2>1 DEF InOrder, Calm
    <2> QED
      BY <1>2, <1>3, <2>2 DEF Calm
  <1>5. ClockInOrder(b)
    <2>1. ClockInOrder(a) /\ (a.in_use \subseteq b.in_use \/ a.p_getfrom[MM] # CLOCK)
      BY DEF InOrder
    <2>2. \A s \in SERVERS : a.p_getfrom[s] = CLOCK /\ a.p_sendto[s] = NONE =>
            b.p_getfrom[s] = CLOCK /\ b.p_sendto[s] = NONE
      BY <1>1, <1>3, Numbers
    <2>3. \A q \in Procs : b.p_sendto[q] = CLOCK =>
            /\ a.p_sendto[q] = CLOCK /\ b.p_messbuf[q] = a.p_messbuf[q]
            /\ b.p_getfrom[q] = a.p_getfrom[q]
      BY <1>1, <1>3
    <2>4. b.p_sendto[CLOCK] \in {NONE, SYN_ALRM_TASK}
      BY <1>1, <1>3, <2>1 DEF ClockInOrder
    <2>5. b.inbox[CLOCK] = a.inbox[CLOCK]
      BY <1>3
    <2> QED
      BY <2>1, <2>2, <2>3, <2>4, <2>5, ClockUntouched
  <1>6. SynInOrder(b) /\ b.p_getfrom[SYN_ALRM_TASK] = a.p_getfrom[SYN_ALRM_TASK]
    BY <1>1, <1>3 DEF InOrder, SynInOrder
  <1> QED
    BY <1>3, <1>4, <1>5, <1>6 DEF InOrder, b

\* A user process gets a child.
LEMMA ForkKeeps ==
    ASSUME NEW a, InOrder(a), NEW parent \in USERS, NEW child \in USERS \ a.in_use
    PROVE  LET b == do_fork(a, parent, child) IN
           /\ InOrder(b) /\ b.in_use = a.in_use \cup {child}
           /\ b.p_getfrom[SYN_ALRM_TASK] = a.p_getfrom[SYN_ALRM_TASK]
  <1> DEFINE b == do_fork(a, parent, child)
  <1>1. /\ CLOCK \in Procs /\ SYN_ALRM_TASK \in Procs /\ child \in Procs /\ child # CLOCK
        /\ child # SYN_ALRM_TASK /\ child \notin SERVERS /\ CLOCK # NONE
        /\ USERS \subseteq Procs
    BY Numbers
  <1>0. /\ a.p_sendto[parent] = NONE /\ a.p_getfrom[parent] = NONE /\ a.sig_procs = 0
        /\ "PENDING" \notin a.p_flags[child]
    BY DEF InOrder, Calm
  <1>2. Core(b) /\ HighestRuns(b) /\ Forked(a, b, parent, child) /\ Typed(a)
    BY <1>0, ForkCore DEF InOrder, Calm, Core
  <1> HIDE DEF b
  <1>3. /\ b.in_use = a.in_use \cup {child} /\ b.inbox = a.inbox
        /\ b.p_getfrom[child] = NONE /\ "PENDING" \notin b.p_flags[child]
        /\ \A q \in Procs \ {child} : /\ b.p_getfrom[q] = a.p_getfrom[q]
                                      /\ b.p_flags[q] = a.p_flags[q]
        /\ b.p_sendto = a.p_sendto /\ b.p_messbuf = a.p_messbuf
        /\ b.sig_procs = 0
    BY <1>0, <1>1, <1>2 DEF Forked, Typed
  <1>4. Calm(b)
    <2>2. \A v \in USERS : /\ b.p_getfrom[v] = NONE /\ b.p_sendto[v] = NONE
                           /\ "PENDING" \notin b.p_flags[v]
      BY <1>1, <1>3 DEF InOrder, Calm
    <2> QED
      BY <1>2, <1>3, <2>2 DEF Calm
  <1>5. ClockInOrder(b)
    <2>1. ClockInOrder(a) /\ a.in_use \subseteq b.in_use
      BY <1>3 DEF InOrder
    <2>2. \A s \in SERVERS : a.p_getfrom[s] = CLOCK /\ a.p_sendto[s] = NONE =>
            b.p_getfrom[s] = CLOCK /\ b.p_sendto[s] = NONE
      BY <1>1, <1>3, Numbers
    <2>3. \A q \in Procs : b.p_sendto[q] = CLOCK =>
            /\ a.p_sendto[q] = CLOCK /\ b.p_messbuf[q] = a.p_messbuf[q]
            /\ b.p_getfrom[q] = a.p_getfrom[q]
      <3>1. b.p_sendto[child] # CLOCK
        BY <1>1, <1>3 DEF InOrder, Calm
      <3> QED
        BY <1>1, <1>3, <3>1
    <2>4. b.p_sendto[CLOCK] \in {NONE, SYN_ALRM_TASK}
      BY <1>1, <1>3, <2>1 DEF ClockInOrder
    <2>5. b.inbox[CLOCK] = a.inbox[CLOCK]
      BY <1>3
    <2> QED
      BY <2>1, <2>2, <2>3, <2>4, <2>5, ClockUntouched
  <1>6. SynInOrder(b) /\ b.p_getfrom[SYN_ALRM_TASK] = a.p_getfrom[SYN_ALRM_TASK]
    BY <1>1, <1>3 DEF InOrder, SynInOrder
  <1> QED
    BY <1>3, <1>4, <1>5, <1>6 DEF InOrder, b
-----------------------------------------------------------------------------
(* Each step keeps the invariant.                                            *)

\* Nothing is asked and no alarm is set at first.
LEMMA InitAlarmInv == AlarmsInit => AlarmInv
  <1> SUFFICES ASSUME AlarmsInit PROVE AlarmInv
    OBVIOUS
  <1>0. /\ CLOCK \in Procs /\ SYN_ALRM_TASK \in Procs /\ USERS \subseteq Procs
        /\ INIT_PROC_NR \in USERS /\ CLOCK # NONE
    BY Numbers, InitAssumption
  <1>1. Core(k) /\ HighestRuns(k)
    BY <1>0, BootCore DEF AlarmsInit
  <1>2. /\ k.p_flags = [p \in Procs |-> {}] /\ k.sig_procs = 0
        /\ k.p_getfrom = [p \in Procs |-> NONE] /\ k.p_sendto = [p \in Procs |-> NONE]
        /\ k.inbox = [p \in Procs |-> NoMessage]
    BY DEF AlarmsInit, Boot
  <1>3. InOrder(k)
    <2>1. Calm(k)
      BY <1>0, <1>1, <1>2 DEF Calm
    <2>2. ClockInOrder(k)
      BY <1>0, <1>2 DEF ClockInOrder
    <2> QED
      BY <1>0, <1>2, <2>1, <2>2 DEF InOrder, SynInOrder
  <1>4. Timed
    <2>1. MAX_TIME \in Nat /\ 0 \in 0 .. LONG_MAX - 1
      BY TimesAssumption DEF LONG_MAX
    <2>2. /\ realtime = 0 /\ pending_ticks = 0 /\ next_alarm = 0
          /\ p_alarm = [p \in Procs |-> 0] /\ watch_dog = {} /\ syn_table = {}
          /\ strays = {}
      BY DEF AlarmsInit
    <2>3. p_alarm \in [Procs -> 0 .. LONG_MAX - 1] /\ \A u \in USERS : p_alarm[u] = 0
      BY <1>0, <2>1, <2>2
    <2> QED
      BY <2>1, <2>2, <2>3 DEF Timed
  <1>5. LoopInOrder
    BY <1>0 DEF AlarmsInit, LoopInOrder, Covered, None
  <1>6. SynLoopInOrder
    BY <1>0, <1>2, Numbers DEF AlarmsInit, SynLoopInOrder, Start
  <1> QED
    BY <1>3, <1>4, <1>5, <1>6 DEF AlarmInv

\* A call is made on an inbox that is empty.
LEMMA TrapIsCall ==
    ASSUME InOrder(k), k.proc_ptr \in Procs, NEW function, NEW dest, NEW m
    PROVE  \E a : /\ InOrder(a) /\ a.proc_ptr = k.proc_ptr /\ a.in_use = k.in_use
                  /\ a.p_getfrom = k.p_getfrom /\ a.p_sendto = k.p_sendto
                  /\ a.inbox[k.proc_ptr] = NoMessage
                  /\ Trap(function, dest, m) =
                       sys_call(a, function, dest, [m EXCEPT !.m_source = k.proc_ptr]).k
  <1> DEFINE a == [k EXCEPT !.inbox[k.proc_ptr] = NoMessage]
  <1>1. /\ InOrder(a) /\ a.proc_ptr = k.proc_ptr /\ a.in_use = k.in_use
        /\ a.p_getfrom = k.p_getfrom /\ a.p_sendto = k.p_sendto
        /\ a.inbox[k.proc_ptr] = NoMessage
    BY EmptyInbox
  <1>2. Trap(function, dest, m) =
          sys_call(a, function, dest, [m EXCEPT !.m_source = k.proc_ptr]).k
    BY DEF Trap, Signed
  <1> HIDE DEF a
  <1> QED
    BY <1>1, <1>2

\* What the clock task keeps when it is not in its loop, or does not run.
LEMMA ClockTablesKept ==
    ASSUME AlarmInv, UNCHANGED clock_vars, pending_ticks' = pending_ticks,
           k'.in_use = k.in_use, syn_table' \subseteq syn_table,
           clock_loop = None \/ k.proc_ptr # CLOCK
    PROVE  Timed' /\ LoopInOrder'
  <1>1. Timed'
    BY DEF AlarmInv, Timed, clock_vars
  <1>2. LoopInOrder'
    BY DEF AlarmInv, LoopInOrder, Covered, clock_vars
  <1> QED
    BY <1>1, <1>2

\* What the alarm task keeps when it is left alone.
LEMMA SynKept ==
    ASSUME AlarmInv, UNCHANGED <<syn_table, syn_vars>>,
           k'.p_getfrom[SYN_ALRM_TASK] = k.p_getfrom[SYN_ALRM_TASK]
    PROVE  SynLoopInOrder'
  BY DEF AlarmInv, SynLoopInOrder, syn_vars

\* The interrupt handler takes no time and no message from the clock task.
LEMMA HandlerKeeps == AlarmInv /\ clock_handler => AlarmInv'
  <1> SUFFICES ASSUME AlarmInv, clock_handler PROVE AlarmInv'
    OBVIOUS
  <1> DEFINE now == Smallest({MAX_TIME, realtime + pending_ticks + 1})
  <1>1. now \in Nat /\ realtime <= now /\ now <= MAX_TIME
    <2> DEFINE T == {MAX_TIME, realtime + pending_ticks + 1}
    <2>1. /\ realtime \in Nat /\ pending_ticks \in Nat /\ MAX_TIME \in Nat
          /\ realtime + pending_ticks <= MAX_TIME
      BY TimesAssumption DEF AlarmInv, Timed
    <2>2. T \in SUBSET Nat /\ T # {}
      BY <2>1
    <2>3. Smallest(T) \in T /\ \A y \in T : Smallest(T) <= y
      BY <2>2, SmallestIsIn
    <2> QED
      BY <2>1, <2>3
  <1> HIDE DEF now
  <1>2. /\ pending_ticks' = now - realtime
        /\ k' = (IF next_alarm <= now THEN interrupt(k, CLOCK) ELSE k)
        /\ UNCHANGED <<syn_table, clock_vars, syn_vars>>
    BY DEF clock_handler, now
  <1>3. /\ InOrder(k') /\ k'.in_use = k.in_use
        /\ k'.p_getfrom[SYN_ALRM_TASK] = k.p_getfrom[SYN_ALRM_TASK]
        /\ k.proc_ptr = CLOCK => k'.proc_ptr = CLOCK
    <2>1. InOrder(k)
      BY DEF AlarmInv
    <2> QED
      BY <1>2, <2>1, ClockInterrupts
  <1>4. Timed'
    BY <1>1, <1>2, <1>3 DEF AlarmInv, Timed, clock_vars
  <1>5. LoopInOrder'
    BY <1>2, <1>3 DEF AlarmInv, LoopInOrder, Covered, clock_vars
  <1>6. SynLoopInOrder'
    BY <1>2, <1>3, SynKept
  <1>7. InOrder(k)'
    BY <1>3
  <1> QED
    BY <1>4, <1>5, <1>6, <1>7 DEF AlarmInv

\* The clock task waits for a request or an interrupt.
LEMMA ReceiveKeeps == AlarmInv /\ ClockReceives => AlarmInv'
  <1> SUFFICES ASSUME AlarmInv, ClockReceives PROVE AlarmInv'
    OBVIOUS
  <1>1. /\ k.proc_ptr = CLOCK /\ clock_loop = None /\ k' = Trap("RECEIVE", ANY, NoMessage)
        /\ pending_ticks' = pending_ticks
        /\ UNCHANGED <<syn_table, clock_vars, syn_vars>>
    BY DEF ClockReceives, ClockRuns, KernelBecomes
  <1>2. InOrder(k) /\ CLOCK \in Procs
    BY Numbers DEF AlarmInv
  <1>3. /\ InOrder(k') /\ k'.in_use = k.in_use
        /\ k'.p_getfrom[SYN_ALRM_TASK] = k.p_getfrom[SYN_ALRM_TASK]
    <2>1. PICK a : /\ InOrder(a) /\ a.proc_ptr = k.proc_ptr /\ a.in_use = k.in_use
                   /\ a.p_getfrom = k.p_getfrom /\ a.p_sendto = k.p_sendto
                   /\ a.inbox[k.proc_ptr] = NoMessage
                   /\ Trap("RECEIVE", ANY, NoMessage) =
                        sys_call(a, "RECEIVE", ANY, [NoMessage EXCEPT !.m_source = k.proc_ptr]).k
      BY <1>1, <1>2, TrapIsCall
    <2> QED
      BY <1>1, <2>1, ClockReceivesKeeps
  <1>4. InOrder(k)' /\ Timed' /\ LoopInOrder'
    BY <1>1, <1>3, ClockTablesKept
  <1>5. SynLoopInOrder'
    BY <1>1, <1>3, SynKept
  <1> QED
    BY <1>4, <1>5 DEF AlarmInv

\* The clock task answers the server that asked it, and waits for nothing there.
LEMMA AnswerKeeps ==
    ASSUME AlarmInv, k.proc_ptr = CLOCK,
           k.inbox[CLOCK].m_type \in {"SET_ALARM", "SET_SYNC_AL", "GET_UPTIME"},
           Answer(k.inbox[CLOCK])
    PROVE  /\ ClockRequest(k, k.inbox[CLOCK])
           /\ InOrder(k') /\ k'.in_use = k.in_use
           /\ k'.p_getfrom[SYN_ALRM_TASK] = k.p_getfrom[SYN_ALRM_TASK]
  <1> DEFINE m == k.inbox[CLOCK]
             n == Message(CLOCK, "OK")
  <1>1. InOrder(k) /\ CLOCK \in Procs
    BY Numbers DEF AlarmInv
  <1>2. AskedClock(k, m)
    <2>1. m # NoMessage /\ m # HardInt
      BY DEF NoMessage, HardInt, Message
    <2> QED
      BY <1>1, <2>1 DEF InOrder, ClockInOrder
  <1>3. k' = Trap("SEND", m.m_source, n)
    BY DEF Answer, KernelBecomes
  <1> HIDE DEF m, n
  <1>4. PICK a : /\ InOrder(a) /\ a.proc_ptr = k.proc_ptr /\ a.in_use = k.in_use
                 /\ a.p_getfrom = k.p_getfrom /\ a.p_sendto = k.p_sendto
                 /\ a.inbox[k.proc_ptr] = NoMessage
                 /\ Trap("SEND", m.m_source, n) =
                      sys_call(a, "SEND", m.m_source, [n EXCEPT !.m_source = k.proc_ptr]).k
    BY <1>1, TrapIsCall
  <1>5. /\ m.m_source \in SERVERS /\ a.p_getfrom[m.m_source] = CLOCK
        /\ a.p_sendto[m.m_source] = NONE /\ a.inbox[CLOCK] = NoMessage
        /\ CLOCK = a.proc_ptr
    BY <1>2, <1>4 DEF AskedClock, ClockRequest
  <1>6. LET b == sys_call(a, "SEND", m.m_source, [n EXCEPT !.m_source = k.proc_ptr]).k IN
        /\ InOrder(b) /\ b.in_use = a.in_use
        /\ b.p_getfrom[SYN_ALRM_TASK] = a.p_getfrom[SYN_ALRM_TASK]
    BY <1>4, <1>5, ClockAnswers
  <1> QED
    BY <1>2, <1>3, <1>4, <1>6 DEF AskedClock, m
\* The clock task sets an alarm, synchronous or not, for who is in use or is a client:
\* next_alarm becomes the earliest there is.
LEMMA SetAlarmKeeps == AlarmInv /\ (do_setalarm \/ do_setsyn_alrm) => AlarmInv'
  <1> SUFFICES ASSUME AlarmInv, do_setalarm \/ do_setsyn_alrm PROVE AlarmInv'
    OBVIOUS
  <1> DEFINE m == k.inbox[CLOCK]
             p == m.CLOCK_PROC_NR
             delta_ticks == m.DELTA_TICKS
  <1>1. /\ k.proc_ptr = CLOCK /\ clock_loop = None
        /\ m.m_type \in {"SET_ALARM", "SET_SYNC_AL"} /\ Answer(m)
        /\ realtime' = realtime + pending_ticks /\ pending_ticks' = 0
        /\ p_alarm' = [p_alarm EXCEPT
                         ![p] = IF delta_ticks = 0 THEN 0 ELSE realtime' + delta_ticks]
        /\ next_alarm' = Earliest(p_alarm') /\ strays' = {}
        /\ UNCHANGED <<syn_table, clock_loop, syn_vars>>
        /\ \/ m.m_type = "SET_ALARM" /\ watch_dog' = watch_dog \ {p}
           \/ m.m_type = "SET_SYNC_AL" /\ watch_dog' = watch_dog \cup {p}
    BY DEF do_setalarm, do_setsyn_alrm, ClockRuns, TakeTicks, common_setalarm
  <1>2. /\ ClockRequest(k, m) /\ InOrder(k') /\ k'.in_use = k.in_use
        /\ k'.p_getfrom[SYN_ALRM_TASK] = k.p_getfrom[SYN_ALRM_TASK]
    BY <1>1, AnswerKeeps
  <1> HIDE DEF m
  <1>3. /\ p \in Procs /\ (p \in USERS => p \in k.in_use) /\ delta_ticks \in DELAYS
        /\ m.m_type = "SET_SYNC_AL" => p \in CLIENTS
    <2>1. k.in_use \subseteq USERS
      BY DEF AlarmInv, InOrder, Calm, Core, Typed
    <2>2. CASE m.m_type = "SET_ALARM"
      <3>1. p \in k.in_use /\ delta_ticks \in DELAYS
        BY <1>1, <1>2, <2>2 DEF ClockRequest
      <3> QED
        BY <2>1, <2>2, <3>1, Numbers
    <2>3. CASE m.m_type = "SET_SYNC_AL"
      <3>1. p \in CLIENTS /\ delta_ticks \in DELAYS
        BY <1>1, <1>2, <2>3 DEF ClockRequest
      <3>2. p \in SERVERS /\ p \in Procs
        BY <3>1, Numbers
      <3> QED
        BY <3>1, <3>2, Numbers
    <2> QED
      BY <1>1, <2>2, <2>3
  <1> HIDE DEF p, delta_ticks
  <1>4. p_alarm' \in [Procs -> 0 .. LONG_MAX - 1]
    <2>1. /\ realtime \in Nat /\ pending_ticks \in Nat /\ realtime + pending_ticks <= MAX_TIME
          /\ MAX_TIME \in Nat /\ delta_ticks \in 0 .. MAX_TIME + 9
          /\ p_alarm \in [Procs -> 0 .. LONG_MAX - 1]
      BY <1>3, TimesAssumption DEF AlarmInv, Timed
    <2>2. /\ 0 \in 0 .. LONG_MAX - 1
          /\ realtime' + delta_ticks \in 0 .. LONG_MAX - 1
      BY <1>1, <2>1 DEF LONG_MAX
    <2> QED
      BY <1>1, <1>3, <2>1, <2>2
  <1>5. next_alarm' \in Nat /\ \A q \in Procs : p_alarm'[q] # 0 => next_alarm' <= p_alarm'[q]
    BY <1>1, <1>4, EarliestProperties
  <1>6. Timed'
    <2>1. /\ realtime' \in Nat /\ pending_ticks' \in Nat
          /\ realtime' + pending_ticks' <= MAX_TIME
      BY <1>1 DEF AlarmInv, Timed
    <2>2. \A u \in USERS \ k'.in_use : p_alarm'[u] = 0
      BY <1>1, <1>2, <1>3, Numbers DEF AlarmInv, Timed
    <2>3. /\ watch_dog' \subseteq CLIENTS /\ syn_table' \subseteq CLIENTS
          /\ strays' \subseteq k'.in_use
      BY <1>1, <1>3 DEF AlarmInv, Timed
    <2> QED
      BY <1>4, <1>5, <2>1, <2>2, <2>3 DEF Timed
  <1>7. LoopInOrder'
    <2>1. clock_loop' = clock_loop /\ clock_loop = None
      BY <1>1 DEF AlarmInv
    <2>2. LoopInOrder
      BY DEF AlarmInv
    <2> QED
      BY <1>5, <2>1, <2>2 DEF LoopInOrder, Covered, None
  <1>8. SynLoopInOrder'
    BY <1>1, <1>2, SynKept
  <1>9. InOrder(k)'
    BY <1>2
  <1> QED
    BY <1>6, <1>7, <1>8, <1>9 DEF AlarmInv

\* The clock task tells the time.
LEMMA UptimeKeeps == AlarmInv /\ do_getuptime => AlarmInv'
  <1> SUFFICES ASSUME AlarmInv, do_getuptime PROVE AlarmInv'
    OBVIOUS
  <1>1. /\ k.proc_ptr = CLOCK /\ clock_loop = None
        /\ k.inbox[CLOCK].m_type = "GET_UPTIME" /\ Answer(k.inbox[CLOCK])
        /\ realtime' = realtime + pending_ticks /\ pending_ticks' = 0
        /\ UNCHANGED <<syn_table, next_alarm, p_alarm, watch_dog, clock_loop, strays, syn_vars>>
    BY DEF do_getuptime, ClockRuns, TakeTicks
  <1>2. /\ InOrder(k') /\ k'.in_use = k.in_use
        /\ k'.p_getfrom[SYN_ALRM_TASK] = k.p_getfrom[SYN_ALRM_TASK]
    BY <1>1, AnswerKeeps
  <1>3. Timed'
    BY <1>1, <1>2 DEF AlarmInv, Timed
  <1>4. LoopInOrder'
    BY <1>1 DEF AlarmInv, LoopInOrder, Covered
  <1>5. SynLoopInOrder'
    BY <1>1, <1>2, SynKept
  <1>6. InOrder(k)'
    BY <1>2
  <1> QED
    BY <1>3, <1>4, <1>5, <1>6 DEF AlarmInv

\* The clock task enters its loop with no slot passed.
LEMMA BeginKeeps == AlarmInv /\ BeginClockTick => AlarmInv'
  <1> SUFFICES ASSUME AlarmInv, BeginClockTick PROVE AlarmInv'
    OBVIOUS
  <1>1. /\ k.proc_ptr = CLOCK /\ clock_loop = None
        /\ realtime' = realtime + pending_ticks /\ pending_ticks' = 0
        /\ k' = [k EXCEPT !.inbox[CLOCK] = NoMessage]
        /\ UNCHANGED <<p_alarm, watch_dog, syn_table, untold, syn_vars>>
        /\ strays' \subseteq strays
        /\ \/ next_alarm' = LONG_MAX /\ clock_loop' = [at |-> -1000, fired |-> FALSE]
           \/ UNCHANGED <<next_alarm, clock_loop, strays>>
    BY DEF BeginClockTick, ClockRuns, TakeTicks, None
  <1>2. /\ InOrder(k') /\ k'.in_use = k.in_use /\ k'.proc_ptr = CLOCK
        /\ k'.p_getfrom[SYN_ALRM_TASK] = k.p_getfrom[SYN_ALRM_TASK]
    <2>1. InOrder(k) /\ CLOCK \in Procs
      BY Numbers DEF AlarmInv
    <2> QED
      BY <1>1, <2>1, EmptyInbox
  <1>3. Timed'
    BY <1>1, <1>2, TimesAssumption DEF AlarmInv, Timed, LONG_MAX
  <1>4. LoopInOrder'
    <2>1. CASE UNCHANGED <<next_alarm, clock_loop, strays>>
      BY <1>1, <2>1 DEF AlarmInv, LoopInOrder, Covered
    <2>2. CASE next_alarm' = LONG_MAX /\ clock_loop' = [at |-> -1000, fired |-> FALSE]
      <3>1. /\ clock_loop' \in [at : Procs \cup {-1000, NONE}, fired : BOOLEAN]
            /\ clock_loop'.fired = FALSE /\ clock_loop'.at = -1000
            /\ clock_loop' # None /\ NONE # -1000
        BY <2>2 DEF None, NONE, ANY
      <3>2. \A p \in Procs : ~(p <= -1000)
        BY Numbers
      <3> QED
        BY <1>2, <3>1, <3>2 DEF LoopInOrder, Covered
    <2> QED
      BY <1>1, <2>1, <2>2
  <1>5. SynLoopInOrder'
    BY <1>1, <1>2, SynKept
  <1>6. InOrder(k)'
    BY <1>2
  <1> QED
    BY <1>3, <1>4, <1>5, <1>6 DEF AlarmInv

\* Slots are numbers, and so is where the loop is.
LEMMA LoopAtSlot == AlarmInv => Procs \subseteq Int /\ clock_loop.at \in Int
  <1> SUFFICES ASSUME AlarmInv PROVE Procs \subseteq Int /\ clock_loop.at \in Int
    OBVIOUS
  <1>1. Procs \subseteq Int
    BY Numbers
  <1>2. clock_loop \in [at : Procs \cup {-1000, NONE}, fired : BOOLEAN]
    BY DEF AlarmInv, LoopInOrder
  <1>3. clock_loop.at \in Procs \cup {-1000, NONE}
    BY <1>2
  <1>4. NONE \in Int /\ -1000 \in Int
    BY DEF NONE, ANY
  <1>5. Procs \cup {-1000, NONE} \subseteq Int
    BY <1>1, <1>4
  <1> QED
    BY <1>1, <1>3, <1>5

\* The first slot ahead of the loop: those before it have been passed.
LEMMA AheadProperties ==
    ASSUME AlarmInv, Ahead # {}
    PROVE  LET p == Smallest(Ahead) IN
           /\ p \in Procs /\ p > clock_loop.at /\ p_alarm[p] # 0
           /\ \A q \in Procs : q <= p /\ q # p /\ p_alarm[q] # 0 => q <= clock_loop.at
  <1> DEFINE p == Smallest(Ahead)
  <1>1. p \in Ahead /\ \A q \in Ahead : p <= q
    <2>1. Ahead \in SUBSET Procs
      BY DEF Ahead
    <2> QED
      BY <2>1, FirstSlot
  <1>2. Procs \subseteq Int /\ clock_loop.at \in Int
    BY LoopAtSlot
  <1> HIDE DEF p
  <1>3. p \in Procs /\ p > clock_loop.at /\ p_alarm[p] # 0
    BY <1>1 DEF Ahead
  <1>4. ASSUME NEW q \in Procs, q <= p, q # p, p_alarm[q] # 0 PROVE q <= clock_loop.at
    <2>1. q \notin Ahead
      BY <1>1, <1>2, <1>3, <1>4
    <2>2. ~(q > clock_loop.at)
      BY <1>4, <2>1 DEF Ahead
    <2> QED
      BY <1>2, <2>2
  <1> QED
    BY <1>3, <1>4 DEF p

\* An alarm goes off: the clock task stops here at most if it is a client's.
LEMMA FireKeeps == AlarmInv /\ FireAlarm => AlarmInv'
  <1> SUFFICES ASSUME AlarmInv, FireAlarm PROVE AlarmInv'
    OBVIOUS
  <1> DEFINE p == Smallest(Ahead)
  <1>1. /\ k.proc_ptr = CLOCK /\ clock_loop # None /\ ~clock_loop.fired /\ Ahead # {}
        /\ clock_loop' = [at |-> p, fired |-> TRUE]
        /\ UNCHANGED <<realtime, pending_ticks, next_alarm, p_alarm, watch_dog, strays,
                       syn_vars>>
        /\ \/ p \in watch_dog /\ syn_al_alive /\ k' = k /\ syn_table' = syn_table \cup {p}
           \/ /\ p \in watch_dog /\ syn_table' = syn_table \cup {p}
              /\ k' = Trap("SEND", SYN_ALRM_TASK, Message(CLOCK, "none"))
           \/ p \notin watch_dog /\ k' = k /\ syn_table' = syn_table
    BY DEF FireAlarm, InLoop, cause_alarm
  <1>2. /\ p \in Procs /\ p > clock_loop.at /\ p_alarm[p] # 0
        /\ \A q \in Procs : q <= p /\ q # p /\ p_alarm[q] # 0 => q <= clock_loop.at
    BY <1>1, AheadProperties
  <1> HIDE DEF p
  <1>3. /\ InOrder(k') /\ k'.in_use = k.in_use
        /\ p \in watch_dog \/ k'.proc_ptr = CLOCK
        /\ SynLoopInOrder'
    <2>1. InOrder(k) /\ CLOCK \in Procs /\ SynLoopInOrder
      BY Numbers DEF AlarmInv
    <2>2. CASE p \in watch_dog /\ syn_al_alive /\ k' = k /\ syn_table' = syn_table \cup {p}
      <3>1. k'.p_getfrom[SYN_ALRM_TASK] # CLOCK
        BY <2>1, <2>2 DEF SynLoopInOrder
      <3> QED
        BY <1>1, <2>1, <2>2, <3>1 DEF SynLoopInOrder, syn_vars
    <2>3. CASE /\ p \in watch_dog /\ syn_table' = syn_table \cup {p}
               /\ k' = Trap("SEND", SYN_ALRM_TASK, Message(CLOCK, "none"))
      <3> DEFINE n == Message(CLOCK, "none")
      <3>0. k' = Trap("SEND", SYN_ALRM_TASK, n)
        BY <2>3
      <3> HIDE DEF n
      <3>1. PICK a : /\ InOrder(a) /\ a.proc_ptr = k.proc_ptr /\ a.in_use = k.in_use
                     /\ a.p_getfrom = k.p_getfrom /\ a.p_sendto = k.p_sendto
                     /\ a.inbox[k.proc_ptr] = NoMessage
                     /\ Trap("SEND", SYN_ALRM_TASK, n) =
                          sys_call(a, "SEND", SYN_ALRM_TASK,
                                   [n EXCEPT !.m_source = k.proc_ptr]).k
        BY <1>1, <2>1, TrapIsCall
      <3>2. InOrder(k') /\ k'.in_use = k.in_use /\ k'.p_getfrom[SYN_ALRM_TASK] = NONE
        BY <1>1, <3>0, <3>1, ClockWakesSyn
      <3>3. NONE # CLOCK
        BY Numbers
      <3> QED
        BY <1>1, <2>1, <2>3, <3>2, <3>3 DEF SynLoopInOrder, syn_vars
    <2>4. CASE p \notin watch_dog /\ k' = k /\ syn_table' = syn_table
      BY <1>1, <2>1, <2>4 DEF SynLoopInOrder, syn_vars
    <2> QED
      BY <1>1, <2>2, <2>3, <2>4
  <1>4. p \in watch_dog => p \in CLIENTS
    BY DEF AlarmInv, Timed
  <1>5. Timed'
    BY <1>1, <1>3, <1>4 DEF AlarmInv, Timed
  <1>6. LoopInOrder'
    <2>1. /\ clock_loop' \in [at : Procs \cup {-1000, NONE}, fired : BOOLEAN]
          /\ clock_loop'.fired = TRUE /\ clock_loop'.at = p /\ clock_loop' # None
          /\ p # NONE
      BY <1>1, <1>2, Numbers DEF None
    <2>2. \A q \in Procs \ strays :
            q <= p /\ p_alarm[q] # 0 /\ q # p => next_alarm <= p_alarm[q]
      BY <1>1, <1>2 DEF AlarmInv, LoopInOrder, Covered
    <2> QED
      BY <1>1, <1>2, <1>3, <1>4, <2>1, <2>2 DEF LoopInOrder, Covered
  <1>7. InOrder(k)'
    BY <1>3
  <1> QED
    BY <1>3, <1>5, <1>6, <1>7 DEF AlarmInv

\* The alarm that went off is reset.
LEMMA ClearKeeps == AlarmInv /\ ClearAlarm => AlarmInv'
  <1> SUFFICES ASSUME AlarmInv, ClearAlarm PROVE AlarmInv'
    OBVIOUS
  <1>1. /\ k.proc_ptr = CLOCK /\ clock_loop.fired
        /\ p_alarm' = [p_alarm EXCEPT ![clock_loop.at] = 0]
        /\ clock_loop' = [clock_loop EXCEPT !.fired = FALSE]
        /\ UNCHANGED <<k, realtime, pending_ticks, next_alarm, watch_dog, syn_table, strays,
                       syn_vars>>
    BY DEF ClearAlarm
  <1>2. /\ clock_loop.at \in Procs /\ clock_loop # None /\ clock_loop.at # NONE
        /\ clock_loop \in [at : Procs \cup {-1000, NONE}, fired : BOOLEAN]
        /\ p_alarm \in [Procs -> 0 .. LONG_MAX - 1]
    BY <1>1 DEF AlarmInv, LoopInOrder, None, Timed
  <1>3. /\ clock_loop' \in [at : Procs \cup {-1000, NONE}, fired : BOOLEAN]
        /\ clock_loop'.fired = FALSE /\ clock_loop'.at = clock_loop.at
        /\ clock_loop' # None
    <2>1. clock_loop'.fired = FALSE /\ clock_loop'.at = clock_loop.at
      BY <1>1, <1>2
    <2>2. clock_loop' \in [at : Procs \cup {-1000, NONE}, fired : BOOLEAN]
      <3> DEFINE Slots == Procs \cup {-1000, NONE}
      <3>1. clock_loop \in [at : Slots, fired : BOOLEAN]
        BY <1>2
      <3>2. clock_loop' = [clock_loop EXCEPT !.fired = FALSE]
        BY <1>1
      <3> HIDE DEF Slots
      <3>3. clock_loop' \in [at : Slots, fired : BOOLEAN]
        BY <3>1, <3>2
      <3> QED
        BY <3>3 DEF Slots
    <2>3. None.at = NONE
      BY DEF None
    <2> QED
      BY <1>2, <2>1, <2>2, <2>3
  <1>4. /\ p_alarm'[clock_loop.at] = 0
        /\ \A q \in Procs : q # clock_loop.at => p_alarm'[q] = p_alarm[q]
        /\ p_alarm' \in [Procs -> 0 .. LONG_MAX - 1]
    <2>1. 0 \in 0 .. LONG_MAX - 1
      BY TimesAssumption DEF LONG_MAX
    <2> QED
      BY <1>1, <1>2, <2>1
  <1>5. Timed'
    BY <1>1, <1>4, Numbers DEF AlarmInv, Timed
  <1>6. LoopInOrder'
    <2>1. \A q \in Procs \ strays :
            q <= clock_loop.at /\ p_alarm'[q] # 0 => next_alarm <= p_alarm'[q]
      BY <1>1, <1>2, <1>4 DEF AlarmInv, LoopInOrder, Covered
    <2> QED
      BY <1>1, <1>2, <1>3, <2>1 DEF LoopInOrder, Covered
  <1>7. SynLoopInOrder' /\ InOrder(k)'
    BY <1>1 DEF AlarmInv, SynLoopInOrder, syn_vars
  <1> QED
    BY <1>5, <1>6, <1>7 DEF AlarmInv

\* An alarm that is not due is passed, and next_alarm does not become later than it.
LEMMA KeepKeeps == AlarmInv /\ KeepAlarm => AlarmInv'
  <1> SUFFICES ASSUME AlarmInv, KeepAlarm PROVE AlarmInv'
    OBVIOUS
  <1> DEFINE p == Smallest(Ahead)
             next == Smallest({next_alarm, p_alarm[p]})
  <1>1. /\ k.proc_ptr = CLOCK /\ clock_loop # None /\ ~clock_loop.fired /\ Ahead # {}
        /\ clock_loop' = [at |-> p, fired |-> FALSE] /\ next_alarm' = next
        /\ UNCHANGED <<k, realtime, pending_ticks, p_alarm, watch_dog, syn_table, strays,
                       syn_vars>>
    BY DEF KeepAlarm, InLoop
  <1>2. /\ p \in Procs /\ p > clock_loop.at /\ p_alarm[p] # 0
        /\ \A q \in Procs : q <= p /\ q # p /\ p_alarm[q] # 0 => q <= clock_loop.at
    BY <1>1, AheadProperties
  <1> HIDE DEF p
  <1>3. /\ next_alarm \in Nat /\ \A q \in Procs : p_alarm[q] \in Nat
        /\ clock_loop \in [at : Procs \cup {-1000, NONE}, fired : BOOLEAN]
    BY TimesAssumption DEF AlarmInv, Timed, LoopInOrder
  <1>4. next \in Nat /\ next <= next_alarm /\ next <= p_alarm[p]
    <2> DEFINE T == {next_alarm, p_alarm[p]}
    <2>1. T \in SUBSET Nat /\ T # {}
      BY <1>2, <1>3
    <2>2. Smallest(T) \in T /\ \A y \in T : Smallest(T) <= y
      BY <2>1, SmallestIsIn
    <2> QED
      BY <2>1, <2>2
  <1> HIDE DEF next
  <1>5. Timed'
    BY <1>1, <1>4 DEF AlarmInv, Timed
  <1>6. LoopInOrder'
    <2>1. /\ clock_loop' \in [at : Procs \cup {-1000, NONE}, fired : BOOLEAN]
          /\ clock_loop'.fired = FALSE /\ clock_loop'.at = p /\ clock_loop' # None
          /\ p # NONE
      BY <1>1, <1>2, Numbers DEF None
    <2>2. ASSUME NEW q \in Procs \ strays, q <= p, p_alarm[q] # 0 PROVE next <= p_alarm[q]
      <3>1. CASE q = p
        BY <1>4, <3>1
      <3>2. CASE q # p
        <4>1. q <= clock_loop.at
          BY <1>2, <2>2, <3>2
        <4>2. next_alarm <= p_alarm[q]
          BY <1>1, <2>2, <4>1 DEF AlarmInv, LoopInOrder, Covered
        <4> QED
          BY <1>3, <1>4, <4>2
      <3> QED
        BY <3>1, <3>2
    <2> QED
      BY <1>1, <2>1, <2>2 DEF LoopInOrder, Covered
  <1>7. SynLoopInOrder' /\ InOrder(k)'
    BY <1>1 DEF AlarmInv, SynLoopInOrder, syn_vars
  <1> QED
    BY <1>5, <1>6, <1>7 DEF AlarmInv

\* When no slot is ahead the loop has passed them all.
LEMMA EndKeeps == AlarmInv /\ EndClockTick => AlarmInv'
  <1> SUFFICES ASSUME AlarmInv, EndClockTick PROVE AlarmInv'
    OBVIOUS
  <1>1. /\ k.proc_ptr = CLOCK /\ clock_loop # None /\ ~clock_loop.fired /\ Ahead = {}
        /\ clock_loop' = None
        /\ UNCHANGED <<k, realtime, pending_ticks, next_alarm, p_alarm, watch_dog,
                       syn_table, strays, syn_vars>>
    BY DEF EndClockTick, InLoop
  <1>2. Timed'
    BY <1>1 DEF AlarmInv, Timed
  <1>3. LoopInOrder'
    <2>1. Procs \subseteq Int /\ clock_loop.at \in Int
      BY LoopAtSlot
    <2>2. ASSUME NEW q \in Procs \ strays, p_alarm[q] # 0 PROVE next_alarm <= p_alarm[q]
      <3>1. ~(q > clock_loop.at)
        BY <1>1, <2>2 DEF Ahead
      <3>2. q <= clock_loop.at
        BY <2>1, <3>1
      <3> QED
        BY <1>1, <2>2, <3>2 DEF AlarmInv, LoopInOrder, Covered
    <2> QED
      BY <1>1, <2>2 DEF LoopInOrder, Covered, None
  <1>4. SynLoopInOrder' /\ InOrder(k)'
    BY <1>1 DEF AlarmInv, SynLoopInOrder, syn_vars
  <1> QED
    BY <1>2, <1>3, <1>4 DEF AlarmInv

\* The alarm task does what it does while the clock task is not in its loop, or stopped.
LEMMA SynRuns ==
    ASSUME AlarmInv, k.proc_ptr = SYN_ALRM_TASK
    PROVE  /\ InOrder(k) /\ SYN_ALRM_TASK \in Procs
           /\ k.proc_ptr # CLOCK /\ k.p_getfrom[SYN_ALRM_TASK] = NONE
           /\ CLOCK # NONE
  <1>1. InOrder(k) /\ SYN_ALRM_TASK # IDLE
    BY Numbers DEF AlarmInv
  <1> QED
    BY <1>1, Numbers, RunsFree

\* The alarm task tells a client; the entry is gone, and there was work to do.
LEMMA TellKeeps == AlarmInv /\ TellClient => AlarmInv'
  <1> SUFFICES ASSUME AlarmInv, TellClient PROVE AlarmInv'
    OBVIOUS
  <1> DEFINE p == Smallest(SynAhead)
             m == CLOCK_INT
  <1>1. /\ k.proc_ptr = SYN_ALRM_TASK /\ SynAhead # {}
        /\ syn_table' = syn_table \ {p}
        /\ syn_loop' = [at |-> p, work_done |-> FALSE]
        /\ k' = Trap("SEND", p, m)
        /\ UNCHANGED <<pending_ticks, syn_al_alive, clock_vars>>
    BY DEF TellClient, KernelBecomes
  <1>2. /\ InOrder(k) /\ SYN_ALRM_TASK \in Procs /\ k.proc_ptr # CLOCK /\ CLOCK # NONE
    BY <1>1, SynRuns
  <1>3. p \in CLIENTS
    <2>1. SynAhead \subseteq CLIENTS
      BY DEF SynAhead, AlarmInv, Timed
    <2>2. SynAhead \in SUBSET Procs
      BY <2>1, Numbers
    <2>3. p \in SynAhead
      BY <1>1, <2>2, FirstSlot
    <2> QED
      BY <2>1, <2>3
  <1> HIDE DEF p, m
  <1>4. InOrder(k') /\ k'.in_use = k.in_use /\ k'.p_getfrom[SYN_ALRM_TASK] = NONE
    <2>1. PICK a : /\ InOrder(a) /\ a.proc_ptr = k.proc_ptr /\ a.in_use = k.in_use
                   /\ a.p_getfrom = k.p_getfrom /\ a.p_sendto = k.p_sendto
                   /\ a.inbox[k.proc_ptr] = NoMessage
                   /\ Trap("SEND", p, m) =
                        sys_call(a, "SEND", p, [m EXCEPT !.m_source = k.proc_ptr]).k
      BY <1>1, <1>2, TrapIsCall
    <2> QED
      BY <1>1, <1>3, <2>1, SynTells
  <1>5. Timed' /\ LoopInOrder'
    BY <1>1, <1>2, <1>4, ClockTablesKept
  <1>6. SynLoopInOrder'
    BY <1>1, <1>2, <1>4 DEF SynLoopInOrder
  <1>7. InOrder(k)'
    BY <1>4
  <1> QED
    BY <1>5, <1>6, <1>7 DEF AlarmInv

\* The alarm task waits only when it has gone through the whole table in vain.
LEMMA EndOfTableKeeps == AlarmInv /\ EndOfTable => AlarmInv'
  <1> SUFFICES ASSUME AlarmInv, EndOfTable PROVE AlarmInv'
    OBVIOUS
  <1>1. /\ k.proc_ptr = SYN_ALRM_TASK /\ SynAhead = {} /\ syn_loop' = Start
        /\ UNCHANGED <<pending_ticks, syn_table, clock_vars>>
        /\ \/ /\ syn_loop.work_done /\ syn_al_alive' = FALSE
              /\ k' = Trap("RECEIVE", CLOCK, NoMessage)
           \/ k' = k /\ syn_al_alive' = syn_al_alive
    BY DEF EndOfTable, KernelBecomes
  <1>2. /\ InOrder(k) /\ SYN_ALRM_TASK \in Procs /\ k.proc_ptr # CLOCK /\ CLOCK # NONE
        /\ k.p_getfrom[SYN_ALRM_TASK] = NONE
    BY <1>1, SynRuns
  <1>3. InOrder(k') /\ k'.in_use = k.in_use /\ SynLoopInOrder'
    <2>1. CASE /\ syn_loop.work_done /\ syn_al_alive' = FALSE
               /\ k' = Trap("RECEIVE", CLOCK, NoMessage)
      <3>1. syn_table = {}
        <4>1. syn_loop.at = -1000
          BY <2>1 DEF AlarmInv, SynLoopInOrder
        <4>2. \A p \in syn_table : p > -1000
          BY Numbers DEF AlarmInv, Timed
        <4> QED
          BY <1>1, <4>1, <4>2 DEF SynAhead
      <3>2. PICK a : /\ InOrder(a) /\ a.proc_ptr = k.proc_ptr /\ a.in_use = k.in_use
                     /\ a.p_getfrom = k.p_getfrom /\ a.p_sendto = k.p_sendto
                     /\ a.inbox[k.proc_ptr] = NoMessage
                     /\ Trap("RECEIVE", CLOCK, NoMessage) =
                          sys_call(a, "RECEIVE", CLOCK,
                                   [NoMessage EXCEPT !.m_source = k.proc_ptr]).k
        BY <1>1, <1>2, TrapIsCall
      <3>3. InOrder(k') /\ k'.in_use = k.in_use
        BY <1>1, <2>1, <3>2, SynReceives
      <3> QED
        BY <1>1, <2>1, <3>1, <3>3 DEF SynLoopInOrder, Start
    <2>2. CASE k' = k /\ syn_al_alive' = syn_al_alive
      BY <1>1, <1>2, <2>2 DEF SynLoopInOrder, Start
    <2> QED
      BY <1>1, <2>1, <2>2
  <1>4. Timed' /\ LoopInOrder'
    BY <1>1, <1>2, <1>3, ClockTablesKept
  <1>5. InOrder(k)'
    BY <1>3
  <1> QED
    BY <1>3, <1>4, <1>5 DEF AlarmInv

\* The alarm task has been woken.
LEMMA WakesKeeps == AlarmInv /\ SynWakes => AlarmInv'
  <1> SUFFICES ASSUME AlarmInv, SynWakes PROVE AlarmInv'
    OBVIOUS
  <1>1. /\ k.proc_ptr = SYN_ALRM_TASK
        /\ k' = [k EXCEPT !.inbox[SYN_ALRM_TASK] = NoMessage]
        /\ UNCHANGED <<pending_ticks, syn_table, syn_loop, clock_vars>>
    BY DEF SynWakes
  <1>2. /\ InOrder(k) /\ SYN_ALRM_TASK \in Procs /\ k.proc_ptr # CLOCK /\ CLOCK # NONE
        /\ k.p_getfrom[SYN_ALRM_TASK] = NONE
    BY <1>1, SynRuns
  <1>3. InOrder(k') /\ k'.in_use = k.in_use /\ k'.p_getfrom = k.p_getfrom
    BY <1>1, <1>2, EmptyInbox
  <1>4. Timed' /\ LoopInOrder'
    BY <1>1, <1>2, <1>3, ClockTablesKept
  <1>5. SynLoopInOrder'
    BY <1>1, <1>2, <1>3 DEF AlarmInv, SynLoopInOrder
  <1>6. InOrder(k)'
    BY <1>3
  <1> QED
    BY <1>4, <1>5, <1>6 DEF AlarmInv

\* A server waits for a message, or asks the clock task for something.
LEMMA ServerKeeps == AlarmInv /\ Server => AlarmInv'
  <1> SUFFICES ASSUME AlarmInv, Server PROVE AlarmInv'
    OBVIOUS
  <1> DEFINE p == k.proc_ptr
  <1>1. /\ p \in SERVERS /\ UNCHANGED <<pending_ticks, syn_table, clock_vars, syn_vars>>
    BY DEF Server
  <1>2. InOrder(k) /\ p \in Procs /\ p # CLOCK
    BY <1>1, Numbers DEF AlarmInv
  <1>3. \/ k' = Trap("RECEIVE", ANY, NoMessage)
        \/ \E m : k' = Trap("BOTH", CLOCK, m) /\ ClockRequest(k, [m EXCEPT !.m_source = p])
                  /\ [m EXCEPT !.m_source = p].m_source = p
    <2>1. ASSUME k' = Trap("BOTH", CLOCK, Message(NONE, "GET_UPTIME"))
          PROVE  \E m : /\ k' = Trap("BOTH", CLOCK, m) /\ ClockRequest(k, [m EXCEPT !.m_source = p])
                        /\ [m EXCEPT !.m_source = p].m_source = p
      <3> DEFINE m == Message(NONE, "GET_UPTIME")
                 n == [m EXCEPT !.m_source = p]
      <3>1. n.m_source = p /\ n.m_type = "GET_UPTIME"
        BY DEF Message
      <3> HIDE DEF n
      <3>2. ClockRequest(k, n)
        BY <1>1, <3>1 DEF ClockRequest
      <3> QED
        BY <2>1, <3>1, <3>2 DEF n
    <2>2. ASSUME p \in CLIENTS, NEW delta_ticks \in DELAYS,
                 k' = Trap("BOTH", CLOCK, AlarmRequest("SET_SYNC_AL", p, delta_ticks))
          PROVE  \E m : /\ k' = Trap("BOTH", CLOCK, m) /\ ClockRequest(k, [m EXCEPT !.m_source = p])
                        /\ [m EXCEPT !.m_source = p].m_source = p
      <3> DEFINE m == AlarmRequest("SET_SYNC_AL", p, delta_ticks)
                 n == [m EXCEPT !.m_source = p]
      <3>1. /\ n.m_source = p /\ n.m_type = "SET_SYNC_AL" /\ n.CLOCK_PROC_NR = p
            /\ n.DELTA_TICKS = delta_ticks
        BY DEF AlarmRequest
      <3> HIDE DEF n
      <3>2. ClockRequest(k, n)
        BY <1>1, <2>2, <3>1 DEF ClockRequest
      <3> QED
        BY <2>2, <3>1, <3>2 DEF n
    <2>3. ASSUME p = MM, NEW u \in k.in_use, NEW delta_ticks \in DELAYS,
                 k' = Trap("BOTH", CLOCK, AlarmRequest("SET_ALARM", u, delta_ticks))
          PROVE  \E m : /\ k' = Trap("BOTH", CLOCK, m) /\ ClockRequest(k, [m EXCEPT !.m_source = p])
                        /\ [m EXCEPT !.m_source = p].m_source = p
      <3> DEFINE m == AlarmRequest("SET_ALARM", u, delta_ticks)
                 n == [m EXCEPT !.m_source = p]
      <3>1. /\ n.m_source = p /\ n.m_type = "SET_ALARM" /\ n.CLOCK_PROC_NR = u
            /\ n.DELTA_TICKS = delta_ticks
        BY DEF AlarmRequest
      <3> HIDE DEF n
      <3>2. ClockRequest(k, n)
        BY <1>1, <2>3, <3>1 DEF ClockRequest
      <3> QED
        BY <2>3, <3>1, <3>2 DEF n
    <2> QED
      BY <2>1, <2>2, <2>3 DEF Server, KernelBecomes
  <1> HIDE DEF p
  <1>4. /\ InOrder(k') /\ k'.in_use = k.in_use
        /\ k'.p_getfrom[SYN_ALRM_TASK] = k.p_getfrom[SYN_ALRM_TASK]
    <2>0. k.proc_ptr \in Procs /\ k.proc_ptr = p
      BY <1>2 DEF p
    <2>1. CASE k' = Trap("RECEIVE", ANY, NoMessage)
      <3>1. PICK a : /\ InOrder(a) /\ a.proc_ptr = k.proc_ptr /\ a.in_use = k.in_use
                     /\ a.p_getfrom = k.p_getfrom /\ a.p_sendto = k.p_sendto
                     /\ a.inbox[k.proc_ptr] = NoMessage
                     /\ Trap("RECEIVE", ANY, NoMessage) =
                          sys_call(a, "RECEIVE", ANY,
                                   [NoMessage EXCEPT !.m_source = k.proc_ptr]).k
        BY <1>2, <2>0, TrapIsCall
      <3> QED
        BY <1>1, <2>0, <2>1, <3>1, ServerReceives
    <2>2. ASSUME NEW m, k' = Trap("BOTH", CLOCK, m), ClockRequest(k, [m EXCEPT !.m_source = p]),
                 [m EXCEPT !.m_source = p].m_source = p
          PROVE  /\ InOrder(k') /\ k'.in_use = k.in_use
                 /\ k'.p_getfrom[SYN_ALRM_TASK] = k.p_getfrom[SYN_ALRM_TASK]
      <3> DEFINE n == [m EXCEPT !.m_source = p]
      <3>1. PICK a : /\ InOrder(a) /\ a.proc_ptr = k.proc_ptr /\ a.in_use = k.in_use
                     /\ a.p_getfrom = k.p_getfrom /\ a.p_sendto = k.p_sendto
                     /\ a.inbox[k.proc_ptr] = NoMessage
                     /\ Trap("BOTH", CLOCK, m) =
                          sys_call(a, "BOTH", CLOCK, [m EXCEPT !.m_source = k.proc_ptr]).k
        BY <1>2, <2>0, TrapIsCall
      <3>2. /\ Trap("BOTH", CLOCK, m) = sys_call(a, "BOTH", CLOCK, n).k
            /\ ClockRequest(k, n) /\ n.m_source = p
        BY <2>0, <2>2, <3>1
      <3> HIDE DEF n
      <3>3. ClockRequest(a, n) /\ p = a.proc_ptr
        BY <2>0, <3>1, <3>2 DEF ClockRequest
      <3> QED
        BY <1>1, <2>2, <3>1, <3>2, <3>3, ServerAsks
    <2> QED
      BY <1>3, <2>1, <2>2
  <1>5. Timed' /\ LoopInOrder'
    BY <1>1, <1>2, <1>4, ClockTablesKept DEF p
  <1>6. SynLoopInOrder'
    BY <1>1, <1>4, SynKept
  <1>7. InOrder(k)'
    BY <1>4
  <1> QED
    BY <1>5, <1>6, <1>7 DEF AlarmInv
\* MM has a process removed, with its alarm.
LEMMA ExitInvKept == AlarmInv /\ (\E u \in USERS : UserExits(u)) => AlarmInv'
  <1> SUFFICES ASSUME AlarmInv, NEW u \in USERS, UserExits(u) PROVE AlarmInv'
    OBVIOUS
  <1>1. /\ k.proc_ptr = MM /\ k' = do_xit(k, u) /\ p_alarm' = [p_alarm EXCEPT ![u] = 0]
        /\ strays' = strays \ {u}
        /\ UNCHANGED <<realtime, pending_ticks, next_alarm, watch_dog, syn_table,
                       clock_loop, syn_vars>>
    BY DEF UserExits, SystemRuns
  <1>2. InOrder(k) /\ u \in Procs /\ CLOCK # NONE /\ u \notin CLIENTS
    BY Numbers DEF AlarmInv
  <1>3. MM # CLOCK /\ MM # IDLE
    BY DEF MM, CLOCK, IDLE
  <1>4. k.p_getfrom[MM] # CLOCK
    BY <1>1, <1>2, <1>3, RunsFree
  <1>5. /\ InOrder(k') /\ k'.in_use = k.in_use \ {u}
        /\ k'.p_getfrom[SYN_ALRM_TASK] = k.p_getfrom[SYN_ALRM_TASK]
    BY <1>1, <1>2, <1>4, ExitKeeps
  <1>6. /\ p_alarm'[u] = 0 /\ \A q \in Procs : q # u => p_alarm'[q] = p_alarm[q]
        /\ p_alarm' \in [Procs -> 0 .. LONG_MAX - 1]
    <2>1. 0 \in 0 .. LONG_MAX - 1 /\ p_alarm \in [Procs -> 0 .. LONG_MAX - 1]
      BY TimesAssumption DEF LONG_MAX, AlarmInv, Timed
    <2> QED
      BY <1>1, <1>2, <2>1
  <1>7. Timed'
    BY <1>1, <1>5, <1>6, Numbers DEF AlarmInv, Timed
  <1>8. LoopInOrder'
    <2>1. clock_loop # None => clock_loop.fired /\ clock_loop.at \in CLIENTS
      BY <1>1, <1>3 DEF AlarmInv, LoopInOrder
    <2>2. clock_loop.fired => clock_loop # None
      BY DEF None
    <2>3. clock_loop.fired => clock_loop.at \in Procs /\ p_alarm'[clock_loop.at] # 0
      BY <1>2, <1>6, <2>1, <2>2 DEF AlarmInv, LoopInOrder
    <2>4. Covered(clock_loop, p_alarm', next_alarm, strays')
      BY <1>1, <1>6 DEF AlarmInv, LoopInOrder, Covered
    <2> QED
      BY <1>1, <2>1, <2>3, <2>4 DEF AlarmInv, LoopInOrder
  <1>9. SynLoopInOrder'
    BY <1>1, <1>5, SynKept
  <1>10. InOrder(k)'
    BY <1>5
  <1> QED
    BY <1>7, <1>8, <1>9, <1>10 DEF AlarmInv

\* MM has a process copied, with its alarm: the loop, if it has stopped, has not passed
\* the child's slot, or it has passed the parent's as well, or the child is a stray.
LEMMA ForkInvKept == AlarmInv /\ (\E parent, child \in USERS : UserForks(parent, child)) => AlarmInv'
  <1> SUFFICES ASSUME AlarmInv, NEW parent \in USERS, NEW child \in USERS, UserForks(parent, child)
               PROVE  AlarmInv'
    OBVIOUS
  <1>1. /\ k.proc_ptr = MM /\ k' = do_fork(k, parent, child)
        /\ p_alarm' = [p_alarm EXCEPT ![child] = p_alarm[parent]]
        /\ child \notin k.in_use
        /\ strays' \subseteq strays \cup {child} /\ strays \ {child} \subseteq strays'
        /\ \/ child \in strays' \/ p_alarm[parent] = 0 \/ ~NotCounted(parent)
           \/ ~(clock_loop = None \/ child <= clock_loop.at)
        /\ UNCHANGED <<realtime, pending_ticks, next_alarm, watch_dog, syn_table,
                       clock_loop, syn_vars>>
    BY DEF UserForks, SystemRuns
  <1>2. /\ InOrder(k) /\ child \in Procs /\ parent \in Procs /\ child \notin CLIENTS
        /\ child \in USERS \ k.in_use
    BY <1>1, Numbers DEF AlarmInv
  <1>3. /\ InOrder(k') /\ k'.in_use = k.in_use \cup {child}
        /\ k'.p_getfrom[SYN_ALRM_TASK] = k.p_getfrom[SYN_ALRM_TASK]
    BY <1>1, <1>2, ForkKeeps
  <1>4. /\ p_alarm'[child] = p_alarm[parent]
        /\ \A q \in Procs : q # child => p_alarm'[q] = p_alarm[q]
        /\ p_alarm' \in [Procs -> 0 .. LONG_MAX - 1]
    BY <1>1, <1>2 DEF AlarmInv, Timed
  <1>5. Timed'
    <2>1. \A v \in USERS \ k'.in_use : p_alarm'[v] = 0
      BY <1>3, <1>4, Numbers DEF AlarmInv, Timed
    <2>2. strays' \subseteq k'.in_use
      BY <1>1, <1>3 DEF AlarmInv, Timed
    <2> QED
      BY <1>1, <1>4, <2>1, <2>2 DEF AlarmInv, Timed
  <1>6. LoopInOrder'
    <2>0. MM # CLOCK
      BY DEF MM, CLOCK
    <2>1. clock_loop # None => clock_loop.fired /\ clock_loop.at \in CLIENTS
      BY <1>1, <2>0 DEF AlarmInv, LoopInOrder
    <2>2. clock_loop.fired => clock_loop # None
      BY DEF None
    <2>3. clock_loop.fired => clock_loop.at \in Procs /\ p_alarm'[clock_loop.at] # 0
      BY <1>2, <1>4, <2>1, <2>2 DEF AlarmInv, LoopInOrder
    <2>5. ASSUME clock_loop = None, NEW q \in Procs \ strays', p_alarm'[q] # 0
          PROVE  next_alarm <= p_alarm'[q]
      <3>1. CASE q = child
        <4>1. p_alarm[parent] # 0 /\ p_alarm'[q] = p_alarm[parent]
          BY <1>4, <2>5, <3>1
        <4>2. parent \in Procs \ strays
          BY <1>1, <1>2, <2>5, <3>1, <4>1 DEF NotCounted
        <4> QED
          BY <2>5, <4>1, <4>2 DEF AlarmInv, LoopInOrder, Covered
      <3>2. CASE q # child
        <4>1. q \in Procs \ strays /\ p_alarm'[q] = p_alarm[q]
          BY <1>1, <1>4, <3>2
        <4> QED
          BY <2>5, <4>1 DEF AlarmInv, LoopInOrder, Covered
      <3> QED
        BY <3>1, <3>2
    <2>6. ASSUME clock_loop # None, NEW q \in Procs \ strays', q <= clock_loop.at, p_alarm'[q] # 0,
                 ~(clock_loop.fired /\ q = clock_loop.at)
          PROVE  next_alarm <= p_alarm'[q]
      <3>1. CASE q = child
        <4>1. p_alarm[parent] # 0 /\ p_alarm'[q] = p_alarm[parent]
          BY <1>4, <2>6, <3>1
        <4>2. parent \in Procs \ strays /\ ~(parent > clock_loop.at)
          BY <1>1, <1>2, <2>6, <3>1, <4>1 DEF NotCounted
        <4>3. parent <= clock_loop.at /\ parent # clock_loop.at
          BY <1>2, <2>1, <2>6, <4>2, LoopAtSlot, Numbers
        <4> QED
          BY <2>6, <4>1, <4>2, <4>3 DEF AlarmInv, LoopInOrder, Covered
      <3>2. CASE q # child
        <4>1. q \in Procs \ strays /\ p_alarm'[q] = p_alarm[q]
          BY <1>1, <1>4, <3>2
        <4> QED
          BY <2>6, <4>1 DEF AlarmInv, LoopInOrder, Covered
      <3> QED
        BY <3>1, <3>2
    <2>7. Covered(clock_loop, p_alarm', next_alarm, strays')
      BY <2>5, <2>6 DEF Covered
    <2> QED
      BY <1>1, <2>1, <2>3, <2>7 DEF AlarmInv, LoopInOrder
  <1>7. SynLoopInOrder'
    BY <1>1, <1>3, SynKept
  <1>8. InOrder(k)'
    BY <1>3
  <1> QED
    BY <1>5, <1>6, <1>7, <1>8 DEF AlarmInv

\* So every step keeps the invariant.
LEMMA NextAlarmInv == AlarmInv /\ [AlarmsNext]_alarms_vars => AlarmInv'
  <1> SUFFICES ASSUME AlarmInv, [AlarmsNext]_alarms_vars PROVE AlarmInv'
    OBVIOUS
  <1>1. CASE UNCHANGED alarms_vars
    <2>1. k' = k /\ UNCHANGED <<pending_ticks, syn_table, clock_vars, syn_vars>>
      BY <1>1 DEF alarms_vars
    <2>2. InOrder(k)' /\ Timed' /\ SynLoopInOrder'
      BY <2>1 DEF AlarmInv, Timed, SynLoopInOrder, clock_vars, syn_vars
    <2>3. LoopInOrder'
      BY <2>1 DEF AlarmInv, LoopInOrder, Covered, clock_vars
    <2> QED
      BY <2>2, <2>3 DEF AlarmInv
  <1>2. CASE clock_handler
    BY <1>2, HandlerKeeps
  <1>3. CASE clock_task
    BY <1>3, ReceiveKeeps, SetAlarmKeeps, UptimeKeeps, BeginKeeps, FireKeeps, ClearKeeps,
       KeepKeeps, EndKeeps DEF clock_task
  <1>4. CASE syn_alrm_task
    BY <1>4, TellKeeps, EndOfTableKeeps, WakesKeeps DEF syn_alrm_task
  <1>5. CASE Server
    BY <1>5, ServerKeeps
  <1>6. CASE \E u \in USERS : UserExits(u)
    BY <1>6, ExitInvKept
  <1>7. CASE \E parent, child \in USERS : UserForks(parent, child)
    BY <1>7, ForkInvKept
  <1> QED
    BY <1>1, <1>2, <1>3, <1>4, <1>5, <1>6, <1>7 DEF AlarmsNext, AlarmsRun

\* The tables of the clock task, the alarm task and the kernel agree at all times, for
\* any servers, users, clients, delays and end of time: whatever runs while the clock
\* task waits in its loop (do_clocktick, clock.c) and whatever is forked, exits, asks
\* or is interrupted meanwhile.
THEOREM AlarmInvHolds == AlarmsSpec => []AlarmInv
  <1>1. AlarmsInit => AlarmInv
    BY InitAlarmInv
  <1>2. AlarmInv /\ [AlarmsNext]_alarms_vars => AlarmInv'
    BY NextAlarmInv
  <1> QED
    BY <1>1, <1>2, PTL DEF AlarmsSpec

\* The types; and between two rounds of the clock task next_alarm is not later than
\* any alarm, so that clock_handler, which looks at nothing else, misses none:
\* common_setalarm and do_clocktick (clock.c) recompute it, a fork copies an alarm that
\* is counted already or that the loop will come to, an exit only takes one away.  The
\* exception is a copy made behind a loop that has stopped (system.c:295), wherever
\* servers and users sit in the table.
THEOREM NoAlarmMissedHolds == AlarmsSpec => []NoAlarmMissed
  <1>1. AlarmInv => NoAlarmMissed
    <2> SUFFICES ASSUME AlarmInv PROVE NoAlarmMissed
      OBVIOUS
    <2>1. AlarmsTypeOK
      BY DEF AlarmInv, Timed, LoopInOrder, AlarmsTypeOK
    <2>2. clock_loop = None =>
            \A p \in Procs \ strays : p_alarm[p] # 0 => next_alarm <= p_alarm[p]
      BY DEF AlarmInv, LoopInOrder, Covered
    <2> QED
      BY <2>1, <2>2 DEF NoAlarmMissed
  <1> QED
    BY <1>1, AlarmInvHolds, PTL

\* Where all servers come before the users, as MM and FS do, the loop has not passed
\* a child's slot when it stops at a client's (do_clocktick, clock.c): then nothing
\* has to be excepted, and next_alarm is never later than any alarm.
THEOREM NoneMissedWithServersFirst ==
    ASSUME \A s \in SERVERS, u \in USERS : s < u
    PROVE  AlarmsSpec => [](strays = {} /\ NoAlarmMissed)
  <1>1. AlarmsInit => strays = {}
    BY DEF AlarmsInit
  <1>2. AlarmInv /\ strays = {} /\ [AlarmsNext]_alarms_vars => (strays = {})'
    <2> SUFFICES ASSUME AlarmInv, strays = {}, [AlarmsNext]_alarms_vars PROVE strays' = {}
      OBVIOUS
    <2>1. CASE UNCHANGED alarms_vars
      BY <2>1 DEF alarms_vars, clock_vars
    <2>2. CASE clock_handler \/ syn_alrm_task \/ Server
      BY <2>2 DEF clock_handler, syn_alrm_task, TellClient, EndOfTable, SynWakes, Server, clock_vars
    <2>3. CASE clock_task
      BY <2>3 DEF clock_task, ClockReceives, do_setalarm, do_setsyn_alrm, common_setalarm,
         do_getuptime, BeginClockTick, FireAlarm, ClearAlarm, KeepAlarm, EndClockTick, clock_vars
    <2>4. CASE \E u \in USERS : UserExits(u)
      BY <2>4 DEF UserExits
    <2>5. ASSUME NEW parent \in USERS, NEW child \in USERS, UserForks(parent, child)
          PROVE  strays' = {}
      <3>1. k.proc_ptr = MM /\ MM # CLOCK
        BY <2>5 DEF UserForks, SystemRuns, MM, CLOCK
      <3>2. clock_loop # None => clock_loop.at \in SERVERS
        <4>1. clock_loop # None => clock_loop.at \in CLIENTS
          BY <3>1 DEF AlarmInv, LoopInOrder
        <4> QED
          BY <4>1, ClientsAreServers
      <3>3. clock_loop # None => ~(child <= clock_loop.at)
        <4>1. clock_loop # None => clock_loop.at < child
          BY <3>2
        <4> QED
          BY <4>1, LoopAtSlot, Numbers
      <3>4. clock_loop = None => ~NotCounted(parent)
        BY DEF NotCounted
      <3> QED
        BY <2>5, <3>3, <3>4 DEF UserForks
    <2> QED
      BY <2>1, <2>2, <2>3, <2>4, <2>5 DEF AlarmsNext, AlarmsRun
  <1> QED
    BY <1>1, <1>2, AlarmInvHolds, NoAlarmMissedHolds, PTL DEF AlarmsSpec

\* The alarm task does not wait for the clock task while there is an alarm to send:
\* syn_alrm_task (clock.c) says that it sleeps before it does, cause_alarm wakes it
\* if it has said so, and an alarm that goes off between is found in the table.
THEOREM AwakeWithWorkHolds == AlarmsSpec => []AwakeWithWork
  <1>1. AlarmInv => AwakeWithWork
    BY DEF AlarmInv, SynLoopInOrder, AwakeWithWork
  <1> QED
    BY <1>1, AlarmInvHolds, PTL

-----------------------------------------------------------------------------
(* Signals: who waits for whom, and what each is at.                         *)

\* What users ask MM for.
MMCalls == {"FORK", "EXIT", "EXEC", "PTRACE"}

\* u has asked server s for something and waits for the answer.
AwaitsAnswer(a, u, s) == u \in a.in_use /\ a.p_getfrom[u] = s /\ a.p_sendto[u] = NONE

\* The server s waits for the answer of p, who has its message.
ServerAwaits(a, s, p) == a.p_getfrom[s] = p /\ a.p_sendto[s] = NONE

\* Users ask MM and FS, MM asks FS and the system task; no other waits to send.
SendersInOrder(a) ==
    /\ \A u \in USERS :
         /\ a.p_getfrom[u] \in {NONE, MM, FS}
         /\ a.p_sendto[u] # NONE => a.p_sendto[u] = a.p_getfrom[u]
         /\ a.p_sendto[u] = MM => \E type \in MMCalls : a.p_messbuf[u] = Message(u, type)
         /\ a.p_sendto[u] = FS => a.p_messbuf[u] = Message(u, "WRITE")
    /\ \A p \in TASKS \cup {FS} : a.p_sendto[p] = NONE
    /\ a.p_sendto[MM] \in {NONE, FS}
    /\ a.p_sendto[MM] = FS =>
         a.p_getfrom[MM] = FS /\ a.p_messbuf[MM] = Message(MM, "tell_fs")
    /\ a.p_messbuf[MM] \in {NoMessage, Message(MM, "tell_fs")}

\* A request of MM or FS that the system task has received.
SystemAsked(a) == a.inbox[SYSTASK].m_source \in SERVERS

\* A task waits for work with nothing to do; who asked the system task waits for it.
TaskInOrder(a, t, x) ==
    /\ a.p_getfrom[x] \in {NONE, ANY}
    /\ a.inbox[x] \in {NoMessage, HardInt} \/ (x = SYSTASK /\ SystemAsked(a))
    /\ a.p_getfrom[x] = ANY => a.inbox[x] = NoMessage /\ t[x] = << >>
    /\ x = SYSTASK /\ SystemAsked(a) =>
         t[x] = << >> /\ ServerAwaits(a, a.inbox[x].m_source, SYSTASK)
    /\ t[x] # << >> =>
         /\ x = SYSTASK
         /\ \E s \in SERVERS : t[x] = <<Reply(s)>> /\ ServerAwaits(a, s, SYSTASK)

TasksInOrder(a, t) == \A x \in TASKS : TaskInOrder(a, t, x)

\* FS is the next server to run, and MM has not asked for anything before.
FSNext(a) ==
    /\ a.rdy["SERVER_Q"] # << >> /\ Head(a.rdy["SERVER_Q"]) = FS
    /\ a.inbox[SYSTASK].m_source # MM

\* FS has a write of u, which signals u or not.
Writes(a, t, u) ==
    \/ t[FS] = << >> /\ a.inbox[FS] = Message(u, "WRITE")
    \/ t[FS] = <<System("SYS_KILL", u), Reply(u)>> /\ a.inbox[FS] = NoMessage

\* FS has asked for the signal.
Kills(a, t, u) ==
    /\ t[FS] = <<Reply(u)>> /\ a.inbox[FS] = NoMessage
    /\ a.p_getfrom[FS] = SYSTASK /\ AwaitsAnswer(a, u, FS)
    /\ \/ a.inbox[SYSTASK] = Signed(Request("SYS_KILL", u), FS)
       \/ t[SYSTASK] = <<Reply(FS)>>

\* FS is about to answer u, which may have been killed just now.
Answers(a, t, u) ==
    /\ t[FS] = <<Reply(u)>> /\ a.inbox[FS].m_type \in {"none", "reply"}
    /\ a.p_getfrom[FS] = NONE
    /\ AwaitsAnswer(a, u, FS) \/ (u \notin a.in_use /\ FSNext(a))

\* What FS is at.
FSInOrder(a, t) ==
    \/ t[FS] = << >> /\ a.inbox[FS] = NoMessage /\ a.p_getfrom[FS] = ANY
    \/ /\ t[FS] = << >> /\ a.inbox[FS].m_type \in {"none", "reply"}
       /\ a.p_getfrom[FS] = NONE
    \/ /\ \/ t[FS] = << >> /\ a.inbox[FS] = Message(MM, "tell_fs")
          \/ t[FS] = <<Reply(MM)>> /\ a.inbox[FS] = NoMessage
       /\ a.p_getfrom[FS] = NONE /\ ServerAwaits(a, MM, FS)
    \/ \E u \in USERS :
         \/ Writes(a, t, u) /\ a.p_getfrom[FS] = NONE /\ AwaitsAnswer(a, u, FS) /\ FSNext(a)
         \/ Kills(a, t, u)
         \/ Answers(a, t, u)

\* What MM does for a signal of u.
SignalRequests == {"SYS_XIT", "SYS_ENDSIG", "T_STOP"}
SignalCalls(u) == {TellFS} \cup {System(type, u) : type \in SignalRequests}

\* The request of MM that the system task has, or none.
Requested(a) == IF a.inbox[SYSTASK].m_source = MM THEN a.inbox[SYSTASK] ELSE NoMessage

Asks(m, type, u) == m = Signed(Request(type, u), MM)

\* What is left to do of a fork, once the child has its slot.
Forked1(c, u) == <<TellFS, System("SYS_NEWMAP", c), Reply(c), Reply(u)>>
Forked2(c, u) == <<System("SYS_NEWMAP", c), Reply(c), Reply(u)>>
Forked3(c, u) == <<Reply(c), Reply(u)>>

ForkBegins(a, m, calls, u, c) ==
    /\ c \notin a.in_use
    /\ \/ /\ m = NoMessage
          /\ calls = <<SendRec(SYSTASK, ForkRequest(u, c)), TellFS, System("SYS_NEWMAP", c),
                       Reply(c), Reply(u)>>
       \/ m = Signed(ForkRequest(u, c), MM) /\ calls = Forked1(c, u)

ForkEnds(a, m, calls, u, c) ==
    /\ AwaitsAnswer(a, c, MM)
    /\ \/ m = NoMessage /\ calls \in {Forked1(c, u), Forked2(c, u), Forked3(c, u)}
       \/ Asks(m, "SYS_NEWMAP", c) /\ calls = Forked3(c, u)

Forking(a, m, calls, u, c) ==
    /\ AwaitsAnswer(a, u, MM) /\ u # c
    /\ ForkBegins(a, m, calls, u, c) \/ ForkEnds(a, m, calls, u, c)

Executing(a, m, calls, u) ==
    /\ AwaitsAnswer(a, u, MM)
    /\ \/ m = NoMessage /\ calls = <<System("SYS_EXEC", u)>>
       \/ Asks(m, "SYS_EXEC", u) /\ calls = << >>

StoppedIn(a, v) == v \in a.in_use /\ "P_STOP" \in a.p_flags[v]

Resuming(a, m, calls, u, v) ==
    /\ AwaitsAnswer(a, u, MM)
    /\ \/ StoppedIn(a, v) /\ m = NoMessage /\ calls = <<System("T_RESUME", v), Reply(u)>>
       \/ StoppedIn(a, v) /\ Asks(m, "T_RESUME", v) /\ calls = <<Reply(u)>>
       \/ m = NoMessage /\ calls = <<Reply(u)>>

Signalling(m, calls, u) ==
    /\ m = NoMessage \/ \E type \in SignalRequests : Asks(m, type, u)
    /\ calls \in Seq(SignalCalls(u)) /\ Len(calls) <= 6

\* What MM is at: nothing, or one of its pieces of work.
AtWork(a, m, calls) ==
    \/ m = NoMessage /\ calls = << >>
    \/ \E u \in USERS : \/ \E c \in USERS : Forking(a, m, calls, u, c)
                        \/ Executing(a, m, calls, u)
                        \/ \E v \in USERS : Resuming(a, m, calls, u, v)
                        \/ Signalling(m, calls, u)

\* The signals that are caused.
Sigs == {"SIGALRM", "SIGPIPE", "SIGTRAP"}

\* What MM has received and not begun with.
MMHas(a, m) ==
    \/ \E u \in USERS, type \in MMCalls : m = Message(u, type) /\ AwaitsAnswer(a, u, MM)
    \/ \E u \in a.in_use, map \in SUBSET Sigs : m = Ksig(u, map)

MMInOrder(a, t) ==
    /\ a.p_getfrom[MM] \in {NONE, ANY, FS, SYSTASK}
    /\ a.p_getfrom[MM] = ANY => t[MM] = << >>
    /\ a.p_getfrom[MM] # NONE => a.inbox[MM] = NoMessage
    /\ a.inbox[MM].m_type \in {"none", "reply"} \/ (t[MM] = << >> /\ MMHas(a, a.inbox[MM]))
    /\ AtWork(a, Requested(a), t[MM])

\* Signals that MM has not finished with.
Ends(m, u) == m.m_type = "SYS_ENDSIG" /\ m.PROC1 = u
EndsIn(calls, u) == Cardinality({i \in DOMAIN calls : Ends(calls[i].m, u)})
EndsGot(m, u) == IF m.m_type = "KSIG" /\ m.SIG_PROC = u THEN Cardinality(m.SIG_MAP) ELSE 0
EndsLeft(a, t, u) ==
    EndsIn(t[MM], u) + (IF Ends(a.p_messbuf[MM], u) THEN 1 ELSE 0)
      + (IF Ends(a.inbox[SYSTASK], u) THEN 1 ELSE 0) + EndsGot(a.inbox[MM], u)

\* The count of u, that has n signals MM has not finished with.
UserCounts(a, u, n) ==
    /\ a.p_pendcount[u] = Cardinality(a.p_pending[u]) + n
    /\ "SIG_PENDING" \in a.p_flags[u] <=> a.p_pendcount[u] > 0
    /\ "PENDING" \in a.p_flags[u] <=> a.p_pending[u] # {}

Counted(a) ==
    /\ a.sig_procs = Cardinality(Marked(a))
    /\ \A u \in USERS : a.p_pending[u] \subseteq Sigs
    /\ \A u \in USERS \ a.in_use : a.p_pending[u] = {}

Counts(a, t) ==
    /\ Counted(a)
    /\ a.p_getfrom[MM] = ANY => a.sig_procs = 0
    /\ \A u \in a.in_use : UserCounts(a, u, EndsLeft(a, t, u))

\* The invariant, of the tables a and the calls t.
SigInOrder(a, t) ==
    /\ Core(a) /\ HighestRuns(a) /\ DOMAIN t = Active
    /\ SendersInOrder(a) /\ TasksInOrder(a, t) /\ FSInOrder(a, t) /\ MMInOrder(a, t)
    /\ Counts(a, t)

SigInv == SigInOrder(k, todo) /\ left \in 0 .. MAX_EVENTS

-----------------------------------------------------------------------------
\* The numbers of the processes differ, as the slots are assumed to.
LEMMA SigNumbers ==
    /\ MM \in SERVERS /\ FS \in SERVERS /\ CLOCK \in TASKS /\ SYSTASK \in TASKS
    /\ MM # FS /\ CLOCK # SYSTASK /\ SERVERS = {MM, FS}
    /\ TASKS \subseteq Procs /\ SERVERS \subseteq Procs /\ USERS \subseteq Procs
    /\ TASKS \cap SERVERS = {} /\ TASKS \cap USERS = {} /\ SERVERS \cap USERS = {}
    /\ NONE \notin Procs /\ ANY \notin Procs /\ HARDWARE \notin Procs /\ IDLE \notin Procs
    /\ NONE # ANY /\ NONE # HARDWARE /\ ANY # HARDWARE
    /\ USERS \subseteq Nat /\ IsFiniteSet(USERS) /\ MAX_EVENTS \in Nat
    /\ Active = TASKS \cup SERVERS /\ MM \in Active /\ FS \in Active
    /\ QueueOf(FS) = "SERVER_Q" /\ QueueOf(MM) = "SERVER_Q"
  <1>1. TASKS \cap SERVERS = {} /\ TASKS \cap USERS = {} /\ SERVERS \cap USERS = {}
    BY SlotsAssumption
  <1>2. MM \in SERVERS /\ FS \in SERVERS /\ CLOCK \in TASKS /\ SYSTASK \in TASKS
        /\ SERVERS = {MM, FS}
    BY SignalsAssumption
  <1>3. MM # FS /\ CLOCK # SYSTASK
    BY DEF MM, FS, CLOCK, SYSTASK
  <1>4. TASKS \subseteq Procs /\ SERVERS \subseteq Procs /\ USERS \subseteq Procs
    BY DEF Procs
  <1>5. QueueOf(FS) = "SERVER_Q" /\ QueueOf(MM) = "SERVER_Q"
    BY <1>1, <1>2 DEF QueueOf
  <1>6. Active = TASKS \cup SERVERS
    BY DEF Active
  <1>7. /\ NONE \notin Procs /\ ANY \notin Procs /\ HARDWARE \notin Procs /\ IDLE \notin Procs
        /\ NONE # ANY /\ NONE # HARDWARE /\ ANY # HARDWARE
    BY NotProcs DEF ANY, HARDWARE
  <1>8. USERS \subseteq Nat /\ IsFiniteSet(USERS) /\ MAX_EVENTS \in Nat
    BY SignalsAssumption
  <1> QED
    BY <1>1, <1>2, <1>3, <1>4, <1>5, <1>6, <1>7, <1>8

\* Messages.
LEMMA SignedFields ==
    /\ \A type, u, s : LET m == Signed(Request(type, u), s) IN
         m.m_source = s /\ m.m_type = type /\ m.PROC1 = u
    /\ \A u, c, s : LET m == Signed(ForkRequest(u, c), s) IN
         m.m_source = s /\ m.m_type = "SYS_FORK" /\ m.PROC1 = u /\ m.PROC2 = c
    /\ \A type, source, s : Signed(Message(source, type), s) = Message(s, type)
    /\ \A type, source : Message(source, type).m_source = source
                         /\ Message(source, type).m_type = type
    /\ NoMessage.m_source = NONE /\ NoMessage.m_type = "none"
    /\ HardInt.m_source = HARDWARE /\ HardInt.m_type = "HARD_INT"
    /\ \A u, map : /\ Ksig(u, map).m_type = "KSIG" /\ Ksig(u, map).m_source = HARDWARE
                   /\ Ksig(u, map).SIG_PROC = u /\ Ksig(u, map).SIG_MAP = map
    /\ \A u : ~Ends(NoMessage, u) /\ ~Ends(HardInt, u)
    /\ \A u, type : type # "SYS_ENDSIG" => \A s : ~Ends(Message(s, type), u)
  BY DEF Signed, Request, ForkRequest, Message, NoMessage, HardInt, Ksig, Ends

-----------------------------------------------------------------------------
(* What keeps each of them in order.                                         *)

\* Who touches no task, nor a server that waits for the system task, leaves them in order.
LEMMA TasksKept ==
    ASSUME NEW a, NEW t, TasksInOrder(a, t), NEW b, NEW s,
           \A x \in TASKS : /\ b.p_getfrom[x] = a.p_getfrom[x] /\ b.inbox[x] = a.inbox[x]
                            /\ s[x] = t[x],
           \A p \in SERVERS : ServerAwaits(a, p, SYSTASK) => ServerAwaits(b, p, SYSTASK)
    PROVE  TasksInOrder(b, s)
  BY SigNumbers DEF TasksInOrder, TaskInOrder, SystemAsked

\* What keeps FS in order: it and whom it works for still wait as they did.
LEMMA FSKept ==
    ASSUME NEW a, NEW t, FSInOrder(a, t), NEW b, NEW s,
           b.p_getfrom[FS] = a.p_getfrom[FS], b.inbox[FS] = a.inbox[FS], s[FS] = t[FS],
           FSNext(a) => FSNext(b) /\ b.in_use \subseteq a.in_use,
           a.p_getfrom[FS] = SYSTASK =>
             b.inbox[SYSTASK] = a.inbox[SYSTASK] /\ s[SYSTASK] = t[SYSTASK],
           ServerAwaits(a, MM, FS) => ServerAwaits(b, MM, FS),
           \A u \in USERS : AwaitsAnswer(a, u, FS) => AwaitsAnswer(b, u, FS)
    PROVE  FSInOrder(b, s)
  <1>1. CASE \E u \in USERS : Writes(a, t, u) /\ a.p_getfrom[FS] = NONE
                              /\ AwaitsAnswer(a, u, FS) /\ FSNext(a)
    BY <1>1 DEF FSInOrder, Writes
  <1>2. CASE \E u \in USERS : Kills(a, t, u)
    <2>1. PICK u \in USERS : Kills(a, t, u)
      BY <1>2
    <2>2. Kills(b, s, u)
      BY <2>1 DEF Kills
    <2> QED
      BY <2>2 DEF FSInOrder
  <1>3. CASE \E u \in USERS : Answers(a, t, u)
    <2>1. PICK u \in USERS : Answers(a, t, u)
      BY <1>3
    <2>2. Answers(b, s, u)
      BY <2>1 DEF Answers
    <2> QED
      BY <2>2 DEF FSInOrder
  <1> QED
    BY <1>1, <1>2, <1>3 DEF FSInOrder

\* MM goes on with its work while those it works for still wait.
LEMMA AtWorkKept ==
    ASSUME NEW a, NEW m, NEW calls, AtWork(a, m, calls), NEW b,
           \A u \in USERS : AwaitsAnswer(a, u, MM) => AwaitsAnswer(b, u, MM),
           \A u \in USERS : StoppedIn(a, u) => StoppedIn(b, u),
           b.in_use \subseteq a.in_use
    PROVE  AtWork(b, m, calls)
  <1>1. ASSUME NEW u \in USERS, NEW c \in USERS, Forking(a, m, calls, u, c)
        PROVE  Forking(b, m, calls, u, c)
    BY <1>1 DEF Forking, ForkBegins, ForkEnds
  <1>2. ASSUME NEW u \in USERS, Executing(a, m, calls, u) PROVE Executing(b, m, calls, u)
    BY <1>2 DEF Executing
  <1>3. ASSUME NEW u \in USERS, NEW v \in USERS, Resuming(a, m, calls, u, v)
        PROVE  Resuming(b, m, calls, u, v)
    BY <1>3 DEF Resuming
  <1> QED
    BY <1>1, <1>2, <1>3 DEF AtWork

\* What keeps MM in order.
LEMMA MMKept ==
    ASSUME NEW a, NEW t, MMInOrder(a, t), NEW b, NEW s,
           b.p_getfrom[MM] = a.p_getfrom[MM], b.inbox[MM] = a.inbox[MM], s[MM] = t[MM],
           Requested(b) = Requested(a),
           \A u \in USERS : AwaitsAnswer(a, u, MM) => AwaitsAnswer(b, u, MM),
           \A u \in USERS : StoppedIn(a, u) => StoppedIn(b, u),
           b.in_use = a.in_use
    PROVE  MMInOrder(b, s)
  <1>1. AtWork(b, Requested(b), s[MM])
    BY AtWorkKept DEF MMInOrder
  <1>2. MMHas(a, a.inbox[MM]) => MMHas(b, b.inbox[MM])
    BY DEF MMHas
  <1> QED
    BY <1>1, <1>2 DEF MMInOrder

\* The counts stay right while no flag, signal or call that ends one changes.
LEMMA CountsKept ==
    ASSUME NEW a, NEW t, Counts(a, t), NEW b, NEW s, SameSignals(a, b),
           b.p_getfrom[MM] = ANY => a.p_getfrom[MM] = ANY \/ a.sig_procs = 0,
           a.in_use \subseteq USERS,
           \A u \in USERS : EndsLeft(b, s, u) = EndsLeft(a, t, u)
    PROVE  Counts(b, s)
  <1>1. Marked(b) = Marked(a)
    BY DEF SameSignals, Marked
  <1>2. \A u \in b.in_use : UserCounts(b, u, EndsLeft(b, s, u))
    BY DEF Counts, UserCounts, SameSignals
  <1> QED
    BY <1>1, <1>2 DEF Counts, Counted, SameSignals

\* The calls that end signals are those in four places.
LEMMA EndsKept ==
    ASSUME NEW a, NEW t, NEW b, NEW s, s[MM] = t[MM], b.p_messbuf[MM] = a.p_messbuf[MM],
           \A u \in USERS : Ends(b.inbox[SYSTASK], u) <=> Ends(a.inbox[SYSTASK], u),
           \A u \in USERS : EndsGot(b.inbox[MM], u) = EndsGot(a.inbox[MM], u)
    PROVE  \A u \in USERS : EndsLeft(b, s, u) = EndsLeft(a, t, u)
  BY DEF EndsLeft

-----------------------------------------------------------------------------
(* Who runs, and what follows.                                               *)

\* A server or a user runs only while the tasks wait for work.
LEMMA TasksIdle ==
    ASSUME NEW a, NEW t, SigInOrder(a, t), a.proc_ptr \in SERVERS \cup USERS
    PROVE  \A x \in TASKS : /\ a.p_getfrom[x] = ANY /\ a.p_sendto[x] = NONE
                            /\ a.inbox[x] = NoMessage /\ t[x] = << >>
  <1>1. Typed(a) /\ QueuesHoldRunnable(a) /\ HighestRuns(a)
    BY DEF SigInOrder, Core
  <1>2. a.proc_ptr \in Procs /\ a.proc_ptr \notin TASKS
    BY SigNumbers
  <1> DEFINE q == a.rdy["TASK_Q"]
  <1>3. /\ q \in Seq(Procs)
        /\ Members(q) = {p \in Procs : InUse(a, p) /\ Runnable(a, p) /\ QueueOf(p) = "TASK_Q"}
    BY <1>1 DEF Typed, Queues, QueuesHoldRunnable
  <1>4. q # << >> => Head(q) = a.proc_ptr /\ Head(q) \in Members(q)
    <2>1. q # << >> => 1 \in DOMAIN q /\ Head(q) = q[1]
      BY <1>3, EmptySeq, LenProperties
    <2> QED
      BY <1>1, <2>1 DEF HighestRuns, Highest, Members
  <1> HIDE DEF q
  <1>5. q = << >>
    BY <1>2, <1>3, <1>4, NotProcs
  <1>6. \A x \in TASKS : ~Runnable(a, x)
    <2>1. Members(q) = {}
      BY <1>5 DEF Members
    <2> QED
      BY <1>3, <2>1, SigNumbers, NotProcs DEF InUse
  <1> SUFFICES ASSUME NEW x \in TASKS
               PROVE  /\ a.p_getfrom[x] = ANY /\ a.p_sendto[x] = NONE
                      /\ a.inbox[x] = NoMessage /\ t[x] = << >>
    OBVIOUS
  <1>7. a.p_sendto[x] = NONE /\ TaskInOrder(a, t, x)
    BY DEF SigInOrder, SendersInOrder, TasksInOrder
  <1>8. a.p_getfrom[x] # NONE
    BY <1>1, <1>6, <1>7, SigNumbers, RunnableIsFree DEF Free
  <1> QED
    BY <1>7, <1>8 DEF TaskInOrder

\* A user runs only while the servers wait.
LEMMA ServersIdle ==
    ASSUME NEW a, NEW t, SigInOrder(a, t), a.proc_ptr \in USERS
    PROVE  \A x \in SERVERS : ~Runnable(a, x)
  <1>1. Typed(a) /\ QueuesHoldRunnable(a) /\ HighestRuns(a)
    BY DEF SigInOrder, Core
  <1>2. a.proc_ptr \notin TASKS /\ a.proc_ptr \notin SERVERS
    BY SigNumbers
  <1> DEFINE q == a.rdy["SERVER_Q"]
             r == a.rdy["TASK_Q"]
  <1>3. /\ q \in Seq(Procs) /\ r \in Seq(Procs)
        /\ Members(q) = {p \in Procs : InUse(a, p) /\ Runnable(a, p) /\ QueueOf(p) = "SERVER_Q"}
        /\ Members(r) = {p \in Procs : InUse(a, p) /\ Runnable(a, p) /\ QueueOf(p) = "TASK_Q"}
    BY <1>1 DEF Typed, Queues, QueuesHoldRunnable
  <1>4. /\ r # << >> => Head(r) = a.proc_ptr /\ Head(r) \in Members(r)
        /\ r = << >> /\ q # << >> => Head(q) = a.proc_ptr /\ Head(q) \in Members(q)
    <2>1. /\ q # << >> => 1 \in DOMAIN q /\ Head(q) = q[1]
          /\ r # << >> => 1 \in DOMAIN r /\ Head(r) = r[1]
      BY <1>3, EmptySeq, LenProperties
    <2> QED
      BY <1>1, <2>1 DEF HighestRuns, Highest, Members
  <1> HIDE DEF q, r
  <1>5. \A p \in Procs : QueueOf(p) = "SERVER_Q" <=> p \in SERVERS
    BY SigNumbers DEF QueueOf, Procs
  <1>6. q = << >>
    BY <1>2, <1>3, <1>4, <1>5, NotProcs
  <1>7. Members(q) = {}
    BY <1>6 DEF Members
  <1> QED
    BY <1>3, <1>5, <1>7, SigNumbers DEF InUse

\* Who runs is free.
LEMMA RunsUnblocked ==
    ASSUME NEW a, NEW t, SigInOrder(a, t), a.proc_ptr \in Procs
    PROVE  LET p == a.proc_ptr IN
           /\ a.p_getfrom[p] = NONE /\ a.p_sendto[p] = NONE
           /\ First(a, p) /\ InUse(a, p) /\ a.p_flags[p] = {}
           /\ p = MM => ~FSNext(a)
  <1>1. Core(a) /\ HighestRuns(a) /\ a.proc_ptr # IDLE
    BY SigNumbers DEF SigInOrder
  <1>2. LET p == a.proc_ptr IN Runnable(a, p) /\ Free(a, p) /\ InUse(a, p) /\ First(a, p)
    BY <1>1, RunningProcess
  <1> QED
    BY <1>2, SigNumbers DEF Free, Runnable, First, FSNext

\* What FS waits for of the system task.
LEMMA FSWaitsForSystem ==
    ASSUME NEW a, NEW t, FSInOrder(a, t), a.p_getfrom[FS] = SYSTASK
    PROVE  \E u \in USERS : Kills(a, t, u)
  <1>1. SYSTASK # NONE /\ SYSTASK # ANY
    BY SigNumbers
  <1> QED
    BY <1>1 DEF FSInOrder, Answers

\* A request that the system task has received is one of those known.
LEMMA RequestKnown ==
    ASSUME NEW a, NEW t, SigInOrder(a, t), SystemAsked(a)
    PROVE  LET m == a.inbox[SYSTASK] IN
           /\ t[SYSTASK] = << >> /\ ServerAwaits(a, m.m_source, SYSTASK)
           /\ \/ \E u \in USERS : Kills(a, t, u) /\ m = Signed(Request("SYS_KILL", u), FS)
              \/ m.m_source = MM /\ Requested(a) = m /\ AtWork(a, m, t[MM])
           /\ m.m_type \notin {"none", "reply", "HARD_INT"}
  <1> DEFINE m == a.inbox[SYSTASK]
  <1>1. t[SYSTASK] = << >> /\ ServerAwaits(a, m.m_source, SYSTASK)
    BY SigNumbers DEF SigInOrder, TasksInOrder, TaskInOrder
  <1>2. CASE m.m_source = FS
    <2>1. PICK u \in USERS : Kills(a, t, u)
      BY <1>1, <1>2, FSWaitsForSystem DEF SigInOrder, ServerAwaits
    <2>2. m = Signed(Request("SYS_KILL", u), FS)
      BY <1>1, <2>1 DEF Kills
    <2>3. m.m_type = "SYS_KILL"
      BY <2>2, SignedFields
    <2> QED
      BY <1>1, <2>1, <2>2, <2>3
  <1>3. CASE m.m_source = MM
    <2>1. Requested(a) = m /\ AtWork(a, m, t[MM])
      BY <1>3 DEF Requested, SigInOrder, MMInOrder
    <2>2. m.m_type \notin {"none", "reply", "HARD_INT"}
      <3>1. m # NoMessage
        BY <1>3, SigNumbers, SignedFields
      <3>2. \/ \E u, c : m = Signed(ForkRequest(u, c), MM)
            \/ \E u \in USERS, type \in SignalRequests \cup {"SYS_NEWMAP", "SYS_EXEC", "T_RESUME"} :
                 Asks(m, type, u)
        BY <2>1, <3>1 DEF AtWork, Forking, ForkBegins, ForkEnds, Executing, Resuming, Signalling
      <3> QED
        BY <3>2, SignedFields DEF Asks, SignalRequests
    <2> QED
      BY <1>1, <1>3, <2>1, <2>2
  <1>4. m.m_source = FS \/ m.m_source = MM
    BY SigNumbers DEF SystemAsked
  <1> QED
    BY <1>2, <1>3, <1>4

\* The inbox of who runs is overwritten, when nothing in it waits to be done.
LEMMA OverwriteKeeps ==
    ASSUME NEW a, NEW t, SigInOrder(a, t), NEW p \in Procs, p = a.proc_ptr,
           p \in Active => t[p] # << >> \/ a.inbox[p].m_type \in {"none", "reply"}
    PROVE  LET b == [a EXCEPT !.inbox[p] = NoMessage] IN
           /\ SigInOrder(b, t) /\ b.proc_ptr = p /\ b.inbox[p] = NoMessage
  <1> DEFINE b == [a EXCEPT !.inbox[p] = NoMessage]
  <1>1. Core(a) /\ HighestRuns(a) /\ Typed(a)
    BY DEF SigInOrder, Core
  <1>2. /\ SameCore(a, b) /\ SameSignals(a, b) /\ b.p_messbuf = a.p_messbuf
        /\ b.proc_ptr = a.proc_ptr /\ b.rdy = a.rdy
        /\ b.p_getfrom = a.p_getfrom /\ b.p_sendto = a.p_sendto
        /\ b.inbox = [a.inbox EXCEPT ![p] = NoMessage]
    BY <1>1 DEF SameCore, SameWaits, SameDomains, SameSignals, Typed, Fields
  <1> HIDE DEF b
  <1>3. b.inbox[p] = NoMessage /\ \A q \in Procs \ {p} : b.inbox[q] = a.inbox[q]
    BY <1>1, <1>2 DEF Typed
  <1>4. Core(b) /\ HighestRuns(b)
    BY <1>1, <1>2, SameCoreKeeps
  <1>5. SendersInOrder(b)
    BY <1>2 DEF SigInOrder, SendersInOrder
  <1>6. a.p_getfrom[p] = NONE
    BY RunsUnblocked
  <1>7. p = SYSTASK => ~SystemAsked(a) /\ a.inbox[p] \in {NoMessage, HardInt}
    <2>1. p = SYSTASK => ~SystemAsked(a)
      BY RequestKnown, SigNumbers
    <2> QED
      BY <2>1, SigNumbers DEF SigInOrder, TasksInOrder, TaskInOrder
  <1>8. /\ Requested(b) = Requested(a) /\ (SystemAsked(b) <=> SystemAsked(a))
        /\ SystemAsked(a) => b.inbox[SYSTASK] = a.inbox[SYSTASK]
        /\ b.inbox[SYSTASK].m_source = MM <=> a.inbox[SYSTASK].m_source = MM
        /\ \A u \in USERS : Ends(b.inbox[SYSTASK], u) <=> Ends(a.inbox[SYSTASK], u)
    <2>1. CASE p = SYSTASK
      <3>1. b.inbox[SYSTASK] = NoMessage /\ a.inbox[SYSTASK] \in {NoMessage, HardInt}
        BY <1>3, <1>7, <2>1
      <3>2. a.inbox[SYSTASK].m_source \notin SERVERS /\ b.inbox[SYSTASK].m_source \notin SERVERS
        BY <3>1, SignedFields, SigNumbers
      <3> QED
        BY <3>1, <3>2, SignedFields, SigNumbers DEF Requested, SystemAsked
    <2>2. CASE p # SYSTASK
      <3>1. b.inbox[SYSTASK] = a.inbox[SYSTASK]
        BY <1>3, <2>2, SigNumbers
      <3> QED
        BY <3>1 DEF Requested, SystemAsked
    <2> QED
      BY <2>1, <2>2
  <1>9. TasksInOrder(b, t)
    <2> SUFFICES ASSUME NEW x \in TASKS PROVE TaskInOrder(b, t, x)
      BY DEF TasksInOrder
    <2>1. TaskInOrder(a, t, x) /\ x \in Procs
      BY SigNumbers DEF SigInOrder, TasksInOrder
    <2>2. \A s : ServerAwaits(b, s, SYSTASK) <=> ServerAwaits(a, s, SYSTASK)
      BY <1>2 DEF ServerAwaits
    <2>3. CASE x = p
      BY <1>2, <1>3, <1>6, <1>7, <1>8, <2>1, <2>2, <2>3, SigNumbers DEF TaskInOrder
    <2>4. CASE x # p
      BY <1>2, <1>3, <1>8, <2>1, <2>2, <2>4, SigNumbers DEF TaskInOrder
    <2> QED
      BY <2>3, <2>4
  <1>10. FSInOrder(b, t)
    <2>1. /\ FSInOrder(a, t) /\ FS \in Procs /\ \A u, s : AwaitsAnswer(b, u, s) <=> AwaitsAnswer(a, u, s)
          /\ \A s, q : ServerAwaits(b, s, q) <=> ServerAwaits(a, s, q)
          /\ FSNext(a) => FSNext(b)
      BY <1>2, <1>8, SigNumbers
         DEF SigInOrder, AwaitsAnswer, ServerAwaits, FSNext, SameSignals
    <2>2. CASE p # FS
      <3>1. a.p_getfrom[FS] = SYSTASK => b.inbox[SYSTASK] = a.inbox[SYSTASK] \/ t[SYSTASK] = <<Reply(FS)>>
        <4>1. a.p_getfrom[FS] = SYSTASK =>
                \/ \E u \in USERS : a.inbox[SYSTASK] = Signed(Request("SYS_KILL", u), FS)
                \/ t[SYSTASK] = <<Reply(FS)>>
          BY <2>1, FSWaitsForSystem DEF Kills
        <4> QED
          BY <1>8, <4>1, SignedFields, SigNumbers DEF SystemAsked
      <3>2. b.inbox[FS] = a.inbox[FS] /\ b.p_getfrom[FS] = a.p_getfrom[FS] /\ b.in_use = a.in_use
        BY <1>2, <1>3, <2>1, <2>2 DEF SameSignals
      <3>3. \A u \in USERS : /\ Writes(a, t, u) => Writes(b, t, u)
                             /\ Kills(a, t, u) => Kills(b, t, u)
                             /\ Answers(a, t, u) => Answers(b, t, u)
        BY <2>1, <3>1, <3>2 DEF Writes, Kills, Answers
      <3> QED
        BY <2>1, <3>2, <3>3 DEF FSInOrder
    <2>3. CASE p = FS
      <3>1. /\ b.inbox[FS] = NoMessage /\ b.inbox[FS].m_type = "none"
            /\ b.p_getfrom[FS] = NONE /\ a.p_getfrom[FS] = NONE /\ NONE # SYSTASK /\ NONE # ANY
            /\ b.in_use = a.in_use
            /\ t[FS] = << >> => a.inbox[FS].m_type \in {"none", "reply"}
        BY <1>2, <1>3, <1>6, <2>3, SigNumbers, SignedFields DEF SameSignals
      <3>2. CASE t[FS] = << >>
        BY <3>1, <3>2 DEF FSInOrder
      <3>3. CASE t[FS] # << >>
        <4>1. \/ t[FS] = <<Reply(MM)>> /\ ServerAwaits(a, MM, FS)
              \/ \E u \in USERS : \/ /\ t[FS] = <<System("SYS_KILL", u), Reply(u)>>
                                     /\ AwaitsAnswer(a, u, FS) /\ FSNext(a)
                                  \/ Answers(a, t, u)
          BY <2>1, <3>1, <3>3 DEF FSInOrder, Writes, Kills
        <4>2. CASE t[FS] = <<Reply(MM)>> /\ ServerAwaits(a, MM, FS)
          BY <2>1, <3>1, <4>2 DEF FSInOrder
        <4>3. ASSUME NEW u \in USERS, t[FS] = <<System("SYS_KILL", u), Reply(u)>>,
                     AwaitsAnswer(a, u, FS), FSNext(a)
              PROVE  FSInOrder(b, t)
          BY <2>1, <3>1, <4>3 DEF FSInOrder, Writes
        <4>4. ASSUME NEW u \in USERS, Answers(a, t, u) PROVE FSInOrder(b, t)
          <5>1. Answers(b, t, u)
            BY <2>1, <3>1, <4>4 DEF Answers
          <5> QED
            BY <5>1 DEF FSInOrder
        <4> QED
          BY <4>1, <4>2, <4>3, <4>4
      <3> QED
        BY <3>2, <3>3
    <2> QED
      BY <2>2, <2>3
  <1>11. p = MM => a.inbox[MM].m_type \in {"none", "reply"}
    BY SigNumbers DEF SigInOrder, MMInOrder
  <1>12. MMInOrder(b, t)
    <2>1. /\ MMInOrder(a, t) /\ \A u, s : AwaitsAnswer(b, u, s) <=> AwaitsAnswer(a, u, s)
          /\ \A u : StoppedIn(b, u) <=> StoppedIn(a, u)
          /\ b.in_use = a.in_use /\ MM \in Procs
      BY <1>2, SigNumbers DEF SigInOrder, AwaitsAnswer, StoppedIn, SameSignals
    <2>2. AtWork(b, Requested(b), t[MM])
      BY <1>8, <2>1, AtWorkKept DEF MMInOrder
    <2>3. CASE p # MM
      BY <1>2, <1>3, <1>8, <2>1, <2>3, MMKept
    <2>4. CASE p = MM
      BY <1>2, <1>3, <1>6, <2>1, <2>2, <2>4, SignedFields DEF MMInOrder
    <2> QED
      BY <2>3, <2>4
  <1>13. Counts(b, t)
    <2>1. \A u \in USERS : EndsGot(b.inbox[MM], u) = EndsGot(a.inbox[MM], u)
      <3>1. CASE p = MM
        BY <1>3, <1>11, <3>1, SignedFields DEF EndsGot
      <3>2. CASE p # MM
        BY <1>3, <3>2, SigNumbers
      <3> QED
        BY <3>1, <3>2
    <2>2. \A u \in USERS : EndsLeft(b, t, u) = EndsLeft(a, t, u)
      BY <1>2, <1>8, <2>1 DEF EndsLeft
    <2>3. a.in_use \subseteq USERS
      BY <1>1 DEF Typed
    <2> QED
      BY <1>2, <2>2, <2>3, CountsKept DEF SigInOrder
  <1>14. DOMAIN t = Active
    BY DEF SigInOrder
  <1>15. SigInOrder(b, t)
    BY <1>4, <1>5, <1>9, <1>10, <1>12, <1>13, <1>14 DEF SigInOrder
  <1> QED
    BY <1>2, <1>3, <1>15 DEF b

-----------------------------------------------------------------------------
(* The tasks wait, are interrupted and answer.                               *)

\* Of what is waited for and received only that of one task differs, and that is
\* no request.
LEMMA TaskChanged ==
    ASSUME NEW a, NEW t, SigInOrder(a, t), NEW b, Core(b), HighestRuns(b), HeadKept(a, b),
           SameSignals(a, b), b.p_sendto = a.p_sendto, b.p_messbuf = a.p_messbuf,
           NEW x \in TASKS,
           \A y \in Procs \ {x} : b.p_getfrom[y] = a.p_getfrom[y] /\ b.inbox[y] = a.inbox[y],
           x = SYSTASK => t[x] = << >> /\ ~SystemAsked(a),
           b.inbox[x] \in {NoMessage, HardInt}, b.p_getfrom[x] \in {NONE, ANY},
           b.p_getfrom[x] = ANY => b.inbox[x] = NoMessage /\ t[x] = << >>
    PROVE  SigInOrder(b, t)
  <1>1. /\ SendersInOrder(a) /\ TasksInOrder(a, t) /\ FSInOrder(a, t) /\ MMInOrder(a, t)
        /\ Counts(a, t) /\ DOMAIN t = Active /\ Typed(a)
    BY DEF SigInOrder, Core
  <1>2. /\ b.in_use = a.in_use /\ b.p_flags = a.p_flags
        /\ \A y \in USERS \cup SERVERS : b.p_getfrom[y] = a.p_getfrom[y] /\ b.inbox[y] = a.inbox[y]
    BY SigNumbers DEF SameSignals
  <1>3. /\ \A u \in USERS : \A s : AwaitsAnswer(b, u, s) <=> AwaitsAnswer(a, u, s)
        /\ \A s \in SERVERS : \A q : ServerAwaits(b, s, q) <=> ServerAwaits(a, s, q)
        /\ \A u : StoppedIn(b, u) <=> StoppedIn(a, u)
    BY <1>2 DEF AwaitsAnswer, ServerAwaits, StoppedIn
  <1>4. x = SYSTASK => /\ a.inbox[x] \in {NoMessage, HardInt}
                       /\ a.inbox[x].m_source \notin SERVERS /\ b.inbox[x].m_source \notin SERVERS
                       /\ \A u : ~Ends(a.inbox[x], u) /\ ~Ends(b.inbox[x], u)
    <2>1. x = SYSTASK => a.inbox[x] \in {NoMessage, HardInt}
      BY <1>1 DEF TasksInOrder, TaskInOrder
    <2> QED
      BY <2>1, SignedFields, SigNumbers
  <1>5. /\ Requested(b) = Requested(a)
        /\ b.inbox[SYSTASK].m_source = MM <=> a.inbox[SYSTASK].m_source = MM
        /\ SystemAsked(b) <=> SystemAsked(a)
        /\ \A u \in USERS : Ends(b.inbox[SYSTASK], u) <=> Ends(a.inbox[SYSTASK], u)
    <2>1. CASE x = SYSTASK
      BY <1>4, <2>1, SigNumbers DEF Requested, SystemAsked
    <2>2. CASE x # SYSTASK
      <3>1. b.inbox[SYSTASK] = a.inbox[SYSTASK]
        BY <2>2, SigNumbers
      <3> QED
        BY <3>1 DEF Requested, SystemAsked
    <2> QED
      BY <2>1, <2>2
  <1>6. SendersInOrder(b)
    BY <1>1, <1>2, SigNumbers DEF SendersInOrder
  <1>7. TasksInOrder(b, t)
    <2> SUFFICES ASSUME NEW y \in TASKS PROVE TaskInOrder(b, t, y)
      BY DEF TasksInOrder
    <2>1. TaskInOrder(a, t, y)
      BY <1>1 DEF TasksInOrder
    <2>2. CASE y = x
      <3>1. t[x] # << >> => /\ x = SYSTASK
                            /\ \E s \in SERVERS : t[x] = <<Reply(s)>> /\ ServerAwaits(b, s, SYSTASK)
        BY <1>3, <2>1, <2>2 DEF TaskInOrder
      <3>2. ~(x = SYSTASK /\ SystemAsked(b))
        BY <1>5
      <3> QED
        BY <2>2, <3>1, <3>2 DEF TaskInOrder
    <2>3. CASE y # x
      <3>1. b.p_getfrom[y] = a.p_getfrom[y] /\ b.inbox[y] = a.inbox[y]
        BY <2>3, SigNumbers
      <3>2. y = SYSTASK /\ SystemAsked(b) => a.inbox[y].m_source \in SERVERS
        BY <1>5 DEF SystemAsked
      <3> QED
        BY <1>3, <1>5, <2>1, <3>1, <3>2 DEF TaskInOrder
    <2> QED
      BY <2>2, <2>3
  <1>8. FSInOrder(b, t)
    <2>1. FSNext(a) => FSNext(b)
      BY <1>5 DEF FSNext, HeadKept
    <2>2. a.p_getfrom[FS] = SYSTASK => x # SYSTASK
      <3> SUFFICES ASSUME a.p_getfrom[FS] = SYSTASK, x = SYSTASK PROVE FALSE
        OBVIOUS
      <3>1. PICK u \in USERS : Kills(a, t, u)
        BY <1>1, FSWaitsForSystem
      <3>2. t[SYSTASK] # <<Reply(FS)>>
        <4>1. t[SYSTASK] = << >>
          OBVIOUS
        <4>2. <<Reply(FS)>> # << >>
          OBVIOUS
        <4> QED
          BY <4>1, <4>2
      <3>3. a.inbox[SYSTASK] = Signed(Request("SYS_KILL", u), FS)
        BY <3>1, <3>2 DEF Kills
      <3> QED
        BY <1>4, <3>3, SignedFields, SigNumbers
    <2>3. a.p_getfrom[FS] = SYSTASK => b.inbox[SYSTASK] = a.inbox[SYSTASK] /\ t[SYSTASK] = t[SYSTASK]
      BY <2>2, SigNumbers
    <2> QED
      BY <1>1, <1>2, <1>3, <2>1, <2>3, SigNumbers, FSKept
  <1>9. MMInOrder(b, t)
    BY <1>1, <1>2, <1>3, <1>5, SigNumbers, MMKept
  <1>10. Counts(b, t)
    <2>1. \A u \in USERS : EndsLeft(b, t, u) = EndsLeft(a, t, u)
      BY <1>2, <1>5, SigNumbers DEF EndsLeft
    <2>2. b.p_getfrom[MM] = ANY => a.p_getfrom[MM] = ANY \/ a.sig_procs = 0
      BY <1>2, SigNumbers
    <2>3. a.in_use \subseteq USERS
      BY <1>1 DEF Typed
    <2> QED
      BY <1>1, <2>1, <2>2, <2>3, CountsKept
  <1> QED
    BY <1>1, <1>6, <1>7, <1>8, <1>9, <1>10 DEF SigInOrder

\* A task waits for work, or finds that an interrupt has come.
LEMMA TaskReceives ==
    ASSUME NEW a, NEW t, SigInOrder(a, t), NEW x \in TASKS, x = a.proc_ptr,
           t[x] = << >>, a.inbox[x] = NoMessage, NEW m
    PROVE  SigInOrder(sys_call(a, "RECEIVE", ANY, m).k, t)
  <1> DEFINE b == sys_call(a, "RECEIVE", ANY, m).k
  <1>1. /\ Core(a) /\ HighestRuns(a) /\ Typed(a) /\ x \in Procs /\ x \notin USERS /\ x # IDLE
        /\ ~ToBeTold(a, x, ANY) /\ a.p_sendto[x] = NONE /\ a.p_getfrom[x] = NONE
    BY SigNumbers, RunsUnblocked DEF SigInOrder, ToBeTold, Core
  <1>2. Core(b) /\ HighestRuns(b) /\ Called(a, b, "RECEIVE", ANY, m)
    BY <1>1, CallCore
  <1>3. b = mini_rec(a, x, ANY)
    BY <1>1 DEF sys_call
  <1> HIDE DEF b
  <1>4. HeadKept(a, b)
    BY <1>1, <1>3, ReceiveHead
  <1>5. Received(a, b, x, ANY)
    BY <1>1, <1>2 DEF Called
  <1>6. \A s \in Procs : a.p_sendto[s] # x
    <2>1. SendersInOrder(a)
      BY DEF SigInOrder
    <2>2. \A s \in USERS : a.p_sendto[s] \in {NONE, MM, FS}
      BY <2>1 DEF SendersInOrder
    <2>3. \A s \in TASKS \cup SERVERS : a.p_sendto[s] \in {NONE, MM, FS}
      BY <2>1, SigNumbers DEF SendersInOrder
    <2>4. x \notin {NONE, MM, FS}
      BY SigNumbers
    <2> QED
      BY <2>2, <2>3, <2>4 DEF Procs
  <1>7. TookInterrupt(a, b, x) \/ WaitsFor(a, b, x, ANY)
    BY <1>5, <1>6 DEF Received
  <1>8. /\ SameSignals(a, b) /\ b.p_sendto = a.p_sendto /\ b.p_messbuf = a.p_messbuf
        /\ \A y \in Procs \ {x} : b.p_getfrom[y] = a.p_getfrom[y] /\ b.inbox[y] = a.inbox[y]
        /\ b.inbox[x] \in {NoMessage, HardInt} /\ b.p_getfrom[x] \in {NONE, ANY}
        /\ b.p_getfrom[x] = ANY => b.inbox[x] = NoMessage
    BY <1>1, <1>7, SigNumbers DEF TookInterrupt, WaitsFor, Typed, HardInt
  <1>9. ~SystemAsked(a) \/ x # SYSTASK
    BY SignedFields, SigNumbers DEF SystemAsked
  <1>10. SigInOrder(b, t)
    BY <1>2, <1>4, <1>8, <1>9, TaskChanged
  <1> QED
    BY <1>10 DEF b

\* An interrupt leaves the queue of servers alone.
LEMMA InterruptHead ==
    ASSUME NEW a, Core(a), NEW x \in TASKS
    PROVE  HeadKept(a, interrupt(a, x))
  <1>1. /\ Fields \subseteq DOMAIN a /\ DOMAIN a.rdy = Queues /\ QueueOf(x) = "TASK_Q"
    BY DEF Core, Typed, QueueOf
  <1>2. interrupt(a, x).rdy["SERVER_Q"] = a.rdy["SERVER_Q"]
    BY <1>1 DEF interrupt, ready, Fields
  <1> QED
    BY <1>2 DEF HeadKept

\* An interrupt of the clock between two steps.
LEMMA ClockInterruptKeeps ==
    ASSUME NEW a, NEW t, SigInOrder(a, t)
    PROVE  SigInOrder(interrupt(a, CLOCK), t)
  <1> DEFINE b == interrupt(a, CLOCK)
  <1>1. /\ Core(a) /\ HighestRuns(a) /\ Typed(a) /\ CLOCK \in TASKS /\ CLOCK \in Procs
        /\ TaskInOrder(a, t, CLOCK) /\ CLOCK # SYSTASK
    BY SigNumbers DEF SigInOrder, TasksInOrder, Core
  <1>2. Core(b) /\ HighestRuns(b) /\ Interrupted(a, b, CLOCK) /\ HeadKept(a, b)
    BY <1>1, InterruptCore, InterruptHead
  <1> HIDE DEF b
  <1>3. /\ SameSignals(a, b) /\ b.p_sendto = a.p_sendto /\ b.p_messbuf = a.p_messbuf
        /\ \A y \in Procs \ {CLOCK} : b.p_getfrom[y] = a.p_getfrom[y] /\ b.inbox[y] = a.inbox[y]
        /\ \/ b.p_getfrom[CLOCK] = a.p_getfrom[CLOCK] /\ b.inbox[CLOCK] = a.inbox[CLOCK]
           \/ b.p_getfrom[CLOCK] = NONE /\ b.inbox[CLOCK] = HardInt
    BY <1>1, <1>2 DEF Interrupted, Delivered, Typed, HardInt
  <1>4. /\ b.inbox[CLOCK] \in {NoMessage, HardInt} /\ b.p_getfrom[CLOCK] \in {NONE, ANY}
        /\ b.p_getfrom[CLOCK] = ANY => b.inbox[CLOCK] = NoMessage /\ t[CLOCK] = << >>
    BY <1>1, <1>3, SigNumbers DEF TaskInOrder
  <1>5. SigInOrder(b, t)
    BY <1>1, <1>2, <1>3, <1>4, TaskChanged
  <1> QED
    BY <1>5 DEF b

\* The system task answers the server that asked it.
LEMMA SystemAnswers ==
    ASSUME NEW a, NEW t, SigInOrder(a, t), SYSTASK = a.proc_ptr, a.inbox[SYSTASK] = NoMessage,
           NEW s \in SERVERS, t[SYSTASK] = <<Reply(s)>>, ServerAwaits(a, s, SYSTASK),
           NEW m, m.m_type = "reply"
    PROVE  SigInOrder(sys_call(a, "SEND", s, m).k, [t EXCEPT ![SYSTASK] = << >>])
  <1> DEFINE b == sys_call(a, "SEND", s, m).k
             r == [t EXCEPT ![SYSTASK] = << >>]
  <1>1. /\ SendersInOrder(a) /\ TasksInOrder(a, t) /\ FSInOrder(a, t) /\ MMInOrder(a, t)
        /\ Counts(a, t) /\ DOMAIN t = Active /\ Typed(a) /\ Core(a) /\ HighestRuns(a)
        /\ SYSTASK \in Procs \ USERS /\ s \in Procs /\ s # SYSTASK /\ InUse(a, s)
        /\ a.p_getfrom[SYSTASK] = NONE
    BY SigNumbers, RunsUnblocked DEF SigInOrder, Core, InUse
  <1>2. Core(b) /\ HighestRuns(b) /\ Delivered(a, b, s, m) /\ HeadKept(a, b)
    BY <1>1, AnswerCore DEF ServerAwaits
  <1> HIDE DEF b
  <1>3. /\ SameSignals(a, b) /\ b.p_sendto = a.p_sendto /\ b.p_messbuf = a.p_messbuf
        /\ b.in_use = a.in_use /\ b.p_flags = a.p_flags
        /\ \A y \in Procs \ {s} : b.p_getfrom[y] = a.p_getfrom[y] /\ b.inbox[y] = a.inbox[y]
        /\ b.p_getfrom[s] = NONE /\ b.inbox[s] = m
        /\ b.inbox[SYSTASK] = NoMessage
    BY <1>1, <1>2 DEF Delivered, Typed, SameSignals
  <1>4. /\ r[SYSTASK] = << >> /\ \A x \in Active \ {SYSTASK} : r[x] = t[x]
        /\ DOMAIN r = Active
    BY <1>1, SigNumbers
  <1> HIDE DEF r
  <1>5. \A u \in USERS : \A q : AwaitsAnswer(b, u, q) <=> AwaitsAnswer(a, u, q)
    BY <1>3, SigNumbers DEF AwaitsAnswer
  <1>6. ~SystemAsked(b) /\ Requested(b) = Requested(a)
    BY <1>3, SignedFields, SigNumbers DEF SystemAsked, Requested
  <1>7. SendersInOrder(b)
    <2>1. a.p_sendto[MM] = FS => MM # s
      BY SigNumbers DEF ServerAwaits
    <2>2. \A u \in USERS : b.p_getfrom[u] = a.p_getfrom[u]
      BY <1>3, SigNumbers
    <2>3. a.p_sendto[MM] = FS => b.p_getfrom[MM] = a.p_getfrom[MM]
      BY <1>3, <2>1, SigNumbers
    <2> QED
      BY <1>1, <1>3, <2>2, <2>3 DEF SendersInOrder
  <1>8. TasksInOrder(b, r)
    <2> SUFFICES ASSUME NEW x \in TASKS PROVE TaskInOrder(b, r, x)
      BY DEF TasksInOrder
    <2>1. TaskInOrder(a, t, x) /\ x \in Procs \ {s} /\ x \in Active
      BY <1>1, SigNumbers DEF TasksInOrder
    <2>2. CASE x = SYSTASK
      BY <1>1, <1>3, <1>4, <1>6, <2>2, SigNumbers DEF TaskInOrder
    <2>3. CASE x # SYSTASK
      BY <1>3, <1>4, <2>1, <2>3 DEF TaskInOrder
    <2> QED
      BY <2>2, <2>3
  <1>9. FSInOrder(b, r)
    <2>1. FSNext(a) => FSNext(b)
      BY <1>2, <1>3, SignedFields, SigNumbers DEF FSNext, HeadKept
    <2>2. CASE s = FS
      <3>1. PICK u \in USERS : Kills(a, t, u)
        BY <1>1, <2>2, FSWaitsForSystem DEF ServerAwaits
      <3>2. Answers(b, r, u)
        BY <1>3, <1>4, <1>5, <2>2, <3>1, SigNumbers DEF Answers, Kills
      <3> QED
        BY <3>2 DEF FSInOrder
    <2>3. CASE s # FS
      <3>1. a.p_getfrom[FS] # SYSTASK
        <4> SUFFICES ASSUME a.p_getfrom[FS] = SYSTASK PROVE FALSE
          OBVIOUS
        <4>1. PICK u \in USERS : Kills(a, t, u)
          BY <1>1, FSWaitsForSystem
        <4>2. a.inbox[SYSTASK].m_source # FS
          BY SignedFields, SigNumbers
        <4>3. t[SYSTASK] = <<Reply(FS)>>
          BY <4>1, <4>2, SignedFields DEF Kills
        <4>4. Reply(FS).dest = FS /\ Reply(s).dest = s
          BY DEF Reply
        <4> QED
          BY <2>3, <4>3, <4>4
      <3>2. ServerAwaits(a, MM, FS) => ServerAwaits(b, MM, FS)
        BY <1>3, <2>3, SigNumbers DEF ServerAwaits
      <3> QED
        BY <1>1, <1>3, <1>4, <1>5, <2>1, <2>3, <3>1, <3>2, SigNumbers, FSKept
    <2> QED
      BY <2>2, <2>3
  <1>10. MMInOrder(b, r)
    <2>1. \A u : StoppedIn(b, u) <=> StoppedIn(a, u)
      BY <1>3 DEF StoppedIn
    <2>2. AtWork(b, Requested(b), r[MM])
      <3>1. r[MM] = t[MM] /\ Requested(b) = Requested(a)
        BY <1>4, <1>6, SigNumbers
      <3> QED
        BY <1>1, <1>3, <1>5, <2>1, <3>1, AtWorkKept DEF MMInOrder
    <2>3. CASE s = MM
      BY <1>3, <1>4, <2>2, <2>3, SigNumbers DEF MMInOrder
    <2>4. CASE s # MM
      BY <1>1, <1>3, <1>4, <1>5, <1>6, <2>1, <2>4, SigNumbers, MMKept
    <2> QED
      BY <2>3, <2>4
  <1>11. Counts(b, r)
    <2>1. \A u \in USERS : EndsGot(b.inbox[MM], u) = EndsGot(a.inbox[MM], u)
      <3>1. CASE s = MM
        <4>1. a.inbox[MM] = NoMessage
          BY <1>1, <3>1, SigNumbers DEF MMInOrder, ServerAwaits
        <4> QED
          BY <1>3, <3>1, <4>1, SignedFields DEF EndsGot
      <3>2. CASE s # MM
        BY <1>3, <3>2, SigNumbers
      <3> QED
        BY <3>1, <3>2
    <2>2. \A u \in USERS : EndsLeft(b, r, u) = EndsLeft(a, t, u)
      BY <1>3, <1>4, <2>1, SigNumbers DEF EndsLeft
    <2>3. a.in_use \subseteq USERS /\ (b.p_getfrom[MM] = ANY => a.p_getfrom[MM] = ANY)
      BY <1>1, <1>3, SigNumbers DEF Typed
    <2> QED
      BY <1>1, <1>3, <2>2, <2>3, CountsKept
  <1>12. SigInOrder(b, r)
    BY <1>2, <1>4, <1>7, <1>8, <1>9, <1>10, <1>11 DEF SigInOrder
  <1> QED
    BY <1>12 DEF b, r

-----------------------------------------------------------------------------
(* What FS does.                                                             *)

\* FS and MM wait for no task while they run.
LEMMA ServersAtWork ==
    ASSUME NEW a, NEW t, SigInOrder(a, t), a.proc_ptr \in SERVERS
    PROVE  /\ a.p_getfrom[SYSTASK] = ANY /\ a.p_sendto[SYSTASK] = NONE
           /\ a.inbox[SYSTASK] = NoMessage /\ t[SYSTASK] = << >>
           /\ ~SystemAsked(a) /\ Requested(a) = NoMessage
           /\ a.p_getfrom[FS] # SYSTASK
  <1>1. /\ a.p_getfrom[SYSTASK] = ANY /\ a.p_sendto[SYSTASK] = NONE
        /\ a.inbox[SYSTASK] = NoMessage /\ t[SYSTASK] = << >>
    BY TasksIdle, SigNumbers
  <1>2. ~SystemAsked(a) /\ Requested(a) = NoMessage
    BY <1>1, SignedFields, SigNumbers DEF SystemAsked, Requested
  <1>3. a.p_getfrom[FS] # SYSTASK
    <2> SUFFICES ASSUME a.p_getfrom[FS] = SYSTASK PROVE FALSE
      OBVIOUS
    <2>1. PICK u \in USERS : Kills(a, t, u)
      BY FSWaitsForSystem DEF SigInOrder
    <2>2. <<Reply(FS)>> # << >>
      OBVIOUS
    <2>3. a.inbox[SYSTASK] # Signed(Request("SYS_KILL", u), FS)
      BY <1>1, SignedFields, SigNumbers
    <2> QED
      BY <1>1, <2>1, <2>2, <2>3 DEF Kills
  <1> QED
    BY <1>1, <1>2, <1>3

\* Only the calls of FS differ.
LEMMA OtherCallsKept ==
    ASSUME NEW a, NEW t, SigInOrder(a, t), NEW r,
           \A x \in Active \ {FS} : r[x] = t[x]
    PROVE  TasksInOrder(a, r) /\ MMInOrder(a, r) /\ Counts(a, r)
  <1>1. TasksInOrder(a, t) /\ MMInOrder(a, t) /\ Counts(a, t)
    BY DEF SigInOrder
  <1>2. (\A x \in TASKS : r[x] = t[x]) /\ r[MM] = t[MM]
    BY SigNumbers
  <1>3. TasksInOrder(a, r)
    BY <1>1, <1>2 DEF TasksInOrder, TaskInOrder
  <1>4. MMInOrder(a, r)
    BY <1>1, <1>2 DEF MMInOrder
  <1>5. \A v : EndsLeft(a, r, v) = EndsLeft(a, t, v)
    BY <1>2 DEF EndsLeft
  <1>6. Counts(a, r)
    BY <1>1, <1>5 DEF Counts
  <1> QED
    BY <1>3, <1>4, <1>6

\* FS asks the system task to signal u.
LEMMA FSKills ==
    ASSUME NEW a, NEW t, SigInOrder(a, t), FS = a.proc_ptr, a.inbox[FS] = NoMessage,
           NEW u \in USERS, t[FS] = <<System("SYS_KILL", u), Reply(u)>>
    PROVE  SigInOrder(sys_call(a, "BOTH", SYSTASK, Signed(Request("SYS_KILL", u), FS)).k,
                      [t EXCEPT ![FS] = <<Reply(u)>>])
  <1> DEFINE m == Signed(Request("SYS_KILL", u), FS)
             b == sys_call(a, "BOTH", SYSTASK, m).k
             r == [t EXCEPT ![FS] = <<Reply(u)>>]
  <1>1. /\ SendersInOrder(a) /\ TasksInOrder(a, t) /\ FSInOrder(a, t) /\ MMInOrder(a, t)
        /\ Counts(a, t) /\ DOMAIN t = Active /\ Typed(a) /\ Core(a) /\ HighestRuns(a)
        /\ SYSTASK \in Procs \ USERS /\ FS \in Procs \ USERS /\ FS # SYSTASK
        /\ a.p_getfrom[FS] = NONE
    BY SigNumbers, RunsUnblocked DEF SigInOrder, Core
  <1>2. /\ a.p_getfrom[SYSTASK] = ANY /\ a.p_sendto[SYSTASK] = NONE
        /\ a.inbox[SYSTASK] = NoMessage /\ t[SYSTASK] = << >> /\ Requested(a) = NoMessage
    BY ServersAtWork, SigNumbers
  <1>3. m.m_source = FS /\ m.m_type = "SYS_KILL" /\ \A v : ~Ends(m, v)
    BY SignedFields DEF Ends
  <1> HIDE DEF m
  <1>4. Core(b) /\ HighestRuns(b) /\ HasAsked(a, b, FS, SYSTASK, m)
    BY <1>1, <1>2, AskCore, MayAsk
  <1> HIDE DEF b
  <1>5. /\ SameSignals(a, b) /\ b.p_sendto = a.p_sendto /\ b.p_messbuf = a.p_messbuf
        /\ b.in_use = a.in_use /\ b.p_flags = a.p_flags
        /\ \A y \in Procs \ {FS, SYSTASK} :
             b.p_getfrom[y] = a.p_getfrom[y] /\ b.inbox[y] = a.inbox[y]
        /\ b.p_getfrom[FS] = SYSTASK /\ b.inbox[FS] = NoMessage
        /\ b.p_getfrom[SYSTASK] = NONE /\ b.inbox[SYSTASK] = m
    BY <1>1, <1>2, <1>4 DEF HasAsked, Awaits, Typed, SameSignals
  <1>6. r[FS] = <<Reply(u)>> /\ (\A x \in Active \ {FS} : r[x] = t[x]) /\ DOMAIN r = Active
    BY <1>1, SigNumbers
  <1> HIDE DEF r
  <1>7. \A v \in USERS : \A q : AwaitsAnswer(b, v, q) <=> AwaitsAnswer(a, v, q)
    BY <1>5, SigNumbers DEF AwaitsAnswer
  <1>8. AwaitsAnswer(a, u, FS)
    <2>1. t[FS] # << >> /\ Len(t[FS]) = 2 /\ \A c : Len(<<c>>) = 1
      OBVIOUS
    <2>2. \A c : t[FS] # <<c>>
      BY <2>1
    <2>3. PICK v \in USERS : Writes(a, t, v) /\ AwaitsAnswer(a, v, FS)
      BY <1>1, <2>1, <2>2 DEF FSInOrder, Kills, Answers
    <2>4. t[FS] = <<System("SYS_KILL", v), Reply(v)>>
      BY <2>1, <2>3 DEF Writes
    <2>5. Reply(v) = Reply(u)
      BY <2>4
    <2>6. v = u
      BY <2>5 DEF Reply
    <2> QED
      BY <2>3, <2>6
  <1>9. SendersInOrder(b)
    BY <1>1, <1>5, SigNumbers DEF SendersInOrder
  <1>10. TasksInOrder(b, r)
    <2> SUFFICES ASSUME NEW x \in TASKS PROVE TaskInOrder(b, r, x)
      BY DEF TasksInOrder
    <2>1. TaskInOrder(a, t, x) /\ x \in Procs \ {FS} /\ r[x] = t[x]
      BY <1>1, <1>6, SigNumbers DEF TasksInOrder
    <2>2. CASE x = SYSTASK
      <3>1. b.p_getfrom[x] = NONE /\ r[x] = << >> /\ b.inbox[x].m_source = FS /\ NONE # ANY
        BY <1>2, <1>3, <1>5, <2>1, <2>2, SigNumbers
      <3>2. ServerAwaits(b, FS, SYSTASK) /\ SystemAsked(b)
        BY <1>1, <1>3, <1>5, SigNumbers DEF ServerAwaits, SystemAsked, SendersInOrder
      <3> QED
        BY <2>2, <3>1, <3>2 DEF TaskInOrder
    <2>3. CASE x # SYSTASK
      BY <1>5, <2>1, <2>3 DEF TaskInOrder
    <2> QED
      BY <2>2, <2>3
  <1>11. FSInOrder(b, r)
    <2>1. Kills(b, r, u)
      BY <1>5, <1>6, <1>7, <1>8 DEF Kills, m
    <2> QED
      BY <2>1 DEF FSInOrder
  <1>12. MMInOrder(b, r)
    <2>1. Requested(b) = NoMessage
      BY <1>3, <1>5, SigNumbers DEF Requested
    <2>2. \A v : StoppedIn(b, v) <=> StoppedIn(a, v)
      BY <1>5 DEF StoppedIn
    <2> QED
      BY <1>1, <1>2, <1>5, <1>6, <1>7, <2>1, <2>2, SigNumbers, MMKept
  <1>13. Counts(b, r)
    <2>1. \A v : ~Ends(b.inbox[SYSTASK], v) /\ ~Ends(a.inbox[SYSTASK], v)
      BY <1>2, <1>3, <1>5, SignedFields
    <2>2. \A v \in USERS : EndsLeft(b, r, v) = EndsLeft(a, t, v)
      BY <1>5, <1>6, <2>1, SigNumbers DEF EndsLeft
    <2>3. a.in_use \subseteq USERS /\ (b.p_getfrom[MM] = ANY => a.p_getfrom[MM] = ANY)
      BY <1>1, <1>5, SigNumbers DEF Typed
    <2> QED
      BY <1>1, <1>5, <2>2, <2>3, CountsKept
  <1>14. SigInOrder(b, r)
    BY <1>4, <1>6, <1>9, <1>10, <1>11, <1>12, <1>13 DEF SigInOrder
  <1> QED
    BY <1>14 DEF b, r, m

\* FS answers u, unless it has been killed.
LEMMA FSAnswersUser ==
    ASSUME NEW a, NEW t, SigInOrder(a, t), FS = a.proc_ptr, a.inbox[FS] = NoMessage,
           NEW u \in USERS, t[FS] = <<Reply(u)>>, NEW m
    PROVE  SigInOrder(sys_call(a, "SEND", u, m).k, [t EXCEPT ![FS] = << >>])
  <1> DEFINE b == sys_call(a, "SEND", u, m).k
             r == [t EXCEPT ![FS] = << >>]
  <1>1. /\ SendersInOrder(a) /\ TasksInOrder(a, t) /\ FSInOrder(a, t) /\ MMInOrder(a, t)
        /\ Counts(a, t) /\ DOMAIN t = Active /\ Typed(a) /\ Core(a) /\ HighestRuns(a)
        /\ FS \in Procs \ USERS /\ u \in Procs /\ FS # u /\ a.p_getfrom[FS] = NONE
    BY SigNumbers, RunsUnblocked DEF SigInOrder, Core
  <1>2. r[FS] = << >> /\ (\A x \in Active \ {FS} : r[x] = t[x]) /\ DOMAIN r = Active
    BY <1>1, SigNumbers
  <1> HIDE DEF r
  <1>3. AwaitsAnswer(a, u, FS) \/ u \notin a.in_use
    <2>1. t[FS] # << >> /\ t[FS] # <<Reply(MM)>> /\ \A c, d : t[FS] # <<c, d>>
      <3>1. Reply(u).dest = u /\ Reply(MM).dest = MM /\ u # MM
        BY SigNumbers DEF Reply
      <3>2. Len(t[FS]) = 1 /\ \A c, d : Len(<<c, d>>) = 2
        OBVIOUS
      <3>3. t[FS] # <<Reply(MM)>>
        BY <3>1
      <3> QED
        BY <3>2, <3>3
    <2>2. NONE # SYSTASK /\ NONE # ANY
      BY SigNumbers
    <2>3. PICK v \in USERS : Answers(a, t, v)
      BY <1>1, <2>1, <2>2 DEF FSInOrder, Writes, Kills
    <2>4. Reply(v) = Reply(u)
      BY <2>3 DEF Answers
    <2>5. v = u
      BY <2>4 DEF Reply
    <2> QED
      BY <2>3, <2>5 DEF Answers
  <1>4. TasksInOrder(a, r) /\ MMInOrder(a, r) /\ Counts(a, r)
    BY <1>2, OtherCallsKept
  <1>5. CASE u \notin a.in_use
    <2>1. b = a
      BY <1>1, <1>5 DEF sys_call, mini_send, InUse
    <2>2. FSInOrder(a, r)
      BY <1>1, <1>2, SignedFields DEF FSInOrder
    <2> QED
      BY <1>1, <1>2, <1>4, <2>1, <2>2 DEF SigInOrder, r
  <1>6. CASE AwaitsAnswer(a, u, FS)
    <2>1. Core(b) /\ HighestRuns(b) /\ Delivered(a, b, u, m)
      BY <1>1, <1>6, AnswerCore DEF AwaitsAnswer, InUse
    <2> HIDE DEF b
    <2>2. /\ SameSignals(a, b) /\ b.p_sendto = a.p_sendto /\ b.p_messbuf = a.p_messbuf
          /\ b.in_use = a.in_use /\ b.p_flags = a.p_flags
          /\ \A y \in Procs \ {u} : b.p_getfrom[y] = a.p_getfrom[y] /\ b.inbox[y] = a.inbox[y]
          /\ b.p_getfrom[u] = NONE /\ b.p_sendto[u] = NONE
      BY <1>1, <1>6, <2>1 DEF Delivered, Typed, SameSignals, AwaitsAnswer
    <2>3. SendersInOrder(b)
      <3>1. \A v \in USERS : /\ b.p_getfrom[v] \in {NONE, MM, FS}
                             /\ b.p_sendto[v] # NONE => b.p_sendto[v] = b.p_getfrom[v]
        BY <1>1, <2>2, SigNumbers DEF SendersInOrder
      <3>2. b.p_getfrom[MM] = a.p_getfrom[MM]
        BY <2>2, SigNumbers
      <3> QED
        BY <1>1, <2>2, <3>1, <3>2 DEF SendersInOrder
    <2>4. TasksInOrder(b, r)
      BY <1>4, <2>2, SigNumbers, TasksKept DEF ServerAwaits
    <2>5. FSInOrder(b, r)
      BY <1>1, <1>2, <2>2, SigNumbers, SignedFields DEF FSInOrder
    <2>6. MMInOrder(b, r)
      <3>1. \A v \in USERS : AwaitsAnswer(a, v, MM) => AwaitsAnswer(b, v, MM)
        <4>1. ~AwaitsAnswer(a, u, MM)
          BY <1>6, SigNumbers DEF AwaitsAnswer
        <4> QED
          BY <2>2, <4>1, SigNumbers DEF AwaitsAnswer
      <3>2. \A v \in USERS : StoppedIn(a, v) => StoppedIn(b, v)
        BY <2>2 DEF StoppedIn
      <3>3. /\ b.p_getfrom[MM] = a.p_getfrom[MM] /\ b.inbox[MM] = a.inbox[MM]
            /\ Requested(b) = Requested(a)
        BY <2>2, SigNumbers DEF Requested
      <3> QED
        BY <1>4, <2>2, <3>1, <3>2, <3>3, MMKept
    <2>7. Counts(b, r)
      <3>1. \A v \in USERS : EndsLeft(b, r, v) = EndsLeft(a, r, v)
        BY <2>2, SigNumbers DEF EndsLeft
      <3>2. a.in_use \subseteq USERS /\ (b.p_getfrom[MM] = ANY => a.p_getfrom[MM] = ANY)
        BY <1>1, <2>2, SigNumbers DEF Typed
      <3> QED
        BY <1>4, <2>2, <3>1, <3>2, CountsKept
    <2>8. SigInOrder(b, r)
      BY <1>2, <2>1, <2>3, <2>4, <2>5, <2>6, <2>7 DEF SigInOrder
    <2> QED
      BY <2>8 DEF b, r
  <1> QED
    BY <1>3, <1>5, <1>6

\* FS answers MM.
LEMMA FSAnswersMM ==
    ASSUME NEW a, NEW t, SigInOrder(a, t), FS = a.proc_ptr, a.inbox[FS] = NoMessage,
           t[FS] = <<Reply(MM)>>, NEW m, m.m_type = "reply"
    PROVE  SigInOrder(sys_call(a, "SEND", MM, m).k, [t EXCEPT ![FS] = << >>])
  <1> DEFINE b == sys_call(a, "SEND", MM, m).k
             r == [t EXCEPT ![FS] = << >>]
  <1>1. /\ SendersInOrder(a) /\ FSInOrder(a, t)
        /\ DOMAIN t = Active /\ Typed(a) /\ Core(a) /\ HighestRuns(a)
        /\ FS \in Procs \ USERS /\ MM \in Procs /\ FS # MM /\ a.p_getfrom[FS] = NONE
    BY SigNumbers, RunsUnblocked DEF SigInOrder, Core
  <1>2. r[FS] = << >> /\ (\A x \in Active \ {FS} : r[x] = t[x]) /\ DOMAIN r = Active
    BY <1>1, SigNumbers
  <1> HIDE DEF r
  <1>3. ServerAwaits(a, MM, FS)
    <2>1. t[FS] # << >> /\ (\A u \in USERS : t[FS] # <<Reply(u)>>) /\ \A c, d : t[FS] # <<c, d>>
      <3>1. \A u \in USERS : Reply(u).dest = u /\ Reply(MM).dest = MM /\ u # MM
        BY SigNumbers DEF Reply
      <3>2. Len(t[FS]) = 1 /\ \A c, d : Len(<<c, d>>) = 2
        OBVIOUS
      <3> QED
        BY <3>1, <3>2
    <2> QED
      BY <1>1, <2>1 DEF FSInOrder, Writes, Kills, Answers
  <1>4. TasksInOrder(a, r) /\ MMInOrder(a, r) /\ Counts(a, r)
    BY <1>2, OtherCallsKept
  <1>5. Core(b) /\ HighestRuns(b) /\ Delivered(a, b, MM, m)
    <2>1. InUse(a, MM) /\ a.p_sendto[MM] = NONE /\ a.p_getfrom[MM] = FS
      BY <1>3, SigNumbers DEF InUse, ServerAwaits
    <2> QED
      BY <1>1, <2>1, AnswerCore
  <1> HIDE DEF b
  <1>6. /\ SameSignals(a, b) /\ b.p_sendto = a.p_sendto /\ b.p_messbuf = a.p_messbuf
        /\ b.in_use = a.in_use /\ b.p_flags = a.p_flags
        /\ \A y \in Procs \ {MM} : b.p_getfrom[y] = a.p_getfrom[y] /\ b.inbox[y] = a.inbox[y]
        /\ b.p_getfrom[MM] = NONE /\ b.p_sendto[MM] = NONE /\ b.inbox[MM] = m
    BY <1>1, <1>3, <1>5 DEF Delivered, Typed, SameSignals, ServerAwaits
  <1>7. SendersInOrder(b)
    BY <1>1, <1>6, SigNumbers DEF SendersInOrder
  <1>8. TasksInOrder(b, r)
    <2>1. ~ServerAwaits(a, MM, SYSTASK)
      BY <1>3, SigNumbers DEF ServerAwaits
    <2>2. ServerAwaits(a, FS, SYSTASK) => ServerAwaits(b, FS, SYSTASK)
      BY <1>6, SigNumbers DEF ServerAwaits
    <2> QED
      BY <1>4, <1>6, <2>1, <2>2, SigNumbers, TasksKept
  <1>9. FSInOrder(b, r)
    BY <1>1, <1>2, <1>6, SigNumbers, SignedFields DEF FSInOrder
  <1>10. MMInOrder(b, r)
    <2>1. \A v \in USERS : /\ AwaitsAnswer(a, v, MM) => AwaitsAnswer(b, v, MM)
                           /\ StoppedIn(a, v) => StoppedIn(b, v)
      BY <1>6, SigNumbers DEF AwaitsAnswer, StoppedIn
    <2>2. Requested(b) = Requested(a)
      BY <1>6, SigNumbers DEF Requested
    <2>3. AtWork(b, Requested(b), r[MM])
      BY <1>4, <1>6, <2>1, <2>2, AtWorkKept DEF MMInOrder
    <2> QED
      BY <1>6, <2>3, SigNumbers DEF MMInOrder
  <1>11. Counts(b, r)
    <2>1. \A v : EndsGot(b.inbox[MM], v) = EndsGot(a.inbox[MM], v)
      <3>1. a.inbox[MM] = NoMessage
        BY <1>3, <1>4, SigNumbers DEF MMInOrder, ServerAwaits
      <3> QED
        BY <1>6, <3>1, SignedFields DEF EndsGot
    <2>2. \A v \in USERS : EndsLeft(b, r, v) = EndsLeft(a, r, v)
      BY <1>6, <2>1, SigNumbers DEF EndsLeft
    <2>3. a.in_use \subseteq USERS /\ b.p_getfrom[MM] # ANY
      BY <1>1, <1>6, SigNumbers DEF Typed
    <2> QED
      BY <1>4, <1>6, <2>2, <2>3, CountsKept
  <1>12. SigInOrder(b, r)
    BY <1>2, <1>5, <1>7, <1>8, <1>9, <1>10, <1>11 DEF SigInOrder
  <1> QED
    BY <1>12 DEF b, r

\* FS takes a message or waits for one.
LEMMA FSReceives ==
    ASSUME NEW a, NEW t, SigInOrder(a, t), FS = a.proc_ptr, a.inbox[FS] = NoMessage,
           t[FS] = << >>, NEW m
    PROVE  SigInOrder(sys_call(a, "RECEIVE", ANY, m).k, t)
  <1> DEFINE b == sys_call(a, "RECEIVE", ANY, m).k
  <1>1. /\ SendersInOrder(a) /\ TasksInOrder(a, t) /\ FSInOrder(a, t) /\ MMInOrder(a, t)
        /\ Counts(a, t) /\ DOMAIN t = Active /\ Typed(a) /\ Core(a) /\ HighestRuns(a)
        /\ FS \in Procs \ USERS /\ FS # MM /\ FS # IDLE /\ a.p_getfrom[FS] = NONE
        /\ First(a, FS) /\ ~ToBeTold(a, FS, ANY) /\ a.p_sendto[FS] = NONE
    BY SigNumbers, RunsUnblocked DEF SigInOrder, Core, ToBeTold
  <1>2. a.inbox[SYSTASK] = NoMessage /\ a.p_getfrom[FS] # SYSTASK
    BY ServersAtWork, SigNumbers
  <1>3. Core(b) /\ HighestRuns(b) /\ Received(a, b, FS, ANY)
    <2>1. Core(b) /\ HighestRuns(b) /\ Called(a, b, "RECEIVE", ANY, m)
      BY <1>1, CallCore
    <2> QED
      BY <1>1, <2>1 DEF Called
  <1>4. b = mini_rec(a, FS, ANY)
    BY <1>1 DEF sys_call
  <1> HIDE DEF b
  <1>5. b.p_getfrom[FS] = NONE => HeadKept(a, b)
    BY <1>1, <1>4, ReceiveHead
  <1>6. FS \notin a.int_blocked
    BY <1>1, SigNumbers DEF Typed
  <1>7. ASSUME WaitsFor(a, b, FS, ANY) PROVE SigInOrder(b, t)
    <2>1. /\ SameSignals(a, b) /\ b.p_sendto = a.p_sendto /\ b.p_messbuf = a.p_messbuf
          /\ b.in_use = a.in_use /\ b.p_flags = a.p_flags /\ b.inbox = a.inbox
          /\ \A y \in Procs \ {FS} : b.p_getfrom[y] = a.p_getfrom[y]
          /\ b.p_getfrom[FS] = ANY
      BY <1>1, <1>7 DEF WaitsFor, Typed, SameSignals
    <2>2. SendersInOrder(b)
      BY <1>1, <2>1, SigNumbers DEF SendersInOrder
    <2>3. TasksInOrder(b, t)
      <3>1. ~ServerAwaits(a, FS, SYSTASK)
        BY <1>2 DEF ServerAwaits
      <3>2. ServerAwaits(a, MM, SYSTASK) => ServerAwaits(b, MM, SYSTASK)
        BY <2>1, SigNumbers DEF ServerAwaits
      <3> QED
        BY <1>1, <2>1, <3>1, <3>2, SigNumbers, TasksKept
    <2>4. FSInOrder(b, t)
      BY <2>1 DEF FSInOrder
    <2>5. MMInOrder(b, t)
      <3>1. \A v \in USERS : /\ AwaitsAnswer(a, v, MM) => AwaitsAnswer(b, v, MM)
                             /\ StoppedIn(a, v) => StoppedIn(b, v)
        BY <2>1, SigNumbers DEF AwaitsAnswer, StoppedIn
      <3>2. Requested(b) = Requested(a)
        BY <2>1 DEF Requested
      <3>3. b.p_getfrom[MM] = a.p_getfrom[MM] /\ b.inbox[MM] = a.inbox[MM]
        BY <2>1, SigNumbers
      <3> QED
        BY <1>1, <2>1, <3>1, <3>2, <3>3, MMKept
    <2>6. Counts(b, t)
      <3>1. \A v : EndsLeft(b, t, v) = EndsLeft(a, t, v)
        BY <2>1 DEF EndsLeft
      <3>2. a.in_use \subseteq USERS /\ (b.p_getfrom[MM] = ANY => a.p_getfrom[MM] = ANY)
        BY <1>1, <2>1, SigNumbers DEF Typed
      <3> QED
        BY <1>1, <2>1, <3>1, <3>2, CountsKept
    <2> QED
      BY <1>1, <1>3, <2>2, <2>3, <2>4, <2>5, <2>6 DEF SigInOrder
  <1>8. ASSUME NEW s \in Procs, a.p_sendto[s] = FS, TookFrom(a, b, FS, s)
        PROVE  SigInOrder(b, t)
    <2>1. s \in USERS \/ s = MM
      BY <1>1, <1>8, SigNumbers DEF SendersInOrder, Procs
    <2>2. /\ SameSignals(a, b) /\ b.p_getfrom = a.p_getfrom
          /\ b.in_use = a.in_use /\ b.p_flags = a.p_flags
          /\ \A y \in Procs \ {s} : /\ b.p_sendto[y] = a.p_sendto[y]
                                    /\ b.p_messbuf[y] = a.p_messbuf[y]
          /\ \A y \in Procs \ {FS} : b.inbox[y] = a.inbox[y]
          /\ b.p_sendto[s] = NONE /\ b.p_messbuf[s] = NoMessage
          /\ b.inbox[FS] = a.p_messbuf[s] /\ s # FS /\ a.p_getfrom[s] = FS
      <3>1. FS # NONE /\ s # FS
        BY <2>1, SigNumbers
      <3>2. a.p_getfrom[s] = FS
        BY <1>1, <1>8, <2>1, <3>1 DEF SendersInOrder
      <3> QED
        BY <1>1, <1>8, <3>1, <3>2 DEF TookFrom, Typed, SameSignals
    <2>3. SendersInOrder(b)
      <3>1. \A u \in USERS : \/ u = s
                             \/ b.p_sendto[u] = a.p_sendto[u] /\ b.p_messbuf[u] = a.p_messbuf[u]
        BY <2>2, SigNumbers
      <3>2. s = MM \/ (b.p_sendto[MM] = a.p_sendto[MM] /\ b.p_messbuf[MM] = a.p_messbuf[MM])
        BY <2>2, SigNumbers
      <3>3. \A p \in TASKS \cup {FS} : b.p_sendto[p] = NONE
        BY <1>1, <2>1, <2>2, SigNumbers DEF SendersInOrder
      <3>4. NONE # MM /\ NONE # FS
        BY SigNumbers
      <3>5. \A u \in USERS : /\ b.p_getfrom[u] \in {NONE, MM, FS}
                             /\ b.p_sendto[u] # NONE => b.p_sendto[u] = b.p_getfrom[u]
                             /\ b.p_sendto[u] = MM =>
                                  \E type \in MMCalls : b.p_messbuf[u] = Message(u, type)
                             /\ b.p_sendto[u] = FS => b.p_messbuf[u] = Message(u, "WRITE")
        BY <1>1, <2>2, <3>1, <3>4 DEF SendersInOrder
      <3>6. /\ b.p_sendto[MM] \in {NONE, FS}
            /\ b.p_sendto[MM] = FS =>
                 b.p_getfrom[MM] = FS /\ b.p_messbuf[MM] = Message(MM, "tell_fs")
            /\ b.p_messbuf[MM] \in {NoMessage, Message(MM, "tell_fs")}
        BY <1>1, <2>2, <3>2, <3>4 DEF SendersInOrder
      <3> QED
        BY <3>3, <3>5, <3>6 DEF SendersInOrder
    <2>4. /\ b.inbox[SYSTASK] = NoMessage /\ Requested(b) = Requested(a)
          /\ b.inbox[MM] = a.inbox[MM] /\ \A x \in TASKS : b.inbox[x] = a.inbox[x]
      BY <1>2, <2>2, SigNumbers DEF Requested
    <2>5. TasksInOrder(b, t)
      <3>1. \A p \in SERVERS : ServerAwaits(a, p, SYSTASK) => ServerAwaits(b, p, SYSTASK)
        BY <2>2, SigNumbers DEF ServerAwaits
      <3> QED
        BY <1>1, <2>2, <2>4, <3>1, TasksKept
    <2>6. MMInOrder(b, t)
      <3>1. \A v \in USERS : /\ AwaitsAnswer(a, v, MM) => AwaitsAnswer(b, v, MM)
                             /\ StoppedIn(a, v) => StoppedIn(b, v)
        BY <2>2, SigNumbers DEF AwaitsAnswer, StoppedIn
      <3> QED
        BY <1>1, <2>2, <2>4, <3>1, MMKept
    <2>7. Counts(b, t)
      <3>1. \A v : Ends(b.p_messbuf[MM], v) <=> Ends(a.p_messbuf[MM], v)
        <4>1. /\ a.p_messbuf[MM] \in {NoMessage, Message(MM, "tell_fs")}
              /\ b.p_messbuf[MM] \in {NoMessage, Message(MM, "tell_fs")}
          BY <1>1, <2>3 DEF SendersInOrder
        <4> QED
          BY <4>1, SignedFields
      <3>2. \A v : EndsLeft(b, t, v) = EndsLeft(a, t, v)
        BY <1>2, <2>4, <3>1 DEF EndsLeft
      <3>3. a.in_use \subseteq USERS
        BY <1>1 DEF Typed
      <3> QED
        BY <1>1, <2>2, <3>2, <3>3, CountsKept
    <2>8. CASE s = MM
      <3>1. b.inbox[FS] = Message(MM, "tell_fs") /\ ServerAwaits(b, MM, FS) /\ b.p_getfrom[FS] = NONE
        BY <1>1, <1>8, <2>2, <2>8, SigNumbers DEF SendersInOrder, ServerAwaits
      <3>2. FSInOrder(b, t)
        BY <3>1 DEF FSInOrder
      <3> QED
        BY <1>1, <1>3, <2>3, <2>5, <2>6, <2>7, <3>2 DEF SigInOrder
    <2>9. CASE s \in USERS
      <3>1. b.inbox[FS] = Message(s, "WRITE") /\ b.p_getfrom[FS] = NONE
        BY <1>1, <1>8, <2>2, <2>9 DEF SendersInOrder
      <3>2. s \in b.in_use
        <4>1. s \notin a.in_use => Runnable(a, s)
          BY <1>1, <2>9 DEF Core, Waits
        <4> QED
          BY <1>8, <2>2, <4>1, SigNumbers DEF Runnable
      <3>3. AwaitsAnswer(b, s, FS)
        BY <2>2, <3>2 DEF AwaitsAnswer
      <3>4. FSNext(b)
        <4>1. HeadKept(a, b) /\ a.rdy["SERVER_Q"] # << >> /\ Head(a.rdy["SERVER_Q"]) = FS
          BY <1>1, <1>5, <3>1, SigNumbers DEF First
        <4> QED
          BY <2>4, <4>1, SignedFields, SigNumbers DEF FSNext, HeadKept
      <3>5. FSInOrder(b, t)
        BY <2>9, <3>1, <3>3, <3>4 DEF FSInOrder, Writes
      <3> QED
        BY <1>1, <1>3, <2>3, <2>5, <2>6, <2>7, <3>5 DEF SigInOrder
    <2> QED
      BY <2>1, <2>8, <2>9
  <1>9. SigInOrder(b, t)
    BY <1>3, <1>6, <1>7, <1>8 DEF Received
  <1> QED
    BY <1>9 DEF b

-----------------------------------------------------------------------------
(* How many calls end a signal.                                              *)

\* Calls that end signals can be counted.
LEMMA EndsNumber ==
    ASSUME NEW S, NEW calls \in Seq(S), NEW u
    PROVE  /\ EndsIn(calls, u) \in Nat
           /\ IsFiniteSet({i \in DOMAIN calls : Ends(calls[i].m, u)})
           /\ (\A i \in DOMAIN calls : ~Ends(calls[i].m, u)) => EndsIn(calls, u) = 0
  <1> DEFINE E == {i \in DOMAIN calls : Ends(calls[i].m, u)}
  <1>1. DOMAIN calls = 1 .. Len(calls) /\ Len(calls) \in Nat
    BY LenProperties
  <1>2. IsFiniteSet(DOMAIN calls)
    BY <1>1, FS_Interval
  <1>3. IsFiniteSet(E)
    BY <1>2, FS_Subset
  <1>4. EndsIn(calls, u) = Cardinality(E)
    BY DEF EndsIn
  <1>5. (\A i \in DOMAIN calls : ~Ends(calls[i].m, u)) => E = {}
    OBVIOUS
  <1> QED
    BY <1>3, <1>4, <1>5, FS_CardinalityType, FS_EmptySet

\* One more call.
LEMMA EndsAppended ==
    ASSUME NEW S, NEW calls \in Seq(S), NEW c \in S, NEW u
    PROVE  EndsIn(calls \o <<c>>, u) = EndsIn(calls, u) + (IF Ends(c.m, u) THEN 1 ELSE 0)
  <1> DEFINE s == calls \o <<c>>
             n == Len(calls)
             E == {i \in DOMAIN calls : Ends(calls[i].m, u)}
             F == {i \in DOMAIN s : Ends(s[i].m, u)}
  <1>1. n \in Nat /\ DOMAIN calls = 1 .. n /\ <<c>> \in Seq(S) /\ Len(<<c>>) = 1 /\ <<c>>[1] = c
    BY LenProperties
  <1>2. /\ s \in Seq(S) /\ Len(s) = n + 1
        /\ \A i \in 1 .. n + 1 : s[i] = IF i <= n THEN calls[i] ELSE <<c>>[i - n]
    BY <1>1, ConcatProperties
  <1>3. DOMAIN s = 1 .. n + 1
    BY <1>2, LenProperties
  <1>4. s[n + 1] = c /\ \A i \in 1 .. n : s[i] = calls[i]
    BY <1>1, <1>2
  <1>5. IsFiniteSet(E) /\ EndsIn(calls, u) = Cardinality(E) /\ EndsIn(s, u) = Cardinality(F)
    BY EndsNumber DEF EndsIn
  <1> HIDE DEF s, n
  <1>6. n + 1 \notin E /\ Cardinality(E) \in Nat
    BY <1>1, <1>5, FS_CardinalityType
  <1> HIDE DEF E, F
  <1>7. CASE Ends(c.m, u)
    <2>1. F = E \cup {n + 1}
      BY <1>1, <1>3, <1>4, <1>7 DEF E, F
    <2>2. Cardinality(F) = Cardinality(E) + 1
      BY <1>5, <1>6, <2>1, FS_AddElement
    <2> QED
      BY <1>5, <1>7, <2>2 DEF s
  <1>8. CASE ~Ends(c.m, u)
    <2>1. F = E
      BY <1>1, <1>3, <1>4, <1>8 DEF E, F
    <2> QED
      BY <1>5, <1>6, <1>8, <2>1 DEF s
  <1> QED
    BY <1>7, <1>8

\* Calls that end no signal of u.
LEMMA EndsSame ==
    ASSUME NEW S, NEW calls \in Seq(S), NEW others \in Seq(S), NEW u,
           \A i \in DOMAIN others : ~Ends(others[i].m, u)
    PROVE  EndsIn(calls \o others, u) = EndsIn(calls, u)
  <1> DEFINE s == calls \o others
             n == Len(calls)
             o == Len(others)
             E == {i \in DOMAIN calls : Ends(calls[i].m, u)}
             F == {i \in DOMAIN s : Ends(s[i].m, u)}
  <1>1. n \in Nat /\ DOMAIN calls = 1 .. n /\ o \in Nat /\ DOMAIN others = 1 .. o
    BY LenProperties
  <1>2. /\ s \in Seq(S) /\ Len(s) = n + o
        /\ \A i \in 1 .. n + o : s[i] = IF i <= n THEN calls[i] ELSE others[i - n]
    BY ConcatProperties
  <1>3. DOMAIN s = 1 .. n + o
    BY <1>2, LenProperties
  <1>4. EndsIn(calls, u) = Cardinality(E) /\ EndsIn(s, u) = Cardinality(F)
    BY DEF EndsIn
  <1> HIDE DEF s, n, o
  <1>5. F = E
    <2>1. ASSUME NEW i \in 1 .. n + o PROVE i \in F <=> i \in E
      <3>1. CASE i <= n
        BY <1>1, <1>2, <1>3, <3>1
      <3>2. CASE ~(i <= n)
        <4>1. i - n \in 1 .. o /\ s[i] = others[i - n]
          BY <1>1, <1>2, <3>2
        <4> QED
          BY <1>1, <3>2, <4>1
      <3> QED
        BY <3>1, <3>2
    <2>2. F \subseteq 1 .. n + o /\ E \subseteq 1 .. n + o
      BY <1>1, <1>3
    <2> QED
      BY <2>1, <2>2
  <1> QED
    BY <1>4, <1>5 DEF s

\* The next call is made.
LEMMA EndsTail ==
    ASSUME NEW S, NEW calls \in Seq(S), calls # << >>, NEW u
    PROVE  /\ Tail(calls) \in Seq(S) /\ EndsIn(Tail(calls), u) \in Nat
           /\ EndsIn(calls, u) = EndsIn(Tail(calls), u) + (IF Ends(Head(calls).m, u) THEN 1 ELSE 0)
  <1> DEFINE s == Tail(calls)
             n == Len(calls)
             E == {i \in DOMAIN calls : Ends(calls[i].m, u)}
             F == {i \in DOMAIN s : Ends(s[i].m, u)}
             G == E \ {1}
             f == [i \in F |-> i + 1]
  <1>1. n \in Nat /\ DOMAIN calls = 1 .. n /\ n > 0
    BY LenProperties, EmptySeq
  <1>2. s \in Seq(S) /\ Len(s) = n - 1 /\ \A i \in 1 .. n - 1 : s[i] = calls[i + 1]
    BY HeadTailProperties
  <1>3. DOMAIN s = 1 .. n - 1 /\ Head(calls) = calls[1]
    BY <1>2, LenProperties
  <1>4. /\ IsFiniteSet(E) /\ EndsIn(calls, u) = Cardinality(E)
        /\ IsFiniteSet(F) /\ EndsIn(s, u) = Cardinality(F) /\ EndsIn(s, u) \in Nat
    BY <1>2, EndsNumber DEF EndsIn
  <1> HIDE DEF s, n
  <1>5. \A i \in F : i \in 1 .. n - 1 /\ i + 1 \in G
    BY <1>1, <1>2, <1>3
  <1>6. \A j \in G : j - 1 \in F /\ j \in 2 .. n
    <2> SUFFICES ASSUME NEW j \in G PROVE j - 1 \in F /\ j \in 2 .. n
      OBVIOUS
    <2>1. j \in 2 .. n /\ Ends(calls[j].m, u)
      BY <1>1
    <2>2. j - 1 \in 1 .. n - 1 /\ (j - 1) + 1 = j
      BY <1>1, <2>1
    <2>3. s[j - 1] = calls[j]
      BY <1>2, <2>2
    <2> QED
      BY <1>3, <2>1, <2>2, <2>3
  <1> HIDE DEF E, F, G
  <1>7. f \in Bijection(F, G)
    <2>1. f \in [F -> G]
      BY <1>5
    <2>2. \A x, y \in F : f[x] = f[y] => x = y
      BY <1>5
    <2>3. \A y \in G : \E x \in F : f[x] = y
      <3> SUFFICES ASSUME NEW y \in G PROVE \E x \in F : f[x] = y
        OBVIOUS
      <3>1. y - 1 \in F /\ f[y - 1] = y
        BY <1>6
      <3> QED
        BY <3>1
    <2> QED
      BY <2>1, <2>2, <2>3 DEF Bijection, Injection, Surjection, IsInjective
  <1>8. Cardinality(G) = Cardinality(F)
    BY <1>4, <1>7, FS_Bijection DEF ExistsBijection
  <1>9. Cardinality(G) = IF 1 \in E THEN Cardinality(E) - 1 ELSE Cardinality(E)
    BY <1>4, FS_RemoveElement DEF G
  <1>10. Cardinality(E) \in Nat /\ (1 \in E <=> Ends(Head(calls).m, u))
    BY <1>1, <1>3, <1>4, FS_CardinalityType DEF E
  <1> QED
    BY <1>2, <1>4, <1>8, <1>9, <1>10 DEF s

-----------------------------------------------------------------------------
(* What MM does.                                                             *)

\* Requests to the system task.
SystemRequest(q) == (\E type, u : q = Request(type, u)) \/ (\E u, c : q = ForkRequest(u, c))

\* The messages of the calls, and which of them end signals.
LEMMA CallsKnown ==
    /\ TellFS.m = Message(NONE, "tell_fs") /\ \A u : ~Ends(TellFS.m, u)
    /\ \A u : Reply(u).m = Message(NONE, "reply") /\ Reply(u).dest = u
              /\ \A v : ~Ends(Reply(u).m, v)
    /\ \A dest, m : SendRec(dest, m).m = m /\ SendRec(dest, m).dest = dest
    /\ \A type, u : System(type, u).m = Request(type, u) /\ System(type, u).dest = SYSTASK
    /\ \A q, u : SystemRequest(q) => (Ends(Signed(q, MM), u) <=> Ends(q, u))
    /\ \A q : SystemRequest(q) => Signed(q, MM).m_source = MM /\ Signed(q, MM) # NoMessage
    /\ \A type, u : SystemRequest(Request(type, u))
    /\ \A u, c : SystemRequest(ForkRequest(u, c))
  <1>1. \A q, u : SystemRequest(q) => (Ends(Signed(q, MM), u) <=> Ends(q, u))
    BY DEF SystemRequest, Signed, Request, ForkRequest, Ends
  <1>2. \A q : SystemRequest(q) => Signed(q, MM).m_source = MM
    BY SignedFields DEF SystemRequest
  <1>3. NoMessage.m_source # MM
    BY SigNumbers, SignedFields
  <1> QED
    BY <1>1, <1>2, <1>3, SignedFields
       DEF TellFS, Reply, SendRec, System, Message, Ends, SystemRequest

\* What comes next of the work of MM.
LEMMA NextCall ==
    ASSUME NEW a, NEW calls, AtWork(a, NoMessage, calls), calls # << >>
    PROVE  /\ \E S : calls \in Seq(S)
           /\ \/ Head(calls) = TellFS /\ AtWork(a, NoMessage, Tail(calls))
              \/ \E q : /\ SystemRequest(q) /\ Head(calls) = SendRec(SYSTASK, q)
                        /\ AtWork(a, Signed(q, MM), Tail(calls))
              \/ \E u \in USERS :
                   /\ Head(calls) = Reply(u) /\ AwaitsAnswer(a, u, MM)
                   /\ \/ Tail(calls) = << >>
                      \/ \E v \in USERS \ {u} : AwaitsAnswer(a, v, MM) /\ Tail(calls) = <<Reply(v)>>
  <1>1. /\ \A u, c : Signed(ForkRequest(u, c), MM) # NoMessage
        /\ \A type, u : ~Asks(NoMessage, type, u)
    BY CallsKnown DEF Asks
  <1> SUFFICES ASSUME NEW u \in USERS,
                      \/ \E c \in USERS : Forking(a, NoMessage, calls, u, c)
                      \/ Executing(a, NoMessage, calls, u)
                      \/ \E v \in USERS : Resuming(a, NoMessage, calls, u, v)
                      \/ Signalling(NoMessage, calls, u)
               PROVE  /\ \E S : calls \in Seq(S)
                      /\ \/ Head(calls) = TellFS /\ AtWork(a, NoMessage, Tail(calls))
                         \/ \E q : /\ SystemRequest(q) /\ Head(calls) = SendRec(SYSTASK, q)
                                   /\ AtWork(a, Signed(q, MM), Tail(calls))
                         \/ \E x \in USERS :
                              /\ Head(calls) = Reply(x) /\ AwaitsAnswer(a, x, MM)
                              /\ \/ Tail(calls) = << >>
                                 \/ \E v \in USERS \ {x} :
                                      AwaitsAnswer(a, v, MM) /\ Tail(calls) = <<Reply(v)>>
    BY DEF AtWork
  <1>2. ASSUME NEW c \in USERS, Forking(a, NoMessage, calls, u, c), ForkBegins(a, NoMessage, calls, u, c)
        PROVE  /\ \E S : calls \in Seq(S)
               /\ \E q : /\ SystemRequest(q) /\ Head(calls) = SendRec(SYSTASK, q)
                         /\ AtWork(a, Signed(q, MM), Tail(calls))
    <2> DEFINE q == ForkRequest(u, c)
    <2>1. calls = <<SendRec(SYSTASK, q), TellFS, System("SYS_NEWMAP", c), Reply(c), Reply(u)>>
      BY <1>1, <1>2 DEF ForkBegins
    <2>2. /\ Head(calls) = SendRec(SYSTASK, q) /\ Tail(calls) = Forked1(c, u)
          /\ calls \in Seq({SendRec(SYSTASK, q), TellFS, System("SYS_NEWMAP", c), Reply(c), Reply(u)})
      BY <2>1 DEF Forked1
    <2>3. ForkBegins(a, Signed(q, MM), Forked1(c, u), u, c)
      BY <1>2 DEF ForkBegins
    <2>4. Forking(a, Signed(q, MM), Forked1(c, u), u, c)
      BY <1>2, <2>3 DEF Forking
    <2>5. AtWork(a, Signed(q, MM), Tail(calls))
      BY <2>2, <2>4 DEF AtWork
    <2> QED
      BY <2>2, <2>5, CallsKnown
  <1>3. ASSUME NEW c \in USERS, Forking(a, NoMessage, calls, u, c), ForkEnds(a, NoMessage, calls, u, c)
        PROVE  /\ \E S : calls \in Seq(S)
               /\ \/ Head(calls) = TellFS /\ AtWork(a, NoMessage, Tail(calls))
                  \/ \E q : /\ SystemRequest(q) /\ Head(calls) = SendRec(SYSTASK, q)
                            /\ AtWork(a, Signed(q, MM), Tail(calls))
                  \/ /\ Head(calls) = Reply(c) /\ AwaitsAnswer(a, c, MM) /\ u # c
                     /\ AwaitsAnswer(a, u, MM) /\ Tail(calls) = <<Reply(u)>>
    <2>1. calls \in {Forked1(c, u), Forked2(c, u), Forked3(c, u)} /\ AwaitsAnswer(a, c, MM)
      BY <1>1, <1>3 DEF ForkEnds
    <2>2. CASE calls = Forked1(c, u)
      <3>1. /\ Head(calls) = TellFS /\ Tail(calls) = Forked2(c, u)
            /\ calls \in Seq({TellFS, System("SYS_NEWMAP", c), Reply(c), Reply(u)})
        BY <2>2 DEF Forked1, Forked2
      <3>2. Forking(a, NoMessage, Forked2(c, u), u, c)
        BY <1>3, <2>1 DEF Forking, ForkEnds
      <3> QED
        BY <3>1, <3>2 DEF AtWork
    <2>3. CASE calls = Forked2(c, u)
      <3> DEFINE q == Request("SYS_NEWMAP", c)
      <3>1. /\ Head(calls) = SendRec(SYSTASK, q) /\ Tail(calls) = Forked3(c, u)
            /\ calls \in Seq({System("SYS_NEWMAP", c), Reply(c), Reply(u)})
        BY <2>3 DEF Forked2, Forked3, System
      <3>2. Forking(a, Signed(q, MM), Forked3(c, u), u, c)
        BY <1>3, <2>1 DEF Forking, ForkEnds, Asks
      <3>3. AtWork(a, Signed(q, MM), Tail(calls))
        BY <3>1, <3>2 DEF AtWork
      <3> QED
        BY <3>1, <3>3, CallsKnown
    <2>4. CASE calls = Forked3(c, u)
      <3>1. /\ Head(calls) = Reply(c) /\ Tail(calls) = <<Reply(u)>>
            /\ calls \in Seq({Reply(c), Reply(u)})
        BY <2>4 DEF Forked3
      <3> QED
        BY <1>3, <2>1, <3>1 DEF Forking
    <2> QED
      BY <2>1, <2>2, <2>3, <2>4
  <1>4. ASSUME Executing(a, NoMessage, calls, u)
        PROVE  /\ \E S : calls \in Seq(S)
               /\ \E q : /\ SystemRequest(q) /\ Head(calls) = SendRec(SYSTASK, q)
                         /\ AtWork(a, Signed(q, MM), Tail(calls))
    <2> DEFINE q == Request("SYS_EXEC", u)
    <2>1. /\ Head(calls) = SendRec(SYSTASK, q) /\ Tail(calls) = << >>
          /\ calls \in Seq({System("SYS_EXEC", u)})
      <3>1. calls = <<System("SYS_EXEC", u)>>
        BY <1>1, <1>4 DEF Executing
      <3> QED
        BY <3>1 DEF System
    <2>2. Executing(a, Signed(q, MM), << >>, u)
      BY <1>4 DEF Executing, Asks
    <2>3. AtWork(a, Signed(q, MM), Tail(calls))
      BY <2>1, <2>2 DEF AtWork
    <2> QED
      BY <2>1, <2>3, CallsKnown
  <1>5. ASSUME NEW v \in USERS, Resuming(a, NoMessage, calls, u, v)
        PROVE  /\ \E S : calls \in Seq(S)
               /\ \/ \E q : /\ SystemRequest(q) /\ Head(calls) = SendRec(SYSTASK, q)
                            /\ AtWork(a, Signed(q, MM), Tail(calls))
                  \/ Head(calls) = Reply(u) /\ AwaitsAnswer(a, u, MM) /\ Tail(calls) = << >>
    <2> DEFINE q == Request("T_RESUME", v)
    <2>1. CASE StoppedIn(a, v) /\ calls = <<System("T_RESUME", v), Reply(u)>>
      <3>1. /\ Head(calls) = SendRec(SYSTASK, q) /\ Tail(calls) = <<Reply(u)>>
            /\ calls \in Seq({System("T_RESUME", v), Reply(u)})
        BY <2>1 DEF System
      <3>2. Resuming(a, Signed(q, MM), <<Reply(u)>>, u, v)
        BY <1>5, <2>1 DEF Resuming, Asks
      <3>3. AtWork(a, Signed(q, MM), Tail(calls))
        BY <3>1, <3>2 DEF AtWork
      <3> QED
        BY <3>1, <3>3, CallsKnown
    <2>2. CASE calls = <<Reply(u)>>
      <3>1. Head(calls) = Reply(u) /\ Tail(calls) = << >> /\ calls \in Seq({Reply(u)})
        BY <2>2
      <3> QED
        BY <1>5, <3>1 DEF Resuming
    <2> QED
      BY <1>1, <1>5, <2>1, <2>2 DEF Resuming
  <1>6. ASSUME Signalling(NoMessage, calls, u)
        PROVE  /\ \E S : calls \in Seq(S)
               /\ \/ Head(calls) = TellFS /\ AtWork(a, NoMessage, Tail(calls))
                  \/ \E q : /\ SystemRequest(q) /\ Head(calls) = SendRec(SYSTASK, q)
                            /\ AtWork(a, Signed(q, MM), Tail(calls))
    <2>1. calls \in Seq(SignalCalls(u)) /\ Len(calls) <= 6 /\ Len(calls) \in Nat
      BY <1>6, LenProperties DEF Signalling
    <2>2. /\ Head(calls) \in SignalCalls(u) /\ Tail(calls) \in Seq(SignalCalls(u))
          /\ Len(Tail(calls)) <= 6
      BY <2>1, HeadTailProperties
    <2>3. CASE Head(calls) = TellFS
      <3>1. Signalling(NoMessage, Tail(calls), u)
        BY <2>2 DEF Signalling
      <3> QED
        BY <2>1, <2>3, <3>1 DEF AtWork
    <2>4. ASSUME NEW type \in SignalRequests, Head(calls) = System(type, u)
          PROVE  \E q : /\ SystemRequest(q) /\ Head(calls) = SendRec(SYSTASK, q)
                        /\ AtWork(a, Signed(q, MM), Tail(calls))
      <3> DEFINE q == Request(type, u)
      <3>1. Head(calls) = SendRec(SYSTASK, q)
        BY <2>4 DEF System
      <3>2. Signalling(Signed(q, MM), Tail(calls), u)
        BY <2>2 DEF Signalling, Asks
      <3>3. AtWork(a, Signed(q, MM), Tail(calls))
        BY <3>2 DEF AtWork
      <3> QED
        BY <3>1, <3>3, CallsKnown
    <2> QED
      BY <2>1, <2>2, <2>3, <2>4 DEF SignalCalls
  <1> QED
    BY <1>2, <1>3, <1>4, <1>5, <1>6 DEF Forking

\* While MM runs, FS is at nothing it must finish first.
LEMMA MMRuns ==
    ASSUME NEW a, NEW t, SigInOrder(a, t), MM = a.proc_ptr
    PROVE  /\ a.p_getfrom[SYSTASK] = ANY /\ a.p_sendto[SYSTASK] = NONE
           /\ a.inbox[SYSTASK] = NoMessage /\ t[SYSTASK] = << >>
           /\ a.p_getfrom[MM] = NONE /\ a.p_sendto[MM] = NONE
           /\ ~FSNext(a) /\ a.p_getfrom[FS] \in {NONE, ANY}
           /\ AtWork(a, NoMessage, t[MM])
           /\ FSInOrder(a, t)
           /\ a.p_getfrom[FS] = ANY => t[FS] = << >> /\ a.inbox[FS] = NoMessage
  <1>1. /\ a.p_getfrom[MM] = NONE /\ a.p_sendto[MM] = NONE /\ ~FSNext(a)
    BY SigNumbers, RunsUnblocked
  <1>2. /\ a.p_getfrom[SYSTASK] = ANY /\ a.p_sendto[SYSTASK] = NONE
        /\ a.inbox[SYSTASK] = NoMessage /\ t[SYSTASK] = << >> /\ Requested(a) = NoMessage
        /\ a.p_getfrom[FS] # SYSTASK
    BY ServersAtWork, SigNumbers
  <1>3. FSInOrder(a, t) /\ AtWork(a, NoMessage, t[MM])
    BY <1>2 DEF SigInOrder, MMInOrder
  <1>4. NONE # ANY /\ NONE # FS /\ SYSTASK # ANY
    BY SigNumbers
  <1>5. a.p_getfrom[FS] \in {NONE, ANY}
    BY <1>2, <1>3 DEF FSInOrder, Kills, Answers
  <1>6. a.p_getfrom[FS] = ANY => t[FS] = << >> /\ a.inbox[FS] = NoMessage
    BY <1>3, <1>4 DEF FSInOrder, Kills, Answers
  <1> QED
    BY <1>1, <1>2, <1>3, <1>5, <1>6

\* What is left to show of a step of MM, which makes its next call.
LEMMA MMStep ==
    ASSUME NEW a, NEW t, SigInOrder(a, t), MM = a.proc_ptr, a.inbox[MM] = NoMessage,
           t[MM] # << >>, NEW S, t[MM] \in Seq(S),
           NEW b, Core(b), HighestRuns(b), SameSignals(a, b),
           NEW r, DOMAIN r = Active, r[MM] = Tail(t[MM]),
           SendersInOrder(b), TasksInOrder(b, r), FSInOrder(b, r),
           b.p_getfrom[MM] \in {NONE, FS, SYSTASK}, b.inbox[MM] = NoMessage,
           AtWork(b, Requested(b), r[MM]),
           \A u : Ends(b.inbox[SYSTASK], u) <=> Ends(Head(t[MM]).m, u)
    PROVE  SigInOrder(b, r)
  <1>1. SendersInOrder(a) /\ Counts(a, t) /\ Typed(a)
    BY DEF SigInOrder, Core
  <1>2. a.inbox[SYSTASK] = NoMessage /\ b.p_getfrom[MM] # ANY
    BY MMRuns, SigNumbers
  <1>3. MMInOrder(b, r)
    BY <1>2, SignedFields DEF MMInOrder
  <1>4. \A u : ~Ends(a.p_messbuf[MM], u) /\ ~Ends(b.p_messbuf[MM], u)
    <2>1. /\ a.p_messbuf[MM] \in {NoMessage, Message(MM, "tell_fs")}
          /\ b.p_messbuf[MM] \in {NoMessage, Message(MM, "tell_fs")}
      BY <1>1 DEF SendersInOrder
    <2> QED
      BY <2>1, SignedFields
  <1>5. \A u : EndsLeft(b, r, u) = EndsLeft(a, t, u)
    <2> SUFFICES ASSUME NEW u PROVE EndsLeft(b, r, u) = EndsLeft(a, t, u)
      OBVIOUS
    <2>1. /\ EndsIn(r[MM], u) \in Nat
          /\ EndsIn(t[MM], u) = EndsIn(r[MM], u) + (IF Ends(b.inbox[SYSTASK], u) THEN 1 ELSE 0)
      BY EndsTail
    <2>2. /\ EndsGot(a.inbox[MM], u) = 0 /\ EndsGot(b.inbox[MM], u) = 0
          /\ ~Ends(a.inbox[SYSTASK], u)
      BY <1>2, SignedFields DEF EndsGot
    <2> QED
      BY <1>4, <2>1, <2>2 DEF EndsLeft
  <1>6. Counts(b, r)
    <2>1. a.in_use \subseteq USERS
      BY <1>1 DEF Typed
    <2> QED
      BY <1>1, <1>2, <1>5, <2>1, CountsKept
  <1> QED
    BY <1>3, <1>6 DEF SigInOrder

\* MM asks FS.
LEMMA MMTells ==
    ASSUME NEW a, NEW t, SigInOrder(a, t), MM = a.proc_ptr, a.inbox[MM] = NoMessage,
           t[MM] # << >>, Head(t[MM]) = TellFS, AtWork(a, NoMessage, Tail(t[MM])),
           NEW S, t[MM] \in Seq(S)
    PROVE  SigInOrder(sys_call(a, "BOTH", FS, Signed(TellFS.m, MM)).k,
                      [t EXCEPT ![MM] = Tail(t[MM])])
  <1> DEFINE m == Message(MM, "tell_fs")
             b == sys_call(a, "BOTH", FS, m).k
             r == [t EXCEPT ![MM] = Tail(t[MM])]
  <1>1. /\ SendersInOrder(a) /\ TasksInOrder(a, t) /\ FSInOrder(a, t)
        /\ DOMAIN t = Active /\ Typed(a) /\ Core(a) /\ HighestRuns(a)
        /\ FS \in Procs \ USERS /\ MM \in Procs \ USERS /\ FS # MM /\ a.p_sendto[FS] = NONE
    BY SigNumbers DEF SigInOrder, Core, SendersInOrder
  <1>2. /\ a.inbox[SYSTASK] = NoMessage /\ a.p_getfrom[MM] = NONE /\ a.p_sendto[MM] = NONE
        /\ ~FSNext(a) /\ a.p_getfrom[FS] \in {NONE, ANY}
        /\ a.p_getfrom[FS] = ANY => t[FS] = << >> /\ a.inbox[FS] = NoMessage
    BY MMRuns
  <1>3. Core(b) /\ HighestRuns(b) /\ HasAsked(a, b, MM, FS, m)
    BY <1>1, AskCore, MayAsk
  <1>4. Signed(TellFS.m, MM) = m
    BY CallsKnown, SignedFields
  <1> HIDE DEF b
  <1>5. Awaits(a, FS, MM) <=> a.p_getfrom[FS] = ANY
    BY <1>1, <1>2, SigNumbers DEF Awaits
  <1>6. r[MM] = Tail(t[MM]) /\ (\A x \in Active \ {MM} : r[x] = t[x]) /\ DOMAIN r = Active
    BY <1>1, SigNumbers
  <1> HIDE DEF r
  <1>7. /\ SameSignals(a, b) /\ b.in_use = a.in_use /\ b.p_flags = a.p_flags
        /\ b.p_getfrom[MM] = FS /\ b.inbox[MM] = NoMessage
        /\ \A y \in Procs \ {FS, MM} :
             /\ b.p_getfrom[y] = a.p_getfrom[y] /\ b.inbox[y] = a.inbox[y]
             /\ b.p_sendto[y] = a.p_sendto[y] /\ b.p_messbuf[y] = a.p_messbuf[y]
        /\ b.p_sendto[FS] = NONE
        /\ \/ /\ a.p_getfrom[FS] = ANY /\ b.p_getfrom[FS] = NONE /\ b.inbox[FS] = m
              /\ b.p_sendto[MM] = NONE /\ b.p_messbuf[MM] = a.p_messbuf[MM]
           \/ /\ a.p_getfrom[FS] = NONE /\ b.p_getfrom[FS] = NONE /\ b.inbox[FS] = a.inbox[FS]
              /\ b.p_sendto[MM] = FS /\ b.p_messbuf[MM] = m
    <2>1. SameSignals(a, b) /\ b.in_use = a.in_use /\ b.p_flags = a.p_flags
      BY <1>3 DEF HasAsked, SameSignals
    <2>2. CASE a.p_getfrom[FS] = ANY
      BY <1>1, <1>2, <1>3, <1>5, <2>1, <2>2 DEF HasAsked, Typed
    <2>3. CASE a.p_getfrom[FS] # ANY
      BY <1>1, <1>2, <1>3, <1>5, <2>1, <2>3 DEF HasAsked, Typed
    <2> QED
      BY <2>2, <2>3
  <1>8. SendersInOrder(b)
    <2>1. \A u \in USERS : /\ b.p_getfrom[u] = a.p_getfrom[u] /\ b.p_sendto[u] = a.p_sendto[u]
                           /\ b.p_messbuf[u] = a.p_messbuf[u]
      BY <1>7, SigNumbers
    <2>2. \A p \in TASKS \cup {FS} : b.p_sendto[p] = NONE
      BY <1>1, <1>7, SigNumbers DEF SendersInOrder
    <2> QED
      BY <1>1, <1>7, <2>1, <2>2, SigNumbers DEF SendersInOrder
  <1>9. TasksInOrder(b, r)
    <2>1. \A p \in SERVERS : ~ServerAwaits(a, p, SYSTASK)
      BY <1>2, SigNumbers DEF ServerAwaits
    <2> QED
      BY <1>1, <1>6, <1>7, <2>1, SigNumbers, TasksKept
  <1>10. /\ \A v \in USERS : \A q : AwaitsAnswer(a, v, q) => AwaitsAnswer(b, v, q)
         /\ \A v \in USERS : StoppedIn(a, v) => StoppedIn(b, v)
         /\ b.inbox[SYSTASK] = NoMessage /\ Requested(b) = NoMessage
    BY <1>2, <1>7, SigNumbers, SignedFields DEF AwaitsAnswer, StoppedIn, Requested
  <1>11. FSInOrder(b, r)
    <2>1. r[FS] = t[FS] /\ NONE # SYSTASK /\ NONE # FS
      BY <1>6, SigNumbers
    <2>2. CASE a.p_getfrom[FS] = ANY
      BY <1>2, <1>7, <2>1, <2>2, SigNumbers DEF FSInOrder, ServerAwaits
    <2>3. CASE a.p_getfrom[FS] = NONE
      <3>1. ~ServerAwaits(a, MM, FS)
        BY <1>2, <2>1 DEF ServerAwaits
      <3>2. b.p_getfrom[FS] = a.p_getfrom[FS] /\ b.inbox[FS] = a.inbox[FS]
        BY <1>7, <2>3, SigNumbers
      <3> QED
        BY <1>1, <1>2, <1>10, <2>1, <2>3, <3>1, <3>2, FSKept
    <2> QED
      BY <1>2, <2>2, <2>3
  <1>12. AtWork(b, Requested(b), r[MM])
    BY <1>6, <1>7, <1>10, AtWorkKept
  <1>13. \A u : Ends(b.inbox[SYSTASK], u) <=> Ends(Head(t[MM]).m, u)
    BY <1>10, SignedFields, CallsKnown
  <1>14. SigInOrder(b, r)
    BY <1>3, <1>6, <1>7, <1>8, <1>9, <1>11, <1>12, <1>13, MMStep
  <1> QED
    BY <1>4, <1>14 DEF b, r

\* MM asks the system task.
LEMMA MMAsks ==
    ASSUME NEW a, NEW t, SigInOrder(a, t), MM = a.proc_ptr, a.inbox[MM] = NoMessage,
           NEW q, SystemRequest(q), NEW m, m = Signed(q, MM),
           t[MM] # << >>, Head(t[MM]) = SendRec(SYSTASK, q), AtWork(a, m, Tail(t[MM])),
           NEW S, t[MM] \in Seq(S)
    PROVE  SigInOrder(sys_call(a, "BOTH", SYSTASK, m).k, [t EXCEPT ![MM] = Tail(t[MM])])
  <1> DEFINE b == sys_call(a, "BOTH", SYSTASK, m).k
             r == [t EXCEPT ![MM] = Tail(t[MM])]
  <1>1. /\ SendersInOrder(a) /\ TasksInOrder(a, t) /\ FSInOrder(a, t)
        /\ DOMAIN t = Active /\ Typed(a) /\ Core(a) /\ HighestRuns(a)
        /\ SYSTASK \in Procs \ USERS /\ MM \in Procs \ USERS /\ SYSTASK # MM
    BY SigNumbers DEF SigInOrder, Core
  <1>2. /\ a.p_getfrom[SYSTASK] = ANY /\ a.p_sendto[SYSTASK] = NONE
        /\ a.inbox[SYSTASK] = NoMessage /\ t[SYSTASK] = << >>
        /\ a.p_getfrom[MM] = NONE /\ a.p_sendto[MM] = NONE
        /\ ~FSNext(a) /\ a.p_getfrom[FS] \in {NONE, ANY}
    BY MMRuns
  <1>3. m.m_source = MM /\ \A u : Ends(m, u) <=> Ends(Head(t[MM]).m, u)
    BY CallsKnown
  <1>4. Core(b) /\ HighestRuns(b) /\ HasAsked(a, b, MM, SYSTASK, m)
    BY <1>1, <1>2, AskCore, MayAsk
  <1> HIDE DEF b
  <1>5. r[MM] = Tail(t[MM]) /\ (\A x \in Active \ {MM} : r[x] = t[x]) /\ DOMAIN r = Active
    BY <1>1, SigNumbers
  <1> HIDE DEF r
  <1>6. /\ SameSignals(a, b) /\ b.in_use = a.in_use /\ b.p_flags = a.p_flags
        /\ b.p_sendto = a.p_sendto /\ b.p_messbuf = a.p_messbuf
        /\ b.p_getfrom[MM] = SYSTASK /\ b.inbox[MM] = NoMessage
        /\ \A y \in Procs \ {SYSTASK, MM} :
             b.p_getfrom[y] = a.p_getfrom[y] /\ b.inbox[y] = a.inbox[y]
        /\ b.p_getfrom[SYSTASK] = NONE /\ b.inbox[SYSTASK] = m
    BY <1>1, <1>2, <1>4 DEF HasAsked, Awaits, Typed, SameSignals
  <1>7. SendersInOrder(b)
    <2>1. \A u \in USERS : b.p_getfrom[u] = a.p_getfrom[u]
      BY <1>6, SigNumbers
    <2>2. a.p_sendto[MM] # FS
      BY <1>2, SigNumbers
    <2> QED
      BY <1>1, <1>6, <2>1, <2>2 DEF SendersInOrder
  <1>8. TasksInOrder(b, r)
    <2> SUFFICES ASSUME NEW x \in TASKS PROVE TaskInOrder(b, r, x)
      BY DEF TasksInOrder
    <2>1. TaskInOrder(a, t, x) /\ x \in Procs \ {MM} /\ r[x] = t[x]
      BY <1>1, <1>5, SigNumbers DEF TasksInOrder
    <2>2. CASE x = SYSTASK
      <3>1. b.p_getfrom[x] = NONE /\ r[x] = << >> /\ b.inbox[x].m_source = MM /\ NONE # ANY
        BY <1>2, <1>3, <1>6, <2>1, <2>2, SigNumbers
      <3>2. ServerAwaits(b, MM, SYSTASK) /\ SystemAsked(b)
        BY <1>2, <1>3, <1>6, SigNumbers DEF ServerAwaits, SystemAsked
      <3> QED
        BY <2>2, <3>1, <3>2 DEF TaskInOrder
    <2>3. CASE x # SYSTASK
      BY <1>6, <2>1, <2>3 DEF TaskInOrder
    <2> QED
      BY <2>2, <2>3
  <1>9. /\ \A v \in USERS : \A p : AwaitsAnswer(a, v, p) => AwaitsAnswer(b, v, p)
        /\ \A v \in USERS : StoppedIn(a, v) => StoppedIn(b, v)
        /\ Requested(b) = m
    BY <1>3, <1>6, SigNumbers DEF AwaitsAnswer, StoppedIn, Requested
  <1>10. FSInOrder(b, r)
    <2>1. r[FS] = t[FS] /\ b.p_getfrom[FS] = a.p_getfrom[FS] /\ b.inbox[FS] = a.inbox[FS]
      BY <1>5, <1>6, SigNumbers
    <2>2. ~ServerAwaits(a, MM, FS) /\ a.p_getfrom[FS] # SYSTASK
      BY <1>2, SigNumbers DEF ServerAwaits
    <2> QED
      BY <1>1, <1>2, <1>9, <2>1, <2>2, FSKept
  <1>11. AtWork(b, Requested(b), r[MM])
    BY <1>5, <1>6, <1>9, AtWorkKept
  <1>12. SigInOrder(b, r)
    BY <1>3, <1>4, <1>5, <1>6, <1>7, <1>8, <1>10, <1>11, MMStep
  <1> QED
    BY <1>12 DEF b, r

\* MM answers u.
LEMMA MMAnswers ==
    ASSUME NEW a, NEW t, SigInOrder(a, t), MM = a.proc_ptr, a.inbox[MM] = NoMessage,
           NEW u \in USERS, t[MM] # << >>, Head(t[MM]) = Reply(u), AwaitsAnswer(a, u, MM),
           \/ Tail(t[MM]) = << >>
           \/ \E v \in USERS \ {u} : AwaitsAnswer(a, v, MM) /\ Tail(t[MM]) = <<Reply(v)>>,
           NEW S, t[MM] \in Seq(S), NEW m
    PROVE  SigInOrder(sys_call(a, "SEND", u, m).k, [t EXCEPT ![MM] = Tail(t[MM])])
  <1> DEFINE b == sys_call(a, "SEND", u, m).k
             r == [t EXCEPT ![MM] = Tail(t[MM])]
  <1>1. /\ SendersInOrder(a) /\ TasksInOrder(a, t) /\ FSInOrder(a, t)
        /\ DOMAIN t = Active /\ Typed(a) /\ Core(a) /\ HighestRuns(a)
        /\ MM \in Procs \ USERS /\ u \in Procs /\ u # MM
    BY SigNumbers DEF SigInOrder, Core
  <1>2. /\ a.inbox[SYSTASK] = NoMessage /\ a.p_getfrom[MM] = NONE /\ a.p_sendto[MM] = NONE
        /\ ~FSNext(a) /\ a.p_getfrom[FS] \in {NONE, ANY}
    BY MMRuns
  <1>3. Core(b) /\ HighestRuns(b) /\ Delivered(a, b, u, m)
    BY <1>1, AnswerCore DEF AwaitsAnswer, InUse
  <1> HIDE DEF b
  <1>4. r[MM] = Tail(t[MM]) /\ (\A x \in Active \ {MM} : r[x] = t[x]) /\ DOMAIN r = Active
    BY <1>1, SigNumbers
  <1> HIDE DEF r
  <1>5. /\ SameSignals(a, b) /\ b.p_sendto = a.p_sendto /\ b.p_messbuf = a.p_messbuf
        /\ b.in_use = a.in_use /\ b.p_flags = a.p_flags
        /\ \A y \in Procs \ {u} : b.p_getfrom[y] = a.p_getfrom[y] /\ b.inbox[y] = a.inbox[y]
        /\ b.p_getfrom[u] = NONE /\ b.p_sendto[u] = NONE
    BY <1>1, <1>3 DEF Delivered, Typed, SameSignals, AwaitsAnswer
  <1>6. SendersInOrder(b)
    <2>1. \A v \in USERS : /\ b.p_getfrom[v] \in {NONE, MM, FS}
                           /\ b.p_sendto[v] # NONE => b.p_sendto[v] = b.p_getfrom[v]
      BY <1>1, <1>5, SigNumbers DEF SendersInOrder
    <2>2. b.p_getfrom[MM] = a.p_getfrom[MM]
      BY <1>5, SigNumbers
    <2> QED
      BY <1>1, <1>5, <2>1, <2>2 DEF SendersInOrder
  <1>7. TasksInOrder(b, r)
    <2>1. \A p \in SERVERS : ServerAwaits(a, p, SYSTASK) => ServerAwaits(b, p, SYSTASK)
      BY <1>5, SigNumbers DEF ServerAwaits
    <2>2. \A x \in TASKS : /\ b.p_getfrom[x] = a.p_getfrom[x] /\ b.inbox[x] = a.inbox[x]
                           /\ r[x] = t[x]
      BY <1>4, <1>5, SigNumbers
    <2> QED
      BY <1>1, <2>1, <2>2, TasksKept
  <1>8. \A v \in USERS \ {u} : \A q : AwaitsAnswer(a, v, q) => AwaitsAnswer(b, v, q)
    BY <1>5, SigNumbers DEF AwaitsAnswer
  <1>9. FSInOrder(b, r)
    <2>1. r[FS] = t[FS] /\ b.p_getfrom[FS] = a.p_getfrom[FS] /\ b.inbox[FS] = a.inbox[FS]
      BY <1>4, <1>5, SigNumbers
    <2>2. ~ServerAwaits(a, MM, FS) /\ a.p_getfrom[FS] # SYSTASK /\ ~AwaitsAnswer(a, u, FS)
      BY <1>2, SigNumbers DEF ServerAwaits, AwaitsAnswer
    <2>3. \A v \in USERS : AwaitsAnswer(a, v, FS) => AwaitsAnswer(b, v, FS)
      BY <1>8, <2>2
    <2> QED
      BY <1>1, <1>2, <2>1, <2>2, <2>3, FSKept
  <1>10. b.inbox[SYSTASK] = NoMessage /\ Requested(b) = NoMessage
         /\ b.inbox[MM] = NoMessage /\ b.p_getfrom[MM] = NONE
    BY <1>2, <1>5, SigNumbers, SignedFields DEF Requested
  <1>11. AtWork(b, Requested(b), r[MM])
    <2>1. CASE Tail(t[MM]) = << >>
      BY <1>4, <1>10, <2>1 DEF AtWork
    <2>2. ASSUME NEW v \in USERS \ {u}, AwaitsAnswer(a, v, MM), Tail(t[MM]) = <<Reply(v)>>
          PROVE  AtWork(b, Requested(b), r[MM])
      <3>1. AwaitsAnswer(b, v, MM)
        BY <1>8, <2>2
      <3>2. Resuming(b, NoMessage, r[MM], v, v)
        BY <1>4, <2>2, <3>1 DEF Resuming
      <3> QED
        BY <1>10, <3>2 DEF AtWork
    <2> QED
      BY <2>1, <2>2
  <1>12. \A v : Ends(b.inbox[SYSTASK], v) <=> Ends(Head(t[MM]).m, v)
    BY <1>10, SignedFields, CallsKnown
  <1>13. SigInOrder(b, r)
    BY <1>3, <1>4, <1>5, <1>6, <1>7, <1>9, <1>10, <1>11, <1>12, MMStep
  <1> QED
    BY <1>13 DEF b, r

\* Few signals are pending at a time.
LEMMA PendingFinite ==
    ASSUME NEW map \in SUBSET Sigs
    PROVE  /\ IsFiniteSet(map) /\ Cardinality(map) \in 0 .. 3
           /\ Cardinality(map) = 0 <=> map = {}
  <1>1. Sigs = ({"SIGALRM"} \cup {"SIGPIPE"}) \cup {"SIGTRAP"}
    BY DEF Sigs
  <1>2. IsFiniteSet({"SIGALRM"}) /\ Cardinality({"SIGALRM"}) = 1
    BY FS_Singleton
  <1>3. IsFiniteSet(Sigs) /\ Cardinality(Sigs) = 3
    <2> DEFINE two == {"SIGALRM"} \cup {"SIGPIPE"}
    <2>1. "SIGPIPE" \notin {"SIGALRM"} /\ "SIGTRAP" \notin two
      OBVIOUS
    <2>2. IsFiniteSet(two) /\ Cardinality(two) = 2
      BY <1>2, <2>1, FS_AddElement
    <2>3. Sigs = two \cup {"SIGTRAP"}
      BY <1>1
    <2> HIDE DEF two
    <2> QED
      BY <2>1, <2>2, <2>3, FS_AddElement
  <1>4. IsFiniteSet(map) /\ Cardinality(map) <= 3
    BY <1>3, FS_Subset
  <1>5. Cardinality(map) \in Nat
    BY <1>4, FS_CardinalityType
  <1>6. Cardinality(map) = 0 <=> map = {}
    BY <1>4, FS_EmptySet
  <1> QED
    BY <1>4, <1>5, <1>6

\* The tables that are told of have an entry for every process.
HasTables(a) ==
    /\ DOMAIN a.p_flags = Procs /\ DOMAIN a.p_pending = Procs
    /\ DOMAIN a.p_getfrom = Procs /\ DOMAIN a.inbox = Procs
    /\ a.in_use \subseteq USERS

\* MM is told of the signals of u, which it has not finished with then.
LEMMA CountsTold ==
    ASSUME NEW c, HasTables(c), NEW t, t[MM] = << >>, c.inbox[MM] = NoMessage,
           Counted(c), \A v \in c.in_use : UserCounts(c, v, EndsLeft(c, t, v)),
           NEW u \in Marked(c), u \in c.in_use, NEW b, Told(c, b, u)
    PROVE  Counts(b, t)
  <1>1. /\ u \in USERS /\ u \in Procs /\ MM \in Procs /\ MM # u /\ MM # SYSTASK
        /\ SYSTASK \in Procs /\ NONE # ANY /\ USERS \subseteq Procs /\ IsFiniteSet(USERS)
    BY SigNumbers DEF Marked
  <1>2. /\ b.in_use = c.in_use
        /\ b.p_flags[u] = c.p_flags[u] \ {"PENDING"}
        /\ b.p_pending[u] = {} /\ b.p_pendcount = c.p_pendcount
        /\ \A v \in USERS \ {u} : b.p_flags[v] = c.p_flags[v] /\ b.p_pending[v] = c.p_pending[v]
        /\ b.sig_procs = c.sig_procs - 1 /\ b.p_getfrom[MM] = NONE
        /\ b.p_messbuf = c.p_messbuf
        /\ b.inbox[SYSTASK] = c.inbox[SYSTASK] /\ b.inbox[MM] = Ksig(u, c.p_pending[u])
    BY <1>1 DEF Told, HasTables
  <1>3. Counted(b)
    <2>1. Marked(b) = Marked(c) \ {u} /\ u \in Marked(c)
      BY <1>1, <1>2 DEF Marked
    <2>2. IsFiniteSet(Marked(c))
      BY <1>1, FS_Subset DEF Marked
    <2>3. Cardinality(Marked(b)) = Cardinality(Marked(c)) - 1
      BY <2>1, <2>2, FS_RemoveElement
    <2> QED
      BY <1>1, <1>2, <2>3 DEF Counted
  <1>4. ASSUME NEW v \in USERS
        PROVE  /\ EndsLeft(c, t, v) \in Nat
               /\ EndsLeft(b, t, v) = EndsLeft(c, t, v)
                    + (IF v = u THEN Cardinality(c.p_pending[u]) ELSE 0)
    <2>1. EndsIn(t[MM], v) = 0
      <3>1. t[MM] \in Seq({}) /\ DOMAIN t[MM] = {}
        OBVIOUS
      <3> QED
        BY <3>1, EndsNumber
    <2>2. EndsGot(c.inbox[MM], v) = 0
      BY SignedFields DEF EndsGot
    <2>3. EndsGot(b.inbox[MM], v) = IF v = u THEN Cardinality(c.p_pending[u]) ELSE 0
      BY <1>2, SignedFields DEF EndsGot
    <2>4. Cardinality(c.p_pending[u]) \in Nat
      BY <1>1, PendingFinite DEF Counted
    <2> QED
      BY <1>2, <2>1, <2>2, <2>3, <2>4 DEF EndsLeft
  <1>5. ASSUME NEW v \in b.in_use PROVE UserCounts(b, v, EndsLeft(b, t, v))
    <2>1. v \in USERS /\ UserCounts(c, v, EndsLeft(c, t, v))
      BY <1>2, <1>5 DEF HasTables
    <2>2. CASE v = u
      <3>1. Cardinality({}) = 0
        BY FS_EmptySet
      <3>2. EndsLeft(c, t, u) \in Nat /\ EndsLeft(b, t, u) = EndsLeft(c, t, u) + Cardinality(c.p_pending[u])
        BY <1>1, <1>4
      <3>3. /\ c.p_pendcount[u] = Cardinality(c.p_pending[u]) + EndsLeft(c, t, u)
            /\ "SIG_PENDING" \in c.p_flags[u] <=> c.p_pendcount[u] > 0
        BY <2>1, <2>2 DEF UserCounts
      <3>4. Cardinality(c.p_pending[u]) \in Nat
        BY <1>1, PendingFinite DEF Counted
      <3>5. b.p_pendcount[u] = Cardinality(b.p_pending[u]) + EndsLeft(b, t, u)
        BY <1>2, <3>1, <3>2, <3>3, <3>4
      <3> QED
        BY <1>2, <2>2, <3>3, <3>5 DEF UserCounts
    <2>3. CASE v # u
      <3>1. EndsLeft(b, t, v) = EndsLeft(c, t, v)
        BY <1>4, <2>1, <2>3
      <3> QED
        BY <1>2, <2>1, <2>3, <3>1 DEF UserCounts
    <2> QED
      BY <2>2, <2>3
  <1> QED
    BY <1>1, <1>2, <1>3, <1>5 DEF Counts

\* They are a sequence.
LEMMA CallsAreSequence ==
    ASSUME NEW a, NEW m, NEW calls, AtWork(a, m, calls)
    PROVE  \E S : calls \in Seq(S)
  <1>1. CASE calls = << >>
    <2>1. calls \in Seq({})
      BY <1>1
    <2> QED
      BY <2>1
  <1>2. ASSUME NEW u \in USERS, NEW c \in USERS, Forking(a, m, calls, u, c)
        PROVE  \E S : calls \in Seq(S)
    <2> DEFINE S == {SendRec(SYSTASK, ForkRequest(u, c)), TellFS, System("SYS_NEWMAP", c),
                     Reply(c), Reply(u)}
    <2>1. \/ calls = <<SendRec(SYSTASK, ForkRequest(u, c)), TellFS, System("SYS_NEWMAP", c),
                      Reply(c), Reply(u)>>
          \/ calls \in {Forked1(c, u), Forked2(c, u), Forked3(c, u)}
      BY <1>2 DEF Forking, ForkBegins, ForkEnds
    <2>2. Forked1(c, u) \in Seq(S) /\ Forked2(c, u) \in Seq(S) /\ Forked3(c, u) \in Seq(S)
      BY DEF Forked1, Forked2, Forked3
    <2>3. <<SendRec(SYSTASK, ForkRequest(u, c)), TellFS, System("SYS_NEWMAP", c),
            Reply(c), Reply(u)>> \in Seq(S)
      OBVIOUS
    <2>4. calls \in Seq(S)
      BY <2>1, <2>2, <2>3
    <2> QED
      BY <2>4
  <1>3. ASSUME NEW u \in USERS, Executing(a, m, calls, u) PROVE \E S : calls \in Seq(S)
    <2>1. calls = << >> \/ calls = <<System("SYS_EXEC", u)>>
      BY <1>3 DEF Executing
    <2> DEFINE S == {System("SYS_EXEC", u)}
    <2>2. << >> \in Seq(S) /\ <<System("SYS_EXEC", u)>> \in Seq(S)
      OBVIOUS
    <2> QED
      BY <2>1, <2>2
  <1>4. ASSUME NEW u \in USERS, NEW v \in USERS, Resuming(a, m, calls, u, v)
        PROVE  \E S : calls \in Seq(S)
    <2>1. calls = <<Reply(u)>> \/ calls = <<System("T_RESUME", v), Reply(u)>>
      BY <1>4 DEF Resuming
    <2> DEFINE S == {System("T_RESUME", v), Reply(u)}
    <2>2. <<Reply(u)>> \in Seq(S) /\ <<System("T_RESUME", v), Reply(u)>> \in Seq(S)
      OBVIOUS
    <2> QED
      BY <2>1, <2>2
  <1>5. ASSUME NEW u \in USERS, Signalling(m, calls, u) PROVE \E S : calls \in Seq(S)
    BY <1>5 DEF Signalling
  <1> QED
    BY <1>1, <1>2, <1>3, <1>4, <1>5 DEF AtWork

\* The calls that end signals of u, wherever they are, are a number.
LEMMA EndsLeftNumber ==
    ASSUME NEW a, NEW t, MMInOrder(a, t), NEW u
    PROVE  EndsIn(t[MM], u) \in Nat /\ EndsGot(a.inbox[MM], u) \in Nat /\ EndsLeft(a, t, u) \in Nat
  <1>1. EndsIn(t[MM], u) \in Nat
    BY CallsAreSequence, EndsNumber DEF MMInOrder
  <1>2. EndsGot(a.inbox[MM], u) \in Nat
    <2>1. CASE a.inbox[MM].m_type = "KSIG"
      <3>1. MMHas(a, a.inbox[MM])
        BY <2>1 DEF MMInOrder
      <3>2. PICK v \in a.in_use, map \in SUBSET Sigs : a.inbox[MM] = Ksig(v, map)
        BY <2>1, <3>1, SignedFields DEF MMHas, MMCalls
      <3>3. Cardinality(map) \in Nat /\ a.inbox[MM].SIG_MAP = map
        BY <3>2, PendingFinite, SignedFields
      <3> QED
        BY <3>3 DEF EndsGot
    <2>2. CASE a.inbox[MM].m_type # "KSIG"
      BY <2>2 DEF EndsGot
    <2> QED
      BY <2>1, <2>2
  <1> QED
    BY <1>1, <1>2 DEF EndsLeft

\* Who has a signal pending is a process that MM has not finished with.
LEMMA MarkedCounted ==
    ASSUME NEW a, NEW t, SigInOrder(a, t)
    PROVE  \A u \in Marked(a) : u \in a.in_use /\ "SIG_PENDING" \in a.p_flags[u]
  <1> SUFFICES ASSUME NEW u \in Marked(a) PROVE u \in a.in_use /\ "SIG_PENDING" \in a.p_flags[u]
    OBVIOUS
  <1>1. Core(a) /\ Counts(a, t) /\ u \in USERS /\ "PENDING" \in a.p_flags[u]
    BY DEF SigInOrder, Marked
  <1>2. u \in a.in_use
    <2>1. u \notin a.in_use => Runnable(a, u)
      BY <1>1 DEF Core, Waits
    <2> QED
      BY <1>1, <2>1 DEF Runnable
  <1>3. UserCounts(a, u, EndsLeft(a, t, u)) /\ EndsLeft(a, t, u) \in Nat
    BY <1>1, <1>2, EndsLeftNumber DEF Counts, SigInOrder
  <1>4. Cardinality(a.p_pending[u]) \in Nat /\ Cardinality(a.p_pending[u]) # 0
    <2>1. a.p_pending[u] # {} /\ a.p_pending[u] \in SUBSET Sigs
      BY <1>1, <1>3 DEF UserCounts, Counts, Counted
    <2> QED
      BY <2>1, PendingFinite
  <1>5. a.p_pendcount[u] > 0
    BY <1>3, <1>4 DEF UserCounts
  <1> QED
    BY <1>2, <1>3, <1>5 DEF UserCounts

\* MM waits for anything and is told.
LEMMA ToldKeeps ==
    ASSUME NEW c, HasTables(c), NEW t, DOMAIN t = Active, SendersInOrder(c), TasksInOrder(c, t),
           c.p_sendto[MM] = NONE, c.inbox[MM] = NoMessage, c.p_getfrom[MM] = ANY, t[MM] = << >>,
           Requested(c) = NoMessage,
           Counted(c), \A v \in c.in_use : UserCounts(c, v, EndsLeft(c, t, v)),
           NEW u \in Marked(c), u \in c.in_use, NEW b, Told(c, b, u),
           Core(b), HighestRuns(b), FSInOrder(b, t)
    PROVE  SigInOrder(b, t)
  <1>1. Counts(b, t)
    BY CountsTold
  <1>2. /\ b.in_use = c.in_use /\ b.p_sendto = c.p_sendto /\ b.p_messbuf = c.p_messbuf
        /\ \A y \in Procs \ {MM} : b.p_getfrom[y] = c.p_getfrom[y] /\ b.inbox[y] = c.inbox[y]
        /\ b.p_getfrom[MM] = NONE /\ b.inbox[MM] = Ksig(u, c.p_pending[u])
    BY SigNumbers DEF Told, HasTables
  <1>3. SendersInOrder(b)
    <2>1. \A v \in USERS : b.p_getfrom[v] = c.p_getfrom[v]
      BY <1>2, SigNumbers
    <2>2. b.p_sendto[MM] # FS
      BY <1>2, SigNumbers
    <2> QED
      BY <1>2, <2>1, <2>2 DEF SendersInOrder
  <1>4. TasksInOrder(b, t)
    <2>1. \A p \in SERVERS : ServerAwaits(c, p, SYSTASK) => ServerAwaits(b, p, SYSTASK)
      BY <1>2, SigNumbers DEF ServerAwaits
    <2>2. \A x \in TASKS : b.p_getfrom[x] = c.p_getfrom[x] /\ b.inbox[x] = c.inbox[x]
      BY <1>2, SigNumbers
    <2> QED
      BY <2>1, <2>2, TasksKept
  <1>5. MMInOrder(b, t)
    <2>1. MMHas(b, b.inbox[MM])
      <3>1. c.p_pending[u] \in SUBSET Sigs
        BY DEF Counted, HasTables
      <3> QED
        BY <1>2, <3>1 DEF MMHas
    <2>2. Requested(b) = NoMessage
      BY <1>2, SigNumbers DEF Requested
    <2> QED
      BY <1>2, <2>1, <2>2, SigNumbers DEF MMInOrder, AtWork
  <1> QED
    BY <1>1, <1>3, <1>4, <1>5 DEF SigInOrder

\* MM takes a request, is told of signals, or waits.
LEMMA MMReceives ==
    ASSUME NEW a, NEW t, SigInOrder(a, t), MM = a.proc_ptr, a.inbox[MM] = NoMessage,
           t[MM] = << >>, NEW m
    PROVE  SigInOrder(sys_call(a, "RECEIVE", ANY, m).k, t)
  <1> DEFINE b == sys_call(a, "RECEIVE", ANY, m).k
  <1>1. /\ SendersInOrder(a) /\ TasksInOrder(a, t) /\ FSInOrder(a, t) /\ MMInOrder(a, t)
        /\ Counts(a, t) /\ DOMAIN t = Active /\ Typed(a) /\ Core(a) /\ HighestRuns(a)
        /\ FS \in Procs \ USERS /\ MM \in Procs \ USERS /\ FS # MM
    BY SigNumbers DEF SigInOrder, Core
  <1>2. /\ a.inbox[SYSTASK] = NoMessage /\ a.p_getfrom[MM] = NONE /\ a.p_sendto[MM] = NONE
        /\ ~FSNext(a) /\ a.p_getfrom[FS] \in {NONE, ANY}
        /\ Requested(a) = NoMessage
    BY MMRuns, ServersAtWork, SigNumbers
  <1>3. a.sig_procs \in Nat /\ (a.sig_procs # 0 => Marked(a) # {})
    <2>1. IsFiniteSet(Marked(a))
      BY SigNumbers, FS_Subset DEF Marked
    <2> QED
      BY <1>1, <2>1, FS_CardinalityType, FS_EmptySet DEF Counts, Counted
  <1>4. \A v \in Marked(a) : v \in a.in_use /\ "SIG_PENDING" \in a.p_flags[v]
    BY MarkedCounted
  <1>5. /\ Core(b) /\ HighestRuns(b)
        /\ \/ \E s \in Procs : a.p_sendto[s] = MM /\ TookFrom(a, b, MM, s)
           \/ a.sig_procs = 0 /\ WaitsFor(a, b, MM, ANY)
           \/ \E c : WaitsFor(a, c, MM, ANY) /\ \E u \in Marked(c) : Told(c, b, u)
    BY <1>1, <1>3, <1>4, MMReceiveCore, SigNumbers
  <1> HIDE DEF b
  <1>6. ASSUME NEW s \in Procs, a.p_sendto[s] = MM, TookFrom(a, b, MM, s)
        PROVE  SigInOrder(b, t)
    <2>1. s \in USERS /\ MM # NONE
      BY <1>1, <1>6, SigNumbers DEF SendersInOrder, Procs
    <2>2. /\ SameSignals(a, b) /\ b.p_getfrom = a.p_getfrom
          /\ b.in_use = a.in_use /\ b.p_flags = a.p_flags
          /\ \A y \in Procs \ {s} : /\ b.p_sendto[y] = a.p_sendto[y]
                                    /\ b.p_messbuf[y] = a.p_messbuf[y]
          /\ \A y \in Procs \ {MM} : b.inbox[y] = a.inbox[y]
          /\ b.p_sendto[s] = NONE /\ b.p_messbuf[s] = NoMessage
          /\ b.inbox[MM] = a.p_messbuf[s] /\ s # MM /\ a.p_getfrom[s] = MM
      <3>1. a.p_getfrom[s] = MM /\ s # MM
        BY <1>1, <1>6, <2>1, SigNumbers DEF SendersInOrder
      <3> QED
        BY <1>1, <1>6, <3>1 DEF TookFrom, Typed, SameSignals
    <2>3. PICK type \in MMCalls : b.inbox[MM] = Message(s, type)
      BY <1>1, <1>6, <2>1, <2>2 DEF SendersInOrder
    <2>4. s \in a.in_use
      <3>1. s \notin a.in_use => Runnable(a, s)
        BY <1>1, <2>1 DEF Core, Waits
      <3> QED
        BY <1>6, <2>1, <3>1 DEF Runnable
    <2>5. SendersInOrder(b)
      <3>1. \A u \in USERS : \/ u = s
                             \/ b.p_sendto[u] = a.p_sendto[u] /\ b.p_messbuf[u] = a.p_messbuf[u]
        BY <2>2, SigNumbers
      <3>2. \A p \in TASKS \cup {FS, MM} : b.p_sendto[p] = a.p_sendto[p]
        BY <2>1, <2>2, SigNumbers
      <3>3. b.p_messbuf[MM] = a.p_messbuf[MM]
        BY <1>1, <2>2
      <3>4. NONE # MM /\ NONE # FS
        BY SigNumbers
      <3>5. \A u \in USERS : /\ b.p_getfrom[u] \in {NONE, MM, FS}
                             /\ b.p_sendto[u] # NONE => b.p_sendto[u] = b.p_getfrom[u]
                             /\ b.p_sendto[u] = MM =>
                                  \E ty \in MMCalls : b.p_messbuf[u] = Message(u, ty)
                             /\ b.p_sendto[u] = FS => b.p_messbuf[u] = Message(u, "WRITE")
        BY <1>1, <2>2, <3>1, <3>4 DEF SendersInOrder
      <3> QED
        BY <1>1, <2>2, <3>2, <3>3, <3>5 DEF SendersInOrder
    <2>6. \A x \in TASKS \cup {FS} : b.inbox[x] = a.inbox[x]
      BY <2>2, SigNumbers
    <2>7. TasksInOrder(b, t)
      <3>1. \A p \in SERVERS : ServerAwaits(a, p, SYSTASK) => ServerAwaits(b, p, SYSTASK)
        BY <2>1, <2>2, SigNumbers DEF ServerAwaits
      <3> QED
        BY <1>1, <2>2, <2>6, <3>1, TasksKept
    <2>8. \A v \in USERS : \A p \in {MM, FS} :
            AwaitsAnswer(a, v, p) => v # s /\ AwaitsAnswer(b, v, p)
      BY <1>6, <2>1, <2>2, SigNumbers DEF AwaitsAnswer
    <2>9. FSInOrder(b, t)
      <3>1. ServerAwaits(a, MM, FS) => ServerAwaits(b, MM, FS)
        BY <1>1, <2>2 DEF ServerAwaits
      <3>2. a.p_getfrom[FS] # SYSTASK
        BY <1>2, SigNumbers
      <3> QED
        BY <1>1, <1>2, <2>2, <2>6, <2>8, <3>1, <3>2, FSKept
    <2>10. MMInOrder(b, t)
      <3>1. AwaitsAnswer(b, s, MM)
        BY <2>2, <2>4 DEF AwaitsAnswer
      <3>2. MMHas(b, b.inbox[MM])
        BY <2>1, <2>3, <3>1 DEF MMHas
      <3>3. Requested(b) = NoMessage
        BY <1>2, <2>6, SigNumbers DEF Requested
      <3>4. b.p_getfrom[MM] = NONE /\ NONE # ANY
        BY <1>2, <2>2, SigNumbers
      <3> QED
        BY <3>2, <3>3, <3>4 DEF MMInOrder, AtWork
    <2>11. Counts(b, t)
      <3>1. \A v : EndsGot(b.inbox[MM], v) = 0 /\ EndsGot(a.inbox[MM], v) = 0
        BY <2>3, SignedFields DEF EndsGot, MMCalls
      <3>2. b.p_messbuf[MM] = a.p_messbuf[MM] /\ b.inbox[SYSTASK] = a.inbox[SYSTASK]
        BY <1>1, <2>2, <2>6, SigNumbers
      <3>3. \A v : EndsLeft(b, t, v) = EndsLeft(a, t, v)
        BY <3>1, <3>2 DEF EndsLeft
      <3>4. a.in_use \subseteq USERS
        BY <1>1 DEF Typed
      <3> QED
        BY <1>1, <2>2, <3>3, <3>4, CountsKept
    <2> QED
      BY <1>1, <1>5, <2>5, <2>7, <2>9, <2>10, <2>11 DEF SigInOrder
  <1>7. ASSUME NEW c, WaitsFor(a, c, MM, ANY)
        PROVE  /\ SendersInOrder(c) /\ TasksInOrder(c, t) /\ FSInOrder(c, t)
               /\ c.p_sendto[MM] = NONE /\ c.inbox[MM] = NoMessage /\ c.p_getfrom[MM] = ANY
               /\ \A v : EndsLeft(c, t, v) = EndsLeft(a, t, v)
               /\ Requested(c) = NoMessage
    <2>1. /\ SameSignals(a, c) /\ c.p_sendto = a.p_sendto /\ c.p_messbuf = a.p_messbuf
          /\ c.in_use = a.in_use /\ c.p_flags = a.p_flags /\ c.inbox = a.inbox
          /\ \A y \in Procs \ {MM} : c.p_getfrom[y] = a.p_getfrom[y]
          /\ c.p_getfrom[MM] = ANY
      BY <1>1, <1>7 DEF WaitsFor, Typed, SameSignals
    <2>2. SendersInOrder(c)
      <3>1. c.p_sendto[MM] = NONE /\ NONE # FS
        BY <1>2, <2>1, SigNumbers
      <3>2. \A u \in USERS : c.p_getfrom[u] = a.p_getfrom[u]
        BY <2>1, SigNumbers
      <3> QED
        BY <1>1, <2>1, <3>1, <3>2 DEF SendersInOrder
    <2>3. TasksInOrder(c, t)
      <3>1. \A p \in SERVERS : ~ServerAwaits(a, p, SYSTASK)
        BY <1>2, SigNumbers DEF ServerAwaits
      <3> QED
        BY <1>1, <2>1, <3>1, SigNumbers, TasksKept
    <2>4. FSInOrder(c, t)
      <3>1. \A v \in USERS : AwaitsAnswer(a, v, FS) => AwaitsAnswer(c, v, FS)
        BY <2>1, SigNumbers DEF AwaitsAnswer
      <3>2. ~ServerAwaits(a, MM, FS) /\ a.p_getfrom[FS] # SYSTASK
        BY <1>2, SigNumbers DEF ServerAwaits
      <3>3. c.p_getfrom[FS] = a.p_getfrom[FS] /\ c.inbox[FS] = a.inbox[FS]
        BY <1>1, <2>1
      <3> QED
        BY <1>1, <1>2, <2>1, <3>1, <3>2, <3>3, FSKept
    <2>5. \A v : EndsLeft(c, t, v) = EndsLeft(a, t, v)
      BY <2>1 DEF EndsLeft
    <2>6. Requested(c) = NoMessage
      BY <1>2, <2>1 DEF Requested
    <2> QED
      BY <1>2, <2>1, <2>2, <2>3, <2>4, <2>5, <2>6
  <1>8. ASSUME a.sig_procs = 0, WaitsFor(a, b, MM, ANY) PROVE SigInOrder(b, t)
    <2>1. /\ SendersInOrder(b) /\ TasksInOrder(b, t) /\ FSInOrder(b, t)
          /\ b.inbox[MM] = NoMessage /\ b.p_getfrom[MM] = ANY
          /\ (\A v : EndsLeft(b, t, v) = EndsLeft(a, t, v)) /\ Requested(b) = NoMessage
      BY <1>7, <1>8
    <2>2. MMInOrder(b, t)
      BY <2>1, SignedFields DEF MMInOrder, AtWork
    <2>3. a.in_use \subseteq USERS /\ SameSignals(a, b)
      BY <1>1, <1>8 DEF Typed, WaitsFor
    <2>4. Counts(b, t)
      BY <1>1, <1>8, <2>1, <2>3, CountsKept
    <2> QED
      BY <1>1, <1>5, <2>1, <2>2, <2>4 DEF SigInOrder
  <1>9. ASSUME NEW c, WaitsFor(a, c, MM, ANY), NEW u \in Marked(c), Told(c, b, u)
        PROVE  SigInOrder(b, t)
    <2>1. /\ SendersInOrder(c) /\ TasksInOrder(c, t) /\ FSInOrder(c, t)
          /\ c.p_sendto[MM] = NONE /\ c.inbox[MM] = NoMessage /\ c.p_getfrom[MM] = ANY
          /\ (\A v : EndsLeft(c, t, v) = EndsLeft(a, t, v)) /\ Requested(c) = NoMessage
      BY <1>7, <1>9
    <2>2. /\ SameSignals(a, c) /\ u \in c.in_use /\ Marked(c) = Marked(a) /\ HasTables(c)
          /\ c.in_use = a.in_use /\ c.inbox = a.inbox
      BY <1>1, <1>4, <1>9 DEF WaitsFor, SameSignals, Marked, HasTables, Typed
    <2>3. Counted(c) /\ \A v \in c.in_use : UserCounts(c, v, EndsLeft(c, t, v))
      BY <1>1, <2>1, <2>2 DEF Counts, Counted, UserCounts, SameSignals
    <2>4. FSInOrder(b, t)
      <3>1. /\ b.in_use = a.in_use
            /\ \A y \in Procs \ {MM} : b.p_getfrom[y] = a.p_getfrom[y] /\ b.inbox[y] = a.inbox[y]
            /\ b.p_sendto = a.p_sendto
        BY <1>1, <1>9, <2>2 DEF Told, WaitsFor, Typed
      <3>2. \A v \in USERS : AwaitsAnswer(a, v, FS) => AwaitsAnswer(b, v, FS)
        BY <3>1, SigNumbers DEF AwaitsAnswer
      <3>3. ~ServerAwaits(a, MM, FS) /\ a.p_getfrom[FS] # SYSTASK
        BY <1>2, SigNumbers DEF ServerAwaits
      <3>4. b.p_getfrom[FS] = a.p_getfrom[FS] /\ b.inbox[FS] = a.inbox[FS]
        BY <1>1, <3>1
      <3> QED
        BY <1>1, <1>2, <3>2, <3>3, <3>4, FSKept
    <2> QED
      BY <1>1, <1>5, <1>9, <2>1, <2>2, <2>3, <2>4, ToldKeeps
  <1>10. SigInOrder(b, t)
    BY <1>5, <1>6, <1>8, <1>9
  <1> QED
    BY <1>10 DEF b

-----------------------------------------------------------------------------
(* What users do.                                                            *)

\* A user asks MM or FS.
LEMMA UserAsks ==
    ASSUME NEW a, NEW t, SigInOrder(a, t), NEW u \in USERS, u = a.proc_ptr,
           NEW dest \in SERVERS, NEW type, NEW m, m = Message(u, type),
           dest = MM => type \in MMCalls, dest = FS => type = "WRITE"
    PROVE  SigInOrder(sys_call(a, "BOTH", dest, m).k, t)
  <1> DEFINE b == sys_call(a, "BOTH", dest, m).k
  <1>1. /\ SendersInOrder(a) /\ TasksInOrder(a, t) /\ FSInOrder(a, t) /\ MMInOrder(a, t)
        /\ Counts(a, t) /\ DOMAIN t = Active /\ Typed(a) /\ Core(a) /\ HighestRuns(a)
        /\ dest \in Procs \ USERS /\ u \in Procs /\ u # MM /\ u # FS /\ MM # FS
        /\ MM \in Procs /\ FS \in Procs /\ u # dest
    BY SigNumbers DEF SigInOrder, Core
  <1>2. /\ a.p_getfrom[u] = NONE /\ a.p_sendto[u] = NONE /\ u \in a.in_use
    BY <1>1, RunsUnblocked DEF InUse
  <1>3. /\ a.p_getfrom[SYSTASK] = ANY /\ a.inbox[SYSTASK] = NoMessage /\ t[SYSTASK] = << >>
    BY TasksIdle, SigNumbers
  <1>4. /\ NONE # ANY /\ NONE # MM /\ NONE # FS /\ ANY # FS /\ ANY # SYSTASK /\ NONE # SYSTASK
        /\ u # NONE /\ u # ANY /\ u # SYSTASK /\ SYSTASK # FS /\ SYSTASK # MM /\ ANY # MM
    BY SigNumbers
  <1>5. ~Runnable(a, MM) /\ ~Runnable(a, FS) /\ ~FSNext(a)
    <2>1. \A x \in SERVERS : ~Runnable(a, x)
      BY ServersIdle
    <2>2. QueuesHoldRunnable(a) /\ "SERVER_Q" \in DOMAIN a.rdy /\ a.rdy["SERVER_Q"] \in Seq(Procs)
      BY <1>1 DEF Core, Typed, Queues
    <2>3. a.rdy["SERVER_Q"] # << >> => Head(a.rdy["SERVER_Q"]) \in Members(a.rdy["SERVER_Q"])
      BY <2>2, EmptySeq, LenProperties DEF Members
    <2>4. FS \in Members(a.rdy["SERVER_Q"]) => Runnable(a, FS)
      BY <2>2 DEF QueuesHoldRunnable
    <2> QED
      BY <2>1, <2>3, <2>4, SigNumbers DEF FSNext
  <1>6. Core(b) /\ HighestRuns(b) /\ (b = a \/ HasAsked(a, b, u, dest, m))
    BY <1>1, AskCore
  <1> HIDE DEF b
  <1>7. a.p_getfrom[FS] # SYSTASK
    <2> SUFFICES ASSUME a.p_getfrom[FS] = SYSTASK PROVE FALSE
      OBVIOUS
    <2>1. PICK v \in USERS : Kills(a, t, v)
      BY <1>1, FSWaitsForSystem
    <2>2. <<Reply(FS)>> # << >>
      OBVIOUS
    <2>3. a.inbox[SYSTASK] # Signed(Request("SYS_KILL", v), FS)
      BY <1>3, SignedFields, <1>4
    <2> QED
      BY <1>3, <2>1, <2>2, <2>3 DEF Kills
  <1>8. Requested(a) = NoMessage
    BY <1>3, SignedFields, <1>4 DEF Requested
  <1>9. Awaits(a, dest, u) => a.p_getfrom[dest] = ANY /\ t[dest] = << >> /\ a.inbox[dest] = NoMessage
    <2>1. Awaits(a, dest, u) => a.p_getfrom[dest] \in {ANY, u}
      BY DEF Awaits
    <2>2. a.p_getfrom[MM] # u /\ (a.p_getfrom[MM] = ANY => t[MM] = << >> /\ a.inbox[MM] = NoMessage)
      BY <1>1, <1>4 DEF MMInOrder
    <2>3. a.p_getfrom[FS] # u /\ (a.p_getfrom[FS] = ANY => t[FS] = << >> /\ a.inbox[FS] = NoMessage)
      BY <1>1, <1>4 DEF FSInOrder, Kills, Answers
    <2> QED
      BY <2>1, <2>2, <2>3, SigNumbers
  <1>10. ASSUME HasAsked(a, b, u, dest, m) PROVE SigInOrder(b, t)
    <2>1. /\ SameSignals(a, b) /\ b.in_use = a.in_use /\ b.p_flags = a.p_flags
          /\ \A y \in Procs \ {u, dest} : b.p_getfrom[y] = a.p_getfrom[y]
          /\ \A y \in Procs \ {dest} : b.inbox[y] = a.inbox[y]
          /\ \A y \in Procs \ {u} : b.p_sendto[y] = a.p_sendto[y] /\ b.p_messbuf[y] = a.p_messbuf[y]
          /\ b.p_getfrom[u] = dest
          /\ Awaits(a, dest, u) => b.p_getfrom[dest] = NONE /\ b.inbox[dest] = m /\ b.p_sendto[u] = NONE
          /\ ~Awaits(a, dest, u) => /\ b.p_getfrom[dest] = a.p_getfrom[dest]
                                    /\ b.inbox[dest] = a.inbox[dest]
                                    /\ b.p_sendto[u] = dest /\ b.p_messbuf[u] = m
      <3>1. SameSignals(a, b) /\ b.in_use = a.in_use /\ b.p_flags = a.p_flags
        BY <1>10 DEF HasAsked, SameSignals
      <3>2. CASE Awaits(a, dest, u)
        BY <1>1, <1>2, <1>10, <3>1, <3>2 DEF HasAsked, Typed
      <3>3. CASE ~Awaits(a, dest, u)
        BY <1>1, <1>2, <1>10, <3>1, <3>3 DEF HasAsked, Typed
      <3> QED
        BY <3>2, <3>3
    <2>2. SendersInOrder(b)
      <3>1. \A p \in TASKS \cup {MM, FS} : b.p_sendto[p] = a.p_sendto[p] /\ b.p_messbuf[p] = a.p_messbuf[p]
        BY <1>1, <2>1, SigNumbers
      <3>2. a.p_sendto[MM] = FS => b.p_getfrom[MM] = FS
        <4>1. a.p_sendto[MM] = FS => ~Awaits(a, MM, u)
          BY <1>4 DEF Awaits
        <4>2. CASE dest = MM
          BY <1>1, <2>1, <4>1, <4>2 DEF SendersInOrder
        <4>3. CASE dest # MM
          BY <1>1, <2>1, <4>3 DEF SendersInOrder
        <4> QED
          BY <4>2, <4>3
      <3>3. ASSUME NEW v \in USERS
            PROVE  /\ b.p_getfrom[v] \in {NONE, MM, FS}
                   /\ b.p_sendto[v] # NONE => b.p_sendto[v] = b.p_getfrom[v]
                   /\ b.p_sendto[v] = MM => \E ty \in MMCalls : b.p_messbuf[v] = Message(v, ty)
                   /\ b.p_sendto[v] = FS => b.p_messbuf[v] = Message(v, "WRITE")
        <4>1. CASE v = u
          BY <1>1, <1>4, <2>1, <4>1, SigNumbers
        <4>2. CASE v # u
          <5>1. v \in Procs \ {u, dest}
            BY <4>2, SigNumbers
          <5> QED
            BY <1>1, <2>1, <5>1 DEF SendersInOrder
        <4> QED
          BY <4>1, <4>2
      <3> QED
        BY <1>1, <3>1, <3>2, <3>3 DEF SendersInOrder
    <2>3. TasksInOrder(b, t)
      <3>1. \A x \in TASKS : b.p_getfrom[x] = a.p_getfrom[x] /\ b.inbox[x] = a.inbox[x]
        BY <2>1, SigNumbers
      <3>2. \A p \in SERVERS : ServerAwaits(a, p, SYSTASK) => ServerAwaits(b, p, SYSTASK)
        <4> SUFFICES ASSUME NEW p \in SERVERS, ServerAwaits(a, p, SYSTASK)
                     PROVE  ServerAwaits(b, p, SYSTASK)
          OBVIOUS
        <4>1. ~Awaits(a, p, u)
          BY <1>4 DEF Awaits, ServerAwaits
        <4>2. p \in Procs \ {u} /\ (p = dest \/ p \in Procs \ {u, dest})
          BY SigNumbers
        <4> QED
          BY <2>1, <4>1, <4>2 DEF ServerAwaits
      <3> QED
        BY <1>1, <3>1, <3>2, TasksKept
    <2>4. /\ \A v \in USERS : \A p : AwaitsAnswer(a, v, p) /\ p # NONE => AwaitsAnswer(b, v, p)
          /\ \A v \in USERS : StoppedIn(a, v) => StoppedIn(b, v)
      BY <1>2, <2>1, SigNumbers DEF AwaitsAnswer, StoppedIn
    <2>5. b.inbox[SYSTASK] = NoMessage /\ Requested(b) = NoMessage
      BY <1>3, <1>4, <2>1, SignedFields, SigNumbers DEF Requested
    <2>6. FSInOrder(b, t)
      <3>1. CASE dest = FS /\ Awaits(a, dest, u)
        <4>1. b.p_getfrom[FS] = NONE /\ b.inbox[FS] = Message(u, "WRITE") /\ t[FS] = << >>
          BY <1>9, <2>1, <3>1
        <4>2. AwaitsAnswer(b, u, FS)
          BY <1>2, <2>1, <3>1 DEF AwaitsAnswer
        <4>3. FSNext(b)
          <5>1. Typed(b) /\ b.p_sendto[FS] = NONE /\ b.p_flags[FS] = {}
            <6>1. a.p_sendto[FS] = NONE /\ b.p_sendto[FS] = a.p_sendto[FS]
              BY <1>1, <2>1 DEF SendersInOrder
            <6>2. Typed(b) /\ FS \in Procs \ USERS
              BY <1>1, <1>6, SigNumbers DEF Core
            <6> QED
              BY <6>1, <6>2 DEF Typed
          <5>2. Runnable(b, FS)
            BY <4>1, <5>1 DEF Runnable
          <5>3. ~Runnable(b, MM)
            BY <1>1, <1>5, <2>1, <3>1 DEF Runnable
          <5>4. b.rdy["SERVER_Q"] # << >> /\ Head(b.rdy["SERVER_Q"]) = FS
            BY <1>6, <5>2, <5>3, OnlyServer, SigNumbers
          <5> QED
            BY <1>4, <2>5, <5>4, SignedFields DEF FSNext
        <4> QED
          BY <4>1, <4>2, <4>3 DEF FSInOrder, Writes
      <3>2. CASE ~(dest = FS /\ Awaits(a, dest, u))
        <4>1. b.p_getfrom[FS] = a.p_getfrom[FS] /\ b.inbox[FS] = a.inbox[FS]
          BY <1>1, <2>1, <3>2
        <4>2. ServerAwaits(a, MM, FS) => ServerAwaits(b, MM, FS)
          <5>1. ServerAwaits(a, MM, FS) => ~Awaits(a, MM, u)
            BY <1>1, <1>4 DEF ServerAwaits, Awaits
          <5> QED
            BY <1>1, <2>1, <5>1 DEF ServerAwaits
        <4>3. \A v \in USERS : AwaitsAnswer(a, v, FS) => AwaitsAnswer(b, v, FS)
          BY <1>4, <2>4
        <4> QED
          BY <1>1, <1>5, <1>7, <4>1, <4>2, <4>3, FSKept
      <3> QED
        BY <3>1, <3>2
    <2>7. MMInOrder(b, t)
      <3>1. \A v \in USERS : AwaitsAnswer(a, v, MM) => AwaitsAnswer(b, v, MM)
        BY <1>4, <2>4
      <3>2. CASE dest = MM /\ Awaits(a, dest, u)
        <4>1. b.p_getfrom[MM] = NONE /\ b.inbox[MM] = m /\ t[MM] = << >>
          BY <1>9, <2>1, <3>2
        <4>2. AwaitsAnswer(b, u, MM)
          BY <1>2, <2>1, <3>2 DEF AwaitsAnswer
        <4>3. MMHas(b, b.inbox[MM])
          BY <3>2, <4>1, <4>2 DEF MMHas
        <4> QED
          BY <1>4, <2>5, <4>1, <4>3 DEF MMInOrder, AtWork
      <3>3. CASE ~(dest = MM /\ Awaits(a, dest, u))
        <4>1. b.p_getfrom[MM] = a.p_getfrom[MM] /\ b.inbox[MM] = a.inbox[MM]
          BY <1>1, <2>1, <3>3
        <4> QED
          BY <1>1, <1>8, <2>1, <2>4, <2>5, <3>1, <4>1, MMKept
      <3> QED
        BY <3>2, <3>3
    <2>8. Counts(b, t)
      <3>1. \A v : EndsGot(b.inbox[MM], v) = EndsGot(a.inbox[MM], v)
        <4>1. CASE dest = MM /\ Awaits(a, dest, u)
          BY <1>9, <2>1, <4>1, SignedFields DEF EndsGot, MMCalls
        <4>2. CASE ~(dest = MM /\ Awaits(a, dest, u))
          BY <1>1, <2>1, <4>2
        <4> QED
          BY <4>1, <4>2
      <3>2. b.inbox[SYSTASK] = a.inbox[SYSTASK] /\ b.p_messbuf[MM] = a.p_messbuf[MM]
        BY <1>1, <1>3, <2>1, <2>5
      <3>3. \A v : EndsLeft(b, t, v) = EndsLeft(a, t, v)
        BY <3>1, <3>2 DEF EndsLeft
      <3>4. a.in_use \subseteq USERS /\ (b.p_getfrom[MM] = ANY => a.p_getfrom[MM] = ANY)
        BY <1>1, <1>4, <2>1 DEF Typed
      <3> QED
        BY <1>1, <2>1, <3>3, <3>4, CountsKept
    <2> QED
      BY <1>1, <1>6, <2>2, <2>3, <2>6, <2>7, <2>8 DEF SigInOrder
  <1>11. SigInOrder(b, t)
    BY <1>6, <1>10
  <1> QED
    BY <1>11 DEF b

-----------------------------------------------------------------------------
(* A piece of work begins: what is received becomes calls.                   *)

Clear(a, p) == [a EXCEPT !.inbox[p] = NoMessage]

\* A process that forgets what it had received changes nothing else.
LEMMA Cleared ==
    ASSUME NEW a, Core(a), HighestRuns(a), NEW p \in Procs
    PROVE  LET b == Clear(a, p) IN
           /\ Core(b) /\ HighestRuns(b) /\ SameSignals(a, b) /\ HeadKept(a, b)
           /\ b.in_use = a.in_use /\ b.p_flags = a.p_flags /\ b.p_messbuf = a.p_messbuf
           /\ b.p_getfrom = a.p_getfrom /\ b.p_sendto = a.p_sendto
           /\ b.inbox[p] = NoMessage /\ \A q \in Procs \ {p} : b.inbox[q] = a.inbox[q]
  <1> DEFINE b == Clear(a, p)
  <1>1. Typed(a)
    BY DEF Core
  <1>2. /\ SameCore(a, b) /\ SameSignals(a, b) /\ b.p_messbuf = a.p_messbuf
        /\ b.in_use = a.in_use /\ b.p_flags = a.p_flags /\ b.rdy = a.rdy
        /\ b.p_getfrom = a.p_getfrom /\ b.p_sendto = a.p_sendto
        /\ b.inbox = [a.inbox EXCEPT ![p] = NoMessage]
    BY <1>1 DEF SameCore, SameWaits, SameDomains, SameSignals, Typed, Fields, Clear
  <1> HIDE DEF b
  <1>3. b.inbox[p] = NoMessage /\ \A q \in Procs \ {p} : b.inbox[q] = a.inbox[q]
    BY <1>1, <1>2 DEF Typed
  <1>4. Core(b) /\ HighestRuns(b) /\ HeadKept(a, b)
    BY <1>2, SameCoreKeeps DEF HeadKept
  <1> QED
    BY <1>2, <1>3, <1>4 DEF b

\* MM begins.
LEMMA MMBegins ==
    ASSUME NEW a, NEW t, SigInOrder(a, t), MM = a.proc_ptr, t[MM] = << >>,
           NEW calls, AtWork(a, NoMessage, calls),
           \A u : EndsIn(calls, u) = EndsGot(a.inbox[MM], u)
    PROVE  SigInOrder(Clear(a, MM), [t EXCEPT ![MM] = calls])
  <1> DEFINE b == Clear(a, MM)
             r == [t EXCEPT ![MM] = calls]
  <1>1. /\ SendersInOrder(a) /\ TasksInOrder(a, t) /\ MMInOrder(a, t)
        /\ Counts(a, t) /\ DOMAIN t = Active /\ Typed(a) /\ Core(a) /\ HighestRuns(a)
        /\ MM \in Procs /\ FS \in Procs /\ SYSTASK \in Procs /\ MM # SYSTASK /\ MM # FS
    BY SigNumbers DEF SigInOrder, Core
  <1>2. /\ a.inbox[SYSTASK] = NoMessage /\ a.p_getfrom[MM] = NONE /\ a.p_sendto[MM] = NONE
        /\ ~FSNext(a) /\ a.p_getfrom[FS] \in {NONE, ANY} /\ FSInOrder(a, t)
    BY MMRuns
  <1>3. /\ Core(b) /\ HighestRuns(b) /\ SameSignals(a, b)
        /\ b.in_use = a.in_use /\ b.p_flags = a.p_flags /\ b.p_messbuf = a.p_messbuf
        /\ b.p_getfrom = a.p_getfrom /\ b.p_sendto = a.p_sendto
        /\ b.inbox[MM] = NoMessage /\ \A q \in Procs \ {MM} : b.inbox[q] = a.inbox[q]
    BY <1>1, Cleared
  <1> HIDE DEF b
  <1>4. r[MM] = calls /\ (\A x \in Active \ {MM} : r[x] = t[x]) /\ DOMAIN r = Active
    BY <1>1, SigNumbers
  <1> HIDE DEF r
  <1>5. SendersInOrder(b)
    BY <1>1, <1>3 DEF SendersInOrder
  <1>6. /\ \A v \in USERS : \A p : AwaitsAnswer(a, v, p) => AwaitsAnswer(b, v, p)
        /\ \A v \in USERS : StoppedIn(a, v) => StoppedIn(b, v)
        /\ \A p, q : ServerAwaits(a, p, q) => ServerAwaits(b, p, q)
        /\ Requested(b) = NoMessage /\ b.inbox[SYSTASK] = a.inbox[SYSTASK]
        /\ r[FS] = t[FS] /\ b.inbox[FS] = a.inbox[FS]
        /\ a.p_getfrom[FS] # SYSTASK /\ NONE # ANY
    BY <1>1, <1>2, <1>3, <1>4, SigNumbers, SignedFields
       DEF AwaitsAnswer, StoppedIn, ServerAwaits, Requested
  <1>7. TasksInOrder(b, r)
    <2>1. \A x \in TASKS : /\ b.p_getfrom[x] = a.p_getfrom[x] /\ b.inbox[x] = a.inbox[x]
                           /\ r[x] = t[x]
      BY <1>3, <1>4, SigNumbers
    <2>2. \A p \in SERVERS : ServerAwaits(a, p, SYSTASK) => ServerAwaits(b, p, SYSTASK)
      BY <1>6
    <2> QED
      BY <1>1, <2>1, <2>2, TasksKept
  <1>8. FSInOrder(b, r)
    BY <1>2, <1>3, <1>6, FSKept
  <1>9. MMInOrder(b, r)
    <2>1. AtWork(b, NoMessage, r[MM])
      BY <1>3, <1>4, <1>6, AtWorkKept
    <2> QED
      BY <1>2, <1>3, <1>6, <2>1, SignedFields DEF MMInOrder
  <1>10. Counts(b, r)
    <2>1. \A v : EndsLeft(b, r, v) = EndsLeft(a, t, v)
      <3> SUFFICES ASSUME NEW v PROVE EndsLeft(b, r, v) = EndsLeft(a, t, v)
        OBVIOUS
      <3>1. /\ EndsIn(t[MM], v) = 0 /\ EndsGot(b.inbox[MM], v) = 0
            /\ EndsGot(a.inbox[MM], v) \in Nat
        <4>1. t[MM] \in Seq({}) /\ DOMAIN t[MM] = {}
          OBVIOUS
        <4> QED
          <5>1. EndsIn(t[MM], v) = 0
            BY <4>1, EndsNumber
          <5>2. EndsGot(a.inbox[MM], v) \in Nat
            BY <1>1, EndsLeftNumber
          <5> QED
            BY <1>3, <5>1, <5>2, SignedFields DEF EndsGot
      <3> QED
        BY <1>3, <1>4, <1>6, <3>1 DEF EndsLeft
    <2>2. a.in_use \subseteq USERS /\ (b.p_getfrom[MM] = ANY => a.p_getfrom[MM] = ANY)
      BY <1>1, <1>3 DEF Typed
    <2> QED
      BY <1>1, <1>3, <2>1, <2>2, CountsKept
  <1>11. SigInOrder(b, r)
    BY <1>3, <1>4, <1>5, <1>7, <1>8, <1>9, <1>10 DEF SigInOrder
  <1> QED
    BY <1>11 DEF b, r

\* FS begins.
LEMMA FSBegins ==
    ASSUME NEW a, NEW t, SigInOrder(a, t), FS = a.proc_ptr, t[FS] = << >>, NEW calls,
           NEW type, a.inbox[FS].m_type = type, type \notin {"none", "reply"},
           LET u == a.inbox[FS].m_source IN
             \/ calls = <<Reply(u)>>
             \/ type = "WRITE" /\ calls = <<System("SYS_KILL", u), Reply(u)>>
    PROVE  SigInOrder(Clear(a, FS), [t EXCEPT ![FS] = calls])
  <1> DEFINE b == Clear(a, FS)
             r == [t EXCEPT ![FS] = calls]
  <1>1. /\ SendersInOrder(a) /\ FSInOrder(a, t)
        /\ DOMAIN t = Active /\ Typed(a) /\ Core(a) /\ HighestRuns(a)
        /\ MM \in Procs /\ FS \in Procs /\ SYSTASK \in Procs /\ FS # SYSTASK /\ MM # FS
    BY SigNumbers DEF SigInOrder, Core
  <1>2. a.p_getfrom[FS] = NONE /\ a.inbox[SYSTASK] = NoMessage /\ NONE # ANY /\ NONE # SYSTASK
    BY RunsUnblocked, ServersAtWork, SigNumbers
  <1>3. /\ Core(b) /\ HighestRuns(b) /\ SameSignals(a, b) /\ HeadKept(a, b)
        /\ b.in_use = a.in_use /\ b.p_flags = a.p_flags /\ b.p_messbuf = a.p_messbuf
        /\ b.p_getfrom = a.p_getfrom /\ b.p_sendto = a.p_sendto
        /\ b.inbox[FS] = NoMessage /\ \A q \in Procs \ {FS} : b.inbox[q] = a.inbox[q]
    <2> HIDE DEF r
    <2>1. FS \in Procs /\ Core(a) /\ HighestRuns(a)
      BY <1>1
    <2> QED
      BY <2>1, Cleared
  <1> HIDE DEF b
  <1>4. r[FS] = calls /\ (\A x \in Active \ {FS} : r[x] = t[x]) /\ DOMAIN r = Active
    BY <1>1, SigNumbers
  <1> HIDE DEF r
  <1>5. TasksInOrder(a, r) /\ MMInOrder(a, r) /\ Counts(a, r)
    BY <1>4, OtherCallsKept
  <1>6. SendersInOrder(b)
    BY <1>1, <1>3 DEF SendersInOrder
  <1>7. /\ \A v : \A p : AwaitsAnswer(a, v, p) => AwaitsAnswer(b, v, p)
        /\ \A v \in USERS : StoppedIn(a, v) => StoppedIn(b, v)
        /\ \A p, q : ServerAwaits(a, p, q) => ServerAwaits(b, p, q)
        /\ Requested(b) = Requested(a) /\ b.inbox[SYSTASK] = a.inbox[SYSTASK]
        /\ b.inbox[MM] = a.inbox[MM]
    BY <1>1, <1>3 DEF AwaitsAnswer, StoppedIn, ServerAwaits, Requested
  <1>8. TasksInOrder(b, r)
    <2>1. \A x \in TASKS : b.p_getfrom[x] = a.p_getfrom[x] /\ b.inbox[x] = a.inbox[x]
      BY <1>3, SigNumbers
    <2>2. \A p \in SERVERS : ServerAwaits(a, p, SYSTASK) => ServerAwaits(b, p, SYSTASK)
      BY <1>7
    <2> QED
      BY <1>5, <2>1, <2>2, TasksKept
  <1>9. FSInOrder(b, r)
    <2>1. b.p_getfrom[FS] = NONE /\ b.inbox[FS] = NoMessage /\ b.inbox[FS].m_type = "none"
      BY <1>2, <1>3, SignedFields
    <2>2. CASE a.inbox[FS] = Message(MM, "tell_fs") /\ ServerAwaits(a, MM, FS)
      <3>1. r[FS] = <<Reply(MM)>>
        BY <1>4, <2>2, SignedFields
      <3> QED
        BY <1>7, <2>1, <2>2, <3>1 DEF FSInOrder
    <2>3. ASSUME NEW u \in USERS, Writes(a, t, u), AwaitsAnswer(a, u, FS), FSNext(a)
          PROVE  FSInOrder(b, r)
      <3>1. a.inbox[FS] = Message(u, "WRITE")
        <4>1. <<System("SYS_KILL", u), Reply(u)>> # << >>
          OBVIOUS
        <4> QED
          BY <2>3, <4>1 DEF Writes
      <3>2. r[FS] = <<Reply(u)>> \/ r[FS] = <<System("SYS_KILL", u), Reply(u)>>
        BY <1>4, <3>1, SignedFields
      <3>3. AwaitsAnswer(b, u, FS)
        BY <1>7, <2>3
      <3>4. FSNext(b)
        BY <1>3, <1>7, <2>3 DEF FSNext, HeadKept
      <3> QED
        BY <2>1, <3>2, <3>3, <3>4 DEF FSInOrder, Writes, Answers
    <2>4. \A u : <<Reply(u)>> # << >>
      OBVIOUS
    <2>5. a.inbox[FS].m_type \notin {"none", "reply"} /\ a.inbox[FS] # NoMessage
      BY SignedFields
    <2> QED
      BY <1>1, <1>2, <2>2, <2>3, <2>4, <2>5 DEF FSInOrder, Kills, Answers
  <1>10. MMInOrder(b, r)
    <2>1. \A v \in USERS : AwaitsAnswer(a, v, MM) => AwaitsAnswer(b, v, MM)
      BY <1>7
    <2> QED
      BY <1>3, <1>5, <1>7, <2>1, MMKept
  <1>11. Counts(b, r)
    <2>1. \A v : EndsLeft(b, r, v) = EndsLeft(a, r, v)
      BY <1>3, <1>7 DEF EndsLeft
    <2>2. a.in_use \subseteq USERS /\ (b.p_getfrom[MM] = ANY => a.p_getfrom[MM] = ANY)
      BY <1>1, <1>3 DEF Typed
    <2> QED
      BY <1>3, <1>5, <2>1, <2>2, CountsKept
  <1>12. SigInOrder(b, r)
    BY <1>3, <1>4, <1>6, <1>8, <1>9, <1>10, <1>11 DEF SigInOrder
  <1> QED
    BY <1>12 DEF b, r

-----------------------------------------------------------------------------
(* A signal is caused.                                                       *)

\* It is counted, before MM is told.
LEMMA NotedCounts ==
    ASSUME NEW a, NEW t, SigInOrder(a, t), NEW u \in a.in_use,
           NEW sig \in Sigs, sig \notin a.p_pending[u],
           NEW c, Noted(a, c, u, sig),
           c.p_flags = [a.p_flags EXCEPT ![u] = @ \cup {"PENDING", "SIG_PENDING"}],
           c.sig_procs = a.sig_procs + (IF "PENDING" \in a.p_flags[u] THEN 0 ELSE 1)
    PROVE  /\ Counted(c) /\ u \in Marked(c)
           /\ \A v \in c.in_use : UserCounts(c, v, EndsLeft(c, t, v))
  <1>1. /\ Typed(a) /\ Counts(a, t) /\ Counted(a) /\ u \in USERS /\ u \in Procs
        /\ IsFiniteSet(USERS) /\ c.in_use = a.in_use /\ a.in_use \subseteq USERS
    BY SigNumbers DEF SigInOrder, Core, Typed, Counts, Noted
  <1>2. /\ c.p_flags[u] = a.p_flags[u] \cup {"PENDING", "SIG_PENDING"}
        /\ c.p_pending[u] = a.p_pending[u] \cup {sig}
        /\ c.p_pendcount[u] = a.p_pendcount[u] + 1
        /\ \A v \in USERS \ {u} : /\ c.p_flags[v] = a.p_flags[v]
                                  /\ c.p_pending[v] = a.p_pending[v]
                                  /\ c.p_pendcount[v] = a.p_pendcount[v]
    BY <1>1, SigNumbers DEF Typed, Noted
  <1>3. \A v : EndsLeft(c, t, v) = EndsLeft(a, t, v)
    BY DEF EndsLeft, Noted
  <1>4. Counted(c) /\ u \in Marked(c)
    <2>1. Marked(c) = Marked(a) \cup {u}
      BY <1>1, <1>2 DEF Marked
    <2>2. IsFiniteSet(Marked(a)) /\ (u \in Marked(a) <=> "PENDING" \in a.p_flags[u])
      BY <1>1, FS_Subset DEF Marked
    <2>3. Cardinality(Marked(c)) = Cardinality(Marked(a))
                                     + (IF "PENDING" \in a.p_flags[u] THEN 0 ELSE 1)
      <3>1. Cardinality(Marked(a)) \in Nat
        BY <2>2, FS_CardinalityType
      <3>2. Cardinality(Marked(a) \cup {u}) = IF u \in Marked(a) THEN Cardinality(Marked(a))
                                              ELSE Cardinality(Marked(a)) + 1
        BY <2>2, FS_AddElement
      <3> QED
        BY <2>1, <2>2, <3>1, <3>2
    <2>4. \A v \in USERS : c.p_pending[v] \subseteq Sigs
      BY <1>1, <1>2 DEF Counted
    <2>5. \A v \in USERS \ c.in_use : c.p_pending[v] = {}
      BY <1>1, <1>2 DEF Counted
    <2> QED
      BY <1>1, <2>1, <2>3, <2>4, <2>5 DEF Counted
  <1>5. ASSUME NEW v \in c.in_use PROVE UserCounts(c, v, EndsLeft(c, t, v))
    <2>1. v \in USERS /\ UserCounts(a, v, EndsLeft(a, t, v)) /\ EndsLeft(a, t, v) \in Nat
      BY <1>1, <1>5, EndsLeftNumber DEF Counts, SigInOrder
    <2>2. CASE v = u
      <3>1. IsFiniteSet(a.p_pending[u]) /\ Cardinality(a.p_pending[u]) \in Nat
        BY <1>1, PendingFinite DEF Counted
      <3>2. Cardinality(a.p_pending[u] \cup {sig}) = Cardinality(a.p_pending[u]) + 1
        BY <3>1, FS_AddElement
      <3>3. a.p_pendcount[u] = Cardinality(a.p_pending[u]) + EndsLeft(a, t, u)
        BY <2>1, <2>2 DEF UserCounts
      <3>4. /\ c.p_pendcount[u] = Cardinality(c.p_pending[u]) + EndsLeft(c, t, u)
            /\ c.p_pendcount[u] > 0
        BY <1>2, <1>3, <2>1, <2>2, <3>1, <3>2, <3>3
      <3>5. c.p_pending[u] # {} /\ "PENDING" \in c.p_flags[u] /\ "SIG_PENDING" \in c.p_flags[u]
        BY <1>2
      <3> QED
        BY <2>2, <3>4, <3>5 DEF UserCounts
    <2>3. CASE v # u
      BY <1>2, <1>3, <2>1, <2>3 DEF UserCounts
    <2> QED
      BY <2>2, <2>3
  <1> QED
    BY <1>4, <1>5

\* cause_sig on a process in use keeps everything in order.
LEMMA CauseKeeps ==
    ASSUME NEW a, NEW t, SigInOrder(a, t), NEW u \in a.in_use, NEW sig \in Sigs
    PROVE  /\ SigInOrder(cause_sig(a, u, sig), t)
           /\ cause_sig(a, u, sig).inbox[SYSTASK] = a.inbox[SYSTASK]
           /\ cause_sig(a, u, sig).in_use = a.in_use
  <1> DEFINE b == cause_sig(a, u, sig)
  <1>1. /\ SendersInOrder(a) /\ TasksInOrder(a, t) /\ FSInOrder(a, t) /\ MMInOrder(a, t)
        /\ Counts(a, t) /\ DOMAIN t = Active /\ Typed(a) /\ Core(a) /\ HighestRuns(a)
        /\ u \in USERS /\ u \in Procs /\ a.in_use \subseteq USERS
    BY SigNumbers DEF SigInOrder, Core, Typed
  <1>2. \A v \in Marked(a) : v \in a.in_use /\ "SIG_PENDING" \in a.p_flags[v]
    BY MarkedCounted
  <1>3. a.p_getfrom[MM] = ANY =>
          /\ a.p_sendto[MM] = NONE /\ t[MM] = << >> /\ a.inbox[MM] = NoMessage
          /\ Requested(a) = NoMessage
    <2> SUFFICES ASSUME a.p_getfrom[MM] = ANY
                 PROVE  /\ a.p_sendto[MM] = NONE /\ t[MM] = << >> /\ a.inbox[MM] = NoMessage
                        /\ Requested(a) = NoMessage
      OBVIOUS
    <2>1. a.p_sendto[MM] = NONE
      BY <1>1, SigNumbers DEF SendersInOrder
    <2>2. t[MM] = << >> /\ a.inbox[MM] = NoMessage
      BY <1>1, SigNumbers DEF MMInOrder
    <2>3. Requested(a) = NoMessage
      <3>1. a.inbox[SYSTASK].m_source = MM => ServerAwaits(a, MM, SYSTASK)
        BY <1>1, SigNumbers DEF TasksInOrder, TaskInOrder, SystemAsked
      <3>2. SYSTASK # ANY
        BY SigNumbers
      <3> QED
        BY <3>1, <3>2 DEF Requested, ServerAwaits
    <2> QED
      BY <2>1, <2>2, <2>3
  <1>4. Core(b) /\ HighestRuns(b) /\ HeadKept(a, b) /\ Caused(a, b, u, sig)
    BY <1>1, <1>2, <1>3, SigNumbers, CauseSigCore
  <1> HIDE DEF b
  <1>5. ASSUME NEW c, Noted(a, c, u, sig), sig \notin a.p_pending[u],
               c.p_flags = [a.p_flags EXCEPT ![u] = @ \cup {"PENDING", "SIG_PENDING"}],
               c.sig_procs = a.sig_procs + (IF "PENDING" \in a.p_flags[u] THEN 0 ELSE 1)
        PROVE  /\ HasTables(c) /\ SendersInOrder(c) /\ TasksInOrder(c, t) /\ MMInOrder(c, t)
               /\ Counted(c) /\ u \in Marked(c) /\ c.in_use = a.in_use /\ c.inbox = a.inbox
               /\ c.p_getfrom = a.p_getfrom /\ c.p_sendto = a.p_sendto
               /\ \A v \in c.in_use : UserCounts(c, v, EndsLeft(c, t, v))
               /\ Requested(c) = Requested(a)
    <2>1. /\ c.in_use = a.in_use /\ c.p_getfrom = a.p_getfrom /\ c.p_sendto = a.p_sendto
          /\ c.inbox = a.inbox /\ c.p_messbuf = a.p_messbuf
      BY <1>5 DEF Noted
    <2>2. HasTables(c)
      BY <1>1, <1>5, <2>1 DEF HasTables, Typed, Noted
    <2>3. SendersInOrder(c)
      BY <1>1, <2>1 DEF SendersInOrder
    <2>4. TasksInOrder(c, t)
      BY <1>1, <2>1, TasksKept DEF ServerAwaits
    <2>5. Requested(c) = Requested(a)
      BY <2>1 DEF Requested
    <2>6. \A v \in USERS : StoppedIn(a, v) => StoppedIn(c, v)
      BY <1>1, <1>5, <2>1, SigNumbers DEF StoppedIn, Typed
    <2>7. MMInOrder(c, t)
      <3>1. \A v \in USERS : AwaitsAnswer(a, v, MM) => AwaitsAnswer(c, v, MM)
        BY <2>1 DEF AwaitsAnswer
      <3> QED
        BY <1>1, <2>1, <2>5, <2>6, <3>1, MMKept
    <2>8. /\ Counted(c) /\ u \in Marked(c)
          /\ \A v \in c.in_use : UserCounts(c, v, EndsLeft(c, t, v))
      BY <1>5, NotedCounts, SMTT(30)
    <2> QED
      BY <2>1, <2>2, <2>3, <2>4, <2>5, <2>7, <2>8
  <1>6. ASSUME b.in_use = a.in_use, b.p_sendto = a.p_sendto,
               \A y \in Procs \ {MM} : b.p_getfrom[y] = a.p_getfrom[y] /\ b.inbox[y] = a.inbox[y],
               b.p_getfrom[MM] = a.p_getfrom[MM] \/ a.p_getfrom[MM] = ANY
        PROVE  FSInOrder(b, t)
    <2>1. /\ FS \in Procs /\ SYSTASK \in Procs /\ MM # FS /\ MM # SYSTASK /\ ANY # FS
          /\ MM \notin USERS /\ USERS \subseteq Procs
      BY SigNumbers
    <2>2. b.p_getfrom[FS] = a.p_getfrom[FS] /\ b.inbox[FS] = a.inbox[FS]
          /\ b.inbox[SYSTASK] = a.inbox[SYSTASK]
      BY <1>6, <2>1
    <2>3. FSNext(a) => FSNext(b)
      BY <1>4, <2>2 DEF FSNext, HeadKept
    <2>4. ServerAwaits(a, MM, FS) => ServerAwaits(b, MM, FS)
      BY <1>6, <2>1 DEF ServerAwaits
    <2>5. \A v \in USERS : AwaitsAnswer(a, v, FS) => AwaitsAnswer(b, v, FS)
      BY <1>6, <2>1 DEF AwaitsAnswer
    <2> QED
      BY <1>1, <1>6, <2>2, <2>3, <2>4, <2>5, FSKept
  <1>7. ASSUME b = a PROVE SigInOrder(b, t)
    BY <1>7
  <1>8. ASSUME sig \notin a.p_pending[u], "PENDING" \in a.p_flags[u], Noted(a, b, u, sig),
               b.p_flags = a.p_flags, b.sig_procs = a.sig_procs
        PROVE  SigInOrder(b, t)
    <2>1. u \in Marked(a) /\ "SIG_PENDING" \in a.p_flags[u] /\ a.sig_procs \in Int
      <3>1. u \in Marked(a)
        BY <1>1, <1>8 DEF Marked
      <3>2. IsFiniteSet(Marked(a))
        BY SigNumbers, FS_Subset DEF Marked
      <3> QED
        BY <1>1, <1>2, <3>1, <3>2, FS_CardinalityType DEF Counts, Counted
    <2>2. b.p_flags = [a.p_flags EXCEPT ![u] = @ \cup {"PENDING", "SIG_PENDING"}]
      <3>1. a.p_flags[u] \cup {"PENDING", "SIG_PENDING"} = a.p_flags[u]
        BY <1>8, <2>1
      <3>2. a.p_flags \in [Procs -> SUBSET Flags]
        BY <1>1 DEF Typed
      <3>3. [a.p_flags EXCEPT ![u] = a.p_flags[u]] = a.p_flags
        BY <3>2
      <3> QED
        BY <1>8, <3>1, <3>3
    <2>3. b.sig_procs = a.sig_procs + (IF "PENDING" \in a.p_flags[u] THEN 0 ELSE 1)
      BY <1>8, <2>1
    <2>4. /\ SendersInOrder(b) /\ TasksInOrder(b, t) /\ MMInOrder(b, t)
          /\ Counted(b) /\ b.in_use = a.in_use /\ b.inbox = a.inbox
          /\ b.p_getfrom = a.p_getfrom /\ b.p_sendto = a.p_sendto
          /\ \A v \in b.in_use : UserCounts(b, v, EndsLeft(b, t, v))
      BY <1>5, <1>8, <2>2, <2>3
    <2>5. FSInOrder(b, t)
      BY <1>6, <2>4
    <2>6. Counts(b, t)
      BY <1>1, <1>8, <2>4 DEF Counts
    <2> QED
      BY <1>1, <1>4, <2>4, <2>5, <2>6 DEF SigInOrder
  <1>9. ASSUME sig \notin a.p_pending[u], "PENDING" \notin a.p_flags[u],
               NEW c, Noted(a, c, u, sig),
               c.p_flags = [a.p_flags EXCEPT ![u] = @ \cup {"PENDING", "SIG_PENDING"}],
               c.sig_procs = a.sig_procs + 1,
               IF a.p_getfrom[MM] = ANY THEN \E p \in Marked(c) : Told(c, b, p) ELSE b = c
        PROVE  SigInOrder(b, t)
    <2>1. /\ HasTables(c) /\ SendersInOrder(c) /\ TasksInOrder(c, t) /\ MMInOrder(c, t)
          /\ Counted(c) /\ c.in_use = a.in_use /\ c.inbox = a.inbox
          /\ c.p_getfrom = a.p_getfrom /\ c.p_sendto = a.p_sendto
          /\ \A v \in c.in_use : UserCounts(c, v, EndsLeft(c, t, v))
          /\ Requested(c) = Requested(a)
      BY <1>5, <1>9
    <2>2. CASE a.p_getfrom[MM] # ANY
      <3>1. b = c
        BY <1>9, <2>2
      <3>2. FSInOrder(b, t)
        BY <1>6, <2>1, <3>1
      <3>3. Counts(b, t)
        BY <2>1, <2>2, <3>1 DEF Counts
      <3> QED
        BY <1>1, <1>4, <2>1, <3>1, <3>2, <3>3 DEF SigInOrder
    <2>3. ASSUME a.p_getfrom[MM] = ANY PROVE SigInOrder(b, t)
      <3>1. PICK p \in Marked(c) : Told(c, b, p)
        BY <1>9, <2>3
      <3>2. p \in c.in_use
        <4>1. p \in Marked(a) \/ p = u
          <5>1. p \in USERS /\ "PENDING" \in c.p_flags[p] /\ p \in Procs
            BY SigNumbers DEF Marked
          <5> QED
            BY <1>1, <1>9, <5>1 DEF Marked, Typed
        <4> QED
          BY <1>2, <2>1, <4>1
      <3>3. FSInOrder(b, t)
        <4>1. /\ b.in_use = a.in_use /\ b.p_sendto = a.p_sendto
              /\ \A y \in Procs \ {MM} : b.p_getfrom[y] = a.p_getfrom[y] /\ b.inbox[y] = a.inbox[y]
          BY <1>1, <2>1, <3>1 DEF Told, HasTables
        <4> QED
          BY <1>6, <2>3, <4>1
      <3> QED
        BY <1>1, <1>3, <1>4, <2>1, <2>3, <3>1, <3>2, <3>3, ToldKeeps
    <2> QED
      BY <2>2, <2>3
  <1>10. SigInOrder(b, t)
    <2>1. CASE \E c : /\ Noted(a, c, u, sig)
                      /\ c.p_flags = [a.p_flags EXCEPT ![u] = @ \cup {"PENDING", "SIG_PENDING"}]
                      /\ c.sig_procs = a.sig_procs + 1
                      /\ IF a.p_getfrom[MM] = ANY THEN \E p \in Marked(c) : Told(c, b, p)
                                                   ELSE b = c
                      /\ sig \notin a.p_pending[u] /\ "PENDING" \notin a.p_flags[u]
      BY <1>9, <2>1
    <2> QED
      BY <1>4, <1>7, <1>8, <2>1 DEF Caused
  <1>11. b.inbox[SYSTASK] = a.inbox[SYSTASK] /\ b.in_use = a.in_use
    <2>1. ASSUME NEW c, Noted(a, c, u, sig), NEW p, Told(c, b, p)
          PROVE  b.inbox[SYSTASK] = a.inbox[SYSTASK] /\ b.in_use = a.in_use
      BY <1>1, <2>1, SigNumbers DEF Noted, Told, Typed
    <2> QED
      BY <1>4, <2>1 DEF Caused, Noted
  <1> QED
    BY <1>10, <1>11 DEF b

-----------------------------------------------------------------------------
(* The work of the tasks ends.                                               *)

\* The clock task has done its work.
LEMMA ClockClears ==
    ASSUME NEW a, NEW t, SigInOrder(a, t), t[CLOCK] = << >>
    PROVE  SigInOrder(Clear(a, CLOCK), [t EXCEPT ![CLOCK] = << >>])
  <1> DEFINE b == Clear(a, CLOCK)
             r == [t EXCEPT ![CLOCK] = << >>]
  <1>1. /\ SendersInOrder(a) /\ TasksInOrder(a, t) /\ FSInOrder(a, t) /\ MMInOrder(a, t)
        /\ Counts(a, t) /\ DOMAIN t = Active /\ Typed(a) /\ Core(a) /\ HighestRuns(a)
        /\ CLOCK \in Procs /\ CLOCK \in TASKS
    BY SigNumbers DEF SigInOrder, Core
  <1>2. /\ Core(b) /\ HighestRuns(b) /\ SameSignals(a, b) /\ HeadKept(a, b)
        /\ b.p_messbuf = a.p_messbuf /\ b.p_getfrom = a.p_getfrom /\ b.p_sendto = a.p_sendto
        /\ b.inbox[CLOCK] = NoMessage /\ \A q \in Procs \ {CLOCK} : b.inbox[q] = a.inbox[q]
    <2> HIDE DEF r
    <2> QED
      BY <1>1, Cleared
  <1> HIDE DEF b
  <1>3. DOMAIN r = Active /\ \A x \in Active : r[x] = t[x]
    BY <1>1
  <1> HIDE DEF r
  <1>4. SigInOrder(b, t)
    <2>1. CLOCK # SYSTASK /\ a.p_getfrom[CLOCK] \in {NONE, ANY}
      BY <1>1, SigNumbers DEF TasksInOrder, TaskInOrder
    <2>2. \A y \in Procs \ {CLOCK} : b.p_getfrom[y] = a.p_getfrom[y] /\ b.inbox[y] = a.inbox[y]
      BY <1>2
    <2> QED
      BY <1>1, <1>2, <2>1, <2>2, TaskChanged
  <1>5. TasksInOrder(b, r) /\ MMInOrder(b, r) /\ Counts(b, r)
    BY <1>3, <1>4, OtherCallsKept
  <1>6. FSInOrder(b, r)
    <2>1. r[FS] = t[FS]
      BY <1>3, SigNumbers
    <2>2. SYSTASK \in Active /\ r[SYSTASK] = t[SYSTASK] /\ FSInOrder(b, t)
      BY <1>3, <1>4, SigNumbers DEF SigInOrder
    <2> QED
      BY <2>1, <2>2 DEF FSInOrder, Writes, Kills, Answers
  <1>7. SigInOrder(b, r)
    BY <1>3, <1>4, <1>5, <1>6 DEF SigInOrder
  <1> QED
    BY <1>7 DEF b, r

\* FS's signal has been caused.
LEMMA SystemKilled ==
    ASSUME NEW a, NEW t, SigInOrder(a, t), NEW u \in USERS, Kills(a, t, u),
           a.inbox[SYSTASK] = Signed(Request("SYS_KILL", u), FS)
    PROVE  SigInOrder(Clear(a, SYSTASK), [t EXCEPT ![SYSTASK] = <<Reply(FS)>>])
  <1> DEFINE b == Clear(a, SYSTASK)
             r == [t EXCEPT ![SYSTASK] = <<Reply(FS)>>]
  <1>1. /\ SendersInOrder(a) /\ TasksInOrder(a, t) /\ FSInOrder(a, t) /\ MMInOrder(a, t)
        /\ Counts(a, t) /\ DOMAIN t = Active /\ Typed(a) /\ Core(a) /\ HighestRuns(a)
        /\ SYSTASK \in Procs /\ SYSTASK \in TASKS /\ MM # SYSTASK /\ FS # SYSTASK
        /\ FS # MM /\ MM \in Procs /\ FS \in Procs /\ FS \in SERVERS
    BY SigNumbers DEF SigInOrder, Core
  <1>2. /\ Core(b) /\ HighestRuns(b) /\ SameSignals(a, b)
        /\ b.in_use = a.in_use /\ b.p_flags = a.p_flags
        /\ b.p_messbuf = a.p_messbuf /\ b.p_getfrom = a.p_getfrom /\ b.p_sendto = a.p_sendto
        /\ b.inbox[SYSTASK] = NoMessage /\ \A q \in Procs \ {SYSTASK} : b.inbox[q] = a.inbox[q]
    <2> HIDE DEF r
    <2> QED
      BY <1>1, Cleared
  <1> HIDE DEF b
  <1>3. /\ DOMAIN r = Active /\ r[SYSTASK] = <<Reply(FS)>>
        /\ \A x \in Active \ {SYSTASK} : r[x] = t[x]
    BY <1>1, SigNumbers
  <1> HIDE DEF r
  <1>4. a.inbox[SYSTASK].m_source = FS /\ \A v : ~Ends(a.inbox[SYSTASK], v)
    BY SignedFields DEF Ends
  <1>5. r[FS] = t[FS] /\ r[MM] = t[MM]
    BY <1>1, <1>3, SigNumbers
  <1>6. SendersInOrder(b)
    BY <1>1, <1>2 DEF SendersInOrder
  <1>7. TasksInOrder(b, r)
    <2>1. ASSUME NEW x \in TASKS, x # SYSTASK PROVE TaskInOrder(b, r, x)
      <3>1. /\ b.inbox[x] = a.inbox[x] /\ r[x] = t[x] /\ b.p_getfrom[x] = a.p_getfrom[x]
        BY <1>2, <1>3, <2>1, SigNumbers
      <3> QED
        BY <1>1, <2>1, <3>1 DEF TasksInOrder, TaskInOrder
    <2>2. TaskInOrder(b, r, SYSTASK)
      <3>1. ~SystemAsked(b)
        BY <1>2, SignedFields, SigNumbers DEF SystemAsked
      <3>2. ServerAwaits(b, FS, SYSTASK)
        BY <1>1, <1>2, SigNumbers DEF ServerAwaits, Kills, SendersInOrder
      <3>3. a.p_getfrom[SYSTASK] = NONE /\ NONE # ANY
        <4>1. a.inbox[SYSTASK] # NoMessage
          BY <1>4, SignedFields, SigNumbers
        <4> QED
          BY <1>1, <4>1, SigNumbers DEF TasksInOrder, TaskInOrder
      <3> QED
        BY <1>1, <1>2, <1>3, <3>1, <3>2, <3>3 DEF TaskInOrder
    <2> QED
      BY <2>1, <2>2 DEF TasksInOrder
  <1>8. FSInOrder(b, r)
    <2>1. Kills(b, r, u)
      BY <1>1, <1>2, <1>3, <1>5 DEF Kills, AwaitsAnswer
    <2> QED
      BY <2>1 DEF FSInOrder
  <1>9. MMInOrder(b, r)
    <2>1. Requested(b) = Requested(a)
      BY <1>1, <1>2, <1>4, SignedFields, SigNumbers DEF Requested
    <2>2. /\ \A v \in USERS : AwaitsAnswer(a, v, MM) => AwaitsAnswer(b, v, MM)
          /\ \A v \in USERS : StoppedIn(a, v) => StoppedIn(b, v)
      BY <1>2 DEF AwaitsAnswer, StoppedIn
    <2>3. b.p_getfrom[MM] = a.p_getfrom[MM] /\ b.inbox[MM] = a.inbox[MM]
      BY <1>1, <1>2
    <2> QED
      BY <1>1, <1>2, <1>5, <2>1, <2>2, <2>3, MMKept
  <1>10. Counts(b, r)
    <2>1. \A v : EndsLeft(b, r, v) = EndsLeft(a, t, v)
      BY <1>1, <1>2, <1>4, <1>5, SignedFields DEF EndsLeft
    <2>2. a.in_use \subseteq USERS /\ (b.p_getfrom[MM] = ANY => a.p_getfrom[MM] = ANY)
      BY <1>1, <1>2 DEF Typed
    <2> QED
      BY <1>1, <1>2, <2>1, <2>2, CountsKept
  <1>11. SigInOrder(b, r)
    BY <1>2, <1>3, <1>6, <1>7, <1>8, <1>9, <1>10 DEF SigInOrder
  <1> QED
    BY <1>11 DEF b, r

\* A request of MM that the system task has.
MMAsked(a, t) ==
    /\ SigInOrder(a, t) /\ SYSTASK = a.proc_ptr /\ a.inbox[SYSTASK].m_source = MM

\* While the system task has a request of MM, MM waits, and the counts include the request.
LEMMA MMWaits ==
    ASSUME NEW a, NEW t, MMAsked(a, t)
    PROVE  /\ Core(a) /\ HighestRuns(a) /\ Typed(a) /\ First(a, SYSTASK) /\ SYSTASK \in Procs \ USERS
           /\ t[SYSTASK] = << >> /\ a.p_getfrom[MM] = SYSTASK /\ a.p_sendto[MM] = NONE
           /\ a.inbox[MM] = NoMessage /\ a.p_getfrom[SYSTASK] = NONE
           /\ AtWork(a, a.inbox[SYSTASK], t[MM])
           /\ Counted(a) /\ SendersInOrder(a)
           /\ \A v : /\ EndsIn(t[MM], v) \in Nat
                     /\ EndsLeft(a, t, v) = EndsIn(t[MM], v)
                                              + (IF Ends(a.inbox[SYSTASK], v) THEN 1 ELSE 0)
           /\ \A v \in a.in_use : UserCounts(a, v, EndsLeft(a, t, v))
           /\ MM # NONE /\ a.in_use \subseteq USERS /\ a.inbox[SYSTASK] # NoMessage
  <1>1. /\ SendersInOrder(a) /\ TasksInOrder(a, t) /\ MMInOrder(a, t)
        /\ Counts(a, t) /\ Typed(a) /\ Core(a) /\ HighestRuns(a) /\ SigInOrder(a, t)
        /\ SYSTASK \in Procs \ USERS /\ SYSTASK = a.proc_ptr
    BY SigNumbers DEF SigInOrder, Core, MMAsked
  <1>2. SystemAsked(a) /\ MM # NONE /\ SYSTASK # NONE /\ a.inbox[SYSTASK] # NoMessage
    BY SigNumbers, SignedFields DEF MMAsked, SystemAsked
  <1>3. t[SYSTASK] = << >> /\ a.p_getfrom[MM] = SYSTASK /\ a.p_sendto[MM] = NONE
        /\ a.p_getfrom[SYSTASK] = NONE
    BY <1>1, <1>2, SigNumbers DEF TasksInOrder, TaskInOrder, ServerAwaits, MMAsked
  <1>4. a.inbox[MM] = NoMessage
    BY <1>1, <1>2, <1>3 DEF MMInOrder
  <1>5. Requested(a) = a.inbox[SYSTASK]
    BY DEF Requested, MMAsked
  <1>6. AtWork(a, a.inbox[SYSTASK], t[MM])
    BY <1>1, <1>5 DEF MMInOrder
  <1>7. \A v : /\ EndsIn(t[MM], v) \in Nat
               /\ EndsLeft(a, t, v) = EndsIn(t[MM], v)
                                        + (IF Ends(a.inbox[SYSTASK], v) THEN 1 ELSE 0)
    <2> TAKE v
    <2>1. EndsIn(t[MM], v) \in Nat
      BY <1>1, EndsLeftNumber
    <2>2. EndsGot(a.inbox[MM], v) = 0
      BY <1>4, SignedFields DEF EndsGot
    <2>3. ~Ends(a.p_messbuf[MM], v)
      BY <1>1, SignedFields DEF SendersInOrder
    <2> QED
      BY <2>1, <2>2, <2>3 DEF EndsLeft
  <1>8. First(a, SYSTASK)
    BY <1>1, RunsUnblocked
  <1> QED
    BY <1>1, <1>2, <1>3, <1>4, <1>6, <1>7, <1>8 DEF Counts, Typed

\* What the system task has done for MM, which waits for the answer.
LEMMA SystemServed ==
    ASSUME NEW a, NEW t, MMAsked(a, t), NEW c, Core(c), HighestRuns(c),
           c.inbox = a.inbox, c.p_messbuf[MM] = a.p_messbuf[MM],
           \A x \in Active : c.p_getfrom[x] = a.p_getfrom[x] /\ c.p_sendto[x] = a.p_sendto[x],
           SendersInOrder(c), AtWork(c, NoMessage, t[MM]),
           \A v \in USERS : AwaitsAnswer(a, v, FS) => AwaitsAnswer(c, v, FS) \/ v \notin c.in_use,
           Counted(c), \A v \in c.in_use : UserCounts(c, v, EndsIn(t[MM], v))
    PROVE  SigInOrder(Clear(c, SYSTASK), [t EXCEPT ![SYSTASK] = <<Reply(MM)>>])
  <1> DEFINE b == Clear(c, SYSTASK)
             r == [t EXCEPT ![SYSTASK] = <<Reply(MM)>>]
  <1>1. /\ SYSTASK \in Procs /\ SYSTASK \in TASKS /\ MM # SYSTASK /\ FS # SYSTASK
        /\ FS # MM /\ MM \in Procs /\ FS \in Procs /\ FS \in SERVERS /\ MM \in SERVERS
        /\ MM \in Active /\ FS \in Active /\ SYSTASK \in Active /\ NONE # ANY
        /\ NONE # SYSTASK /\ SYSTASK # ANY /\ MM # NONE
    BY SigNumbers
  <1>2. /\ TasksInOrder(a, t) /\ FSInOrder(a, t) /\ MMInOrder(a, t) /\ DOMAIN t = Active
    BY DEF SigInOrder, MMAsked
  <1>3. /\ t[SYSTASK] = << >> /\ a.p_getfrom[MM] = SYSTASK /\ a.p_sendto[MM] = NONE
        /\ a.inbox[MM] = NoMessage /\ a.p_getfrom[SYSTASK] = NONE /\ Typed(a)
    BY MMWaits
  <1>4. /\ Core(b) /\ HighestRuns(b) /\ SameSignals(c, b)
        /\ b.in_use = c.in_use /\ b.p_flags = c.p_flags
        /\ b.p_messbuf = c.p_messbuf /\ b.p_getfrom = c.p_getfrom /\ b.p_sendto = c.p_sendto
        /\ b.inbox[SYSTASK] = NoMessage /\ \A q \in Procs \ {SYSTASK} : b.inbox[q] = c.inbox[q]
    <2> HIDE DEF r
    <2> QED
      BY <1>1, Cleared
  <1> HIDE DEF b
  <1>5. /\ DOMAIN r = Active /\ r[SYSTASK] = <<Reply(MM)>>
        /\ \A x \in Active \ {SYSTASK} : r[x] = t[x]
    BY <1>1, <1>2
  <1> HIDE DEF r
  <1>6. /\ r[FS] = t[FS] /\ r[MM] = t[MM] /\ b.inbox[FS] = a.inbox[FS]
        /\ b.inbox[MM] = a.inbox[MM]
        /\ b.p_getfrom[FS] = a.p_getfrom[FS] /\ b.p_getfrom[MM] = a.p_getfrom[MM]
        /\ b.p_sendto[FS] = a.p_sendto[FS] /\ b.p_sendto[MM] = a.p_sendto[MM]
    BY <1>1, <1>4, <1>5
  <1>7. SendersInOrder(b)
    BY <1>4 DEF SendersInOrder
  <1>8. TasksInOrder(b, r)
    <2>1. ASSUME NEW x \in TASKS, x # SYSTASK PROVE TaskInOrder(b, r, x)
      <3>1. /\ b.inbox[x] = a.inbox[x] /\ r[x] = t[x] /\ b.p_getfrom[x] = a.p_getfrom[x]
        BY <1>4, <1>5, <2>1, SigNumbers
      <3> QED
        BY <1>2, <2>1, <3>1 DEF TasksInOrder, TaskInOrder
    <2>2. TaskInOrder(b, r, SYSTASK)
      <3>1. ~SystemAsked(b)
        BY <1>4, SignedFields, SigNumbers DEF SystemAsked
      <3>2. ServerAwaits(b, MM, SYSTASK)
        BY <1>3, <1>6 DEF ServerAwaits
      <3>3. b.p_getfrom[SYSTASK] = NONE
        BY <1>1, <1>3, <1>4
      <3> QED
        BY <1>1, <1>4, <1>5, <3>1, <3>2, <3>3 DEF TaskInOrder
    <2> QED
      BY <2>1, <2>2 DEF TasksInOrder
  <1>9. FSInOrder(b, r)
    <2>1. ~FSNext(a) /\ ~ServerAwaits(a, MM, FS)
      BY <1>1, <1>3 DEF FSNext, ServerAwaits, MMAsked
    <2>2. \A u \in USERS : ~Kills(a, t, u)
      <3>1. \A u : Signed(Request("SYS_KILL", u), FS).m_source = FS
        BY SignedFields
      <3>2. <<Reply(FS)>> # << >>
        OBVIOUS
      <3> QED
        BY <1>1, <1>3, <3>1, <3>2 DEF Kills, MMAsked
    <2>3. ASSUME NEW u \in USERS, Answers(a, t, u) PROVE FSInOrder(b, r)
      <3>1. AwaitsAnswer(a, u, FS) /\ a.p_getfrom[FS] = NONE
        BY <2>1, <2>3 DEF Answers
      <3>2. CASE AwaitsAnswer(c, u, FS)
        <4>1. Answers(b, r, u)
          BY <1>4, <1>6, <2>3, <3>1, <3>2 DEF Answers, AwaitsAnswer
        <4> QED
          BY <4>1 DEF FSInOrder
      <3>3. CASE u \notin c.in_use
        <4>1. Runnable(b, FS)
          <5>1. a.p_sendto[FS] = NONE
            BY DEF MMAsked, SigInOrder, SendersInOrder
          <5>2. b.p_flags[FS] = {}
            BY <1>1, <1>4, SigNumbers DEF Core, Typed
          <5> QED
            BY <1>6, <3>1, <5>1, <5>2 DEF Runnable
        <4>2. \A x \in SERVERS \ {FS} : ~Runnable(b, x)
          <5>1. ~Runnable(b, MM)
            BY <1>1, <1>3, <1>6 DEF Runnable
          <5> QED
            BY <5>1, SigNumbers
        <4>3. FSNext(b)
          <5>1. b.rdy["SERVER_Q"] # << >> /\ Head(b.rdy["SERVER_Q"]) = FS
            BY <1>1, <1>4, <4>1, <4>2, OnlyServer
          <5> QED
            BY <1>1, <1>4, <5>1, SignedFields DEF FSNext
        <4>4. Answers(b, r, u)
          BY <1>4, <1>6, <2>3, <3>1, <3>3, <4>3 DEF Answers
        <4> QED
          BY <4>4 DEF FSInOrder
      <3> QED
        BY <3>1, <3>2, <3>3
    <2>4. CASE \/ t[FS] = << >> /\ a.inbox[FS] = NoMessage /\ a.p_getfrom[FS] = ANY
               \/ /\ t[FS] = << >> /\ a.inbox[FS].m_type \in {"none", "reply"}
                  /\ a.p_getfrom[FS] = NONE
      BY <1>6, <2>4 DEF FSInOrder
    <2> QED
      BY <1>2, <2>1, <2>2, <2>3, <2>4 DEF FSInOrder
  <1>10. MMInOrder(b, r)
    <2>1. Requested(b) = NoMessage
      BY <1>1, <1>4, SignedFields DEF Requested
    <2>2. AtWork(b, NoMessage, r[MM])
      <3>1. /\ \A v \in USERS : AwaitsAnswer(c, v, MM) => AwaitsAnswer(b, v, MM)
            /\ \A v \in USERS : StoppedIn(c, v) => StoppedIn(b, v)
        BY <1>4 DEF AwaitsAnswer, StoppedIn
      <3> QED
        BY <1>4, <1>6, <3>1, AtWorkKept
    <2> QED
      BY <1>1, <1>3, <1>6, <2>1, <2>2, SignedFields DEF MMInOrder
  <1>11. Counts(b, r)
    <2>1. Counted(b)
      <3>1. Marked(b) = Marked(c)
        BY <1>4 DEF Marked
      <3> QED
        BY <1>4, <3>1 DEF Counted, SameSignals
    <2>2. \A v : EndsLeft(b, r, v) = EndsIn(t[MM], v)
      <3> TAKE v
      <3>1. EndsIn(t[MM], v) \in Nat
        BY MMWaits
      <3>2. EndsGot(b.inbox[MM], v) = 0
        BY <1>3, <1>6, SignedFields DEF EndsGot
      <3>3. ~Ends(b.p_messbuf[MM], v) /\ ~Ends(b.inbox[SYSTASK], v)
        BY <1>4, SignedFields DEF SendersInOrder
      <3> QED
        BY <1>6, <3>1, <3>2, <3>3 DEF EndsLeft
    <2>3. \A v \in b.in_use : UserCounts(b, v, EndsLeft(b, r, v))
      BY <1>4, <2>2 DEF UserCounts, SameSignals
    <2> QED
      BY <1>1, <1>3, <1>6, <2>1, <2>3 DEF Counts
  <1>12. SigInOrder(b, r)
    BY <1>4, <1>5, <1>7, <1>8, <1>9, <1>10, <1>11 DEF SigInOrder
  <1> QED
    BY <1>12 DEF b, r

\* No signal is counted or ends.
LEMMA CountsServed ==
    ASSUME NEW a, NEW t, MMAsked(a, t), a.inbox[SYSTASK].m_type # "SYS_ENDSIG",
           NEW c, c.in_use = a.in_use, c.p_pending = a.p_pending, c.p_pendcount = a.p_pendcount,
           c.sig_procs = a.sig_procs,
           \A v \in USERS, f \in {"PENDING", "SIG_PENDING"} : f \in c.p_flags[v] <=> f \in a.p_flags[v]
    PROVE  Counted(c) /\ \A v \in c.in_use : UserCounts(c, v, EndsIn(t[MM], v))
  <1>1. /\ Counted(a) /\ a.in_use \subseteq USERS
        /\ \A v : /\ EndsIn(t[MM], v) \in Nat
                  /\ EndsLeft(a, t, v) = EndsIn(t[MM], v)
                                           + (IF Ends(a.inbox[SYSTASK], v) THEN 1 ELSE 0)
        /\ \A v \in a.in_use : UserCounts(a, v, EndsLeft(a, t, v))
    BY MMWaits
  <1>2. \A v : EndsLeft(a, t, v) = EndsIn(t[MM], v)
    BY <1>1 DEF Ends
  <1>3. Marked(c) = Marked(a)
    BY DEF Marked
  <1>4. Counted(c)
    BY <1>1, <1>3 DEF Counted
  <1>5. ASSUME NEW v \in c.in_use PROVE UserCounts(c, v, EndsIn(t[MM], v))
    <2>1. v \in USERS /\ UserCounts(a, v, EndsIn(t[MM], v))
      BY <1>1, <1>2, <1>5
    <2>2. /\ "PENDING" \in c.p_flags[v] <=> "PENDING" \in a.p_flags[v]
          /\ "SIG_PENDING" \in c.p_flags[v] <=> "SIG_PENDING" \in a.p_flags[v]
      BY <2>1
    <2> QED
      BY <2>1, <2>2 DEF UserCounts
  <1> QED
    BY <1>4, <1>5

-----------------------------------------------------------------------------
(* What MM asks of the system task.                                          *)

\* What MM asks of the system task, and the calls it will make then.
LEMMA AskedOf ==
    ASSUME NEW a, NEW m, NEW calls, AtWork(a, m, calls), m.m_source = MM
    PROVE  \/ \E u \in USERS : \E c \in USERS :
                /\ m = Signed(ForkRequest(u, c), MM) /\ AwaitsAnswer(a, u, MM) /\ u # c
                /\ c \notin a.in_use /\ calls = Forked1(c, u)
           \/ \E u \in USERS : \E c \in USERS :
                /\ Asks(m, "SYS_NEWMAP", c) /\ AwaitsAnswer(a, u, MM) /\ u # c
                /\ AwaitsAnswer(a, c, MM) /\ calls = Forked3(c, u)
           \/ \E u \in USERS :
                Asks(m, "SYS_EXEC", u) /\ AwaitsAnswer(a, u, MM) /\ calls = << >>
           \/ \E u \in USERS : \E v \in USERS :
                /\ Asks(m, "T_RESUME", v) /\ StoppedIn(a, v) /\ AwaitsAnswer(a, u, MM)
                /\ calls = <<Reply(u)>>
           \/ \E u \in USERS : \E type \in SignalRequests :
                Asks(m, type, u) /\ Signalling(NoMessage, calls, u)
  <1>1. m # NoMessage
    BY SignedFields, SigNumbers
  <1>2. CASE \E u \in USERS : \E c \in USERS : Forking(a, m, calls, u, c)
    <2>1. PICK u \in USERS, c \in USERS : Forking(a, m, calls, u, c)
      BY <1>2
    <2>2. CASE ForkBegins(a, m, calls, u, c)
      BY <1>1, <2>1, <2>2 DEF Forking, ForkBegins
    <2>3. CASE ForkEnds(a, m, calls, u, c)
      BY <1>1, <2>1, <2>3 DEF Forking, ForkEnds
    <2> QED
      BY <2>1, <2>2, <2>3 DEF Forking
  <1>3. CASE \E u \in USERS : Executing(a, m, calls, u)
    BY <1>1, <1>3 DEF Executing
  <1>4. CASE \E u \in USERS : \E v \in USERS : Resuming(a, m, calls, u, v)
    BY <1>1, <1>4 DEF Resuming
  <1>5. CASE \E u \in USERS : Signalling(m, calls, u)
    BY <1>1, <1>5 DEF Signalling
  <1> QED
    BY <1>1, <1>2, <1>3, <1>4, <1>5 DEF AtWork

\* do_fork: the child, which no one used, waits for MM as its parent does.
LEMMA ForkServed ==
    ASSUME NEW a, NEW t, MMAsked(a, t), NEW m, m = a.inbox[SYSTASK], m.m_type = "SYS_FORK"
    PROVE  SigInOrder(Clear(do_fork(a, m.PROC1, m.PROC2), SYSTASK),
                      [t EXCEPT ![SYSTASK] = <<Reply(MM)>>])
  <1>1. /\ Core(a) /\ HighestRuns(a) /\ Typed(a) /\ AtWork(a, m, t[MM])
        /\ SendersInOrder(a) /\ m.m_source = MM /\ Counted(a) /\ a.in_use \subseteq USERS
        /\ \A v : /\ EndsIn(t[MM], v) \in Nat
                  /\ EndsLeft(a, t, v) = EndsIn(t[MM], v)
                                           + (IF Ends(a.inbox[SYSTASK], v) THEN 1 ELSE 0)
        /\ \A v \in a.in_use : UserCounts(a, v, EndsLeft(a, t, v))
    BY MMWaits DEF MMAsked
  <1>2. PICK u \in USERS, c \in USERS :
          /\ m = Signed(ForkRequest(u, c), MM) /\ AwaitsAnswer(a, u, MM) /\ u # c
          /\ c \notin a.in_use /\ t[MM] = Forked1(c, u)
    BY <1>1, AskedOf, SignedFields DEF Asks, SignalRequests
  <1>3. m.PROC1 = u /\ m.PROC2 = c
    BY <1>2, SignedFields
  <1> DEFINE b == do_fork(a, u, c)
  <1>4. a.p_sendto[u] = NONE /\ a.p_getfrom[u] = MM /\ u \in a.in_use
    BY <1>2 DEF AwaitsAnswer
  <1>5. /\ Core(b) /\ HighestRuns(b) /\ Forked(a, b, u, c)
        /\ b.p_pending = [a.p_pending EXCEPT ![c] = {}]
        /\ b.p_pendcount = [a.p_pendcount EXCEPT ![c] = 0]
    BY <1>1, <1>2, <1>4, ForkCore, ForkSignals
  <1> HIDE DEF b
  <1>6. a.p_flags[c] = {} /\ a.p_sendto[c] = NONE
    BY <1>1, <1>2 DEF Core, Waits, Runnable
  <1>7. /\ b.in_use = a.in_use \cup {c} /\ b.sig_procs = a.sig_procs
        /\ b.inbox = a.inbox /\ b.p_messbuf = a.p_messbuf /\ b.p_sendto = a.p_sendto
        /\ b.p_getfrom[c] = MM /\ b.p_pending[c] = {} /\ b.p_pendcount[c] = 0
        /\ "PENDING" \notin b.p_flags[c] /\ "SIG_PENDING" \notin b.p_flags[c]
        /\ \A y \in Procs \ {c} : /\ b.p_getfrom[y] = a.p_getfrom[y]
                                  /\ b.p_flags[y] = a.p_flags[y]
                                  /\ b.p_pending[y] = a.p_pending[y]
                                  /\ b.p_pendcount[y] = a.p_pendcount[y]
    BY <1>1, <1>4, <1>5, SigNumbers DEF Forked, Typed
  <1>8. \A y \in USERS \ {c} : y \in Procs \ {c}
    BY SigNumbers
  <1>9. SendersInOrder(b)
    <2>1. \A v \in USERS : b.p_getfrom[v] \in {NONE, MM, FS}
                           /\ (b.p_sendto[v] # NONE => b.p_getfrom[v] = a.p_getfrom[v])
      BY <1>1, <1>6, <1>7, <1>8 DEF SendersInOrder
    <2>2. b.p_getfrom[MM] = a.p_getfrom[MM]
      BY <1>2, <1>7, SigNumbers
    <2> QED
      BY <1>1, <1>7, <2>1, <2>2 DEF SendersInOrder
  <1>10. \A v \in USERS : \A p : AwaitsAnswer(a, v, p) => AwaitsAnswer(b, v, p)
    BY <1>2, <1>7, <1>8 DEF AwaitsAnswer
  <1>11. AtWork(b, NoMessage, t[MM])
    <2>1. AwaitsAnswer(b, c, MM)
      BY <1>6, <1>7 DEF AwaitsAnswer
    <2>2. Forking(b, NoMessage, t[MM], u, c)
      BY <1>2, <1>10, <2>1 DEF Forking, ForkEnds
    <2> QED
      BY <2>2 DEF AtWork
  <1>12. Counted(b)
    <2>1. Marked(b) = Marked(a)
      BY <1>6, <1>7, <1>8 DEF Marked
    <2> QED
      BY <1>1, <1>7, <1>8, <2>1 DEF Counted
  <1>13. ASSUME NEW v \in b.in_use PROVE UserCounts(b, v, EndsIn(t[MM], v))
    <2>1. CASE v = c
      <3>1. EndsIn(t[MM], c) = 0
        <4>1. t[MM] \in Seq({TellFS, System("SYS_NEWMAP", c), Reply(c), Reply(u)})
          BY <1>2 DEF Forked1
        <4>2. \A x \in {TellFS, System("SYS_NEWMAP", c), Reply(c), Reply(u)} : ~Ends(x.m, c)
          <5>1. System("SYS_NEWMAP", c).m = Request("SYS_NEWMAP", c)
            BY CallsKnown
          <5>2. ~Ends(System("SYS_NEWMAP", c).m, c)
            BY <5>1 DEF Ends, Request
          <5> QED
            BY <5>2, CallsKnown
        <4>3. \A i \in DOMAIN t[MM] : ~Ends(t[MM][i].m, c)
          BY <4>1, <4>2
        <4> QED
          BY <4>1, <4>3, EndsNumber
      <3>2. Cardinality({}) = 0
        BY FS_EmptySet
      <3>3. b.p_pendcount[c] = Cardinality(b.p_pending[c]) + EndsIn(t[MM], c)
        BY <1>7, <3>1, <3>2
      <3>4. ~(b.p_pendcount[c] > 0)
        BY <1>7
      <3> QED
        BY <1>7, <2>1, <3>3, <3>4 DEF UserCounts
    <2>2. CASE v # c
      <3>1. v \in a.in_use /\ v \in USERS \ {c}
        BY <1>1, <1>7, <1>13, <2>2
      <3>2. ~Ends(a.inbox[SYSTASK], v)
        BY DEF Ends
      <3>3. UserCounts(a, v, EndsIn(t[MM], v))
        BY <1>1, <3>1, <3>2
      <3> QED
        BY <1>7, <1>8, <3>1, <3>3 DEF UserCounts
    <2> QED
      BY <2>1, <2>2
  <1>14. \A x \in Active : b.p_getfrom[x] = a.p_getfrom[x] /\ b.p_sendto[x] = a.p_sendto[x]
    BY <1>7, SigNumbers
  <1>15. SigInOrder(Clear(b, SYSTASK), [t EXCEPT ![SYSTASK] = <<Reply(MM)>>])
    <2>1. \A v \in USERS : AwaitsAnswer(a, v, FS) => AwaitsAnswer(b, v, FS) \/ v \notin b.in_use
      BY <1>10
    <2>2. b.inbox = a.inbox /\ b.p_messbuf[MM] = a.p_messbuf[MM]
      BY <1>7
    <2> QED
      BY <1>5, <1>9, <1>11, <1>12, <1>13, <1>14, <2>1, <2>2, SystemServed
  <1> QED
    BY <1>3, <1>15 DEF b

\* do_newmap: the child may run when MM has answered it.
LEMMA NewmapServed ==
    ASSUME NEW a, NEW t, MMAsked(a, t), NEW m, m = a.inbox[SYSTASK], m.m_type = "SYS_NEWMAP"
    PROVE  SigInOrder(Clear(do_newmap(a, m.PROC1), SYSTASK),
                      [t EXCEPT ![SYSTASK] = <<Reply(MM)>>])
  <1>1. /\ Core(a) /\ HighestRuns(a) /\ Typed(a) /\ AtWork(a, m, t[MM])
        /\ SendersInOrder(a) /\ m.m_source = MM
    BY MMWaits DEF MMAsked
  <1>2. PICK u \in USERS, c \in USERS :
          /\ Asks(m, "SYS_NEWMAP", c) /\ AwaitsAnswer(a, u, MM) /\ u # c
          /\ AwaitsAnswer(a, c, MM) /\ t[MM] = Forked3(c, u)
    BY <1>1, AskedOf, SignedFields DEF Asks, SignalRequests
  <1>3. m.PROC1 = c
    BY <1>2, SignedFields DEF Asks
  <1> DEFINE b == do_newmap(a, c)
  <1>4. a.p_getfrom[c] # NONE /\ c \in a.in_use
    BY <1>2, SigNumbers DEF AwaitsAnswer
  <1>5. /\ Core(b) /\ HighestRuns(b)
        /\ b.p_flags = [a.p_flags EXCEPT ![c] = @ \ {"NO_MAP"}]
        /\ b.in_use = a.in_use /\ b.sig_procs = a.sig_procs
        /\ b.p_getfrom = a.p_getfrom /\ b.p_sendto = a.p_sendto
        /\ b.inbox = a.inbox /\ b.p_messbuf = a.p_messbuf
        /\ b.p_pending = a.p_pending /\ b.p_pendcount = a.p_pendcount
    BY <1>1, <1>4, NewmapCore
  <1> HIDE DEF b
  <1>6. SendersInOrder(b)
    BY <1>1, <1>5 DEF SendersInOrder
  <1>7. \A v \in USERS : \A p : AwaitsAnswer(a, v, p) => AwaitsAnswer(b, v, p)
    BY <1>5 DEF AwaitsAnswer
  <1>8. AtWork(b, NoMessage, t[MM])
    <2>1. Forking(b, NoMessage, t[MM], u, c)
      BY <1>2, <1>7 DEF Forking, ForkEnds
    <2> QED
      BY <2>1 DEF AtWork
  <1>9. Counted(b) /\ \A v \in b.in_use : UserCounts(b, v, EndsIn(t[MM], v))
    <2>1. \A v \in USERS, f \in {"PENDING", "SIG_PENDING"} :
            f \in b.p_flags[v] <=> f \in a.p_flags[v]
      BY <1>1, <1>5, SigNumbers DEF Typed
    <2> QED
      BY <1>5, <2>1, CountsServed
  <1>10. SigInOrder(Clear(b, SYSTASK), [t EXCEPT ![SYSTASK] = <<Reply(MM)>>])
    BY <1>5, <1>6, <1>7, <1>8, <1>9, SystemServed
  <1> QED
    BY <1>3, <1>10 DEF b

\* do_exec: the process runs on without an answer of MM.
LEMMA ExecServed ==
    ASSUME NEW a, NEW t, MMAsked(a, t), NEW m, m = a.inbox[SYSTASK], m.m_type = "SYS_EXEC"
    PROVE  SigInOrder(Clear(do_exec(a, m.PROC1, FALSE), SYSTASK),
                      [t EXCEPT ![SYSTASK] = <<Reply(MM)>>])
  <1>1. /\ Core(a) /\ HighestRuns(a) /\ Typed(a) /\ AtWork(a, m, t[MM])
        /\ SendersInOrder(a) /\ m.m_source = MM /\ First(a, SYSTASK) /\ SYSTASK \in Procs \ USERS
    BY MMWaits DEF MMAsked
  <1>2. PICK u \in USERS :
          Asks(m, "SYS_EXEC", u) /\ AwaitsAnswer(a, u, MM) /\ t[MM] = << >>
    BY <1>1, AskedOf, SignedFields DEF Asks, SignalRequests
  <1>3. m.PROC1 = u
    BY <1>2, SignedFields DEF Asks
  <1> DEFINE b == do_exec(a, u, FALSE)
  <1>4. a.p_getfrom[u] # NONE /\ u \in a.in_use /\ a.p_sendto[u] = NONE /\ a.p_getfrom[u] = MM
    BY <1>2, SigNumbers DEF AwaitsAnswer
  <1>5. /\ Core(b) /\ HighestRuns(b) /\ SameSignals(a, b)
        /\ b.p_getfrom = [a.p_getfrom EXCEPT ![u] = NONE] /\ b.p_sendto = a.p_sendto
        /\ b.inbox = a.inbox /\ b.p_messbuf = a.p_messbuf
    BY <1>1, <1>4, ExecCore
  <1> HIDE DEF b
  <1>6. /\ b.in_use = a.in_use /\ b.p_getfrom[u] = NONE
        /\ \A y \in Procs \ {u} : b.p_getfrom[y] = a.p_getfrom[y]
    BY <1>1, <1>5, SigNumbers DEF Typed, SameSignals
  <1>7. SendersInOrder(b)
    <2>1. \A v \in USERS : \/ v = u /\ b.p_sendto[v] = NONE /\ b.p_getfrom[v] = NONE
                           \/ b.p_getfrom[v] = a.p_getfrom[v]
      BY <1>4, <1>5, <1>6, SigNumbers
    <2>2. b.p_getfrom[MM] = a.p_getfrom[MM] /\ NONE # MM /\ NONE # FS
      BY <1>6, SigNumbers
    <2>3. \A v \in USERS : /\ b.p_getfrom[v] \in {NONE, MM, FS}
                           /\ b.p_sendto[v] # NONE => b.p_sendto[v] = b.p_getfrom[v]
      BY <1>1, <1>5, <2>1 DEF SendersInOrder
    <2> QED
      BY <1>1, <1>5, <2>2, <2>3 DEF SendersInOrder
  <1>8. \A v \in USERS : AwaitsAnswer(a, v, FS) => AwaitsAnswer(b, v, FS)
    BY <1>4, <1>5, <1>6, SigNumbers DEF AwaitsAnswer
  <1>9. AtWork(b, NoMessage, t[MM])
    BY <1>2 DEF AtWork
  <1>10. Counted(b) /\ \A v \in b.in_use : UserCounts(b, v, EndsIn(t[MM], v))
    BY <1>5, CountsServed DEF SameSignals
  <1>11. \A x \in Active : b.p_getfrom[x] = a.p_getfrom[x] /\ b.p_sendto[x] = a.p_sendto[x]
    BY <1>5, <1>6, SigNumbers
  <1>12. SigInOrder(Clear(b, SYSTASK), [t EXCEPT ![SYSTASK] = <<Reply(MM)>>])
    BY <1>5, <1>7, <1>8, <1>9, <1>10, <1>11, SystemServed
  <1> QED
    BY <1>3, <1>12 DEF b

\* do_exec of a traced process: it is signalled before it could run on.
LEMMA TracedExecServed ==
    ASSUME NEW a, NEW t, MMAsked(a, t), NEW m, m = a.inbox[SYSTASK], m.m_type = "SYS_EXEC"
    PROVE  SigInOrder(Clear(do_exec(a, m.PROC1, TRUE), SYSTASK),
                      [t EXCEPT ![SYSTASK] = <<Reply(MM)>>])
  <1>1. AtWork(a, m, t[MM]) /\ m.m_source = MM /\ a.p_getfrom[MM] = SYSTASK
    BY MMWaits DEF MMAsked
  <1>2. PICK u \in USERS :
          Asks(m, "SYS_EXEC", u) /\ AwaitsAnswer(a, u, MM) /\ t[MM] = << >>
    BY <1>1, AskedOf, SignedFields DEF Asks, SignalRequests
  <1>3. m.PROC1 = u /\ u \in a.in_use /\ a.p_getfrom[u] # NONE /\ SYSTASK # ANY
    BY <1>2, SignedFields, SigNumbers DEF Asks, AwaitsAnswer
  <1> DEFINE b == cause_sig(a, u, "SIGTRAP")
  <1>4. SigInOrder(b, t) /\ b.inbox[SYSTASK] = a.inbox[SYSTASK]
    BY <1>3, CauseKeeps DEF MMAsked, Sigs
  <1>5. b.proc_ptr = a.proc_ptr
    <2> DEFINE k1 == [a EXCEPT !.p_pending[u] = @ \cup {"SIGTRAP"}, !.p_pendcount[u] = @ + 1]
               k2 == [k1 EXCEPT
                        !.p_flags[u] = @ \cup {"PENDING", "SIG_PENDING"},
                        !.sig_procs = @ + 1]
    <2>1. k1.p_getfrom = a.p_getfrom /\ k1.proc_ptr = a.proc_ptr
      OBVIOUS
    <2>2. ~Runnable(k1, u)
      BY <1>3, <2>1 DEF Runnable
    <2>3. UnreadyIfRunnable(k1, u) = k1
      BY <2>2 DEF UnreadyIfRunnable
    <2>4. k2.proc_ptr = k1.proc_ptr
      OBVIOUS
    <2>5. b = a \/ b = k1 \/ b = k2
      BY <1>1, <1>3, <2>3 DEF cause_sig
    <2> HIDE DEF k1, k2, b
    <2> QED
      BY <2>1, <2>4, <2>5
  <1>6. do_exec(a, u, TRUE) = do_exec(b, u, FALSE)
    BY DEF do_exec
  <1> HIDE DEF b
  <1>7. MMAsked(b, t) /\ m = b.inbox[SYSTASK]
    BY <1>4, <1>5 DEF MMAsked
  <1> QED
    BY <1>3, <1>6, <1>7, ExecServed

\* do_xit: the process, its signals and its place in the queues of callers are gone.
LEMMA ExitServed ==
    ASSUME NEW a, NEW t, MMAsked(a, t), NEW m, m = a.inbox[SYSTASK], m.m_type = "SYS_XIT"
    PROVE  SigInOrder(Clear(do_xit(a, m.PROC1), SYSTASK),
                      [t EXCEPT ![SYSTASK] = <<Reply(MM)>>])
  <1>1. /\ Core(a) /\ HighestRuns(a) /\ Typed(a) /\ AtWork(a, m, t[MM])
        /\ SendersInOrder(a) /\ m.m_source = MM /\ Counted(a) /\ a.in_use \subseteq USERS
        /\ \A v : /\ EndsIn(t[MM], v) \in Nat
                  /\ EndsLeft(a, t, v) = EndsIn(t[MM], v)
                                           + (IF Ends(a.inbox[SYSTASK], v) THEN 1 ELSE 0)
        /\ \A v \in a.in_use : UserCounts(a, v, EndsLeft(a, t, v))
    BY MMWaits DEF MMAsked
  <1>2. PICK u \in USERS, type \in SignalRequests :
          Asks(m, type, u) /\ Signalling(NoMessage, t[MM], u)
    BY <1>1, AskedOf, SignedFields DEF Asks
  <1>3. m.PROC1 = u
    BY <1>2, SignedFields DEF Asks
  <1> DEFINE b == do_xit(a, u)
  <1>4. /\ Core(b) /\ HighestRuns(b) /\ Exited(a, b, u)
        /\ b.p_pending = [a.p_pending EXCEPT ![u] = {}]
        /\ b.p_pendcount = [a.p_pendcount EXCEPT ![u] = 0]
        /\ b.sig_procs = IF "PENDING" \in a.p_flags[u] THEN a.sig_procs - 1 ELSE a.sig_procs
    BY <1>1, ExitCore, ExitSignals
  <1> HIDE DEF b
  <1>5. /\ b.in_use = a.in_use \ {u} /\ b.inbox = a.inbox
        /\ b.p_getfrom[u] = NONE /\ b.p_sendto[u] = NONE /\ b.p_flags[u] = {}
        /\ b.p_pending[u] = {}
        /\ \A y \in Procs \ {u} : /\ b.p_getfrom[y] = a.p_getfrom[y]
                                  /\ b.p_sendto[y] = a.p_sendto[y]
                                  /\ b.p_messbuf[y] = a.p_messbuf[y]
                                  /\ b.p_flags[y] = a.p_flags[y]
                                  /\ b.p_pending[y] = a.p_pending[y]
                                  /\ b.p_pendcount[y] = a.p_pendcount[y]
    BY <1>1, <1>4, SigNumbers, SMTT(30) DEF Exited, Typed
  <1>6. /\ \A y \in USERS \ {u} : y \in Procs \ {u}
        /\ \A x \in Active : x \in Procs \ {u}
    BY SigNumbers
  <1>7. SendersInOrder(b)
    <2>1. NONE # MM /\ NONE # FS /\ MM \in Active /\ FS \in Active /\ TASKS \subseteq Active
      BY SigNumbers
    <2>2. \A v \in USERS : \/ v = u /\ b.p_sendto[v] = NONE /\ b.p_getfrom[v] = NONE
                           \/ /\ b.p_getfrom[v] = a.p_getfrom[v]
                              /\ b.p_sendto[v] = a.p_sendto[v]
                              /\ b.p_messbuf[v] = a.p_messbuf[v]
      BY <1>5, <1>6
    <2>3. \A v \in USERS :
            /\ b.p_getfrom[v] \in {NONE, MM, FS}
            /\ b.p_sendto[v] # NONE => b.p_sendto[v] = b.p_getfrom[v]
            /\ b.p_sendto[v] = MM => \E ty \in MMCalls : b.p_messbuf[v] = Message(v, ty)
            /\ b.p_sendto[v] = FS => b.p_messbuf[v] = Message(v, "WRITE")
      BY <1>1, <2>1, <2>2 DEF SendersInOrder
    <2>4. /\ \A p \in TASKS \cup {FS, MM} : b.p_sendto[p] = a.p_sendto[p]
          /\ b.p_getfrom[MM] = a.p_getfrom[MM] /\ b.p_messbuf[MM] = a.p_messbuf[MM]
      BY <1>5, <1>6, <2>1
    <2> QED
      BY <1>1, <2>3, <2>4 DEF SendersInOrder
  <1>8. \A v \in USERS : AwaitsAnswer(a, v, FS) => AwaitsAnswer(b, v, FS) \/ v \notin b.in_use
    BY <1>5, <1>6 DEF AwaitsAnswer
  <1>9. AtWork(b, NoMessage, t[MM])
    BY <1>2 DEF AtWork
  <1>10. Counted(b)
    <2>1. Marked(b) = Marked(a) \ {u} /\ (u \in Marked(a) <=> "PENDING" \in a.p_flags[u])
      BY <1>5, <1>6 DEF Marked
    <2>2. IsFiniteSet(Marked(a))
      BY SigNumbers, FS_Subset DEF Marked
    <2>3. Cardinality(Marked(b)) = IF "PENDING" \in a.p_flags[u] THEN Cardinality(Marked(a)) - 1
                                   ELSE Cardinality(Marked(a))
      BY <2>1, <2>2, FS_RemoveElement
    <2>4. b.sig_procs = Cardinality(Marked(b))
      BY <1>1, <1>4, <2>3 DEF Counted
    <2>5. \A v \in USERS : b.p_pending[v] \subseteq Sigs
      BY <1>1, <1>5, <1>6 DEF Counted
    <2>6. \A v \in USERS \ b.in_use : b.p_pending[v] = {}
      BY <1>1, <1>5, <1>6 DEF Counted
    <2> QED
      BY <2>4, <2>5, <2>6 DEF Counted
  <1>11. ASSUME NEW v \in b.in_use PROVE UserCounts(b, v, EndsIn(t[MM], v))
    <2>1. v \in a.in_use /\ v \in USERS \ {u}
      BY <1>1, <1>5, <1>11
    <2>2. ~Ends(a.inbox[SYSTASK], v)
      BY DEF Ends
    <2>3. UserCounts(a, v, EndsIn(t[MM], v))
      BY <1>1, <2>1, <2>2
    <2> QED
      BY <1>5, <1>6, <2>1, <2>3 DEF UserCounts
  <1>12. /\ \A x \in Active : b.p_getfrom[x] = a.p_getfrom[x] /\ b.p_sendto[x] = a.p_sendto[x]
         /\ b.p_messbuf[MM] = a.p_messbuf[MM]
    BY <1>5, <1>6, SigNumbers
  <1>13. SigInOrder(Clear(b, SYSTASK), [t EXCEPT ![SYSTASK] = <<Reply(MM)>>])
    BY <1>4, <1>5, <1>7, <1>8, <1>9, <1>10, <1>11, <1>12, SystemServed
  <1> QED
    BY <1>3, <1>13 DEF b

\* A request about a signal that leaves all but the flags and counts alone.
LEMMA SignalServed ==
    ASSUME NEW a, NEW t, MMAsked(a, t), NEW u \in USERS, Signalling(NoMessage, t[MM], u),
           NEW b, Core(b), HighestRuns(b), SameMessages(a, b),
           Counted(b), \A v \in b.in_use : UserCounts(b, v, EndsIn(t[MM], v))
    PROVE  SigInOrder(Clear(b, SYSTASK), [t EXCEPT ![SYSTASK] = <<Reply(MM)>>])
  <1>1. SendersInOrder(a)
    BY MMWaits
  <1>2. SendersInOrder(b)
    BY <1>1 DEF SendersInOrder, SameMessages
  <1>3. \A v \in USERS : AwaitsAnswer(a, v, FS) => AwaitsAnswer(b, v, FS) \/ v \notin b.in_use
    BY DEF AwaitsAnswer, SameMessages
  <1>4. AtWork(b, NoMessage, t[MM])
    BY DEF AtWork
  <1>5. /\ b.inbox = a.inbox /\ b.p_messbuf[MM] = a.p_messbuf[MM]
        /\ \A x \in Active : b.p_getfrom[x] = a.p_getfrom[x] /\ b.p_sendto[x] = a.p_sendto[x]
    BY DEF SameMessages
  <1> QED
    BY <1>2, <1>3, <1>4, <1>5, SystemServed

\* do_endsig: one signal less to end, and one less counted.
LEMMA EndsigServed ==
    ASSUME NEW a, NEW t, MMAsked(a, t), NEW m, m = a.inbox[SYSTASK], m.m_type = "SYS_ENDSIG"
    PROVE  SigInOrder(Clear(do_endsig(a, m.PROC1), SYSTASK),
                      [t EXCEPT ![SYSTASK] = <<Reply(MM)>>])
  <1>1. /\ Core(a) /\ HighestRuns(a) /\ Typed(a) /\ AtWork(a, m, t[MM]) /\ First(a, SYSTASK)
        /\ SYSTASK \in Procs \ USERS /\ m.m_source = MM /\ Counted(a) /\ a.in_use \subseteq USERS
        /\ \A v : /\ EndsIn(t[MM], v) \in Nat
                  /\ EndsLeft(a, t, v) = EndsIn(t[MM], v)
                                           + (IF Ends(a.inbox[SYSTASK], v) THEN 1 ELSE 0)
        /\ \A v \in a.in_use : UserCounts(a, v, EndsLeft(a, t, v))
    BY MMWaits DEF MMAsked
  <1>2. PICK u \in USERS, type \in SignalRequests :
          Asks(m, type, u) /\ Signalling(NoMessage, t[MM], u)
    BY <1>1, AskedOf, SignedFields DEF Asks
  <1>3. m.PROC1 = u
    BY <1>2, SignedFields DEF Asks
  <1>4. \A v : Ends(a.inbox[SYSTASK], v) <=> v = u
    BY <1>3 DEF Ends
  <1> DEFINE b == do_endsig(a, u)
  <1>5. ASSUME u \in a.in_use
        PROVE  /\ a.p_pendcount[u] = Cardinality(a.p_pending[u]) + EndsIn(t[MM], u) + 1
               /\ Cardinality(a.p_pending[u]) \in Nat /\ EndsIn(t[MM], u) \in Nat
               /\ a.p_pendcount[u] > 0 /\ "SIG_PENDING" \in a.p_flags[u]
               /\ "PENDING" \in a.p_flags[u] <=> a.p_pending[u] # {}
    <2>1. UserCounts(a, u, EndsIn(t[MM], u) + 1) /\ EndsIn(t[MM], u) \in Nat
      BY <1>1, <1>4, <1>5
    <2>2. Cardinality(a.p_pending[u]) \in Nat
      BY <1>1, PendingFinite DEF Counted
    <2> QED
      BY <2>1, <2>2 DEF UserCounts
  <1>6. /\ Core(b) /\ HighestRuns(b)
        /\ IF u \in a.in_use /\ a.p_pendcount[u] # 0 THEN Ended(a, b, u) ELSE b = a
    BY <1>1, <1>5, EndsigCore
  <1> HIDE DEF b
  <1>7. CASE u \notin a.in_use
    <2>1. b = a
      BY <1>6, <1>7
    <2>2. \A v \in b.in_use : UserCounts(b, v, EndsIn(t[MM], v))
      BY <1>1, <1>4, <1>7, <2>1
    <2>3. SameMessages(a, b)
      BY <2>1 DEF SameMessages
    <2>4. SigInOrder(Clear(b, SYSTASK), [t EXCEPT ![SYSTASK] = <<Reply(MM)>>])
      BY <1>1, <1>2, <1>6, <2>1, <2>2, <2>3, SignalServed
    <2> QED
      BY <1>3, <2>4 DEF b
  <1>8. CASE u \in a.in_use
    <2>1. Ended(a, b, u)
      BY <1>5, <1>6, <1>8
    <2>2. /\ b.in_use = a.in_use /\ b.p_pending = a.p_pending /\ b.sig_procs = a.sig_procs
          /\ SameMessages(a, b) /\ b.p_pendcount[u] = a.p_pendcount[u] - 1
          /\ \A v \in USERS : "PENDING" \in b.p_flags[v] <=> "PENDING" \in a.p_flags[v]
          /\ \A v \in USERS \ {u} : /\ b.p_pendcount[v] = a.p_pendcount[v]
                                    /\ b.p_flags[v] = a.p_flags[v]
          /\ "SIG_PENDING" \in b.p_flags[u] <=> a.p_pendcount[u] - 1 # 0
      <3>1. /\ b.in_use = a.in_use /\ b.p_pending = a.p_pending /\ b.sig_procs = a.sig_procs
            /\ SameMessages(a, b) /\ b.p_pendcount = [a.p_pendcount EXCEPT ![u] = @ - 1]
            /\ b.p_flags = IF a.p_pendcount[u] - 1 # 0 THEN a.p_flags
                           ELSE [a.p_flags EXCEPT ![u] = @ \ {"SIG_PENDING"}]
        BY <2>1 DEF Ended, SameMessages
      <3>2. /\ DOMAIN a.p_pendcount = Procs /\ a.p_flags \in [Procs -> SUBSET Flags]
            /\ u \in Procs /\ USERS \subseteq Procs
        BY <1>1, SigNumbers DEF Typed
      <3>3. /\ b.p_pendcount[u] = a.p_pendcount[u] - 1
            /\ \A v \in USERS \ {u} : b.p_pendcount[v] = a.p_pendcount[v]
        BY <3>1, <3>2
      <3>4. /\ \A v \in USERS : "PENDING" \in b.p_flags[v] <=> "PENDING" \in a.p_flags[v]
            /\ \A v \in USERS \ {u} : b.p_flags[v] = a.p_flags[v]
            /\ "SIG_PENDING" \in b.p_flags[u] <=> a.p_pendcount[u] - 1 # 0
        <4>1. CASE a.p_pendcount[u] - 1 # 0
          BY <1>5, <1>8, <3>1, <4>1
        <4>2. CASE a.p_pendcount[u] - 1 = 0
          <5>1. b.p_flags = [a.p_flags EXCEPT ![u] = @ \ {"SIG_PENDING"}]
            BY <3>1, <4>2
          <5> QED
            BY <3>2, <4>2, <5>1
        <4> QED
          BY <4>1, <4>2
      <3> QED
        BY <3>1, <3>3, <3>4
    <2>3. Counted(b)
      <3>1. Marked(b) = Marked(a)
        BY <2>2 DEF Marked
      <3> QED
        BY <1>1, <2>2, <3>1 DEF Counted
    <2>4. ASSUME NEW v \in b.in_use PROVE UserCounts(b, v, EndsIn(t[MM], v))
      <3>1. v \in USERS /\ UserCounts(a, v, EndsLeft(a, t, v))
        BY <1>1, <2>2, <2>4
      <3>2. CASE v = u
        <4>1. b.p_pendcount[u] = Cardinality(b.p_pending[u]) + EndsIn(t[MM], u)
          BY <1>5, <1>8, <2>2
        <4>2. "SIG_PENDING" \in b.p_flags[u] <=> b.p_pendcount[u] > 0
          BY <1>5, <1>8, <2>2
        <4>3. "PENDING" \in b.p_flags[u] <=> b.p_pending[u] # {}
          BY <1>5, <1>8, <2>2
        <4> QED
          BY <3>2, <4>1, <4>2, <4>3 DEF UserCounts
      <3>3. CASE v # u
        <4>1. UserCounts(a, v, EndsIn(t[MM], v))
          BY <1>1, <1>4, <3>1, <3>3
        <4> QED
          BY <2>2, <3>1, <3>3, <4>1 DEF UserCounts
      <3> QED
        BY <3>2, <3>3
    <2>5. SigInOrder(Clear(b, SYSTASK), [t EXCEPT ![SYSTASK] = <<Reply(MM)>>])
      BY <1>2, <1>6, <2>2, <2>3, <2>4, SignalServed
    <2> QED
      BY <1>3, <2>5 DEF b
  <1> QED
    BY <1>7, <1>8

\* do_trace stops a process.
LEMMA StopServed ==
    ASSUME NEW a, NEW t, MMAsked(a, t), NEW m, m = a.inbox[SYSTASK], m.m_type = "T_STOP"
    PROVE  SigInOrder(Clear(do_trace(a, m.PROC1, "T_STOP"), SYSTASK),
                      [t EXCEPT ![SYSTASK] = <<Reply(MM)>>])
  <1>1. /\ Core(a) /\ HighestRuns(a) /\ Typed(a) /\ AtWork(a, m, t[MM]) /\ m.m_source = MM
    BY MMWaits DEF MMAsked
  <1>2. PICK u \in USERS, type \in SignalRequests :
          Asks(m, type, u) /\ Signalling(NoMessage, t[MM], u)
    BY <1>1, AskedOf, SignedFields DEF Asks
  <1>3. m.PROC1 = u
    BY <1>2, SignedFields DEF Asks
  <1> DEFINE b == do_trace(a, u, "T_STOP")
  <1>4. /\ Core(b) /\ HighestRuns(b)
        /\ IF u \in a.in_use THEN Traced(a, b, u, a.p_flags[u] \cup {"P_STOP"}) ELSE b = a
    BY <1>1, StopCore
  <1> HIDE DEF b
  <1>5. /\ SameMessages(a, b) /\ b.p_pending = a.p_pending /\ b.p_pendcount = a.p_pendcount
        /\ b.sig_procs = a.sig_procs /\ b.in_use = a.in_use
        /\ \A v \in USERS, f \in {"PENDING", "SIG_PENDING"} :
             f \in b.p_flags[v] <=> f \in a.p_flags[v]
    <2>1. a.p_flags \in [Procs -> SUBSET Flags] /\ u \in Procs /\ USERS \subseteq Procs
      BY <1>1, SigNumbers DEF Typed
    <2>2. CASE u \in a.in_use
      <3>1. Traced(a, b, u, a.p_flags[u] \cup {"P_STOP"})
        BY <1>4, <2>2
      <3> QED
        BY <2>1, <3>1 DEF Traced, SameMessages
    <2>3. CASE u \notin a.in_use
      <3>1. b = a
        BY <1>4, <2>3
      <3> QED
        BY <3>1 DEF SameMessages
    <2> QED
      BY <2>2, <2>3
  <1>6. Counted(b) /\ \A v \in b.in_use : UserCounts(b, v, EndsIn(t[MM], v))
    BY <1>5, CountsServed
  <1>7. SigInOrder(Clear(b, SYSTASK), [t EXCEPT ![SYSTASK] = <<Reply(MM)>>])
    BY <1>2, <1>4, <1>5, <1>6, SignalServed
  <1> QED
    BY <1>3, <1>7 DEF b

\* do_trace resumes one.
LEMMA ResumeServed ==
    ASSUME NEW a, NEW t, MMAsked(a, t), NEW m, m = a.inbox[SYSTASK], m.m_type = "T_RESUME"
    PROVE  SigInOrder(Clear(do_trace(a, m.PROC1, "T_RESUME"), SYSTASK),
                      [t EXCEPT ![SYSTASK] = <<Reply(MM)>>])
  <1>1. /\ Core(a) /\ HighestRuns(a) /\ Typed(a) /\ AtWork(a, m, t[MM]) /\ m.m_source = MM
        /\ SendersInOrder(a) /\ First(a, SYSTASK) /\ SYSTASK \in Procs \ USERS
    BY MMWaits DEF MMAsked
  <1>2. PICK u \in USERS, v \in USERS :
          /\ Asks(m, "T_RESUME", v) /\ StoppedIn(a, v) /\ AwaitsAnswer(a, u, MM)
          /\ t[MM] = <<Reply(u)>>
    BY <1>1, AskedOf, SignedFields DEF Asks, SignalRequests
  <1>3. m.PROC1 = v
    BY <1>2, SignedFields DEF Asks
  <1> DEFINE b == do_trace(a, v, "T_RESUME")
  <1>4. Core(b) /\ HighestRuns(b) /\ Traced(a, b, v, a.p_flags[v] \ {"P_STOP"})
    BY <1>1, <1>2, ResumeCore DEF StoppedIn
  <1> HIDE DEF b
  <1>5. /\ SameMessages(a, b) /\ b.p_pending = a.p_pending /\ b.p_pendcount = a.p_pendcount
        /\ b.sig_procs = a.sig_procs /\ b.in_use = a.in_use
        /\ \A x \in USERS, f \in {"PENDING", "SIG_PENDING"} :
             f \in b.p_flags[x] <=> f \in a.p_flags[x]
    BY <1>1, <1>4, SigNumbers DEF Traced, SameMessages, Typed
  <1>6. Counted(b) /\ \A x \in b.in_use : UserCounts(b, x, EndsIn(t[MM], x))
    BY <1>5, CountsServed
  <1>7. SendersInOrder(b)
    BY <1>1, <1>5 DEF SendersInOrder, SameMessages
  <1>8. \A x \in USERS : \A p : AwaitsAnswer(a, x, p) => AwaitsAnswer(b, x, p)
    BY <1>5 DEF AwaitsAnswer, SameMessages
  <1>9. AtWork(b, NoMessage, t[MM])
    <2>1. Resuming(b, NoMessage, t[MM], u, v)
      BY <1>2, <1>8 DEF Resuming
    <2> QED
      BY <2>1 DEF AtWork
  <1>10. /\ b.inbox = a.inbox /\ b.p_messbuf[MM] = a.p_messbuf[MM]
         /\ \A x \in Active : b.p_getfrom[x] = a.p_getfrom[x] /\ b.p_sendto[x] = a.p_sendto[x]
    BY <1>5 DEF SameMessages
  <1>11. SigInOrder(Clear(b, SYSTASK), [t EXCEPT ![SYSTASK] = <<Reply(MM)>>])
    BY <1>4, <1>6, <1>7, <1>8, <1>9, <1>10, SystemServed
  <1> QED
    BY <1>3, <1>11 DEF b

-----------------------------------------------------------------------------
(* MM begins with a message.                                                 *)

\* A call that ends no signal.
EndsNone(c) == \A v : ~Ends(c.m, v)

\* Calls none of which ends a signal.
LEMMA NoneEnds ==
    ASSUME NEW S, NEW calls \in Seq(S), \A x \in S : EndsNone(x)
    PROVE  \A u : EndsIn(calls, u) = 0
  <1>1. \A i \in DOMAIN calls : calls[i] \in S
    OBVIOUS
  <1> TAKE u
  <1>2. \A i \in DOMAIN calls : ~Ends(calls[i].m, u)
    BY <1>1 DEF EndsNone
  <1> QED
    BY <1>2, EndsNumber

\* Only SYS_ENDSIG ends a signal, one of the process it names.
LEMMA EndingCalls ==
    /\ EndsNone(TellFS) /\ \A u : EndsNone(Reply(u))
    /\ \A u, v : Ends(System("SYS_ENDSIG", u).m, v) <=> u = v
    /\ \A type, u : type # "SYS_ENDSIG" => EndsNone(System(type, u))
    /\ \A u, c : EndsNone(SendRec(SYSTASK, ForkRequest(u, c)))
  <1>1. \A type, u : System(type, u).m = Request(type, u)
    BY CallsKnown
  <1>2. \A u, c : SendRec(SYSTASK, ForkRequest(u, c)).m = ForkRequest(u, c)
    BY CallsKnown
  <1>3. \A type, u : Request(type, u).m_type = type /\ Request(type, u).PROC1 = u
    BY DEF Request
  <1>4. \A u, c : ForkRequest(u, c).m_type = "SYS_FORK"
    BY DEF ForkRequest
  <1> QED
    BY <1>1, <1>2, <1>3, <1>4, CallsKnown DEF Ends, EndsNone

\* How a signal of u is handled.
LEMMA HandlingKnown ==
    ASSUME NEW u, NEW h \in Handling(u)
    PROVE  /\ h \in Seq(SignalCalls(u)) /\ Len(h) \in Nat /\ Len(h) <= 2
           /\ \A v : \A i \in DOMAIN h : ~Ends(h[i].m, v)
  <1>1. h \in {<< >>, <<System("T_STOP", u)>>, <<TellFS, System("SYS_XIT", u)>>}
    BY DEF Handling
  <1> DEFINE S == {TellFS, System("T_STOP", u), System("SYS_XIT", u)}
  <1>2. S \subseteq SignalCalls(u)
    BY DEF SignalCalls, SignalRequests
  <1>3. /\ << >> \in Seq(S) /\ Len(<< >>) = 0
        /\ <<System("T_STOP", u)>> \in Seq(S) /\ Len(<<System("T_STOP", u)>>) = 1
        /\ <<TellFS, System("SYS_XIT", u)>> \in Seq(S)
        /\ Len(<<TellFS, System("SYS_XIT", u)>>) = 2
    OBVIOUS
  <1>5. \A x \in S : EndsNone(x)
    BY EndingCalls
  <1> HIDE DEF S
  <1>4. h \in Seq(S) /\ Len(h) \in Nat /\ Len(h) <= 2
    <2>1. CASE h = << >>
      BY <1>3, <2>1
    <2>2. CASE h = <<System("T_STOP", u)>>
      BY <1>3, <2>2
    <2>3. CASE h = <<TellFS, System("SYS_XIT", u)>>
      BY <1>3, <2>3
    <2> QED
      BY <1>1, <2>1, <2>2, <2>3
  <1>6. \A i \in DOMAIN h : h[i] \in S
    BY <1>4
  <1>7. h \in Seq(SignalCalls(u))
    BY <1>2, <1>4
  <1> QED
    BY <1>4, <1>5, <1>6, <1>7 DEF EndsNone

\* One signal more is handled and ended.
Handled(calls, h, u) == calls \o h \o EndSig(u)

\* Calls d, with one signal of u ended more than by calls.
OneMore(calls, d, u) ==
    /\ d \in Seq(SignalCalls(u)) /\ Len(d) <= Len(calls) + 3
    /\ \A v : EndsIn(d, v) = EndsIn(calls, v) + (IF v = u THEN 1 ELSE 0)

\* To handle one more signal adds one call that ends it.
LEMMA SignalEnded ==
    ASSUME NEW u, NEW calls \in Seq(SignalCalls(u)), NEW h \in Handling(u)
    PROVE  OneMore(calls, Handled(calls, h, u), u)
  <1> DEFINE c == System("SYS_ENDSIG", u)
             S == SignalCalls(u)
             d == calls \o h
  <1>1. /\ h \in Seq(S) /\ Len(h) \in Nat /\ Len(h) <= 2
        /\ \A v : \A i \in DOMAIN h : ~Ends(h[i].m, v)
    BY HandlingKnown
  <1>2. c \in S
    BY DEF SignalCalls, SignalRequests
  <1>3. EndSig(u) = <<c>>
    BY DEF EndSig
  <1>4. \A v : Ends(c.m, v) <=> u = v
    BY EndingCalls
  <1> HIDE DEF c, S
  <1>5. d \in Seq(S) /\ Len(d) = Len(calls) + Len(h) /\ Len(calls) \in Nat
    BY <1>1 DEF S
  <1>6. \A v : EndsIn(d, v) = EndsIn(calls, v)
    BY <1>1, EndsSame DEF S
  <1> HIDE DEF d
  <1>7. d \o <<c>> \in Seq(S) /\ Len(d \o <<c>>) = Len(d) + 1
    BY <1>2, <1>5
  <1>8. \A v : EndsIn(d \o <<c>>, v) = EndsIn(d, v) + (IF Ends(c.m, v) THEN 1 ELSE 0)
    BY <1>2, <1>5, EndsAppended
  <1>9. /\ d \o EndSig(u) \in Seq(S) /\ Len(d \o EndSig(u)) <= Len(calls) + 3
        /\ \A v : EndsIn(d \o EndSig(u), v) = EndsIn(calls, v) + (IF v = u THEN 1 ELSE 0)
    <2> DEFINE e == d \o <<c>>
    <2>1. e \in Seq(S) /\ Len(e) = Len(d) + 1
      BY <1>7
    <2>2. \A v : EndsIn(e, v) = EndsIn(d, v) + (IF Ends(c.m, v) THEN 1 ELSE 0)
      BY <1>8
    <2>3. d \o EndSig(u) = e
      BY <1>3
    <2> HIDE DEF e
    <2>4. Len(e) <= Len(calls) + 3
      <3>1. Len(h) <= 2 /\ Len(h) \in Nat
        BY HandlingKnown
      <3> QED
        BY <1>5, <2>1, <3>1
    <2>5. \A v : EndsIn(e, v) = EndsIn(calls, v) + (IF v = u THEN 1 ELSE 0)
      BY <1>4, <1>6, <2>2
    <2> QED
      BY <2>1, <2>3, <2>4, <2>5
  <1> QED
    BY <1>9 DEF d, S, Handled, OneMore

\* What MM calls for the n signals of u.
SignalWork(u, n, h, g, calls) ==
    \/ n = 1 /\ calls = h \o EndSig(u)
    \/ n = 2 /\ calls = h \o EndSig(u) \o g \o EndSig(u)

\* MM begins with the signals of a KSIG message: as many calls end them as there are.
LEMMA MMSignals ==
    ASSUME NEW a, NEW t, SigInOrder(a, t), MM = a.proc_ptr, t[MM] = << >>,
           a.inbox[MM].m_type = "KSIG", NEW u, u = a.inbox[MM].SIG_PROC,
           NEW n, n = Cardinality(a.inbox[MM].SIG_MAP),
           NEW h \in Handling(u), NEW g \in Handling(u), NEW calls,
           SignalWork(u, n, h, g, calls)
    PROVE  SigInOrder(Clear(a, MM), [t EXCEPT ![MM] = calls])
  <1>1. u \in USERS
    <2>1. MMInOrder(a, t) /\ a.in_use \subseteq USERS
      BY DEF SigInOrder, Core, Typed
    <2>2. MMHas(a, a.inbox[MM])
      BY <2>1 DEF MMInOrder
    <2>3. PICK v \in a.in_use, map \in SUBSET Sigs : a.inbox[MM] = Ksig(v, map)
      BY <2>2, SignedFields DEF MMHas, MMCalls
    <2> QED
      BY <2>1, <2>3, SignedFields
  <1> DEFINE z == << >>
  <1>2. /\ z \in Seq(SignalCalls(u)) /\ Len(z) = 0
        /\ \A v : EndsIn(z, v) = 0
    <2>1. /\ z \in Seq({}) /\ z \in Seq(SignalCalls(u)) /\ Len(z) = 0
          /\ DOMAIN z = {}
      OBVIOUS
    <2> HIDE DEF z
    <2>3. \A v : EndsIn(z, v) = 0
      BY <2>1, EndsNumber
    <2> QED
      BY <2>1, <2>3
  <1>3. z \o h = h
    <2>1. h \in Seq(SignalCalls(u))
      BY HandlingKnown
    <2> QED
      BY <2>1
  <1> DEFINE d == Handled(z, h, u)
             e == Handled(d, g, u)
  <1>4. (n = 1 /\ calls = d) \/ (n = 2 /\ calls = e)
    BY <1>3, Zenon DEF Handled, SignalWork
  <1> HIDE DEF z
  <1>5. /\ d \in Seq(SignalCalls(u)) /\ Len(d) <= 3
        /\ \A v : EndsIn(d, v) = IF v = u THEN 1 ELSE 0
    <2>1. OneMore(z, d, u)
      BY <1>2, SignalEnded DEF d
    <2> HIDE DEF d
    <2> QED
      BY <1>2, <2>1 DEF OneMore
  <1> HIDE DEF d
  <1>6. /\ e \in Seq(SignalCalls(u)) /\ Len(e) <= 6
        /\ \A v : EndsIn(e, v) = IF v = u THEN 2 ELSE 0
    <2>1. /\ e \in Seq(SignalCalls(u)) /\ Len(e) <= Len(d) + 3
          /\ \A v : EndsIn(e, v) = EndsIn(d, v) + (IF v = u THEN 1 ELSE 0)
      <3>1. OneMore(d, e, u)
        BY <1>5, SignalEnded DEF e
      <3> HIDE DEF e
      <3> QED
        BY <3>1 DEF OneMore
    <2> HIDE DEF e
    <2>2. Len(e) \in Nat /\ Len(d) \in Nat
      BY <1>5, <2>1
    <2> QED
      BY <1>5, <2>1, <2>2
  <1> HIDE DEF e
  <1>7. /\ calls \in Seq(SignalCalls(u)) /\ Len(calls) <= 6
        /\ \A v : EndsIn(calls, v) = IF v = u THEN n ELSE 0
    <2>1. Len(d) <= 6
      <3>1. Len(d) \in Nat
        BY <1>5
      <3> QED
        BY <1>5, <3>1
    <2>2. ASSUME n = 1, calls = d
          PROVE  /\ calls \in Seq(SignalCalls(u)) /\ Len(calls) <= 6
                 /\ \A v : EndsIn(calls, v) = IF v = u THEN n ELSE 0
      BY <1>5, <2>1, <2>2
    <2>3. ASSUME n = 2, calls = e
          PROVE  /\ calls \in Seq(SignalCalls(u)) /\ Len(calls) <= 6
                 /\ \A v : EndsIn(calls, v) = IF v = u THEN n ELSE 0
      BY <1>6, <2>3
    <2> QED
      BY <1>4, <2>2, <2>3
  <1>8. AtWork(a, NoMessage, calls)
    BY <1>1, <1>7 DEF AtWork, Signalling
  <1>9. \A v : EndsIn(calls, v) = EndsGot(a.inbox[MM], v)
    BY <1>7 DEF EndsGot
  <1> QED
    BY <1>8, <1>9, MMBegins

\* MM begins with a request of a process that waits for the answer.
LEMMA MMRequests ==
    ASSUME NEW a, NEW t, SigInOrder(a, t), MM = a.proc_ptr, t[MM] = << >>,
           NEW type, a.inbox[MM].m_type = type, NEW u, u = a.inbox[MM].m_source, NEW calls,
           \/ type = "FORK" /\ calls = <<Reply(u)>>
           \/ /\ type = "FORK" /\ USERS # a.in_use
              /\ LET c == Smallest(USERS \ a.in_use) IN
                 calls = <<SendRec(SYSTASK, ForkRequest(u, c)), TellFS, System("SYS_NEWMAP", c),
                           Reply(c), Reply(u)>>
           \/ type = "EXIT" /\ calls \in {<<Reply(u)>>, <<TellFS, System("SYS_XIT", u)>>}
           \/ type = "EXEC" /\ calls = <<System("SYS_EXEC", u)>>
           \/ type = "PTRACE" /\ calls = <<Reply(u)>>
           \/ /\ type = "PTRACE"
              /\ \E v \in USERS : StoppedIn(a, v) /\ calls = <<System("T_RESUME", v), Reply(u)>>
    PROVE  SigInOrder(Clear(a, MM), [t EXCEPT ![MM] = calls])
  <1>1. MMInOrder(a, t) /\ a.in_use \subseteq USERS /\ USERS \subseteq Nat /\ type \in MMCalls
    BY SigNumbers DEF SigInOrder, Core, Typed, MMCalls
  <1>2. u \in USERS /\ AwaitsAnswer(a, u, MM) /\ a.inbox[MM].m_type # "KSIG"
    <2>1. type \notin {"none", "reply"} /\ type # "KSIG"
      BY <1>1 DEF MMCalls
    <2>2. MMHas(a, a.inbox[MM])
      BY <1>1, <2>1 DEF MMInOrder
    <2>3. PICK v \in USERS, ty \in MMCalls : a.inbox[MM] = Message(v, ty) /\ AwaitsAnswer(a, v, MM)
      BY <2>1, <2>2, SignedFields DEF MMHas
    <2> QED
      BY <2>1, <2>3, SignedFields
  <1>3. \A v : EndsGot(a.inbox[MM], v) = 0
    BY <1>2 DEF EndsGot
  <1>4. ASSUME calls = <<Reply(u)>> PROVE SigInOrder(Clear(a, MM), [t EXCEPT ![MM] = calls])
    <2>1. AtWork(a, NoMessage, calls)
      BY <1>2, <1>4 DEF AtWork, Resuming
    <2>2. calls \in Seq({Reply(u)})
      BY <1>4
    <2>3. \A v : EndsIn(calls, v) = 0
      <3>1. \A x \in {Reply(u)} : EndsNone(x)
        BY EndingCalls
      <3> QED
        BY <2>2, <3>1, NoneEnds
    <2> QED
      BY <1>3, <2>1, <2>3, MMBegins
  <1>5. ASSUME USERS # a.in_use, NEW c, c = Smallest(USERS \ a.in_use),
               calls = <<SendRec(SYSTASK, ForkRequest(u, c)), TellFS, System("SYS_NEWMAP", c),
                         Reply(c), Reply(u)>>
        PROVE  SigInOrder(Clear(a, MM), [t EXCEPT ![MM] = calls])
    <2>1. c \in USERS /\ c \notin a.in_use
      <3>1. USERS \ a.in_use \in SUBSET Nat /\ USERS \ a.in_use # {}
        BY <1>1, <1>5
      <3> QED
        BY <1>5, <3>1, SmallestIsIn
    <2>2. u # c
      BY <1>2, <2>1 DEF AwaitsAnswer
    <2>3. Forking(a, NoMessage, calls, u, c)
      BY <1>2, <1>5, <2>1, <2>2 DEF Forking, ForkBegins
    <2>4. AtWork(a, NoMessage, calls)
      BY <1>2, <2>1, <2>3 DEF AtWork
    <2> DEFINE S == {SendRec(SYSTASK, ForkRequest(u, c)), TellFS, System("SYS_NEWMAP", c),
                     Reply(c), Reply(u)}
    <2>5. calls \in Seq(S)
      BY <1>5
    <2>6. \A x \in S : EndsNone(x)
      BY EndingCalls
    <2> HIDE DEF S
    <2>7. \A v : EndsIn(calls, v) = 0
      BY <2>5, <2>6, NoneEnds
    <2> QED
      BY <1>3, <2>4, <2>7, MMBegins
  <1>6. ASSUME calls = <<TellFS, System("SYS_XIT", u)>>
        PROVE  SigInOrder(Clear(a, MM), [t EXCEPT ![MM] = calls])
    <2> DEFINE S == {TellFS, System("SYS_XIT", u)}
    <2>1. calls \in Seq(S) /\ Len(calls) = 2
      BY <1>6
    <2>2. \A x \in S : EndsNone(x)
      BY EndingCalls
    <2>3. S \subseteq SignalCalls(u)
      BY DEF SignalCalls, SignalRequests
    <2> HIDE DEF S
    <2>4. \A v : EndsIn(calls, v) = 0
      BY <2>1, <2>2, NoneEnds
    <2>5. calls \in Seq(SignalCalls(u))
      BY <2>1, <2>3
    <2>6. Signalling(NoMessage, calls, u)
      BY <2>1, <2>5 DEF Signalling
    <2>7. AtWork(a, NoMessage, calls)
      BY <1>2, <2>6 DEF AtWork
    <2> QED
      BY <1>3, <2>4, <2>7, MMBegins
  <1>7. ASSUME calls = <<System("SYS_EXEC", u)>>
        PROVE  SigInOrder(Clear(a, MM), [t EXCEPT ![MM] = calls])
    <2>1. AtWork(a, NoMessage, calls)
      BY <1>2, <1>7 DEF AtWork, Executing
    <2>2. calls \in Seq({System("SYS_EXEC", u)})
      BY <1>7
    <2>3. \A x \in {System("SYS_EXEC", u)} : EndsNone(x)
      BY EndingCalls
    <2>4. \A v : EndsIn(calls, v) = 0
      BY <2>2, <2>3, NoneEnds
    <2> QED
      BY <1>3, <2>1, <2>4, MMBegins
  <1>8. ASSUME NEW v \in USERS, StoppedIn(a, v), calls = <<System("T_RESUME", v), Reply(u)>>
        PROVE  SigInOrder(Clear(a, MM), [t EXCEPT ![MM] = calls])
    <2>1. Resuming(a, NoMessage, calls, u, v)
      BY <1>2, <1>8 DEF Resuming
    <2>2. AtWork(a, NoMessage, calls)
      BY <1>2, <2>1 DEF AtWork
    <2>3. calls \in Seq({System("T_RESUME", v), Reply(u)})
      BY <1>8
    <2>4. \A x \in {System("T_RESUME", v), Reply(u)} : EndsNone(x)
      BY EndingCalls
    <2>5. \A w : EndsIn(calls, w) = 0
      BY <2>3, <2>4, NoneEnds
    <2> QED
      BY <1>3, <2>2, <2>5, MMBegins
  <1> QED
    BY <1>4, <1>5, <1>6, <1>7, <1>8

-----------------------------------------------------------------------------
(* The steps together.                                                       *)

\* main() starts in order.
LEMMA BootInOrder ==
    SigInOrder(Boot(INIT_PROC_NR), [p \in Active |-> << >>])
  <1> DEFINE a == Boot(INIT_PROC_NR)
             t == [p \in Active |-> << >>]
  <1>1. Core(a) /\ HighestRuns(a) /\ INIT_PROC_NR \in USERS
    BY InitAssumption, BootCore
  <1>2. /\ \A p \in Procs : /\ a.p_flags[p] = {} /\ a.p_getfrom[p] = NONE
                            /\ a.p_sendto[p] = NONE /\ a.p_messbuf[p] = NoMessage
                            /\ a.inbox[p] = NoMessage /\ a.p_pending[p] = {}
                            /\ a.p_pendcount[p] = 0
        /\ a.sig_procs = 0 /\ a.in_use = {INIT_PROC_NR}
    BY DEF Boot
  <1>3. DOMAIN t = Active /\ \A p \in Active : t[p] = << >>
    OBVIOUS
  <1> HIDE DEF a, t
  <1>4. /\ MM \in Procs /\ FS \in Procs /\ SYSTASK \in Procs /\ MM \in Active /\ FS \in Active
        /\ USERS \subseteq Procs /\ TASKS \subseteq Procs /\ TASKS \subseteq Active
        /\ NONE # MM /\ NONE # FS /\ NONE # ANY /\ NONE \notin SERVERS
    BY SigNumbers
  <1>5. SendersInOrder(a)
    BY <1>2, <1>4 DEF SendersInOrder
  <1>6. TasksInOrder(a, t)
    <2>1. ~SystemAsked(a)
      BY <1>2, <1>4, SignedFields DEF SystemAsked
    <2> QED
      BY <1>2, <1>3, <1>4, <2>1 DEF TasksInOrder, TaskInOrder
  <1>7. FSInOrder(a, t)
    BY <1>2, <1>3, <1>4, SignedFields DEF FSInOrder
  <1>8. MMInOrder(a, t)
    BY <1>2, <1>3, <1>4, SignedFields DEF MMInOrder, AtWork, Requested
  <1>9. Counts(a, t)
    <2>1. Cardinality({}) = 0
      BY FS_EmptySet
    <2>2. Marked(a) = {}
      BY <1>2, <1>4 DEF Marked
    <2>3. Counted(a)
      BY <1>2, <1>4, <2>1, <2>2 DEF Counted
    <2>4. \A u : EndsLeft(a, t, u) = 0
      <3> TAKE u
      <3>1. EndsIn(t[MM], u) = 0
        <4>1. t[MM] = << >>
          BY <1>3, <1>4
        <4>2. << >> \in Seq({}) /\ DOMAIN << >> = {}
          OBVIOUS
        <4>3. EndsIn(<< >>, u) = 0
          BY <4>2, EndsNumber
        <4> QED
          BY <4>1, <4>3
      <3>2. EndsGot(a.inbox[MM], u) = 0
        BY <1>2, <1>4, SignedFields DEF EndsGot
      <3>3. ~Ends(a.p_messbuf[MM], u) /\ ~Ends(a.inbox[SYSTASK], u)
        BY <1>2, <1>4, SignedFields
      <3> QED
        BY <3>1, <3>2, <3>3 DEF EndsLeft
    <2>5. UserCounts(a, INIT_PROC_NR, 0)
      <3>1. INIT_PROC_NR \in Procs
        BY <1>1, <1>4
      <3>2. a.p_pendcount[INIT_PROC_NR] = Cardinality(a.p_pending[INIT_PROC_NR]) + 0
        <4>1. a.p_pendcount[INIT_PROC_NR] = 0 /\ a.p_pending[INIT_PROC_NR] = {}
          BY <1>2, <3>1
        <4>2. 0 = 0 + 0
          OBVIOUS
        <4> QED
          BY <2>1, <4>1, <4>2
      <3>3. ~(a.p_pendcount[INIT_PROC_NR] > 0)
        BY <1>2, <3>1
      <3>4. /\ "SIG_PENDING" \notin a.p_flags[INIT_PROC_NR]
            /\ "PENDING" \notin a.p_flags[INIT_PROC_NR] /\ a.p_pending[INIT_PROC_NR] = {}
        BY <1>2, <3>1
      <3> QED
        BY <3>2, <3>3, <3>4 DEF UserCounts
    <2> QED
      BY <1>2, <2>3, <2>4, <2>5 DEF Counts
  <1>10. SigInOrder(a, t)
    BY <1>1, <1>3, <1>5, <1>6, <1>7, <1>8, <1>9 DEF SigInOrder
  <1> QED
    BY <1>10 DEF a, t

\* What a process's call makes of the tables, and its calls then.
AfterCall(a, p, c) == sys_call(a, c.function, c.dest, Signed(c.m, p)).k
Called1(t, p) == [t EXCEPT ![p] = Tail(t[p])]

\* The fields of the calls.
LEMMA CallFields ==
    /\ \A u : /\ Reply(u).function = "SEND" /\ Reply(u).dest = u
              /\ \A p : Signed(Reply(u).m, p).m_type = "reply"
    /\ \A d, q : SendRec(d, q).function = "BOTH" /\ SendRec(d, q).dest = d /\ SendRec(d, q).m = q
    /\ \A type, u : System(type, u) = SendRec(SYSTASK, Request(type, u))
    /\ TellFS.function = "BOTH" /\ TellFS.dest = FS
  BY DEF Reply, SendRec, System, TellFS, Signed, Message

\* The next call of a task or server, whichever it is, leaves the tables in order.
LEMMA CallMade ==
    ASSUME NEW a, NEW t, SigInOrder(a, t), NEW p \in Active, p = a.proc_ptr,
           a.inbox[p] = NoMessage, t[p] # << >>
    PROVE  SigInOrder(AfterCall(a, p, Head(t[p])), Called1(t, p))
  <1>1. /\ TasksInOrder(a, t) /\ FSInOrder(a, t) /\ p \in Procs /\ Active = TASKS \cup {MM, FS}
        /\ a.p_getfrom[p] = NONE /\ NONE # ANY /\ NONE # SYSTASK
    BY SigNumbers, RunsUnblocked DEF SigInOrder
  <1>2. \A c : Head(<<c>>) = c /\ Tail(<<c>>) = << >>
    OBVIOUS
  <1>3. CASE p \in TASKS
    <2>1. PICK s \in SERVERS : p = SYSTASK /\ t[p] = <<Reply(s)>> /\ ServerAwaits(a, s, SYSTASK)
      BY <1>1, <1>3 DEF TasksInOrder, TaskInOrder
    <2>2. Head(t[p]) = Reply(s) /\ Tail(t[p]) = << >>
      BY <1>2, <2>1
    <2>3. SigInOrder(sys_call(a, "SEND", s, Signed(Reply(s).m, p)).k,
                     [t EXCEPT ![SYSTASK] = << >>])
      <3>1. \A m : m.m_type = "reply"
                   => SigInOrder(sys_call(a, "SEND", s, m).k, [t EXCEPT ![SYSTASK] = << >>])
        <4>1. SYSTASK = a.proc_ptr /\ a.inbox[SYSTASK] = NoMessage
              /\ t[SYSTASK] = <<Reply(s)>> /\ ServerAwaits(a, s, SYSTASK)
          BY <2>1
        <4> QED
          BY <4>1, SystemAnswers
      <3>2. Signed(Reply(s).m, p).m_type = "reply"
        BY CallFields
      <3> DEFINE m == Signed(Reply(s).m, p)
      <3> HIDE DEF m
      <3>3. SigInOrder(sys_call(a, "SEND", s, m).k, [t EXCEPT ![SYSTASK] = << >>])
        BY <3>1, <3>2 DEF m
      <3> QED
        BY <3>3 DEF m
    <2>4. Called1(t, p) = [t EXCEPT ![SYSTASK] = << >>]
      BY <2>1, <2>2 DEF Called1
    <2>5. AfterCall(a, p, Reply(s)) = sys_call(a, "SEND", s, Signed(Reply(s).m, p)).k
      BY CallFields DEF AfterCall
    <2> QED
      BY <2>2, <2>3, <2>4, <2>5
  <1>4. CASE p = FS
    <2>1. ASSUME t[FS] = <<Reply(MM)>> PROVE SigInOrder(AfterCall(a, p, Head(t[p])), Called1(t, p))
      <3>1. Head(t[p]) = Reply(MM) /\ Tail(t[p]) = << >>
        BY <1>2, <1>4, <2>1
      <3>2. SigInOrder(sys_call(a, "SEND", MM, Signed(Reply(MM).m, p)).k, [t EXCEPT ![FS] = << >>])
        <4>1. \A m : m.m_type = "reply"
                     => SigInOrder(sys_call(a, "SEND", MM, m).k, [t EXCEPT ![FS] = << >>])
          BY <1>4, <2>1, FSAnswersMM
        <4>2. Signed(Reply(MM).m, p).m_type = "reply"
          BY CallFields
        <4> DEFINE m == Signed(Reply(MM).m, p)
        <4> HIDE DEF m
        <4>3. SigInOrder(sys_call(a, "SEND", MM, m).k, [t EXCEPT ![FS] = << >>])
          BY <4>1, <4>2 DEF m
        <4> QED
          BY <4>3 DEF m
      <3>3. Called1(t, p) = [t EXCEPT ![FS] = << >>]
        BY <1>4, <3>1 DEF Called1
      <3>4. AfterCall(a, p, Reply(MM)) = sys_call(a, "SEND", MM, Signed(Reply(MM).m, p)).k
        BY CallFields DEF AfterCall
      <3> QED
        BY <3>1, <3>2, <3>3, <3>4
    <2>2. ASSUME NEW u \in USERS, t[FS] = <<Reply(u)>>
          PROVE  SigInOrder(AfterCall(a, p, Head(t[p])), Called1(t, p))
      <3>1. Head(t[p]) = Reply(u) /\ Tail(t[p]) = << >>
        BY <1>2, <1>4, <2>2
      <3>2. SigInOrder(sys_call(a, "SEND", u, Signed(Reply(u).m, p)).k, [t EXCEPT ![FS] = << >>])
        BY <1>4, <2>2, FSAnswersUser
      <3>3. Called1(t, p) = [t EXCEPT ![FS] = << >>]
        BY <1>4, <3>1 DEF Called1
      <3>4. AfterCall(a, p, Reply(u)) = sys_call(a, "SEND", u, Signed(Reply(u).m, p)).k
        BY CallFields DEF AfterCall
      <3> QED
        BY <3>1, <3>2, <3>3, <3>4
    <2>3. ASSUME NEW u \in USERS, t[FS] = <<System("SYS_KILL", u), Reply(u)>>
          PROVE  SigInOrder(AfterCall(a, p, Head(t[p])), Called1(t, p))
      <3>1. Head(t[p]) = System("SYS_KILL", u) /\ Tail(t[p]) = <<Reply(u)>>
        <4>1. \A c, d : Head(<<c, d>>) = c /\ Tail(<<c, d>>) = <<d>>
          OBVIOUS
        <4> QED
          BY <1>4, <2>3, <4>1
      <3>2. SigInOrder(sys_call(a, "BOTH", SYSTASK, Signed(Request("SYS_KILL", u), FS)).k,
                       [t EXCEPT ![FS] = <<Reply(u)>>])
        BY <1>4, <2>3, FSKills
      <3>3. Called1(t, p) = [t EXCEPT ![FS] = <<Reply(u)>>]
        BY <1>4, <3>1 DEF Called1
      <3>4. AfterCall(a, p, System("SYS_KILL", u))
              = sys_call(a, "BOTH", SYSTASK, Signed(Request("SYS_KILL", u), FS)).k
        BY <1>4, CallFields DEF AfterCall
      <3> QED
        BY <3>1, <3>2, <3>3, <3>4
    <2> QED
      BY <1>1, <1>4, <2>1, <2>2, <2>3 DEF FSInOrder, Writes, Kills, Answers
  <1>5. CASE p = MM
    <2> DEFINE c == Head(t[MM])
    <2>1. AtWork(a, NoMessage, t[MM]) /\ t[MM] # << >>
      BY <1>5, MMRuns
    <2>2. PICK S : t[MM] \in Seq(S)
      BY <2>1, NextCall
    <2>3. \/ c = TellFS /\ AtWork(a, NoMessage, Tail(t[MM]))
          \/ \E q : /\ SystemRequest(q) /\ c = SendRec(SYSTASK, q)
                    /\ AtWork(a, Signed(q, MM), Tail(t[MM]))
          \/ \E u \in USERS :
               /\ c = Reply(u) /\ AwaitsAnswer(a, u, MM)
               /\ \/ Tail(t[MM]) = << >>
                  \/ \E v \in USERS \ {u} : AwaitsAnswer(a, v, MM) /\ Tail(t[MM]) = <<Reply(v)>>
      BY <2>1, NextCall
    <2>4. Called1(t, p) = [t EXCEPT ![MM] = Tail(t[MM])]
      BY <1>5 DEF Called1
    <2>5. ASSUME c = TellFS, AtWork(a, NoMessage, Tail(t[MM]))
          PROVE  SigInOrder(AfterCall(a, p, c), Called1(t, p))
      <3>1. SigInOrder(sys_call(a, "BOTH", FS, Signed(TellFS.m, MM)).k,
                       [t EXCEPT ![MM] = Tail(t[MM])])
        BY <1>5, <2>1, <2>2, <2>5, MMTells
      <3>2. AfterCall(a, p, TellFS) = sys_call(a, "BOTH", FS, Signed(TellFS.m, MM)).k
        BY <1>5, CallFields DEF AfterCall
      <3> QED
        BY <2>4, <2>5, <3>1, <3>2
    <2>6. ASSUME NEW q, SystemRequest(q), c = SendRec(SYSTASK, q),
                 AtWork(a, Signed(q, MM), Tail(t[MM]))
          PROVE  SigInOrder(AfterCall(a, p, c), Called1(t, p))
      <3>1. SigInOrder(sys_call(a, "BOTH", SYSTASK, Signed(q, MM)).k,
                       [t EXCEPT ![MM] = Tail(t[MM])])
        BY <1>5, <2>1, <2>2, <2>6, MMAsks
      <3>2. AfterCall(a, p, SendRec(SYSTASK, q)) = sys_call(a, "BOTH", SYSTASK, Signed(q, MM)).k
        BY <1>5, CallFields DEF AfterCall
      <3> QED
        BY <2>4, <2>6, <3>1, <3>2
    <2>7. ASSUME NEW u \in USERS, c = Reply(u), AwaitsAnswer(a, u, MM),
                 \/ Tail(t[MM]) = << >>
                 \/ \E v \in USERS \ {u} : AwaitsAnswer(a, v, MM) /\ Tail(t[MM]) = <<Reply(v)>>
          PROVE  SigInOrder(AfterCall(a, p, c), Called1(t, p))
      <3>1. SigInOrder(sys_call(a, "SEND", u, Signed(Reply(u).m, MM)).k,
                       [t EXCEPT ![MM] = Tail(t[MM])])
        BY <1>5, <2>1, <2>2, <2>7, MMAnswers
      <3>2. AfterCall(a, p, Reply(u)) = sys_call(a, "SEND", u, Signed(Reply(u).m, MM)).k
        BY <1>5, CallFields DEF AfterCall
      <3> QED
        BY <2>4, <2>7, <3>1, <3>2
    <2>8. SigInOrder(AfterCall(a, p, c), Called1(t, p))
      BY <2>3, <2>5, <2>6, <2>7
    <2> QED
      BY <1>5, <2>8
  <1> QED
    BY <1>1, <1>3, <1>4, <1>5

\* Who has nothing left to call waits for work.
LEMMA WaitsForWork ==
    ASSUME NEW a, NEW t, SigInOrder(a, t), NEW p \in Active, p = a.proc_ptr,
           a.inbox[p] = NoMessage, t[p] = << >>, NEW m
    PROVE  SigInOrder(sys_call(a, "RECEIVE", ANY, m).k, t)
  <1>1. Active = TASKS \cup {MM, FS}
    BY SigNumbers
  <1> QED
    BY <1>1, TaskReceives, MMReceives, FSReceives

-----------------------------------------------------------------------------
(* The steps of Signals in these terms.                                      *)

\* Trap in these terms.
LEMMA Trapped ==
    ASSUME NEW function, NEW dest, NEW m
    PROVE  Trap(function, dest, m)
             = sys_call(Clear(k, k.proc_ptr), function, dest, Signed(m, k.proc_ptr)).k
  BY DEF Trap, Clear

\* A piece of work begins.
LEMMA Worked ==
    ASSUME NEW p, NEW k1, NEW calls, Work(p, k1, calls)
    PROVE  k' = Clear(k1, p) /\ todo' = [todo EXCEPT ![p] = calls]
  BY DEF Work, Clear

\* Who makes a call has no more use for what it had received.
LEMMA Overwritten ==
    ASSUME SigInOrder(k, todo), NEW p \in Procs, p = k.proc_ptr,
           p \in Active => todo[p] # << >> \/ k.inbox[p].m_type \in {"none", "reply"}
    PROVE  /\ SigInOrder(Clear(k, p), todo)
           /\ Clear(k, p).proc_ptr = p /\ Clear(k, p).inbox[p] = NoMessage
  BY OverwriteKeeps DEF Clear

\* Calls, and receive(ANY) when there are none left.
LEMMA MakeCallKeeps ==
    ASSUME SigInOrder(k, todo), MakeCall
    PROVE  SigInOrder(k, todo)'
  <1> DEFINE p == k.proc_ptr
  <1>1. p \in Active /\ p \in Procs
    BY SigNumbers DEF MakeCall
  <1>2. CASE /\ todo[p] # << >>
             /\ k' = Trap(Head(todo[p]).function, Head(todo[p]).dest, Head(todo[p]).m)
             /\ todo' = [todo EXCEPT ![p] = Tail(@)]
    <2>1. /\ SigInOrder(Clear(k, p), todo)
          /\ Clear(k, p).proc_ptr = p /\ Clear(k, p).inbox[p] = NoMessage
      BY <1>1, <1>2, Overwritten
    <2>2. SigInOrder(AfterCall(Clear(k, p), p, Head(todo[p])), Called1(todo, p))
      BY <1>1, <1>2, <2>1, CallMade
    <2>3. k' = AfterCall(Clear(k, p), p, Head(todo[p]))
      BY <1>2, Trapped DEF AfterCall
    <2>4. todo' = Called1(todo, p)
      BY <1>2 DEF Called1
    <2> QED
      BY <2>2, <2>3, <2>4
  <1>3. CASE /\ todo[p] = << >> /\ k.inbox[p].m_type \in {"none", "reply"}
             /\ k' = Trap("RECEIVE", ANY, NoMessage)
             /\ UNCHANGED todo
    <2>1. /\ SigInOrder(Clear(k, p), todo)
          /\ Clear(k, p).proc_ptr = p /\ Clear(k, p).inbox[p] = NoMessage
      BY <1>1, <1>3, Overwritten
    <2>2. SigInOrder(sys_call(Clear(k, p), "RECEIVE", ANY, Signed(NoMessage, p)).k, todo)
      BY <1>1, <1>3, <2>1, WaitsForWork
    <2> QED
      BY <1>3, <2>2, Trapped
  <1> QED
    BY <1>2, <1>3 DEF MakeCall

\* The clock task, with an alarm that is due or none.
LEMMA ClockTickKeeps ==
    ASSUME SigInOrder(k, todo), do_clocktick
    PROVE  SigInOrder(k, todo)'
  <1>1. todo[CLOCK] = << >>
    BY DEF do_clocktick, Has
  <1>2. ASSUME NEW b, SigInOrder(b, todo), Work(CLOCK, b, << >>)
        PROVE  SigInOrder(k, todo)'
    <2>1. SigInOrder(Clear(b, CLOCK), [todo EXCEPT ![CLOCK] = << >>])
      BY <1>1, <1>2, ClockClears
    <2> QED
      BY <1>2, <2>1, Worked
  <1>3. ASSUME NEW u \in k.in_use PROVE SigInOrder(cause_sig(k, u, "SIGALRM"), todo)
    BY CauseKeeps DEF Sigs
  <1> QED
    BY <1>2, <1>3 DEF do_clocktick

\* Who asks the system task is MM, or FS for a SYS_KILL.
LEMMA SysTaskAsked ==
    ASSUME SigInOrder(k, todo), NEW type, Has(SYSTASK, type),
           type \notin {"none", "reply", "HARD_INT"}
    PROVE  /\ SYSTASK = k.proc_ptr /\ SystemAsked(k)
           /\ type # "SYS_KILL" => MMAsked(k, todo)
           /\ type = "SYS_KILL" =>
                \E u \in USERS : Kills(k, todo, u) /\ Asked = Signed(Request("SYS_KILL", u), FS)
  <1>1. SYSTASK = k.proc_ptr /\ Asked.m_type = type /\ SYSTASK \in TASKS
    BY SigNumbers DEF Has, Asked
  <1>2. SystemAsked(k)
    <2>1. Asked \in {NoMessage, HardInt} \/ SystemAsked(k)
      BY <1>1 DEF SigInOrder, TasksInOrder, TaskInOrder, Asked
    <2> QED
      BY <1>1, <2>1, SignedFields
  <1>3. \/ \E u \in USERS : Kills(k, todo, u) /\ Asked = Signed(Request("SYS_KILL", u), FS)
        \/ Asked.m_source = MM /\ AtWork(k, Asked, todo[MM])
    BY <1>2, RequestKnown DEF Asked
  <1>4. type = "SYS_KILL" => ~(Asked.m_source = MM /\ AtWork(k, Asked, todo[MM]))
    <2> SUFFICES ASSUME Asked.m_source = MM, AtWork(k, Asked, todo[MM])
                 PROVE  Asked.m_type # "SYS_KILL"
      BY <1>1
    <2>1. \/ \E u \in USERS, c \in USERS : Asked = Signed(ForkRequest(u, c), MM)
          \/ \E c \in USERS : Asks(Asked, "SYS_NEWMAP", c)
          \/ \E u \in USERS : Asks(Asked, "SYS_EXEC", u)
          \/ \E v \in USERS : Asks(Asked, "T_RESUME", v)
          \/ \E u \in USERS : \E x \in SignalRequests : Asks(Asked, x, u)
      BY AskedOf
    <2> QED
      BY <2>1, SignedFields DEF Asks, SignalRequests
  <1>5. (\E u \in USERS : Asked = Signed(Request("SYS_KILL", u), FS)) => Asked.m_type = "SYS_KILL"
    BY SignedFields
  <1> QED
    BY <1>1, <1>2, <1>3, <1>4, <1>5 DEF MMAsked, Asked

\* FS signals the writer of a pipe through the system task.
LEMMA KillServed ==
    ASSUME SigInOrder(k, todo), Served("SYS_KILL", cause_sig(k, Asked.PROC1, "SIGPIPE"))
    PROVE  SigInOrder(k, todo)'
  <1>1. Has(SYSTASK, "SYS_KILL")
        /\ Work(SYSTASK, cause_sig(k, Asked.PROC1, "SIGPIPE"), <<Reply(Asked.m_source)>>)
    BY DEF Served
  <1>2. PICK u \in USERS : Kills(k, todo, u) /\ Asked = Signed(Request("SYS_KILL", u), FS)
    BY <1>1, SysTaskAsked
  <1>3. u \in k.in_use /\ Asked.PROC1 = u /\ Asked.m_source = FS
    BY <1>2, SignedFields DEF Kills, AwaitsAnswer
  <1> DEFINE b == cause_sig(k, u, "SIGPIPE")
  <1>4. SigInOrder(b, todo) /\ b.inbox[SYSTASK] = Asked
    BY <1>3, CauseKeeps DEF Asked, Sigs
  <1> HIDE DEF b
  <1>5. SystemAsked(b)
    BY <1>3, <1>4, SigNumbers DEF SystemAsked
  <1>6. \E v \in USERS : Kills(b, todo, v) /\ b.inbox[SYSTASK] = Signed(Request("SYS_KILL", v), FS)
    BY <1>3, <1>4, <1>5, RequestKnown, SigNumbers
  <1>7. SigInOrder(Clear(b, SYSTASK), [todo EXCEPT ![SYSTASK] = <<Reply(FS)>>])
    BY <1>4, <1>6, SystemKilled
  <1>8. Work(SYSTASK, b, <<Reply(FS)>>)
    BY <1>1, <1>3 DEF b
  <1> QED
    BY <1>7, <1>8, Worked

\* Whatever the system task is asked for.
LEMMA SysTaskKeeps ==
    ASSUME SigInOrder(k, todo), sys_task
    PROVE  SigInOrder(k, todo)'
  <1>1. ASSUME NEW type, NEW b, Served(type, b),
               type \notin {"none", "reply", "HARD_INT", "SYS_KILL"},
               MMAsked(k, todo) /\ Asked.m_type = type
                 => SigInOrder(Clear(b, SYSTASK), [todo EXCEPT ![SYSTASK] = <<Reply(MM)>>])
        PROVE  SigInOrder(k, todo)'
    <2>1. Has(SYSTASK, type) /\ Work(SYSTASK, b, <<Reply(Asked.m_source)>>)
      BY <1>1 DEF Served
    <2>2. MMAsked(k, todo) /\ Asked.m_type = type /\ Asked.m_source = MM
      BY <1>1, <2>1, SysTaskAsked DEF Has, Asked, MMAsked
    <2> QED
      BY <1>1, <2>1, <2>2, Worked
  <1>2. ASSUME Served("SYS_FORK", do_fork(k, Asked.PROC1, Asked.PROC2))
        PROVE  SigInOrder(k, todo)'
    BY <1>1, <1>2, ForkServed DEF Asked
  <1>3. ASSUME Served("SYS_NEWMAP", do_newmap(k, Asked.PROC1)) PROVE SigInOrder(k, todo)'
    BY <1>1, <1>3, NewmapServed DEF Asked
  <1>4. ASSUME Served("SYS_EXEC", do_exec(k, Asked.PROC1, FALSE)) PROVE SigInOrder(k, todo)'
    <2> DEFINE b == do_exec(k, Asked.PROC1, FALSE)
    <2>1. MMAsked(k, todo) /\ Asked.m_type = "SYS_EXEC"
            => SigInOrder(Clear(b, SYSTASK), [todo EXCEPT ![SYSTASK] = <<Reply(MM)>>])
      BY ExecServed DEF Asked
    <2>2. Served("SYS_EXEC", b)
      BY <1>4
    <2> HIDE DEF b
    <2> QED
      BY <1>1, <2>1, <2>2
  <1>5. ASSUME Served("SYS_XIT", do_xit(k, Asked.PROC1)) PROVE SigInOrder(k, todo)'
    BY <1>1, <1>5, ExitServed DEF Asked
  <1>6. ASSUME Served("SYS_ENDSIG", do_endsig(k, Asked.PROC1)) PROVE SigInOrder(k, todo)'
    BY <1>1, <1>6, EndsigServed DEF Asked
  <1>7. ASSUME Served("T_STOP", do_trace(k, Asked.PROC1, "T_STOP")) PROVE SigInOrder(k, todo)'
    BY <1>1, <1>7, StopServed DEF Asked
  <1>8. ASSUME Served("T_RESUME", do_trace(k, Asked.PROC1, "T_RESUME"))
        PROVE  SigInOrder(k, todo)'
    BY <1>1, <1>8, ResumeServed DEF Asked
  <1>9. ASSUME TracedExec PROVE SigInOrder(k, todo)'
    <2> DEFINE b == do_exec(k, Asked.PROC1, TRUE)
    <2>1. Has(SYSTASK, "SYS_EXEC") /\ Work(SYSTASK, b, <<Reply(Asked.m_source)>>)
      BY <1>9 DEF TracedExec
    <2>2. MMAsked(k, todo) /\ Asked.m_type = "SYS_EXEC" /\ Asked.m_source = MM
      BY <2>1, SysTaskAsked DEF Has, Asked, MMAsked
    <2>3. SigInOrder(Clear(b, SYSTASK), [todo EXCEPT ![SYSTASK] = <<Reply(MM)>>])
      BY <2>2, TracedExecServed DEF Asked
    <2> HIDE DEF b
    <2> QED
      BY <2>1, <2>2, <2>3, Worked
  <1> QED
    BY <1>2, <1>3, <1>4, <1>5, <1>6, <1>7, <1>8, <1>9, KillServed DEF sys_task

\* Signals that MM is told of.
LEMMA MMSignalKeeps ==
    ASSUME SigInOrder(k, todo), MMSignal
    PROVE  SigInOrder(k, todo)'
  <1> DEFINE u == k.inbox[MM].SIG_PROC
             n == Cardinality(k.inbox[MM].SIG_MAP)
  <1>1. MM = k.proc_ptr /\ todo[MM] = << >> /\ k.inbox[MM].m_type = "KSIG"
    BY DEF MMSignal, Has
  <1>2. ASSUME NEW h \in Handling(u), NEW g \in Handling(u), NEW calls,
               SignalWork(u, n, h, g, calls), Work(MM, k, calls)
        PROVE  SigInOrder(k, todo)'
    <2>1. SigInOrder(Clear(k, MM), [todo EXCEPT ![MM] = calls])
      BY <1>1, <1>2, MMSignals
    <2> QED
      BY <1>2, <2>1, Worked
  <1>3. ASSUME n = 1, NEW h \in Handling(u), Work(MM, k, h \o EndSig(u))
        PROVE  SigInOrder(k, todo)'
    <2>1. SignalWork(u, n, h, h, h \o EndSig(u))
      BY <1>3 DEF SignalWork
    <2> QED
      BY <1>2, <1>3, <2>1
  <1>4. ASSUME n = 2, NEW h \in Handling(u), NEW g \in Handling(u),
               Work(MM, k, h \o EndSig(u) \o g \o EndSig(u))
        PROVE  SigInOrder(k, todo)'
    <2>1. SignalWork(u, n, h, g, h \o EndSig(u) \o g \o EndSig(u))
      BY <1>4 DEF SignalWork
    <2> QED
      BY <1>2, <1>4, <2>1
  <1> QED
    BY <1>3, <1>4 DEF MMSignal

\* Two calls one after the other.
LEMMA TwoJoined ==
    ASSUME NEW d, NEW e
    PROVE  <<d>> \o <<e>> = <<d, e>>
  <1> DEFINE c == <<d>> \o <<e>>
  <1>1. <<d>> \in Seq({d, e}) /\ <<e>> \in Seq({d, e}) /\ Len(<<d>>) = 1 /\ Len(<<e>>) = 1
    OBVIOUS
  <1>2. c \in Seq({d, e}) /\ Len(c) = 2
    BY <1>1, ConcatProperties
  <1>3. c[1] = d /\ c[2] = e
    BY <1>1
  <1>4. <<d, e>> \in Seq({d, e}) /\ Len(<<d, e>>) = 2 /\ <<d, e>>[1] = d /\ <<d, e>>[2] = e
    OBVIOUS
  <1>5. \A i \in 1 .. 2 : c[i] = <<d, e>>[i]
    BY <1>3, <1>4
  <1> HIDE DEF c
  <1>6. c = <<d, e>>
    BY <1>2, <1>4, <1>5, SeqEqual
  <1> QED
    BY <1>6 DEF c

\* Requests of processes to MM.
LEMMA MMRequestKeeps ==
    ASSUME SigInOrder(k, todo), MMRequest
    PROVE  SigInOrder(k, todo)'
  <1> DEFINE u == k.inbox[MM].m_source
             c == Smallest(USERS \ k.in_use)
             ForkCalls == <<SendRec(SYSTASK, ForkRequest(u, c)), TellFS, System("SYS_NEWMAP", c),
                            Reply(c), Reply(u)>>
  <1>1. ASSUME NEW type, Has(MM, type), NEW calls, Work(MM, k, calls),
               \/ type = "FORK" /\ calls = <<Reply(u)>>
               \/ type = "FORK" /\ USERS # k.in_use /\ calls = ForkCalls
               \/ type = "EXIT" /\ calls \in {<<Reply(u)>>, <<TellFS, System("SYS_XIT", u)>>}
               \/ type = "EXEC" /\ calls = <<System("SYS_EXEC", u)>>
               \/ type = "PTRACE" /\ calls = <<Reply(u)>>
               \/ /\ type = "PTRACE"
                  /\ \E v \in USERS :
                       StoppedIn(k, v) /\ calls = <<System("T_RESUME", v), Reply(u)>>
        PROVE  SigInOrder(k, todo)'
    <2>1. MM = k.proc_ptr /\ todo[MM] = << >> /\ k.inbox[MM].m_type = type
      BY <1>1 DEF Has
    <2>2. SigInOrder(Clear(k, MM), [todo EXCEPT ![MM] = calls])
      BY <1>1, <2>1, MMRequests
    <2> QED
      BY <1>1, <2>2, Worked
  <1>2. ASSUME Has(MM, "FORK"),
               IF USERS = k.in_use THEN Work(MM, k, <<Reply(u)>>) ELSE Work(MM, k, ForkCalls)
        PROVE  SigInOrder(k, todo)'
    <2>1. CASE USERS = k.in_use
      BY <1>1, <1>2, <2>1
    <2>2. CASE USERS # k.in_use
      BY <1>1, <1>2, <2>2
    <2> QED
      BY <2>1, <2>2
  <1>3. ASSUME Has(MM, "EXIT"),
               Work(MM, k, IF u = INIT_PROC_NR THEN <<Reply(u)>>
                           ELSE <<TellFS, System("SYS_XIT", u)>>)
        PROVE  SigInOrder(k, todo)'
    <2>1. CASE u = INIT_PROC_NR
      <3>1. Work(MM, k, <<Reply(u)>>)
        BY <1>3, <2>1
      <3> QED
        BY <1>1, <1>3, <3>1
    <2>2. CASE u # INIT_PROC_NR
      <3>1. Work(MM, k, <<TellFS, System("SYS_XIT", u)>>)
        BY <1>3, <2>2
      <3> QED
        BY <1>1, <1>3, <3>1
    <2> QED
      BY <2>1, <2>2
  <1>4. ASSUME Has(MM, "EXEC"), Work(MM, k, <<System("SYS_EXEC", u)>>)
        PROVE  SigInOrder(k, todo)'
    BY <1>1, <1>4
  <1>5. ASSUME Has(MM, "PTRACE"), NEW v \in USERS \ {u},
               Work(MM, k, (IF Stopped(v) THEN <<System("T_RESUME", v)>> ELSE << >>)
                           \o <<Reply(u)>>)
        PROVE  SigInOrder(k, todo)'
    <2>1. CASE Stopped(v)
      <3>1. <<System("T_RESUME", v)>> \o <<Reply(u)>> = <<System("T_RESUME", v), Reply(u)>>
        BY TwoJoined
      <3>2. Work(MM, k, <<System("T_RESUME", v), Reply(u)>>)
        BY <1>5, <2>1, <3>1
      <3>3. v \in USERS /\ StoppedIn(k, v)
        BY <1>5, <2>1 DEF Stopped, StoppedIn
      <3> QED
        BY <1>1, <1>5, <3>2, <3>3
    <2>2. CASE ~Stopped(v)
      <3>1. \A e : << >> \o <<e>> = <<e>>
        OBVIOUS
      <3>2. Work(MM, k, <<Reply(u)>>)
        BY <1>5, <2>2, <3>1
      <3> QED
        BY <1>1, <1>5, <3>2
    <2> QED
      BY <2>1, <2>2
  <1> QED
    BY <1>2, <1>3, <1>4, <1>5 DEF MMRequest

\* Requests to FS.
LEMMA FSRequestKeeps ==
    ASSUME SigInOrder(k, todo), FSRequest
    PROVE  SigInOrder(k, todo)'
  <1> DEFINE u == k.inbox[FS].m_source
  <1>1. ASSUME NEW type \in {"tell_fs", "WRITE"}, Has(FS, type), NEW calls, Work(FS, k, calls),
               \/ calls = <<Reply(u)>>
               \/ type = "WRITE" /\ calls = <<System("SYS_KILL", u), Reply(u)>>
        PROVE  SigInOrder(k, todo)'
    <2>1. FS = k.proc_ptr /\ todo[FS] = << >> /\ k.inbox[FS].m_type = type
      BY <1>1 DEF Has
    <2>2. SigInOrder(Clear(k, FS), [todo EXCEPT ![FS] = calls])
      BY <1>1, <2>1, FSBegins
    <2> QED
      BY <1>1, <2>2, Worked
  <1> QED
    BY <1>1 DEF FSRequest

\* Calls of user processes.
LEMMA UserCallKeeps ==
    ASSUME SigInOrder(k, todo), UserCall
    PROVE  SigInOrder(k, todo)'
  <1> DEFINE u == k.proc_ptr
  <1>1. u \in USERS /\ u \in Procs /\ u \notin Active /\ todo' = todo
        /\ MM \in SERVERS /\ FS \in SERVERS /\ MM # FS
    BY SigNumbers DEF UserCall
  <1>2. SigInOrder(Clear(k, u), todo) /\ Clear(k, u).proc_ptr = u
    BY <1>1, Overwritten
  <1>3. ASSUME NEW dest \in SERVERS, NEW type, dest = MM => type \in MMCalls,
               dest = FS => type = "WRITE", k' = Trap("BOTH", dest, Message(NONE, type))
        PROVE  SigInOrder(k, todo)'
    <2> DEFINE m == Signed(Message(NONE, type), u)
    <2>1. m = Message(u, type)
      BY SignedFields
    <2>2. k' = sys_call(Clear(k, u), "BOTH", dest, m).k
      BY <1>3, Trapped
    <2> HIDE DEF m
    <2>3. SigInOrder(sys_call(Clear(k, u), "BOTH", dest, m).k, todo)
      BY <1>1, <1>2, <1>3, <2>1, UserAsks
    <2> QED
      BY <1>1, <2>2, <2>3
  <1>4. ASSUME NEW type \in MMCalls, k' = Trap("BOTH", MM, Message(NONE, type))
        PROVE  SigInOrder(k, todo)'
    BY <1>1, <1>3, <1>4
  <1>5. ASSUME k' = Trap("BOTH", FS, Message(NONE, "WRITE"))
        PROVE  SigInOrder(k, todo)'
    BY <1>1, <1>3, <1>5
  <1> QED
    BY <1>4, <1>5 DEF UserCall, MMCalls

\* MAX_EVENTS bounds the events.
LEMMA LeftKept ==
    ASSUME left \in 0 .. MAX_EVENTS, SignalsNext
    PROVE  left' \in 0 .. MAX_EVENTS
  <1>1. left' = left \/ (left > 0 /\ left' = left - 1)
    BY DEF SignalsNext, ClockInterrupt, SignalsRun, MakeCall, do_clocktick, sys_task, Served, TracedExec,
           MMSignal, MMRequest, FSRequest, UserCall
  <1> QED
    BY <1>1, SigNumbers

\* Every step of Signals keeps the processes as SigInOrder says.
LEMMA SignalsStep ==
    ASSUME SigInv, [SignalsNext]_signals_vars
    PROVE  SigInv'
  <1>1. SigInOrder(k, todo) /\ left \in 0 .. MAX_EVENTS
    BY DEF SigInv
  <1>2. CASE ClockInterrupt
    <2>1. SigInOrder(interrupt(k, CLOCK), todo)
      BY <1>1, ClockInterruptKeeps
    <2>2. SigInOrder(k, todo)'
      BY <1>2, <2>1 DEF ClockInterrupt
    <2>3. left' \in 0 .. MAX_EVENTS
      BY <1>1, <1>2, LeftKept DEF SignalsNext
    <2> QED
      BY <2>2, <2>3 DEF SigInv
  <1>3. CASE SignalsRun
    <2>1. SigInOrder(k, todo)'
      BY <1>1, <1>3, MakeCallKeeps, ClockTickKeeps, SysTaskKeeps, MMSignalKeeps, MMRequestKeeps,
         FSRequestKeeps, UserCallKeeps DEF SignalsRun
    <2>2. left' \in 0 .. MAX_EVENTS
      BY <1>1, <1>3, LeftKept DEF SignalsNext
    <2> QED
      BY <2>1, <2>2 DEF SigInv
  <1>4. CASE UNCHANGED signals_vars
    BY <1>1, <1>4 DEF SigInv, signals_vars
  <1> QED
    BY <1>2, <1>3, <1>4 DEF SignalsNext

\* The processes are as SigInOrder says after every step of Signals.
THEOREM SigInvHolds == SignalsSpec => []SigInv
  <1>1. SignalsInit => SigInv
    <2> SUFFICES ASSUME SignalsInit PROVE SigInv
      OBVIOUS
    <2>1. SigInOrder(Boot(INIT_PROC_NR), [p \in Active |-> << >>])
      BY BootInOrder
    <2>2. SigInOrder(k, todo)
      BY <2>1 DEF SignalsInit
    <2>3. left \in 0 .. MAX_EVENTS
      BY SigNumbers DEF SignalsInit
    <2> QED
      BY <2>2, <2>3 DEF SigInv
  <1>2. SigInv /\ [SignalsNext]_signals_vars => SigInv'
    BY SignalsStep
  <1> QED
    BY <1>1, <1>2, PTL DEF SignalsSpec

\* What a task or server has still to call is short.
LEMMA CallsFew ==
    ASSUME NEW a, NEW m, NEW calls, AtWork(a, m, calls)
    PROVE  Len(calls) <= 6
  <1>0. \A n \in {0, 1, 2, 3, 4, 5} : n <= 6
    OBVIOUS
  <1>1. Len(<< >>) = 0 /\ \A c : Len(<<c>>) = 1
    OBVIOUS
  <1>2. \A c, d : Len(<<c, d>>) = 2
    OBVIOUS
  <1>3. ASSUME NEW u \in USERS, NEW c \in USERS, Forking(a, m, calls, u, c)
        PROVE  Len(calls) <= 6
    <2>1. \/ calls = <<SendRec(SYSTASK, ForkRequest(u, c)), TellFS, System("SYS_NEWMAP", c),
                      Reply(c), Reply(u)>>
          \/ calls \in {Forked1(c, u), Forked2(c, u), Forked3(c, u)}
      BY <1>3 DEF Forking, ForkBegins, ForkEnds
    <2>2. /\ Len(Forked1(c, u)) = 4 /\ Len(Forked2(c, u)) = 3 /\ Len(Forked3(c, u)) = 2
      BY DEF Forked1, Forked2, Forked3
    <2>3. Len(<<SendRec(SYSTASK, ForkRequest(u, c)), TellFS, System("SYS_NEWMAP", c),
                Reply(c), Reply(u)>>) = 5
      OBVIOUS
    <2>4. Len(calls) \in {5, 4, 3, 2}
      BY <2>1, <2>2, <2>3
    <2> QED
      BY <1>0, <2>4, Zenon
  <1>4. ASSUME NEW u \in USERS, Executing(a, m, calls, u) PROVE Len(calls) <= 6
    BY <1>1, <1>4 DEF Executing
  <1>5. ASSUME NEW u \in USERS, NEW v \in USERS, Resuming(a, m, calls, u, v)
        PROVE  Len(calls) <= 6
    <2>1. calls = <<Reply(u)>> \/ calls = <<System("T_RESUME", v), Reply(u)>>
      BY <1>5 DEF Resuming
    <2>2. Len(<<Reply(u)>>) = 1 /\ Len(<<System("T_RESUME", v), Reply(u)>>) = 2
      BY <1>1, <1>2
    <2>3. Len(calls) \in {1, 2}
      BY <2>1, <2>2
    <2> QED
      BY <1>0, <2>3, Zenon
  <1>6. ASSUME NEW u \in USERS, Signalling(m, calls, u) PROVE Len(calls) <= 6
    BY <1>6 DEF Signalling
  <1> QED
    BY <1>1, <1>3, <1>4, <1>5, <1>6 DEF AtWork

\* The types follow.
LEMMA TypesOfSignals ==
    ASSUME SigInv
    PROVE  SignalsTypeOK
  <1>1. /\ Typed(k) /\ Waits(k) /\ HighestRuns(k) /\ Counted(k)
        /\ TasksInOrder(k, todo) /\ FSInOrder(k, todo) /\ AtWork(k, Requested(k), todo[MM])
        /\ left \in 0 .. MAX_EVENTS
    BY DEF SigInv, SigInOrder, Core, Counts, MMInOrder
  <1>2. \A u \in USERS : k.p_flags[u] \subseteq {"NO_MAP", "PENDING", "SIG_PENDING", "P_STOP"}
    BY <1>1, SigNumbers DEF Typed, Flags
  <1>3. \A u \in USERS \ k.in_use : Runnable(k, u) /\ k.p_pending[u] = {}
    BY <1>1 DEF Waits, Counted
  <1>4. k.sig_procs \in 0 .. Cardinality(USERS)
    <2>1. Marked(k) \subseteq USERS
      BY DEF Marked
    <2>2. /\ Cardinality(Marked(k)) \in Nat /\ Cardinality(USERS) \in Nat
          /\ Cardinality(Marked(k)) <= Cardinality(USERS)
      BY <2>1, SigNumbers, FS_Subset, FS_CardinalityType
    <2> QED
      BY <1>1, <2>2 DEF Counted
  <1>5. k.proc_ptr \in Procs \cup {IDLE}
    <2>1. \A q \in Queues : k.rdy[q] # << >> => Head(k.rdy[q]) \in Procs
      BY <1>1 DEF Typed
    <2> QED
      BY <1>1, <2>1 DEF HighestRuns, Highest, Queues
  <1>6. ASSUME NEW p \in Active PROVE Len(todo[p]) <= 6
    <2>0. \A n \in {0, 1, 2} : n <= 6
      OBVIOUS
    <2>1. Len(<< >>) = 0 /\ \A c : Len(<<c>>) = 1
      OBVIOUS
    <2>2. \A c, d : Len(<<c, d>>) = 2
      OBVIOUS
    <2>3. CASE p \in TASKS
      <3>1. todo[p] = << >> \/ \E s \in SERVERS : todo[p] = <<Reply(s)>>
        BY <1>1, <2>3 DEF TasksInOrder, TaskInOrder
      <3>2. Len(todo[p]) \in {0, 1}
        BY <2>1, <3>1
      <3> QED
        BY <2>0, <3>2, Zenon
    <2>4. CASE p = FS
      <3>1. \/ todo[FS] = << >>
            \/ \E s : todo[FS] = <<Reply(s)>>
            \/ \E u : todo[FS] = <<System("SYS_KILL", u), Reply(u)>>
        BY <1>1 DEF FSInOrder, Writes, Kills, Answers
      <3>2. Len(todo[FS]) \in {0, 1, 2}
        <4>1. CASE todo[FS] = << >>
          BY <2>1, <4>1
        <4>2. CASE \E s : todo[FS] = <<Reply(s)>>
          <5>1. PICK s : todo[FS] = <<Reply(s)>>
            BY <4>2
          <5>2. Len(<<Reply(s)>>) = 1
            BY <2>1
          <5> QED
            BY <5>1, <5>2
        <4>3. CASE \E u : todo[FS] = <<System("SYS_KILL", u), Reply(u)>>
          <5>1. PICK u : todo[FS] = <<System("SYS_KILL", u), Reply(u)>>
            BY <4>3
          <5>2. Len(<<System("SYS_KILL", u), Reply(u)>>) = 2
            BY <2>2
          <5> QED
            BY <5>1, <5>2
        <4> QED
          BY <3>1, <4>1, <4>2, <4>3
      <3> QED
        BY <2>0, <2>4, <3>2, Zenon
    <2>5. CASE p = MM
      BY <1>1, <2>5, CallsFew
    <2> QED
      BY <2>3, <2>4, <2>5, SigNumbers
  <1> QED
    BY <1>1, <1>2, <1>3, <1>4, <1>5, <1>6 DEF SignalsTypeOK

\* The types; and the counts of signals are right at all times, for any users, tasks
\* and events: sig_procs counts the processes with PENDING and is 0 while MM waits for
\* work, the pendcount of a process is that of the signals MM has not been told of and
\* of those it has not ended, SIG_PENDING is kept while there are some (cause_sig,
\* inform, do_endsig, do_fork, do_xit and mini_rec, proc.c and system.c).
THEOREM SignalsCountedHolds == SignalsSpec => []SignalsCounted
  <1>1. SigInv => SignalsCounted
    <2> SUFFICES ASSUME SigInv PROVE SignalsCounted
      OBVIOUS
    <2>1. Counts(k, todo)
      BY DEF SigInv, SigInOrder
    <2>2. Pending = Marked(k)
      BY DEF Pending, Marked
    <2>3. \A u : EndsOf(u) = EndsLeft(k, todo, u)
      BY DEF EndsOf, EndsLeft, EndsIn, EndsGot, Ends
    <2>4. k.sig_procs = Cardinality(Pending) /\ (k.p_getfrom[MM] = ANY => k.sig_procs = 0)
      BY <2>1, <2>2 DEF Counts, Counted
    <2>5. ASSUME NEW u \in k.in_use
          PROVE  /\ k.p_pendcount[u] = Cardinality(k.p_pending[u]) + EndsOf(u)
                 /\ "SIG_PENDING" \in k.p_flags[u] <=> k.p_pendcount[u] > 0
                 /\ "PENDING" \in k.p_flags[u] <=> k.p_pending[u] # {}
      <3>1. UserCounts(k, u, EndsOf(u))
        BY <2>1, <2>3 DEF Counts
      <3> QED
        BY <3>1 DEF UserCounts
    <2> QED
      BY <2>4, <2>5, TypesOfSignals DEF SignalsCounted
  <1> QED
    BY <1>1, SigInvHolds, PTL

\* Stopped, unmapped, signalled, blocked or killed in any order, a process is in its
\* ready queue, once, exactly while p_flags is 0: every operation of proc.c and
\* system.c that changes the flags calls ready or unready when it has to.
THEOREM ReadyThroughSignalsHolds == SignalsSpec => []ReadyThroughSignals
  <1>1. SigInv => ReadyThroughSignals
    BY DEF SigInv, SigInOrder, Core, ReadyThroughSignals
  <1> QED
    BY <1>1, SigInvHolds, PTL

\* A task never blocks in its answer (mini_send, proc.c): the server it answers still
\* waits for it, whatever became meanwhile of the process the request was about.
THEOREM TasksDoNotWaitHolds == SignalsSpec => []TasksDoNotWait
  <1>1. SigInv => TasksDoNotWait
    BY DEF SigInv, SigInOrder, SendersInOrder, TasksDoNotWait
  <1> QED
    BY <1>1, SigInvHolds, PTL
=============================================================================
